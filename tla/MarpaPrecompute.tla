-------------------------- MODULE MarpaPrecompute --------------------------
(***************************************************************************)
(* What libmarpa's marpa_g_precompute computes from the symbols and rules  *)
(* of a grammar: the census (which symbols are terminal, nullable,         *)
(* productive, accessible, nulling, which rules loop), and the internal    *)
(* rules the recognizer runs on.                                           *)
(*                                                                         *)
(* A grammar is a record g. g.xsy and g.xrl are the sequences of external  *)
(* symbols and rules; an id is an index, 0 stands for libmarpa's -1. g.irl *)
(* is the sequence of internal rules. An internal symbol is a record: the  *)
(* external symbol itself ("xsy"), its nulling alias ("null"), a symbol    *)
(* made up for a part of a rule ("virtual") or the augmented start symbol  *)
(* ("start"). Bit vectors are sets, bit matrices functions from rows to    *)
(* sets of columns.                                                        *)
(***************************************************************************)
EXTENDS Integers, Sequences, FiniteSets, SequencesExt, FiniteSetsExt

XsyIds(g) == DOMAIN g.xsy
XrlIds(g) == DOMAIN g.xrl

(* A matrix is closed in place, one intermediate row after the other.      *)
transitive_closure(matrix) ==
  LET Via(outer_row, m) ==
        [column \in DOMAIN m |-> IF outer_row \in m[column]
                                 THEN m[column] \cup m[outer_row]
                                 ELSE m[column]]
  IN  FoldSet(Via, matrix, DOMAIN matrix)

(***************************************************************************)
(* Census.                                                                 *)
(***************************************************************************)

(* The checks that stop precomputation before anything changes.            *)
PrecomputeError(g) ==
  IF Len(g.xrl) = 0 THEN "NO_RULES"
  ELSE IF g.precomputed THEN "PRECOMPUTED"
  ELSE IF g.start = 0 THEN "NO_START_SYMBOL"
  ELSE IF ~ g.xsy[g.start].lhs THEN "START_NOT_LHS"
  ELSE "NONE"

lhs_v(g) == {g.xrl[r].lhs : r \in XrlIds(g)}

empty_lhs_v(g) ==
  {g.xrl[r].lhs : r \in {q \in XrlIds(g) :
                           \/ g.xrl[q].sequence /\ g.xrl[q].min <= 0
                           \/ g.xrl[q].rhs = <<>>}}

(* Rules with a symbol on the right-hand side or as separator, and rules   *)
(* with a symbol on the left-hand side.                                    *)
xrl_list_x_rh_sym(g) ==
  [x \in XsyIds(g) |-> {r \in XrlIds(g) : \/ x \in ToSet(g.xrl[r].rhs)
                                          \/ g.xrl[r].sequence /\ g.xrl[r].sep = x}]
xrl_list_x_lh_sym(g) == [x \in XsyIds(g) |-> {r \in XrlIds(g) : g.xrl[r].lhs = x}]

(* A locked symbol is what it was set to, any other is a terminal when it  *)
(* is on no left-hand side.                                                *)
terminal_v(g) ==
  {x \in XsyIds(g) : IF g.xsy[x].lockedTerminal THEN g.xsy[x].terminal
                     ELSE x \notin lhs_v(g)}

(* The symbols of a left-hand side's rules, and all symbols below it.      *)
Below(g, x) ==
  UNION {ToSet(g.xrl[r].rhs)
           \cup (IF g.xrl[r].sequence /\ g.xrl[r].sep # 0 THEN {g.xrl[r].sep} ELSE {})
         : r \in xrl_list_x_lh_sym(g)[x]}
reach_matrix(g) == transitive_closure([x \in XsyIds(g) |-> Below(g, x)])

(* A left-hand side joins when its whole right-hand side is in, with the   *)
(* separator only when the sequence needs one.                             *)
NeedsSeparator(rule) == rule.sequence /\ rule.min >= 2 /\ rule.sep # 0
WholeRhsIn(rule, bv) ==
  ToSet(rule.rhs) \subseteq bv /\ (NeedsSeparator(rule) => rule.sep \in bv)
LhsJoins(rule, bv) == rule.lhs \notin bv /\ WholeRhsIn(rule, bv)

(* A worklist: the symbols of bv whose rules have not been looked at.      *)
rhs_closure(g, bv) ==
  LET close[seen \in SUBSET XsyIds(g), stack \in SUBSET XsyIds(g)] ==
        IF stack = {} THEN seen
        ELSE LET x   == CHOOSE y \in stack : TRUE
                 new == {g.xrl[r].lhs : r \in {q \in xrl_list_x_rh_sym(g)[x] :
                                                 LhsJoins(g.xrl[q], seen)}}
             IN  close[seen \cup new, (stack \ {x}) \cup new]
  IN  close[bv, bv]

(* Mutant: only symbols with an empty rule of their own.                   *)
nullable_vDirect(g) == empty_lhs_v(g)

nullable_v(g) == rhs_closure(g, empty_lhs_v(g))

productive_v(g) ==
  rhs_closure(g, nullable_v(g) \cup terminal_v(g))

accessible_v(g) == reach_matrix(g)[g.start] \cup {g.start}

(* Left-hand sides from which no terminal is reachable.                    *)
nulling_v(g) == {x \in lhs_v(g) : reach_matrix(g)[x] \cap terminal_v(g) = {}}

(* The flags set on the symbols by each stage. None is ever cleared.       *)
MarkTerminals(g) ==
  LET new == {x \in terminal_v(g) : ~ g.xsy[x].lockedTerminal}
  IN  [g EXCEPT !.xsy = [x \in XsyIds(g) |->
                           [@[x] EXCEPT !.terminal = @ \/ x \in new]]]
MarkNullable(g) ==
  LET marks   == nullable_v(g)
      counted == SelectSeq([x \in XsyIds(g) |-> x], LAMBDA x : x \in marks /\ g.xsy[x].counted)
  IN  [g EXCEPT !.xsy = [x \in XsyIds(g) |-> [@[x] EXCEPT !.nullable = @ \/ x \in marks]],
                !.events = @ \o [i \in DOMAIN counted |-> <<"COUNTED_NULLABLE", counted[i]>>]]
MarkProductive(g) ==
  LET marks == productive_v(g)
  IN  [g EXCEPT !.xsy = [x \in XsyIds(g) |-> [@[x] EXCEPT !.productive = @ \/ x \in marks]]]
MarkAccessible(g) ==
  LET marks == accessible_v(g)
  IN  [g EXCEPT !.xsy = [x \in XsyIds(g) |-> [@[x] EXCEPT !.accessible = @ \/ x \in marks]]]
MarkNulling(g) ==
  LET marks == nulling_v(g)
      wrong == SelectSeq([x \in XsyIds(g) |-> x], LAMBDA x : x \in marks /\ g.xsy[x].terminal)
  IN  [g EXCEPT !.xsy = [x \in XsyIds(g) |-> [@[x] EXCEPT !.nulling = @ \/ x \in marks]],
                !.events = @ \o [i \in DOMAIN wrong |-> <<"NULLING_TERMINAL", wrong[i]>>]]

(* Flags of a sequence rule and of an ordinary rule.                       *)
SequenceFlags(g, r) ==
  LET rule == g.xrl[r]
      item == g.xsy[rule.rhs[1]]
      hasSep == rule.sep # 0
      nullable == rule.min <= 0 \/ item.nullable
      nulling  == item.nulling /\ (hasSep => g.xsy[rule.sep].nulling)
      sepOk    == hasSep => g.xsy[rule.sep].productive
      accessible == g.xsy[rule.lhs].accessible
  IN  [rule EXCEPT !.accessible = accessible,
                   !.nullable   = nullable,
                   !.nulling    = nulling,
                   !.productive = nullable \/ (item.productive /\ sepOk),
                   !.used       = accessible /\ item.productive /\ sepOk /\ ~ nulling]
BnfFlags(g, r) ==
  LET rule == g.xrl[r]
      symbols == {g.xsy[x] : x \in ToSet(rule.rhs)}
      accessible == g.xsy[rule.lhs].accessible
      nulling    == \A s \in symbols : s.nulling
      productive == \A s \in symbols : s.productive
  IN  [rule EXCEPT !.accessible = accessible,
                   !.nullable   = \A s \in symbols : s.nullable,
                   !.nulling    = nulling,
                   !.productive = productive,
                   !.used       = accessible /\ productive /\ ~ nulling]
MarkRules(g) ==
  [g EXCEPT !.xrl = [r \in XrlIds(g) |-> IF g.xrl[r].sequence THEN SequenceFlags(g, r)
                                         ELSE BnfFlags(g, r)]]

(* The symbols that are null wherever a nullable symbol is.                *)
Nulled_XSYIDs(g) ==
  transitive_closure(
    [x \in XsyIds(g) |->
       (IF g.xsy[x].nullable THEN {x} ELSE {})
         \cup UNION {ToSet(g.xrl[r].rhs) : r \in {q \in XrlIds(g) : /\ g.xrl[q].lhs = x
                                                                    /\ g.xrl[q].nullable}}])

(* A rule leads to another when all but one symbol of it can be null and   *)
(* the other rule is for that one; a rule that leads to itself is a loop.  *)
unit_transition_matrix(g) ==
  LET nullable == nullable_v(g)
      NonNullable(r) == SelectSeq(g.xrl[r].rhs, LAMBDA x : x \notin nullable)
      Into(r) == CASE Len(NonNullable(r)) = 1 -> {NonNullable(r)[1]}
                   [] Len(NonNullable(r)) = 0 -> {x \in ToSet(g.xrl[r].rhs) : ~ g.xsy[x].nulling}
                   [] OTHER -> {}
  IN  [r \in XrlIds(g) |-> UNION {xrl_list_x_lh_sym(g)[x] : x \in Into(r)}]

(* Mutant: only rules that lead to themselves in one step.                 *)
MarkLoopsDirect(g) ==
  LET loops == {r \in XrlIds(g) : r \in unit_transition_matrix(g)[r]}
  IN  [g EXCEPT !.xrl = [r \in XrlIds(g) |-> [@[r] EXCEPT !.loop = @ \/ r \in loops]],
                !.hasCycle = @ \/ loops # {}]

MarkLoops(g) ==
  LET closed == transitive_closure(unit_transition_matrix(g))
      loops  == {r \in XrlIds(g) : r \in closed[r]}
  IN  [g EXCEPT !.xrl = [r \in XrlIds(g) |-> [@[r] EXCEPT !.loop = @ \/ r \in loops]],
                !.hasCycle = @ \/ loops # {},
                !.events = IF loops = {} THEN @
                           ELSE Append(@, <<"LOOP_RULES", Cardinality(loops)>>)]
=============================================================================
