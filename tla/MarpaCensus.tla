---------------------------- MODULE MarpaCensus ----------------------------
(***************************************************************************)
(* The census of marpa_g_precompute with its loops taken one turn at a     *)
(* time: transitive_closure over the reach matrix, rhs_closure for the     *)
(* nullable and again for the productive symbols, and the verdicts on the  *)
(* start symbol, on counted symbols and on nulling terminals.              *)
(*                                                                         *)
(* MarpaPrecompute has the same computation as operators on a grammar, for *)
(* the models that use its result. Here the bit vectors, the matrix and    *)
(* the worklist are variables, so that what the loops compute can be       *)
(* proved for every grammar.                                               *)
(***************************************************************************)
EXTENDS MarpaPrecompute

CONSTANT Grammars   \* the grammars that can be precomputed

Rules(n) == [lhs : 1 .. n, rhs : Seq(1 .. n), sequence : BOOLEAN, min : Int, sep : 0 .. n]

\* Grammars that pass the first checks. A sequence has one symbol on its right-
\* hand side, and only a sequence has a separator.
ASSUME CensusConstants ==
  \A gr \in Grammars :
    LET n == Len(gr.xsy) IN
    /\ gr.xsy \in Seq([counted : BOOLEAN, lockedTerminal : BOOLEAN, terminal : BOOLEAN])
    /\ gr.xrl \in Seq(Rules(n)) /\ gr.start \in lhs_v(gr)
    /\ \A r \in DOMAIN gr.xrl : IF gr.xrl[r].sequence THEN Len(gr.xrl[r].rhs) = 1
                                ELSE gr.xrl[r].sep = 0

VARIABLES
  G,                  \* the grammar, which stays as it is
  pc,                 \* the loop that runs
  outer_row, column,  \* of transitive_closure
  matrix,             \* reach_matrix
  bv,                 \* the vector rhs_closure closes
  scan,               \* where it looks for the symbols to begin with
  stack,              \* symbols of bv whose rules are still to be looked at
  todo,               \* rules of the last of them that are still to be looked at
  nullable, productive, accessible, nulling,  \* the flags of the symbols
  error

closing == <<bv, scan, stack, todo>>
flags == <<nullable, productive, accessible, nulling>>
censusVars == <<G, pc, outer_row, column, matrix, closing, flags, error>>

CensusInit ==
  /\ G \in Grammars
  /\ pc = "reach" /\ outer_row = 1 /\ column = 1
  /\ matrix = [x \in XsyIds(G) |-> Below(G, x)]
  /\ bv = {} /\ scan = 1 /\ stack = <<>> /\ todo = {}
  /\ nullable = {} /\ productive = {} /\ accessible = {} /\ nulling = {}
  /\ error = "NONE"

\* Mutant: the roles of the two loops are swapped.
closeRowSwapped ==
  /\ pc = "reach" /\ outer_row <= Len(G.xsy)
  /\ matrix' = IF column \in matrix[outer_row]
               THEN [matrix EXCEPT ![outer_row] = @ \cup matrix[column]]
               ELSE matrix
  /\ outer_row' = IF column = Len(G.xsy) THEN outer_row + 1 ELSE outer_row
  /\ column' = IF column = Len(G.xsy) THEN 1 ELSE column + 1
  /\ UNCHANGED <<G, pc, closing, flags, error>>

\* One turn of the inner loop: every row that reaches outer_row reaches what
\* that row reaches.
closeRow ==
  /\ pc = "reach" /\ outer_row <= Len(G.xsy)
  /\ matrix' = IF outer_row \in matrix[column]
               THEN [matrix EXCEPT ![column] = @ \cup matrix[outer_row]]
               ELSE matrix
  /\ outer_row' = IF column = Len(G.xsy) THEN outer_row + 1 ELSE outer_row
  /\ column' = IF column = Len(G.xsy) THEN 1 ELSE column + 1
  /\ UNCHANGED <<G, pc, closing, flags, error>>

\* rhs_closure is called for a vector.
enterClosure(v, loop) == bv' = v /\ scan' = 1 /\ stack' = <<>> /\ todo' = {} /\ pc' = loop

findNullable ==
  /\ pc = "reach" /\ outer_row > Len(G.xsy)
  /\ enterClosure(empty_lhs_v(G), "nullable")
  /\ UNCHANGED <<G, outer_row, column, matrix, flags, error>>

InClosure == pc \in {"nullable", "productive"}

\* The symbols of the vector are pushed in order.
pushFirst ==
  /\ InClosure /\ scan <= Len(G.xsy)
  /\ scan' = scan + 1
  /\ stack' = IF scan \in bv THEN Append(stack, scan) ELSE stack
  /\ UNCHANGED <<G, pc, outer_row, column, matrix, bv, todo, flags, error>>

popSymbol ==
  /\ InClosure /\ scan > Len(G.xsy) /\ todo = {} /\ stack # <<>>
  /\ stack' = SubSeq(stack, 1, Len(stack) - 1)
  /\ todo' = xrl_list_x_rh_sym(G)[stack[Len(stack)]]
  /\ UNCHANGED <<G, pc, outer_row, column, matrix, bv, scan, flags, error>>

\* The rules of a symbol are looked at in the order of their ids.
visitRule ==
  /\ InClosure
  /\ \E r \in todo :
       /\ \A q \in todo : r <= q
       /\ todo' = todo \ {r}
       /\ IF LhsJoins(G.xrl[r], bv)
          THEN bv' = bv \cup {G.xrl[r].lhs} /\ stack' = Append(stack, G.xrl[r].lhs)
          ELSE UNCHANGED <<bv, stack>>
  /\ UNCHANGED <<G, pc, outer_row, column, matrix, scan, flags, error>>

ClosureDone == scan > Len(G.xsy) /\ todo = {} /\ stack = <<>>

fails(e) == pc' = "failed" /\ error' = e

\* What is nullable is marked; a symbol that is counted by a sequence must not be.
markNullable ==
  /\ pc = "nullable" /\ ClosureDone
  /\ nullable' = bv
  /\ IF \E x \in bv : G.xsy[x].counted
     THEN fails("COUNTED_NULLABLE") /\ UNCHANGED closing
     ELSE enterClosure(bv \cup terminal_v(G), "productive") /\ UNCHANGED error
  /\ UNCHANGED <<G, outer_row, column, matrix, productive, accessible, nulling>>

markProductive ==
  /\ pc = "productive" /\ ClosureDone
  /\ productive' = bv
  /\ IF G.start \in bv THEN pc' = "mark" /\ UNCHANGED error ELSE fails("UNPRODUCTIVE_START")
  /\ UNCHANGED <<G, outer_row, column, matrix, closing, nullable, accessible, nulling>>

\* Symbols below the start symbol, and left-hand sides above no terminal.
IsTerminal(x) == G.xsy[x].terminal \/ x \in terminal_v(G)

markReached ==
  /\ pc = "mark"
  /\ accessible' = matrix[G.start] \cup {G.start}
  /\ nulling' = {x \in lhs_v(G) : terminal_v(G) \cap matrix[x] = {}}
  /\ IF \E x \in nulling' : IsTerminal(x) THEN fails("NULLING_TERMINAL")
     ELSE pc' = "done" /\ UNCHANGED error
  /\ UNCHANGED <<G, outer_row, column, matrix, closing, nullable, productive>>

CensusNext == \/ closeRow \/ findNullable \/ pushFirst \/ popSymbol \/ visitRule
              \/ markNullable \/ markProductive \/ markReached

CensusSpec == CensusInit /\ [][CensusNext]_censusVars

(***************************************************************************)
(* Reference: what the rules mean, as least sets.                          *)
(***************************************************************************)
\* A set that has the left-hand side of every rule that can be used with it.
Usable(rule, C) == (rule.sequence /\ rule.min <= 0) \/ WholeRhsIn(rule, C)
ClosedUnderRules(C) == \A r \in XrlIds(G) : Usable(G.xrl[r], C) => G.xrl[r].lhs \in C
Derived(base) ==
  {x \in XsyIds(G) : \A C \in SUBSET XsyIds(G) : base \subseteq C /\ ClosedUnderRules(C) => x \in C}

\* A set that has what is below its members.
ClosedBelow(C) == \A x \in C : Below(G, x) \subseteq C
Reached(base) ==
  {x \in XsyIds(G) : \A C \in SUBSET XsyIds(G) : base \subseteq C /\ ClosedBelow(C) => x \in C}

(***************************************************************************)
(* Properties.                                                             *)
(***************************************************************************)
\* Types of the vectors and of the matrix.
CensusTypeOK ==
  /\ pc \in {"reach", "nullable", "productive", "mark", "failed", "done"}
  /\ outer_row \in Nat \ {0} /\ column \in XsyIds(G) /\ scan \in Nat \ {0}
  /\ matrix \in [XsyIds(G) -> SUBSET XsyIds(G)]
  /\ bv \subseteq XsyIds(G) /\ stack \in Seq(XsyIds(G)) /\ todo \subseteq XrlIds(G)

\* The worklist of rhs_closure is allocated with one place per symbol and pushed
\* without a test: no symbol is ever on it twice, so that it has room.
WorklistFits ==
  /\ Len(stack) <= Len(G.xsy)
  /\ \A i, j \in DOMAIN stack : stack[i] = stack[j] => i = j

\* A symbol is marked nullable exactly when the rules derive the empty string
\* from it, and productive exactly when they derive a string of terminals: the
\* worklist, which looks at a rule only when one of its symbols is popped,
\* forgets no rule and marks nothing else.
DerivesExact ==
  /\ pc \in {"productive", "mark", "done"} => nullable = Derived({})
  /\ pc \in {"mark", "done"} => productive = Derived(terminal_v(G))

\* transitive_closure, which changes the matrix in place while it reads it, finds
\* exactly the symbols below each symbol.
ReachExact ==
  pc # "reach" => \A x \in XsyIds(G) : matrix[x] = Reached(Below(G, x))

\* A symbol is marked accessible exactly when it is below the start symbol. A
\* productive symbol marked nulling derives the empty string, and nothing
\* marked nulling is a terminal or has one below it.
MarksMean ==
  pc = "done" => /\ accessible = Reached({G.start})
                 /\ nulling \cap Derived(terminal_v(G)) \subseteq Derived({})
                 /\ \A x \in nulling : ({x} \cup Reached(Below(G, x))) \cap terminal_v(G) = {}

\* Precomputation is refused only for the reason it gives, and goes on past the
\* nullable symbols only when none of them is counted.
VerdictRight ==
  /\ error = "COUNTED_NULLABLE" => \E x \in Derived({}) : G.xsy[x].counted
  /\ error = "UNPRODUCTIVE_START" => G.start \notin Derived(terminal_v(G))
  /\ error = "NULLING_TERMINAL" =>
       \E x \in lhs_v(G) : IsTerminal(x) /\ Reached(Below(G, x)) \cap terminal_v(G) = {}
  /\ pc \in {"productive", "mark", "done"} => \A x \in Derived({}) : ~ G.xsy[x].counted

\* The census is right: all of the above, for the vectors, the matrix, the marks
\* and the verdicts together.
CensusRight ==
  CensusTypeOK /\ WorklistFits /\ DerivesExact /\ ReachExact /\ MarksMean /\ VerdictRight
=============================================================================
