---------------------------- MODULE MarpaSymbols ----------------------------
(***************************************************************************)
(* The calls of libmarpa's grammar interface as operators on a grammar     *)
(* record: each returns the grammar after the call, with what the call     *)
(* returned in g.ret (0 and above: done; -1 and -2: refused) and the       *)
(* error register in g.error. The questions return their answer.           *)
(***************************************************************************)
EXTENDS MarpaItems, MarpaAvl

CONSTANT IntBits             \* width of int, for the limits of ranks and earlemes
INT_MAX == 2^(IntBits - 1) - 1
INT_MIN == - 2^(IntBits - 1)
MAXIMUM_RANK == INT_MAX \div 4
MINIMUM_RANK == - ((- INT_MIN) \div 4)

marpa_g_new ==
  [xsy |-> <<>>, xrl |-> <<>>, irl |-> <<>>, start |-> 0, startIrl |-> 0, defaultRank |-> 0,
   forceValued |-> FALSE, precomputed |-> FALSE, hasCycle |-> FALSE, events |-> <<>>,
   xrlTree |-> TRUE, xrlRoot |-> NullTree, nulled |-> <<>>, predicts |-> <<>>, rightNsy |-> <<>>,
   error |-> "NONE", ret |-> 0]

Refused(g, code, ret) == [g EXCEPT !.error = code, !.ret = ret]
Done(g, ret) == [g EXCEPT !.ret = ret]
clear_error(g) == [g EXCEPT !.error = "NONE"]

(* The checks most calls begin with. missing is the answer for a symbol or *)
(* rule that does not exist.                                               *)
BeforePrecompute(g, h) == IF g.precomputed THEN Refused(g, "PRECOMPUTED", -2) ELSE h
WithSymbol(g, x, missing, h) ==
  IF x < 1 THEN Refused(g, "INVALID_SYMBOL_ID", -2)
  ELSE IF x > Len(g.xsy) THEN Refused(g, "NO_SUCH_SYMBOL_ID", missing)
  ELSE h
WithRule(g, r, missing, h) ==
  IF r < 1 THEN Refused(g, "INVALID_RULE_ID", -2)
  ELSE IF r > Len(g.xrl) THEN Refused(g, "NO_SUCH_RULE_ID", missing)
  ELSE h

(* Mutant: ranks may be as large as an int.                                *)
WithRankUnbounded(g, rank, h) == h

WithRank(g, rank, h) ==
  IF rank < MINIMUM_RANK THEN Refused(g, "RANK_TOO_LOW", -2)
  ELSE IF rank > MAXIMUM_RANK THEN Refused(g, "RANK_TOO_HIGH", -2)
  ELSE h

(***************************************************************************)
(* Symbols.                                                                *)
(***************************************************************************)
symbol_new(g) ==
  [g EXCEPT !.xsy = Append(@,
     [lhs |-> FALSE, seqLhs |-> FALSE, counted |-> FALSE, terminal |-> FALSE,
      lockedTerminal |-> FALSE, valued |-> g.forceValued, lockedValued |-> g.forceValued,
      rank |-> g.defaultRank, completionEvent |-> FALSE, nulledEvent |-> FALSE,
      predictionEvent |-> FALSE, accessible |-> FALSE, productive |-> FALSE,
      nullable |-> FALSE, nulling |-> FALSE, start |-> FALSE]),
     !.ret = Len(g.xsy) + 1]

marpa_g_start_symbol_set(g, x) ==
  BeforePrecompute(g, WithSymbol(g, x, -1, Done([g EXCEPT !.start = x], x)))

marpa_g_default_rank_set(g0, rank) ==
  LET g == clear_error(g0)
  IN  BeforePrecompute(g, WithRank(g, rank, Done([g EXCEPT !.defaultRank = rank], rank)))

marpa_g_symbol_rank_set(g0, x, rank) ==
  LET g == clear_error(g0)
  IN  BeforePrecompute(g, WithSymbol(g, x, -2, WithRank(g, rank,
        Done([g EXCEPT !.xsy[x].rank = rank], rank))))

(* Stops at the first symbol that is locked as unvalued; the symbols       *)
(* before it stay valued and locked.                                       *)
marpa_g_force_valued(g) ==
  LET stop == {x \in XsyIds(g) : g.xsy[x].lockedValued /\ ~ g.xsy[x].valued}
      Forced(upto) == [x \in XsyIds(g) |->
                         IF x <= upto THEN [g.xsy[x] EXCEPT !.valued = TRUE, !.lockedValued = TRUE]
                         ELSE g.xsy[x]]
  IN  IF stop = {} THEN Done([g EXCEPT !.xsy = Forced(Len(g.xsy)), !.forceValued = TRUE], 0)
      ELSE Refused([g EXCEPT !.xsy = Forced((CHOOSE x \in stop : \A y \in stop : x <= y) - 1)],
                   "VALUED_IS_LOCKED", -2)

Flag(b) == IF b THEN 1 ELSE 0

(* Setting does not lock.                                                  *)
marpa_g_symbol_is_valued_set(g, x, value) ==
  WithSymbol(g, x, -1,
    IF g.xsy[x].lockedValued /\ value # g.xsy[x].valued THEN Refused(g, "VALUED_IS_LOCKED", -2)
    ELSE Done([g EXCEPT !.xsy[x].valued = value], Flag(value)))

marpa_g_symbol_is_terminal_set(g, x, value) ==
  BeforePrecompute(g, WithSymbol(g, x, -1,
    IF g.xsy[x].lockedTerminal /\ g.xsy[x].terminal # value
    THEN Refused(g, "TERMINAL_IS_LOCKED", -2)
    ELSE Done([g EXCEPT !.xsy[x].lockedTerminal = TRUE, !.xsy[x].terminal = value], Flag(value))))

marpa_g_symbol_is_completion_event_set(g, x, value) ==
  BeforePrecompute(g, WithSymbol(g, x, -1,
    Done([g EXCEPT !.xsy[x].completionEvent = value], Flag(value))))
marpa_g_symbol_is_nulled_event_set(g, x, value) ==
  BeforePrecompute(g, WithSymbol(g, x, -1,
    Done([g EXCEPT !.xsy[x].nulledEvent = value], Flag(value))))
marpa_g_symbol_is_prediction_event_set(g, x, value) ==
  BeforePrecompute(g, WithSymbol(g, x, -1,
    Done([g EXCEPT !.xsy[x].predictionEvent = value], Flag(value))))

(***************************************************************************)
(* Rules.                                                                  *)
(***************************************************************************)
xsy_id_is_valid(g, x) == x \in XsyIds(g)

xrl_finish(g, lhs, rhs) ==
  [lhs |-> lhs, rhs |-> rhs, rank |-> g.defaultRank, nullHigh |-> FALSE, bnf |-> FALSE,
   sequence |-> FALSE, min |-> -1, sep |-> 0, discard |-> FALSE, proper |-> FALSE,
   loop |-> FALSE, nulling |-> FALSE, nullable |-> FALSE, accessible |-> TRUE,
   productive |-> TRUE, used |-> FALSE]

(* duplicate_rule_cmp subtracts the first rule from the second.            *)
duplicate_rule_cmp(lhs, rhs) ==
  <<- lhs, - Len(rhs)>> \o [i \in DOMAIN rhs |-> - rhs[i]]

(* The rule goes into the tree of rules before it is added. The tree is    *)
(* gone after a precomputation that got as far as the census: inserting    *)
(* into it ends the program.                                               *)
marpa_g_rule_new(g, lhs, rhs) ==
  BeforePrecompute(g,
    IF ~ xsy_id_is_valid(g, lhs) \/ \E i \in DOMAIN rhs : ~ xsy_id_is_valid(g, rhs[i])
    THEN Refused(g, "INVALID_SYMBOL_ID", -2)
    ELSE IF g.xsy[lhs].seqLhs THEN Refused(g, "SEQUENCE_LHS_NOT_UNIQUE", -2)
    ELSE IF ~ g.xrlTree THEN Refused(g, "CRASHED", -2)
    ELSE IF _marpa_avl_find(g.xrlRoot, duplicate_rule_cmp(lhs, rhs))
    THEN Refused(g, "DUPLICATE_RULE", -2)
    ELSE Done([g EXCEPT !.xsy[lhs].lhs = TRUE,
                        !.xrl = Append(@, [xrl_finish(g, lhs, rhs) EXCEPT !.bnf = TRUE]),
                        !.xrlRoot = _marpa_avl_insert(@, duplicate_rule_cmp(lhs, rhs))],
              Len(g.xrl) + 1))

(* Mutant: the item is counted before the left-hand side is looked at.     *)
marpa_g_sequence_newEarly(g0, lhs, item, sep, min, keep, proper) ==
  LET g == [g0 EXCEPT !.xsy[item].counted = TRUE]
  IN  BeforePrecompute(g, IF g.xsy[lhs].lhs THEN Refused(g, "SEQUENCE_LHS_NOT_UNIQUE", -2) ELSE g)

(* A sequence is not put into the tree. sep is 0 for no separator.         *)
marpa_g_sequence_new(g, lhs, item, sep, min, keep, proper) ==
  LET rule == [xrl_finish(g, lhs, <<item>>) EXCEPT
                 !.sequence = TRUE, !.min = min, !.sep = sep,
                 !.discard = ~ keep /\ sep # 0, !.proper = proper]
      Count(x, is) == IF x \in {item, sep} THEN TRUE ELSE is
  IN  BeforePrecompute(g,
        IF sep # 0 /\ ~ xsy_id_is_valid(g, sep) THEN Refused(g, "BAD_SEPARATOR", -2)
        ELSE IF ~ xsy_id_is_valid(g, lhs) THEN Refused(g, "INVALID_SYMBOL_ID", -2)
        ELSE IF g.xsy[lhs].lhs THEN Refused(g, "SEQUENCE_LHS_NOT_UNIQUE", -2)
        ELSE IF ~ xsy_id_is_valid(g, item) THEN Refused(g, "INVALID_SYMBOL_ID", -2)
        ELSE Done([g EXCEPT !.xrl = Append(@, rule),
                            !.xsy = [x \in XsyIds(g) |->
                                       [@[x] EXCEPT !.lhs = @ \/ x = lhs,
                                                    !.seqLhs = @ \/ x = lhs,
                                                    !.counted = Count(x, @)]]],
                  Len(g.xrl) + 1))

marpa_g_rule_rank_set(g0, r, rank) ==
  LET g == clear_error(g0)
  IN  BeforePrecompute(g, WithRule(g, r, -2, WithRank(g, rank,
        Done([g EXCEPT !.xrl[r].rank = rank], rank))))

marpa_g_rule_null_high_set(g, r, value) ==
  BeforePrecompute(g, WithRule(g, r, -1, Done([g EXCEPT !.xrl[r].nullHigh = value], Flag(value))))

marpa_g_precompute(g) ==
  LET h == Precompute(g) IN [h EXCEPT !.ret = IF h.error = "NONE" THEN 0 ELSE -2]

(***************************************************************************)
(* Questions. A symbol or rule that cannot exist is answered by -2, one    *)
(* that does not by missing, and those about the census by -2 before it.   *)
(***************************************************************************)
Asked(id, count, missing, answer) ==
  IF id < 1 THEN -2 ELSE IF id > count THEN missing ELSE answer
AfterPrecompute(g, answer) == IF g.precomputed THEN answer ELSE -2
SymbolFlag(g, x, name) == Asked(x, Len(g.xsy), -1, Flag(g.xsy[x][name]))
RuleFlag(g, r, name) == Asked(r, Len(g.xrl), -1, Flag(g.xrl[r][name]))

marpa_g_symbol_is_start(g, x) == SymbolFlag(g, x, "start")
marpa_g_symbol_rank(g, x) == Asked(x, Len(g.xsy), -2, g.xsy[x].rank)
marpa_g_symbol_is_valued(g, x) == SymbolFlag(g, x, "valued")
marpa_g_symbol_is_accessible(g, x) == AfterPrecompute(g, SymbolFlag(g, x, "accessible"))
marpa_g_symbol_is_counted(g, x) == SymbolFlag(g, x, "counted")
marpa_g_symbol_is_nulling(g, x) == AfterPrecompute(g, SymbolFlag(g, x, "nulling"))
marpa_g_symbol_is_nullable(g, x) == AfterPrecompute(g, SymbolFlag(g, x, "nullable"))
marpa_g_symbol_is_terminal(g, x) == SymbolFlag(g, x, "terminal")
marpa_g_symbol_is_productive(g, x) == AfterPrecompute(g, SymbolFlag(g, x, "productive"))
marpa_g_symbol_is_completion_event(g, x) == SymbolFlag(g, x, "completionEvent")
marpa_g_symbol_is_nulled_event(g, x) == SymbolFlag(g, x, "nulledEvent")
marpa_g_symbol_is_prediction_event(g, x) == SymbolFlag(g, x, "predictionEvent")

marpa_g_rule_lhs(g, r) == Asked(r, Len(g.xrl), -1, g.xrl[r].lhs)
marpa_g_rule_length(g, r) == Asked(r, Len(g.xrl), -1, Len(g.xrl[r].rhs))
marpa_g_rule_rhs(g, r, ix) ==
  Asked(r, Len(g.xrl), -1, IF ix \in DOMAIN g.xrl[r].rhs THEN g.xrl[r].rhs[ix] ELSE -2)
marpa_g_rule_rank(g, r) == Asked(r, Len(g.xrl), -2, g.xrl[r].rank)
marpa_g_rule_null_high(g, r) == RuleFlag(g, r, "nullHigh")
marpa_g_sequence_min(g, r) ==
  Asked(r, Len(g.xrl), -2, IF g.xrl[r].sequence THEN g.xrl[r].min ELSE -1)
marpa_g_sequence_separator(g, r) ==
  Asked(r, Len(g.xrl), -2, IF g.xrl[r].sequence /\ g.xrl[r].sep # 0 THEN g.xrl[r].sep ELSE -1)
_marpa_g_rule_is_keep_separation(g, r) == Asked(r, Len(g.xrl), -1, 1 - RuleFlag(g, r, "discard"))
marpa_g_rule_is_proper_separation(g, r) == Asked(r, Len(g.xrl), -1, 1 - RuleFlag(g, r, "proper"))
marpa_g_rule_is_loop(g, r) ==
  Asked(r, Len(g.xrl), -1, AfterPrecompute(g, Flag(g.xrl[r].loop)))
marpa_g_rule_is_nulling(g, r) == RuleFlag(g, r, "nulling")
marpa_g_rule_is_nullable(g, r) == RuleFlag(g, r, "nullable")
marpa_g_rule_is_accessible(g, r) == RuleFlag(g, r, "accessible")
marpa_g_rule_is_productive(g, r) == RuleFlag(g, r, "productive")
_marpa_g_rule_is_used(g, r) == RuleFlag(g, r, "used")

(* Questions about the internal rules.                                     *)
AskedIrl(g, i, answer) == AfterPrecompute(g, IF i \in IrlIds(g) THEN answer ELSE -2)
_marpa_g_irl_length(g, i) == AskedIrl(g, i, Len(g.irl[i].rhs))
_marpa_g_irl_is_virtual_lhs(g, i) == AskedIrl(g, i, Flag(g.irl[i].vlhs))
_marpa_g_irl_is_virtual_rhs(g, i) == AskedIrl(g, i, Flag(g.irl[i].vrhs))
_marpa_g_real_symbol_count(g, i) == AskedIrl(g, i, g.irl[i].real)
_marpa_g_virtual_start(g, i) == AskedIrl(g, i, g.irl[i].vstart)
_marpa_g_irl_rank(g, i) == IF i \in IrlIds(g) THEN g.irl[i].rank ELSE -2
_marpa_g_source_xrl(g, i) ==
  IF i \notin IrlIds(g) THEN -2 ELSE IF g.irl[i].xrl = 0 THEN -1 ELSE g.irl[i].xrl
=============================================================================
