---------------------------- MODULE MarpaGrammar ----------------------------
(***************************************************************************)
(* A libmarpa grammar from marpa_g_new to after marpa_g_precompute, and    *)
(* what the census and the internal rules must say about the grammar the   *)
(* caller described.                                                       *)
(***************************************************************************)
EXTENDS MarpaSymbols

CONSTANTS MaxSymbols,    \* symbols a behaviour makes
          RuleMenu,      \* sequence of rules <<lhs, rhs>> a behaviour offers, in this order
          SequenceMenu,  \* set of sequence rules <<lhs, item, sep, min, keep, proper>>
          StartChoices,  \* symbols tried as start symbol
          OptionSymbols, \* symbols that are given other settings
          MaxCalls,      \* calls that offer a rule or set something
          MaxOptions,    \* calls that set something
          Ranks          \* ranks that are tried

VARIABLES g,        \* the grammar
          offered,  \* place in RuleMenu of the last rule offered
          offers,   \* calls made that offer a rule
          options,  \* calls made that set something
          censuses  \* precomputations that changed the grammar, none, one or more

mgVars == <<g, offered, offers, options, censuses>>

MarpaGrammarInit ==
  /\ g = marpa_g_new
  /\ offered = 1 /\ offers = 0 /\ options = 0 /\ censuses = 0

Alive == g.error # "CRASHED"
CanOffer == Alive /\ offers + options < MaxCalls /\ Len(g.xsy) = MaxSymbols
CanSet == Alive /\ offers + options < MaxCalls /\ options < MaxOptions

SymbolNew ==
  /\ Alive /\ Len(g.xsy) < MaxSymbols /\ offers = 0
  /\ g' = symbol_new(g)
  /\ UNCHANGED <<offered, offers, options, censuses>>

RuleNew ==
  /\ CanOffer
  /\ \E i \in offered..Len(RuleMenu) :
       /\ g' = marpa_g_rule_new(g, RuleMenu[i][1], RuleMenu[i][2])
       /\ offered' = i
  /\ offers' = offers + 1
  /\ UNCHANGED <<options, censuses>>

SequenceNew ==
  /\ CanOffer
  /\ \E m \in SequenceMenu : g' = marpa_g_sequence_new(g, m[1], m[2], m[3], m[4], m[5], m[6])
  /\ offers' = offers + 1
  /\ UNCHANGED <<offered, options, censuses>>

StartSet ==
  /\ Alive /\ Len(g.xsy) = MaxSymbols
  /\ (g.start = 0 /\ offers = 0) \/ CanSet     \* a first choice comes before the rules
  /\ \E x \in StartChoices : g' = marpa_g_start_symbol_set(g, x)
  /\ options' = IF g.start = 0 /\ offers = 0 THEN options ELSE options + 1
  /\ UNCHANGED <<offered, offers, censuses>>

Option(h) ==
  /\ g' = h
  /\ options' = options + 1
  /\ UNCHANGED <<offered, offers, censuses>>

SetRank ==
  /\ CanSet
  /\ \E rank \in Ranks :
       \/ Option(marpa_g_default_rank_set(g, rank))
       \/ \E x \in OptionSymbols : Option(marpa_g_symbol_rank_set(g, x, rank))
       \/ \E r \in {1, Len(g.xrl) + 1} : Option(marpa_g_rule_rank_set(g, r, rank))

SetNullHigh ==
  /\ CanSet
  /\ \E r \in {1, Len(g.xrl) + 1} : Option(marpa_g_rule_null_high_set(g, r, TRUE))

SetValued ==
  /\ CanSet
  /\ \/ Option(marpa_g_force_valued(g))
     \/ \E x \in OptionSymbols, value \in BOOLEAN : Option(marpa_g_symbol_is_valued_set(g, x, value))

SetTerminal ==
  /\ CanSet
  /\ \E x \in OptionSymbols, value \in BOOLEAN :
       Option(marpa_g_symbol_is_terminal_set(g, x, value))

SetEvent ==
  /\ CanSet
  /\ \E x \in OptionSymbols : \/ Option(marpa_g_symbol_is_completion_event_set(g, x, TRUE))
                             \/ Option(marpa_g_symbol_is_nulled_event_set(g, x, TRUE))
                             \/ Option(marpa_g_symbol_is_prediction_event_set(g, x, TRUE))

DoPrecompute ==
  /\ Alive /\ offers > 0
  /\ g' = marpa_g_precompute(g)
  /\ censuses' = IF PrecomputeError(g) = "NONE" /\ censuses < 2 THEN censuses + 1 ELSE censuses
  /\ UNCHANGED <<offered, offers, options>>

MarpaGrammarNext ==
  \/ SymbolNew \/ RuleNew \/ SequenceNew \/ StartSet
  \/ SetRank \/ SetNullHigh \/ SetValued \/ SetTerminal \/ SetEvent
  \/ DoPrecompute

MarpaGrammarSpec == MarpaGrammarInit /\ [][MarpaGrammarNext]_mgVars

(***************************************************************************)
(* Reference: what the rules the caller gave mean.                         *)
(***************************************************************************)
RhsOf(rule) == ToSet(rule.rhs) \cup (IF rule.sep = 0 THEN {} ELSE {rule.sep})

Terminal(x) == marpa_g_symbol_is_terminal(g, x) = 1

(* In every set that contains the base and is closed under the rules.      *)
Closed(C, base, Joins(_, _)) ==
  base \subseteq C /\ \A r \in XrlIds(g) : Joins(g.xrl[r], C) => g.xrl[r].lhs \in C
Least(base, Joins(_, _)) ==
  {x \in XsyIds(g) : \A C \in SUBSET XsyIds(g) : Closed(C, base, Joins) => x \in C}
WholeRhs(rule, C) == rule.min = 0 \/ ToSet(rule.rhs) \subseteq C

IsNullable == Least({}, WholeRhs)
IsProductive == Least({x \in XsyIds(g) : Terminal(x)}, WholeRhs)
IsAccessible ==
  {x \in XsyIds(g) : \A C \in SUBSET XsyIds(g) :
     (g.start \in C /\ \A r \in XrlIds(g) : g.xrl[r].lhs \in C => RhsOf(g.xrl[r]) \subseteq C)
       => x \in C}

(* Sentences of at most Bound terminals, as the least fixed point of one   *)
(* round of using every rule once.                                         *)
Bound == 3
Short(S) == {s \in S : Len(s) <= Bound}
Concat(S, T) == Short({s \o t : s \in S, t \in T})
ConcatAll(parts) == FoldLeft(Concat, {<<>>}, parts)

Own(x) == IF Terminal(x) THEN {<<x>>} ELSE {}

(* One to Bound items with separators, and a last separator if that is     *)
(* allowed.                                                                *)
SequenceSentences(rule, L) ==
  LET sep == IF rule.sep = 0 THEN {<<>>} ELSE L[rule.sep]
      Items[n \in 1..Bound] == IF n = 1 THEN L[rule.rhs[1]]
                               ELSE Concat(Concat(Items[n - 1], sep), L[rule.rhs[1]])
      some == UNION {Items[n] : n \in 1..Bound}
  IN  some \cup (IF rule.proper \/ rule.sep = 0 THEN {} ELSE Concat(some, sep))
           \cup (IF rule.min = 0 THEN {<<>>} ELSE {})
ExternalRound(L) ==
  [x \in XsyIds(g) |->
     Own(x) \cup UNION {IF g.xrl[r].sequence THEN SequenceSentences(g.xrl[r], L)
                        ELSE ConcatAll([i \in DOMAIN g.xrl[r].rhs |-> L[g.xrl[r].rhs[i]]])
                        : r \in xrl_list_x_lh_sym(g)[x]}]
RECURSIVE ExternalFrom(_)
ExternalFrom(L) == LET M == ExternalRound(L) IN IF M = L THEN L ELSE ExternalFrom(M)
ExternalLanguage == ExternalFrom([x \in XsyIds(g) |-> {}])

InternalOwn(n) == CASE n.kind = "null" -> {<<>>} [] n.kind = "xsy" -> Own(n.xsy) [] OTHER -> {}
InternalRound(L) ==
  [n \in DOMAIN L |->
     InternalOwn(n) \cup UNION {ConcatAll([k \in DOMAIN g.irl[i].rhs |-> L[g.irl[i].rhs[k]]])
                                : i \in LhsIrls(g, n)}]
RECURSIVE InternalFrom(_)
InternalFrom(L) == LET M == InternalRound(L) IN IF M = L THEN L ELSE InternalFrom(M)
InternalLanguage == InternalFrom([n \in Nsys(g) |-> {}])

(***************************************************************************)
(* Properties.                                                             *)
(***************************************************************************)
FirstCensus == g.precomputed /\ censuses = 1

SymbolAnswers ==
  \A x \in 0..(Len(g.xsy) + 1) :
    /\ {marpa_g_symbol_is_start(g, x), marpa_g_symbol_is_valued(g, x),
        marpa_g_symbol_is_counted(g, x), marpa_g_symbol_is_completion_event(g, x),
        marpa_g_symbol_is_nulled_event(g, x), marpa_g_symbol_is_prediction_event(g, x)}
         \subseteq (IF x \in XsyIds(g) THEN {0, 1} ELSE {-1, -2})
    /\ marpa_g_symbol_rank(g, x) \in INT_MIN..INT_MAX
RuleAnswers ==
  \A r \in 0..(Len(g.xrl) + 1) :
    /\ {marpa_g_rule_null_high(g, r), _marpa_g_rule_is_keep_separation(g, r),
        marpa_g_rule_is_proper_separation(g, r), marpa_g_rule_is_nulling(g, r),
        marpa_g_rule_is_nullable(g, r), marpa_g_rule_is_accessible(g, r),
        marpa_g_rule_is_productive(g, r)} \subseteq (IF r \in XrlIds(g) THEN {0, 1} ELSE {-1, -2})
    /\ marpa_g_rule_rank(g, r) \in INT_MIN..INT_MAX
    /\ {marpa_g_sequence_min(g, r), marpa_g_sequence_separator(g, r)} \subseteq -2..MaxSymbols
    /\ \A ix \in 1..marpa_g_rule_length(g, r) : marpa_g_rule_rhs(g, r, ix) \in XsyIds(g)
IrlAnswers ==
  \A i \in 0..(Len(g.irl) + 1) :
    /\ _marpa_g_irl_rank(g, i) \in INT_MIN..INT_MAX
    /\ _marpa_g_source_xrl(g, i) \in -2..Len(g.xrl)
    /\ {_marpa_g_irl_is_virtual_lhs(g, i), _marpa_g_irl_is_virtual_rhs(g, i)} \subseteq {-2, 0, 1}
    /\ _marpa_g_real_symbol_count(g, i) <= _marpa_g_irl_length(g, i)
    /\ _marpa_g_virtual_start(g, i) \in -2..5

(* What the questions may answer, asked about every id there is and about  *)
(* the ids next to them. Every rank libmarpa computes from a rank a caller *)
(* may set is an int.                                                      *)
MarpaGrammarTypeOK ==
  /\ SymbolAnswers /\ RuleAnswers /\ IrlAnswers
  /\ \A x \in XsyIds(g) : NSY_Rank(g, ProperNsy(x)) \in INT_MIN..INT_MAX
  /\ offered \in DOMAIN RuleMenu /\ offers \in 0..MaxCalls /\ options \in 0..MaxOptions
  /\ g.start \in 0..Len(g.xsy) /\ g.startIrl \in 0..Len(g.irl)
  /\ \A r \in XrlIds(g) : g.xrl[r].lhs \in XsyIds(g) /\ RhsOf(g.xrl[r]) \subseteq XsyIds(g)
  /\ \A i \in IrlIds(g) : g.irl[i].xrl \in 0..Len(g.xrl)

(* After the first precomputation that gets through, the answers about     *)
(* symbols (marpa_g_symbol_is_nullable, _productive, _accessible, _nulling *)
(* and _terminal) are what the rules mean: the worklists and closures      *)
(* find neither too little nor too much.                                   *)
CensusExact ==
  FirstCensus =>
    \A x \in XsyIds(g) :
      /\ marpa_g_symbol_is_nullable(g, x) = Flag(x \in IsNullable)
      /\ marpa_g_symbol_is_productive(g, x) = Flag(x \in IsProductive)
      /\ marpa_g_symbol_is_accessible(g, x) = Flag(x \in IsAccessible)
      /\ ~ g.xsy[x].lockedTerminal =>
           (Terminal(x) <=> \A r \in XrlIds(g) : marpa_g_rule_lhs(g, r) # x)
      /\ (marpa_g_symbol_is_nulling(g, x) = 1 /\ x \in IsProductive) =>
           ExternalLanguage[x] = {<<>>}

SeparatorsProductive ==
  \A r \in XrlIds(g) : g.xrl[r].sep # 0 => g.xsy[g.xrl[r].sep].productive

(* The internal rules have the sentences of the caller's rules: for every  *)
(* symbol that can be used, its internal symbol derives exactly its        *)
(* sentences that are not empty. CHAF rewriting, sequences and separators  *)
(* lose no sentence and add none, and no internal symbol but a nulling     *)
(* alias derives the empty sentence. A separator that derives nothing is   *)
(* excluded: libmarpa then drops the sequence, its sentences of one item   *)
(* included.                                                               *)
LanguagePreserved ==
  (FirstCensus /\ g.startIrl # 0 /\ SeparatorsProductive) =>
    LET inner == InternalLanguage
        outer == ExternalLanguage
    IN  /\ \A n \in Nsys(g) : n.kind = "xsy" => inner[n] = outer[n.xsy] \ {<<>>}
        /\ inner[StartNsy(g)] = outer[g.start] \ {<<>>}
        /\ \A n \in Nsys(g) : <<>> \in inner[n] => NSY_is_Nulling(n)

(* The one symbol that is left when a rule's nulled symbols are taken away. *)
UnitSteps ==
  [n \in Nsys(g) |-> UNION {ToSet(SelectSeq(g.irl[i].rhs, LAMBDA m : ~ NSY_is_Nulling(m)))
                            : i \in {j \in LhsIrls(g, n) :
                                       Len(SelectSeq(g.irl[j].rhs,
                                             LAMBDA m : ~ NSY_is_Nulling(m))) = 1}}]

(* Rules reported as loops (marpa_g_rule_is_loop) are the ones that make   *)
(* an internal symbol derive itself: a grammar has a used loop rule        *)
(* exactly when its internal rules have a cycle.                           *)
LoopsAreCycles ==
  (FirstCensus /\ g.startIrl # 0) =>
    /\ (\E n \in Nsys(g) : n \in transitive_closure(UnitSteps)[n])
         <=> \E r \in XrlIds(g) : /\ marpa_g_rule_is_loop(g, r) = 1
                                 /\ _marpa_g_rule_is_used(g, r) = 1
    /\ g.hasCycle <=> \E r \in XrlIds(g) : marpa_g_rule_is_loop(g, r) = 1

(* The tree that finds duplicate rules stays a balanced search tree over   *)
(* exactly the rules that are no sequences, and no two rules are equal.    *)
RuleTreeSound ==
  LET bnf == {r \in XrlIds(g) : g.xrl[r].bnf}
      Key(r) == duplicate_rule_cmp(g.xrl[r].lhs, g.xrl[r].rhs)
  IN  /\ IsAvlTree(g.xrlRoot, {Key(r) : r \in bnf})
      /\ \A r, q \in bnf : Key(r) = Key(q) => r = q

(* A call that is refused leaves the grammar as it was: only the error,    *)
(* the answer and, for a precomputation, the marks and events may differ.  *)
(* marpa_g_force_valued is the one call that may stop half way.            *)
RefusedLeavesGrammar ==
  [][(g'.ret < 0 /\ g'.error \notin {"CRASHED", "VALUED_IS_LOCKED"}) =>
       /\ g'.start = g.start /\ g'.defaultRank = g.defaultRank
       /\ [r \in XrlIds(g) |-> <<g.xrl[r].lhs, g.xrl[r].rhs, g.xrl[r].rank>>]
            = [r \in DOMAIN g'.xrl |-> <<g'.xrl[r].lhs, g'.xrl[r].rhs, g'.xrl[r].rank>>]
       /\ (~ g'.precomputed \/ g.precomputed) =>
            /\ g'.irl = g.irl
            /\ \A x \in XsyIds(g) : /\ g'.xsy[x].lhs = g.xsy[x].lhs
                                     /\ g'.xsy[x].lockedTerminal = g.xsy[x].lockedTerminal
                                     /\ g'.xsy[x].counted = g.xsy[x].counted]_mgVars
=============================================================================
