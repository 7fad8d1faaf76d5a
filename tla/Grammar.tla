------------------------------ MODULE Grammar ------------------------------
(***************************************************************************)
(* The grammar phase of src/src/marpaWrapper.c: marpaWrapper_newp,         *)
(* g_addSymbolp, g_addRulep, g_precomputeb and destroyv, over the part of  *)
(* libmarpa's grammar object they use.                                     *)
(*                                                                         *)
(* libmarpa gives a symbol or rule its id before the wrapper finds memory  *)
(* for its own entry, so the two can disagree: xsy and xrl are libmarpa's  *)
(* symbols and rules, symbolTab and ruleTab the wrapper's tables of them.  *)
(* Failed allocations inside libmarpa abort the process and are not here.  *)
(***************************************************************************)
EXTENDS Integers, Sequences, ManageBuf

CONSTANTS MaxSymbols, MaxRules, \* bounds on the ids of one grammar
          Options,              \* the option sets g_addSymbolp is called with
          Rules                 \* the rules g_addRulep is called with

EventTypes == {"completed", "nulled", "predicted"}
Flags == {"terminal"} \cup EventTypes   \* terminalb and eventSeti
SymbolIds == 0 .. MaxSymbols - 1
NoSymbol == -1

ASSUME GrammarConstants ==
  /\ MaxSymbols \in Nat /\ MaxRules \in Nat
  /\ Options \subseteq SUBSET (Flags \cup {"start"})
  /\ Rules \subseteq [lhs : SymbolIds, rhs : Seq(SymbolIds), sequence : BOOLEAN,
                      separator : SymbolIds \cup {NoSymbol}]

VARIABLES
  marpaWrapperp,   \* the wrapper exists
  xsy,             \* libmarpa's symbols, as the set of flags of each
  xrl,             \* libmarpa's rules
  startXsy,        \* the start symbol, -1 when not set
  phase,           \* "open", "precomputed", or "spoiled" by a failed precompute
  symbolTab, ruleTab,
  given,           \* ids of the symbols the caller got a pointer to
  shortage         \* ghost: a table allocation failed since newp

gvars == <<marpaWrapperp, xsy, xrl, startXsy, phase, symbolTab, ruleTab, given, shortage>>

\* The symbols a rule mentions, and those libmarpa can name to the wrapper.
RuleSymbols(r) == {r.lhs} \cup {r.rhs[i] : i \in DOMAIN r.rhs} \cup ({r.separator} \ {NoSymbol})
Mentioned == (UNION {RuleSymbols(xrl[k]) : k \in DOMAIN xrl})
             \cup ({startXsy} \ {NoSymbol})
             \cup {s \in SymbolIds : s < Len(xsy) /\ xsy[s + 1] # {}}

TypeOK ==
  /\ marpaWrapperp \in BOOLEAN /\ shortage \in BOOLEAN
  /\ xsy \in Seq(SUBSET Flags) /\ Len(xsy) <= MaxSymbols
  /\ xrl \in Seq(Rules) /\ Len(xrl) <= MaxRules
  /\ startXsy \in SymbolIds \cup {NoSymbol}
  /\ phase \in {"open", "precomputed", "spoiled"}
  /\ symbolTab \in Tables /\ ruleTab \in Tables
  /\ given \subseteq SymbolIds

Empty ==
  /\ xsy = <<>> /\ xrl = <<>> /\ startXsy = NoSymbol /\ phase = "open"
  /\ symbolTab = NoTable /\ ruleTab = NoTable
  /\ given = {} /\ shortage = FALSE

Init == marpaWrapperp = FALSE /\ Empty

\* A dangling table pointer makes every later call undefined.
Defined == symbolTab.pp # "dangling" /\ ruleTab.pp # "dangling"
Ready == marpaWrapperp /\ Defined
-----------------------------------------------------------------------------
newp ==
  /\ ~marpaWrapperp
  /\ marpaWrapperp' = TRUE
  /\ UNCHANGED <<xsy, xrl, startXsy, phase, symbolTab, ruleTab, given, shortage>>

destroyv ==
  /\ Ready
  /\ marpaWrapperp' = FALSE
  /\ xsy' = <<>> /\ xrl' = <<>> /\ startXsy' = NoSymbol /\ phase' = "open"
  /\ symbolTab' = freev(symbolTab) /\ ruleTab' = freev(ruleTab)
  /\ given' = {} /\ shortage' = FALSE
-----------------------------------------------------------------------------
(* g_addSymbolp: libmarpa makes the symbol, the wrapper makes room for its *)
(* entry, then the options are applied; each of them is refused by a       *)
(* precomputed grammar.                                                    *)

NewId == Len(xsy)
\* Mutant: the options are applied to any grammar.
AcceptsAlways(opts) == TRUE
Accepts(opts) == opts = {} \/ phase # "precomputed"

addSymbolp(opts) ==
  /\ Ready /\ NewId < MaxSymbols
  /\ \E t \in createp(symbolTab, NewId + 1) : symbolTab' = store(t, NewId)
  /\ xsy' = Append(xsy, IF Accepts(opts) THEN opts \cap Flags ELSE {})
  /\ startXsy' = IF Accepts(opts) /\ "start" \in opts THEN NewId ELSE startXsy
  /\ given' = IF Accepts(opts) THEN given \cup {NewId} ELSE given
  /\ UNCHANGED <<marpaWrapperp, xrl, phase, ruleTab, shortage>>

\* Mutant: the caller gets the symbol although its entry is missing.
addSymbolpFailsUnnoticed ==
  /\ Ready /\ NewId < MaxSymbols
  /\ symbolTab' \in createpFails(symbolTab, NewId + 1) \cup createp(symbolTab, NewId + 1)
  /\ xsy' = Append(xsy, {})
  /\ given' = given \cup {NewId} /\ shortage' = TRUE
  /\ UNCHANGED <<marpaWrapperp, xrl, startXsy, phase, ruleTab>>

\* No memory for the table or for the entry: the id is spent, NULL is returned.
addSymbolpFails ==
  /\ Ready /\ NewId < MaxSymbols
  /\ symbolTab' \in createpFails(symbolTab, NewId + 1) \cup createp(symbolTab, NewId + 1)
  /\ xsy' = Append(xsy, {})
  /\ shortage' = TRUE
  /\ UNCHANGED <<marpaWrapperp, xrl, startXsy, phase, ruleTab, given>>
-----------------------------------------------------------------------------
(* g_addRulep                                                              *)

Lhss == {xrl[k].lhs : k \in DOMAIN xrl}
SequenceLhss == {xrl[k].lhs : k \in {j \in DOMAIN xrl : xrl[j].sequence}}

\* The rules a caller can ask for: their symbols are pointers it was given, and
\* the wrapper checks that a sequence has one symbol on its right-hand side.
Wanted(r) == /\ RuleSymbols(r) \subseteq given
             /\ r.sequence => Len(r.rhs) = 1
             /\ ~r.sequence => r.separator = NoSymbol

\* marpa_g_rule_new and marpa_g_sequence_new.
RuleAccepted(r) ==
  /\ phase # "precomputed"
  /\ IF r.sequence THEN r.lhs \notin Lhss
     ELSE /\ r.lhs \notin SequenceLhss
          /\ \A k \in DOMAIN xrl : xrl[k].lhs = r.lhs => xrl[k].rhs # r.rhs

\* A failed precompute has dropped the tree in which rule_new looks up
\* duplicates; what happens then is undefined and not modelled.
RuleDefined(r) == phase = "spoiled" => r.sequence

addRulep(r) ==
  /\ Ready /\ Wanted(r) /\ RuleDefined(r) /\ RuleAccepted(r) /\ Len(xrl) < MaxRules
  /\ xrl' = Append(xrl, r)
  /\ \/ /\ \E t \in createp(ruleTab, Len(xrl) + 1) : ruleTab' = store(t, Len(xrl))
        /\ UNCHANGED shortage
     \/ /\ ruleTab' \in createpFails(ruleTab, Len(xrl) + 1) \cup createp(ruleTab, Len(xrl) + 1)
        /\ shortage' = TRUE
  /\ UNCHANGED <<marpaWrapperp, xsy, startXsy, phase, symbolTab, given>>
-----------------------------------------------------------------------------
(* g_precomputeb.  Whether the rules themselves are acceptable is left     *)
(* open: the outcome is a choice.                                          *)

Precomputable == /\ phase # "precomputed" /\ Len(xrl) > 0
                 /\ startXsy # NoSymbol /\ startXsy \in Lhss

\* libmarpa marks the grammar precomputed before it reports a cycle, so this
\* is the outcome of a call that answers TRUE and of one that answers FALSE.
precomputeb ==
  /\ Ready /\ Precomputable
  /\ phase' = "precomputed"
  /\ UNCHANGED <<marpaWrapperp, xsy, xrl, startXsy, symbolTab, ruleTab, given, shortage>>

precomputebFails ==
  /\ Ready /\ Precomputable
  /\ phase' = "spoiled"
  /\ UNCHANGED <<marpaWrapperp, xsy, xrl, startXsy, symbolTab, ruleTab, given, shortage>>

Next ==
  \/ newp \/ destroyv \/ addSymbolpFails \/ precomputeb \/ precomputebFails
  \/ \E opts \in Options : addSymbolp(opts)
  \/ \E r \in Rules : addRulep(r)

Spec == Init /\ [][Next]_gvars
-----------------------------------------------------------------------------
(* Properties                                                              *)

\* The wrapper's arrays can be walked by destroyv up to their used mark, and
\* every entry is reached by that walk.
TablesSound == Sound(symbolTab) /\ Sound(ruleTab)

\* Every symbol libmarpa can report back (in an event, as an expected terminal,
\* in a rule) has an entry: marpaWrapperSymbolpp[id] is never NULL or outside
\* the array, whatever allocations failed before.
MentionedSymbolsKnown == Mentioned \subseteq symbolTab.entry /\ given \subseteq symbolTab.entry

\* As long as no table allocation failed, every rule libmarpa can report in a
\* progress item or a value step has an entry in marpaWrapperRulepp.
RulesKnown == ~shortage => 0 .. Len(xrl) - 1 \subseteq ruleTab.entry

\* Libmarpa's ids and the wrapper's tables agree: every id one of them hands to
\* the other is in range, and has an entry when it comes back, in tables that
\* destroyv can walk.
IdsKnown == TypeOK /\ TablesSound /\ MentionedSymbolsKnown /\ RulesKnown

\* manageBuf_createp loses a block, or leaves the caller a pointer to a freed
\* one, only when as many ids in a row as the table has slots were given out by
\* libmarpa and lost by the wrapper.
DamageNeedsBacklog ==
  /\ DamageOnlyAfterBacklog(symbolTab, Len(xsy))
  /\ DamageOnlyAfterBacklog(ruleTab, Len(xrl))

\* A precomputed grammar stays as it was precomputed until destroyv: later
\* symbols get no flags, rules and start symbol do not change.
FrozenOncePrecomputed ==
  [][ phase = "precomputed" /\ marpaWrapperp' =>
        /\ UNCHANGED <<xrl, startXsy>> /\ phase' = "precomputed"
        /\ xsy' \in {xsy, Append(xsy, {})} ]_gvars
=============================================================================
