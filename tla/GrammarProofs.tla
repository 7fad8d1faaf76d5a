--------------------------- MODULE GrammarProofs ---------------------------
(***************************************************************************)
(* For every number of symbols and rules and every first size of a table:  *)
(* what libmarpa can report back is known to the wrapper, its tables can   *)
(* be walked, and manageBuf does damage only after a backlog of lost ids.  *)
(*                                                                         *)
(* The invariant is inductive once it also says that ids are given out     *)
(* before entries are stored (IdsFirst): a new entry then lies above the   *)
(* ids that were lost.                                                     *)
(*                                                                         *)
(* For every number of Earley sets and all that libmarpa may report of     *)
(* them: a call of progressb that succeeds hands out each item once. At    *)
(* each place of the call the invariant (ProgressInv) says which items are *)
(* in the table.                                                           *)
(***************************************************************************)
EXTENDS Grammar, Progress, TLAPS

IdsFirst == /\ \A i \in symbolTab.entry : i < Len(xsy)
            /\ \A i \in ruleTab.entry : i < Len(xrl)

GrammarInv == /\ TypeOK /\ TablesSound /\ IdsFirst
              /\ MentionedSymbolsKnown /\ RulesKnown /\ DamageNeedsBacklog

\* The empty table is sound and undamaged.
LEMMA EmptyTable ==
  NoTable \in Tables /\ Sound(NoTable) /\ \A n \in Nat : DamageOnlyAfterBacklog(NoTable, n)
  BY TableConstants DEF NoTable, Tables, Sound, DamageOnlyAfterBacklog

\* Making room keeps the entries, and gives a table that holds what was wanted.
LEMMA RoomMade ==
  ASSUME NEW t \in Tables, Sound(t), NEW n \in Nat, DamageOnlyAfterBacklog(t, n),
         NEW u \in createp(t, n + 1), t.pp # "dangling"
  PROVE  /\ u \in Tables /\ Sound(u) /\ DamageOnlyAfterBacklog(u, n)
         /\ u.entry = t.entry /\ u.used = t.used /\ n + 1 <= u.size
         /\ u.pp # "dangling" /\ u.leak = t.leak
  <1>1. CASE n + 1 <= t.size
    BY <1>1 DEF createp, Tables
  <1>2. CASE ~(n + 1 <= t.size)
    <2>1. PICK m \in Capacities : u = [t EXCEPT !.pp = "live", !.size = m] /\ n + 1 <= m
      BY <1>2 DEF createp, Fits
    <2>2. m \in Nat
      BY TableConstants
    <2>3. /\ u.pp = "live" /\ u.size = m /\ u.used = t.used /\ u.entry = t.entry
          /\ u.leak = t.leak
      BY <2>1 DEF Tables
    <2>4. u \in Tables
      BY <2>1, <2>2 DEF Tables
    <2>5. Sound(u)
      BY <1>2, <2>1, <2>2, <2>3 DEF Sound, Tables
    <2>6. DamageOnlyAfterBacklog(u, n)
      BY <2>3 DEF DamageOnlyAfterBacklog
    <2> QED
      BY <2>1, <2>3, <2>4, <2>5, <2>6
  <1> QED
    BY <1>1, <1>2

\* Failing to make room keeps the entries; what it breaks is covered by ids
\* that were given out and have no entry.
LEMMA RoomRefused ==
  ASSUME NEW t \in Tables, Sound(t), NEW n \in Nat, DamageOnlyAfterBacklog(t, n),
         NEW u \in createpFails(t, n + 1), t.pp # "dangling"
  PROVE  /\ u \in Tables /\ Sound(u) /\ DamageOnlyAfterBacklog(u, n)
         /\ u.entry = t.entry
  <1>1. CASE u = t
    BY <1>1
  <1>2. CASE u = [t EXCEPT !.pp = "dangling"] /\ t.size > 0 /\ n + 1 > 2 * t.size
    <2>1. /\ u.pp = "dangling" /\ u.size = t.size /\ u.used = t.used /\ u.entry = t.entry
          /\ u.leak = t.leak
      BY <1>2 DEF Tables
    <2>2. u \in Tables
      BY <1>2 DEF Tables
    <2>3. Sound(u)
      BY <1>2, <2>1 DEF Sound, Tables
    <2>4. \A i \in u.size .. 2 * u.size - 1 : i < n /\ i \notin u.entry
      BY <1>2, <2>1 DEF Sound, Tables
    <2>5. DamageOnlyAfterBacklog(u, n)
      BY <2>1, <2>4 DEF DamageOnlyAfterBacklog
    <2> QED
      BY <2>1, <2>2, <2>3, <2>5
  <1>3. CASE u = [t EXCEPT !.leak = TRUE] /\ t.size = 0 /\ n + 1 > FirstSize
    <2>1. /\ u.pp = t.pp /\ u.size = 0 /\ u.used = t.used /\ u.entry = t.entry
      BY <1>3 DEF Tables
    <2>2. u \in Tables
      BY <1>3 DEF Tables
    <2>3. Sound(u)
      BY <1>3, <2>1 DEF Sound, Tables
    <2>4. \A i \in 0 .. FirstSize - 1 : i < n /\ i \notin u.entry
      BY <1>3, <2>1, TableConstants DEF Sound, Tables
    <2>5. DamageOnlyAfterBacklog(u, n)
      BY <2>1, <2>4 DEF DamageOnlyAfterBacklog
    <2> QED
      BY <2>1, <2>2, <2>3, <2>5
  <1> QED
    BY <1>1, <1>2, <1>3 DEF createpFails

\* One more id given out covers at least as much.
LEMMA MoreIds ==
  ASSUME NEW t, NEW n \in Nat, FirstSize \in Nat, t \in Tables, DamageOnlyAfterBacklog(t, n)
  PROVE  DamageOnlyAfterBacklog(t, n + 1)
  BY DEF DamageOnlyAfterBacklog, Tables

\* Storing the entry of the id just given out.
LEMMA EntryStored ==
  ASSUME NEW t \in Tables, Sound(t), NEW n \in Nat, DamageOnlyAfterBacklog(t, n),
         \A i \in t.entry : i < n, n + 1 <= t.size, t.pp # "dangling"
  PROVE  /\ store(t, n) \in Tables /\ Sound(store(t, n))
         /\ DamageOnlyAfterBacklog(store(t, n), n + 1)
         /\ store(t, n).entry = t.entry \cup {n}
  <1> DEFINE u == store(t, n)
  <1>1. /\ u.pp = t.pp /\ u.size = t.size /\ u.used = n + 1 /\ u.entry = t.entry \cup {n}
        /\ u.leak = t.leak
    BY DEF store, Tables
  <1>2. u \in Tables
    <2>1. t.entry \cup {n} \in SUBSET Nat /\ n + 1 \in Nat
      BY DEF Tables
    <2>2. u = [t EXCEPT !.entry = t.entry \cup {n}, !.used = n + 1]
      BY DEF store
    <2> QED
      BY <2>1, <2>2 DEF Tables
  <1>3. Sound(u)
    BY <1>1 DEF Sound, Tables
  <1>4. t.leak => \A i \in 0 .. FirstSize - 1 : i < n + 1 /\ i \notin u.entry
    BY <1>1, TableConstants DEF DamageOnlyAfterBacklog
  <1>5. DamageOnlyAfterBacklog(u, n + 1)
    BY <1>1, <1>4 DEF DamageOnlyAfterBacklog
  <1> QED
    BY <1>1, <1>2, <1>3, <1>5
-----------------------------------------------------------------------------
\* A wrapper without symbols and rules.
LEMMA EmptyGrammar == marpaWrapperp \in BOOLEAN /\ Empty => GrammarInv
  <1> SUFFICES ASSUME marpaWrapperp \in BOOLEAN, Empty
               PROVE  GrammarInv
    OBVIOUS
  <1>1. symbolTab = NoTable /\ ruleTab = NoTable /\ xsy = <<>> /\ xrl = <<>>
    BY DEF Empty
  <1>2. TypeOK
    <2>1. xsy \in Seq(SUBSET Flags) /\ xrl \in Seq(Rules) /\ Len(xsy) = 0 /\ Len(xrl) = 0
      BY <1>1
    <2>2. symbolTab \in Tables /\ ruleTab \in Tables
      BY <1>1, EmptyTable
    <2>3. 0 <= MaxSymbols /\ 0 <= MaxRules
      BY GrammarConstants
    <2>4. shortage \in BOOLEAN /\ startXsy \in SymbolIds \cup {NoSymbol}
          /\ phase \in {"open", "precomputed", "spoiled"} /\ given \subseteq SymbolIds
      BY DEF Empty
    <2> QED
      BY <2>1, <2>2, <2>3, <2>4 DEF TypeOK
  <1>3. TablesSound /\ IdsFirst /\ RulesKnown
    BY <1>1, EmptyTable DEF TablesSound, IdsFirst, RulesKnown, NoTable
  <1>4. DamageNeedsBacklog
    BY <1>1, EmptyTable DEF DamageNeedsBacklog
  <1>5. Mentioned = {} /\ given = {}
    BY <1>1 DEF Empty, Mentioned, SymbolIds
  <1> QED
    BY <1>2, <1>3, <1>4, <1>5 DEF GrammarInv, MentionedSymbolsKnown

\* The mark of a sound table is above its entries, so freev frees them all.
LEMMA SoundTableFreed ==
  ASSUME NEW t \in Tables, Sound(t)
  PROVE  freev(t) = NoTable
  <1>1. {i \in t.entry : i >= t.used} = {}
    BY DEF Sound, Tables
  <1> QED
    BY <1>1 DEF freev, NoTable

\* destroyv leaves empty tables and frees every entry on the way.
LEMMA DestroyGrammar ==
  ASSUME GrammarInv, destroyv
  PROVE  GrammarInv'
  <1>1. freev(symbolTab) = NoTable /\ freev(ruleTab) = NoTable
    BY SoundTableFreed DEF GrammarInv, TypeOK, TablesSound
  <1>2. Empty' /\ marpaWrapperp' \in BOOLEAN
    BY <1>1 DEF destroyv, Empty
  <1>3. (marpaWrapperp \in BOOLEAN /\ Empty)' => GrammarInv'
    BY EmptyGrammar, PTL
  <1> QED
    BY <1>2, <1>3

\* A new id, with or without an entry, adds at most itself to what libmarpa can
\* mention.
LEMMA OneMoreMentioned ==
  ASSUME TypeOK, NEW F \in SUBSET Flags, xsy' = Append(xsy, F), UNCHANGED xrl,
         startXsy' \in {startXsy, NewId}, NewId < MaxSymbols,
         NEW S, Mentioned \subseteq S, (F # {} \/ startXsy' # startXsy) => NewId \in S
  PROVE  Mentioned' \subseteq S
  <1> DEFINE R == UNION {RuleSymbols(xrl[k]) : k \in DOMAIN xrl}
             X == {s \in SymbolIds : s < Len(xsy) /\ xsy[s + 1] # {}}
  <1>1. R' = R
    OBVIOUS
  <1>a. /\ Mentioned = R \cup ({startXsy} \ {NoSymbol}) \cup X
        /\ Mentioned' = R' \cup ({startXsy'} \ {NoSymbol}) \cup X'
    BY DEF Mentioned
  <1>2. R \subseteq S /\ {startXsy} \ {NoSymbol} \subseteq S /\ X \subseteq S
    <2> HIDE DEF R, X
    <2> QED
      BY <1>a
  <1>3. {startXsy'} \ {NoSymbol} \subseteq S
    BY <1>2
  <1>4. X' \subseteq X \cup (IF F = {} THEN {} ELSE {NewId})
    <2> SUFFICES ASSUME NEW s \in X' PROVE s \in X \/ (F # {} /\ s = NewId)
      OBVIOUS
    <2>0. s \in SymbolIds /\ s < Len(xsy') /\ xsy'[s + 1] # {} /\ s \in Nat
      BY GrammarConstants DEF SymbolIds
    <2>1. CASE s = Len(xsy)
      BY <2>0, <2>1 DEF TypeOK, NewId
    <2>2. CASE s # Len(xsy)
      BY <2>0, <2>2 DEF TypeOK
    <2> QED
      BY <2>1, <2>2
  <1>5. X' \subseteq S
    BY <1>2, <1>4
  <1> HIDE DEF R, X
  <1> QED
    BY <1>a, <1>1, <1>2, <1>3, <1>5

\* The part of the invariant that speaks of the symbols.
SymbolPart == /\ symbolTab \in Tables /\ Sound(symbolTab)
              /\ \A i \in symbolTab.entry : i < Len(xsy)
              /\ DamageOnlyAfterBacklog(symbolTab, Len(xsy))
\* The part that speaks of the rules.
RulePart == /\ ruleTab \in Tables /\ Sound(ruleTab)
            /\ \A i \in ruleTab.entry : i < Len(xrl)
            /\ DamageOnlyAfterBacklog(ruleTab, Len(xrl))
            /\ RulesKnown

\* The invariant is what concerns the symbols and what concerns the rules.
LEMMA Parts ==
  GrammarInv <=> TypeOK /\ SymbolPart /\ RulePart /\ MentionedSymbolsKnown
  BY DEF GrammarInv, SymbolPart, RulePart, TypeOK, TablesSound, IdsFirst, DamageNeedsBacklog

\* g_addSymbolp with memory for the entry: whether the options are accepted or
\* refused, the new id has an entry before libmarpa can mention it.
LEMMA AddSymbol ==
  ASSUME GrammarInv, NEW opts \in SUBSET (Flags \cup {"start"}), addSymbolp(opts)
  PROVE  GrammarInv'
  <1> DEFINE n == NewId
             F == IF Accepts(opts) THEN opts \cap Flags ELSE {}
  <1>0. /\ TypeOK /\ SymbolPart /\ RulePart /\ MentionedSymbolsKnown
        /\ n \in Nat /\ n = Len(xsy) /\ n < MaxSymbols /\ n \in SymbolIds
    BY Parts, GrammarConstants DEF TypeOK, NewId, addSymbolp, SymbolIds
  <1>1. PICK t \in createp(symbolTab, n + 1) : symbolTab' = store(t, n)
    BY DEF addSymbolp
  <1>2. /\ t \in Tables /\ Sound(t) /\ DamageOnlyAfterBacklog(t, n)
        /\ t.entry = symbolTab.entry /\ n + 1 <= t.size /\ t.pp # "dangling"
    BY <1>0, RoomMade DEF addSymbolp, Ready, Defined, SymbolPart
  <1>3. /\ symbolTab' \in Tables /\ Sound(symbolTab')
        /\ DamageOnlyAfterBacklog(symbolTab', n + 1)
        /\ symbolTab'.entry = symbolTab.entry \cup {n}
    BY <1>0, <1>1, <1>2, EntryStored DEF SymbolPart
  <1>4. /\ F \in SUBSET Flags /\ xsy' = Append(xsy, F)
        /\ xsy' \in Seq(SUBSET Flags) /\ Len(xsy') = n + 1
    BY <1>0 DEF addSymbolp, TypeOK
  <1>5. SymbolPart'
    <2>1. \A i \in symbolTab'.entry : i < n + 1
      BY <1>0, <1>3 DEF SymbolPart, Tables
    <2> QED
      BY <1>3, <1>4, <2>1 DEF SymbolPart
  <1>6. RulePart'
    BY <1>0 DEF addSymbolp, RulePart, RulesKnown
  <1>7. Mentioned' \subseteq symbolTab'.entry
    <2>1. Mentioned \subseteq symbolTab'.entry /\ n \in symbolTab'.entry
      BY <1>0, <1>3 DEF MentionedSymbolsKnown
    <2>2. startXsy' \in {startXsy, NewId} /\ UNCHANGED xrl
      BY DEF addSymbolp
    <2> HIDE DEF F
    <2> QED
      BY <1>0, <1>4, <2>1, <2>2, OneMoreMentioned
  <1>8. given' \subseteq symbolTab'.entry
    BY <1>0, <1>3 DEF addSymbolp, MentionedSymbolsKnown
  <1>9. TypeOK'
    <2>1. Len(xsy') <= MaxSymbols
      BY <1>0, <1>4, GrammarConstants
    <2>2. given' \subseteq SymbolIds /\ startXsy' \in SymbolIds \cup {NoSymbol}
      BY <1>0 DEF addSymbolp, TypeOK
    <2> QED
      BY <1>0, <1>3, <1>4, <2>1, <2>2 DEF addSymbolp, TypeOK
  <1>10. (TypeOK /\ SymbolPart /\ RulePart /\ MentionedSymbolsKnown)' => GrammarInv'
    BY Parts, PTL
  <1> QED
    BY <1>5, <1>6, <1>7, <1>8, <1>9, <1>10 DEF MentionedSymbolsKnown

\* g_addSymbolp without memory: the id that is lost has no flags, and nothing
\* can mention it.
LEMMA AddSymbolFails ==
  ASSUME GrammarInv, addSymbolpFails
  PROVE  GrammarInv'
  <1> DEFINE n == NewId
  <1>0. /\ TypeOK /\ SymbolPart /\ RulePart /\ MentionedSymbolsKnown
        /\ n \in Nat /\ n = Len(xsy) /\ n < MaxSymbols
    BY Parts DEF TypeOK, NewId, addSymbolpFails
  <1>1. /\ symbolTab' \in Tables /\ Sound(symbolTab') /\ DamageOnlyAfterBacklog(symbolTab', n)
        /\ symbolTab'.entry = symbolTab.entry
    <2>1. symbolTab' \in createpFails(symbolTab, n + 1) \/ symbolTab' \in createp(symbolTab, n + 1)
      BY DEF addSymbolpFails
    <2> QED
      BY <1>0, <2>1, RoomMade, RoomRefused DEF addSymbolpFails, Ready, Defined, SymbolPart
  <1>2. DamageOnlyAfterBacklog(symbolTab', n + 1)
    BY <1>0, <1>1, MoreIds, TableConstants
  <1>3. /\ {} \in SUBSET Flags /\ xsy' = Append(xsy, {})
        /\ xsy' \in Seq(SUBSET Flags) /\ Len(xsy') = n + 1
    BY <1>0 DEF addSymbolpFails, TypeOK
  <1>4. SymbolPart'
    <2>1. \A i \in symbolTab'.entry : i < n + 1
      BY <1>0, <1>1 DEF SymbolPart, Tables
    <2> QED
      BY <1>1, <1>2, <1>3, <2>1 DEF SymbolPart
  <1>5. RulePart'
    BY <1>0 DEF addSymbolpFails, RulePart, RulesKnown
  <1>6. MentionedSymbolsKnown'
    <2>1. Mentioned \subseteq symbolTab'.entry
      BY <1>0, <1>1 DEF MentionedSymbolsKnown
    <2>2. startXsy' = startXsy /\ UNCHANGED xrl
      BY DEF addSymbolpFails
    <2>3. Mentioned' \subseteq symbolTab'.entry
      BY <1>0, <1>3, <2>1, <2>2, OneMoreMentioned
    <2> QED
      BY <1>0, <1>1, <2>3 DEF addSymbolpFails, MentionedSymbolsKnown
  <1>7. TypeOK'
    <2>1. Len(xsy') <= MaxSymbols
      BY <1>0, <1>3, GrammarConstants
    <2> QED
      BY <1>0, <1>1, <1>3, <2>1 DEF addSymbolpFails, TypeOK
  <1>8. (TypeOK /\ SymbolPart /\ RulePart /\ MentionedSymbolsKnown)' => GrammarInv'
    BY Parts, PTL
  <1> QED
    BY <1>4, <1>5, <1>6, <1>7, <1>8

\* g_addRulep, with or without memory for the entry: the rule mentions only
\* symbols the caller was given, and those have entries.
LEMMA AddRule ==
  ASSUME GrammarInv, NEW r \in Rules, addRulep(r)
  PROVE  GrammarInv'
  <1> DEFINE n == Len(xrl)
  <1>0. /\ TypeOK /\ SymbolPart /\ RulePart /\ MentionedSymbolsKnown
        /\ n \in Nat /\ n < MaxRules
    BY Parts DEF TypeOK, addRulep
  <1>1. xrl' = Append(xrl, r) /\ xrl' \in Seq(Rules) /\ Len(xrl') = n + 1
    BY <1>0 DEF addRulep, TypeOK
  <1>2. /\ ruleTab' \in Tables /\ Sound(ruleTab') /\ DamageOnlyAfterBacklog(ruleTab', n + 1)
        /\ \/ ruleTab'.entry = ruleTab.entry \cup {n} /\ UNCHANGED shortage
           \/ ruleTab'.entry = ruleTab.entry /\ shortage' = TRUE
    <2>1. ruleTab.pp # "dangling" /\ ruleTab \in Tables /\ Sound(ruleTab)
          /\ DamageOnlyAfterBacklog(ruleTab, n) /\ \A i \in ruleTab.entry : i < n
      BY <1>0 DEF addRulep, Ready, Defined, RulePart
    <2>2. CASE /\ \E t \in createp(ruleTab, n + 1) : ruleTab' = store(t, n)
               /\ UNCHANGED shortage
      <3>1. PICK t \in createp(ruleTab, n + 1) : ruleTab' = store(t, n)
        BY <2>2
      <3>2. /\ t \in Tables /\ Sound(t) /\ DamageOnlyAfterBacklog(t, n)
            /\ t.entry = ruleTab.entry /\ n + 1 <= t.size /\ t.pp # "dangling"
        BY <1>0, <2>1, RoomMade
      <3> QED
        BY <1>0, <2>1, <2>2, <3>1, <3>2, EntryStored
    <2>3. CASE /\ ruleTab' \in createpFails(ruleTab, n + 1) \cup createp(ruleTab, n + 1)
               /\ shortage' = TRUE
      <3>1. /\ ruleTab' \in Tables /\ Sound(ruleTab') /\ DamageOnlyAfterBacklog(ruleTab', n)
            /\ ruleTab'.entry = ruleTab.entry
        BY <1>0, <2>1, <2>3, RoomMade, RoomRefused
      <3> QED
        BY <1>0, <2>3, <3>1, MoreIds, TableConstants
    <2> QED
      BY <2>2, <2>3 DEF addRulep
  <1>3. RulePart'
    <2>1. \A i \in ruleTab'.entry : i < n + 1
      BY <1>0, <1>2 DEF RulePart, Tables
    <2>2. RulesKnown'
      BY <1>0, <1>1, <1>2 DEF RulePart, RulesKnown
    <2> QED
      BY <1>1, <1>2, <2>1, <2>2 DEF RulePart
  <1>4. SymbolPart'
    BY <1>0 DEF addRulep, SymbolPart
  <1>5. MentionedSymbolsKnown'
    <2>1. /\ RuleSymbols(r) \subseteq symbolTab.entry /\ UNCHANGED <<startXsy, xsy, given, symbolTab>>
      BY <1>0 DEF addRulep, Wanted, MentionedSymbolsKnown
    <2>2. \A k \in DOMAIN xrl' : RuleSymbols(xrl'[k]) \subseteq symbolTab.entry
      <3> SUFFICES ASSUME NEW k \in DOMAIN xrl'
                   PROVE  RuleSymbols(xrl'[k]) \subseteq symbolTab.entry
        OBVIOUS
      <3>1. CASE k = n + 1
        <4>1. xrl'[k] = r
          BY <1>0, <1>1, <3>1 DEF TypeOK
        <4> QED
          BY <2>1, <4>1
      <3>2. CASE k # n + 1
        <4>1. k \in DOMAIN xrl /\ xrl'[k] = xrl[k]
          BY <1>0, <1>1, <3>2 DEF TypeOK
        <4>2. RuleSymbols(xrl[k]) \subseteq Mentioned
          BY <4>1 DEF Mentioned
        <4> QED
          BY <1>0, <4>1, <4>2 DEF MentionedSymbolsKnown
      <3> QED
        BY <3>1, <3>2
    <2>3. Mentioned' \subseteq symbolTab.entry
      BY <1>0, <2>1, <2>2 DEF Mentioned, MentionedSymbolsKnown
    <2> QED
      BY <1>0, <2>1, <2>3 DEF MentionedSymbolsKnown
  <1>6. TypeOK'
    <2>1. Len(xrl') <= MaxRules
      BY <1>0, <1>1, GrammarConstants
    <2>2. shortage' \in BOOLEAN
      BY <1>0, <1>2 DEF TypeOK
    <2> QED
      BY <1>0, <1>1, <1>2, <2>1, <2>2 DEF addRulep, TypeOK
  <1>7. (TypeOK /\ SymbolPart /\ RulePart /\ MentionedSymbolsKnown)' => GrammarInv'
    BY Parts, PTL
  <1> QED
    BY <1>3, <1>4, <1>5, <1>6, <1>7

\* Steps that leave symbols, rules and tables alone.
LEMMA QuietGrammar ==
  ASSUME GrammarInv, UNCHANGED <<xsy, xrl, startXsy, symbolTab, ruleTab, given, shortage>>,
         marpaWrapperp' \in BOOLEAN, phase' \in {"open", "precomputed", "spoiled"}
  PROVE  GrammarInv'
  BY DEF GrammarInv, TypeOK, TablesSound, IdsFirst, MentionedSymbolsKnown, Mentioned, RulesKnown,
         DamageNeedsBacklog

\* Every step of the grammar phase keeps the invariant.
LEMMA GrammarStep == GrammarInv /\ [Next]_gvars => GrammarInv'
  <1> SUFFICES ASSUME GrammarInv, [Next]_gvars
               PROVE  GrammarInv'
    OBVIOUS
  <1>0. marpaWrapperp \in BOOLEAN /\ phase \in {"open", "precomputed", "spoiled"}
    BY DEF GrammarInv, TypeOK
  <1>1. CASE newp
    BY <1>0, <1>1, QuietGrammar DEF newp
  <1>2. CASE destroyv
    BY <1>2, DestroyGrammar
  <1>3. CASE addSymbolpFails
    BY <1>3, AddSymbolFails
  <1>4. CASE precomputeb
    BY <1>0, <1>4, QuietGrammar DEF precomputeb
  <1>5. CASE precomputebFails
    BY <1>0, <1>5, QuietGrammar DEF precomputebFails
  <1>6. ASSUME NEW opts \in Options, addSymbolp(opts) PROVE GrammarInv'
    BY <1>6, AddSymbol, GrammarConstants
  <1>7. ASSUME NEW r \in Rules, addRulep(r) PROVE GrammarInv'
    BY <1>7, AddRule
  <1>8. CASE UNCHANGED gvars
    BY <1>0, <1>8, QuietGrammar DEF gvars
  <1> QED
    BY <1>1, <1>2, <1>3, <1>4, <1>5, <1>6, <1>7, <1>8 DEF Next

\* The invariant holds in every reachable state.
LEMMA GrammarInvariant == Spec => []GrammarInv
  <1>1. Init => GrammarInv
    BY EmptyGrammar DEF Init
  <1> QED
    BY <1>1, GrammarStep, PTL DEF Spec

\* Every variable of the grammar phase keeps its type.
THEOREM GrammarTypes == Spec => []TypeOK
  BY GrammarInvariant, PTL DEF GrammarInv

\* destroyv's walk up to the used mark stays inside both tables and reaches
\* every entry.
THEOREM GrammarTables == Spec => []TablesSound
  BY GrammarInvariant, PTL DEF GrammarInv

\* Whatever table allocations failed, marpaWrapperSymbolpp[id] is an entry for
\* every symbol libmarpa can name to the wrapper.
THEOREM GrammarSymbols == Spec => []MentionedSymbolsKnown
  BY GrammarInvariant, PTL DEF GrammarInv

\* Without a failed table allocation every rule libmarpa can name has an entry.
THEOREM GrammarRules == Spec => []RulesKnown
  BY GrammarInvariant, PTL DEF GrammarInv

\* The ids libmarpa and the wrapper hand to each other are in range and known,
\* in tables that can be walked: the four facts above together.
THEOREM GrammarIds == Spec => []IdsKnown
  <1>1. TypeOK /\ TablesSound /\ MentionedSymbolsKnown /\ RulesKnown => IdsKnown
    BY DEF IdsKnown
  <1> QED
    BY <1>1, GrammarTypes, GrammarTables, GrammarSymbols, GrammarRules, PTL

\* manageBuf_createp loses a block or leaves a dangling pointer only after as
\* many ids in a row as the table has slots were given out and lost.
THEOREM GrammarDamage == Spec => []DamageNeedsBacklog
  BY GrammarInvariant, PTL DEF GrammarInv

\* Rules, start symbol and flags of a precomputed grammar do not change.
THEOREM GrammarFreezes == Spec => FrozenOncePrecomputed
  <1>1. ASSUME GrammarInv, [Next]_gvars
        PROVE  [ phase = "precomputed" /\ marpaWrapperp' =>
                   /\ UNCHANGED <<xrl, startXsy>> /\ phase' = "precomputed"
                   /\ xsy' \in {xsy, Append(xsy, {})} ]_gvars
    <2> SUFFICES ASSUME Next, phase = "precomputed", marpaWrapperp'
                 PROVE  /\ UNCHANGED <<xrl, startXsy>> /\ phase' = "precomputed"
                        /\ xsy' \in {xsy, Append(xsy, {})}
      BY <1>1
    <2>1. CASE UNCHANGED <<xsy, xrl, startXsy, phase>>
      BY <2>1
    <2>2. CASE xsy' = Append(xsy, {}) /\ UNCHANGED <<xrl, startXsy, phase>>
      BY <2>2
    <2>3. ASSUME NEW opts \in Options, addSymbolp(opts)
          PROVE  xsy' = Append(xsy, {}) /\ UNCHANGED <<xrl, startXsy, phase>>
      BY <2>3, GrammarConstants DEF addSymbolp, Accepts
    <2>4. ASSUME NEW r \in Rules, addRulep(r) PROVE FALSE
      BY <2>4 DEF addRulep, RuleAccepted
    <2>5. ~destroyv /\ ~precomputeb /\ ~precomputebFails
      BY DEF destroyv, precomputeb, precomputebFails, Precomputable
    <2>6. addSymbolpFails => xsy' = Append(xsy, {}) /\ UNCHANGED <<xrl, startXsy, phase>>
      BY DEF addSymbolpFails
    <2>7. newp => UNCHANGED <<xsy, xrl, startXsy, phase>>
      BY DEF newp
    <2> QED
      BY <2>1, <2>2, <2>3, <2>4, <2>5, <2>6, <2>7 DEF Next
  <1> QED
    BY <1>1, GrammarInvariant, PTL DEF Spec, FrozenOncePrecomputed
-----------------------------------------------------------------------------
(***************************************************************************)
(* The table of progress items. A call fills it from slot 0 on, so it is   *)
(* full up to its mark, and one more slot never needs a second doubling.   *)
(* The items copied so far are those of the sets that are done and those   *)
(* read of the set at hand.                                                *)
(***************************************************************************)
Full(t) == /\ t \in Tables /\ Sound(t) /\ t.pp # "dangling" /\ t.leak = FALSE
           /\ t.entry = 0 .. t.used - 1

\* Freeing a full table leaves nothing behind.
LEMMA FullFreed ==
  ASSUME NEW t, Full(t)
  PROVE  freev(t) = NoTable /\ Full(NoTable)
  <1>1. freev(t) = NoTable
    BY SoundTableFreed DEF Full
  <1>2. NoTable.entry = {} /\ NoTable.used = 0 /\ NoTable.pp = "null" /\ NoTable.leak = FALSE
    BY DEF NoTable
  <1> QED
    BY <1>1, <1>2, EmptyTable DEF Full

\* Making room for one more slot keeps a table full.
LEMMA FullRoom ==
  ASSUME NEW t, Full(t), NEW u \in createp(t, t.used + 1)
  PROVE  Full(u) /\ u.used = t.used /\ u.entry = t.entry /\ u.used + 1 <= u.size
  <1>1. t.used \in Nat /\ DamageOnlyAfterBacklog(t, t.used)
    BY DEF Full, Tables, DamageOnlyAfterBacklog
  <1> QED
    BY <1>1, RoomMade DEF Full

\* When there is no room for one more slot, nothing is lost.
LEMMA FullRefused ==
  ASSUME NEW t, Full(t), NEW u \in createpFails(t, t.used + 1)
  PROVE  u = t
  BY TableConstants DEF Full, Sound, Tables, createpFails

\* Storing into the slot above the mark keeps a table full.
LEMMA FullStored ==
  ASSUME NEW t, Full(t), t.used + 1 <= t.size
  PROVE  /\ Full(store(t, t.used)) /\ store(t, t.used).used = t.used + 1
         /\ store(t, t.used).entry = t.entry \cup {t.used}
  <1>1. t.used \in Nat /\ DamageOnlyAfterBacklog(t, t.used) /\ \A i \in t.entry : i < t.used
    BY DEF Full, Tables, DamageOnlyAfterBacklog
  <1>2. /\ store(t, t.used) \in Tables /\ Sound(store(t, t.used))
        /\ store(t, t.used).entry = t.entry \cup {t.used}
    BY <1>1, EntryStored DEF Full
  <1>3. /\ store(t, t.used).pp = t.pp /\ store(t, t.used).leak = t.leak
        /\ store(t, t.used).used = t.used + 1
    BY DEF store, Full, Tables
  <1>4. t.entry \cup {t.used} = 0 .. t.used
    BY <1>1 DEF Full
  <1> QED
    BY <1>1, <1>2, <1>3, <1>4 DEF Full

InCall == stage \in {"set", "item", "finish"}
Answered == stage = "idle" /\ rcb

ProgressInv ==
  /\ ProgressTypeOK /\ Full(progressTab) /\ IsInjective(slots)
  /\ InCall => progressTab.used = nItems
  /\ InCall \/ Answered => lastSet < Len(sets)
  /\ stage = "set" => /\ rcb /\ firstSet <= setId /\ setId <= lastSet + 1
                   /\ Copied = ItemsOfSets(firstSet, setId - 1)
  /\ stage = "item" => /\ rcb /\ firstSet <= setId /\ setId <= lastSet
                    /\ report.read <= Len(ItemsOf(setId))
                    /\ Copied = ItemsOfSets(firstSet, setId - 1) \cup ItemsRead(setId, report.read)
  /\ stage = "finish" /\ rcb => Copied = ItemsOfSets(firstSet, lastSet)
  /\ Answered => /\ Copied = ItemsOfSets(firstSet, lastSet) /\ Ordered(slots)
                 /\ report = NoReport

\* What the invariant is for.
LEMMA ProgressInvImplies == ProgressInv => ProgressWhole
  BY DEF ProgressInv, ProgressWhole, ProgressTableSound, HandedOutWhole, OpenOnlyAfterFailure,
         InCall, Answered, Full

\* No sets have no items, and one set more adds its own.
LEMMA OneMoreSet ==
  ASSUME NEW lo \in Nat, NEW hi \in Nat, lo <= hi
  PROVE  /\ ItemsOfSets(lo, lo - 1) = {}
         /\ ItemsOfSets(lo, hi) = ItemsOfSets(lo, hi - 1) \cup ItemsRead(hi, Len(ItemsOf(hi)))
  <1>1. lo .. lo - 1 = {} /\ lo .. hi = (lo .. hi - 1) \cup {hi}
    OBVIOUS
  <1> QED
    BY <1>1, Zenon DEF ItemsOfSets

\* One item more.
LEMMA OneMoreItem ==
  ASSUME NEW s, NEW k \in Nat
  PROVE  /\ ItemsRead(s, 0) = {}
         /\ ItemsRead(s, k + 1) = ItemsRead(s, k) \cup {[set |-> s, item |-> ItemsOf(s)[k + 1]]}
  <1>1. 1 .. 0 = {} /\ 1 .. k + 1 = (1 .. k) \cup {k + 1}
    OBVIOUS
  <1> QED
    BY <1>1, Zenon DEF ItemsRead

\* libmarpa reports an item of a set once, so the next one is new to the table.
LEMMA NextItemIsNew ==
  ASSUME NEW s \in Nat, NEW lo \in Nat, NEW k \in Nat, sets \in Seq(Reports), s < Len(sets),
         k < Len(ItemsOf(s))
  PROVE  [set |-> s, item |-> ItemsOf(s)[k + 1]]
           \notin ItemsOfSets(lo, s - 1) \cup ItemsRead(s, k)
  <1> DEFINE x == [set |-> s, item |-> ItemsOf(s)[k + 1]]
  <1>1. ItemsOf(s) \in Reports
    BY DEF ItemsOf
  <1>2. /\ DOMAIN ItemsOf(s) = 1 .. Len(ItemsOf(s)) /\ Len(ItemsOf(s)) \in Nat
        /\ IsInjective(ItemsOf(s))
    BY <1>1, ProgressConstants
  <1>3. x \notin ItemsRead(s, k)
    <2> SUFFICES ASSUME NEW j \in 1 .. k, x = [set |-> s, item |-> ItemsOf(s)[j]]
                 PROVE  FALSE
      BY DEF ItemsRead
    <2>1. ItemsOf(s)[k + 1] = ItemsOf(s)[j]
      OBVIOUS
    <2>2. k + 1 \in DOMAIN ItemsOf(s) /\ j \in DOMAIN ItemsOf(s) /\ k + 1 # j
      BY <1>2
    <2> QED
      BY <1>2, <2>1, <2>2 DEF IsInjective
  <1>4. x \notin ItemsOfSets(lo, s - 1)
    <2> SUFFICES ASSUME NEW t \in lo .. s - 1, NEW j,
                        x = [set |-> t, item |-> ItemsOf(t)[j]]
                 PROVE  FALSE
      BY DEF ItemsOfSets, ItemsRead
    <2>1. t = s
      OBVIOUS
    <2> QED
      BY <2>1
  <1> QED
    BY <1>3, <1>4
-----------------------------------------------------------------------------
\* No report and no sets have the type of a report and of sets.
LEMMA NoReportTyped ==
  /\ NoReport \in [set : Int, read : Nat] /\ <<>> \in Seq(Reports)
  /\ \A rep \in Reports : <<rep>> \in Seq(Reports)
  <1>1. -1 \in Int /\ 0 \in Nat
    OBVIOUS
  <1>2. NoReport \in [set : Int, read : Nat]
    BY <1>1 DEF NoReport
  <1> QED
    BY <1>2

\* An empty table and no call.
LEMMA ProgressStart == ProgressInit => ProgressInv
  <1> SUFFICES ASSUME ProgressInit PROVE ProgressInv
    OBVIOUS
  <1>1. slots = <<>> /\ DOMAIN slots = {} /\ NoTable.entry = {} /\ NoTable.used = 0
        /\ NoTable.pp = "null" /\ NoTable.leak = FALSE
    BY DEF ProgressInit, NoTable
  <1>2. Full(progressTab)
    BY <1>1, EmptyTable DEF ProgressInit, Full
  <1>3. ProgressTypeOK
    BY <1>1, EmptyTable, NoReportTyped DEF ProgressInit, ProgressTypeOK
  <1> QED
    BY <1>1, <1>2, <1>3 DEF ProgressInv, ProgressInit, IsInjective, InCall, Answered

\* freev empties the table and its slots.
LEMMA ProgressFreed ==
  ASSUME Full(progressTab), FreeProgress
  PROVE  /\ progressTab' = NoTable /\ progressTab' \in Tables /\ Full(progressTab)'
         /\ DOMAIN slots' = {} /\ progressTab'.entry = {} /\ progressTab'.used = 0
         /\ IsInjective(slots)' /\ Copied' = {}
  <1>1. progressTab' = NoTable /\ Full(NoTable)
    BY FullFreed DEF FreeProgress
  <1>2. NoTable.entry = {} /\ NoTable.used = 0 /\ NoTable \in Tables
    BY EmptyTable DEF NoTable
  <1>3. DOMAIN slots' = {}
    BY <1>1, <1>2 DEF FreeProgress
  <1> QED
    BY <1>1, <1>2, <1>3 DEF Full, IsInjective, Copied

\* startb keeps the table, and no call has answered TRUE.
LEMMA ProgressRestart ==
  ASSUME ProgressInv, NEW rep \in Reports, startbProgress(rep)
  PROVE  ProgressInv'
  <1>1. ProgressTypeOK'
    BY NoReportTyped DEF ProgressInv, ProgressTypeOK, startbProgress
  <1> QED
    BY <1>1 DEF ProgressInv, startbProgress, Full, IsInjective, InCall, Answered

\* A new Earley set is beyond the range of the call that answered.
LEMMA ProgressNewSet ==
  ASSUME ProgressInv, NEW rep \in Reports, completebProgress(rep)
  PROVE  ProgressInv'
  <1>1. ProgressTypeOK'
    BY DEF ProgressInv, ProgressTypeOK, completebProgress
  <1>2. Len(sets') = Len(sets) + 1 /\ \A i \in 1 .. Len(sets) : sets'[i] = sets[i]
    BY DEF ProgressInv, ProgressTypeOK, completebProgress
  <1>3. ASSUME Answered
        PROVE  ItemsOfSets(firstSet, lastSet)' = ItemsOfSets(firstSet, lastSet)
    <2>1. \A s \in firstSet .. lastSet : ItemsOf(s)' = ItemsOf(s)
      BY <1>2, <1>3 DEF ProgressInv, ProgressTypeOK, ItemsOf
    <2>2. \A s \in firstSet .. lastSet :
            ItemsRead(s, Len(ItemsOf(s)))' = ItemsRead(s, Len(ItemsOf(s)))
      BY <2>1, Zenon DEF ItemsRead
    <2> QED
      BY <2>2, Zenon DEF ItemsOfSets, completebProgress
  <1>4. Answered' <=> Answered
    BY DEF Answered, completebProgress
  <1>5. Answered => lastSet < Len(sets')
    BY <1>2 DEF ProgressInv, ProgressTypeOK
  <1> QED
    BY <1>1, <1>3, <1>4, <1>5
    DEF ProgressInv, completebProgress, Full, IsInjective, InCall, Copied, Ordered

\* destroyv frees the items.
LEMMA ProgressDestroyed == ProgressInv /\ destroyvProgress => ProgressInv'
  <1> SUFFICES ASSUME ProgressInv, destroyvProgress PROVE ProgressInv'
    OBVIOUS
  <1>1. Full(progressTab) /\ FreeProgress
    BY DEF ProgressInv, destroyvProgress
  <1>2. ProgressTypeOK'
    BY <1>1, ProgressFreed, NoReportTyped DEF ProgressInv, ProgressTypeOK, destroyvProgress
  <1> QED
    BY <1>1, <1>2, ProgressFreed DEF ProgressInv, destroyvProgress, InCall, Answered

\* The call begins with an empty table and none of its sets done.
LEMMA ProgressCalled ==
  ASSUME ProgressInv, NEW starti \in Int, NEW endi \in Int, progressb(starti, endi)
  PROVE  ProgressInv'
  <1>1. Full(progressTab) /\ FreeProgress
    BY DEF ProgressInv, progressb
  <1>2. PICK lo \in Nat, hi \in Nat :
          lo <= hi /\ firstSet' = lo /\ lastSet' = hi /\ setId' = lo
    BY DEF ProgressInv, ProgressTypeOK, progressb, InRange, Normal, Latest
  <1>3. lastSet' < Len(sets')
    BY DEF ProgressInv, ProgressTypeOK, progressb, InRange, Normal, Latest
  <1>4. ProgressTypeOK'
    BY <1>1, <1>2, ProgressFreed DEF ProgressInv, ProgressTypeOK, progressb
  <1>5. lo .. lo - 1 = {} /\ lo <= lo /\ lo <= hi + 1
    BY <1>2
  <1>6. ItemsOfSets(firstSet, setId - 1)' = {}
    BY <1>2, <1>5 DEF ItemsOfSets
  <1>7. Full(progressTab)' /\ IsInjective(slots)' /\ progressTab'.used = nItems' /\ Copied' = {}
    BY <1>1, ProgressFreed DEF progressb
  <1>8. firstSet' <= setId' /\ setId' <= lastSet' + 1
    BY <1>2, <1>5
  <1> QED
    BY <1>3, <1>4, <1>6, <1>7, <1>8 DEF ProgressInv, InCall, Answered, progressb

\* A refused call leaves an empty table and answers FALSE.
LEMMA ProgressRefused ==
  ASSUME ProgressInv, NEW starti \in Int, NEW endi \in Int, progressbRefused(starti, endi)
  PROVE  ProgressInv'
  <1>1. Full(progressTab) /\ FreeProgress
    BY DEF ProgressInv, progressbRefused
  <1>2. ProgressTypeOK'
    BY <1>1, ProgressFreed DEF ProgressInv, ProgressTypeOK, progressbRefused
  <1> QED
    BY <1>1, <1>2, ProgressFreed DEF ProgressInv, progressbRefused, InCall, Answered

\* A report is begun with nothing read of it.
LEMMA ProgressReport == ProgressInv /\ reportStart => ProgressInv'
  <1> SUFFICES ASSUME ProgressInv, reportStart PROVE ProgressInv'
    OBVIOUS
  <1>1. ProgressTypeOK'
    BY DEF ProgressInv, ProgressTypeOK, reportStart
  <1>2. report'.read = 0 /\ ItemsRead(setId, 0) = {}
    BY OneMoreItem DEF reportStart
  <1>3. setId + 1 \in 1 .. Len(sets) /\ ItemsOf(setId) \in Reports
    BY DEF ProgressInv, ProgressTypeOK, reportStart, ItemsOf, InCall
  <1>4. 0 <= Len(ItemsOf(setId))
    BY <1>3, ProgressConstants
  <1>5. (ItemsOfSets(firstSet, setId - 1) \cup ItemsRead(setId, report.read))'
          = ItemsOfSets(firstSet, setId - 1)
    BY <1>2 DEF reportStart, ItemsOfSets, ItemsRead, ItemsOf
  <1>6. ItemsOf(setId)' = ItemsOf(setId) /\ Copied' = Copied
    BY DEF reportStart, ItemsOf, Copied
  <1> QED
    BY <1>1, <1>2, <1>4, <1>5, <1>6
    DEF ProgressInv, reportStart, Full, IsInjective, InCall, Answered

\* An item to come is one of a set of the range.
LEMMA ItemAtHand ==
  ASSUME ProgressInv, MoreItems
  PROVE  /\ stage = "item" /\ setId \in Nat /\ setId < Len(sets) /\ report.read \in Nat
         /\ report.read < Len(ItemsOf(setId)) /\ Len(ItemsOf(setId)) \in Nat
         /\ progressTab.used = nItems /\ nItems \in Nat
         /\ report \in [set : Int, read : Nat]
  <1>1. /\ stage = "item" /\ setId \in Nat /\ setId < Len(sets) /\ report.read \in Nat
        /\ report.read < Len(ItemsOf(setId)) /\ progressTab.used = nItems /\ nItems \in Nat
        /\ report \in [set : Int, read : Nat]
    BY DEF ProgressInv, ProgressTypeOK, MoreItems, InCall
  <1>2. ItemsOf(setId) \in Reports
    BY <1>1 DEF ProgressInv, ProgressTypeOK, ItemsOf
  <1> QED
    BY <1>1, <1>2, ProgressConstants

\* An item is stored above the mark, and it was not in the table.
LEMMA ProgressStored == ProgressInv /\ item => ProgressInv'
  <1> SUFFICES ASSUME ProgressInv, item PROVE ProgressInv'
    OBVIOUS
  <1> DEFINE k == report.read
             u == progressTab.used
             x == [set |-> setId, item |-> ItemsOf(setId)[k + 1]]
  <1>1. /\ stage = "item" /\ setId \in Nat /\ setId < Len(sets) /\ k \in Nat
        /\ k < Len(ItemsOf(setId)) /\ Len(ItemsOf(setId)) \in Nat
        /\ u = nItems /\ u \in Nat /\ report \in [set : Int, read : Nat]
    BY ItemAtHand DEF item
  <1>2. Full(progressTab) /\ progressTab.entry = 0 .. u - 1 /\ DOMAIN slots = 0 .. u - 1
    BY DEF ProgressInv, ProgressTypeOK, Full
  <1>3. PICK t \in createp(progressTab, u + 1) : progressTab' = store(t, u)
    BY <1>1 DEF item
  <1>4. Full(t) /\ t.used = u /\ t.entry = progressTab.entry /\ t.used + 1 <= t.size
    BY <1>2, <1>3, FullRoom
  <1>5. Full(progressTab)' /\ progressTab'.used = u + 1 /\ progressTab'.entry = 0 .. u
    <2>1. /\ Full(store(t, u)) /\ store(t, u).used = u + 1
          /\ store(t, u).entry = progressTab.entry \cup {u}
      BY <1>4, FullStored
    <2>2. (0 .. u - 1) \cup {u} = 0 .. u
      BY <1>1
    <2> QED
      BY <1>2, <1>3, <2>1, <2>2 DEF Full
  <1>6. /\ slots' = [i \in 0 .. u |-> IF i = u THEN x ELSE slots[i]] /\ DOMAIN slots' = 0 .. u
        /\ 0 .. u = (0 .. u - 1) \cup {u} /\ u \notin 0 .. u - 1
    <2>1. (0 .. u - 1) \cup {u} = 0 .. u /\ u \notin 0 .. u - 1
      BY <1>1
    <2> QED
      BY <1>1, <1>2, <2>1 DEF item, Item
  <1>7. \A i \in 0 .. u - 1 : slots'[i] = slots[i] /\ slots[i] \in Copied
    BY <1>2, <1>6 DEF Copied
  <1>8. slots'[u] = x
    BY <1>6
  <1>9. /\ report' = [report EXCEPT !.read = k + 1] /\ report'.read = k + 1
        /\ report' \in [set : Int, read : Nat]
    BY <1>1 DEF item, ReadItem
  <1>10. Copied' = Copied \cup {x}
    <2>1. \A y : y \in Copied <=> \E i \in 0 .. u - 1 : y = slots[i]
      BY <1>2 DEF Copied
    <2>2. \A y : y \in Copied' <=> (\E i \in 0 .. u - 1 : y = slots'[i]) \/ y = slots'[u]
      BY <1>6 DEF Copied
    <2>3. ASSUME NEW y, y \in Copied' PROVE y \in Copied \/ y = x
      BY <1>7, <1>8, <2>2, <2>3
    <2>4. ASSUME NEW y \in Copied PROVE y \in Copied'
      BY <1>7, <2>1, <2>2
    <2>5. x \in Copied'
      BY <1>8, <2>2
    <2> QED
      BY <2>3, <2>4, <2>5
  <1>11. Copied = ItemsOfSets(firstSet, setId - 1) \cup ItemsRead(setId, k) /\ firstSet \in Nat
    BY <1>1 DEF ProgressInv, ProgressTypeOK
  <1>12. x \notin Copied
    BY <1>1, <1>11, NextItemIsNew DEF ProgressInv, ProgressTypeOK
  <1>13. IsInjective(slots)'
    <2>1. \A i, j \in 0 .. u - 1 : slots[i] = slots[j] => i = j
      BY <1>2 DEF ProgressInv, IsInjective
    <2>2. \A i, j \in (0 .. u - 1) \cup {u} : slots'[i] = slots'[j] => i = j
      BY <1>7, <1>8, <1>12, <2>1
    <2> QED
      BY <1>6, <2>2 DEF IsInjective
  <1>14. ProgressTypeOK'
    <2>1. progressTab' \in Tables /\ DOMAIN slots' = progressTab'.entry
      BY <1>5, <1>6 DEF Full
    <2>2. nItems' \in Nat
      BY <1>1 DEF item
    <2> QED
      BY <1>9, <2>1, <2>2 DEF ProgressInv, ProgressTypeOK, item
  <1>15. /\ ItemsOfSets(firstSet, setId - 1)' = ItemsOfSets(firstSet, setId - 1)
         /\ ItemsRead(setId, report.read)' = ItemsRead(setId, k + 1)
         /\ ItemsOf(setId)' = ItemsOf(setId)
    BY <1>9 DEF item, ItemsOfSets, ItemsRead, ItemsOf
  <1>16. ItemsRead(setId, k + 1) = ItemsRead(setId, k) \cup {x}
    BY <1>1, OneMoreItem
  <1>17. Copied' = (ItemsOfSets(firstSet, setId - 1) \cup ItemsRead(setId, report.read))'
    BY <1>10, <1>11, <1>15, <1>16
  <1>18. (report.read <= Len(ItemsOf(setId)))' /\ progressTab'.used = nItems'
    BY <1>1, <1>5, <1>9, <1>15 DEF item
  <1> QED
    BY <1>1, <1>5, <1>13, <1>14, <1>17, <1>18 DEF ProgressInv, item, InCall, Answered

\* Without room for an item the call fails with its table as it was.
LEMMA ProgressNoRoom == ProgressInv /\ itemNoRoom => ProgressInv'
  <1> SUFFICES ASSUME ProgressInv, itemNoRoom PROVE ProgressInv'
    OBVIOUS
  <1>1. Full(progressTab) /\ progressTab.used = nItems /\ stage = "item"
    BY ItemAtHand DEF ProgressInv, itemNoRoom
  <1>2. progressTab' = progressTab
    BY <1>1, FullRefused DEF itemNoRoom
  <1>3. report' \in [set : Int, read : Nat]
    BY ItemAtHand DEF itemNoRoom, ReadItem
  <1>4. ProgressTypeOK'
    BY <1>2, <1>3 DEF ProgressInv, ProgressTypeOK, itemNoRoom
  <1> QED
    BY <1>1, <1>2, <1>4 DEF ProgressInv, itemNoRoom, Full, IsInjective, InCall, Answered

\* Without memory for an item the call answers FALSE; its table may have grown.
LEMMA ProgressNoBlock == ProgressInv /\ itemNoBlock => ProgressInv'
  <1> SUFFICES ASSUME ProgressInv, itemNoBlock PROVE ProgressInv'
    OBVIOUS
  <1>1. Full(progressTab) /\ progressTab.used = nItems /\ stage = "item"
    BY ItemAtHand DEF ProgressInv, itemNoBlock
  <1>2. Full(progressTab)' /\ progressTab'.entry = progressTab.entry
    BY <1>1, FullRoom DEF itemNoBlock, Full
  <1>3. report' \in [set : Int, read : Nat]
    BY ItemAtHand DEF itemNoBlock, ReadItem
  <1>4. ProgressTypeOK'
    BY <1>2, <1>3 DEF ProgressInv, ProgressTypeOK, itemNoBlock, Full
  <1> QED
    BY <1>1, <1>2, <1>4 DEF ProgressInv, itemNoBlock, IsInjective, InCall, Answered

\* A set of which everything was read is done.
LEMMA ProgressSetDone == ProgressInv /\ setDone => ProgressInv'
  <1> SUFFICES ASSUME ProgressInv, setDone PROVE ProgressInv'
    OBVIOUS
  <1>1. /\ setId \in Nat /\ firstSet \in Nat /\ lastSet \in Nat /\ report.read \in Nat
        /\ firstSet <= setId /\ setId <= lastSet /\ lastSet < Len(sets) /\ sets \in Seq(Reports)
    BY DEF ProgressInv, ProgressTypeOK, setDone, InCall
  <1>2. ItemsOf(setId) \in Reports
    BY <1>1 DEF ItemsOf
  <1>3. report.read = Len(ItemsOf(setId))
    <2>1. Len(ItemsOf(setId)) \in Nat
      BY <1>2, ProgressConstants
    <2>2. report.read <= Len(ItemsOf(setId)) /\ ~(report.read < Len(ItemsOf(setId)))
      BY DEF ProgressInv, setDone, MoreItems
    <2> QED
      BY <1>1, <2>1, <2>2
  <1>4. Copied = ItemsOfSets(firstSet, setId)
    <2>1. Copied = ItemsOfSets(firstSet, setId - 1) \cup ItemsRead(setId, Len(ItemsOf(setId)))
      BY <1>3 DEF ProgressInv, setDone
    <2> QED
      BY <1>1, <2>1, OneMoreSet
  <1>5. setId + 1 \in Nat /\ firstSet <= setId + 1 /\ setId + 1 <= lastSet + 1
    BY <1>1
  <1>6. ItemsOfSets(firstSet, setId - 1)' = ItemsOfSets(firstSet, setId) /\ Copied' = Copied
    <2>1. setId' = setId + 1 /\ firstSet' = firstSet /\ sets' = sets /\ slots' = slots
      BY DEF setDone
    <2>2. firstSet' .. setId' - 1 = firstSet .. setId
      <3>1. \A c \in Nat : \A d : d = c + 1 => d - 1 = c
        OBVIOUS
      <3> QED
        BY <1>1, <2>1, <3>1, Zenon
    <2>3. \A s : ItemsRead(s, Len(ItemsOf(s)))' = ItemsRead(s, Len(ItemsOf(s)))
      BY <2>1, Zenon DEF ItemsRead, ItemsOf
    <2>4. Copied' = Copied
      BY <2>1 DEF Copied
    <2> QED
      BY <2>2, <2>3, <2>4, Zenon DEF ItemsOfSets
  <1>7. ProgressTypeOK'
    BY <1>5 DEF ProgressInv, ProgressTypeOK, setDone
  <1> QED
    BY <1>1, <1>4, <1>5, <1>6, <1>7
    DEF ProgressInv, setDone, Full, IsInjective, InCall, Answered

\* All sets are done.
LEMMA ProgressSetsDone == ProgressInv /\ setsDone => ProgressInv'
  <1> SUFFICES ASSUME ProgressInv, setsDone PROVE ProgressInv'
    OBVIOUS
  <1>1. setId - 1 = lastSet
    BY DEF ProgressInv, ProgressTypeOK, setsDone
  <1>2. ProgressTypeOK'
    BY DEF ProgressInv, ProgressTypeOK, setsDone
  <1>3. /\ ItemsOfSets(firstSet, lastSet)' = ItemsOfSets(firstSet, setId - 1)
        /\ Copied' = Copied
    BY <1>1 DEF setsDone, ItemsOfSets, ItemsRead, ItemsOf, Copied
  <1> QED
    BY <1>2, <1>3 DEF ProgressInv, setsDone, Full, IsInjective, InCall, Answered

\* Sorting moves the items about and keeps them all.
LEMMA SortKeepsItems ==
  ASSUME NEW f, IsInjective(f), NEW h \in Sorts(f)
  PROVE  /\ DOMAIN h = DOMAIN f /\ IsInjective(h) /\ Ordered(h)
         /\ {h[i] : i \in DOMAIN h} = {f[i] : i \in DOMAIN f}
  <1>1. PICK p \in Bijection(DOMAIN f, DOMAIN f) : h = [i \in DOMAIN f |-> f[p[i]]]
    BY DEF Sorts, Permuted
  <1>2. /\ p \in [DOMAIN f -> DOMAIN f]
        /\ \A i, j \in DOMAIN f : p[i] = p[j] => i = j
        /\ \A j \in DOMAIN f : \E i \in DOMAIN f : p[i] = j
    BY DEF Bijection, Injection, Surjection, IsInjective
  <1>3. DOMAIN h = DOMAIN f /\ \A i \in DOMAIN f : h[i] = f[p[i]] /\ p[i] \in DOMAIN f
    BY <1>1, <1>2
  <1>4. IsInjective(h)
    BY <1>2, <1>3 DEF IsInjective
  <1>5. {h[i] : i \in DOMAIN h} = {f[i] : i \in DOMAIN f}
    BY <1>2, <1>3
  <1> QED
    BY <1>3, <1>4, <1>5 DEF Sorts

\* The call ends: a sorted table when it answers TRUE, and no report.
LEMMA ProgressFinished == ProgressInv /\ finish => ProgressInv'
  <1> SUFFICES ASSUME ProgressInv, finish PROVE ProgressInv'
    OBVIOUS
  <1>1. ItemsOfSets(firstSet, lastSet)' = ItemsOfSets(firstSet, lastSet)
    BY DEF finish, ItemsOfSets, ItemsRead, ItemsOf
  <1>2. CASE rcb
    <2>1. slots' \in Sorts(slots)
      BY <1>2 DEF finish
    <2>2. /\ DOMAIN slots' = DOMAIN slots /\ IsInjective(slots)' /\ Ordered(slots)'
          /\ Copied' = Copied
      BY <2>1, SortKeepsItems DEF ProgressInv, Copied, IsInjective, Ordered
    <2>3. ProgressTypeOK'
      BY <2>2, NoReportTyped DEF ProgressInv, ProgressTypeOK, finish
    <2>4. Copied' = ItemsOfSets(firstSet, lastSet)'
      BY <1>1, <1>2, <2>2 DEF ProgressInv, finish
    <2> QED
      BY <2>2, <2>3, <2>4 DEF ProgressInv, finish, Full, InCall, Answered
  <1>3. CASE ~rcb
    <2>1. ProgressTypeOK'
      BY <1>3, NoReportTyped DEF ProgressInv, ProgressTypeOK, finish
    <2> QED
      BY <1>3, <2>1 DEF ProgressInv, finish, Full, IsInjective, InCall, Answered
  <1> QED
    BY <1>2, <1>3

LEMMA ProgressStep == ProgressInv /\ [ProgressNext]_progressVars => ProgressInv'
  <1> SUFFICES ASSUME ProgressInv, [ProgressNext]_progressVars PROVE ProgressInv'
    OBVIOUS
  <1>1. ASSUME NEW rep \in Reports, startbProgress(rep) \/ completebProgress(rep)
        PROVE  ProgressInv'
    BY <1>1, ProgressRestart, ProgressNewSet
  <1>2. CASE destroyvProgress
    BY <1>2, ProgressDestroyed
  <1>3. ASSUME NEW starti \in Int, NEW endi \in Int,
               progressb(starti, endi) \/ progressbRefused(starti, endi)
        PROVE  ProgressInv'
    BY <1>3, ProgressCalled, ProgressRefused
  <1>4. CASE reportStart \/ item \/ itemNoRoom \/ itemNoBlock
    BY <1>4, ProgressReport, ProgressStored, ProgressNoRoom, ProgressNoBlock
  <1>5. CASE setDone \/ setsDone \/ finish
    BY <1>5, ProgressSetDone, ProgressSetsDone, ProgressFinished
  <1>6. CASE UNCHANGED progressVars
    <2>1. /\ ProgressTypeOK' /\ Full(progressTab)' /\ IsInjective(slots)'
          /\ Ordered(slots)' <=> Ordered(slots)
      BY <1>6 DEF ProgressInv, progressVars, ProgressTypeOK, Full, IsInjective, Ordered
    <2>2. /\ Copied' = Copied /\ ItemsOf(setId)' = ItemsOf(setId)
          /\ ItemsOfSets(firstSet, lastSet)' = ItemsOfSets(firstSet, lastSet)
          /\ ItemsOfSets(firstSet, setId - 1)' = ItemsOfSets(firstSet, setId - 1)
          /\ ItemsRead(setId, report.read)' = ItemsRead(setId, report.read)
      BY <1>6 DEF progressVars, Copied, ItemsOfSets, ItemsRead, ItemsOf
    <2> QED
      BY <1>6, <2>1, <2>2 DEF ProgressInv, progressVars, InCall, Answered
  <1>7. -(MaxSets + 1) .. MaxSets \subseteq Int
    BY ProgressConstants
  <1> QED
    BY <1>1, <1>2, <1>3, <1>4, <1>5, <1>6, <1>7 DEF ProgressNext

\* For every number of Earley sets, every content of libmarpa's reports and
\* every first size of the table: whatever allocations failed in earlier calls,
\* a call of progressb that answers TRUE hands out exactly the items of its
\* range, once each and in order, and the table can be freed.
THEOREM ProgressExactlyOnce == ProgressSpec => []ProgressWhole
  <1>1. ProgressSpec => []ProgressInv
    BY ProgressStart, ProgressStep, PTL DEF ProgressSpec
  <1> QED
    BY <1>1, ProgressInvImplies, PTL
============================================================================
