----------------------------- MODULE Recognizer -----------------------------
(***************************************************************************)
(* The read phase of src/src/marpaWrapper.c: startb, alternativeb,         *)
(* completeb, readb, terminals_expectedb, terminal_is_expectedb,           *)
(* event_activateb and _marpaWrapper_event, on top of the grammar phase.   *)
(*                                                                         *)
(* libmarpa's recognizer is modelled by its input state: the current and   *)
(* the furthest earleme, the alternatives waiting for the earleme they end *)
(* at, the terminals expected here and the events of the last call.  What  *)
(* the Earley sets contain is not: which accessible terminals are expected *)
(* next and which active events trigger is left open.                      *)
(***************************************************************************)
EXTENDS Grammar, SequencesExt

CONSTANTS WrapperOptions,    \* the options newp is called with
          TokenValues, TokenLengths,
          EventSets,         \* the event sets event_activateb is called with
          MaxEarleme         \* bound: completeb is called only below it

ASSUME RecognizerConstants ==
  /\ WrapperOptions \subseteq [warningIsErrorb : BOOLEAN, unsortedEventsb : BOOLEAN]
  /\ TokenValues \subseteq Nat /\ TokenLengths \subseteq Int
  /\ EventSets \subseteq SUBSET EventTypes /\ MaxEarleme \in Nat

VARIABLES
  option,        \* marpaWrapperOption
  recp,          \* marpaRecognizerp is not NULL
  accepting,     \* libmarpa's input phase: tokens are accepted
  earleme, furthest,
  hasSet,        \* there is an Earley set at the current earleme
  pending,       \* alternatives accepted and not scanned yet
  expected,      \* the terminals expected at the current earleme
  active,        \* the symbol events that are switched on
  recSymbols,    \* number of symbols when input started: the length of the
                 \* recognizer's event vectors, 0 when it has none
  events,        \* libmarpa's events of the last call
  idArray, symArray,  \* capacities of the two arrays of expected terminals,
                      \* NoArray where the pointer is NULL
  delivered,     \* what the last call of this phase passed to the event callback
  ret            \* what it answered

input == <<accepting, earleme, furthest, hasSet, pending, expected, events>>
arrays == <<idArray, symArray>>
rvars == <<option, recp, input, active, recSymbols, arrays, delivered, ret>>
vars == <<gvars, rvars>>

NoArray == -1
NoEvents == [exhausted |-> FALSE, threshold |-> FALSE, symbols |-> {}]
Exhausted == [NoEvents EXCEPT !.exhausted = TRUE]
SymbolEvents == [type : EventTypes, sym : SymbolIds]
Tokens == [sym : SymbolIds, start : Nat, end : Nat]

\* Left-hand sides are not terminals unless they are marked so.
Terminals == {s \in SymbolIds : s < Len(xsy) /\ ("terminal" \in xsy[s + 1] \/ s \notin Lhss)}

\* The symbols that can be derived from the start symbol.
Accessible ==
  {s \in SymbolIds : \A C \in SUBSET SymbolIds :
      /\ startXsy \in C
      /\ \A k \in DOMAIN xrl : xrl[k].lhs \in C => RuleSymbols(xrl[k]) \subseteq C
      => s \in C}

\* A grammar in which no terminal can be reached only parses the empty input.
Trivial == Accessible \cap Terminals = {}

Subscribed == {e \in SymbolEvents : e.sym < Len(xsy) /\ e.type \in xsy[e.sym + 1]}

NoInput ==
  /\ accepting = FALSE /\ earleme = 0 /\ furthest = 0 /\ hasSet = FALSE
  /\ pending = {} /\ expected = {} /\ events = NoEvents

RecInit ==
  /\ Init /\ NoInput
  /\ option \in WrapperOptions /\ recp = FALSE
  /\ active = {} /\ recSymbols = 0
  /\ idArray = NoArray /\ symArray = NoArray
  /\ delivered = <<>> /\ ret = FALSE

RecTypeOK ==
  /\ TypeOK
  /\ option \in WrapperOptions
  /\ recp \in BOOLEAN /\ accepting \in BOOLEAN /\ hasSet \in BOOLEAN /\ ret \in BOOLEAN
  /\ earleme \in Nat /\ furthest \in Nat
  /\ pending \subseteq Tokens /\ expected \subseteq SymbolIds
  /\ active \subseteq SymbolEvents /\ recSymbols \in 0 .. MaxSymbols
  /\ events \in [exhausted : BOOLEAN, threshold : BOOLEAN, symbols : SUBSET SymbolEvents]
  /\ idArray \in Nat \cup {NoArray} /\ symArray \in Nat \cup {NoArray}
  /\ delivered \in Seq(SymbolEvents)

Started == Ready /\ recp
-----------------------------------------------------------------------------
(* _marpaWrapper_event: libmarpa's events become the array the callback    *)
(* gets                                                                    *)

\* The codes of MARPAWRAPPER_EVENTTYPE_*, as stored in the array.
Code(type) == CASE type = "completed" -> 1 [] type = "nulled" -> 2 [] type = "predicted" -> 4

\* _marpaWrapper_event_weight looks for libmarpa's codes:
\* MARPA_EVENT_SYMBOL_COMPLETED, _NULLED, _EXPECTED and _PREDICTED.
event_weight(code) == CASE code = 6 -> -1 [] code = 8 -> 0 [] code \in {7, 9} -> 1
                        [] OTHER -> 0

Weight(e) == event_weight(Code(e.type))

\* The order in which libmarpa raises the events of one earleme.
RaisedBefore(d, e) == Code(d.type) < Code(e.type) \/ (d.type = e.type /\ d.sym < e.sym)
Raised(S) == {q \in SetToSeqs(S) : \A i, j \in DOMAIN q : i < j => RaisedBefore(q[i], q[j])}

\* qsort promises the order of the weights and nothing among equals.
Sorted(S) == {q \in SetToSeqs(S) :
                \A i, j \in DOMAIN q : i < j => Weight(q[i]) <= Weight(q[j])}

Orders(S) == IF option.unsortedEventsb THEN Raised(S) ELSE Sorted(S)

\* Mutant: exhaustion does not end the walk over the events.
eventUntilEnd(ev) ==
  \/ ret' = FALSE /\ delivered' = <<>>
  \/ /\ ~(ev.threshold /\ option.warningIsErrorb)
     /\ ret' = TRUE /\ delivered' \in Orders(ev.symbols)

\* The calls that end in _marpaWrapper_event: malloc may fail, exhaustion and,
\* on demand, a warning count as failure; otherwise the callback is called.
event(ev) ==
  \/ ret' = FALSE /\ delivered' = <<>>
  \/ /\ ~ev.exhausted /\ ~(ev.threshold /\ option.warningIsErrorb)
     /\ ret' = TRUE /\ delivered' \in Orders(ev.symbols)

Refuse == ret' = FALSE /\ delivered' = <<>>
Accept == ret' = TRUE /\ delivered' = <<>>
-----------------------------------------------------------------------------
(* startb: drop the old recognizer and its arrays, make and start a new    *)
(* one                                                                     *)

DropArrays == idArray' = NoArray /\ symArray' = NoArray

\* marpa_r_new gives NULL as long as the grammar is not precomputed.
startbFails ==
  /\ Ready /\ phase # "precomputed"
  /\ recp' = FALSE
  /\ IF recp THEN DropArrays ELSE UNCHANGED arrays
  /\ Refuse
  /\ UNCHANGED <<gvars, option, input, active, recSymbols>>

\* What marpa_r_start_input sets whatever the grammar.
StartInput ==
  /\ recp' = TRUE /\ earleme' = 0 /\ furthest' = 0 /\ pending' = {}
  /\ IF recp THEN DropArrays ELSE UNCHANGED arrays
  /\ UNCHANGED <<gvars, option>>

startbTrivial ==
  /\ Ready /\ phase = "precomputed" /\ Trivial
  /\ StartInput
  /\ accepting' = FALSE /\ hasSet' = FALSE /\ expected' = {}
  /\ active' = {} /\ recSymbols' = 0
  /\ events' = Exhausted /\ event(Exhausted)

startb ==
  /\ Ready /\ phase = "precomputed" /\ ~Trivial
  /\ StartInput
  /\ accepting' = TRUE /\ hasSet' = TRUE
  /\ expected' \in SUBSET (Accessible \cap Terminals)
  /\ active' = Subscribed /\ recSymbols' = Len(xsy)
  /\ \E threshold \in BOOLEAN, T \in SUBSET Subscribed :
        /\ events' = [exhausted |-> FALSE, threshold |-> threshold, symbols |-> T]
        /\ event(events')
-----------------------------------------------------------------------------
(* alternativeb, completeb and readb                                       *)

\* Mutant: any length is taken.
TokenRefusedAnyLength(s, value, length) ==
  ~accepting \/ value = 0 \/ ~hasSet \/ s \notin expected

\* Every symbol is valued (newp forces it), so that value 0 is a conflict.
TokenRefused(s, value, length) ==
  ~accepting \/ length <= 0 \/ value = 0 \/ ~hasSet \/ s \notin expected

\* Mutant: the furthest earleme moves before the token is checked.
OfferMovesFirst(s, value, length) ==
  LET token == [sym |-> s, start |-> earleme, end |-> earleme + length]
      far == IF furthest < token.end THEN token.end ELSE furthest
      ok == ~TokenRefused(s, value, length) /\ token \notin pending
  IN  [ok |-> ok, pending |-> IF ok THEN pending \cup {token} ELSE pending,
       furthest |-> far]

\* Mutant: a token of the same symbol that ends at the same earleme is taken for
\* the same token.
OfferSameEnd(s, value, length) ==
  LET token == [sym |-> s, start |-> earleme, end |-> earleme + length]
  IN  IF TokenRefused(s, value, length)
      THEN [ok |-> FALSE, pending |-> pending, furthest |-> furthest]
      ELSE [ok |-> \A t \in pending : t.sym # s \/ t.end # token.end,
            pending |-> pending \cup {token},
            furthest |-> IF furthest < token.end THEN token.end ELSE furthest]

\* marpa_r_alternative moves the furthest earleme, then looks for a duplicate.
Offer(s, value, length) ==
  LET token == [sym |-> s, start |-> earleme, end |-> earleme + length]
  IN  IF TokenRefused(s, value, length)
      THEN [ok |-> FALSE, pending |-> pending, furthest |-> furthest]
      ELSE [ok |-> token \notin pending, pending |-> pending \cup {token},
            furthest |-> IF furthest < token.end THEN token.end ELSE furthest]

alternativeb(s, value, length) ==
  /\ Started /\ s \in given
  /\ LET o == Offer(s, value, length)
     IN  /\ pending' = o.pending /\ furthest' = o.furthest
         /\ IF o.ok THEN Accept ELSE Refuse
  /\ UNCHANGED <<gvars, option, recp, accepting, earleme, hasSet, expected, events,
                 active, recSymbols, arrays>>

\* Mutant: every alternative is popped.
NotScannedNone(p, now) == {}

\* The alternatives left when those that end now are popped.
NotScanned(p, now) == {t \in p : t.end # now}

\* marpa_r_earleme_complete on alternatives p and furthest earleme f.
Complete(p, f) ==
  LET now == earleme + 1
      rest == NotScanned(p, now)
  IN
  \/ /\ ~accepting
     /\ Refuse /\ pending' = p /\ furthest' = f
     /\ UNCHANGED <<accepting, earleme, hasSet, expected, events>>
  \/ /\ accepting /\ earleme < MaxEarleme
     /\ earleme' = now /\ furthest' = f /\ pending' = rest
     /\ \/ \* past the last token: failure, and the events are not looked at
           /\ now > f
           /\ accepting' = FALSE /\ hasSet' = FALSE /\ expected' = {}
           /\ events' = Exhausted /\ Refuse
        \/ \* no token ends here: no Earley set
           /\ now <= f /\ rest = p
           /\ hasSet' = FALSE /\ expected' = {} /\ UNCHANGED accepting
           /\ events' = NoEvents /\ event(NoEvents)
        \/ \* the tokens that end here are scanned into a new Earley set
           /\ now <= f /\ rest # p
           /\ hasSet' = TRUE
           /\ expected' \in SUBSET (Accessible \cap Terminals)
           /\ accepting' = (expected' # {} \/ rest # {})
           /\ \E threshold \in BOOLEAN, T \in SUBSET (active \cap Subscribed) :
                 /\ events' = [exhausted |-> ~accepting', threshold |-> threshold,
                               symbols |-> T]
                 /\ event(events')

completeb ==
  /\ Started
  /\ Complete(pending, furthest)
  /\ UNCHANGED <<gvars, option, recp, active, recSymbols, arrays>>

readb(s, value, length) ==
  /\ Started /\ s \in given
  /\ LET o == Offer(s, value, length)
     IN  \/ o.ok /\ Complete(o.pending, o.furthest)
         \/ /\ ~o.ok
            /\ Refuse /\ pending' = o.pending /\ furthest' = o.furthest
            /\ UNCHANGED <<accepting, earleme, hasSet, expected, events>>
  /\ UNCHANGED <<gvars, option, recp, active, recSymbols, arrays>>
-----------------------------------------------------------------------------
(* terminals_expectedb and event_activateb                                 *)

\* Mutant: the count is one short.
HighestSymbolIdShort == Len(xsy) - 2

HighestSymbolId == Len(xsy) - 1

\* Mutant: the first array stays although the second is missing.
secondMallocFailsKeeps == idArray' = HighestSymbolId + 1 /\ symArray' = NoArray

\* Memory for the first array and none for the second: the first is given back.
secondMallocFails == idArray' = NoArray /\ symArray' = NoArray

\* The arrays are made once per recognizer; either malloc may fail.
terminals_expectedb ==
  /\ Started
  /\ \/ idArray # NoArray /\ Accept /\ UNCHANGED arrays
     \/ /\ idArray = NoArray /\ Accept
        /\ idArray' = HighestSymbolId + 1 /\ symArray' = HighestSymbolId + 1
     \/ idArray = NoArray /\ Refuse /\ UNCHANGED arrays
     \/ idArray = NoArray /\ Refuse /\ secondMallocFails
  /\ UNCHANGED <<gvars, option, recp, input, active, recSymbols>>

terminal_is_expectedb ==
  /\ Started
  /\ Accept
  /\ UNCHANGED <<gvars, option, recp, input, active, recSymbols, arrays>>

\* The vectors have the length the grammar had when input started, and a
\* trivial recognizer has none: what an access outside them does is undefined
\* and not modelled.
event_activateb(s, eventSet, on) ==
  /\ Started /\ s \in given /\ s < recSymbols
  /\ LET E == {[type |-> t, sym |-> s] : t \in eventSet}
     IN  active' = IF on THEN active \cup E ELSE active \ E
  /\ Accept
  /\ UNCHANGED <<gvars, option, recp, input, recSymbols, arrays>>

\* Every call of the read phase answers FALSE before startb.
notStarted ==
  /\ Ready /\ ~recp
  /\ Refuse
  /\ UNCHANGED <<gvars, option, recp, input, active, recSymbols, arrays>>
-----------------------------------------------------------------------------
(* The grammar phase, with a recognizer beside it                          *)

newWrapper ==
  /\ newp /\ option' \in WrapperOptions
  /\ UNCHANGED <<recp, input, active, recSymbols, arrays, delivered, ret>>

destroyWrapper ==
  /\ destroyv
  /\ recp' = FALSE /\ accepting' = FALSE /\ earleme' = 0 /\ furthest' = 0
  /\ hasSet' = FALSE /\ pending' = {} /\ expected' = {} /\ events' = NoEvents
  /\ active' = {} /\ recSymbols' = 0
  /\ DropArrays /\ Refuse /\ UNCHANGED option

defineGrammar ==
  /\ \/ addSymbolpFails \/ precomputeb \/ precomputebFails
     \/ \E opts \in Options : addSymbolp(opts)
     \/ \E r \in Rules : addRulep(r)
  /\ UNCHANGED rvars

RecNext ==
  \/ newWrapper \/ destroyWrapper \/ defineGrammar
  \/ startb \/ startbTrivial \/ startbFails
  \/ \E s \in SymbolIds, v \in TokenValues, l \in TokenLengths :
        alternativeb(s, v, l) \/ readb(s, v, l)
  \/ completeb \/ terminals_expectedb \/ terminal_is_expectedb \/ notStarted
  \/ \E s \in SymbolIds, E \in EventSets, on \in BOOLEAN : event_activateb(s, E, on)

RecSpec == RecInit /\ [][RecNext]_vars
-----------------------------------------------------------------------------
(* Properties                                                              *)

\* terminals_expectedb tests one array for NULL and then uses both: they exist
\* together, only beside a recognizer ("In theory, this can be not NULL only if
\* there is a recognizer alive"), and have room for every expected terminal
\* although they are sized once and symbols can be added later.
ExpectedArraysSound ==
  /\ idArray = symArray
  /\ idArray # NoArray => recp /\ Cardinality(expected) <= idArray
  /\ expected \subseteq symbolTab.entry

\* An accepted token waits for an earleme still to come and not beyond the
\* furthest one, in a recognizer that still accepts input: completeb cannot
\* declare exhaustion over its head.  The types of the read phase go with it.
PendingAhead ==
  /\ RecTypeOK
  /\ \A t \in pending : /\ accepting
                        /\ t.start <= earleme /\ earleme < t.end /\ t.end <= furthest

\* The callback gets each symbol event of the earleme exactly once, names a
\* symbol the wrapper knows, and is called only by calls that answer TRUE.
DeliveredOnce ==
  delivered # <<>> =>
    /\ ret /\ ~events.exhausted
    /\ ToSet(delivered) = events.symbols /\ Len(delivered) = Cardinality(events.symbols)
    /\ \A e \in events.symbols : e.sym \in symbolTab.entry

\* A token leaves the recognizer only by being scanned at the earleme it ends
\* at, or with the recognizer: whatever fails, no accepted token is forgotten.
NoTokenLost ==
  [][ recp' /\ ~(earleme' = 0 /\ pending' = {}) =>
        \A t \in pending : t \in pending' \/ (earleme' = t.end /\ hasSet') ]_vars

\* A call that answers FALSE and leaves input open has either not moved the
\* recognizer at all, or completed the earleme: a caller that repeats it does
\* not find half of the call done.
FailureIsAtomic ==
  [][ recp /\ recp' /\ ~ret' /\ accepting /\ accepting' =>
        \/ earleme' = earleme /\ UNCHANGED <<pending, furthest, expected, hasSet>>
        \/ earleme' = earleme + 1 /\ \A t \in pending' : t.end > earleme'
        \/ earleme' = 0 ]_vars

\* The default order of the callback's events, "Completed, then nulled, then
\* predicted." in marpaWrapper.h.
EventsSorted ==
  ~option.unsortedEventsb =>
    \A i, j \in DOMAIN delivered :
       i < j => Code(delivered[i].type) <= Code(delivered[j].type)
=============================================================================
