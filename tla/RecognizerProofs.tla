-------------------------- MODULE RecognizerProofs --------------------------
(***************************************************************************)
(* For every grammar, number of symbols, token length and failure: the     *)
(* read phase keeps accepted tokens until they are scanned, passes every   *)
(* event on exactly once, and has room for the terminals it reports.       *)
(*                                                                         *)
(* The invariant joins the grammar phase's to the read phase's.  A         *)
(* recognizer exists only over a precomputed grammar, and expects tokens   *)
(* only where it takes them (Beside); the rules and the start symbol       *)
(* mention only symbols the caller was given (CoreGiven).  Since neither   *)
(* changes once precomputed, the arrays of expected terminals stay long    *)
(* enough although symbols are still added (Room).                         *)
(***************************************************************************)
EXTENDS Recognizer, GrammarProofs, FiniteSetTheorems

\* The symbols a parse can be made of.
Core == (UNION {RuleSymbols(xrl[k]) : k \in DOMAIN xrl}) \cup ({startXsy} \ {NoSymbol})

CoreGiven == Core \subseteq given /\ (phase = "precomputed" => startXsy # NoSymbol)

\* The types of the read phase.
ReadTypes ==
  /\ option \in WrapperOptions
  /\ recp \in BOOLEAN /\ accepting \in BOOLEAN /\ hasSet \in BOOLEAN /\ ret \in BOOLEAN
  /\ earleme \in Nat /\ furthest \in Nat
  /\ pending \subseteq Tokens /\ expected \subseteq SymbolIds
  /\ active \subseteq SymbolEvents /\ recSymbols \in 0 .. MaxSymbols
  /\ events \in [exhausted : BOOLEAN, threshold : BOOLEAN, symbols : SUBSET SymbolEvents]
  /\ idArray \in Nat \cup {NoArray} /\ symArray \in Nat \cup {NoArray}
  /\ delivered \in Seq(SymbolEvents)

Beside == /\ recp => phase = "precomputed"
          /\ ~recp => expected = {} /\ pending = {} /\ ~accepting
          /\ expected # {} => accepting /\ hasSet

Room == /\ expected \subseteq given
        /\ idArray = symArray
        /\ idArray # NoArray => recp /\ \A s \in Core \cup expected : s < idArray

\* An alternative that is still to be scanned, for a furthest earleme f.
Ahead(t, f) == t.start <= earleme /\ earleme < t.end /\ t.end <= f
TokensAhead == \A t \in pending : accepting /\ Ahead(t, furthest)

RecInv == /\ GrammarInv /\ CoreGiven /\ ReadTypes /\ Beside /\ Room
          /\ TokensAhead /\ DeliveredOnce
-----------------------------------------------------------------------------
(* Sequences of the elements of a finite set                               *)

\* There are finitely many symbol events.
LEMMA EventsFinite == ASSUME NEW S \in SUBSET SymbolEvents PROVE IsFiniteSet(S)
  <1> DEFINE ids == [p \in EventTypes \X SymbolIds |-> [type |-> p[1], sym |-> p[2]]]
  <1>1. IsFiniteSet(EventTypes)
    <2>1. IsFiniteSet({"completed"})
      BY FS_Singleton
    <2>2. IsFiniteSet({"completed"} \cup {"nulled"})
      BY <2>1, FS_AddElement
    <2>3. IsFiniteSet({"completed"} \cup {"nulled"} \cup {"predicted"})
      BY <2>2, FS_AddElement
    <2>4. EventTypes = {"completed"} \cup {"nulled"} \cup {"predicted"}
      BY DEF EventTypes
    <2> QED
      BY <2>3, <2>4
  <1>2. IsFiniteSet(SymbolIds)
    BY FS_Interval, GrammarConstants DEF SymbolIds
  <1>3. IsFiniteSet(EventTypes \X SymbolIds)
    BY <1>1, <1>2, FS_Product
  <1>4. ids \in Surjection(EventTypes \X SymbolIds, SymbolEvents)
    <2>1. ids \in [EventTypes \X SymbolIds -> SymbolEvents]
      BY DEF SymbolEvents
    <2>2. ASSUME NEW e \in SymbolEvents PROVE \E p \in EventTypes \X SymbolIds : ids[p] = e
      <3>1. <<e.type, e.sym>> \in EventTypes \X SymbolIds
        BY DEF SymbolEvents
      <3>2. ids[<<e.type, e.sym>>] = [type |-> e.type, sym |-> e.sym]
        BY <3>1
      <3>3. e = [type |-> e.type, sym |-> e.sym]
        BY DEF SymbolEvents
      <3> QED
        BY <3>1, <3>2, <3>3
    <2> HIDE DEF ids
    <2> QED
      BY <2>1, <2>2 DEF Surjection
  <1>5. IsFiniteSet(SymbolEvents)
    BY <1>3, <1>4, FS_Surjection
  <1> QED
    BY <1>5, FS_Subset

\* Listing a finite set without repetition lists every element of it.
LEMMA Listing ==
  ASSUME NEW S, IsFiniteSet(S), NEW q \in SetToSeqs(S)
  PROVE  q \in Seq(S) /\ Len(q) = Cardinality(S) /\ ToSet(q) = S
  <1> DEFINE n == Cardinality(S)
  <1>1. n \in Nat
    BY FS_CardinalityType
  <1>2. q \in [1 .. n -> S] /\ \A j, k \in 1 .. n : j # k => q[j] # q[k]
    BY DEF SetToSeqs
  <1>3. q \in Seq(S) /\ Len(q) = n /\ DOMAIN q = 1 .. n
    BY <1>1, <1>2
  <1>4. q \in Injection(1 .. n, S)
    BY <1>2 DEF Injection, IsInjective
  <1>5. Cardinality(1 .. n) = n
    BY <1>1, FS_Interval
  <1>6. q \in Surjection(1 .. n, S)
    BY <1>4, <1>5, FS_Injection
  <1>7. \A e \in S : \E j \in 1 .. n : q[j] = e
    BY <1>6 DEF Surjection
  <1> QED
    BY <1>2, <1>3, <1>7 DEF ToSet

\* What _marpaWrapper_event leaves for the events of the call.
LEMMA EventsDelivered ==
  ASSUME NEW ev, ev.symbols \subseteq SymbolEvents, event(ev)
  PROVE  /\ ret' \in BOOLEAN /\ delivered' \in Seq(SymbolEvents)
         /\ delivered' # <<>> => /\ ret' /\ ~ev.exhausted
                                 /\ ToSet(delivered') = ev.symbols
                                 /\ Len(delivered') = Cardinality(ev.symbols)
  <1>1. CASE ret' = FALSE /\ delivered' = <<>>
    <2>1. delivered' \in Seq(SymbolEvents)
      BY <1>1
    <2> QED
      BY <1>1, <2>1
  <1>2. CASE ~ev.exhausted /\ ret' = TRUE /\ delivered' \in Orders(ev.symbols)
    <2>1. delivered' \in SetToSeqs(ev.symbols)
      BY <1>2 DEF Orders, Raised, Sorted
    <2>2. /\ delivered' \in Seq(ev.symbols) /\ Len(delivered') = Cardinality(ev.symbols)
          /\ ToSet(delivered') = ev.symbols
      BY <2>1, EventsFinite, Listing
    <2> QED
      BY <1>2, <2>2
  <1> QED
    BY <1>1, <1>2 DEF event
-----------------------------------------------------------------------------
(* The grammar beside the recognizer                                       *)

\* What grows and what stays when the caller goes on defining the grammar.
Grows == /\ given \subseteq given' /\ symbolTab.entry \subseteq symbolTab'.entry
         /\ phase = "precomputed" => phase' = "precomputed" /\ Core' = Core

\* Symbols and rules are added to what is there, and an addition the grammar
\* accepts mentions only symbols the caller was given.
LEMMA GrammarGrows ==
  ASSUME GrammarInv, CoreGiven,
         \/ \E opts \in SUBSET (Flags \cup {"start"}) : addSymbolp(opts)
         \/ addSymbolpFails
         \/ \E r \in Rules : addRulep(r)
         \/ precomputeb \/ precomputebFails
  PROVE  GrammarInv' /\ CoreGiven' /\ Grows
  <1>0. /\ marpaWrapperp \in BOOLEAN /\ symbolTab \in Tables /\ Sound(symbolTab)
        /\ DamageOnlyAfterBacklog(symbolTab, NewId) /\ NewId \in Nat
    BY DEF GrammarInv, TypeOK, TablesSound, DamageNeedsBacklog, NewId
  <1>1. ASSUME NEW opts \in SUBSET (Flags \cup {"start"}), addSymbolp(opts)
        PROVE  GrammarInv' /\ CoreGiven' /\ Grows
    <2>1. GrammarInv'
      BY <1>1, AddSymbol
    <2>2. symbolTab.entry \subseteq symbolTab'.entry
      <3>1. PICK t \in createp(symbolTab, NewId + 1) : symbolTab' = store(t, NewId)
        BY <1>1 DEF addSymbolp
      <3>2. t \in Tables /\ t.entry = symbolTab.entry
        BY <1>0, <1>1, RoomMade DEF addSymbolp, Ready, Defined
      <3> QED
        BY <3>1, <3>2 DEF store, Tables
    <2>3. given \subseteq given' /\ UNCHANGED <<xrl, phase>>
      BY <1>1 DEF addSymbolp
    <2>4. phase = "precomputed" => UNCHANGED startXsy
      BY <1>1 DEF addSymbolp, Accepts
    <2>5. startXsy' = startXsy \/ (startXsy' = NewId /\ NewId \in given')
      BY <1>1 DEF addSymbolp
    <2>6. CoreGiven'
      BY <2>3, <2>4, <2>5 DEF CoreGiven, Core
    <2> QED
      BY <2>1, <2>2, <2>3, <2>4, <2>6 DEF Grows, Core
  <1>2. CASE addSymbolpFails
    <2>1. symbolTab'.entry = symbolTab.entry
      BY <1>0, <1>2, RoomMade, RoomRefused DEF addSymbolpFails, Ready, Defined
    <2>2. UNCHANGED <<xrl, startXsy, phase, given>>
      BY <1>2 DEF addSymbolpFails
    <2> QED
      BY <1>2, <2>1, <2>2, AddSymbolFails DEF CoreGiven, Core, Grows
  <1>3. ASSUME NEW r \in Rules, addRulep(r) PROVE GrammarInv' /\ CoreGiven' /\ Grows
    <2>1. /\ RuleSymbols(r) \subseteq given /\ phase # "precomputed" /\ xrl' = Append(xrl, r)
          /\ UNCHANGED <<startXsy, phase, symbolTab, given>> /\ xrl \in Seq(Rules)
      BY <1>3 DEF addRulep, Wanted, RuleAccepted, GrammarInv, TypeOK
    <2>2. \A k \in DOMAIN xrl' : RuleSymbols(xrl'[k]) \subseteq given
      <3> SUFFICES ASSUME NEW k \in DOMAIN xrl' PROVE RuleSymbols(xrl'[k]) \subseteq given
        OBVIOUS
      <3>1. CASE k = Len(xrl) + 1
        <4>1. xrl'[k] = r
          BY <2>1, <3>1
        <4> QED
          BY <2>1, <4>1
      <3>2. CASE k # Len(xrl) + 1
        <4>1. k \in DOMAIN xrl /\ xrl'[k] = xrl[k]
          BY <2>1, <3>2
        <4>2. RuleSymbols(xrl[k]) \subseteq Core
          BY <4>1 DEF Core
        <4> QED
          BY <4>1, <4>2 DEF CoreGiven
      <3> QED
        BY <3>1, <3>2
    <2>3. Core' \subseteq given
      <3>1. UNION {RuleSymbols(xrl'[k]) : k \in DOMAIN xrl'} \subseteq given
        BY <2>2
      <3>2. {startXsy} \ {NoSymbol} \subseteq given
        BY DEF CoreGiven, Core
      <3> QED
        BY <2>1, <3>1, <3>2 DEF Core
    <2> QED
      BY <1>3, <2>1, <2>3, AddRule DEF CoreGiven, Grows
  <1>4. CASE precomputeb \/ precomputebFails
    <2>1. /\ phase # "precomputed" /\ startXsy # NoSymbol
          /\ phase' \in {"open", "precomputed", "spoiled"}
          /\ UNCHANGED <<marpaWrapperp, xsy, xrl, startXsy, symbolTab, ruleTab, given, shortage>>
      BY <1>4 DEF precomputeb, precomputebFails, Precomputable
    <2> QED
      BY <1>0, <2>1, QuietGrammar DEF CoreGiven, Core, Grows
  <1> QED
    BY <1>1, <1>2, <1>3, <1>4

\* A call that leaves the grammar alone.
LEMMA GrammarSame ==
  ASSUME GrammarInv, CoreGiven, UNCHANGED gvars
  PROVE  GrammarInv' /\ CoreGiven' /\ Core' = Core
  <1>1. GrammarInv'
    BY QuietGrammar DEF gvars, GrammarInv, TypeOK
  <1> QED
    BY <1>1 DEF gvars, CoreGiven, Core

\* Whatever a parse can use follows from the start symbol and the rules.
LEMMA AccessibleIsCore ==
  ASSUME GrammarInv, CoreGiven, phase = "precomputed"
  PROVE  Accessible \subseteq Core
  <1>1. Core \in SUBSET SymbolIds
    BY DEF CoreGiven, GrammarInv, TypeOK
  <1>2. startXsy \in Core
    BY DEF CoreGiven, Core
  <1>3. \A k \in DOMAIN xrl : RuleSymbols(xrl[k]) \subseteq Core
    BY DEF Core
  <1> QED
    BY <1>1, <1>2, <1>3 DEF Accessible

\* Symbols the caller was given have ids libmarpa gave out.
LEMMA GivenBelow == ASSUME GrammarInv PROVE \A s \in given : s \in Nat /\ s < Len(xsy)
  BY DEF GrammarInv, MentionedSymbolsKnown, IdsFirst, TypeOK, Tables

\* The events of subscribed symbols name symbols with an entry.
LEMMA SubscribedKnown ==
  ASSUME GrammarInv
  PROVE  Subscribed \subseteq SymbolEvents /\ \A e \in Subscribed : e.sym \in symbolTab.entry
  <1> SUFFICES ASSUME NEW e \in Subscribed PROVE e \in SymbolEvents /\ e.sym \in symbolTab.entry
    OBVIOUS
  <1>1. e \in SymbolEvents /\ e.sym \in SymbolIds /\ e.sym < Len(xsy) /\ xsy[e.sym + 1] # {}
    BY DEF Subscribed, SymbolEvents
  <1>2. e.sym \in Mentioned
    BY <1>1 DEF Mentioned
  <1> QED
    BY <1>1, <1>2 DEF GrammarInv, MentionedSymbolsKnown
-----------------------------------------------------------------------------
(* The actions                                                             *)

\* Defining the grammar goes on beside a recognizer.
LEMMA DefineKeeps ==
  ASSUME RecInv, GrammarInv', CoreGiven', Grows, UNCHANGED rvars
  PROVE  RecInv'
  <1>1. ReadTypes' /\ TokensAhead'
    BY DEF RecInv, ReadTypes, TokensAhead, Ahead, rvars, input, arrays
  <1>2. Beside'
    BY DEF RecInv, Beside, Grows, rvars, input
  <1>3. Room'
    BY DEF RecInv, Beside, Room, Grows, rvars, input, arrays
  <1>4. DeliveredOnce'
    BY DEF RecInv, DeliveredOnce, Grows, rvars, input
  <1> QED
    BY <1>1, <1>2, <1>3, <1>4 DEF RecInv

\* A wrapper is made, or destroyed with its recognizer.
LEMMA LifecycleKeeps ==
  ASSUME RecInv, newWrapper \/ destroyWrapper
  PROVE  RecInv'
  <1>1. CASE newWrapper
    <2>1. /\ UNCHANGED <<xsy, xrl, startXsy, phase, symbolTab, ruleTab, given, shortage>>
          /\ marpaWrapperp' \in BOOLEAN /\ phase' \in {"open", "precomputed", "spoiled"}
          /\ option' \in WrapperOptions
          /\ UNCHANGED <<recp, input, active, recSymbols, arrays, delivered, ret>>
      BY <1>1 DEF newWrapper, newp, RecInv, GrammarInv, TypeOK
    <2>2. GrammarInv' /\ CoreGiven' /\ Core' = Core
      BY <2>1, QuietGrammar DEF RecInv, CoreGiven, Core
    <2>3. ReadTypes' /\ TokensAhead' /\ Beside'
      BY <2>1 DEF RecInv, ReadTypes, TokensAhead, Ahead, Beside, input, arrays
    <2>4. Room' /\ DeliveredOnce'
      BY <2>1, <2>2 DEF RecInv, Room, DeliveredOnce, input, arrays
    <2> QED
      BY <2>2, <2>3, <2>4 DEF RecInv
  <1>2. CASE destroyWrapper
    <2>1. GrammarInv'
      BY <1>2, DestroyGrammar DEF destroyWrapper, RecInv
    <2>2. xrl' = <<>> /\ startXsy' = NoSymbol /\ phase' = "open" /\ given' = {}
      BY <1>2 DEF destroyWrapper, destroyv
    <2>3. CoreGiven'
      BY <2>2 DEF CoreGiven, Core
    <2>4. ReadTypes'
      <3>1. delivered' \in Seq(SymbolEvents)
        BY <1>2 DEF destroyWrapper, Refuse
      <3>2. option' \in WrapperOptions /\ recSymbols' \in 0 .. MaxSymbols
        BY <1>2, GrammarConstants DEF destroyWrapper, RecInv, ReadTypes
      <3>3. events' \in [exhausted : BOOLEAN, threshold : BOOLEAN, symbols : SUBSET SymbolEvents]
        BY <1>2 DEF destroyWrapper, NoEvents
      <3> QED
        BY <1>2, <3>1, <3>2, <3>3 DEF destroyWrapper, ReadTypes, DropArrays, Refuse
    <2>5. Beside' /\ Room' /\ TokensAhead' /\ DeliveredOnce'
      BY <1>2 DEF destroyWrapper, Beside, Room, TokensAhead, DeliveredOnce, DropArrays, Refuse
    <2> QED
      BY <2>1, <2>3, <2>4, <2>5 DEF RecInv
  <1> QED
    BY <1>1, <1>2

\* No symbol events, whether exhausted or not.
LEMMA QuietEvents ==
  /\ NoEvents \in [exhausted : BOOLEAN, threshold : BOOLEAN, symbols : SUBSET SymbolEvents]
  /\ Exhausted \in [exhausted : BOOLEAN, threshold : BOOLEAN, symbols : SUBSET SymbolEvents]
  /\ NoEvents.symbols = {} /\ Exhausted.symbols = {} /\ Exhausted.exhausted
  BY DEF NoEvents, Exhausted

\* A call ends in _marpaWrapper_event with subscribed events.
LEMMA EventsKept ==
  ASSUME RecInv, UNCHANGED gvars, NEW T \in SUBSET Subscribed,
         NEW x \in BOOLEAN, NEW threshold \in BOOLEAN,
         events' = [exhausted |-> x, threshold |-> threshold, symbols |-> T], event(events')
  PROVE  /\ ret' \in BOOLEAN /\ delivered' \in Seq(SymbolEvents) /\ DeliveredOnce'
         /\ events' \in [exhausted : BOOLEAN, threshold : BOOLEAN, symbols : SUBSET SymbolEvents]
  <1>1. T \subseteq SymbolEvents /\ \A e \in T : e.sym \in symbolTab'.entry
    BY SubscribedKnown DEF RecInv, gvars
  <1>2. events'.symbols = T
    OBVIOUS
  <1>3. /\ ret' \in BOOLEAN /\ delivered' \in Seq(SymbolEvents)
        /\ delivered' # <<>> => /\ ret' /\ ~events'.exhausted
                                /\ ToSet(delivered') = events'.symbols
                                /\ Len(delivered') = Cardinality(events'.symbols)
    BY <1>1, <1>2, EventsDelivered
  <1> QED
    BY <1>1, <1>2, <1>3 DEF DeliveredOnce

\* startb: the old recognizer's arrays go with it.
LEMMA StartKeeps ==
  ASSUME RecInv, startb \/ startbTrivial \/ startbFails
  PROVE  RecInv'
  <1>0. UNCHANGED <<gvars, option>>
    BY DEF startb, startbTrivial, startbFails, StartInput
  <1>1. GrammarInv' /\ CoreGiven' /\ Core' = Core
    BY <1>0, GrammarSame DEF RecInv
  <1>2. idArray' = NoArray /\ symArray' = NoArray
    BY DEF startb, startbTrivial, startbFails, StartInput, DropArrays, arrays, RecInv, Room
  <1>3. CASE startbFails
    <2>1. ~recp /\ ~recp' /\ UNCHANGED <<input, active, recSymbols>> /\ ret' = FALSE /\ delivered' = <<>>
          /\ recp' = FALSE
      BY <1>3 DEF startbFails, RecInv, Beside, Refuse
    <2>2. delivered' \in Seq(SymbolEvents)
      BY <2>1
    <2>3. ReadTypes' /\ Beside' /\ TokensAhead' /\ DeliveredOnce'
      BY <1>0, <1>2, <2>1, <2>2
      DEF RecInv, ReadTypes, Beside, TokensAhead, Ahead, DeliveredOnce, input
    <2>4. Room'
      BY <1>0, <1>2, <2>1 DEF RecInv, Room, input, gvars
    <2> QED
      BY <1>1, <2>3, <2>4 DEF RecInv
  <1>4. CASE startb \/ startbTrivial
    <2>1. /\ recp' = TRUE /\ earleme' = 0 /\ furthest' = 0 /\ pending' = {}
          /\ phase = "precomputed" /\ phase' = "precomputed" /\ UNCHANGED given
      BY <1>4 DEF startb, startbTrivial, StartInput, gvars
    <2>2. /\ accepting' \in BOOLEAN /\ hasSet' \in BOOLEAN /\ expected' \subseteq Accessible
          /\ expected' # {} => accepting' /\ hasSet'
      BY <1>4 DEF startb, startbTrivial
    <2>3. expected' \subseteq Core /\ expected' \subseteq given /\ given \subseteq SymbolIds
      BY <2>1, <2>2, AccessibleIsCore DEF RecInv, CoreGiven, GrammarInv, TypeOK
    <2>4. active' \subseteq SymbolEvents /\ recSymbols' \in 0 .. MaxSymbols
      BY <1>4, SubscribedKnown, GrammarConstants
      DEF startb, startbTrivial, RecInv, GrammarInv, TypeOK
    <2>5. \E x \in BOOLEAN, threshold \in BOOLEAN, T \in SUBSET Subscribed :
            events' = [exhausted |-> x, threshold |-> threshold, symbols |-> T] /\ event(events')
      <3>1. CASE startb
        BY <3>1 DEF startb
      <3>2. CASE startbTrivial
        BY <3>2 DEF startbTrivial, Exhausted, NoEvents
      <3> QED
        BY <1>4, <3>1, <3>2
    <2>6. /\ ret' \in BOOLEAN /\ delivered' \in Seq(SymbolEvents) /\ DeliveredOnce'
          /\ events' \in [exhausted : BOOLEAN, threshold : BOOLEAN, symbols : SUBSET SymbolEvents]
      BY <1>0, <2>5, EventsKept
    <2>7. ReadTypes'
      BY <1>0, <1>2, <2>1, <2>2, <2>3, <2>4, <2>6 DEF ReadTypes, RecInv
    <2>8. Beside' /\ Room' /\ TokensAhead'
      BY <1>2, <2>1, <2>2, <2>3 DEF Beside, Room, TokensAhead
    <2> QED
      BY <1>1, <2>6, <2>7, <2>8 DEF RecInv
  <1> QED
    BY <1>3, <1>4

\* What marpa_r_alternative leaves: a token is taken only ahead, and a token
\* that is refused, as a duplicate too, leaves nothing behind.
LEMMA OfferLeaves ==
  ASSUME RecInv, NEW s \in SymbolIds, NEW v, NEW l \in Int
  PROVE  LET o == Offer(s, v, l)
         IN  /\ o.pending \in SUBSET Tokens /\ o.furthest \in Nat
             /\ \A t \in o.pending : accepting /\ Ahead(t, o.furthest)
             /\ pending \subseteq o.pending
             /\ ~o.ok => o.pending = pending /\ o.furthest = furthest
  <1> DEFINE o == Offer(s, v, l)
             token == [sym |-> s, start |-> earleme, end |-> earleme + l]
  <1> SUFFICES /\ o.pending \in SUBSET Tokens /\ o.furthest \in Nat
               /\ \A t \in o.pending : accepting /\ Ahead(t, o.furthest)
               /\ pending \subseteq o.pending
               /\ ~o.ok => o.pending = pending /\ o.furthest = furthest
    OBVIOUS
  <1>0. /\ pending \in SUBSET Tokens /\ furthest \in Nat /\ earleme \in Nat
        /\ \A t \in pending : accepting /\ Ahead(t, furthest)
    BY DEF RecInv, ReadTypes, TokensAhead
  <1>1. CASE TokenRefused(s, v, l)
    <2>1. o.pending = pending /\ o.furthest = furthest
      BY <1>1 DEF Offer
    <2> HIDE DEF o
    <2> QED
      BY <1>0, <2>1
  <1>2. CASE ~TokenRefused(s, v, l)
    <2>1. accepting /\ l > 0
      BY <1>2 DEF TokenRefused
    <2>2. /\ token \in Tokens /\ token.start = earleme /\ token.end = earleme + l
          /\ earleme + l \in Nat
      BY <1>0, <2>1 DEF Tokens
    <2>3. /\ o.pending = pending \cup {token}
          /\ o.furthest = IF furthest < earleme + l THEN earleme + l ELSE furthest
          /\ o.ok = (token \notin pending)
      BY <1>2 DEF Offer
    <2> HIDE DEF o, token
    <2>4. o.furthest \in Nat /\ o.furthest >= furthest /\ o.furthest >= earleme + l
      BY <1>0, <2>2, <2>3
    <2>5. \A t \in o.pending : Ahead(t, o.furthest)
      <3> SUFFICES ASSUME NEW t \in o.pending PROVE Ahead(t, o.furthest)
        OBVIOUS
      <3>1. CASE t = token
        BY <1>0, <2>1, <2>2, <2>4, <3>1 DEF Ahead
      <3>2. CASE t \in pending
        <4>1. t.start \in Nat /\ t.end \in Nat
          BY <1>0, <3>2 DEF Tokens
        <4> QED
          BY <1>0, <2>4, <3>2, <4>1 DEF Ahead
      <3> QED
        BY <2>3, <3>1, <3>2
    <2>6. ASSUME ~o.ok PROVE o.pending = pending /\ o.furthest = furthest
      <3>1. token \in pending
        BY <2>3, <2>6
      <3>2. earleme + l <= furthest
        BY <1>0, <2>2, <3>1 DEF Ahead
      <3> QED
        BY <1>0, <2>2, <2>3, <3>1, <3>2
    <2> QED
      BY <1>0, <2>1, <2>2, <2>3, <2>4, <2>5, <2>6
  <1> QED
    BY <1>1, <1>2

\* Alternatives that do not end at the next earleme lie beyond it.
LEMMA NotScannedAhead ==
  ASSUME earleme \in Nat, NEW p \in SUBSET Tokens, NEW f \in Nat, \A t \in p : Ahead(t, f)
  PROVE  /\ \A t \in NotScanned(p, earleme + 1) :
               t \in p /\ t.start <= earleme + 1 /\ earleme + 1 < t.end /\ t.end <= f
         /\ \A t \in p : t \notin NotScanned(p, earleme + 1) => t.end = earleme + 1
         /\ earleme + 1 > f => p = {}
  <1>1. \A t \in p : t.start \in Nat /\ t.end \in Nat
    BY DEF Tokens
  <1> QED
    BY <1>1 DEF NotScanned, Ahead

\* The two ways marpa_r_earleme_complete goes: refused, or on to the next
\* earleme, where the tokens that end are scanned.
LEMMA CompleteMoves ==
  ASSUME RecInv, NEW p \in SUBSET Tokens, NEW f \in Nat,
         \A t \in p : accepting /\ Ahead(t, f), Complete(p, f)
  PROVE  \/ /\ ~accepting /\ p = {} /\ pending' = p /\ furthest' = f
            /\ ret' = FALSE /\ delivered' = <<>>
            /\ UNCHANGED <<accepting, earleme, hasSet, expected, events>>
         \/ /\ accepting /\ earleme' = earleme + 1 /\ furthest' = f
            /\ pending' = NotScanned(p, earleme + 1)
            /\ accepting' \in BOOLEAN /\ hasSet' \in BOOLEAN
            /\ expected' \in SUBSET (Accessible \cap Terminals)
            /\ pending' # {} => accepting'
            /\ hasSet' \/ p = pending'
            /\ expected' # {} => accepting' /\ hasSet'
            /\ \E x \in BOOLEAN, threshold \in BOOLEAN, T \in SUBSET Subscribed :
                  /\ events' = [exhausted |-> x, threshold |-> threshold, symbols |-> T]
                  /\ event(events')
  <1>0. earleme \in Nat /\ accepting \in BOOLEAN
    BY DEF RecInv, ReadTypes
  <1>1. CASE ~accepting
    <2>1. p = {}
      BY <1>1
    <2> QED
      BY <1>1, <2>1 DEF Complete, Refuse
  <1>2. CASE accepting
    <2> DEFINE rest == NotScanned(p, earleme + 1)
    <2>0. /\ accepting /\ earleme' = earleme + 1 /\ furthest' = f /\ pending' = rest
      BY <1>2 DEF Complete
    <2>1. CASE /\ earleme + 1 > f /\ accepting' = FALSE /\ hasSet' = FALSE /\ expected' = {}
               /\ events' = Exhausted /\ Refuse
      <3>1. p = {} /\ rest = {}
        BY <1>0, <2>1, NotScannedAhead DEF NotScanned
      <3>2. event(events')
        BY <2>1 DEF event, Refuse
      <3>3. events' = [exhausted |-> TRUE, threshold |-> FALSE, symbols |-> {}]
        BY <2>1 DEF Exhausted, NoEvents
      <3> QED
        BY <2>0, <2>1, <3>1, <3>2, <3>3
    <2>2. CASE /\ rest = p /\ hasSet' = FALSE /\ expected' = {} /\ UNCHANGED accepting
               /\ events' = NoEvents /\ event(NoEvents)
      <3>1. events' = [exhausted |-> FALSE, threshold |-> FALSE, symbols |-> {}]
        BY <2>2 DEF NoEvents
      <3>2. event(events')
        BY <2>2
      <3>3. \E x \in BOOLEAN, threshold \in BOOLEAN, T \in SUBSET Subscribed :
              events' = [exhausted |-> x, threshold |-> threshold, symbols |-> T] /\ event(events')
        BY <3>1, <3>2
      <3>4. /\ accepting' \in BOOLEAN /\ hasSet' \in BOOLEAN /\ accepting' /\ p = pending'
            /\ expected' = {} /\ expected' \in SUBSET (Accessible \cap Terminals)
        BY <1>0, <1>2, <2>0, <2>2
      <3> QED
        BY <2>0, <3>3, <3>4
    <2>3. CASE /\ hasSet' = TRUE /\ expected' \in SUBSET (Accessible \cap Terminals)
               /\ accepting' = (expected' # {} \/ rest # {})
               /\ \E threshold \in BOOLEAN, T \in SUBSET (active \cap Subscribed) :
                     /\ events' = [exhausted |-> ~accepting', threshold |-> threshold,
                                   symbols |-> T]
                     /\ event(events')
      <3>1. (~accepting') \in BOOLEAN /\ accepting' \in BOOLEAN
        BY <2>3
      <3> QED
        BY <2>0, <2>3, <3>1
    <2> QED
      BY <1>2, <2>1, <2>2, <2>3 DEF Complete
  <1> QED
    BY <1>1, <1>2

\* Completing an earleme keeps the invariant.
LEMMA CompleteKeeps ==
  ASSUME RecInv, NEW p \in SUBSET Tokens, NEW f \in Nat,
         \A t \in p : accepting /\ Ahead(t, f), Complete(p, f), recp,
         UNCHANGED <<gvars, option, recp, active, recSymbols, arrays>>
  PROVE  RecInv'
  <1>0. /\ earleme \in Nat /\ GrammarInv' /\ CoreGiven' /\ Core' = Core
        /\ phase = "precomputed" /\ UNCHANGED <<given, phase, idArray, symArray>>
    BY GrammarSame DEF RecInv, ReadTypes, Beside, gvars, arrays
  <1>1. CASE /\ ~accepting /\ p = {} /\ pending' = p /\ furthest' = f
             /\ ret' = FALSE /\ delivered' = <<>>
             /\ UNCHANGED <<accepting, earleme, hasSet, expected, events>>
    <2>1. delivered' \in Seq(SymbolEvents)
      BY <1>1
    <2>2. ReadTypes'
      BY <1>0, <1>1, <2>1 DEF RecInv, ReadTypes
    <2>3. Beside' /\ Room' /\ TokensAhead' /\ DeliveredOnce'
      BY <1>0, <1>1 DEF RecInv, Beside, Room, TokensAhead, DeliveredOnce
    <2> QED
      BY <1>0, <2>2, <2>3 DEF RecInv
  <1>2. CASE /\ accepting /\ earleme' = earleme + 1 /\ furthest' = f
             /\ pending' = NotScanned(p, earleme + 1)
             /\ accepting' \in BOOLEAN /\ hasSet' \in BOOLEAN
             /\ expected' \in SUBSET (Accessible \cap Terminals)
             /\ pending' # {} => accepting'
             /\ expected' # {} => accepting' /\ hasSet'
             /\ \E x \in BOOLEAN, threshold \in BOOLEAN, T \in SUBSET Subscribed :
                   /\ events' = [exhausted |-> x, threshold |-> threshold, symbols |-> T]
                   /\ event(events')
    <2>1. /\ ret' \in BOOLEAN /\ delivered' \in Seq(SymbolEvents) /\ DeliveredOnce'
          /\ events' \in [exhausted : BOOLEAN, threshold : BOOLEAN, symbols : SUBSET SymbolEvents]
      BY <1>2, EventsKept
    <2>2. /\ expected' \subseteq Core /\ expected' \subseteq given /\ given \subseteq SymbolIds
      BY <1>0, <1>2, AccessibleIsCore DEF RecInv, CoreGiven, GrammarInv, TypeOK
    <2>3. \A t \in pending' : t \in p /\ t.start <= earleme' /\ earleme' < t.end /\ t.end <= furthest'
      BY <1>0, <1>2, NotScannedAhead
    <2>4. ReadTypes'
      BY <1>0, <1>2, <2>1, <2>2, <2>3 DEF RecInv, ReadTypes
    <2>5. TokensAhead'
      BY <1>2, <2>3 DEF TokensAhead, Ahead
    <2>6. Beside' /\ Room'
      BY <1>0, <1>2, <2>2 DEF RecInv, Beside, Room
    <2> QED
      BY <1>0, <2>1, <2>4, <2>5, <2>6 DEF RecInv
  <1> QED
    BY <1>1, <1>2, CompleteMoves

\* A token is offered, and what comes of it is all that changes.
LEMMA OfferKeeps ==
  ASSUME RecInv, NEW s \in SymbolIds, NEW v, NEW l \in Int, recp,
         pending' = Offer(s, v, l).pending, furthest' = Offer(s, v, l).furthest,
         ret' \in BOOLEAN, delivered' = <<>>,
         UNCHANGED <<gvars, option, recp, accepting, earleme, hasSet, expected, events,
                     active, recSymbols, arrays>>
  PROVE  RecInv'
  <1>0. GrammarInv' /\ CoreGiven' /\ Core' = Core
    BY GrammarSame DEF RecInv
  <1>1. /\ pending' \in SUBSET Tokens /\ furthest' \in Nat
        /\ \A t \in pending' : accepting /\ Ahead(t, furthest')
    BY OfferLeaves
  <1>2. delivered' \in Seq(SymbolEvents)
    OBVIOUS
  <1>3. ReadTypes'
    BY <1>1, <1>2 DEF RecInv, ReadTypes, arrays
  <1>4. TokensAhead' /\ DeliveredOnce'
    BY <1>1 DEF TokensAhead, Ahead, DeliveredOnce
  <1>5. Beside' /\ Room'
    BY <1>0 DEF RecInv, Beside, Room, gvars, arrays
  <1> QED
    BY <1>0, <1>3, <1>4, <1>5 DEF RecInv

\* alternativeb, completeb and readb keep the invariant.
LEMMA InputKeeps ==
  ASSUME RecInv, NEW s \in SymbolIds, NEW v, NEW l \in Int,
         alternativeb(s, v, l) \/ readb(s, v, l) \/ completeb
  PROVE  RecInv'
  <1>1. CASE alternativeb(s, v, l)
    BY <1>1, OfferKeeps DEF alternativeb, Started, Accept, Refuse
  <1>2. CASE readb(s, v, l)
    <2> DEFINE o == Offer(s, v, l)
    <2>1. /\ o.pending \in SUBSET Tokens /\ o.furthest \in Nat
          /\ \A t \in o.pending : accepting /\ Ahead(t, o.furthest)
      BY OfferLeaves
    <2>2. CASE Complete(o.pending, o.furthest)
      <3> HIDE DEF o
      <3> QED
        BY <1>2, <2>1, <2>2, CompleteKeeps DEF readb, Started
    <2>3. CASE /\ Refuse /\ pending' = o.pending /\ furthest' = o.furthest
               /\ UNCHANGED <<accepting, earleme, hasSet, expected, events>>
      BY <1>2, <2>3, OfferKeeps DEF readb, Started, Refuse
    <2> QED
      BY <1>2, <2>2, <2>3 DEF readb
  <1>3. CASE completeb
    <2>1. /\ pending \in SUBSET Tokens /\ furthest \in Nat
          /\ \A t \in pending : accepting /\ Ahead(t, furthest)
      BY DEF RecInv, ReadTypes, TokensAhead
    <2> QED
      BY <1>3, <2>1, CompleteKeeps DEF completeb, Started
  <1> QED
    BY <1>1, <1>2, <1>3

\* The calls that ask, and those that are refused before startb.
LEMMA QueryKeeps ==
  ASSUME RecInv, terminals_expectedb \/ terminal_is_expectedb \/ notStarted
  PROVE  RecInv'
  <1>0. /\ UNCHANGED <<gvars, option, recp, input, active, recSymbols>>
        /\ ret' \in BOOLEAN /\ delivered' = <<>>
    BY DEF terminals_expectedb, terminal_is_expectedb, notStarted, Accept, Refuse
  <1>1. GrammarInv' /\ CoreGiven' /\ Core' = Core
    BY <1>0, GrammarSame DEF RecInv
  <1>2. \/ UNCHANGED arrays
        \/ idArray' = NoArray /\ symArray' = NoArray
        \/ recp /\ idArray' = Len(xsy) /\ symArray' = Len(xsy)
    BY DEF terminals_expectedb, terminal_is_expectedb, notStarted, Started, HighestSymbolId,
           secondMallocFails, RecInv, GrammarInv, TypeOK
  <1>3. /\ Len(xsy) \in Nat /\ \A s \in Core \cup expected : s < Len(xsy)
    BY GivenBelow DEF RecInv, CoreGiven, Room, GrammarInv, TypeOK
  <1>4. delivered' \in Seq(SymbolEvents)
    BY <1>0
  <1>5. ReadTypes'
    BY <1>0, <1>2, <1>3, <1>4 DEF RecInv, ReadTypes, input, arrays
  <1>6. Room'
    BY <1>0, <1>1, <1>2, <1>3 DEF RecInv, Room, input, arrays, gvars
  <1>7. Beside' /\ TokensAhead' /\ DeliveredOnce'
    BY <1>0 DEF RecInv, Beside, TokensAhead, Ahead, DeliveredOnce, input, gvars
  <1> QED
    BY <1>1, <1>5, <1>6, <1>7 DEF RecInv

\* event_activateb switches events of one symbol.
LEMMA ActivateKeeps ==
  ASSUME RecInv, NEW s \in SymbolIds, NEW E \in SUBSET EventTypes, NEW on \in BOOLEAN,
         event_activateb(s, E, on)
  PROVE  RecInv'
  <1>0. /\ UNCHANGED <<gvars, option, recp, input, recSymbols, arrays>>
        /\ ret' \in BOOLEAN /\ delivered' = <<>>
    BY DEF event_activateb, Accept
  <1>1. GrammarInv' /\ CoreGiven' /\ Core' = Core
    BY <1>0, GrammarSame DEF RecInv
  <1>2. active' \subseteq SymbolEvents
    <2>1. {[type |-> t, sym |-> s] : t \in E} \subseteq SymbolEvents
      BY DEF SymbolEvents
    <2> QED
      BY <2>1 DEF event_activateb, RecInv, ReadTypes
  <1>3. delivered' \in Seq(SymbolEvents)
    BY <1>0
  <1>4. ReadTypes'
    BY <1>0, <1>2, <1>3 DEF RecInv, ReadTypes, input, arrays
  <1>5. Room'
    BY <1>0, <1>1 DEF RecInv, Room, input, arrays, gvars
  <1>6. Beside' /\ TokensAhead' /\ DeliveredOnce'
    BY <1>0 DEF RecInv, Beside, TokensAhead, Ahead, DeliveredOnce, input, gvars
  <1> QED
    BY <1>1, <1>4, <1>5, <1>6 DEF RecInv
-----------------------------------------------------------------------------
(* The theorems                                                            *)

\* Nothing is read before a wrapper exists.
LEMMA RecStarts == RecInit => RecInv
  <1> SUFFICES ASSUME RecInit PROVE RecInv
    OBVIOUS
  <1>1. GrammarInv
    BY EmptyGrammar DEF RecInit, Init
  <1>2. CoreGiven
    BY DEF RecInit, Init, Empty, CoreGiven, Core
  <1>3. ReadTypes
    <2>1. delivered \in Seq(SymbolEvents) /\ recSymbols \in 0 .. MaxSymbols
      BY GrammarConstants DEF RecInit
    <2> QED
      BY <2>1, QuietEvents DEF RecInit, NoInput, ReadTypes
  <1>4. Beside /\ Room /\ TokensAhead /\ DeliveredOnce
    BY DEF RecInit, NoInput, Beside, Room, TokensAhead, DeliveredOnce
  <1> QED
    BY <1>1, <1>2, <1>3, <1>4 DEF RecInv

\* Every call keeps the invariant.
LEMMA RecStep == RecInv /\ [RecNext]_vars => RecInv'
  <1> SUFFICES ASSUME RecInv, [RecNext]_vars PROVE RecInv'
    OBVIOUS
  <1>1. CASE UNCHANGED vars
    <2>1. GrammarInv' /\ CoreGiven' /\ Grows
      BY <1>1, GrammarSame DEF vars, RecInv, Grows, gvars
    <2> QED
      BY <1>1, <2>1, DefineKeeps DEF vars
  <1>2. CASE defineGrammar
    <2>1. GrammarInv' /\ CoreGiven' /\ Grows
      BY <1>2, GrammarGrows, GrammarConstants DEF defineGrammar, RecInv
    <2> QED
      BY <1>2, <2>1, DefineKeeps DEF defineGrammar
  <1>3. ASSUME NEW s \in SymbolIds, NEW v \in TokenValues, NEW l \in TokenLengths,
               alternativeb(s, v, l) \/ readb(s, v, l)
        PROVE  RecInv'
    BY <1>3, InputKeeps, RecognizerConstants
  <1>4. CASE completeb
    <2>1. /\ pending \in SUBSET Tokens /\ furthest \in Nat
          /\ \A t \in pending : accepting /\ Ahead(t, furthest)
      BY DEF RecInv, ReadTypes, TokensAhead
    <2> QED
      BY <1>4, <2>1, CompleteKeeps DEF completeb, Started
  <1>5. ASSUME NEW s \in SymbolIds, NEW E \in EventSets, NEW on \in BOOLEAN,
               event_activateb(s, E, on)
        PROVE  RecInv'
    BY <1>5, ActivateKeeps, RecognizerConstants
  <1> QED
    BY <1>1, <1>2, <1>3, <1>4, <1>5, LifecycleKeeps, StartKeeps, QueryKeeps DEF RecNext

\* The invariant holds in every reachable state.
LEMMA RecInvariant == RecSpec => []RecInv
  BY RecStarts, RecStep, PTL DEF RecSpec

\* The arrays of expected terminals have room for all of them.
LEMMA RoomSuffices == RecInv => ExpectedArraysSound
  <1> SUFFICES ASSUME RecInv PROVE ExpectedArraysSound
    OBVIOUS
  <1>1. expected \subseteq symbolTab.entry
    BY DEF RecInv, Room, GrammarInv, MentionedSymbolsKnown
  <1>2. ASSUME idArray # NoArray PROVE Cardinality(expected) <= idArray
    <2>1. idArray \in Nat
      BY <1>2 DEF RecInv, ReadTypes
    <2>2. expected \in SUBSET (0 .. idArray - 1)
      BY <1>2, <2>1, GrammarConstants DEF RecInv, Room, ReadTypes, SymbolIds
    <2>3. IsFiniteSet(0 .. idArray - 1) /\ Cardinality(0 .. idArray - 1) = idArray
      BY <2>1, FS_Interval
    <2>4. Cardinality(expected) <= Cardinality(0 .. idArray - 1)
      BY <2>2, <2>3, FS_Subset
    <2> QED
      BY <2>3, <2>4
  <1> QED
    BY <1>1, <1>2 DEF RecInv, Room, ExpectedArraysSound

\* The array of terminals_expectedb is long enough and names known symbols, for
\* every grammar and however many symbols were added since it was made.
THEOREM ReadHasRoom == RecSpec => []ExpectedArraysSound
  BY RecInvariant, RoomSuffices, PTL

\* An accepted token waits for an earleme still to come, in a recognizer that
\* accepts input, and the read phase keeps its types.
THEOREM ReadAhead == RecSpec => []PendingAhead
  <1>1. RecInv => PendingAhead
    BY DEF RecInv, GrammarInv, ReadTypes, RecTypeOK, TokensAhead, Ahead, PendingAhead
  <1> QED
    BY <1>1, RecInvariant, PTL

\* The event callback gets each event of the earleme once, in calls that answer
\* TRUE.
THEOREM ReadDelivers == RecSpec => []DeliveredOnce
  BY RecInvariant, PTL DEF RecInv

\* What a step does to the tokens: they stay, are scanned where they end, or go
\* with the recognizer.
TokensKept == recp' /\ ~(earleme' = 0 /\ pending' = {}) =>
                \A t \in pending : t \in pending' \/ (earleme' = t.end /\ hasSet')

\* What a step that answers FALSE and leaves input open has done.
Atomic == recp /\ recp' /\ ~ret' /\ accepting /\ accepting' =>
            \/ earleme' = earleme /\ UNCHANGED <<pending, furthest, expected, hasSet>>
            \/ earleme' = earleme + 1 /\ \A t \in pending' : t.end > earleme'
            \/ earleme' = 0

\* Completing an earleme scans the tokens that end there and no others.
LEMMA CompleteScans ==
  ASSUME RecInv, NEW p \in SUBSET Tokens, NEW f \in Nat, pending \subseteq p,
         \A t \in p : accepting /\ Ahead(t, f), Complete(p, f)
  PROVE  TokensKept /\ Atomic
  <1>0. earleme \in Nat
    BY DEF RecInv, ReadTypes
  <1>1. CASE ~accepting /\ pending' = p
    BY <1>1 DEF TokensKept, Atomic
  <1>2. CASE /\ earleme' = earleme + 1 /\ pending' = NotScanned(p, earleme + 1)
             /\ hasSet' \/ p = pending'
    <2>1. \A t \in p : t \in pending' \/ t.end = earleme'
      BY <1>0, <1>2, NotScannedAhead
    <2>2. TokensKept
      BY <1>2, <2>1 DEF TokensKept
    <2>3. \A t \in pending' : t.end > earleme'
      <3> SUFFICES ASSUME NEW t \in pending' PROVE t.end > earleme'
        OBVIOUS
      <3>1. t \in p /\ earleme + 1 < t.end
        BY <1>0, <1>2, NotScannedAhead
      <3>2. t.end \in Nat
        BY <3>1 DEF Tokens
      <3> QED
        BY <1>0, <1>2, <3>1, <3>2
    <2> QED
      BY <1>2, <2>2, <2>3 DEF Atomic
  <1> QED
    BY <1>1, <1>2, CompleteMoves

\* A step that leaves the input alone, starts it anew or drops the recognizer.
LEMMA OtherStepsKeep ==
  ASSUME \/ UNCHANGED <<earleme, pending, furthest, expected, hasSet>>
         \/ earleme' = 0 /\ pending' = {}
         \/ recp' = FALSE
  PROVE  TokensKept /\ Atomic
  BY DEF TokensKept, Atomic

\* Every step keeps the tokens, and fails as a whole or not at all.
LEMMA StepKeepsTokens ==
  ASSUME RecInv, [RecNext]_vars
  PROVE  TokensKept /\ Atomic
  <1>1. CASE \/ newWrapper \/ defineGrammar \/ terminals_expectedb \/ terminal_is_expectedb
             \/ notStarted \/ UNCHANGED vars
             \/ \E s \in SymbolIds, E \in EventSets, on \in BOOLEAN : event_activateb(s, E, on)
    <2>1. UNCHANGED <<earleme, pending, furthest, expected, hasSet>>
      BY <1>1 DEF newWrapper, defineGrammar, terminals_expectedb, terminal_is_expectedb,
                  notStarted, event_activateb, vars, rvars, input
    <2> QED
      BY <2>1, OtherStepsKeep
  <1>2. CASE destroyWrapper \/ startb \/ startbTrivial \/ startbFails
    BY <1>2, OtherStepsKeep DEF destroyWrapper, startb, startbTrivial, startbFails, StartInput
  <1>3. CASE completeb
    <2>1. /\ pending \in SUBSET Tokens /\ furthest \in Nat
          /\ \A t \in pending : accepting /\ Ahead(t, furthest)
      BY DEF RecInv, ReadTypes, TokensAhead
    <2> QED
      BY <1>3, <2>1, CompleteScans DEF completeb
  <1>4. ASSUME NEW s \in SymbolIds, NEW v \in TokenValues, NEW l \in TokenLengths,
               alternativeb(s, v, l) \/ readb(s, v, l)
        PROVE  TokensKept /\ Atomic
    <2> DEFINE o == Offer(s, v, l)
    <2>1. /\ o.pending \in SUBSET Tokens /\ o.furthest \in Nat
          /\ \A t \in o.pending : accepting /\ Ahead(t, o.furthest)
          /\ pending \subseteq o.pending
          /\ ~o.ok => o.pending = pending /\ o.furthest = furthest
      BY OfferLeaves, RecognizerConstants
    <2>2. CASE Complete(o.pending, o.furthest)
      <3> HIDE DEF o
      <3> QED
        BY <2>1, <2>2, CompleteScans
    <2>3. CASE /\ pending' = o.pending /\ furthest' = o.furthest /\ (~ret' => ~o.ok)
               /\ UNCHANGED <<accepting, earleme, hasSet, expected, events>>
      <3> HIDE DEF o
      <3> QED
        BY <2>1, <2>3 DEF TokensKept, Atomic
    <2> QED
      BY <1>4, <2>2, <2>3 DEF alternativeb, readb, Accept, Refuse
  <1> QED
    BY <1>1, <1>2, <1>3, <1>4 DEF RecNext

\* Whatever fails, an accepted token is scanned at the earleme it ends at or
\* goes with its recognizer.
THEOREM ReadLosesNothing == RecSpec => NoTokenLost
  <1>1. RecInv /\ [RecNext]_vars => [TokensKept]_vars
    BY StepKeepsTokens
  <1> QED
    BY <1>1, RecInvariant, PTL DEF RecSpec, NoTokenLost, TokensKept

\* A call that answers FALSE and leaves input open has done nothing, or all of
\* its earleme.
THEOREM ReadFailsWhole == RecSpec => FailureIsAtomic
  <1>1. RecInv /\ [RecNext]_vars => [Atomic]_vars
    BY StepKeepsTokens
  <1> QED
    BY <1>1, RecInvariant, PTL DEF RecSpec, FailureIsAtomic, Atomic
=============================================================================
