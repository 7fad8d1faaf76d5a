---------------------------- MODULE ReaderProofs ----------------------------
(***************************************************************************)
(* For every grammar, lexer and order qsort can leave: recognizeb pushes   *)
(* exactly the tokens it should at every position, the longest ones or all *)
(* of them, and a token it pushes is refused only for its value or length. *)
(*                                                                         *)
(* The invariant follows the two loops.  While the lexer is asked, each    *)
(* symbol passed has its match in lengthl or was skipped under a longer    *)
(* one, and maxLengthl is reached by one of them (Asking, Told); while     *)
(* tokens are pushed, those that begin here are the chosen symbols passed  *)
(* (Pushed), with the end the shared length gives them (Shared).           *)
(***************************************************************************)
EXTENDS Reader, RecognizerProofs

Busy == {"checking", "pushing", "completing"}

ReaderTypes ==
  /\ reader \in ReaderOptions /\ hint \in SymbolHints
  /\ pc \in {"idle", "reading"} \cup Busy
  /\ text \in [SymbolIds -> Nat] /\ lengthl \in [SymbolIds -> Nat] /\ maxLengthl \in Nat
  /\ lexeme \in [value : Nat, length : Int, failed : BOOLEAN]

\* The array lists the expected terminals, each once.
Listed ==
  pc \in Busy =>
    /\ recp /\ symbolpp \in Seq(expected) /\ ToSet(symbolpp) = expected
    /\ \A j, k \in 1 .. Len(symbolpp) : symbolpp[j] = symbolpp[k] => j = k
    /\ i \in 1 .. Len(symbolpp) + 1
    /\ \A s \in expected : sizel(s) > 0 => text[s] \in {0, sizel(s)}

\* Nothing begins here before the first push.
Fresh == pc \in {"reading", "checking"} => Here = {}

\* What is known of a symbol the loop has passed.
Said(s) == /\ text[s] <= maxLengthl
           /\ lengthl[s] = text[s] \/ (lengthl[s] = 0 /\ LATM /\ text[s] < maxLengthl)

Asking ==
  pc = "checking" =>
    /\ \A k \in 1 .. i - 1 : Said(symbolpp[k])
    /\ maxLengthl = 0 \/ \E k \in 1 .. i - 1 : text[symbolpp[k]] = maxLengthl

Told ==
  pc = "pushing" =>
    /\ maxLengthl > 0 /\ \A s \in expected : Said(s)
    /\ \E s \in expected : text[s] = maxLengthl

Pushed ==
  pc = "pushing" =>
    {t.sym : t \in Here} = {symbolpp[k] : k \in {k \in 1 .. i - 1 : Chosen(symbolpp[k])}}

Shared ==
  pc = "pushing" /\ reader.longestAcceptableTokensShareTheSameValueAndLengthb =>
    /\ lexeme.value = 0 => Here = {}
    /\ \A t \in Here : t.end = earleme + lexeme.length

ReaderInv == /\ RecInv /\ ReaderTypes /\ Listed /\ Fresh
             /\ Asking /\ Told /\ Pushed /\ Shared /\ LongestPushed
-----------------------------------------------------------------------------
(* The read phase under the loop                                           *)

\* The grammar, or what the reader adds to it, is defined.
LEMMA DefineSteps ==
  ASSUME RecInv, NEW opts \in Options \cup {{}}, NEW r,
         \/ (addSymbolp(opts) \/ addSymbolpFails \/ precomputeb) /\ UNCHANGED rvars
         \/ r \in Rules /\ addRulep(r) /\ UNCHANGED rvars
         \/ newWrapper
  PROVE  RecInv'
  <1>1. CASE newWrapper
    BY <1>1, LifecycleKeeps
  <1>2. CASE /\ addSymbolp(opts) \/ addSymbolpFails \/ precomputeb \/ (r \in Rules /\ addRulep(r))
             /\ UNCHANGED rvars
    <2>1. opts \in SUBSET (Flags \cup {"start"})
      BY GrammarConstants
    <2>2. GrammarInv' /\ CoreGiven' /\ Grows
      BY <1>2, <2>1, GrammarGrows DEF RecInv
    <2> QED
      BY <1>2, <2>2, DefineKeeps
  <1> QED
    BY <1>1, <1>2

\* A step of the loop that makes no call of the wrapper.
LEMMA LocalSteps ==
  ASSUME RecInv, UNCHANGED vars
  PROVE  RecInv'
  BY RecStep

\* completeb, called with what was pushed.
LEMMA CompletebKeeps ==
  ASSUME RecInv, completeb
  PROVE  RecInv'
  <1>1. /\ pending \in SUBSET Tokens /\ furthest \in Nat
        /\ \A t \in pending : accepting /\ Ahead(t, furthest)
    BY DEF RecInv, ReadTypes, TokensAhead
  <1> QED
    BY <1>1, CompleteKeeps DEF completeb, Started

\* At rest and between positions little is claimed.
LEMMA Resting ==
  ASSUME RecInv', ReaderTypes', pc' \in {"idle", "reading"}, pc' = "reading" => Here' = {}
  PROVE  ReaderInv'
  BY DEF ReaderInv, Listed, Fresh, Asking, Told, Pushed, Shared, LongestPushed, Busy

\* What Forget leaves has its type.
LEMMA ForgottenTypes ==
  ASSUME ReaderTypes, Forget, reader' \in ReaderOptions, UNCHANGED <<hint, lengthl>>,
         pc' \in {"idle", "reading"}, lexeme' \in [value : Nat, length : Int, failed : BOOLEAN]
  PROVE  ReaderTypes'
  <1>1. NoText \in [SymbolIds -> Nat]
    BY DEF NoText
  <1> QED
    BY <1>1 DEF ReaderTypes, Forget, Busy

\* No lexeme, or one of the lexer.
LEMMA LexemeTypes ==
  /\ NoLexeme \in [value : Nat, length : Int, failed : BOOLEAN]
  /\ Lexemes \subseteq [value : Nat, length : Int, failed : BOOLEAN]
  <1>1. 0 \in Nat /\ 0 \in Int /\ TokenValues \subseteq Nat /\ TokenLengths \subseteq Int
    BY RecognizerConstants
  <1>2. NoLexeme \in [value : Nat, length : Int, failed : BOOLEAN]
    BY <1>1 DEF NoLexeme
  <1>3. Lexemes \subseteq [value : Nat, length : Int, failed : BOOLEAN]
    BY <1>1 DEF Lexemes
  <1> QED
    BY <1>2, <1>3
-----------------------------------------------------------------------------
(* The steps                                                               *)

\* The caller defines the grammar.
LEMMA DefineStep ==
  ASSUME ReaderInv, define
  PROVE  ReaderInv'
  <1>1. RecInv'
    <2>1. newWrapper \/ (precomputeb /\ UNCHANGED rvars) => RecInv'
      BY DefineSteps DEF ReaderInv
    <2>2. ASSUME NEW opts \in Options, addSymbolp(opts), UNCHANGED rvars PROVE RecInv'
      BY <2>2, DefineSteps DEF ReaderInv
    <2>3. ASSUME NEW r \in Rules, addRulep(r), UNCHANGED rvars PROVE RecInv'
      BY <2>3, DefineSteps DEF ReaderInv
    <2> QED
      BY <2>1, <2>2, <2>3 DEF define
  <1>2. ReaderTypes' /\ pc' = "idle"
    BY DEF define, ReaderInv, ReaderTypes, local
  <1> QED
    BY <1>1, <1>2, Resting

\* recognizeb starts over: nothing is pending.
LEMMA RecognizeStep ==
  ASSUME ReaderInv, NEW o \in ReaderOptions, recognizeb(o)
  PROVE  ReaderInv'
  <1>1. RecInv'
    BY StartKeeps DEF recognizeb, ReaderInv
  <1>2. /\ pc' \in {"idle", "reading"} /\ Forget /\ reader' \in ReaderOptions
        /\ UNCHANGED <<hint, lengthl>> /\ lexeme' = NoLexeme
    BY DEF recognizeb, Return
  <1>3. ReaderTypes'
    BY <1>2, ForgottenTypes, LexemeTypes DEF ReaderInv
  <1>4. ASSUME pc' = "reading" PROVE Here' = {}
    <2>1. ret'
      BY <1>4 DEF recognizeb, Return
    <2>2. pending' = {}
      BY <2>1 DEF recognizeb, startb, startbTrivial, startbFails, StartInput, Refuse
    <2> QED
      BY <2>2 DEF Here
  <1> QED
    BY <1>1, <1>2, <1>3, <1>4, Resting

\* The reader stops, or adds a symbol, or recognizeb returns while pushing
\* because the lexer gave no value.
LEMMA PauseStep ==
  ASSUME ReaderInv, readerStops \/ readerAddsSymbol \/ valueRefused
  PROVE  ReaderInv'
  <1>1. CASE readerStops \/ valueRefused
    <2>1. /\ pc' = "idle" /\ Forget /\ UNCHANGED <<vars, hint, lengthl, reader>>
      BY <1>1 DEF readerStops, valueRefused, Return
    <2>2. lexeme' \in [value : Nat, length : Int, failed : BOOLEAN]
      BY <1>1 DEF readerStops, valueRefused, ReaderInv, ReaderTypes
    <2>3. ReaderTypes'
      BY <2>1, <2>2, ForgottenTypes DEF ReaderInv, ReaderTypes
    <2> QED
      BY <2>1, <2>3, LocalSteps, Resting DEF ReaderInv
  <1>2. CASE readerAddsSymbol
    <2>1. RecInv'
      BY <1>2, DefineSteps DEF readerAddsSymbol, ReaderInv
    <2>2. /\ pc' = "reading" /\ UNCHANGED <<pending, earleme, pc, local>>
      BY <1>2 DEF readerAddsSymbol, rvars, input
    <2>3. ReaderTypes'
      BY <2>2 DEF ReaderInv, ReaderTypes, local
    <2>4. Here' = {}
      BY <1>2, <2>2 DEF ReaderInv, Fresh, Here, readerAddsSymbol
    <2> QED
      BY <2>1, <2>2, <2>3, <2>4, Resting
  <1> QED
    BY <1>1, <1>2

\* The text at a position is a match of each symbol.
LEMMA TextTypes ==
  ASSUME ReaderTypes, NEW m \in Texts
  PROVE  /\ m \in [SymbolIds -> Nat]
         /\ \A s \in expected \cap SymbolIds : sizel(s) > 0 => m[s] \in {0, sizel(s)}
  <1>1. \A s \in SymbolIds : sizel(s) \in Nat
    BY ReaderConstants DEF ReaderTypes, sizel
  <1>2. /\ m \in [SymbolIds -> UNION {CanMatch(s) : s \in SymbolIds}]
        /\ \A s \in SymbolIds : m[s] \in CanMatch(s)
    BY DEF Texts
  <1>3. \A s \in SymbolIds : m[s] \in Nat
    BY <1>1, <1>2, ReaderConstants DEF CanMatch
  <1>4. \A s \in expected \cap SymbolIds : sizel(s) > 0 => m[s] \in {0, sizel(s)}
    BY <1>1, <1>2 DEF CanMatch
  <1> QED
    BY <1>2, <1>3, <1>4

\* The orders in which a set is tried list it, each element once.
LEMMA TriedLists ==
  ASSUME NEW S \in SUBSET SymbolIds, NEW q \in Tried(S)
  PROVE  /\ q \in Seq(S) /\ ToSet(q) = S
         /\ \A j, k \in 1 .. Len(q) : q[j] = q[k] => j = k
  <1>1. IsFiniteSet(S)
    <2>1. IsFiniteSet(SymbolIds)
      BY FS_Interval, GrammarConstants DEF SymbolIds
    <2> QED
      BY <2>1, FS_Subset
  <1>2. q \in SetToSeqs(S)
    BY DEF Tried
  <1>3. q \in Seq(S) /\ Len(q) = Cardinality(S) /\ ToSet(q) = S
    BY <1>1, <1>2, Listing
  <1> QED
    BY <1>2, <1>3 DEF SetToSeqs

\* The reader moves on.
LEMMA ReadStep ==
  ASSUME ReaderInv, readerReads
  PROVE  ReaderInv'
  <1>1. RecInv' /\ UNCHANGED <<recp, input>> /\ recp
    BY QueryKeeps DEF readerReads, ReaderInv, terminals_expectedb, Started
  <1>2. UNCHANGED <<reader, hint, lengthl, lexeme>> /\ pc = "reading"
    BY DEF readerReads
  <1>3. CASE ret'
    <2>1. /\ pc' = "checking" /\ text' \in Texts /\ symbolpp' \in Tried(expected)
          /\ i' = 1 /\ maxLengthl' = 0
      BY <1>3 DEF readerReads
    <2>2. expected \in SUBSET SymbolIds /\ UNCHANGED <<expected, pending, earleme>>
      BY <1>1 DEF ReaderInv, RecInv, ReadTypes, input
    <2>3. /\ text' \in [SymbolIds -> Nat]
          /\ \A s \in expected : sizel(s) > 0 => text'[s] \in {0, sizel(s)}
      BY <2>1, <2>2, TextTypes DEF ReaderInv
    <2>4. /\ symbolpp' \in Seq(expected) /\ ToSet(symbolpp') = expected
          /\ \A j, k \in 1 .. Len(symbolpp') : symbolpp'[j] = symbolpp'[k] => j = k
      BY <2>1, <2>2, TriedLists
    <2>5. ReaderTypes'
      BY <1>2, <2>1, <2>3 DEF ReaderInv, ReaderTypes, Busy
    <2>6. Listed'
      <3>1. i' \in 1 .. Len(symbolpp') + 1
        BY <2>1, <2>4
      <3>2. \A s \in expected' : sizel(s)' > 0 => text'[s] \in {0, sizel(s)'}
        BY <1>2, <2>2, <2>3 DEF sizel
      <3> QED
        BY <1>1, <2>2, <2>4, <3>1, <3>2 DEF Listed
    <2>7. Fresh'
      BY <1>2, <2>2 DEF ReaderInv, Fresh, Here
    <2>8. Asking' /\ Told' /\ Pushed' /\ Shared' /\ LongestPushed'
      BY <2>1 DEF Asking, Told, Pushed, Shared, LongestPushed
    <2> QED
      BY <1>1, <2>5, <2>6, <2>7, <2>8 DEF ReaderInv
  <1>4. CASE ~ret'
    <2>1. pc' = "idle" /\ Forget
      BY <1>4 DEF readerReads, Return
    <2>2. ReaderTypes'
      BY <1>2, <2>1, ForgottenTypes DEF ReaderInv, ReaderTypes
    <2> QED
      BY <1>1, <2>1, <2>2, Resting
  <1> QED
    BY <1>3, <1>4

\* The array stays as it is until the position is left.
LEMMA StillListed ==
  ASSUME ReaderInv, pc \in Busy, i' \in 1 .. Len(symbolpp) + 1,
         UNCHANGED <<recp, expected, symbolpp, text, hint>>
  PROVE  Listed'
  BY DEF ReaderInv, Listed, sizel

\* The types of what a symbol of the array is looked up in.
LEMMA ListedTypes ==
  ASSUME ReaderInv, pc \in Busy
  PROVE  /\ Len(symbolpp) \in Nat /\ DOMAIN symbolpp = 1 .. Len(symbolpp) /\ i \in Nat
         /\ \A k \in 1 .. Len(symbolpp) : symbolpp[k] \in expected
         /\ \A s \in expected : \E k \in 1 .. Len(symbolpp) : symbolpp[k] = s
         /\ \A s \in expected : /\ s \in SymbolIds /\ s \in DOMAIN lengthl
                                /\ text[s] \in Nat /\ lengthl[s] \in Nat /\ sizel(s) \in Nat
  <1>1. symbolpp \in Seq(expected) /\ ToSet(symbolpp) = expected /\ i \in 1 .. Len(symbolpp) + 1
    BY DEF ReaderInv, Listed
  <1>2. \A s \in expected : s \in SymbolIds
    BY DEF ReaderInv, RecInv, ReadTypes
  <1>3. \A s \in SymbolIds : /\ s \in DOMAIN lengthl /\ text[s] \in Nat /\ lengthl[s] \in Nat
                             /\ sizel(s) \in Nat
    BY ReaderConstants DEF ReaderInv, ReaderTypes, sizel
  <1>4. Len(symbolpp) \in Nat /\ DOMAIN symbolpp = 1 .. Len(symbolpp) /\ i \in Nat
    BY <1>1
  <1> QED
    BY <1>1, <1>2, <1>3, <1>4 DEF ToSet

\* The lexer is asked about one more symbol.
LEMMA AskStep ==
  ASSUME ReaderInv, checkSymbol, i <= Len(symbolpp)
  PROVE  ReaderInv'
  <1> DEFINE s == symbolpp[i]
             c == Checked(s)
  <1>0. /\ pc = "checking" /\ pc \in Busy
        /\ UNCHANGED <<vars, pc, reader, hint, text, symbolpp, lexeme>> /\ i' = i + 1
        /\ lengthl' = [lengthl EXCEPT ![s] = c]
        /\ maxLengthl' = IF c > maxLengthl THEN c ELSE maxLengthl
    BY DEF checkSymbol, Busy
  <1>1. /\ Len(symbolpp) \in Nat /\ i \in 1 .. Len(symbolpp) /\ s \in expected /\ s \in SymbolIds
        /\ s \in DOMAIN lengthl /\ text[s] \in Nat /\ sizel(s) \in Nat /\ maxLengthl \in Nat
        /\ sizel(s) > 0 => text[s] \in {0, sizel(s)}
        /\ \A j, k \in 1 .. Len(symbolpp) : symbolpp[j] = symbolpp[k] => j = k
    <2>1. Len(symbolpp) \in Nat /\ i \in 1 .. Len(symbolpp) /\ maxLengthl \in Nat
      BY <1>0, ListedTypes DEF ReaderInv, Listed, ReaderTypes
    <2>2. /\ s \in expected /\ s \in SymbolIds /\ s \in DOMAIN lengthl /\ text[s] \in Nat
          /\ sizel(s) \in Nat
      BY <1>0, <2>1, ListedTypes
    <2> QED
      BY <1>0, <2>1, <2>2 DEF ReaderInv, Listed
  <1>2. \/ c = text[s]
        \/ c = 0 /\ LATM /\ text[s] < maxLengthl
    BY <1>1 DEF Checked, Skipped
  <1> HIDE DEF c
  <1>3. /\ c \in Nat /\ maxLengthl' \in Nat /\ maxLengthl' >= maxLengthl /\ maxLengthl' >= c
        /\ maxLengthl' = maxLengthl \/ (maxLengthl' = c /\ c = text[s])
    BY <1>0, <1>1, <1>2
  <1>4. RecInv'
    BY <1>0, LocalSteps DEF ReaderInv
  <1>5. ReaderTypes'
    BY <1>0, <1>1, <1>3 DEF ReaderInv, ReaderTypes
  <1>6. i' \in 1 .. Len(symbolpp) + 1 /\ UNCHANGED <<recp, expected, pending, earleme, LATM>>
    BY <1>0, <1>1 DEF vars, rvars, input, LATM
  <1>7. Listed'
    BY <1>0, <1>6, StillListed
  <1>8. Fresh'
    BY <1>0, <1>6 DEF ReaderInv, Fresh, Here
  <1>9. \A k \in 1 .. i' - 1 : Said(symbolpp[k])'
    <2> SUFFICES ASSUME NEW k \in 1 .. i PROVE Said(symbolpp[k])'
      BY <1>0, <1>1
    <2>1. CASE k = i
      <3>1. lengthl'[s] = c
        BY <1>0, <1>1
      <3> QED
        BY <1>0, <1>1, <1>2, <1>3, <1>6, <2>1, <3>1 DEF Said
    <2>2. CASE k # i
      <3>1. k \in 1 .. i - 1 /\ k \in 1 .. Len(symbolpp) /\ symbolpp[k] # s
        BY <1>1, <2>2
      <3>2. Said(symbolpp[k])
        BY <1>0, <3>1 DEF ReaderInv, Asking
      <3>3. lengthl'[symbolpp[k]] = lengthl[symbolpp[k]] /\ text[symbolpp[k]] \in Nat
        BY <1>0, <3>1, ListedTypes
      <3> QED
        BY <1>0, <1>1, <1>3, <1>6, <3>2, <3>3 DEF Said
    <2> QED
      BY <2>1, <2>2
  <1>10. maxLengthl' = 0 \/ \E k \in 1 .. i' - 1 : text'[symbolpp'[k]] = maxLengthl'
    <2>1. i' - 1 = i
      BY <1>0, <1>1
    <2>2. CASE maxLengthl' = maxLengthl
      <3>1. maxLengthl = 0 \/ \E k \in 1 .. i - 1 : text[symbolpp[k]] = maxLengthl
        BY <1>0 DEF ReaderInv, Asking
      <3>2. \A k \in 1 .. i - 1 : k \in 1 .. i
        BY <1>1
      <3> QED
        BY <1>0, <2>1, <2>2, <3>1, <3>2
    <2>3. CASE maxLengthl' = c /\ c = text[s]
      BY <1>0, <1>1, <2>1, <2>3
    <2> QED
      BY <1>3, <2>2, <2>3
  <1>11. Asking'
    BY <1>0, <1>9, <1>10 DEF Asking, Said
  <1>12. Told' /\ Pushed' /\ Shared' /\ LongestPushed'
    BY <1>0 DEF Told, Pushed, Shared, LongestPushed
  <1> QED
    BY <1>4, <1>5, <1>7, <1>8, <1>11, <1>12 DEF ReaderInv

\* The lexer was asked about all of them.
LEMMA AskedStep ==
  ASSUME ReaderInv, checkSymbol, ~(i <= Len(symbolpp))
  PROVE  ReaderInv'
  <1>0. /\ pc = "checking" /\ pc \in Busy /\ pc' = IF maxLengthl > 0 THEN "pushing" ELSE "completing"
        /\ UNCHANGED <<vars, reader, hint, text, symbolpp, lengthl, maxLengthl>> /\ i' = 1
        /\ lexeme' = NoLexeme
    BY DEF checkSymbol, Busy
  <1>1. /\ Len(symbolpp) \in Nat /\ i = Len(symbolpp) + 1 /\ i - 1 = Len(symbolpp)
        /\ maxLengthl \in Nat
    BY <1>0, ListedTypes DEF ReaderInv, Listed, ReaderTypes
  <1>2. \A s \in expected : Said(s)
    <2> SUFFICES ASSUME NEW s \in expected PROVE Said(s)
      OBVIOUS
    <2>1. PICK k \in 1 .. Len(symbolpp) : symbolpp[k] = s
      BY <1>0, ListedTypes
    <2> QED
      BY <1>0, <1>1, <2>1 DEF ReaderInv, Asking
  <1>3. maxLengthl > 0 => \E s \in expected : text[s] = maxLengthl
    BY <1>0, <1>1, ListedTypes DEF ReaderInv, Asking
  <1>4. UNCHANGED <<recp, expected, pending, earleme, LATM>> /\ Here = {} /\ Here' = {}
    BY <1>0 DEF vars, rvars, input, LATM, ReaderInv, Fresh, Here
  <1>5. RecInv'
    BY <1>0, LocalSteps DEF ReaderInv
  <1>6. ReaderTypes'
    BY <1>0, LexemeTypes DEF ReaderInv, ReaderTypes, Busy
  <1>7. Listed'
    BY <1>0, <1>1, <1>4, StillListed
  <1>8. Fresh' /\ Asking'
    BY <1>0 DEF Fresh, Asking
  <1>9. Told'
    BY <1>0, <1>2, <1>3, <1>4 DEF Told, Said
  <1>10. Pushed' /\ Shared'
    <2>1. {k \in 1 .. i' - 1 : Chosen(symbolpp[k])'} = {}
      BY <1>0
    <2>2. {t.sym : t \in Here'} = {}
      BY <1>4
    <2>3. Pushed'
      BY <1>0, <2>1, <2>2 DEF Pushed
    <2>4. Shared'
      BY <1>4 DEF Shared
    <2> QED
      BY <2>3, <2>4
  <1>11. LongestPushed'
    <2> SUFFICES ASSUME pc' = "completing" PROVE LongestPushed'
      BY DEF LongestPushed
    <2>1. maxLengthl = 0
      BY <1>0, <1>1
    <2>2. \A s \in expected : ~(text[s] > 0)
      BY <1>0, <1>2, <2>1, ListedTypes DEF Said
    <2>3. {t.sym : t \in Here'} = {}
      BY <1>4
    <2>4. {s \in expected' : text'[s] > 0 /\ (LATM' => Longest(s)')} = {}
      BY <1>0, <1>4, <2>2
    <2> QED
      BY <1>4, <2>3, <2>4 DEF LongestPushed
  <1> QED
    BY <1>5, <1>6, <1>7, <1>8, <1>9, <1>10, <1>11 DEF ReaderInv

\* Once all are asked, the chosen symbols are those that should be pushed.
LEMMA ChosenAreLongest ==
  ASSUME ReaderInv, pc = "pushing", NEW s \in expected
  PROVE  Chosen(s) <=> text[s] > 0 /\ (LATM => Longest(s))
  <1>1. /\ maxLengthl > 0 /\ \A u \in expected : Said(u) /\ text[u] \in Nat /\ lengthl[u] \in Nat
        /\ maxLengthl \in Nat
    BY ListedTypes DEF ReaderInv, Told, ReaderTypes, Busy
  <1>2. PICK m \in expected : text[m] = maxLengthl
    BY DEF ReaderInv, Told
  <1>3. CASE LATM
    <2>1. Longest(s) <=> text[s] = maxLengthl
      BY <1>1, <1>2 DEF Longest, Said
    <2> QED
      BY <1>1, <1>3, <2>1 DEF Chosen, Said
  <1>4. CASE ~LATM
    BY <1>1, <1>4 DEF Chosen, Said
  <1> QED
    BY <1>3, <1>4

\* A token that is taken has a value and waits with the others.
LEMMA OfferTaken ==
  ASSUME NEW s, NEW v, NEW l, Offer(s, v, l).ok
  PROVE  /\ v # 0
         /\ Offer(s, v, l).pending =
              pending \cup {[sym |-> s, start |-> earleme, end |-> earleme + l]}
  <1>1. ~TokenRefused(s, v, l)
    BY DEF Offer
  <1> QED
    BY <1>1 DEF Offer, TokenRefused

\* What the lexer gave, and who it is for.
LEMMA PushFacts ==
  ASSUME ReaderInv, pushSymbol
  PROVE  /\ pc = "pushing" /\ pc \in Busy /\ Len(symbolpp) \in Nat /\ i \in 1 .. Len(symbolpp)
         /\ symbolpp[i] \in expected /\ symbolpp[i] \in SymbolIds
         /\ lexeme' \in [value : Nat, length : Int, failed : BOOLEAN] /\ lexeme'.length \in Int
         /\ UNCHANGED <<gvars, recp, accepting, earleme, hasSet, expected>>
         /\ pending' = Offer(symbolpp[i], lexeme'.value, lexeme'.length).pending
         /\ ret' <=> Offer(symbolpp[i], lexeme'.value, lexeme'.length).ok
         /\ RecInv'
  <1>1. pc = "pushing" /\ pc \in Busy /\ i <= Len(symbolpp)
    BY DEF pushSymbol, Busy
  <1>2. Len(symbolpp) \in Nat /\ i \in 1 .. Len(symbolpp)
    BY <1>1, ListedTypes DEF ReaderInv, Listed
  <1>3. symbolpp[i] \in expected /\ symbolpp[i] \in SymbolIds
    BY <1>1, <1>2, ListedTypes
  <1>4. lexeme' \in [value : Nat, length : Int, failed : BOOLEAN]
    BY LexemeTypes DEF pushSymbol, ReaderInv, ReaderTypes
  <1>5. lexeme'.length \in Int
    BY <1>4
  <1>6. alternativeb(symbolpp[i], lexeme'.value, lexeme'.length)
    BY DEF pushSymbol
  <1>7. RecInv'
    BY <1>3, <1>5, <1>6, InputKeeps DEF ReaderInv
  <1>8. /\ UNCHANGED <<gvars, recp, accepting, earleme, hasSet, expected>>
        /\ pending' = Offer(symbolpp[i], lexeme'.value, lexeme'.length).pending
        /\ ret' <=> Offer(symbolpp[i], lexeme'.value, lexeme'.length).ok
    BY <1>6 DEF alternativeb, Accept, Refuse
  <1> QED
    BY <1>1, <1>2, <1>3, <1>4, <1>5, <1>7, <1>8

\* A token is pushed, or recognizeb gives up.
LEMMA PushStep ==
  ASSUME ReaderInv, pushSymbol
  PROVE  ReaderInv'
  <1> DEFINE s == symbolpp[i]
             token == [sym |-> s, start |-> earleme, end |-> earleme + lexeme'.length]
  <1>0. /\ pc = "pushing" /\ pc \in Busy /\ Len(symbolpp) \in Nat /\ i \in 1 .. Len(symbolpp)
        /\ lexeme' \in [value : Nat, length : Int, failed : BOOLEAN] /\ RecInv'
        /\ UNCHANGED <<recp, earleme, expected, reader, hint, lengthl>> /\ Chosen(s)
    BY PushFacts DEF pushSymbol
  <1>1. CASE ~ret'
    <2>1. pc' = "idle" /\ Forget
      BY <1>1 DEF pushSymbol, Return
    <2>2. ReaderTypes'
      BY <1>0, <2>1, ForgottenTypes DEF ReaderInv, ReaderTypes
    <2> QED
      BY <1>0, <2>1, <2>2, Resting
  <1>2. CASE ret'
    <2>0. i' = i + 1 /\ UNCHANGED <<pc, text, symbolpp, maxLengthl>>
      BY <1>2 DEF pushSymbol
    <2>1. lexeme'.value # 0 /\ pending' = pending \cup {token}
      BY <1>2, PushFacts, OfferTaken
    <2>2. Here' = Here \cup {token}
      BY <1>0, <2>1 DEF Here
    <2>3. ReaderTypes'
      BY <1>0, <2>0 DEF ReaderInv, ReaderTypes
    <2>4. Listed'
      BY <1>0, <2>0, StillListed
    <2>5. Fresh' /\ Asking' /\ LongestPushed'
      BY <1>0, <2>0 DEF Fresh, Asking, LongestPushed
    <2>6. Told'
      BY <1>0, <2>0 DEF ReaderInv, Told, Said, LATM
    <2>7. Pushed'
      <3>0. token.sym = s
        OBVIOUS
      <3>1. {t.sym : t \in Here'} = {t.sym : t \in Here} \cup {s}
        <4> HIDE DEF token
        <4> QED
          BY <2>2, <3>0
      <3>2. {t.sym : t \in Here} = {symbolpp[k] : k \in {k \in 1 .. i - 1 : Chosen(symbolpp[k])}}
        BY <1>0 DEF ReaderInv, Pushed
      <3>3. {k \in 1 .. i : Chosen(symbolpp[k])} = {k \in 1 .. i - 1 : Chosen(symbolpp[k])} \cup {i}
        BY <1>0
      <3>4. {symbolpp[k] : k \in {k \in 1 .. i : Chosen(symbolpp[k])}} =
            {symbolpp[k] : k \in {k \in 1 .. i - 1 : Chosen(symbolpp[k])}} \cup {s}
        BY <3>3
      <3>5. i' - 1 = i /\ \A u \in expected : Chosen(u)' <=> Chosen(u)
        BY <1>0, <2>0 DEF Chosen, LATM
      <3>6. {k \in 1 .. i' - 1 : Chosen(symbolpp[k])'} = {k \in 1 .. i : Chosen(symbolpp[k])}
        BY <1>0, <2>0, <3>5 DEF Chosen, LATM
      <3>7. {t.sym : t \in Here'} =
            {symbolpp[k] : k \in {k \in 1 .. i : Chosen(symbolpp[k])}}
        BY <3>1, <3>2, <3>4
      <3> QED
        BY <2>0, <3>6, <3>7 DEF Pushed
    <2>8. Shared'
      <3> SUFFICES ASSUME reader.longestAcceptableTokensShareTheSameValueAndLengthb
                   PROVE  \A t \in Here' : t.end = earleme + lexeme'.length
        BY <1>0, <2>0, <2>1 DEF Shared
      <3>1. \A t \in Here : t.end = earleme + lexeme'.length
        <4>1. CASE lexeme.value = 0
          BY <1>0, <4>1 DEF ReaderInv, Shared
        <4>2. CASE lexeme.value # 0
          <5>1. lexeme' = lexeme
            BY <4>2 DEF pushSymbol, AsksValue
          <5> QED
            BY <1>0, <5>1 DEF ReaderInv, Shared
        <4> QED
          BY <4>1, <4>2
      <3> QED
        BY <2>2, <3>1
    <2> QED
      BY <1>0, <2>3, <2>4, <2>5, <2>6, <2>7, <2>8 DEF ReaderInv
  <1> QED
    BY <1>1, <1>2

\* A symbol is passed over.
LEMMA PassStep ==
  ASSUME ReaderInv, passSymbol, i <= Len(symbolpp)
  PROVE  ReaderInv'
  <1>0. /\ pc = "pushing" /\ pc \in Busy /\ ~Chosen(symbolpp[i]) /\ i' = i + 1
        /\ UNCHANGED <<vars, pc, reader, hint, text, symbolpp, lengthl, maxLengthl, lexeme>>
    BY DEF passSymbol, Busy
  <1>1. Len(symbolpp) \in Nat /\ i \in 1 .. Len(symbolpp)
    BY <1>0, ListedTypes DEF ReaderInv, Listed
  <1>2. UNCHANGED <<recp, expected, pending, earleme, LATM, Here>>
    BY <1>0 DEF vars, rvars, input, LATM, Here
  <1>3. RecInv' /\ ReaderTypes'
    BY <1>0, LocalSteps DEF ReaderInv, ReaderTypes
  <1>4. Listed'
    BY <1>0, <1>1, <1>2, StillListed
  <1>5. Fresh' /\ Asking' /\ LongestPushed'
    BY <1>0 DEF Fresh, Asking, LongestPushed
  <1>6. Told' /\ Shared'
    BY <1>0, <1>2 DEF ReaderInv, Told, Said, Shared
  <1>7. Pushed'
    <2>1. {k \in 1 .. i : Chosen(symbolpp[k])} = {k \in 1 .. i - 1 : Chosen(symbolpp[k])}
      BY <1>0, <1>1
    <2>2. {k \in 1 .. i' - 1 : Chosen(symbolpp[k])'} = {k \in 1 .. i : Chosen(symbolpp[k])}
      BY <1>0, <1>1, <1>2 DEF Chosen
    <2> QED
      BY <1>0, <1>2, <2>1, <2>2 DEF ReaderInv, Pushed
  <1> QED
    BY <1>3, <1>4, <1>5, <1>6, <1>7 DEF ReaderInv

\* All are pushed: what begins here is what should.
LEMMA PushedStep ==
  ASSUME ReaderInv, passSymbol, ~(i <= Len(symbolpp))
  PROVE  ReaderInv'
  <1>0. /\ pc = "pushing" /\ pc \in Busy /\ pc' = "completing" /\ lexeme' = NoLexeme
        /\ UNCHANGED <<vars, i, reader, hint, text, symbolpp, lengthl, maxLengthl>>
    BY DEF passSymbol, Busy
  <1>1. Len(symbolpp) \in Nat /\ i \in 1 .. Len(symbolpp) + 1 /\ i - 1 = Len(symbolpp)
    BY <1>0, ListedTypes DEF ReaderInv, Listed
  <1>2. UNCHANGED <<recp, expected, pending, earleme, LATM, Here>>
    BY <1>0 DEF vars, rvars, input, LATM, Here
  <1>3. RecInv' /\ ReaderTypes'
    BY <1>0, LocalSteps, LexemeTypes DEF ReaderInv, ReaderTypes, Busy
  <1>4. Listed'
    BY <1>0, <1>1, <1>2, StillListed
  <1>5. Fresh' /\ Asking' /\ Told' /\ Pushed' /\ Shared'
    BY <1>0 DEF Fresh, Asking, Told, Pushed, Shared
  <1>6. {t.sym : t \in Here} = {s \in expected : text[s] > 0 /\ (LATM => Longest(s))}
    <2>1. {t.sym : t \in Here} =
          {symbolpp[k] : k \in {k \in 1 .. Len(symbolpp) : Chosen(symbolpp[k])}}
      BY <1>0, <1>1 DEF ReaderInv, Pushed
    <2>2. /\ \A k \in 1 .. Len(symbolpp) : symbolpp[k] \in expected
          /\ \A s \in expected : \E k \in 1 .. Len(symbolpp) : symbolpp[k] = s
      BY <1>0, ListedTypes
    <2>3. {symbolpp[k] : k \in {k \in 1 .. Len(symbolpp) : Chosen(symbolpp[k])}} =
          {s \in expected : Chosen(s)}
      BY <2>2
    <2> QED
      BY <1>0, <2>1, <2>3, ChosenAreLongest
  <1>7. reader.longestAcceptableTokensShareTheSameValueAndLengthb =>
          \A t, u \in Here : t.end = u.end
    BY <1>0 DEF ReaderInv, Shared
  <1>8. LongestPushed'
    BY <1>0, <1>2, <1>6, <1>7 DEF LongestPushed, Longest
  <1> QED
    BY <1>3, <1>4, <1>5, <1>8 DEF ReaderInv

\* The earleme is completed: nothing begins at the next one yet.
LEMMA CompleteStep ==
  ASSUME ReaderInv, complete
  PROVE  ReaderInv'
  <1>0. completeb /\ RecInv /\ RecInv'
    BY CompletebKeeps DEF complete, ReaderInv
  <1>1. pc' \in {"idle", "reading"} /\ Forget /\ UNCHANGED <<reader, hint, lengthl, lexeme>>
    BY DEF complete, Return
  <1>2. ReaderTypes'
    BY <1>1, ForgottenTypes DEF ReaderInv, ReaderTypes
  <1>3. ASSUME pc' = "reading" PROVE Here' = {}
    <2>0. ret'
      BY <1>3 DEF complete, Return
    <2>1. /\ pending \in SUBSET Tokens /\ furthest \in Nat /\ earleme \in Nat
          /\ \A t \in pending : accepting /\ Ahead(t, furthest)
      BY <1>0 DEF RecInv, ReadTypes, TokensAhead
    <2>2. earleme' = earleme + 1 /\ pending' \subseteq pending
      BY <1>0, <2>0, <2>1, CompleteMoves DEF completeb, NotScanned
    <2>3. \A t \in pending' : t.start # earleme'
      <3> SUFFICES ASSUME NEW t \in pending' PROVE t.start # earleme'
        OBVIOUS
      <3>1. t \in pending /\ t.start \in Nat /\ t.start <= earleme
        BY <2>1, <2>2 DEF Tokens, Ahead
      <3> QED
        BY <2>1, <2>2, <3>1
    <2> QED
      BY <2>3 DEF Here
  <1> QED
    BY <1>0, <1>1, <1>2, <1>3, Resting
-----------------------------------------------------------------------------
(* The theorems                                                            *)

\* No position has been read.
LEMMA ReaderStarts == ReaderInit => ReaderInv
  <1> SUFFICES ASSUME ReaderInit PROVE ReaderInv
    OBVIOUS
  <1>1. RecInv
    BY RecStarts DEF ReaderInit
  <1>2. ReaderTypes
    BY LexemeTypes DEF ReaderInit, ReaderTypes, NoText
  <1> QED
    BY <1>1, <1>2 DEF ReaderInit, ReaderInv, Listed, Fresh, Asking, Told, Pushed, Shared,
                      LongestPushed, Busy

\* Every step of recognizeb keeps the invariant.
LEMMA ReaderStep == ReaderInv /\ [ReaderNext]_readerVars => ReaderInv'
  <1> SUFFICES ASSUME ReaderInv, [ReaderNext]_readerVars PROVE ReaderInv'
    OBVIOUS
  <1>1. CASE UNCHANGED readerVars
    <2>1. /\ UNCHANGED <<vars, pc, reader, hint, text, symbolpp, i, lengthl, maxLengthl, lexeme>>
          /\ UNCHANGED <<recp, expected, pending, earleme>>
      BY <1>1 DEF readerVars, local, vars, rvars, input
    <2>2. RecInv' /\ ReaderTypes'
      BY <2>1, LocalSteps DEF ReaderInv, ReaderTypes
    <2>3. Listed' /\ Fresh' /\ Asking' /\ Told'
      BY <2>1 DEF ReaderInv, Listed, Fresh, Asking, Told, Said, LATM, Here, sizel
    <2>4. Pushed' /\ Shared' /\ LongestPushed'
      BY <2>1 DEF ReaderInv, Pushed, Shared, LongestPushed, Longest, Chosen, LATM, Here
    <2> QED
      BY <2>2, <2>3, <2>4 DEF ReaderInv
  <1>2. CASE checkSymbol
    BY <1>2, AskStep, AskedStep
  <1>3. CASE passSymbol
    BY <1>3, PassStep, PushedStep
  <1> QED
    BY <1>1, <1>2, <1>3, DefineStep, RecognizeStep, PauseStep, ReadStep, PushStep, CompleteStep
    DEF ReaderNext

\* The invariant holds in every reachable state.
LEMMA ReaderInvariant == ReaderSpec => []ReaderInv
  BY ReaderStarts, ReaderStep, PTL DEF ReaderSpec

\* At every position the tokens that begin there when the earleme is completed
\* are those of the matching expected terminals, or with
\* longestAcceptableTokenMatchb of the longest ones, whatever order qsort left.
THEOREM RecognizePushesLongest == ReaderSpec => []LongestPushed
  BY ReaderInvariant, PTL DEF ReaderInv

\* The array recognizeb walks has room for the expected terminals although the
\* reader adds symbols between two positions.
THEOREM RecognizeHasRoom == ReaderSpec => []ExpectedArraysSound
  <1>1. ReaderInv => ExpectedArraysSound
    BY RoomSuffices DEF ReaderInv
  <1> QED
    BY <1>1, ReaderInvariant, PTL

\* A token recognizeb pushes is refused only for the value or the length the
\* lexer gave it.
THEOREM RecognizeRefusesBadOnly == ReaderSpec => OnlyBadTokensRefused
  <1>1. ASSUME ReaderInv, ReaderNext, pc = "pushing", pc' = "idle"
        PROVE  lexeme'.failed \/ lexeme'.value = 0 \/ lexeme'.length <= 0
    <2>1. pushSymbol \/ valueRefused
      BY <1>1 DEF ReaderNext, define, recognizeb, readerStops, readerAddsSymbol, readerReads,
                  checkSymbol, passSymbol, complete
    <2>2. CASE valueRefused
      BY <1>1, <2>2 DEF valueRefused, ReaderInv, ReaderTypes
    <2>3. CASE pushSymbol
      <3> DEFINE s == symbolpp[i]
                 l == lexeme'.length
                 token == [sym |-> s, start |-> earleme, end |-> earleme + l]
      <3>1. ~Offer(s, lexeme'.value, l).ok
        BY <1>1, <2>3, PushFacts DEF pushSymbol
      <3>2. /\ s \in expected /\ l \in Int /\ Len(symbolpp) \in Nat /\ i \in 1 .. Len(symbolpp)
            /\ accepting /\ hasSet
        BY <1>1, <2>3, PushFacts DEF ReaderInv, RecInv, Beside
      <3>3. token \notin pending
        <4> SUFFICES ASSUME token \in pending PROVE FALSE
          OBVIOUS
        <4>1. token \in Here /\ token.sym = s
          BY DEF Here
        <4>2. s \in {symbolpp[k] : k \in {k \in 1 .. i - 1 : Chosen(symbolpp[k])}}
          BY <1>1, <4>1 DEF ReaderInv, Pushed
        <4>3. PICK k \in 1 .. i - 1 : symbolpp[k] = symbolpp[i]
          BY <4>2
        <4>4. \A j, m \in 1 .. Len(symbolpp) : symbolpp[j] = symbolpp[m] => j = m
          BY <1>1 DEF ReaderInv, Listed, Busy
        <4> QED
          BY <3>2, <4>3, <4>4
      <3>4. TokenRefused(s, lexeme'.value, l)
        BY <3>1, <3>3 DEF Offer
      <3> QED
        BY <3>2, <3>4 DEF TokenRefused
    <2> QED
      BY <2>1, <2>2, <2>3
  <1>2. ReaderInv /\ [ReaderNext]_readerVars =>
          [ (pc = "pushing" /\ pc' = "idle") =>
              lexeme'.failed \/ lexeme'.value = 0 \/ lexeme'.length <= 0 ]_readerVars
    BY <1>1
  <1> QED
    BY <1>2, ReaderInvariant, PTL DEF ReaderSpec, OnlyBadTokensRefused
=============================================================================
