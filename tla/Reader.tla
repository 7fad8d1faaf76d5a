------------------------------- MODULE Reader -------------------------------
(***************************************************************************)
(* marpaWrapper_r_recognizeb of src/src/marpaWrapper.c: the loop that asks *)
(* a reader for a position in the input, offers the expected terminals to  *)
(* the lexer there, and pushes those that match, all of them or only the   *)
(* longest ones (LATM).                                                    *)
(*                                                                         *)
(* The callbacks are the environment: the reader moves to a position and   *)
(* may add a symbol to the grammar meanwhile, isLexemeb tells how much of  *)
(* the input at that position a symbol matches, lexemeValueb gives a value *)
(* and a length in earlemes, or refuses.                                   *)
(***************************************************************************)
EXTENDS Recognizer

CONSTANTS SymbolHints,           \* what the options of the symbols say of their size
                                 \* and first character, 0 and -1 when unknown
          Matches,               \* lengths of what a symbol of unknown size matches
          ReaderOptions          \* the options recognizeb is called with

ASSUME ReaderConstants ==
  /\ SymbolHints \subseteq [SymbolIds -> [sizel : Nat, firstChari : Int]]
  /\ Matches \subseteq Nat
  /\ ReaderOptions \subseteq [remainingDataIsOkb : BOOLEAN,
       longestAcceptableTokenMatchb : BOOLEAN,
       longestAcceptableTokensShareTheSameValueAndLengthb : BOOLEAN]

VARIABLES
  hint,           \* one of SymbolHints
  pc,             \* where recognizeb is: idle, reading, checking, pushing or completing
  reader,         \* its options
  text,           \* how much of the input each symbol matches at this position
  symbolpp,       \* the array of expected terminals, in the order they are tried
  i,              \* index in it
  lengthl,        \* what the lexer said of each symbol when it was last asked
  maxLengthl,
  lexeme,         \* the value and the length the lexer gave last; failed: it refused
  answer          \* what recognizeb returned

local == <<reader, hint, text, symbolpp, lengthl, maxLengthl, lexeme>>
readerVars == <<vars, pc, local, i, answer>>

LATM == reader.longestAcceptableTokenMatchb
sizel(s) == hint[s].sizel
firstChari(s) == hint[s].firstChari
NoText == [s \in SymbolIds |-> 0]
NoLexeme == [value |-> 0, length |-> 0, failed |-> FALSE]

\* What the input can be at a position: a symbol of a known size matches all
\* of it or nothing.  What is not expected is not asked about.
CanMatch(s) == {0} \cup CASE s \notin expected -> {}
                          [] s \in expected /\ sizel(s) = 0 -> Matches
                          [] OTHER -> {sizel(s)}
Texts == {m \in [SymbolIds -> UNION {CanMatch(s) : s \in SymbolIds}] :
            \A s \in SymbolIds : m[s] \in CanMatch(s)}

ReaderInit ==
  /\ RecInit
  /\ hint \in SymbolHints /\ pc = "idle" /\ answer = FALSE
  /\ reader \in ReaderOptions /\ text = NoText
  /\ symbolpp = <<>> /\ i = 1 /\ lengthl = [s \in SymbolIds |-> 0]
  /\ maxLengthl = 0 /\ lexeme = NoLexeme

\* Between two positions nothing is left of the local variables; lengthl is a
\* field of the symbols and keeps what the last position left there.
Forget == text' = NoText /\ symbolpp' = <<>> /\ i' = 1 /\ maxLengthl' = 0

\* recognizeb returns.
Return(b) == pc' = "idle" /\ answer' = b /\ Forget

recognizeb(o) ==
  /\ pc = "idle"
  /\ reader' = o
  /\ startb \/ startbTrivial \/ startbFails
  /\ IF ret' THEN pc' = "reading" /\ UNCHANGED answer /\ Forget ELSE Return(FALSE)
  /\ lexeme' = NoLexeme /\ UNCHANGED <<hint, lengthl>>
-----------------------------------------------------------------------------
(* The reader answers                                                      *)

\* The reader stops.  endOfInputb is what it wrote there, or what was in the
\* variable when it writes nothing.
readerStops ==
  /\ pc = "reading"
  /\ \E endOfInputb \in BOOLEAN : Return(endOfInputb \/ reader.remainingDataIsOkb)
  /\ UNCHANGED <<vars, reader, hint, lengthl, lexeme>>

\* The reader adds a symbol that neither option nor rule mentions.
readerAddsSymbol ==
  /\ pc = "reading"
  /\ addSymbolp({}) \/ addSymbolpFails
  /\ UNCHANGED <<rvars, pc, local, i, answer>>

\* _marpaWrapper_symbol_cmp_by_sizelDesc_firstCharDesc: for two symbols of one
\* size without a first character it says that each comes after the other.
cmp_by_sizelDesc_firstCharDesc(a, b) ==
  CASE sizel(a) # sizel(b) -> sizel(b) - sizel(a)
    [] sizel(a) = sizel(b) /\ firstChari(a) < 0 -> 1
    [] sizel(a) = sizel(b) /\ firstChari(a) >= 0 /\ firstChari(b) < 0 -> -1
    [] OTHER -> firstChari(b) - firstChari(a)

Before(a, b) == /\ cmp_by_sizelDesc_firstCharDesc(a, b) < 0
                /\ cmp_by_sizelDesc_firstCharDesc(b, a) > 0

\* The orders in which S is tried: in LATM mode any that qsort can leave, which
\* promises nothing of symbols the comparison does not put in an order; otherwise
\* by id, as libmarpa lists them.
Tried(S) ==
  IF LATM THEN {q \in SetToSeqs(S) : \A m, n \in DOMAIN q : m < n => ~ Before(q[n], q[m])}
  ELSE {q \in SetToSeqs(S) : \A m, n \in DOMAIN q : m < n => q[m] < q[n]}

\* The reader moves on, and the terminals expected there are asked for.
readerReads ==
  /\ pc = "reading" /\ earleme < MaxEarleme
  /\ terminals_expectedb
  /\ IF ret'
     THEN /\ pc' = "checking" /\ UNCHANGED answer
          /\ text' \in Texts /\ symbolpp' \in Tried(expected)
          /\ i' = 1 /\ maxLengthl' = 0
     ELSE Return(FALSE)
  /\ UNCHANGED <<reader, hint, lengthl, lexeme>>
-----------------------------------------------------------------------------
(* The loop over the expected terminals that asks the lexer                *)

\* Mutant: a symbol as long as the longest match so far is skipped too.
SkippedAtLeast(s) == LATM /\ sizel(s) > 0 /\ sizel(s) <= maxLengthl

Skipped(s) == LATM /\ sizel(s) > 0 /\ sizel(s) < maxLengthl

Checked(s) == IF Skipped(s) THEN 0 ELSE text[s]

checkSymbol ==
  /\ pc = "checking"
  /\ IF i <= Len(symbolpp)
     THEN LET s == symbolpp[i]
          IN  /\ lengthl' = [lengthl EXCEPT ![s] = Checked(s)]
              /\ maxLengthl' = IF Checked(s) > maxLengthl THEN Checked(s) ELSE maxLengthl
              /\ i' = i + 1 /\ UNCHANGED <<pc, lexeme>>
     ELSE /\ pc' = IF maxLengthl > 0 THEN "pushing" ELSE "completing"
          /\ i' = 1 /\ lexeme' = NoLexeme
          /\ UNCHANGED <<lengthl, maxLengthl>>
  /\ UNCHANGED <<vars, reader, hint, text, symbolpp, answer>>
-----------------------------------------------------------------------------
(* The loop that pushes those that matched                                 *)

Chosen(s) == IF LATM THEN lengthl[s] = maxLengthl ELSE lengthl[s] > 0

\* lexemeValueb is called unless an earlier symbol gave the value of all.
AsksValue == \/ ~ reader.longestAcceptableTokensShareTheSameValueAndLengthb
             \/ lexeme.value = 0

Lexemes == [value : TokenValues, length : TokenLengths, failed : {FALSE}]

pushSymbol ==
  /\ pc = "pushing" /\ i <= Len(symbolpp) /\ Chosen(symbolpp[i])
  /\ lexeme' \in IF AsksValue THEN Lexemes ELSE {lexeme}
  /\ alternativeb(symbolpp[i], lexeme'.value, lexeme'.length)
  /\ IF ret' THEN i' = i + 1 /\ UNCHANGED <<pc, text, symbolpp, maxLengthl, answer>>
             ELSE Return(FALSE)
  /\ UNCHANGED <<reader, hint, lengthl>>

valueRefused ==
  /\ pc = "pushing" /\ i <= Len(symbolpp) /\ Chosen(symbolpp[i]) /\ AsksValue
  /\ lexeme' = [lexeme EXCEPT !.failed = TRUE] /\ Return(FALSE)
  /\ UNCHANGED <<vars, reader, hint, lengthl>>

passSymbol ==
  /\ pc = "pushing"
  /\ IF i <= Len(symbolpp)
     THEN ~ Chosen(symbolpp[i]) /\ i' = i + 1 /\ UNCHANGED <<pc, lexeme>>
     ELSE pc' = "completing" /\ lexeme' = NoLexeme /\ UNCHANGED i
  /\ UNCHANGED <<vars, reader, hint, text, symbolpp, lengthl, maxLengthl, answer>>

complete ==
  /\ pc = "completing"
  /\ completeb
  /\ IF ret' THEN pc' = "reading" /\ UNCHANGED answer /\ Forget ELSE Return(FALSE)
  /\ UNCHANGED <<reader, hint, lengthl, lexeme>>
-----------------------------------------------------------------------------
\* The caller defines one grammar, with memory for it, and then reads.
define ==
  /\ pc = "idle" /\ ~ recp
  /\ \/ newWrapper
     \/ precomputeb /\ UNCHANGED rvars
     \/ \E opts \in Options : addSymbolp(opts) /\ UNCHANGED rvars
     \/ \E r \in Rules : addRulep(r) /\ UNCHANGED rvars
  /\ UNCHANGED <<pc, local, i, answer>>

ReaderNext ==
  \/ define \/ \E o \in ReaderOptions : recognizeb(o)
  \/ readerStops \/ readerAddsSymbol \/ readerReads
  \/ checkSymbol \/ pushSymbol \/ valueRefused \/ passSymbol \/ complete

ReaderSpec == ReaderInit /\ [][ReaderNext]_readerVars
-----------------------------------------------------------------------------
(* Properties                                                              *)

Here == {t \in pending : t.start = earleme}
Longest(s) == \A u \in expected : text[u] <= text[s]

\* When the earleme is completed, the tokens that begin at it are those of the
\* expected terminals that match the input there: all of them, or with
\* longestAcceptableTokenMatchb exactly the ones with the longest match,
\* whatever qsort makes of a comparison that is no order, whatever is skipped,
\* and whatever the symbols matched at earlier positions.  When they share one
\* value and length they also end together.
LongestPushed ==
  pc = "completing" =>
    /\ {t.sym : t \in Here} = {s \in expected : text[s] > 0 /\ (LATM => Longest(s))}
    /\ reader.longestAcceptableTokensShareTheSameValueAndLengthb =>
         \A t, u \in Here : t.end = u.end

\* A token the loop pushes is refused for nothing but the value or the length
\* the lexer gave it: never as a duplicate, nor because it is not expected any
\* more when its turn comes.
OnlyBadTokensRefused ==
  [][ (pc = "pushing" /\ pc' = "idle") =>
        lexeme'.failed \/ lexeme'.value = 0 \/ lexeme'.length <= 0 ]_readerVars
=============================================================================
