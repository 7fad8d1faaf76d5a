---------------------------- MODULE LoggerProofs ----------------------------
(***************************************************************************)
(* For every set of levels and line lengths and every number of failures:  *)
(* the buffers of a log line are released, and the line is written without *)
(* a gap.                                                                  *)
(*                                                                         *)
(* That nothing is left at the end needs to know what each function on the *)
(* way can hold (HeldOnTheWay).  That no byte is skipped needs what the    *)
(* loop around write keeps: the count it works with is the bytes written   *)
(* less the failures, and is never ahead of the last byte written          *)
(* (WriteLoop).                                                            *)
(***************************************************************************)
EXTENDS Logger, TLAPS

\* The functions that can hold a text when the one that runs next is at pc.
HoldersAt(where) ==
  CASE where = "idle" -> {}
    [] where = "logExt" -> {"log"}
    [] where \in {"generic", "logExtEnd"} -> {"log", "logExt"}
    [] where \in {"date", "genericEnd"} -> {"log", "logExt", "generic"}
    [] where = "line" -> {"log", "logExt", "generic", "date"}
    [] where = "write" -> Holders

LoggerTypeOK ==
  /\ logger \in [made : BOOLEAN, level : Levels, callback : BOOLEAN]
  /\ pc \in {"idle", "logExt", "generic", "date", "line", "write", "genericEnd", "logExtEnd"}
  /\ level \in Levels
  /\ text \in [Holders -> {"none", "buffer", "static"}]
  /\ heap \subseteq Holders /\ lost \subseteq {"date"}
  /\ count \in Nat /\ bytesWriten \in Int /\ output \in Seq(Int) /\ errors \in Nat

\* A function holds no text before it has run and after it has returned.
HeldOnTheWay == \A h \in Holders : text[h] # "none" => h \in HoldersAt(pc)

\* A buffer is allocated as long as a function holds it.
HeldIsAllocated == \A h \in Holders : h \in heap <=> text[h] = "buffer"

BufferInv == LoggerTypeOK /\ HeldOnTheWay /\ HeldIsAllocated

\* A text is made for a function that is next on the way.
LEMMA TextMade ==
  ASSUME BufferInv, NEW h \in Holders, messageBuilder_ap(h),
         h \in HoldersAt(pc'), HoldersAt(pc) \subseteq HoldersAt(pc')
  PROVE  /\ text' \in [Holders -> {"none", "buffer", "static"}] /\ heap' \subseteq Holders
         /\ text'[h] \in {"buffer", "static"}
         /\ \A g \in Holders : h \notin HoldersAt(pc) => (g \in heap' <=> text'[g] = "buffer")
         /\ \A g \in Holders : text'[g] # "none" => g \in HoldersAt(pc')
  BY DEF BufferInv, LoggerTypeOK, HeldOnTheWay, HeldIsAllocated, messageBuilder_ap

\* Texts are freed by the functions that return.
LEMMA TextsFreed ==
  ASSUME BufferInv, NEW H \in SUBSET Holders, Free(H), HoldersAt(pc) \ H \subseteq HoldersAt(pc')
  PROVE  /\ text' \in [Holders -> {"none", "buffer", "static"}] /\ heap' \subseteq Holders
         /\ \A g \in Holders : g \in heap' <=> text'[g] = "buffer"
         /\ \A g \in Holders : text'[g] # "none" => g \in HoldersAt(pc')
  BY DEF BufferInv, LoggerTypeOK, HeldOnTheWay, HeldIsAllocated, Free

\* No text is held before the first call.
LEMMA BufferInit == LoggerInit => BufferInv
  BY LoggerConstants
  DEF LoggerInit, NoLogger, NoText, BufferInv, LoggerTypeOK, HeldOnTheWay, HeldIsAllocated

\* A step that makes or frees no text.
LEMMA QuietLogger ==
  ASSUME BufferInv, UNCHANGED <<pc, text, heap>>, LoggerTypeOK'
  PROVE  BufferInv'
  BY DEF BufferInv, HeldOnTheWay, HeldIsAllocated

\* Every step keeps texts and buffers in agreement.
LEMMA BufferStep == BufferInv /\ [LoggerNext]_loggerVars => BufferInv'
  <1> SUFFICES ASSUME BufferInv, [LoggerNext]_loggerVars PROVE BufferInv'
    OBVIOUS
  <1> USE LoggerConstants
  <1>0. LoggerTypeOK
    BY DEF BufferInv
  <1>1. ASSUME NEW l \in Levels, NEW c \in BOOLEAN, genericLogger_newp(l, c) PROVE BufferInv'
    <2>0. logger' \in [made : BOOLEAN, level : Levels, callback : BOOLEAN]
      <3>1. NoLogger \in [made : BOOLEAN, level : Levels, callback : BOOLEAN]
        BY DEF NoLogger
      <3>2. [made |-> TRUE, level |-> l, callback |-> c]
              \in [made : BOOLEAN, level : Levels, callback : BOOLEAN]
        OBVIOUS
      <3> QED
        BY <1>1, <3>1, <3>2 DEF genericLogger_newp
    <2>1. LoggerTypeOK'
      BY <1>0, <1>1, <2>0 DEF genericLogger_newp, lineVars, LoggerTypeOK
    <2> QED
      BY <1>1, <2>1, QuietLogger DEF genericLogger_newp
  <1>2. ASSUME NEW l \in Levels, genericLogger_logLevel_seti(l) PROVE BufferInv'
    <2>1. LoggerTypeOK'
      BY <1>0, <1>2 DEF genericLogger_logLevel_seti, lineVars, LoggerTypeOK
    <2> QED
      BY <1>2, <2>1, QuietLogger DEF genericLogger_logLevel_seti
  <1>3. CASE genericLogger_freev
    <2>1. LoggerTypeOK'
      BY <1>0, <1>3 DEF genericLogger_freev, NoLogger, lineVars, LoggerTypeOK
    <2> QED
      BY <1>3, <2>1, QuietLogger DEF genericLogger_freev
  <1>4. ASSUME NEW l \in Levels, marpaWrapper_log(l) PROVE BufferInv'
    <2>1. "log" \in HoldersAt(pc') /\ HoldersAt(pc) \subseteq HoldersAt(pc') /\ "log" \in Holders
          /\ "log" \notin HoldersAt(pc)
      BY <1>4 DEF marpaWrapper_log, HoldersAt, Holders
    <2>2. LoggerTypeOK'
      BY <1>0, <1>4, <2>1, TextMade DEF marpaWrapper_log, LoggerTypeOK
    <2> QED
      BY <1>4, <2>1, <2>2, TextMade
      DEF marpaWrapper_log, BufferInv, HeldOnTheWay, HeldIsAllocated
  <1>5. CASE marpaWrapper_logExt
    <2>1. "logExt" \in HoldersAt(pc') /\ HoldersAt(pc) \subseteq HoldersAt(pc')
          /\ "logExt" \in Holders /\ "logExt" \notin HoldersAt(pc)
      BY <1>5 DEF marpaWrapper_logExt, HoldersAt, Holders
    <2>2. LoggerTypeOK'
      BY <1>0, <1>5, <2>1, TextMade DEF marpaWrapper_logExt, lineVars, LoggerTypeOK
    <2> QED
      BY <1>5, <2>1, <2>2, TextMade
      DEF marpaWrapper_logExt, BufferInv, HeldOnTheWay, HeldIsAllocated
  <1>6. CASE genericLogger_log
    <2>1. CASE level < logger.level
      <3>0. pc = "generic" /\ pc' = "logExtEnd" /\ UNCHANGED <<text, heap, level>>
        <4>1. level \in Nat /\ logger.level \in Nat
          BY <1>0 DEF LoggerTypeOK
        <4>2. ~(level >= logger.level)
          BY <2>1, <4>1
        <4> QED
          BY <1>6, <4>2 DEF genericLogger_log
      <3>1. HoldersAt(pc) = HoldersAt(pc')
        BY <3>0 DEF HoldersAt
      <3>2. LoggerTypeOK'
        BY <1>0, <1>6, <3>0 DEF genericLogger_log, lineVars, LoggerTypeOK
      <3> QED
        BY <3>0, <3>1, <3>2 DEF BufferInv, HeldOnTheWay, HeldIsAllocated
    <2>2. CASE ~(level < logger.level)
      <3>0. messageBuilder_ap("generic") /\ pc = "generic" /\ pc' \in {"date", "genericEnd"}
            /\ level' \in {level, ERROR}
        BY <1>6, <2>2 DEF genericLogger_log
      <3>1. "generic" \in HoldersAt(pc') /\ HoldersAt(pc) \subseteq HoldersAt(pc')
            /\ "generic" \in Holders /\ "generic" \notin HoldersAt(pc)
        BY <3>0 DEF HoldersAt, Holders
      <3>2. LoggerTypeOK'
        BY <1>0, <1>6, <3>0, <3>1, TextMade DEF genericLogger_log, lineVars, LoggerTypeOK
      <3> QED
        BY <3>0, <3>1, <3>2, TextMade DEF BufferInv, HeldOnTheWay, HeldIsAllocated
    <2> QED
      BY <2>1, <2>2
  <1>7. CASE dateBuilder
    <2>1. "date" \in HoldersAt(pc') /\ HoldersAt(pc) \subseteq HoldersAt(pc')
          /\ "date" \in Holders /\ "date" \notin HoldersAt(pc)
      BY <1>7 DEF dateBuilder, HoldersAt, Holders
    <2>2. CASE messageBuilder_ap("date") /\ UNCHANGED lost
      <3>1. LoggerTypeOK'
        BY <1>0, <1>7, <2>1, <2>2, TextMade DEF dateBuilder, lineVars, LoggerTypeOK
      <3> QED
        BY <2>1, <2>2, <3>1, TextMade DEF BufferInv, HeldOnTheWay, HeldIsAllocated
    <2>3. CASE /\ text' = [text EXCEPT !["date"] = "static"]
               /\ lost' = lost \cup {"date"} /\ UNCHANGED heap
      <3>1. LoggerTypeOK'
        BY <1>0, <1>7, <2>1, <2>3 DEF dateBuilder, lineVars, LoggerTypeOK
      <3>2. text["date"] = "none"
        BY <2>1 DEF BufferInv, HeldOnTheWay
      <3>3. HeldOnTheWay' /\ HeldIsAllocated'
        BY <1>0, <2>1, <2>3, <3>2 DEF BufferInv, LoggerTypeOK, HeldOnTheWay, HeldIsAllocated
      <3> QED
        BY <3>1, <3>3 DEF BufferInv
    <2> QED
      BY <1>7, <2>2, <2>3 DEF dateBuilder
  <1>8. CASE defaultCallback
    <2>1. "line" \in HoldersAt(pc') /\ HoldersAt(pc) \subseteq HoldersAt(pc')
          /\ "line" \in Holders /\ "line" \notin HoldersAt(pc)
      BY <1>8 DEF defaultCallback, HoldersAt, Holders
    <2>2. LoggerTypeOK'
      BY <1>0, <1>8, <2>1, TextMade DEF defaultCallback, LoggerTypeOK
    <2> QED
      BY <1>8, <2>1, <2>2, TextMade
      DEF defaultCallback, BufferInv, HeldOnTheWay, HeldIsAllocated
  <1>9. CASE write
    <2>1. LoggerTypeOK'
      <3>1. PICK n \in {-1} \cup (IF bytesWriten = count THEN {0} ELSE 1 .. count - bytesWriten) :
              /\ errors' = IF n = -1 THEN errors + 1 ELSE errors
              /\ output' = output \o [k \in 1 .. (IF n = -1 THEN 0 ELSE n) |-> bytesWriten + k]
              /\ bytesWriten' = Added(n)
        BY <1>9 DEF write
      <3>2. n \in Int /\ (IF n = -1 THEN 0 ELSE n) \in Nat
        BY <1>0 DEF LoggerTypeOK
      <3>3. [k \in 1 .. (IF n = -1 THEN 0 ELSE n) |-> bytesWriten + k] \in Seq(Int)
        BY <1>0, <3>2 DEF LoggerTypeOK
      <3> QED
        BY <1>0, <1>9, <3>1, <3>2, <3>3 DEF write, Added, LoggerTypeOK
    <2> QED
      BY <1>9, <2>1, QuietLogger DEF write
  <1>10. CASE defaultCallbackEnd
    <2>1. Free({"date", "line"}) /\ {"date", "line"} \in SUBSET Holders
          /\ HoldersAt(pc) \ {"date", "line"} \subseteq HoldersAt(pc')
      BY <1>10 DEF defaultCallbackEnd, HoldersAt, Holders
    <2>2. LoggerTypeOK'
      BY <1>0, <1>10, <2>1, TextsFreed DEF defaultCallbackEnd, lineVars, LoggerTypeOK
    <2> QED
      BY <2>1, <2>2, TextsFreed DEF BufferInv, HeldOnTheWay, HeldIsAllocated
  <1>11. CASE genericLogger_logEnd
    <2>1. Free({"generic"}) /\ {"generic"} \in SUBSET Holders
          /\ HoldersAt(pc) \ {"generic"} \subseteq HoldersAt(pc')
      BY <1>11 DEF genericLogger_logEnd, HoldersAt, Holders
    <2>2. LoggerTypeOK'
      BY <1>0, <1>11, <2>1, TextsFreed DEF genericLogger_logEnd, lineVars, LoggerTypeOK
    <2> QED
      BY <2>1, <2>2, TextsFreed DEF BufferInv, HeldOnTheWay, HeldIsAllocated
  <1>12. CASE marpaWrapper_logEnd
    <2>1. Free({"logExt", "log"}) /\ {"logExt", "log"} \in SUBSET Holders
          /\ HoldersAt(pc) \ {"logExt", "log"} \subseteq HoldersAt(pc')
      BY <1>12 DEF marpaWrapper_logEnd, HoldersAt, Holders
    <2>2. LoggerTypeOK'
      BY <1>0, <1>12, <2>1, TextsFreed DEF marpaWrapper_logEnd, lineVars, LoggerTypeOK
    <2> QED
      BY <2>1, <2>2, TextsFreed DEF BufferInv, HeldOnTheWay, HeldIsAllocated
  <1>13. CASE UNCHANGED loggerVars
    BY <1>13 DEF loggerVars, BufferInv, LoggerTypeOK, HeldOnTheWay, HeldIsAllocated
  <1> QED
    BY <1>1, <1>2, <1>3, <1>4, <1>5, <1>6, <1>7, <1>8, <1>9, <1>10, <1>11, <1>12, <1>13
    DEF LoggerNext, Step

\* Texts and buffers agree in every reachable state.
LEMMA BufferInvariant == LoggerSpec => []BufferInv
  BY BufferInit, BufferStep, PTL DEF LoggerSpec

\* Whichever of the five allocations of a log line fail, every buffer made for
\* it is freed when _marpaWrapper_log returns, no static text is, and only the
\* buffer of a date that could not be made is lost.
THEOREM LogReleases == LoggerSpec => []BuffersReleased
  <1>1. BufferInv => BuffersReleased
    BY DEF BufferInv, LoggerTypeOK, HeldOnTheWay, HeldIsAllocated, HoldersAt, BuffersReleased
  <1> QED
    BY <1>1, BufferInvariant, PTL
-----------------------------------------------------------------------------
(* The line                                                                *)

\* Nothing is written before the loop is entered.
NotWritten == count = 0 /\ bytesWriten = 0 /\ output = <<>> /\ errors = 0

\* What was written follows on from its beginning, byte after byte or going
\* back, and not beyond the end of the line.
NoGap ==
  /\ \A k \in 1 .. Len(output) - 1 : output[k + 1] <= output[k] + 1
  /\ output # <<>> => output[1] = 1 /\ output[Len(output)] <= count

\* bytesWriten is what was written less the failures, and not ahead of the last
\* byte written.
WriteLoop ==
  /\ bytesWriten = Len(output) - errors /\ bytesWriten <= count
  /\ output # <<>> => bytesWriten <= output[Len(output)]

\* How the loop was left.
Written == errors <= Len(output) /\ count > 0 => output # <<>> /\ output[Len(output)] = count

LineInv ==
  /\ NoGap
  /\ pc \in {"logExt", "generic", "date", "line"} => NotWritten
  /\ pc = "write" => WriteLoop
  /\ pc = "genericEnd" => Written

\* What is appended to a text of numbers.
LEMMA Appended ==
  ASSUME NEW a \in Seq(Int), NEW b \in Seq(Int)
  PROVE  /\ Len(a \o b) = Len(a) + Len(b)
         /\ \A k \in 1 .. Len(a) : (a \o b)[k] = a[k]
         /\ \A k \in 1 .. Len(b) : (a \o b)[Len(a) + k] = b[k]
  OBVIOUS

\* One call of write that takes m bytes, or fails.
LEMMA WriteStep ==
  ASSUME LoggerTypeOK, LineInv, write
  PROVE  LineInv'
  <1>1. pc = "write" /\ pc' = "write" /\ 0 <= bytesWriten /\ bytesWriten < count
        /\ NoGap /\ WriteLoop /\ count' = count
    BY DEF write, MoreToWrite, LineInv
  <1> USE DEF LoggerTypeOK
  <1>2. PICK n \in {-1} \cup (IF bytesWriten = count THEN {0} ELSE 1 .. count - bytesWriten) :
          /\ errors' = IF n = -1 THEN errors + 1 ELSE errors
          /\ output' = output \o [k \in 1 .. (IF n = -1 THEN 0 ELSE n) |-> bytesWriten + k]
          /\ bytesWriten' = Added(n)
    BY DEF write
  <1>3. CASE n = -1
    <2>1. [k \in 1 .. 0 |-> bytesWriten + k] = <<>>
      OBVIOUS
    <2>2. output' = output /\ errors' = errors + 1 /\ bytesWriten' = bytesWriten - 1
      BY <1>2, <1>3, <2>1 DEF Added
    <2>3. NoGap' /\ WriteLoop'
      BY <1>1, <2>2 DEF NoGap, WriteLoop
    <2> QED
      BY <1>1, <2>3 DEF LineInv
  <1>4. CASE n # -1
    <2> DEFINE s == [k \in 1 .. n |-> bytesWriten + k]
    <2>1. n \in Nat /\ 1 <= n /\ n <= count - bytesWriten
      BY <1>1, <1>2, <1>4
    <2>2. s \in Seq(Int) /\ Len(s) = n /\ \A k \in 1 .. n : s[k] = bytesWriten + k
      BY <2>1
    <2>3. output' = output \o s /\ errors' = errors /\ bytesWriten' = bytesWriten + n
      BY <1>2, <1>4 DEF Added
    <2> HIDE DEF s
    <2>a. output \in Seq(Int) /\ Len(output) \in Nat /\ bytesWriten \in Int
      OBVIOUS
    <2>b. Len(output') = Len(output) + n
      <3>1. Len(output \o s) = Len(output) + Len(s)
        BY <2>2, <2>a, Appended
      <3> QED
        BY <2>2, <2>3, <3>1
    <2>c. \A k \in 1 .. Len(output) : output'[k] = output[k]
      BY <2>1, <2>2, <2>3, <2>a
    <2>d. \A k \in 1 .. n : output'[Len(output) + k] = bytesWriten + k
      <3> SUFFICES ASSUME NEW k \in 1 .. n PROVE output'[Len(output) + k] = bytesWriten + k
        OBVIOUS
      <3>1. (output \o s)[Len(output) + k] = s[k]
        BY <2>1, <2>2, <2>a
      <3> QED
        BY <2>2, <2>3, <3>1
    <2>4. /\ Len(output') = Len(output) + n /\ output' # <<>>
          /\ \A k \in 1 .. Len(output) : output'[k] = output[k]
          /\ \A k \in 1 .. n : output'[Len(output) + k] = bytesWriten + k
      BY <2>1, <2>a, <2>b, <2>c, <2>d
    <2>5. output = <<>> => bytesWriten = 0
      BY <1>1 DEF WriteLoop
    <2>6. \A k \in 1 .. Len(output') - 1 : output'[k + 1] <= output'[k] + 1
      <3> SUFFICES ASSUME NEW k \in 1 .. Len(output') - 1
                   PROVE  output'[k + 1] <= output'[k] + 1
        OBVIOUS
      <3>1. CASE k < Len(output)
        <4>1. k \in 1 .. Len(output) - 1 /\ k \in 1 .. Len(output) /\ k + 1 \in 1 .. Len(output)
          BY <2>1, <2>4, <2>a, <3>1
        <4> QED
          BY <1>1, <2>4, <4>1 DEF NoGap
      <3>2. CASE k = Len(output)
        <4>1. output'[k + 1] = bytesWriten + 1 /\ output'[k] = output[k] /\ output # <<>>
          BY <2>1, <2>4, <3>2
        <4> QED
          BY <1>1, <3>2, <4>1 DEF WriteLoop
      <3>3. CASE k > Len(output)
        <4> DEFINE j == k - Len(output)
        <4>1. j \in 1 .. n /\ j + 1 \in 1 .. n /\ k = Len(output) + j
              /\ k + 1 = Len(output) + (j + 1)
          BY <2>1, <2>4, <3>3
        <4>2. output'[k] = bytesWriten + j /\ output'[k + 1] = bytesWriten + (j + 1)
          BY <2>4, <4>1
        <4> QED
          BY <4>1, <4>2
      <3> QED
        BY <3>1, <3>2, <3>3
    <2>7. output'[1] = 1
      <3>1. CASE output = <<>>
        BY <2>1, <2>4, <2>5, <3>1
      <3>2. CASE output # <<>>
        BY <1>1, <2>4, <3>2 DEF NoGap
      <3> QED
        BY <3>1, <3>2
    <2>8. output'[Len(output')] = bytesWriten'
      BY <2>1, <2>3, <2>4
    <2>9. NoGap' /\ WriteLoop'
      <3>1. bytesWriten' = Len(output') - errors' /\ bytesWriten' <= count'
        BY <1>1, <2>1, <2>3, <2>4, <2>a DEF WriteLoop
      <3>2. WriteLoop'
        <4>1. bytesWriten' <= output'[Len(output')]
          BY <2>1, <2>3, <2>8, <2>a
        <4> QED
          BY <3>1, <4>1 DEF WriteLoop
      <3>3. NoGap'
        BY <2>6, <2>7, <2>8, <3>1 DEF NoGap
      <3> QED
        BY <3>2, <3>3
    <2> QED
      BY <1>1, <2>9 DEF LineInv
  <1> QED
    BY <1>3, <1>4

\* When the loop is left, bytesWriten is negative or the line is complete.
LEMMA LoopLeft ==
  ASSUME LoggerTypeOK, WriteLoop, NoGap, ~MoreToWrite
  PROVE  Written
  <1> SUFFICES ASSUME errors <= Len(output), count > 0
               PROVE  output # <<>> /\ output[Len(output)] = count
    BY DEF Written
  <1>1. bytesWriten = count
    BY DEF LoggerTypeOK, WriteLoop, MoreToWrite
  <1>2. output # <<>>
    BY <1>1 DEF LoggerTypeOK, WriteLoop
  <1>3. output[Len(output)] \in Int
    BY <1>2 DEF LoggerTypeOK
  <1> QED
    BY <1>1, <1>2, <1>3 DEF LoggerTypeOK, WriteLoop, NoGap

\* Every step of a call keeps what was written whole.
LEMMA LineStep == LoggerTypeOK /\ LineInv /\ [LoggerNext]_loggerVars => LineInv'
  <1> SUFFICES ASSUME LoggerTypeOK, LineInv, [LoggerNext]_loggerVars PROVE LineInv'
    OBVIOUS
  <1>1. ASSUME UNCHANGED <<pc, count, bytesWriten, output, errors>> PROVE LineInv'
    BY <1>1 DEF LineInv, NoGap, NotWritten, WriteLoop, Written
  <1>2. ASSUME NEW l \in Levels, marpaWrapper_log(l) PROVE LineInv'
    BY <1>2 DEF marpaWrapper_log, LineInv, NoGap, NotWritten
  <1>3. CASE marpaWrapper_logExt
    BY <1>3 DEF marpaWrapper_logExt, lineVars, LineInv, NoGap, NotWritten
  <1>4. CASE genericLogger_log
    BY <1>4 DEF genericLogger_log, lineVars, LineInv, NoGap, NotWritten, Written
  <1>5. CASE dateBuilder
    BY <1>5 DEF dateBuilder, lineVars, LineInv, NoGap, NotWritten
  <1>6. CASE defaultCallback
    <2>1. count' \in Nat /\ bytesWriten' = 0 /\ output' = <<>> /\ errors' = 0 /\ pc' = "write"
      BY <1>6, LoggerConstants DEF defaultCallback, LineInv, NotWritten
    <2>2. NoGap' /\ WriteLoop'
      BY <2>1 DEF NoGap, WriteLoop
    <2> QED
      BY <2>1, <2>2 DEF LineInv
  <1>7. CASE write
    BY <1>7, WriteStep
  <1>8. CASE defaultCallbackEnd
    <2>1. Written
      BY <1>8, LoopLeft DEF defaultCallbackEnd, LineInv
    <2> QED
      BY <1>8, <2>1 DEF defaultCallbackEnd, lineVars, LineInv, NoGap, Written
  <1>9. CASE genericLogger_logEnd \/ marpaWrapper_logEnd
    BY <1>9 DEF genericLogger_logEnd, marpaWrapper_logEnd, lineVars, LineInv, NoGap
  <1> QED
    BY <1>1, <1>2, <1>3, <1>4, <1>5, <1>6, <1>7, <1>8, <1>9
    DEF LoggerNext, Step, loggerVars, lineVars, genericLogger_newp, genericLogger_logLevel_seti,
        genericLogger_freev

\* The loop around write skips no byte of a line whatever its length and however
\* often write fails or stops short, and writes it to its end unless the
\* failures outnumber the bytes written.
THEOREM LogWritesLine == LoggerSpec => []LineWhole
  <1>1. LoggerInit => LineInv
    BY DEF LoggerInit, LineInv, NoGap
  <1>2. LineInv => LineWhole
    BY DEF LineInv, NoGap, Written, LineWhole
  <1>3. BufferInv => LoggerTypeOK
    BY DEF BufferInv
  <1> QED
    BY <1>1, <1>2, <1>3, LineStep, BufferInvariant, PTL DEF LoggerSpec
=============================================================================
