------------------------------- MODULE Logger -------------------------------
(***************************************************************************)
(* One line of log from the wrapper to the screen: _marpaWrapper_log and   *)
(* _marpaWrapper_logExt of src/src/marpaWrapper.c, genericLogger_log and   *)
(* the default callback of src/src/genericLogger.c, and the buffers that   *)
(* messageBuilder.c and dateBuilder.c allocate for them.                   *)
(*                                                                         *)
(* Each function on the way builds a text in a buffer of its own, or uses  *)
(* a static text instead, and frees the buffer on the way back. A text is  *)
(* modelled by its length.                                                 *)
(***************************************************************************)
EXTENDS Integers, Sequences

CONSTANTS Levels,        \* the log levels in use
          ERROR, WARNING,
          Lengths,       \* lengths of what the default callback writes
          MaxErrors      \* bound on the failures of write in one call: no
                         \* write that fails for ever

ASSUME LoggerConstants ==
  /\ Levels \subseteq Nat /\ {ERROR, WARNING} \subseteq Levels
  /\ Lengths \subseteq Nat /\ MaxErrors \in Nat

\* The functions that hold a text.
Holders == {"log", "logExt", "generic", "date", "line"}

VARIABLES
  logger,        \* the logger object: its level and whether it has a callback
  pc,            \* the function that runs next, "idle" between calls
  level,         \* the level of the message
  text,          \* what each function holds: none, its buffer or a static text
  heap,          \* the buffers that are allocated
  lost,          \* buffers nothing points to any more
  count, bytesWriten,
  output,        \* the bytes written, by their place in the line
  errors         \* failures of write since the call began

loggerVars == <<logger, pc, level, text, heap, lost, count, bytesWriten, output, errors>>
lineVars == <<count, bytesWriten, output, errors>>

NoLogger == [made |-> FALSE, level |-> WARNING, callback |-> FALSE]
NoText == [h \in Holders |-> "none"]

LoggerInit ==
  /\ logger = NoLogger /\ pc = "idle" /\ level = WARNING
  /\ text = NoText /\ heap = {} /\ lost = {}
  /\ count = 0 /\ bytesWriten = 0 /\ output = <<>> /\ errors = 0
-----------------------------------------------------------------------------
(* The logger object                                                       *)

\* malloc may fail: NULL is a logger with the default callback and level.
genericLogger_newp(l, callback) ==
  /\ pc = "idle" /\ ~ logger.made
  /\ logger' \in {NoLogger, [made |-> TRUE, level |-> l, callback |-> callback]}
  /\ UNCHANGED <<pc, level, text, heap, lost, lineVars>>

genericLogger_logLevel_seti(l) ==
  /\ pc = "idle" /\ logger.made
  /\ logger' = [logger EXCEPT !.level = l]
  /\ UNCHANGED <<pc, level, text, heap, lost, lineVars>>

genericLogger_freev ==
  /\ pc = "idle" /\ logger.made
  /\ logger' = NoLogger
  /\ UNCHANGED <<pc, level, text, heap, lost, lineVars>>
-----------------------------------------------------------------------------
(* Texts                                                                   *)

\* messageBuilder_ap: a buffer that is made larger once, or, when memory or
\* vsnprintf fails, no buffer and the static text "Internal error".
messageBuilder_ap(h) ==
  \/ text' = [text EXCEPT ![h] = "buffer"] /\ heap' = heap \cup {h}
  \/ text' = [text EXCEPT ![h] = "static"] /\ UNCHANGED heap

\* Mutant: the comparison with the static text is the wrong way round.
FreeStatic(H) == /\ text' = [h \in Holders |-> IF h \in H THEN "none" ELSE text[h]]
              /\ heap' = heap \ {h \in H : text[h] = "static"}

\* A text is freed when it is not a static one.
Free(H) == /\ text' = [h \in Holders |-> IF h \in H THEN "none" ELSE text[h]]
           /\ heap' = heap \ {h \in H : text[h] = "buffer"}
-----------------------------------------------------------------------------
(* The way in                                                              *)

\* _marpaWrapper_log formats the caller's message.
marpaWrapper_log(l) ==
  /\ pc = "idle"
  /\ messageBuilder_ap("log") /\ level' = l /\ pc' = "logExt"
  /\ count' = 0 /\ bytesWriten' = 0 /\ output' = <<>> /\ errors' = 0
  /\ UNCHANGED <<logger, lost>>

\* _marpaWrapper_logExt adds what the error number means; when it cannot, its
\* "Internal error" is an error whatever the message was.
marpaWrapper_logExt ==
  /\ pc = "logExt"
  /\ messageBuilder_ap("logExt") /\ pc' = "generic"
  /\ level' = IF text'["logExt"] = "static" THEN ERROR ELSE level
  /\ UNCHANGED <<logger, lost, lineVars>>

\* genericLogger_log drops what is below the level of the logger, formats, and
\* calls the callback.  A callback of the user's returns at once here.
genericLogger_log ==
  /\ pc = "generic"
  /\ \/ level < logger.level /\ pc' = "logExtEnd" /\ UNCHANGED <<text, heap, level>>
     \/ /\ level >= logger.level
        /\ messageBuilder_ap("generic")
        /\ level' = IF text'["generic"] = "static" THEN ERROR ELSE level
        /\ pc' = IF logger.callback THEN "genericEnd" ELSE "date"
  /\ UNCHANGED <<logger, lost, lineVars>>

\* dateBuilder: when localtime or strftime fails the static text takes the place
\* of the buffer, which stays allocated.
dateBuilder ==
  /\ pc = "date"
  /\ \/ messageBuilder_ap("date") /\ UNCHANGED lost
     \/ text' = [text EXCEPT !["date"] = "static"] /\ lost' = lost \cup {"date"} /\ UNCHANGED heap
  /\ pc' = "line" /\ UNCHANGED <<logger, level, lineVars>>

defaultCallback ==
  /\ pc = "line"
  /\ messageBuilder_ap("line")
  /\ count' \in Lengths /\ bytesWriten' = 0 /\ pc' = "write"
  /\ UNCHANGED <<logger, level, lost, output, errors>>
-----------------------------------------------------------------------------
(* The loop around write and the way out                                   *)

\* Mutant: one turn too many.
MoreToWriteAgain == 0 <= bytesWriten /\ bytesWriten <= count

\* bytesWriten is signed and count is not: -1 is compared as the largest number.
MoreToWrite == 0 <= bytesWriten /\ bytesWriten < count

\* Mutant: a failure is counted as a byte.
AddedOne(n) == bytesWriten + (IF n = -1 THEN 1 ELSE n)

\* The answer of write is added, the -1 of a failure too.
Added(n) == bytesWriten + n

\* write takes some of what is left, or fails.
write ==
  /\ pc = "write" /\ MoreToWrite
  /\ \E n \in {-1} \cup (IF bytesWriten = count THEN {0} ELSE 1 .. count - bytesWriten) :
       /\ n = -1 => errors < MaxErrors
       /\ errors' = IF n = -1 THEN errors + 1 ELSE errors
       /\ output' = output \o [k \in 1 .. (IF n = -1 THEN 0 ELSE n) |-> bytesWriten + k]
       /\ bytesWriten' = Added(n)
  /\ UNCHANGED <<logger, pc, level, text, heap, lost, count>>

defaultCallbackEnd ==
  /\ pc = "write" /\ ~ MoreToWrite
  /\ Free({"date", "line"}) /\ pc' = "genericEnd"
  /\ UNCHANGED <<logger, level, lost, lineVars>>

genericLogger_logEnd ==
  /\ pc = "genericEnd"
  /\ Free({"generic"}) /\ pc' = "logExtEnd"
  /\ UNCHANGED <<logger, level, lost, lineVars>>

marpaWrapper_logEnd ==
  /\ pc = "logExtEnd"
  /\ Free({"logExt", "log"}) /\ pc' = "idle"
  /\ UNCHANGED <<logger, level, lost, lineVars>>
-----------------------------------------------------------------------------
Step ==
  \/ marpaWrapper_logExt \/ genericLogger_log \/ dateBuilder \/ defaultCallback
  \/ write \/ defaultCallbackEnd \/ genericLogger_logEnd \/ marpaWrapper_logEnd

LoggerNext ==
  \/ \E l \in Levels, c \in BOOLEAN : genericLogger_newp(l, c)
  \/ \E l \in Levels : genericLogger_logLevel_seti(l) \/ marpaWrapper_log(l)
  \/ genericLogger_freev \/ Step

\* A call that has begun goes on.
LoggerSpec == LoggerInit /\ [][LoggerNext]_loggerVars /\ WF_loggerVars(Step)
-----------------------------------------------------------------------------
(* Properties                                                              *)

\* When a line is logged every buffer made for it is free again, whichever of
\* the five allocations failed and whatever the logger, and no static text was
\* freed; the one buffer that can be lost is the one of a date that could not
\* be made.
BuffersReleased ==
  /\ \A h \in Holders : h \in heap <=> text[h] = "buffer"
  /\ pc = "idle" => heap = {} /\ lost \subseteq {"date"}

\* The line is written from its first byte on without a gap, and is written to
\* its end unless write failed more often than it wrote bytes: adding -1 makes
\* the loop write a byte twice but skip none.
LineWhole ==
  /\ \A k \in 1 .. Len(output) - 1 : output[k + 1] <= output[k] + 1
  /\ output # <<>> => output[1] = 1
  /\ (pc = "genericEnd" /\ errors <= Len(output) /\ count > 0) =>
        output # <<>> /\ output[Len(output)] = count

\* A call to log ends when write fails only so often: failures that alternate
\* with written bytes could keep the loop going.
LogReturns == (pc # "idle") ~> (pc = "idle")
=============================================================================
