---------------------------- MODULE SparseArray ----------------------------
(***************************************************************************)
(* What genericStack promises to its caller: an array indexed from 0 whose *)
(* unset entries read NULL, a size, and calls that either take effect or   *)
(* report failure.  Nothing here knows of buffers, doubling or heap        *)
(* blocks; GenericStack is shown to implement this specification.          *)
(*                                                                         *)
(* Entries at or above size are reachable through a stack that grows on    *)
(* get: a popped entry keeps its value there until it is forgotten, and    *)
(* the array does not say when that happens.                               *)
(***************************************************************************)
EXTENDS Integers

CONSTANTS Index,    \* the indices a caller can name
          Values,   \* element contents
          NULL

VARIABLES live,     \* the stack exists
          val,      \* contents, NULL where nothing was set
          size,     \* number of entries
          ret       \* result of the last completed call

vars == <<live, val, size, ret>>

Empty == [i \in Index |-> NULL]

Init == live = FALSE /\ val = Empty /\ size = 0 /\ ret = NULL

New == ~live /\ live' = TRUE /\ val' = Empty /\ size' = 0 /\ ret' = 1

Destroy == live /\ live' = FALSE /\ val' = Empty /\ size' = 0 /\ ret' = NULL

\* A call that fails, or asks nothing of the array, changes nothing.
Refuse == ret' \in {0, NULL} /\ UNCHANGED <<live, val, size>>

Push(v) == /\ live
           /\ val' = [val EXCEPT ![size] = v]
           /\ size' = size + 1
           /\ ret' = 1
           /\ UNCHANGED live

\* The top entry is returned; an entry out of the array may be forgotten.
Pop == /\ live /\ size > 0
       /\ ret' = val[size - 1]
       /\ size' = size - 1
       /\ \A i \in Index : \/ val'[i] = val[i]
                           \/ i >= size - 1 /\ val'[i] = NULL
       /\ UNCHANGED live

Get(i) == live /\ ret' = val[i] /\ UNCHANGED <<live, val, size>>

\* Growing on behalf of a get or a set appends an unset entry.
Grow == /\ live
        /\ val' = [val EXCEPT ![size] = NULL]
        /\ size' = size + 1
        /\ UNCHANGED <<live, ret>>

Set(i, v) == /\ live
             /\ val' = [val EXCEPT ![i] = v]
             /\ size' = IF size < i + 1 THEN i + 1 ELSE size
             /\ ret' = 1
             /\ UNCHANGED live

\* A set that runs out of memory has already dropped the old contents.
SetFails(i) == /\ live
               /\ val' = [val EXCEPT ![i] = NULL]
               /\ ret' = 0
               /\ UNCHANGED <<live, size>>

Next == \/ New \/ Destroy \/ Refuse \/ Pop \/ Grow
        \/ \E v \in Values \cup {NULL} : Push(v)
        \/ \E i \in Index : Get(i) \/ SetFails(i)
        \/ \E i \in Index, v \in Values \cup {NULL} : Set(i, v)

Spec == Init /\ [][Next]_vars
=============================================================================
