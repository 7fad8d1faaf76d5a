----------------------------- MODULE ManageBuf -----------------------------
(***************************************************************************)
(* src/src/manageBuf.c: the growing arrays of pointers in which            *)
(* marpaWrapper keeps its symbols, rules and progress items, indexed by    *)
(* the ids libmarpa hands out.                                             *)
(*                                                                         *)
(* A table is a record: pp, what the caller's pointer is worth; size, the  *)
(* allocated number of slots; used, the caller's high-water mark; entry,   *)
(* the slots that are not NULL; leak, whether a block became unreachable.  *)
(***************************************************************************)
EXTENDS Integers

CONSTANTS FirstSize,    \* slots of a first allocation (100 in the code)
          Capacities    \* the sizes repeated doubling can reach

ASSUME TableConstants ==
  /\ Capacities \subseteq Nat /\ FirstSize \in Capacities /\ FirstSize > 0
  /\ \A c \in Capacities : c = FirstSize \/ \E d \in Capacities : c = 2 * d
  /\ \A c \in Capacities : FirstSize <= c

NoTable == [pp |-> "null", size |-> 0, used |-> 0, entry |-> {}, leak |-> FALSE]

Tables == [pp : {"null", "live", "dangling"}, size : Nat, used : Nat,
           entry : SUBSET Nat, leak : BOOLEAN]

\* The size at which the doubling loop stops.
Fits(wanted) == {n \in Capacities : /\ n >= wanted
                                    /\ \A m \in Capacities : m >= wanted => n <= m}

\* manageBuf_createp succeeds: room for wanted slots, the new ones NULL.
createp(t, wanted) ==
  IF wanted <= t.size THEN {t}
  ELSE {[t EXCEPT !.pp = "live", !.size = n] : n \in Fits(wanted)}

\* Mutant: the old block is freed before the new one is there.
createpFailsEmpty(t, wanted) ==
  IF wanted <= t.size THEN {}
  ELSE {IF t.size > 0 THEN [t EXCEPT !.pp = "dangling"] ELSE t}

\* manageBuf_createp fails.  The first allocation of the loop failing changes
\* nothing.  A later one failing leaves *ppp as it was: it then points to a
\* block an earlier turn may have moved and freed, or, when there was no table
\* yet, the block of the first turn is lost.
createpFails(t, wanted) ==
  IF wanted <= t.size THEN {}
  ELSE {t} \cup
       (IF t.size > 0 /\ wanted > 2 * t.size THEN {[t EXCEPT !.pp = "dangling"]} ELSE {})
       \cup
       (IF t.size = 0 /\ wanted > FirstSize THEN {[t EXCEPT !.leak = TRUE]} ELSE {})

\* What the callers do with a fresh slot: store the block, move the mark.
store(t, i) == [t EXCEPT !.entry = @ \cup {i}, !.used = i + 1]

\* manageBuf_freev frees the blocks of the slots below used, then the table,
\* and resets the caller's pointer, size and mark.  Blocks it does not reach
\* are still allocated when it is done.
freev(t) == [NoTable EXCEPT !.entry = {i \in t.entry : i >= t.used}]

\* What the users of a table rely on: the mark is inside the allocation, and
\* freev's walk up to the mark reaches every block.
Sound(t) == /\ t.used <= t.size
            /\ \A i \in t.entry : i < t.used
            /\ t.pp = "null" <=> t.size = 0

\* The damage createpFails can do needs a run of lost ids as long as the table:
\* n is the number of ids given out so far.
DamageOnlyAfterBacklog(t, n) ==
  /\ t.pp = "dangling" =>
       \A i \in t.size .. 2 * t.size - 1 : i < n /\ i \notin t.entry
  /\ t.leak => \A i \in 0 .. FirstSize - 1 : i < n /\ i \notin t.entry
=============================================================================
