----------------------------- MODULE Progress -----------------------------
(***************************************************************************)
(* marpaWrapper_r_progressb of src/src/marpaWrapper.c: the progress items  *)
(* of a range of Earley sets are copied from libmarpa's reports, one set   *)
(* after the other, to the wrapper's table, sorted and handed out.         *)
(*                                                                         *)
(* What a report of libmarpa holds is MarpaRecce's; here the sets and what *)
(* is reported of each are arbitrary. A recognizer that has no Earley set  *)
(* (its grammar has the empty parse only) is not here: libmarpa's          *)
(* marpa_r_latest_earley_set follows a null pointer then. Neither is a     *)
(* rule without an entry in the wrapper's table (RulesKnown of Grammar).   *)
(***************************************************************************)
EXTENDS Integers, Sequences, Functions, ManageBuf

CONSTANTS Reports,   \* what libmarpa can report of an Earley set
          MaxSets    \* bound on the Earley sets of one recognizer

\* The tree behind a report holds an item once.
ASSUME ProgressConstants ==
  /\ Reports \subseteq Seq([rule : Nat, position : Int, origin : Nat])
  /\ \A rep \in Reports : IsInjective(rep)
  /\ MaxSets \in Nat \ {0}

VARIABLES
  stage,         \* "none" without a recognizer, "idle" between calls, or
                 \* where a call is: "set", "item" or "finish"
  sets,          \* what libmarpa reports of each Earley set
  report,        \* the open report: its set, and how many items were read
  progressTab,   \* marpaWrapperProgresspp, its size and its used mark
  slots,         \* the items in the slots of progressTab that are not NULL
  firstSet,      \* the range of the call
  lastSet,
  setId,         \* marpaEarleySetIdi
  nItems,        \* nMarpaWrapperProgressi, the local count
  rcb            \* in a call its rcb, between calls what the last one answered

progressVars == <<stage, sets, report, progressTab, slots, firstSet, lastSet, setId, nItems, rcb>>

NoReport == [set |-> -1, read |-> 0]
Latest == Len(sets) - 1
ItemsOf(s) == sets[s + 1]

ProgressInit ==
  /\ stage = "none" /\ sets = <<>> /\ report = NoReport
  /\ progressTab = NoTable /\ slots = <<>>
  /\ firstSet = 0 /\ lastSet = 0 /\ setId = 0 /\ nItems = 0 /\ rcb = FALSE

\* freev on the wrapper's table of items.
FreeProgress ==
  /\ progressTab' = freev(progressTab)
  /\ slots' = [i \in freev(progressTab).entry |-> slots[i]]
-----------------------------------------------------------------------------
(* What happens between calls: startb replaces the recognizer, and the     *)
(* open report goes with the old one while the table stays; completeb may  *)
(* add an Earley set; destroyv frees everything.                           *)

startbProgress(rep) ==
  /\ stage \in {"none", "idle"}
  /\ stage' = "idle" /\ sets' = <<rep>> /\ report' = NoReport /\ rcb' = FALSE
  /\ UNCHANGED <<progressTab, slots, firstSet, lastSet, setId, nItems>>

completebProgress(rep) ==
  /\ stage = "idle" /\ Len(sets) < MaxSets
  /\ sets' = Append(sets, rep)
  /\ UNCHANGED <<stage, report, progressTab, slots, firstSet, lastSet, setId, nItems, rcb>>

destroyvProgress ==
  /\ stage = "idle"
  /\ FreeProgress
  /\ stage' = "none" /\ sets' = <<>> /\ report' = NoReport /\ rcb' = FALSE
  /\ UNCHANGED <<firstSet, lastSet, setId, nItems>>
-----------------------------------------------------------------------------
(* The call.                                                               *)

\* A negative index counts from the end.
Normal(i) == IF i < 0 THEN i + Latest + 1 ELSE i
InRange(i) == 0 <= Normal(i) /\ Normal(i) <= Latest

\* Mutant: the items of the last call stay in the table.
progressbKeeps(starti, endi) ==
  /\ stage = "idle"
  /\ InRange(starti) /\ InRange(endi) /\ Normal(starti) <= Normal(endi)
  /\ UNCHANGED <<progressTab, slots>>
  /\ firstSet' = Normal(starti) /\ lastSet' = Normal(endi)
  /\ setId' = Normal(starti) /\ nItems' = 0 /\ rcb' = TRUE
  /\ stage' = "set"
  /\ UNCHANGED <<sets, report>>

progressb(starti, endi) ==
  /\ stage = "idle"
  /\ InRange(starti) /\ InRange(endi) /\ Normal(starti) <= Normal(endi)
  /\ FreeProgress
  /\ firstSet' = Normal(starti) /\ lastSet' = Normal(endi)
  /\ setId' = Normal(starti) /\ nItems' = 0 /\ rcb' = TRUE
  /\ stage' = "set"
  /\ UNCHANGED <<sets, report>>

\* A range that makes no sense is refused when the table is freed already.
progressbRefused(starti, endi) ==
  /\ stage = "idle"
  /\ ~(InRange(starti) /\ InRange(endi) /\ Normal(starti) <= Normal(endi))
  /\ FreeProgress
  /\ rcb' = FALSE
  /\ UNCHANGED <<stage, sets, report, firstSet, lastSet, setId, nItems>>

\* marpa_r_progress_report_start drops the report that is open.
reportStart ==
  /\ stage = "set" /\ setId <= lastSet
  /\ report' = [set |-> setId, read |-> 0] /\ stage' = "item"
  /\ UNCHANGED <<sets, progressTab, slots, firstSet, lastSet, setId, nItems, rcb>>

\* marpa_r_progress_item has one more item for the call.
MoreItems == stage = "item" /\ report.read < Len(ItemsOf(setId))
ReadItem == report' = [report EXCEPT !.read = @ + 1]
Item == [set |-> setId, item |-> ItemsOf(setId)[report.read + 1]]

item ==
  /\ MoreItems /\ ReadItem
  /\ \E t \in createp(progressTab, nItems + 1) : progressTab' = store(t, nItems)
  /\ slots' = [i \in DOMAIN slots \cup {nItems} |-> IF i = nItems THEN Item ELSE slots[i]]
  /\ nItems' = nItems + 1
  /\ UNCHANGED <<stage, sets, firstSet, lastSet, setId, rcb>>

\* No room in the table: the call goes on to the end of the report.
itemNoRoom ==
  /\ MoreItems /\ ReadItem
  /\ progressTab' \in createpFails(progressTab, nItems + 1)
  /\ rcb' = FALSE /\ stage' = "finish"
  /\ UNCHANGED <<sets, slots, firstSet, lastSet, setId, nItems>>

\* No memory for the item: the call returns at once and the report stays open.
itemNoBlock ==
  /\ MoreItems /\ ReadItem
  /\ progressTab' \in createp(progressTab, nItems + 1)
  /\ rcb' = FALSE /\ stage' = "idle"
  /\ UNCHANGED <<sets, slots, firstSet, lastSet, setId, nItems>>

setDone ==
  /\ stage = "item" /\ ~MoreItems
  /\ setId' = setId + 1 /\ stage' = "set"
  /\ UNCHANGED <<sets, report, progressTab, slots, firstSet, lastSet, nItems, rcb>>

setsDone ==
  /\ stage = "set" /\ setId > lastSet
  /\ stage' = "finish"
  /\ UNCHANGED <<sets, report, progressTab, slots, firstSet, lastSet, setId, nItems, rcb>>

\* _marpaWrapper_progress_cmp: does a not come after b?
progress_cmp(a, b) ==
  \/ a.item.rule < b.item.rule
  \/ a.item.rule = b.item.rule /\ a.item.position <= b.item.position

Ordered(f) == \A i, j \in DOMAIN f : i < j => progress_cmp(f[i], f[j])

\* What qsort may make of the table: it is not stable.
Permuted(f) == {[i \in DOMAIN f |-> f[p[i]]] : p \in Bijection(DOMAIN f, DOMAIN f)}
Sorts(f) == {h \in Permuted(f) : Ordered(h)}

\* The report is finished on the way out, and the items are sorted if all
\* went well.
finish ==
  /\ stage = "finish"
  /\ report' = NoReport /\ stage' = "idle"
  /\ slots' \in IF rcb THEN Sorts(slots) ELSE {slots}
  /\ UNCHANGED <<sets, progressTab, firstSet, lastSet, setId, nItems, rcb>>

ProgressNext ==
  \/ \E rep \in Reports : startbProgress(rep) \/ completebProgress(rep)
  \/ destroyvProgress
  \/ \E starti, endi \in -(MaxSets + 1) .. MaxSets :
       progressb(starti, endi) \/ progressbRefused(starti, endi)
  \/ reportStart \/ item \/ itemNoRoom \/ itemNoBlock \/ setDone \/ setsDone \/ finish

ProgressSpec == ProgressInit /\ [][ProgressNext]_progressVars
-----------------------------------------------------------------------------
(* Properties                                                              *)

ProgressTypeOK ==
  /\ stage \in {"none", "idle", "set", "item", "finish"}
  /\ sets \in Seq(Reports)
  /\ report \in [set : Int, read : Nat]
  /\ progressTab \in Tables
  /\ DOMAIN slots = progressTab.entry
  /\ firstSet \in Nat /\ lastSet \in Nat /\ setId \in Nat /\ nItems \in Nat
  /\ rcb \in BOOLEAN

\* The table of items can be walked and freed whatever failed before: a call
\* stores into empty slots and moves the mark by one, so that manageBuf_createp
\* never has to double twice and can neither lose a block nor leave a pointer
\* to a freed one.
ProgressTableSound ==
  /\ Sound(progressTab) /\ progressTab.pp # "dangling" /\ ~progressTab.leak
  /\ stage \in {"set", "item", "finish"} => progressTab.used = nItems

\* The first k items libmarpa reports of a set, and all those of a range of sets.
ItemsRead(s, k) == {[set |-> s, item |-> ItemsOf(s)[j]] : j \in 1 .. k}
ItemsOfSets(lo, hi) == UNION {ItemsRead(s, Len(ItemsOf(s))) : s \in lo .. hi}

\* The items in the table.
Copied == {slots[i] : i \in DOMAIN slots}

\* A call that answered TRUE handed out each item of each set of its range
\* once, and nothing else, in order of rule and position: nothing is left of an
\* earlier call that failed on the way with its report open.
HandedOutWhole ==
  stage = "idle" /\ rcb =>
    /\ progressTab.entry = 0 .. progressTab.used - 1
    /\ Copied = ItemsOfSets(firstSet, lastSet) /\ IsInjective(slots)
    /\ Ordered(slots)

\* Between calls a report is open only after a call that answered FALSE.
OpenOnlyAfterFailure == stage = "idle" /\ rcb => report = NoReport

\* Whatever allocations failed in earlier calls of progressb, and although one of
\* them leaves its report open, the table of items is sound and a call that
\* answers TRUE hands out the progress of its range of Earley sets exactly.
ProgressWhole ==
  ProgressTypeOK /\ ProgressTableSound /\ HandedOutWhole /\ OpenOnlyAfterFailure
=============================================================================
