----------------------------- MODULE MarpaNooks -----------------------------
(***************************************************************************)
(* marpa_t_next with its loops taken one turn at a time: the stack of      *)
(* nooks is iterated from its end and expanded again, until a tree is      *)
(* finished or none is left.                                               *)
(*                                                                         *)
(* MarpaTree has the same computation as operators, for the model of a     *)
(* whole parse. Here the bocage is any and-or graph, so that what the      *)
(* iterator returns can be proved for every bocage and every ordering.     *)
(***************************************************************************)
EXTENDS Integers, Sequences, FiniteSets

CONSTANTS Bocages,     \* ordered bocages
          MaxPaused    \* bound: valuators of a tree at one time

Roles == {"cause", "pred"}
Ors(bocage) == 1 .. bocage.or_count
Ands(bocage) == 1 .. bocage.and_count

\* The cause of an and-node is an or-node or, as 0, a token; its predecessor is
\* an or-node or, as 0, NULL. The order of an or-node has one or more of its
\* and-nodes: all of them, or those with the highest rank.
ASSUME NookConstants ==
  /\ MaxPaused \in Nat
  /\ \A bocage \in Bocages :
       /\ bocage.or_count \in Nat /\ bocage.and_count \in Nat /\ bocage.nulling \in BOOLEAN
       /\ ~bocage.nulling => bocage.top \in Ors(bocage)
       /\ bocage.and \in [Ands(bocage) -> [or : Ors(bocage), cause : 0 .. bocage.or_count,
                                           pred : 0 .. bocage.or_count]]
       /\ bocage.order \in [Ors(bocage) -> Seq(Ands(bocage))]
       /\ \A or \in Ors(bocage) :
            /\ bocage.order[or] # <<>>
            /\ \A i, j \in DOMAIN bocage.order[or] :
                 /\ bocage.and[bocage.order[or][i]].or = or
                 /\ bocage.order[or][i] = bocage.order[or][j] => i = j

VARIABLES
  b,           \* the bocage, which stays as it is
  at,          \* where the call is
  nooks,       \* t_nook_stack
  inUse,       \* t_or_node_in_use
  work,        \* t_nook_worklist
  parseCount, exhausted, paused,
  ret,         \* what the last call returned
  seen         \* history: the trees returned so far

nookVars == <<b, at, nooks, inUse, work, parseCount, exhausted, paused, ret, seen>>
tree == <<nooks, inUse, work>>

and_order_ix_is_valid(o, or, choice) == choice <= Len(o.order[or])
and_order_get(o, or, choice) == o.order[or][choice]

\* What hangs below an or-node for which a choice is made; 0 is nothing.
Child(o, or, choice, role) ==
  IF role = "cause" THEN o.and[and_order_get(o, or, choice)].cause
  ELSE o.and[and_order_get(o, or, choice)].pred

nook(or, parent, role) ==
  [or |-> or, choice |-> 1, parent |-> parent, role |-> role, expanded |-> {}]

\* The choice made at each or-node of a stack.
TreeOf(ns) == [or \in {ns[k].or : k \in DOMAIN ns} |->
                 ns[CHOOSE k \in DOMAIN ns : ns[k].or = or].choice]

NookInit ==
  /\ b \in Bocages
  /\ at = "idle" /\ nooks = <<>> /\ inUse = {} /\ work = <<>>
  /\ parseCount = 0 /\ exhausted = FALSE /\ paused = 0 /\ ret = 0 /\ seen = {}

(***************************************************************************)
(* A call of marpa_t_next.                                                 *)
(***************************************************************************)
refuseCall ==
  /\ at = "idle" /\ (paused > 0 \/ exhausted)
  /\ ret' = IF paused > 0 THEN -2 ELSE -1
  /\ UNCHANGED <<b, at, tree, parseCount, exhausted, paused, seen>>

\* The one tree of a parse of nothing has no nooks.
nullingTree ==
  /\ at = "idle" /\ paused = 0 /\ ~exhausted /\ b.nulling /\ parseCount < 1
  /\ parseCount' = parseCount + 1 /\ ret' = 0 /\ seen' = seen \cup {TreeOf(nooks)}
  /\ UNCHANGED <<b, at, tree, exhausted, paused>>

tree_exhaust ==
  /\ nooks' = <<>> /\ inUse' = {} /\ work' = <<>> /\ exhausted' = TRUE
  /\ at' = "idle" /\ ret' = -1
nullingEnd ==
  /\ at = "idle" /\ paused = 0 /\ ~exhausted /\ b.nulling /\ parseCount >= 1
  /\ tree_exhaust
  /\ UNCHANGED <<b, parseCount, paused, seen>>

beginCall ==
  /\ at = "idle" /\ paused = 0 /\ ~exhausted /\ ~b.nulling
  /\ at' = IF parseCount < 1 THEN "first" ELSE "iterate"
  /\ UNCHANGED <<b, tree, parseCount, exhausted, paused, ret, seen>>

\* Every nook is put on the worklist; the last is looked at first.
expandAll == work' = [k \in DOMAIN nooks' |-> k] /\ at' = "expand"

firstNook ==
  /\ at = "first" /\ and_order_ix_is_valid(b, b.top, 1)
  /\ nooks' = Append(nooks, nook(b.top, 0, "top")) /\ inUse' = inUse \cup {b.top}
  /\ expandAll
  /\ UNCHANGED <<b, parseCount, exhausted, paused, ret, seen>>

top == nooks[Len(nooks)]
HasNextChoice == and_order_ix_is_valid(b, top.or, top.choice + 1)

nextChoice ==
  /\ at = "iterate" /\ nooks # <<>> /\ HasNextChoice
  /\ nooks' = [nooks EXCEPT ![Len(nooks)].choice = @ + 1, ![Len(nooks)].expanded = {}]
  /\ expandAll
  /\ UNCHANGED <<b, inUse, parseCount, exhausted, paused, ret, seen>>

\* Mutant: the or-node of a dropped nook stays in use.
dropNookInUse ==
  /\ at = "iterate" /\ nooks # <<>> /\ ~HasNextChoice
  /\ nooks' = [k \in 1 .. Len(nooks) - 1 |->
                 IF k = top.parent THEN [nooks[k] EXCEPT !.expanded = @ \ {top.role}] ELSE nooks[k]]
  /\ UNCHANGED <<b, at, inUse, work, parseCount, exhausted, paused, ret, seen>>

\* Mutant: what the nook hung on still counts as expanded.
dropNookExpanded ==
  /\ at = "iterate" /\ nooks # <<>> /\ ~HasNextChoice
  /\ nooks' = SubSeq(nooks, 1, Len(nooks) - 1)
  /\ inUse' = inUse \ {top.or}
  /\ UNCHANGED <<b, at, work, parseCount, exhausted, paused, ret, seen>>

\* What the nook hung on has to be expanded again, in this role.
dropNook ==
  /\ at = "iterate" /\ nooks # <<>> /\ ~HasNextChoice
  /\ nooks' = [k \in 1 .. Len(nooks) - 1 |->
                 IF k = top.parent THEN [nooks[k] EXCEPT !.expanded = @ \ {top.role}] ELSE nooks[k]]
  /\ inUse' = inUse \ {top.or}
  /\ UNCHANGED <<b, at, work, parseCount, exhausted, paused, ret, seen>>

noTreeLeft ==
  /\ (at = "iterate" /\ nooks = <<>>) \/ (at = "first" /\ ~and_order_ix_is_valid(b, b.top, 1))
  /\ tree_exhaust
  /\ UNCHANGED <<b, parseCount, paused, seen>>

\* The nook on top of the worklist, and what it still needs: its cause first.
workNook == work[Len(work)]
Needs(k, role) == role \notin nooks[k].expanded /\ Child(b, nooks[k].or, nooks[k].choice, role) # 0
nextRole(k) == IF Needs(k, "cause") THEN "cause" ELSE IF Needs(k, "pred") THEN "pred" ELSE "none"
childOf(k) == Child(b, nooks[k].or, nooks[k].choice, nextRole(k))
CanTry(or) == or \notin inUse /\ and_order_ix_is_valid(b, or, 1)
expandedBefore(role) == IF role = "pred" THEN {"cause"} ELSE {}

\* Mutant: an expanded nook stays on the worklist.
nookDoneStays ==
  /\ at = "expand" /\ work # <<>> /\ nextRole(workNook) = "none"
  /\ nooks' = [nooks EXCEPT ![workNook].expanded = Roles]
  /\ UNCHANGED <<b, at, inUse, work, parseCount, exhausted, paused, ret, seen>>

nookDone ==
  /\ at = "expand" /\ work # <<>> /\ nextRole(workNook) = "none"
  /\ nooks' = [nooks EXCEPT ![workNook].expanded = Roles]
  /\ work' = SubSeq(work, 1, Len(work) - 1)
  /\ UNCHANGED <<b, at, inUse, parseCount, exhausted, paused, ret, seen>>

childNook ==
  /\ at = "expand" /\ work # <<>> /\ nextRole(workNook) # "none" /\ CanTry(childOf(workNook))
  /\ LET role == nextRole(workNook)
         marked == [nooks EXCEPT ![workNook].expanded = @ \cup expandedBefore(role) \cup {role}]
     IN  nooks' = Append(marked, nook(childOf(workNook), workNook, role))
  /\ inUse' = inUse \cup {childOf(workNook)}
  /\ work' = Append(work, Len(nooks) + 1)
  /\ UNCHANGED <<b, at, parseCount, exhausted, paused, ret, seen>>

\* A tree has an or-node once: what is in use cannot hang in a second place.
giveUp ==
  /\ at = "expand" /\ work # <<>> /\ nextRole(workNook) # "none" /\ ~CanTry(childOf(workNook))
  /\ nooks' = [nooks EXCEPT ![workNook].expanded = @ \cup expandedBefore(nextRole(workNook))]
  /\ inUse' = inUse \cup {childOf(workNook)}
  /\ at' = "iterate"
  /\ UNCHANGED <<b, work, parseCount, exhausted, paused, ret, seen>>

finishTree ==
  /\ at = "expand" /\ work = <<>>
  /\ at' = "idle" /\ parseCount' = parseCount + 1 /\ ret' = Len(nooks)
  /\ seen' = seen \cup {TreeOf(nooks)}
  /\ UNCHANGED <<b, tree, exhausted, paused>>

\* A valuator holds the tree from marpa_v_new until it is freed.
tree_pause ==
  /\ at = "idle" /\ parseCount > 0 /\ ~exhausted /\ paused < MaxPaused
  /\ paused' = paused + 1
  /\ UNCHANGED <<b, at, tree, parseCount, exhausted, ret, seen>>
tree_unpause ==
  /\ at = "idle" /\ paused > 0
  /\ paused' = paused - 1
  /\ UNCHANGED <<b, at, tree, parseCount, exhausted, ret, seen>>

InCall == firstNook \/ nextChoice \/ dropNook \/ noTreeLeft \/ nookDone \/ childNook
          \/ giveUp \/ finishTree
NookNext == \/ refuseCall \/ nullingTree \/ nullingEnd \/ beginCall
            \/ tree_pause \/ tree_unpause \/ InCall

NookSpec == NookInit /\ [][NookNext]_nookVars /\ WF_nookVars(InCall)

(***************************************************************************)
(* Reference: the trees of a bocage.                                       *)
(***************************************************************************)
\* A tree makes a choice at each of its or-nodes. The first is the root, what the
\* choices ask for is there, each or-node but the root hangs in one place, and
\* nothing is there that does not hang below the root.
IsTree(o, f) ==
  /\ DOMAIN f \subseteq Ors(o) /\ o.top \in DOMAIN f
  /\ \A s \in DOMAIN f : f[s] \in DOMAIN o.order[s]
  /\ \A s \in DOMAIN f, r \in Roles : Child(o, s, f[s], r) \in (DOMAIN f \cup {0}) \ {o.top}
  /\ \A s, q \in DOMAIN f, r, p \in Roles :
       Child(o, s, f[s], r) = Child(o, q, f[q], p) /\ Child(o, s, f[s], r) # 0 => s = q /\ r = p
  /\ \A C \in SUBSET DOMAIN f :
       o.top \in C /\ (\A s \in C, r \in Roles : Child(o, s, f[s], r) \in C \cup {0})
         => C = DOMAIN f
ChoicesOf(o) == UNION {DOMAIN o.order[or] : or \in Ors(o)}
Trees(o) == IF o.nulling THEN {<<>>}
            ELSE {f \in UNION {[S -> ChoicesOf(o)] : S \in SUBSET Ors(o)} : IsTree(o, f)}

(***************************************************************************)
(* Properties.                                                             *)
(***************************************************************************)
\* Types of the stacks and counters.
NookTypeOK ==
  /\ at \in {"idle", "first", "iterate", "expand"}
  /\ nooks \in Seq([or : Ors(b), choice : Nat, parent : Nat, role : Roles \cup {"top"},
                    expanded : SUBSET Roles])
  /\ inUse \subseteq Ors(b) /\ work \in Seq(Nat)
  /\ parseCount \in Nat /\ exhausted \in BOOLEAN /\ paused \in 0 .. MaxPaused

\* The nook stack and the worklist are allocated with one place per and-node and
\* pushed without a test: they have room.
NookRoom == Len(nooks) <= b.and_count /\ Len(work) <= b.and_count

\* An or-node is marked as in use exactly while a nook has it: a tree that was
\* given up half way leaves no mark that would hide a later tree.
InUseExact == inUse = {nooks[k].or : k \in DOMAIN nooks}

\* What a call returns is a whole tree of the bocage, also after nooks of earlier
\* trees were dropped and their parents expanded again.
TreesWhole == seen \subseteq Trees(b)

\* No tree is returned twice.
NoTreeTwice == parseCount = Cardinality(seen)

\* When the iterator says that it is exhausted, every tree was returned.
NoTreeMissed == exhausted => Trees(b) \subseteq seen

\* The stacks of marpa_t_next are sound after every turn of its loops: inside their
\* allocation, and in agreement with the bits of the or-nodes in use.
NooksSound == NookTypeOK /\ NookRoom /\ InUseExact

\* marpa_t_next returns the trees of the bocage, all of them, whole and once each.
TreesOnceEach == TreesWhole /\ NoTreeTwice /\ NoTreeMissed

\* While a valuator holds the tree, its nooks stay.
PausedTreeStays == [][paused > 0 => UNCHANGED <<nooks, inUse, parseCount, seen>>]_nookVars

\* Every call returns, however many trees it gives up before it finds one.
CallReturns == at # "idle" ~> at = "idle"
=============================================================================
