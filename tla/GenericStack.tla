---------------------------- MODULE GenericStack ----------------------------
(***************************************************************************)
(* src/src/genericStack.c: a stack of pointers to heap copies of the       *)
(* caller's elements, which is also an array (getp, seti) that can grow    *)
(* when it is read or written past its end.                                *)
(*                                                                         *)
(* bufpp is the pointer buffer, heap the element blocks obtained from      *)
(* malloc.  tight says that memory is short: an allocation may then fail,  *)
(* and never fails otherwise.  The growth loop of getp and seti is one     *)
(* step per genericStack_pushi(NULL), so that it can be seen not to end.   *)
(***************************************************************************)
EXTENDS Integers

CONSTANTS
  Blocks,        \* addresses malloc can return for an element
  Values,        \* contents of an element
  NULL, FREE,    \* the null pointer; the contents of a block not allocated
  Index,         \* every index a buffer can have
  Indices,       \* the indices getp and seti are called with
  ElementSizes,  \* the element sizes newp is called with, in bytes
  PtrSize,       \* sizeof(void *)
  MaxSize        \* bound: pushi is called only below this size

ASSUME StackConstants ==
  /\ NULL \notin Blocks /\ NULL \notin Values /\ FREE \notin Values \cup {NULL}
  /\ Index \subseteq Nat /\ Indices \subseteq Index
  /\ ElementSizes \subseteq Nat /\ PtrSize \in Nat \ {0} /\ MaxSize \in Nat

\* Index has every position a push, a get or a set can reach.
ASSUME IndexCovers ==
  /\ 0 .. MaxSize - 1 \subseteq Index
  /\ \A i \in Indices : 0 .. i \subseteq Index

VARIABLES
  stackp,        \* the stack exists
  bufpp,         \* the buffer of pointers, indexed from 0
  allocSizei, stackSizei,
  bufSlots,      \* how many pointers the memory behind bufpp really holds
  optionGrowOnGeti, optionGrowOnSeti,
  heap,          \* contents of every element block
  returned,      \* ghost: blocks popp handed out, not freed since
  call,          \* the getp or seti in progress
  ret,           \* result of the last completed call
  tight          \* memory is short

buffer == <<bufpp, allocSizei, bufSlots>>
options == <<optionGrowOnGeti, optionGrowOnSeti>>
vars == <<stackp, bufpp, allocSizei, stackSizei, bufSlots, optionGrowOnGeti,
          optionGrowOnSeti, heap, returned, call, ret, tight>>

STACK_INIT_SIZE == 4
Slots(n) == 0 .. n - 1
Idle == [op |-> "idle", index |-> 0, elementp |-> NULL]
Calls == {Idle} \cup [op : {"get", "set"}, index : Indices,
                      elementp : Values \cup {NULL}]

\* Contents behind a pointer, as the caller reads it.
Deref(p) == IF p = NULL THEN NULL ELSE heap[p]
Content(i) == IF i \in Slots(allocSizei) THEN Deref(bufpp[i]) ELSE NULL
\* malloc may fail when memory is short, and does when no block is left.
MallocMayFail(h) == tight \/ \A b \in Blocks : h[b] # FREE
SlotBlocks == {bufpp[i] : i \in Slots(allocSizei)} \ {NULL}

TypeOK ==
  /\ stackp \in BOOLEAN /\ tight \in BOOLEAN
  /\ allocSizei \in Nat /\ stackSizei \in Nat /\ bufSlots \in Nat
  /\ bufpp \in [Slots(allocSizei) -> Blocks \cup {NULL}]
  /\ optionGrowOnGeti \in BOOLEAN /\ optionGrowOnSeti \in BOOLEAN
  /\ heap \in [Blocks -> Values \cup {FREE}]
  /\ returned \subseteq Blocks
  /\ call \in Calls
  /\ ret \in Values \cup {NULL, 0, 1}

Init ==
  /\ stackp = FALSE /\ tight \in BOOLEAN
  /\ bufpp = [i \in Slots(0) |-> NULL]
  /\ allocSizei = 0 /\ stackSizei = 0 /\ bufSlots = 0
  /\ optionGrowOnGeti = FALSE /\ optionGrowOnSeti = FALSE
  /\ heap = [b \in Blocks |-> FREE]
  /\ returned = {} /\ call = Idle /\ ret = NULL
-----------------------------------------------------------------------------
(* Creation and destruction                                                *)

newp(elementSizei, growOnGet, growOnSet) ==
  /\ ~stackp /\ elementSizei > 0
  /\ stackp' = TRUE
  /\ bufpp' = [i \in Slots(STACK_INIT_SIZE) |-> NULL]
  /\ allocSizei' = STACK_INIT_SIZE
  /\ stackSizei' = 0
  /\ bufSlots' = (elementSizei * STACK_INIT_SIZE) \div PtrSize
  /\ optionGrowOnGeti' = growOnGet /\ optionGrowOnSeti' = growOnSet
  /\ ret' = 1
  /\ UNCHANGED <<heap, returned, call, tight>>

\* A zero element size, or either malloc failing: NULL, nothing kept.
newpFails(elementSizei) ==
  /\ ~stackp /\ (elementSizei = 0 \/ tight)
  /\ ret' = NULL
  /\ UNCHANGED <<stackp, buffer, stackSizei, options, heap, returned, call, tight>>

\* Every slot of the buffer is released, not only those below stackSizei.
destroyv ==
  /\ stackp /\ call = Idle
  /\ stackp' = FALSE
  /\ heap' = [b \in Blocks |-> IF b \in SlotBlocks THEN FREE ELSE heap[b]]
  /\ returned' = returned \ SlotBlocks
  /\ bufpp' = [i \in Slots(0) |-> NULL]
  /\ allocSizei' = 0 /\ stackSizei' = 0 /\ bufSlots' = 0
  /\ optionGrowOnGeti' = FALSE /\ optionGrowOnSeti' = FALSE
  /\ ret' = NULL
  /\ UNCHANGED <<call, tight>>

\* pushi and seti answer 0, popp and getp NULL, when there is no stack.
callOnNull ==
  /\ ~stackp
  /\ ret' \in {0, NULL}
  /\ UNCHANGED <<stackp, buffer, stackSizei, options, heap, returned, call, tight>>
-----------------------------------------------------------------------------
(* pushi                                                                   *)

Full == stackSizei >= allocSizei
PushAlloc == IF Full THEN 2 * allocSizei ELSE allocSizei

\* Mutant: realloc without copying.
ReservedCleared == [i \in Slots(PushAlloc) |-> NULL]

\* The buffer pushi works in: doubled when full, its new slots NULL.
Reserved == [i \in Slots(PushAlloc) |-> IF i < allocSizei THEN bufpp[i] ELSE NULL]

\* Mutant: the buffer is not reallocated when it is full.
pushStoreInPlace(p) ==
  /\ bufpp' = [Reserved EXCEPT ![stackSizei] = p]
  /\ allocSizei' = PushAlloc /\ stackSizei' = stackSizei + 1
  /\ UNCHANGED bufSlots

pushStore(p) ==
  /\ bufpp' = [Reserved EXCEPT ![stackSizei] = p]
  /\ allocSizei' = PushAlloc
  /\ bufSlots' = IF Full THEN PushAlloc ELSE bufSlots
  /\ stackSizei' = stackSizei + 1

pushi(v) ==
  /\ stackp /\ call = Idle /\ stackSizei < MaxSize
  /\ \/ v = NULL /\ pushStore(NULL) /\ UNCHANGED heap
     \/ /\ v # NULL
        /\ \E b \in Blocks : /\ heap[b] = FREE
                             /\ heap' = [heap EXCEPT ![b] = v]
                             /\ pushStore(b)
  /\ ret' = 1
  /\ UNCHANGED <<stackp, options, returned, call, tight>>

\* realloc fails, and nothing changes; or malloc fails in the grown buffer.
pushiFails(v) ==
  /\ stackp /\ call = Idle /\ stackSizei < MaxSize
  /\ \/ Full /\ tight /\ UNCHANGED buffer
     \/ /\ v # NULL /\ MallocMayFail(heap)
        /\ bufpp' = Reserved /\ allocSizei' = PushAlloc
        /\ bufSlots' = IF Full THEN PushAlloc ELSE bufSlots
  /\ ret' = 0
  /\ UNCHANGED <<stackp, stackSizei, options, heap, returned, call, tight>>
-----------------------------------------------------------------------------
(* popp: the slot keeps its pointer, and the buffer may be halved          *)

\* Mutant: the buffer is halved however full it is.
CanShrinkFull(n) == n <= allocSizei /\ allocSizei >= 8

CanShrink(n) == 2 * n <= allocSizei /\ allocSizei >= 8

poppEmpty ==
  /\ stackp /\ call = Idle /\ stackSizei = 0
  /\ ret' = NULL
  /\ UNCHANGED <<stackp, buffer, stackSizei, options, heap, returned, call, tight>>

popp ==
  /\ stackp /\ call = Idle /\ stackSizei > 0
  /\ ret' = Deref(bufpp[stackSizei - 1])
  /\ returned' = returned \cup ({bufpp[stackSizei - 1]} \ {NULL})
  /\ stackSizei' = stackSizei - 1
  /\ \/ /\ CanShrink(stackSizei - 1)
        /\ allocSizei' = allocSizei \div 2
        /\ bufSlots' = allocSizei \div 2
        /\ bufpp' = [i \in Slots(allocSizei \div 2) |-> bufpp[i]]
     \/ (~CanShrink(stackSizei - 1) \/ tight) /\ UNCHANGED buffer
  /\ UNCHANGED <<stackp, options, heap, call, tight>>
-----------------------------------------------------------------------------
(* getp and seti: growth loop, bound check, access                         *)

beginCall(op, index, v) ==
  /\ stackp /\ call = Idle
  /\ call' = [op |-> op, index |-> index, elementp |-> v]
  /\ UNCHANGED <<stackp, buffer, stackSizei, options, heap, returned, ret, tight>>

MayGrow == IF call.op = "get" THEN optionGrowOnGeti ELSE optionGrowOnSeti
Growing == call # Idle /\ call.index >= allocSizei /\ MayGrow

\* Mutant: the loop pushes only where there is room.
growWithinBuffer ==
  /\ Growing /\ ~Full
  /\ pushStore(NULL)
  /\ UNCHANGED <<stackp, options, heap, returned, call, ret, tight>>

\* One turn of while (index >= allocSizei) genericStack_pushi(NULL).
grow ==
  /\ Growing
  /\ pushStore(NULL)
  /\ UNCHANGED <<stackp, options, heap, returned, call, ret, tight>>

\* The turn whose realloc fails: nothing changes, and the loop goes on.
growFails ==
  /\ Growing /\ Full /\ tight
  /\ UNCHANGED vars

TooSmall == call.index >= stackSizei /\ ~MayGrow

getp ==
  /\ call.op = "get" /\ ~Growing
  /\ ret' = IF TooSmall THEN NULL ELSE Deref(bufpp[call.index])
  /\ call' = Idle
  /\ UNCHANGED <<stackp, buffer, stackSizei, options, heap, returned, tight>>

setiTooSmall ==
  /\ call.op = "set" /\ ~Growing /\ TooSmall
  /\ ret' = 0 /\ call' = Idle
  /\ UNCHANGED <<stackp, buffer, stackSizei, options, heap, returned, tight>>

\* Mutant: seti overwrites the slot without freeing.
ReleasedNothing == heap

\* The heap once seti has released what the slot held.
Released == LET p == bufpp[call.index]
            IN  IF p = NULL THEN heap ELSE [heap EXCEPT ![p] = FREE]

seti ==
  /\ call.op = "set" /\ ~Growing /\ ~TooSmall
  /\ \/ /\ call.elementp = NULL
        /\ heap' = Released
        /\ bufpp' = [bufpp EXCEPT ![call.index] = NULL]
     \/ /\ call.elementp # NULL
        /\ \E b \in Blocks : /\ Released[b] = FREE
                             /\ heap' = [Released EXCEPT ![b] = call.elementp]
                             /\ bufpp' = [bufpp EXCEPT ![call.index] = b]
  /\ returned' = returned \ {bufpp[call.index]}
  /\ stackSizei' = IF stackSizei < call.index + 1 THEN call.index + 1 ELSE stackSizei
  /\ ret' = 1 /\ call' = Idle
  /\ UNCHANGED <<stackp, allocSizei, bufSlots, options, tight>>

\* Mutant: the slot keeps its pointer when malloc fails.
setiFailsKeepsPointer ==
  /\ call.op = "set" /\ ~Growing /\ ~TooSmall
  /\ call.elementp # NULL /\ MallocMayFail(Released)
  /\ heap' = Released
  /\ ret' = 0 /\ call' = Idle
  /\ UNCHANGED <<stackp, buffer, returned, stackSizei, options, tight>>

\* malloc fails after the old element is gone: the slot is left NULL.
setiFails ==
  /\ call.op = "set" /\ ~Growing /\ ~TooSmall
  /\ call.elementp # NULL /\ MallocMayFail(Released)
  /\ heap' = Released
  /\ bufpp' = [bufpp EXCEPT ![call.index] = NULL]
  /\ returned' = returned \ {bufpp[call.index]}
  /\ ret' = 0 /\ call' = Idle
  /\ UNCHANGED <<stackp, allocSizei, bufSlots, stackSizei, options, tight>>
-----------------------------------------------------------------------------
\* The machine runs short of memory, or has some again.
memory ==
  /\ tight' = ~tight
  /\ UNCHANGED <<stackp, buffer, stackSizei, options, heap, returned, call, ret>>

Step == grow \/ getp \/ setiTooSmall \/ seti \/ setiFails

Next ==
  \/ \E e \in ElementSizes : newpFails(e) \/ \E g, s \in BOOLEAN : newp(e, g, s)
  \/ destroyv \/ callOnNull \/ popp \/ poppEmpty
  \/ \E v \in Values \cup {NULL} : pushi(v) \/ pushiFails(v)
  \/ \E i \in Indices : beginCall("get", i, NULL)
  \/ \E i \in Indices, v \in Values \cup {NULL} : beginCall("set", i, v)
  \/ Step \/ growFails \/ memory

Spec == Init /\ [][Next]_vars

\* A call that was entered goes on running; nothing is assumed of its caller.
FairSpec == Spec /\ WF_vars(Step)
-----------------------------------------------------------------------------
(* Properties                                                              *)

\* pushi writes bufpp[stackSizei] and destroyv reads every slot up to
\* allocSizei: the size never passes the allocation, and the allocation never
\* falls under STACK_INIT_SIZE ("allocSizei is always > 0 per def").  Without a
\* stack there is no buffer, and no call is inside one.
SizeFitsBuffer ==
  /\ stackp => stackSizei <= allocSizei /\ STACK_INIT_SIZE <= allocSizei
  /\ ~stackp => allocSizei = 0 /\ stackSizei = 0 /\ call = Idle

\* Every pointer in the buffer is to an allocated block, and no two slots hold
\* the same one: neither seti nor destroyv frees a block twice.
SlotsOwnBlocks ==
  \A i \in Slots(allocSizei) :
     bufpp[i] # NULL =>
       /\ heap[bufpp[i]] # FREE
       /\ \A j \in Slots(allocSizei) : bufpp[j] = bufpp[i] => j = i

\* An element block is in a slot below stackSizei, or popp gave it away:
\* growing, shrinking, failing calls and destroyv lose no other block.
NoLeak ==
  /\ \A b \in Blocks : heap[b] # FREE => b \in SlotBlocks \cup returned
  /\ \A i \in Slots(allocSizei) :
        i >= stackSizei /\ bufpp[i] # NULL => bufpp[i] \in returned

\* The memory behind bufpp holds the allocSizei pointers the code stores in it
\* (newp sizes it with elementSizei, pushi and popp with sizeof(void *)).
BufferHoldsSlots == allocSizei <= bufSlots

\* The stack implements the array of SparseArray.
Array == INSTANCE SparseArray
           WITH live <- stackp, size <- stackSizei,
                val <- [i \in Index |-> Content(i)]
ImplementsArray == Array!Spec

\* The growth loop of getp and seti ends, and the call returns, provided memory
\* is not short for ever (each failed turn of the loop is simply retried).
CallsReturn == <>[](~tight) => (call # Idle ~> call = Idle)
=============================================================================
