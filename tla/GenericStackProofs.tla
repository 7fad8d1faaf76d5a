------------------------- MODULE GenericStackProofs -------------------------
(***************************************************************************)
(* For every set of blocks, values and indices: the buffer of a stack has  *)
(* room for its size, every slot owns its block, and no block is lost      *)
(* except through popp.  The three are proved together, because each needs *)
(* the others: a slot can only be overwritten without a leak when it is    *)
(* known to lie inside the buffer and, above the size, to be NULL or       *)
(* already given away. The second part shows that genericStack.c           *)
(* implements the array of SparseArray.                                    *)
(***************************************************************************)
EXTENDS GenericStack, TLAPS

StackInv == TypeOK /\ SizeFitsBuffer /\ SlotsOwnBlocks /\ NoLeak

\* The initial state has no stack and no allocated block.
LEMMA InitStack == Init => StackInv
  <1> SUFFICES ASSUME Init PROVE StackInv
    OBVIOUS
  <1> USE StackConstants DEF Init, Slots
  <1>1. TypeOK
    BY DEF TypeOK, Calls
  <1>2. SizeFitsBuffer
    BY DEF SizeFitsBuffer
  <1>3. SlotsOwnBlocks /\ NoLeak
    BY DEF SlotsOwnBlocks, NoLeak
  <1> QED
    BY <1>1, <1>2, <1>3 DEF StackInv

\* newp starts from an all-NULL buffer, so it owns no block; those still
\* allocated were given away by popp on an earlier stack.
LEMMA NewStack ==
  ASSUME StackInv, NEW e \in ElementSizes, NEW g \in BOOLEAN, NEW s \in BOOLEAN,
         newp(e, g, s)
  PROVE  StackInv'
  <1> USE StackConstants DEF StackInv, newp, Slots, STACK_INIT_SIZE
  <1>1. TypeOK'
    <2>1. (e * STACK_INIT_SIZE) \div PtrSize \in Nat
      OBVIOUS
    <2>2. QED
      BY <2>1 DEF TypeOK
  <1>2. SizeFitsBuffer'
    BY DEF SizeFitsBuffer
  <1>3. SlotsOwnBlocks' /\ NoLeak'
    BY DEF SlotsOwnBlocks, NoLeak, SizeFitsBuffer, SlotBlocks, TypeOK
  <1> QED
    BY <1>1, <1>2, <1>3

\* destroyv frees exactly the blocks in slots.
LEMMA DestroyStack ==
  ASSUME StackInv, destroyv
  PROVE  StackInv'
  <1> USE StackConstants DEF StackInv, destroyv, Slots
  <1>1. TypeOK'
    BY DEF TypeOK, SlotBlocks
  <1>2. SizeFitsBuffer'
    BY DEF SizeFitsBuffer
  <1>3. SlotsOwnBlocks' /\ NoLeak'
    BY DEF SlotsOwnBlocks, NoLeak, SlotBlocks, TypeOK
  <1> QED
    BY <1>1, <1>2, <1>3

\* The buffer pushi works in has room for one more pointer, keeps the slots it
\* had and adds NULL ones.
LEMMA ReservedRoom ==
  ASSUME StackInv, stackp
  PROVE  /\ PushAlloc \in Nat /\ allocSizei <= PushAlloc
         /\ stackSizei < PushAlloc
         /\ Reserved \in [Slots(PushAlloc) -> Blocks \cup {NULL}]
         /\ \A i \in Slots(PushAlloc) :
               Reserved[i] = IF i < allocSizei THEN bufpp[i] ELSE NULL
  BY StackConstants
  DEF StackInv, TypeOK, SizeFitsBuffer, PushAlloc, Full, Reserved, Slots, STACK_INIT_SIZE

\* Appending NULL keeps every slot's block and leaks only what popp gave away:
\* the slot that is overwritten is NULL or holds a returned block.
LEMMA PushNull ==
  ASSUME StackInv, stackp, pushStore(NULL),
         UNCHANGED <<stackp, options, heap, returned, tight>>, call' \in Calls,
         ret' \in Values \cup {NULL, 0, 1}
  PROVE  StackInv'
  <1> USE StackConstants, ReservedRoom DEF StackInv, pushStore, options
  <1>1. TypeOK'
    <2>1. bufpp' \in [Slots(allocSizei') -> Blocks \cup {NULL}]
      BY DEF Slots, TypeOK
    <2>2. allocSizei' \in Nat /\ stackSizei' \in Nat /\ bufSlots' \in Nat
      BY DEF TypeOK
    <2> QED
      BY <2>1, <2>2 DEF TypeOK
  <1>2. SizeFitsBuffer'
    BY DEF SizeFitsBuffer, TypeOK, STACK_INIT_SIZE
  <1>3. \A i \in Slots(allocSizei') :
           bufpp'[i] = IF i < allocSizei /\ i # stackSizei THEN bufpp[i] ELSE NULL
    BY DEF TypeOK, Slots
  <1>4. SlotsOwnBlocks'
    BY <1>3 DEF SlotsOwnBlocks, TypeOK, Slots
  <1>5. NoLeak'
    <2>1. ASSUME NEW b \in Blocks, heap'[b] # FREE
          PROVE  b \in SlotBlocks' \cup returned'
      <3>1. CASE b \in returned
        BY <3>1
      <3>2. CASE b \in SlotBlocks /\ b \notin returned
        <4>1. PICK i \in Slots(allocSizei) : bufpp[i] = b
          BY <3>2 DEF SlotBlocks
        <4>2. i # stackSizei
          BY <3>2, <4>1 DEF NoLeak, Slots, TypeOK
        <4>3. i \in Slots(allocSizei') /\ bufpp'[i] = b
          BY <1>3, <4>1, <4>2 DEF Slots, TypeOK
        <4> QED
          BY <4>3 DEF SlotBlocks
      <3> QED
        BY <2>1, <3>1, <3>2 DEF NoLeak
    <2>2. ASSUME NEW i \in Slots(allocSizei'), i >= stackSizei', bufpp'[i] # NULL
          PROVE  bufpp'[i] \in returned'
      BY <1>3, <2>2 DEF NoLeak, Slots, TypeOK
    <2> QED
      BY <2>1, <2>2 DEF NoLeak
  <1> QED
    BY <1>1, <1>2, <1>4, <1>5

\* Appending a block that was free: it is in no other slot.
LEMMA PushBlock ==
  ASSUME StackInv, stackp, NEW b \in Blocks, heap[b] = FREE,
         NEW v \in Values, heap' = [heap EXCEPT ![b] = v], pushStore(b),
         UNCHANGED <<stackp, options, returned, call, tight>>, ret' = 1
  PROVE  StackInv'
  <1> USE StackConstants, ReservedRoom DEF StackInv, pushStore, options
  <1>1. TypeOK'
    <2>1. bufpp' \in [Slots(allocSizei') -> Blocks \cup {NULL}]
      BY DEF Slots, TypeOK
    <2>2. allocSizei' \in Nat /\ stackSizei' \in Nat /\ bufSlots' \in Nat
      BY DEF TypeOK
    <2> QED
      BY <2>1, <2>2 DEF TypeOK
  <1>2. SizeFitsBuffer'
    BY DEF SizeFitsBuffer, TypeOK, STACK_INIT_SIZE
  <1>3. \A i \in Slots(allocSizei') :
           bufpp'[i] = IF i = stackSizei THEN b
                       ELSE IF i < allocSizei THEN bufpp[i] ELSE NULL
    BY DEF TypeOK, Slots
  <1>4. \A i \in Slots(allocSizei) : bufpp[i] # b
    BY DEF SlotsOwnBlocks, TypeOK
  <1>5. SlotsOwnBlocks'
    <2> SUFFICES ASSUME NEW i \in Slots(allocSizei'), bufpp'[i] # NULL
                 PROVE  /\ heap'[bufpp'[i]] # FREE
                        /\ \A j \in Slots(allocSizei') : bufpp'[j] = bufpp'[i] => j = i
      BY DEF SlotsOwnBlocks
    <2>1. CASE i = stackSizei
      BY <1>3, <1>4, <2>1 DEF TypeOK, Slots
    <2>2. CASE i # stackSizei
      BY <1>3, <1>4, <2>2 DEF SlotsOwnBlocks, TypeOK, Slots
    <2> QED
      BY <2>1, <2>2
  <1>6. NoLeak'
    <2>1. ASSUME NEW c \in Blocks, heap'[c] # FREE
          PROVE  c \in SlotBlocks' \cup returned'
      <3>1. CASE c = b
        <4>1. stackSizei \in Slots(allocSizei') /\ bufpp'[stackSizei] = b
          BY <1>3 DEF Slots, TypeOK
        <4> QED
          BY <3>1, <4>1 DEF SlotBlocks
      <3>2. CASE c \in returned
        BY <3>2
      <3>3. CASE c # b /\ c \in SlotBlocks /\ c \notin returned
        <4>1. PICK i \in Slots(allocSizei) : bufpp[i] = c
          BY <3>3 DEF SlotBlocks
        <4>2. i # stackSizei
          BY <3>3, <4>1 DEF NoLeak, Slots, TypeOK
        <4>3. i \in Slots(allocSizei') /\ bufpp'[i] = c
          BY <1>3, <4>1, <4>2 DEF Slots, TypeOK
        <4> QED
          BY <4>3 DEF SlotBlocks
      <3> QED
        BY <2>1, <3>1, <3>2, <3>3 DEF NoLeak, TypeOK
    <2>2. ASSUME NEW i \in Slots(allocSizei'), i >= stackSizei', bufpp'[i] # NULL
          PROVE  bufpp'[i] \in returned'
      BY <1>3, <2>2 DEF NoLeak, Slots, TypeOK
    <2> QED
      BY <2>1, <2>2 DEF NoLeak
  <1> QED
    BY <1>1, <1>2, <1>5, <1>6

\* A failed push leaves the buffer alone or adds NULL slots to it.
LEMMA PushFails ==
  ASSUME StackInv, NEW v, pushiFails(v)
  PROVE  StackInv'
  <1> USE StackConstants DEF StackInv, pushiFails, options
  <1>1. CASE UNCHANGED buffer
    BY <1>1 DEF buffer, TypeOK, SizeFitsBuffer, SlotsOwnBlocks, NoLeak, SlotBlocks
  <1>2. CASE /\ bufpp' = Reserved /\ allocSizei' = PushAlloc
             /\ bufSlots' = IF Full THEN PushAlloc ELSE bufSlots
    <2> USE <1>2, ReservedRoom
    <2>1. TypeOK'
      BY DEF TypeOK
    <2>2. SizeFitsBuffer'
      BY DEF SizeFitsBuffer, TypeOK, STACK_INIT_SIZE
    <2>3. SlotsOwnBlocks'
      BY DEF SlotsOwnBlocks, TypeOK, Slots
    <2>4. SlotBlocks \subseteq SlotBlocks'
      <3> SUFFICES ASSUME NEW i \in Slots(allocSizei), bufpp[i] # NULL
                   PROVE  bufpp[i] \in SlotBlocks'
        BY DEF SlotBlocks
      <3>1. i \in Slots(allocSizei') /\ bufpp'[i] = bufpp[i]
        BY DEF Slots, TypeOK
      <3> QED
        BY <3>1 DEF SlotBlocks
    <2>5. NoLeak'
      BY <2>4 DEF NoLeak, TypeOK, Slots
    <2> QED
      BY <2>1, <2>2, <2>3, <2>5
  <1> QED
    BY <1>1, <1>2

\* Slot numbers of a buffer of n pointers.
LEMMA SlotNumbers ==
  ASSUME NEW n \in Nat
  PROVE  /\ Slots(n) \subseteq Nat
         /\ \A i \in Nat : i \in Slots(n) <=> i < n
  BY DEF Slots

\* popp only ever cuts off slots at or above the new size, whose blocks it has
\* given away.
LEMMA PopStack ==
  ASSUME StackInv, popp
  PROVE  StackInv'
  <1> USE StackConstants DEF StackInv, popp, options
  <1>1. /\ allocSizei' \in Nat /\ allocSizei' <= allocSizei
        /\ stackSizei - 1 \in Slots(allocSizei) /\ stackSizei' \in Nat
        /\ stackSizei' <= allocSizei' /\ STACK_INIT_SIZE <= allocSizei'
    BY DEF TypeOK, SizeFitsBuffer, CanShrink, buffer, Slots, STACK_INIT_SIZE
  <1>2. /\ bufpp' \in [Slots(allocSizei') -> Blocks \cup {NULL}]
        /\ \A i \in Slots(allocSizei') : i \in Slots(allocSizei) /\ bufpp'[i] = bufpp[i]
    <2>1. CASE UNCHANGED buffer
      BY <2>1 DEF buffer, TypeOK
    <2>2. CASE ~UNCHANGED buffer
      <3>1. /\ bufpp' = [i \in Slots(allocSizei \div 2) |-> bufpp[i]]
            /\ allocSizei' = allocSizei \div 2
        BY <2>2
      <3>2. ASSUME NEW m \in Nat, NEW n \in Nat, m <= n
            PROVE  \A i \in Slots(m) : i \in Slots(n)
        BY <3>2, SlotNumbers
      <3>3. \A i \in Slots(allocSizei') : i \in Slots(allocSizei)
        BY <1>1, <3>2 DEF TypeOK
      <3> QED
        BY <3>1, <3>3 DEF TypeOK
    <2> QED
      BY <2>1, <2>2
  <1>3. TypeOK'
    <2>1. ret' \in Values \cup {NULL, 0, 1}
      <3>1. CASE bufpp[stackSizei - 1] = NULL
        BY <3>1 DEF Deref
      <3>2. CASE bufpp[stackSizei - 1] # NULL
        <4>1. bufpp[stackSizei - 1] \in Blocks
          BY <1>1, <3>2 DEF TypeOK
        <4>2. heap[bufpp[stackSizei - 1]] # FREE
          BY <1>1, <3>2 DEF SlotsOwnBlocks
        <4>3. ret' = heap[bufpp[stackSizei - 1]]
          BY <3>2 DEF Deref
        <4> QED
          BY <4>1, <4>2, <4>3 DEF TypeOK
      <3> QED
        BY <3>1, <3>2
    <2>2. returned' \subseteq Blocks
      BY <1>1 DEF TypeOK
    <2>3. bufSlots' \in Nat
      BY DEF TypeOK, buffer
    <2> QED
      BY <1>1, <1>2, <2>1, <2>2, <2>3 DEF TypeOK
  <1>4. SizeFitsBuffer'
    BY <1>1 DEF SizeFitsBuffer
  <1>5. SlotsOwnBlocks'
    BY <1>2 DEF SlotsOwnBlocks
  <1>6. NoLeak'
    <2>1. ASSUME NEW i \in Slots(allocSizei), i >= stackSizei - 1, bufpp[i] # NULL
          PROVE  bufpp[i] \in returned'
      BY <2>1 DEF NoLeak, Slots, TypeOK
    <2>2. ASSUME NEW b \in Blocks, heap'[b] # FREE
          PROVE  b \in SlotBlocks' \cup returned'
      <3>1. CASE b \in returned
        BY <3>1
      <3>2. CASE b \in SlotBlocks
        <4>1. PICK i \in Slots(allocSizei) : bufpp[i] = b
          BY <3>2 DEF SlotBlocks
        <4>2. CASE i < stackSizei'
          <5>0. i \in Nat
            BY SlotNumbers DEF TypeOK
          <5>1. i \in Slots(allocSizei')
            <6>1. i < allocSizei'
              BY <1>1, <4>2, <5>0
            <6> QED
              BY <1>1, <5>0, <6>1, SlotNumbers
          <5>2. bufpp'[i] = b
            BY <1>2, <4>1, <5>1
          <5> QED
            BY <5>1, <5>2, <3>2 DEF SlotBlocks
        <4>3. CASE ~(i < stackSizei')
          BY <1>1, <2>1, <4>1, <4>3 DEF Slots, TypeOK
        <4> QED
          BY <4>2, <4>3
      <3> QED
        BY <2>2, <3>1, <3>2 DEF NoLeak
    <2> QED
      BY <1>2, <2>1, <2>2 DEF NoLeak
  <1> QED
    BY <1>3, <1>4, <1>5, <1>6

\* Where seti and getp touch the buffer, the slot is inside it.
LEMMA SlotInside ==
  ASSUME StackInv, call.op \in {"get", "set"}, ~Growing, ~TooSmall
  PROVE  stackp /\ call.index \in Slots(allocSizei) /\ call.index \in Nat
  <1> USE DEF StackInv
  <1>1. call # Idle
    BY DEF Idle
  <1>2. call.index \in Nat
    BY <1>1, StackConstants DEF TypeOK, Calls
  <1>3. stackp
    BY <1>1 DEF SizeFitsBuffer
  <1>4. call.index < allocSizei
    BY <1>1, <1>2, <1>3 DEF Growing, TooSmall, SizeFitsBuffer, TypeOK
  <1> QED
    BY <1>2, <1>3, <1>4 DEF Slots, TypeOK

\* seti storing NULL, or failing: the old block of the slot, which no other slot
\* holds, is freed.
LEMMA SetNull ==
  ASSUME StackInv, call.op = "set", ~Growing, ~TooSmall,
         heap' = Released,
         bufpp' = [bufpp EXCEPT ![call.index] = NULL],
         returned' = returned \ {bufpp[call.index]},
         \/ UNCHANGED stackSizei
         \/ stackSizei' = IF stackSizei < call.index + 1 THEN call.index + 1 ELSE stackSizei,
         ret' \in {0, 1}, call' = Idle,
         UNCHANGED <<stackp, allocSizei, bufSlots, options, tight>>
  PROVE  StackInv'
  <1> DEFINE k == call.index
             q == bufpp[k]
  <1> USE StackConstants DEF StackInv, options
  <1>1. stackp /\ k \in Slots(allocSizei) /\ k \in Nat
    BY SlotInside
  <1>2. stackSizei' \in Nat /\ stackSizei' <= allocSizei /\ stackSizei <= stackSizei'
    BY <1>1 DEF TypeOK, SizeFitsBuffer, Slots
  <1>3. \A b \in Blocks : Released[b] = IF b = q THEN FREE ELSE heap[b]
    BY <1>1 DEF Released, TypeOK
  <1>4. Released \in [Blocks -> Values \cup {FREE}]
    BY <1>1 DEF Released, TypeOK
  <1>5. /\ heap' \in [Blocks -> Values \cup {FREE}]
        /\ \A b \in Blocks : heap'[b] = IF b = q THEN FREE ELSE heap[b]
    BY <1>3, <1>4
  <1>6. \A i \in Slots(allocSizei) : bufpp'[i] = IF i = k THEN NULL ELSE bufpp[i]
    BY <1>1 DEF TypeOK
  <1>7. TypeOK'
    <2>1. call' \in Calls
      BY DEF Calls
    <2> QED
      BY <1>1, <1>2, <1>5, <2>1 DEF TypeOK
  <1>8. SizeFitsBuffer'
    BY <1>1, <1>2 DEF SizeFitsBuffer, TypeOK
  <1>9. \A i \in Slots(allocSizei) : i # k /\ bufpp[i] # NULL =>
           bufpp[i] # q /\ heap'[bufpp[i]] # FREE /\ bufpp[i] \in Blocks
    BY <1>1, <1>3, <1>5 DEF SlotsOwnBlocks, TypeOK
  <1>10. SlotsOwnBlocks'
    <2> SUFFICES ASSUME NEW i \in Slots(allocSizei), bufpp'[i] # NULL
                 PROVE  /\ heap'[bufpp'[i]] # FREE
                        /\ \A j \in Slots(allocSizei) : bufpp'[j] = bufpp'[i] => j = i
      BY DEF SlotsOwnBlocks
    <2>1. CASE i = k
      BY <1>1, <1>5, <1>6, <1>9, <2>1
    <2>2. CASE i # k
      BY <1>1, <1>6, <1>9, <2>2 DEF SlotsOwnBlocks
    <2> QED
      BY <2>1, <2>2
  <1>11. NoLeak'
    <2>1. ASSUME NEW b \in Blocks, heap'[b] # FREE
          PROVE  b \in SlotBlocks' \cup returned'
      <3>1. b # q /\ heap[b] # FREE
        BY <1>5, <2>1
      <3>2. CASE b \in returned
        BY <3>1, <3>2
      <3>3. CASE b \in SlotBlocks
        <4>1. PICK i \in Slots(allocSizei) : bufpp[i] = b
          BY <3>3 DEF SlotBlocks
        <4>2. bufpp'[i] = b /\ i \in Slots(allocSizei')
          BY <1>1, <1>6, <3>1, <4>1
        <4> QED
          BY <4>2, StackConstants DEF SlotBlocks
      <3> QED
        BY <3>1, <3>2, <3>3 DEF NoLeak
    <2>2. ASSUME NEW i \in Slots(allocSizei'), i >= stackSizei', bufpp'[i] # NULL
          PROVE  bufpp'[i] \in returned'
      <3>1. i # k
        BY <1>1, <1>2, <1>6, <2>2 DEF Slots, TypeOK
      <3> QED
        BY <1>2, <1>6, <1>9, <2>2, <3>1 DEF NoLeak, Slots, TypeOK
    <2> QED
      BY <2>1, <2>2 DEF NoLeak
  <1> QED
    BY <1>7, <1>8, <1>10, <1>11

\* seti storing an element: the block it stores was free once the old one of the
\* slot is released.
LEMMA SetBlock ==
  ASSUME StackInv, call.op = "set", ~Growing, ~TooSmall,
         NEW p \in Blocks, NEW v \in Values, Released[p] = FREE,
         heap' = [Released EXCEPT ![p] = v],
         bufpp' = [bufpp EXCEPT ![call.index] = p],
         returned' = returned \ {bufpp[call.index]},
         stackSizei' = IF stackSizei < call.index + 1 THEN call.index + 1 ELSE stackSizei,
         ret' = 1, call' = Idle,
         UNCHANGED <<stackp, allocSizei, bufSlots, options, tight>>
  PROVE  StackInv'
  <1> DEFINE k == call.index
             q == bufpp[k]
  <1> USE StackConstants DEF StackInv, options
  <1>1. stackp /\ k \in Slots(allocSizei) /\ k \in Nat
    BY SlotInside
  <1>2. stackSizei' \in Nat /\ stackSizei' <= allocSizei /\ stackSizei <= stackSizei'
        /\ k < stackSizei'
    BY <1>1 DEF TypeOK, SizeFitsBuffer, Slots
  <1>3. \A b \in Blocks : Released[b] = IF b = q THEN FREE ELSE heap[b]
    BY <1>1 DEF Released, TypeOK
  <1>4. Released \in [Blocks -> Values \cup {FREE}]
    BY <1>1 DEF Released, TypeOK
  <1>5. /\ heap' \in [Blocks -> Values \cup {FREE}]
        /\ \A b \in Blocks : heap'[b] = IF b = p THEN v ELSE IF b = q THEN FREE ELSE heap[b]
    BY <1>3, <1>4
  <1>6. \A i \in Slots(allocSizei) : bufpp'[i] = IF i = k THEN p ELSE bufpp[i]
    BY <1>1 DEF TypeOK
  <1>7. TypeOK'
    <2>1. call' \in Calls
      BY DEF Calls
    <2> QED
      BY <1>1, <1>2, <1>5, <2>1 DEF TypeOK
  <1>8. SizeFitsBuffer'
    BY <1>1, <1>2 DEF SizeFitsBuffer, TypeOK
  <1>9. \A i \in Slots(allocSizei) : i # k /\ bufpp[i] # NULL =>
           bufpp[i] # q /\ bufpp[i] # p /\ heap'[bufpp[i]] # FREE /\ bufpp[i] \in Blocks
    BY <1>1, <1>3, <1>5 DEF SlotsOwnBlocks, TypeOK
  <1>10. SlotsOwnBlocks'
    <2> SUFFICES ASSUME NEW i \in Slots(allocSizei), bufpp'[i] # NULL
                 PROVE  /\ heap'[bufpp'[i]] # FREE
                        /\ \A j \in Slots(allocSizei) : bufpp'[j] = bufpp'[i] => j = i
      BY DEF SlotsOwnBlocks
    <2>1. CASE i = k
      BY <1>1, <1>5, <1>6, <1>9, <2>1
    <2>2. CASE i # k
      BY <1>1, <1>6, <1>9, <2>2 DEF SlotsOwnBlocks
    <2> QED
      BY <2>1, <2>2
  <1>11. NoLeak'
    <2>1. ASSUME NEW b \in Blocks, heap'[b] # FREE
          PROVE  b \in SlotBlocks' \cup returned'
      <3>1. CASE b = p
        <4>1. bufpp'[k] = b /\ k \in Slots(allocSizei')
          BY <1>1, <1>6, <3>1
        <4> QED
          BY <4>1 DEF SlotBlocks
      <3>2. CASE b # p
        <4>1. b # q /\ heap[b] # FREE
          BY <1>5, <2>1, <3>2
        <4>2. CASE b \in returned
          BY <4>1, <4>2
        <4>3. CASE b \in SlotBlocks
          <5>1. PICK i \in Slots(allocSizei) : bufpp[i] = b
            BY <4>3 DEF SlotBlocks
          <5>2. bufpp'[i] = b /\ i \in Slots(allocSizei')
            BY <1>1, <1>6, <4>1, <5>1
          <5> QED
            BY <5>2 DEF SlotBlocks
        <4> QED
          BY <4>1, <4>2, <4>3 DEF NoLeak
      <3> QED
        BY <3>1, <3>2
    <2>2. ASSUME NEW i \in Slots(allocSizei'), i >= stackSizei', bufpp'[i] # NULL
          PROVE  bufpp'[i] \in returned'
      <3>1. i # k
        BY <1>1, <1>2, <1>6, <2>2 DEF Slots, TypeOK
      <3> QED
        BY <1>2, <1>6, <1>9, <2>2, <3>1 DEF NoLeak, Slots, TypeOK
    <2> QED
      BY <2>1, <2>2 DEF NoLeak
  <1> QED
    BY <1>7, <1>8, <1>10, <1>11

\* A step that leaves the stack's storage alone.
LEMMA QuietStep ==
  ASSUME StackInv,
         UNCHANGED <<stackp, buffer, stackSizei, options, heap, returned>>,
         tight' \in BOOLEAN, ret' \in Values \cup {NULL, 0, 1}, call' \in Calls,
         ~stackp => call' = Idle
  PROVE  StackInv'
  BY DEF StackInv, TypeOK, SizeFitsBuffer, SlotsOwnBlocks, NoLeak, SlotBlocks, buffer, options

\* What a pointer in the buffer reads is an element's value, never the contents
\* of a freed block.
LEMMA ReadsLiveBlocks ==
  ASSUME StackInv, NEW i \in Slots(allocSizei)
  PROVE  Deref(bufpp[i]) \in Values \cup {NULL}
  <1>1. CASE bufpp[i] = NULL
    BY <1>1 DEF Deref
  <1>2. CASE bufpp[i] # NULL
    <2>1. bufpp[i] \in Blocks /\ heap[bufpp[i]] # FREE
      BY <1>2 DEF StackInv, TypeOK, SlotsOwnBlocks
    <2> QED
      BY <1>2, <2>1 DEF Deref, StackInv, TypeOK
  <1> QED
    BY <1>1, <1>2

\* Every step of the stack keeps the invariant.
LEMMA StepStack == StackInv /\ [Next]_vars => StackInv'
  <1> SUFFICES ASSUME StackInv, [Next]_vars PROVE StackInv'
    OBVIOUS
  <1> USE StackConstants
  <1>1. ASSUME NEW e \in ElementSizes, newpFails(e) PROVE StackInv'
    BY <1>1, QuietStep DEF newpFails, StackInv, TypeOK, SizeFitsBuffer
  <1>2. ASSUME NEW e \in ElementSizes, NEW g \in BOOLEAN, NEW s \in BOOLEAN, newp(e, g, s)
        PROVE  StackInv'
    BY <1>2, NewStack
  <1>3. CASE destroyv
    BY <1>3, DestroyStack
  <1>4. CASE callOnNull
    BY <1>4, QuietStep DEF callOnNull, StackInv, TypeOK, SizeFitsBuffer
  <1>5. CASE popp
    BY <1>5, PopStack
  <1>6. CASE poppEmpty
    BY <1>6, QuietStep DEF poppEmpty, StackInv, TypeOK, SizeFitsBuffer
  <1>7. ASSUME NEW v \in Values \cup {NULL}, pushi(v) PROVE StackInv'
    <2>1. CASE v = NULL
      BY <1>7, <2>1, PushNull DEF pushi, StackInv, TypeOK
    <2>2. CASE v # NULL
      <3>1. PICK b \in Blocks : /\ heap[b] = FREE
                                /\ heap' = [heap EXCEPT ![b] = v]
                                /\ pushStore(b)
        BY <1>7, <2>2 DEF pushi
      <3> QED
        BY <1>7, <2>2, <3>1, PushBlock DEF pushi
    <2> QED
      BY <2>1, <2>2
  <1>8. ASSUME NEW v \in Values \cup {NULL}, pushiFails(v) PROVE StackInv'
    BY <1>8, PushFails
  <1>9. ASSUME NEW op \in {"get", "set"}, NEW i \in Indices, NEW v \in Values \cup {NULL},
               beginCall(op, i, v)
        PROVE  StackInv'
    <2>1. call' \in Calls
      BY <1>9 DEF beginCall, Calls
    <2> QED
      BY <1>9, <2>1, QuietStep DEF beginCall, StackInv, TypeOK
  <1>10. CASE grow
    <2>1. stackp
      BY <1>10 DEF grow, Growing, StackInv, SizeFitsBuffer
    <2> QED
      BY <1>10, <2>1, PushNull DEF grow, StackInv, TypeOK
  <1>11. CASE getp
    <2>1. ret' \in Values \cup {NULL, 0, 1}
      <3>1. CASE TooSmall
        BY <1>11, <3>1 DEF getp
      <3>2. CASE ~TooSmall
        <4>1. call.index \in Slots(allocSizei)
          BY <1>11, <3>2, SlotInside DEF getp
        <4> QED
          BY <1>11, <3>2, <4>1, ReadsLiveBlocks DEF getp
      <3> QED
        BY <3>1, <3>2
    <2> QED
      BY <1>11, <2>1, QuietStep DEF getp, Calls, StackInv, TypeOK
  <1>12. CASE setiTooSmall
    BY <1>12, QuietStep DEF setiTooSmall, Calls, StackInv, TypeOK
  <1>13. CASE seti
    <2>0. call.elementp \in Values \cup {NULL}
      BY DEF StackInv, TypeOK, Calls, Idle
    <2>1. CASE call.elementp = NULL
      BY <1>13, <2>1, SetNull DEF seti
    <2>2. CASE call.elementp # NULL
      <3>1. PICK b \in Blocks : /\ Released[b] = FREE
                                /\ heap' = [Released EXCEPT ![b] = call.elementp]
                                /\ bufpp' = [bufpp EXCEPT ![call.index] = b]
        BY <1>13, <2>2 DEF seti
      <3> QED
        BY <1>13, <2>0, <2>2, <3>1, SetBlock DEF seti
    <2> QED
      BY <2>1, <2>2
  <1>14. CASE setiFails
    BY <1>14, SetNull DEF setiFails
  <1>15. CASE growFails
    BY <1>15 DEF growFails, vars, StackInv, TypeOK, SizeFitsBuffer, SlotsOwnBlocks, NoLeak, SlotBlocks
  <1>16. CASE memory
    BY <1>16, QuietStep DEF memory, StackInv, TypeOK, SizeFitsBuffer
  <1>17. CASE UNCHANGED vars
    BY <1>17 DEF vars, StackInv, TypeOK, SizeFitsBuffer, SlotsOwnBlocks, NoLeak, SlotBlocks
  <1> QED
    BY <1>1, <1>2, <1>3, <1>4, <1>5, <1>6, <1>7, <1>8, <1>9, <1>10, <1>11, <1>12, <1>13,
       <1>14, <1>15, <1>16, <1>17
    DEF Next, Step

\* The four parts of the invariant hold together in every reachable state.
LEMMA StackInvariant == Spec => []StackInv
  BY InitStack, StepStack, PTL DEF Spec

\* Every variable of the stack keeps its type, whatever calls are made and
\* whatever allocations fail.
THEOREM StackTypes == Spec => []TypeOK
  BY StackInvariant, PTL DEF StackInv

\* pushi, grow and seti never write outside the allocated slots, and popp never
\* shrinks the buffer below the elements it holds.
THEOREM StackFits == Spec => []SizeFitsBuffer
  BY StackInvariant, PTL DEF StackInv

\* No two slots share a block and no slot points to a freed one: seti and
\* destroyv free a block once.
THEOREM StackOwns == Spec => []SlotsOwnBlocks
  BY StackInvariant, PTL DEF StackInv

\* Only a block popp returned can outlive its slot.
THEOREM StackKeeps == Spec => []NoLeak
  BY StackInvariant, PTL DEF StackInv
-----------------------------------------------------------------------------
\* Four elements of at least a pointer's size hold four pointers.
LEMMA FirstBuffer ==
  ASSUME NEW e \in Nat, NEW p \in Nat \ {0}, e >= p
  PROVE  (e * 4) \div p >= 4
  <1> DEFINE q == (e * 4) \div p
  <1>1. q \in Int /\ e * 4 = (p * q) + ((e * 4) % p) /\ ((e * 4) % p) \in 0 .. p - 1
    OBVIOUS
  <1>2. ASSUME q <= 3 PROVE FALSE
    <2>1. p * q <= p * 3
      BY <1>1, <1>2
    <2> QED
      BY <1>1, <2>1
  <1> QED
    BY <1>1, <1>2

\* When elements are at least as large as pointers, as they are not required to
\* be, the buffer newp allocates holds the pointers that are stored in it.
THEOREM LargeElementsFit ==
  ASSUME \A e \in ElementSizes : e = 0 \/ e >= PtrSize
  PROVE  Spec => []BufferHoldsSlots
  <1>1. Init => BufferHoldsSlots
    BY DEF Init, BufferHoldsSlots
  <1>2. StackInv /\ BufferHoldsSlots /\ [Next]_vars => BufferHoldsSlots'
    <2> SUFFICES ASSUME StackInv, BufferHoldsSlots, [Next]_vars
                 PROVE  BufferHoldsSlots'
      OBVIOUS
    <2> USE DEF BufferHoldsSlots
    <2>1. ASSUME NEW e \in ElementSizes, NEW g \in BOOLEAN, NEW s \in BOOLEAN, newp(e, g, s)
          PROVE  BufferHoldsSlots'
      <3>1. (e * 4) \div PtrSize >= 4
        BY <2>1, FirstBuffer, StackConstants DEF newp
      <3> QED
        BY <2>1, <3>1 DEF newp, STACK_INIT_SIZE
    <2>2. ASSUME NEW p \in Blocks \cup {NULL}, pushStore(p)
          PROVE  BufferHoldsSlots'
      BY <2>2 DEF pushStore, PushAlloc, StackInv, TypeOK
    <2>3. ASSUME NEW v \in Values \cup {NULL}, pushi(v) \/ pushiFails(v)
          PROVE  BufferHoldsSlots'
      BY <2>2, <2>3 DEF pushi, pushiFails, buffer, PushAlloc, StackInv, TypeOK
    <2>4. ASSUME popp PROVE BufferHoldsSlots'
      BY <2>4 DEF popp, buffer, StackInv, TypeOK
    <2>5. ASSUME destroyv PROVE BufferHoldsSlots'
      BY <2>5 DEF destroyv
    <2>6. ASSUME grow PROVE BufferHoldsSlots'
      BY <2>2, <2>6 DEF grow
    <2>7. ASSUME UNCHANGED <<allocSizei, bufSlots>> PROVE BufferHoldsSlots'
      BY <2>7
    <2> QED
      BY <2>1, <2>3, <2>4, <2>5, <2>6, <2>7
      DEF Next, Step, vars, buffer, newpFails, callOnNull, poppEmpty, beginCall, getp,
          setiTooSmall, seti, setiFails, growFails, memory
  <1> QED
    BY <1>1, <1>2, StackInvariant, PTL DEF Spec

(***************************************************************************)
(* Every step of the stack is a step of the array of SparseArray, or       *)
(* leaves it alone.  The contents of the array are what the pointers in    *)
(* the buffer point to, so each step must be shown not to touch the        *)
(* contents behind any other slot.  That needs the ownership invariant     *)
(* (a block that is freed or filled is behind no other slot) and a bound   *)
(* on the size, which keeps every position in Index.                       *)
(***************************************************************************)
\* A stack grows by pushes below MaxSize and up to the index of a get or a set.
SizeReached == stackSizei <= MaxSize \/ \E i \in Indices : stackSizei <= i + 1

ArrayInv == StackInv /\ SizeReached

\* The abstract contents: what the array of SparseArray holds.
Contents == [i \in Index |-> Content(i)]

\* What a slot of the buffer reads, and what there is to read outside of it.
LEMMA ContentOf ==
  ASSUME StackInv, NEW i \in Index
  PROVE  /\ i < allocSizei => i \in Slots(allocSizei) /\ Content(i) = Deref(bufpp[i])
         /\ ~(i < allocSizei) => Content(i) = NULL
  BY StackConstants DEF Content, Slots, StackInv, TypeOK

\* The same in the next state.
LEMMA ContentOfNext ==
  ASSUME StackInv', NEW i \in Index
  PROVE  /\ i < allocSizei' => /\ i \in Slots(allocSizei')
                                 /\ Content(i)' = IF bufpp'[i] = NULL THEN NULL ELSE heap'[bufpp'[i]]
         /\ ~(i < allocSizei') => Content(i)' = NULL
  <1>1. i \in Nat /\ allocSizei' \in Nat
    BY StackConstants DEF StackInv, TypeOK
  <1>2. i < allocSizei' <=> i \in Slots(allocSizei')
    BY <1>1, SlotNumbers
  <1>3. Content(i)' = IF i \in Slots(allocSizei')
                      THEN IF bufpp'[i] = NULL THEN NULL ELSE heap'[bufpp'[i]]
                      ELSE NULL
    BY DEF Content, Deref
  <1> QED
    BY <1>2, <1>3

\* A block in a slot keeps its contents when another block is freed or filled.
LEMMA UntouchedSlot ==
  ASSUME StackInv, NEW i \in Slots(allocSizei),
         \A b \in Blocks : b = bufpp[i] /\ heap[b] # FREE => heap'[b] = heap[b]
  PROVE  Deref(bufpp[i]) = IF bufpp[i] = NULL THEN NULL ELSE heap'[bufpp[i]]
  BY DEF Deref, StackInv, TypeOK, SlotsOwnBlocks

\* Every position below the size is one the array has.
LEMMA SizeInIndex ==
  ASSUME StackInv, SizeReached
  PROVE  \A i \in Nat : i < stackSizei => i \in Index
  <1> SUFFICES ASSUME NEW i \in Nat, i < stackSizei PROVE i \in Index
    OBVIOUS
  <1>1. CASE stackSizei <= MaxSize
    BY <1>1, IndexCovers, StackConstants DEF StackInv, TypeOK
  <1>2. ASSUME NEW j \in Indices, stackSizei <= j + 1 PROVE i \in Index
    <2>1. j \in Nat
      BY StackConstants
    <2>2. i \in 0 .. j
      BY <1>2, <2>1 DEF StackInv, TypeOK
    <2> QED
      BY <2>2, IndexCovers
  <1> QED
    BY <1>1, <1>2 DEF SizeReached

\* The bound on the size holds throughout: pushi asks for it, and the growth
\* loop pushes only while the index is outside the buffer.
LEMMA SizeStep == StackInv /\ SizeReached /\ [Next]_vars => SizeReached'
  <1> SUFFICES ASSUME StackInv, SizeReached, [Next]_vars PROVE SizeReached'
    OBVIOUS
  <1> USE StackConstants DEF StackInv
  <1>1. ASSUME NEW v \in Values \cup {NULL}, pushi(v) PROVE SizeReached'
    <2>1. stackSizei' = stackSizei + 1 /\ stackSizei < MaxSize
      BY <1>1 DEF pushi, pushStore
    <2> QED
      BY <2>1 DEF SizeReached, TypeOK
  <1>2. CASE grow
    <2>1. stackSizei' = stackSizei + 1 /\ call # Idle /\ call.index >= allocSizei
      BY <1>2 DEF grow, pushStore, Growing
    <2>2. call.index \in Indices /\ call.index \in Nat
      BY <2>1 DEF TypeOK, Calls
    <2>3. stackSizei <= allocSizei
      BY <2>1 DEF SizeFitsBuffer
    <2> QED
      BY <2>1, <2>2, <2>3 DEF SizeReached, TypeOK
  <1>3. CASE seti
    <2>0. call # Idle
      BY <1>3 DEF seti, Idle
    <2>1. call.index \in Indices /\ call.index \in Nat
      BY <2>0 DEF TypeOK, Calls
    <2>2. stackSizei' = IF stackSizei < call.index + 1 THEN call.index + 1 ELSE stackSizei
      BY <1>3 DEF seti
    <2> QED
      BY <2>1, <2>2 DEF SizeReached, TypeOK
  <1>4. ASSUME stackSizei' \in {0, stackSizei} \/ stackSizei' = stackSizei - 1
        PROVE  SizeReached'
    <2>1. stackSizei' \in Int /\ (stackSizei' <= stackSizei \/ stackSizei' = 0)
      BY <1>4 DEF TypeOK
    <2> QED
      BY <2>1 DEF SizeReached, TypeOK
  <1> QED
    BY <1>1, <1>2, <1>3, <1>4
    DEF Next, Step, vars, newp, newpFails, destroyv, callOnNull, popp, poppEmpty, pushiFails,
        beginCall, getp, setiTooSmall, setiFails, growFails, memory

\* The bound holds in every reachable state.
LEMMA ArrayInvariant == Spec => []ArrayInv
  <1>1. Init => SizeReached
    BY StackConstants DEF Init, SizeReached
  <1> QED
    BY <1>1, SizeStep, StackInvariant, PTL DEF Spec, ArrayInv
-----------------------------------------------------------------------------
(* What each way of changing the buffer does to the contents               *)

\* Nothing, when buffer and heap are left alone.
LEMMA SameContents ==
  ASSUME UNCHANGED <<bufpp, allocSizei, heap>>
  PROVE  Contents' = Contents
  BY DEF Contents, Content, Deref, Slots

\* A push sets the entry at the size and no other, in a larger buffer or not.
LEMMA PushedContents ==
  ASSUME StackInv, StackInv', stackp, NEW p \in Blocks \cup {NULL}, pushStore(p),
         \A b \in Blocks : b # p => heap'[b] = heap[b], p \in Blocks => heap[p] = FREE
  PROVE  Contents' = [Contents EXCEPT ![stackSizei] = IF p = NULL THEN NULL ELSE heap'[p]]
  <1> DEFINE v == IF p = NULL THEN NULL ELSE heap'[p]
  <1> SUFFICES ASSUME NEW i \in Index
               PROVE  Content(i)' = IF i = stackSizei THEN v ELSE Content(i)
    BY DEF Contents
  <1> USE StackConstants
  <1>1. i \in Nat /\ PushAlloc \in Nat /\ allocSizei <= PushAlloc /\ allocSizei' = PushAlloc
        /\ stackSizei \in Nat /\ stackSizei < PushAlloc /\ allocSizei \in Nat
    BY ReservedRoom DEF pushStore, StackInv, TypeOK
  <1>2. i < PushAlloc =>
          bufpp'[i] = IF i = stackSizei THEN p ELSE IF i < allocSizei THEN bufpp[i] ELSE NULL
    BY <1>1, ReservedRoom DEF pushStore, Slots
  <1>3. CASE i = stackSizei
    BY <1>1, <1>2, <1>3, ContentOfNext
  <1>4. CASE i # stackSizei /\ i < allocSizei
    <2>1. i \in Slots(allocSizei) /\ Content(i) = Deref(bufpp[i])
      BY <1>4, ContentOf
    <2>2. \A b \in Blocks : b = bufpp[i] /\ heap[b] # FREE => heap'[b] = heap[b]
      OBVIOUS
    <2> QED
      BY <1>1, <1>2, <1>4, <2>1, <2>2, ContentOfNext, UntouchedSlot
  <1>5. CASE i # stackSizei /\ ~(i < allocSizei)
    BY <1>1, <1>2, <1>5, ContentOf, ContentOfNext
  <1> QED
    BY <1>3, <1>4, <1>5

\* A failed push may leave a larger buffer, which reads the same.
LEMMA ReservedContents ==
  ASSUME StackInv, StackInv', stackp, bufpp' = Reserved, allocSizei' = PushAlloc,
         UNCHANGED heap
  PROVE  Contents' = Contents
  <1> SUFFICES ASSUME NEW i \in Index PROVE Content(i)' = Content(i)
    BY DEF Contents
  <1> USE StackConstants
  <1>1. i \in Nat /\ PushAlloc \in Nat /\ allocSizei <= PushAlloc /\ allocSizei \in Nat
    BY ReservedRoom DEF StackInv, TypeOK
  <1>2. i < PushAlloc => bufpp'[i] = IF i < allocSizei THEN bufpp[i] ELSE NULL
    BY <1>1, ReservedRoom DEF Slots
  <1>3. i < allocSizei => Content(i) = IF bufpp[i] = NULL THEN NULL ELSE heap[bufpp[i]]
    BY ContentOf DEF Deref
  <1> QED
    BY <1>1, <1>2, <1>3, ContentOf, ContentOfNext

\* seti changes the entry at the index and no other: the block it frees and the
\* one it fills are behind no other slot.
LEMMA SetContents ==
  ASSUME StackInv, StackInv', NEW k \in Slots(allocSizei), NEW p \in Blocks \cup {NULL},
         UNCHANGED allocSizei, bufpp' = [bufpp EXCEPT ![k] = p],
         \A b \in Blocks : b # p /\ b # bufpp[k] => heap'[b] = heap[b],
         p \in Blocks => heap[p] = FREE \/ p = bufpp[k]
  PROVE  Contents' = [Contents EXCEPT ![k] = IF p = NULL THEN NULL ELSE heap'[p]]
  <1> DEFINE v == IF p = NULL THEN NULL ELSE heap'[p]
  <1> SUFFICES ASSUME NEW i \in Index
               PROVE  Content(i)' = IF i = k THEN v ELSE Content(i)
    BY DEF Contents
  <1> USE StackConstants
  <1>1. i \in Nat /\ allocSizei \in Nat /\ k \in Nat /\ k < allocSizei
    BY DEF StackInv, TypeOK, Slots
  <1>2. i \in Slots(allocSizei) => bufpp'[i] = IF i = k THEN p ELSE bufpp[i]
    BY DEF StackInv, TypeOK
  <1>3. CASE i = k
    BY <1>1, <1>2, <1>3, ContentOfNext
  <1>4. CASE i # k /\ i < allocSizei
    <2>1. i \in Slots(allocSizei) /\ Content(i) = Deref(bufpp[i])
      BY <1>4, ContentOf
    <2>2. bufpp[i] # NULL => bufpp[i] # bufpp[k]
      BY <1>4, <2>1 DEF StackInv, SlotsOwnBlocks
    <2>3. \A b \in Blocks : b = bufpp[i] /\ heap[b] # FREE => heap'[b] = heap[b]
      BY <2>2
    <2> QED
      BY <1>1, <1>2, <1>4, <2>1, <2>3, ContentOfNext, UntouchedSlot
  <1>5. CASE i # k /\ ~(i < allocSizei)
    BY <1>1, <1>5, ContentOf, ContentOfNext
  <1> QED
    BY <1>3, <1>4, <1>5

\* popp keeps every entry, or forgets some at or above the new size.
LEMMA PoppedContents ==
  ASSUME StackInv, StackInv', popp
  PROVE  \A i \in Index : \/ Contents'[i] = Contents[i]
                          \/ i >= stackSizei - 1 /\ Contents'[i] = NULL
  <1> SUFFICES ASSUME NEW i \in Index
               PROVE  \/ Content(i)' = Content(i)
                      \/ i >= stackSizei - 1 /\ Content(i)' = NULL
    BY DEF Contents
  <1> USE StackConstants
  <1>0. i \in Nat /\ allocSizei \in Nat /\ stackSizei \in Nat /\ UNCHANGED heap
    BY DEF StackInv, TypeOK, popp
  <1>1. CASE UNCHANGED buffer
    BY <1>0, <1>1 DEF buffer, Content, Deref, Slots
  <1>2. CASE ~UNCHANGED buffer
    <2>1. /\ CanShrink(stackSizei - 1) /\ allocSizei' = allocSizei \div 2
          /\ bufpp' = [j \in Slots(allocSizei \div 2) |-> bufpp[j]]
      BY <1>2 DEF popp
    <2>2. /\ allocSizei' \in Nat /\ allocSizei' <= allocSizei
          /\ stackSizei - 1 <= allocSizei'
      BY <1>0, <2>1 DEF CanShrink
    <2>3. CASE i < allocSizei'
      <3>1. i \in Slots(allocSizei') /\ bufpp'[i] = bufpp[i]
        BY <1>0, <2>1, <2>2, <2>3 DEF Slots
      <3>2. i < allocSizei
        BY <1>0, <2>2, <2>3
      <3> QED
        BY <1>0, <2>3, <3>1, <3>2, ContentOf, ContentOfNext DEF Deref
    <2>4. CASE ~(i < allocSizei')
      BY <1>0, <2>2, <2>4, ContentOfNext
    <2> QED
      BY <2>3, <2>4
  <1> QED
    BY <1>1, <1>2
-----------------------------------------------------------------------------
(* Every step of the stack is a step of the array                          *)

\* The abstract state when nothing the array shows has changed.
LEMMA ArrayStutters ==
  ASSUME UNCHANGED <<stackp, bufpp, allocSizei, heap, stackSizei, ret>>
  PROVE  UNCHANGED Array!vars
  BY SameContents DEF Array!vars, Contents

\* The initial state shows an empty array.
LEMMA ArrayInit == Init => Array!Init
  BY DEF Init, Array!Init, Array!Empty, Content, Slots

\* A call that fails without touching the buffer's contents.
LEMMA ArrayRefuses ==
  ASSUME UNCHANGED <<stackp, stackSizei>>, Contents' = Contents, ret' \in {0, NULL}
  PROVE  Array!Next
  BY DEF Array!Next, Array!Refuse, Contents

\* Pushing an element or NULL appends it.
LEMMA ArrayPushes ==
  ASSUME ArrayInv, StackInv', NEW v \in Values \cup {NULL}, pushi(v)
  PROVE  Array!Next
  <1>1. stackp /\ UNCHANGED stackp /\ ret' = 1 /\ stackSizei' = stackSizei + 1
    BY DEF pushi, pushStore
  <1>2. Contents' = [Contents EXCEPT ![stackSizei] = v]
    <2>1. CASE v = NULL
      BY <1>1, <2>1, PushedContents, StackConstants DEF pushi, ArrayInv
    <2>2. CASE v # NULL
      <3>1. PICK b \in Blocks : /\ heap[b] = FREE
                                /\ heap' = [heap EXCEPT ![b] = v]
                                /\ pushStore(b)
        BY <2>2 DEF pushi
      <3>2. heap'[b] = v /\ \A c \in Blocks : c # b => heap'[c] = heap[c]
        BY <3>1 DEF ArrayInv, StackInv, TypeOK
      <3> QED
        BY <1>1, <3>1, <3>2, PushedContents, StackConstants DEF ArrayInv
    <2> QED
      BY <2>1, <2>2
  <1>3. Array!Push(v)
    BY <1>1, <1>2 DEF Array!Push, Contents
  <1> QED
    BY <1>3 DEF Array!Next

\* One turn of the growth loop appends an unset entry.
LEMMA ArrayGrows ==
  ASSUME ArrayInv, StackInv', grow
  PROVE  Array!Next
  <1>1. stackp /\ UNCHANGED <<stackp, ret, heap>> /\ stackSizei' = stackSizei + 1
        /\ pushStore(NULL)
    BY DEF grow, pushStore, Growing, ArrayInv, StackInv, SizeFitsBuffer
  <1>2. Contents' = [Contents EXCEPT ![stackSizei] = NULL]
    BY <1>1, PushedContents, StackConstants DEF ArrayInv
  <1>3. Array!Grow
    BY <1>1, <1>2 DEF Array!Grow, Contents
  <1> QED
    BY <1>3 DEF Array!Next

\* popp returns the top entry.
LEMMA ArrayPops ==
  ASSUME ArrayInv, StackInv', popp
  PROVE  Array!Next
  <1>1. stackp /\ UNCHANGED stackp /\ stackSizei > 0 /\ stackSizei' = stackSizei - 1
        /\ stackSizei \in Nat /\ ret' = Deref(bufpp[stackSizei - 1])
    BY DEF popp, ArrayInv, StackInv, TypeOK
  <1>2. stackSizei - 1 \in Nat /\ stackSizei - 1 \in Index
    BY <1>1, SizeInIndex DEF ArrayInv
  <1>3. stackSizei - 1 < allocSizei
    BY <1>1 DEF ArrayInv, StackInv, TypeOK, SizeFitsBuffer
  <1>4. ret' = Contents[stackSizei - 1]
    BY <1>1, <1>2, <1>3, ContentOf DEF ArrayInv, Contents
  <1>5. Array!Pop
    BY <1>1, <1>4, PoppedContents DEF Array!Pop, ArrayInv, Contents
  <1> QED
    BY <1>5 DEF Array!Next

\* getp answers the entry, or NULL for an index past the end.
LEMMA ArrayGets ==
  ASSUME ArrayInv, getp
  PROVE  Array!Next
  <1>1. UNCHANGED <<stackp, bufpp, allocSizei, heap, stackSizei>>
    BY DEF getp, buffer
  <1>2. Contents' = Contents
    BY <1>1, SameContents
  <1>3. CASE TooSmall
    BY <1>1, <1>2, <1>3, ArrayRefuses DEF getp
  <1>4. CASE ~TooSmall
    <2>1. stackp /\ call.index \in Slots(allocSizei) /\ call.index \in Nat
      BY <1>4, SlotInside DEF getp, ArrayInv
    <2>2. call # Idle
      BY DEF getp, Idle
    <2>3. call.index \in Index
      BY <2>2, StackConstants DEF ArrayInv, StackInv, TypeOK, Calls
    <2>4. ret' = Contents[call.index]
      BY <1>4, <2>1, <2>3 DEF getp, Contents, Content
    <2>5. Array!Get(call.index)
      BY <1>1, <1>2, <2>1, <2>4 DEF Array!Get, Contents
    <2> QED
      BY <2>3, <2>5 DEF Array!Next
  <1> QED
    BY <1>3, <1>4

\* seti stores the element, and when malloc fails leaves the entry unset.
LEMMA ArraySets ==
  ASSUME ArrayInv, StackInv', seti \/ setiFails
  PROVE  Array!Next
  <1> DEFINE k == call.index
  <1>0. call.op = "set" /\ ~Growing /\ ~TooSmall /\ UNCHANGED <<stackp, allocSizei>>
    BY DEF seti, setiFails
  <1>1. stackp /\ k \in Slots(allocSizei) /\ k \in Nat
    BY <1>0, SlotInside DEF ArrayInv
  <1>2. k \in Index /\ call.elementp \in Values \cup {NULL}
    <2>1. call # Idle
      BY <1>0 DEF Idle
    <2> QED
      BY <2>1, StackConstants DEF ArrayInv, StackInv, TypeOK, Calls
  <1>3. \A b \in Blocks : Released[b] = IF b = bufpp[k] THEN FREE ELSE heap[b]
    BY <1>1, StackConstants DEF Released, ArrayInv, StackInv, TypeOK
  <1>4. Released \in [Blocks -> Values \cup {FREE}]
    BY <1>1, StackConstants DEF Released, ArrayInv, StackInv, TypeOK
  <1>5. ASSUME heap' = Released, bufpp' = [bufpp EXCEPT ![k] = NULL]
        PROVE  Contents' = [Contents EXCEPT ![k] = NULL]
    BY <1>0, <1>1, <1>3, <1>5, SetContents, StackConstants DEF ArrayInv
  <1>6. CASE setiFails
    <2>1. Array!SetFails(k)
      BY <1>1, <1>5, <1>6 DEF setiFails, Array!SetFails, Contents
    <2> QED
      BY <1>2, <2>1 DEF Array!Next
  <1>7. CASE seti
    <2>1. CASE call.elementp = NULL
      <3>1. Array!Set(k, NULL)
        BY <1>1, <1>5, <1>7, <2>1 DEF seti, Array!Set, Contents
      <3> QED
        BY <1>2, <3>1 DEF Array!Next
    <2>2. CASE call.elementp # NULL
      <3>1. PICK b \in Blocks : /\ Released[b] = FREE
                                /\ heap' = [Released EXCEPT ![b] = call.elementp]
                                /\ bufpp' = [bufpp EXCEPT ![k] = b]
        BY <1>7, <2>2 DEF seti
      <3>2. /\ heap'[b] = call.elementp
            /\ \A c \in Blocks : c # b /\ c # bufpp[k] => heap'[c] = heap[c]
            /\ heap[b] = FREE \/ b = bufpp[k]
        BY <1>3, <1>4, <3>1
      <3>3. Contents' = [Contents EXCEPT ![k] = call.elementp]
        <4>1. b # NULL /\ StackInv /\ bufpp' = [bufpp EXCEPT ![k] = b]
          BY <3>1, StackConstants DEF ArrayInv
        <4>2. Contents' = [Contents EXCEPT ![k] = IF b = NULL THEN NULL ELSE heap'[b]]
          BY <1>0, <1>1, <3>2, <4>1, SetContents
        <4> QED
          BY <3>2, <4>1, <4>2
      <3>4. Array!Set(k, call.elementp)
        BY <1>1, <1>7, <3>3 DEF seti, Array!Set, Contents
      <3> QED
        BY <1>2, <3>4 DEF Array!Next
    <2> QED
      BY <2>1, <2>2
  <1> QED
    BY <1>6, <1>7

\* newp shows an empty array, destroyv takes it away.
LEMMA ArrayMadeAndDestroyed ==
  ASSUME (\E e \in ElementSizes, g, s \in BOOLEAN : newp(e, g, s)) \/ destroyv
  PROVE  Array!Next
  <1>1. CASE destroyv
    <2>1. \A i \in Index : Content(i)' = NULL
      BY <1>1 DEF destroyv, Content, Slots
    <2>2. Array!Destroy
      BY <1>1, <2>1 DEF destroyv, Array!Destroy, Array!Empty
    <2> QED
      BY <2>2 DEF Array!Next
  <1>2. ASSUME NEW e \in ElementSizes, NEW g \in BOOLEAN, NEW s \in BOOLEAN, newp(e, g, s)
        PROVE  Array!Next
    <2>1. \A i \in Index : Content(i)' = NULL
      BY <1>2 DEF newp, Content, Slots, Deref
    <2>2. Array!New
      BY <1>2, <2>1 DEF newp, Array!New, Array!Empty
    <2> QED
      BY <2>2 DEF Array!Next
  <1> QED
    BY <1>1, <1>2

\* A step of the stack is a step of the array or none.
LEMMA ArrayStep == ArrayInv /\ ArrayInv' /\ [Next]_vars => [Array!Next]_(Array!vars)
  <1> SUFFICES ASSUME ArrayInv, StackInv', [Next]_vars
               PROVE  [Array!Next]_(Array!vars)
    BY DEF ArrayInv
  <1>1. ASSUME NEW e \in ElementSizes, newpFails(e) PROVE Array!Next
    BY <1>1, SameContents, ArrayRefuses DEF newpFails, buffer
  <1>2. ASSUME NEW e \in ElementSizes, NEW g \in BOOLEAN, NEW s \in BOOLEAN, newp(e, g, s)
        PROVE  Array!Next
    BY <1>2, ArrayMadeAndDestroyed
  <1>3. CASE destroyv
    BY <1>3, ArrayMadeAndDestroyed
  <1>4. CASE callOnNull
    BY <1>4, SameContents, ArrayRefuses DEF callOnNull, buffer
  <1>5. CASE popp
    BY <1>5, ArrayPops
  <1>6. CASE poppEmpty
    BY <1>6, SameContents, ArrayRefuses DEF poppEmpty, buffer
  <1>7. ASSUME NEW v \in Values \cup {NULL}, pushi(v) PROVE Array!Next
    BY <1>7, ArrayPushes
  <1>8. ASSUME NEW v \in Values \cup {NULL}, pushiFails(v) PROVE Array!Next
    <2>1. Contents' = Contents
      <3>1. CASE UNCHANGED buffer
        BY <1>8, <3>1, SameContents DEF pushiFails, buffer
      <3>2. CASE bufpp' = Reserved /\ allocSizei' = PushAlloc
        BY <1>8, <3>2, ReservedContents DEF pushiFails, ArrayInv
      <3> QED
        BY <1>8, <3>1, <3>2 DEF pushiFails
    <2> QED
      BY <1>8, <2>1, ArrayRefuses DEF pushiFails
  <1>9. ASSUME NEW op, NEW i, NEW v, beginCall(op, i, v) PROVE UNCHANGED Array!vars
    BY <1>9, ArrayStutters DEF beginCall, buffer
  <1>10. CASE grow
    BY <1>10, ArrayGrows
  <1>11. CASE getp
    BY <1>11, ArrayGets
  <1>12. CASE setiTooSmall
    BY <1>12, SameContents, ArrayRefuses DEF setiTooSmall, buffer
  <1>13. CASE seti \/ setiFails
    BY <1>13, ArraySets
  <1>14. CASE growFails \/ UNCHANGED vars
    BY <1>14, ArrayStutters DEF growFails, vars
  <1>15. CASE memory
    BY <1>15, ArrayStutters DEF memory, buffer
  <1> QED
    BY <1>1, <1>2, <1>3, <1>4, <1>5, <1>6, <1>7, <1>8, <1>9, <1>10, <1>11, <1>12, <1>13,
       <1>14, <1>15
    DEF Next, Step

\* genericStack.c keeps the promise of SparseArray for every set of blocks,
\* values and indices: whatever allocations fail and however the buffer is
\* grown and halved, a caller sees an array whose unset entries read NULL.
THEOREM StackImplementsArray == Spec => ImplementsArray
  BY ArrayInit, ArrayStep, ArrayInvariant, PTL DEF Spec, ImplementsArray, Array!Spec
=============================================================================
