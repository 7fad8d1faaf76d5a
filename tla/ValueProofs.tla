---------------------------- MODULE ValueProofs ----------------------------
(***************************************************************************)
(* For every number of trees, of steps in a tree and of stack entries:     *)
(* marpaWrapper_vb releases what it allocated wherever it fails, calls the *)
(* result callback with the values of the trees in their order, and        *)
(* answers TRUE only when it has gone through all of them.                 *)
(*                                                                         *)
(* The invariant says for every place of the call which objects exist      *)
(* there (Ladder), how many results were given for the trees begun         *)
(* (Progress), and that the stack holds what the steps taken so far leave  *)
(* on an empty one (Computation).                                          *)
(***************************************************************************)
EXTENDS Value, TLAPS

Setup == {"bocage", "order", "rank", "tree"}
Loop == {"step", "set", "free"}
Return == {"end", "idle"}

Ladder ==
  /\ (valuator => tree) /\ (tree => order) /\ (order => bocage) /\ (stackp => valuator)
  /\ pc \in {"order", "rank", "tree", "next"} \cup Loop => bocage
  /\ pc \in {"rank", "tree", "next"} \cup Loop => order
  /\ pc \in {"next"} \cup Loop => tree
  /\ pc \in Loop => valuator /\ stackp
  /\ pc \in Setup \cup {"next", "idle"} => ~valuator
  /\ pc = "idle" => ~bocage /\ output = NULL
  /\ pc # "end" => ~inputs

Progress ==
  /\ pc \in Setup => treeNo = 0
  /\ pc \in Setup \cup {"next"} => Len(results) = treeNo
  /\ pc \in Loop => /\ treeNo > 0 /\ Len(results) = treeNo - 1
                    /\ stepNo \in 1 .. Len(parse[treeNo].steps) + 1
  /\ pc \in {"set", "free"} => stepNo <= Len(parse[treeNo].steps)
  /\ pc \notin Return => rcb
  /\ pc \in Return => /\ Len(results) <= treeNo
                      /\ rcb => stopped \/ Len(results) = Len(parse)

Computation ==
  /\ pc \in {"step", "set"} => val = parse[treeNo].stacks[stepNo - 1]
  /\ pc = "set" => output = Term(Step)
  /\ pc = "free" => val = parse[treeNo].stacks[stepNo]
  /\ results \in Seq({parse[k].term : k \in DOMAIN parse})
  /\ \A k \in 1 .. Len(results) : results[k] = parse[k].term

\* The type invariant in two parts: the flags, and where the call is.
FlagTypes ==
  /\ bocage \in BOOLEAN /\ order \in BOOLEAN /\ tree \in BOOLEAN /\ valuator \in BOOLEAN
  /\ inputs \in BOOLEAN /\ stackp \in BOOLEAN /\ rcb \in BOOLEAN
  /\ stopped \in BOOLEAN /\ freedGarbage \in BOOLEAN
PlaceTypes ==
  /\ pc \in Setup \cup {"next"} \cup Loop \cup Return
  /\ DOMAIN val = Index /\ size \in Nat
  /\ parse \in Parses \cup {<<>>} /\ treeNo \in 0 .. Len(parse) /\ stepNo \in Nat

ValueInv == FlagTypes /\ PlaceTypes /\ Ladder /\ Progress /\ Computation

\* What libmarpa's trees are: sequences, whose steps are sequences.
LEMMA ParseFacts ==
  ASSUME NEW p \in Parses \cup {<<>>}
  PROVE  /\ Len(p) \in Nat /\ DOMAIN p = 1 .. Len(p)
         /\ \A k \in 1 .. Len(p) : /\ Len(p[k].steps) \in Nat
                                   /\ DOMAIN p[k].steps = 1 .. Len(p[k].steps)
  <1>1. CASE p = <<>>
    BY <1>1
  <1>2. CASE p \in Parses
    <2>1. p \in Seq({p[k] : k \in DOMAIN p}) /\ \A k \in DOMAIN p : p[k].steps \in Seq(Steps)
      BY <1>2, ValueConstants
    <2> QED
      BY <2>1
  <1> QED
    BY <1>1, <1>2

\* Taking a step on the stack of the steps before it.
LEMMA StepTaken ==
  ASSUME NEW p \in Parses, NEW k \in 1 .. Len(p), NEW n \in 1 .. Len(p[k].steps)
  PROVE  p[k].stacks[n] = Taken(p[k].stacks[n - 1], p[k].steps[n])
  <1>1. k \in DOMAIN p /\ n \in DOMAIN p[k].steps
    BY ParseFacts
  <1> QED
    BY <1>1, StepsMakeTerm

\* A tree begins with an empty stack and ends with its term in entry 0.
LEMMA TreeEnds ==
  ASSUME NEW p \in Parses, NEW k \in 1 .. Len(p)
  PROVE  /\ p[k].stacks[0] = [i \in Index |-> NULL]
         /\ p[k].stacks[Len(p[k].steps)][0] = p[k].term
  BY ParseFacts, StepsMakeTerm
-----------------------------------------------------------------------------
\* The call is entered with nothing allocated.
LEMMA Entered ==
  ASSUME ValueInv, NEW p \in Parses, vb(p)
  PROVE  ValueInv'
  <1>1. Len(p) \in Nat
    BY ParseFacts
  <1>2. FlagTypes' /\ PlaceTypes'
    <2>1. FlagTypes'
      BY DEF ValueInv, FlagTypes, vb, objects, stack
    <2>2. DOMAIN val' = Index /\ size' \in Nat
      BY DEF ValueInv, PlaceTypes, vb, stack
    <2>3. treeNo' \in 0 .. Len(parse')
      BY <1>1 DEF vb
    <2> QED
      BY <2>1, <2>2, <2>3 DEF PlaceTypes, Setup, vb
  <1>3. Ladder'
    BY DEF ValueInv, FlagTypes, PlaceTypes, Ladder, Setup, Loop, vb, objects, stack
  <1>4. Progress' /\ Computation'
    BY DEF Progress, Computation, Setup, Loop, Return, vb
  <1> QED
    BY <1>2, <1>3, <1>4 DEF ValueInv

\* Bocage, order, rank and tree: each made beside those it needs.
LEMMA SetUp ==
  ASSUME ValueInv, newBocage \/ newOrder \/ checkOrder \/ newTree
  PROVE  ValueInv'
  <1>0. Len(parse) \in Nat
    BY ParseFacts DEF ValueInv, FlagTypes, PlaceTypes
  <1>1. /\ pc \in Setup /\ pc' \in {"order", "rank", "tree", "next", "end"}
        /\ UNCHANGED <<valuator, inputs, stack, output, position, outcome>>
        /\ \/ UNCHANGED rcb /\ pc' # "end"
           \/ rcb' = FALSE /\ pc' = "end"
    BY DEF newBocage, newOrder, checkOrder, newTree, proceed, fail, Setup
  <1>2. FlagTypes' /\ PlaceTypes'
    <2>1. bocage' \in BOOLEAN /\ order' \in BOOLEAN /\ tree' \in BOOLEAN
      BY DEF ValueInv, FlagTypes, newBocage, newOrder, checkOrder, newTree, objects
    <2> QED
      BY <1>1, <2>1 DEF ValueInv, FlagTypes, PlaceTypes, Setup, Return, stack, position, outcome
  <1>3. Ladder'
    <2>1. CASE newBocage
      BY <2>1 DEF ValueInv, Ladder, Setup, Loop, newBocage, proceed, fail, stack
    <2>2. CASE newOrder
      BY <2>2 DEF ValueInv, Ladder, Setup, Loop, newOrder, proceed, fail, stack
    <2>3. CASE checkOrder
      BY <2>3 DEF ValueInv, Ladder, Setup, Loop, checkOrder, proceed, fail, stack, objects
    <2>4. CASE newTree
      BY <2>4 DEF ValueInv, Ladder, Setup, Loop, newTree, proceed, fail, stack
    <2> QED
      BY <2>1, <2>2, <2>3, <2>4
  <1>4. Progress'
    BY <1>0, <1>1 DEF ValueInv, Progress, Setup, Loop, Return, position, outcome
  <1>5. Computation'
    BY <1>1 DEF ValueInv, Computation, position, outcome
  <1> QED
    BY <1>2, <1>3, <1>4, <1>5 DEF ValueInv

\* A tree is begun: its valuator and an empty stack, or none of its results.
LEMMA TreeBegun ==
  ASSUME ValueInv, nextTree
  PROVE  ValueInv'
  <1>0. /\ Len(parse) \in Nat /\ treeNo \in Nat /\ pc = "next" /\ treeNo < Len(parse)
        /\ treeNo' = treeNo + 1 /\ treeNo' \in 1 .. Len(parse) /\ stepNo' = 1
        /\ UNCHANGED <<parse, results, stopped, freedGarbage, bocage, order, tree, inputs, output>>
        /\ Len(results) = treeNo /\ ~valuator /\ ~stackp /\ bocage /\ order /\ tree
    BY ParseFacts DEF ValueInv, FlagTypes, PlaceTypes, nextTree, outcome, objects, Progress, Setup, Ladder
  <1>1. parse \in Parses /\ Len(parse[treeNo'].steps) \in Nat
    BY <1>0, ParseFacts DEF ValueInv, FlagTypes, PlaceTypes
  <1>2. \/ /\ pc' = "step" /\ UNCHANGED rcb /\ valuator' = TRUE /\ stackp' = TRUE
           /\ val' = [k \in Index |-> NULL] /\ size' = 0
        \/ /\ pc' = "end" /\ rcb' = FALSE /\ valuator' \in BOOLEAN
           /\ UNCHANGED <<stackp, val, size>>
    BY DEF nextTree, proceed, fail, Stack!New, Stack!Refuse, Stack!Empty, stack
  <1>3. FlagTypes' /\ PlaceTypes'
    <2>1. FlagTypes'
      BY <1>0, <1>2 DEF ValueInv, FlagTypes
    <2>2. DOMAIN val' = Index /\ size' \in Nat
      BY <1>2 DEF ValueInv, PlaceTypes
    <2> QED
      BY <1>0, <1>2, <2>1, <2>2 DEF ValueInv, PlaceTypes, Setup, Loop, Return
  <1>4. Ladder'
    BY <1>0, <1>2 DEF ValueInv, Ladder, Setup, Loop
  <1>5. Progress'
    <2>1. Len(results') = treeNo' - 1 /\ treeNo' > 0
      BY <1>0
    <2>2. stepNo' \in 1 .. Len(parse'[treeNo'].steps) + 1
      BY <1>0, <1>1
    <2>3. Len(results') <= treeNo'
      BY <1>0
    <2>4. rcb
      BY <1>0 DEF ValueInv, Progress, Return
    <2>5. CASE pc' = "step"
      BY <1>2, <2>1, <2>2, <2>4, <2>5 DEF Progress, Setup, Loop, Return
    <2>6. CASE pc' = "end"
      BY <1>2, <2>3, <2>6 DEF Progress, Setup, Loop, Return
    <2> QED
      BY <1>2, <2>5, <2>6
  <1>6. Computation'
    BY <1>0, <1>1, <1>2, TreeEnds DEF ValueInv, Computation
  <1> QED
    BY <1>3, <1>4, <1>5, <1>6 DEF ValueInv

\* The last tree was valued.
LEMMA TreesDone ==
  ASSUME ValueInv, noMoreTrees
  PROVE  ValueInv'
  <1>0. /\ Len(parse) \in Nat /\ pc = "next" /\ treeNo = Len(parse) /\ pc' = "end"
        /\ UNCHANGED <<objects, valuator, inputs, stack, output, position, outcome, rcb>>
    BY ParseFacts DEF ValueInv, FlagTypes, PlaceTypes, noMoreTrees, Paused, Ladder, proceed
  <1>1. FlagTypes' /\ PlaceTypes'
    BY <1>0 DEF ValueInv, FlagTypes, PlaceTypes, Setup, Loop, Return, objects, stack, position, outcome
  <1>2. Ladder'
    BY <1>0 DEF ValueInv, Ladder, Setup, Loop, objects, stack
  <1>3. Progress'
    BY <1>0 DEF ValueInv, Progress, Setup, Loop, Return, position, outcome
  <1>4. Computation'
    BY <1>0 DEF ValueInv, Computation, position, outcome
  <1> QED
    BY <1>1, <1>2, <1>3, <1>4 DEF ValueInv

\* A step of a tree: the callback, the result stored, the original released.
LEMMA StepOfTree ==
  ASSUME ValueInv, callback \/ setResult \/ freeOutput
  PROVE  ValueInv'
  <1>0. /\ Len(parse) \in Nat /\ treeNo \in 1 .. Len(parse) /\ parse \in Parses
        /\ Len(parse[treeNo].steps) \in Nat /\ stepNo \in 1 .. Len(parse[treeNo].steps)
        /\ pc \in Loop /\ UNCHANGED <<objects, valuator, stackp, parse, treeNo, outcome>>
        /\ Len(results) = treeNo - 1
    <2>1. pc \in Loop /\ UNCHANGED <<objects, valuator, stackp, parse, treeNo, outcome>>
      BY DEF callback, setResult, freeOutput, Loop, stack, position, proceed, fail,
             Stack!Set, Stack!SetFails, Stack!Refuse
    <2>2. treeNo > 0 /\ stepNo \in 1 .. Len(parse[treeNo].steps) + 1 /\ Len(results) = treeNo - 1
      BY <2>1 DEF ValueInv, Progress
    <2>3. Len(parse) \in Nat /\ treeNo \in 1 .. Len(parse)
      BY <2>2, ParseFacts DEF ValueInv, FlagTypes, PlaceTypes
    <2>4. Len(parse[treeNo].steps) \in Nat /\ parse \in Parses
      BY <2>3, ParseFacts DEF ValueInv, FlagTypes, PlaceTypes
    <2>5. stepNo <= Len(parse[treeNo].steps)
      BY <2>2, <2>4 DEF ValueInv, Progress, callback, setResult, freeOutput, Finished
    <2> QED
      BY <2>1, <2>2, <2>3, <2>4, <2>5
  <1>1. \/ pc' \in Loop /\ UNCHANGED <<rcb, inputs>>
        \/ pc' = "end" /\ rcb' = FALSE /\ inputs' \in BOOLEAN
    BY DEF ValueInv, FlagTypes, PlaceTypes, callback, setResult, freeOutput, proceed, fail, Loop
  <1>2. /\ DOMAIN val' = Index /\ size' \in Nat /\ stepNo' \in {stepNo, stepNo + 1}
    <2>1. CASE callback \/ freeOutput
      BY <2>1 DEF ValueInv, FlagTypes, PlaceTypes, callback, freeOutput, stack, position, proceed, fail
    <2>2. CASE setResult
      <3>1. Step.result \in Nat
        <4>1. Step \in Steps
          <5>1. treeNo \in DOMAIN parse /\ parse[treeNo].steps \in Seq(Steps)
            BY <1>0, ParseFacts, ValueConstants
          <5> QED
            BY <1>0, <5>1 DEF Step
        <4> QED
          BY <4>1, ValueConstants DEF Steps
      <3> QED
        BY <2>2, <3>1 DEF ValueInv, FlagTypes, PlaceTypes, setResult, position, proceed, fail,
                          Stack!Set, Stack!SetFails, Stack!Refuse
    <2> QED
      BY <2>1, <2>2
  <1>3. FlagTypes' /\ PlaceTypes'
    <2>1. FlagTypes'
      BY <1>0, <1>1 DEF ValueInv, FlagTypes, objects, outcome
    <2> QED
      BY <1>0, <1>1, <1>2, <2>1 DEF ValueInv, PlaceTypes, Setup, Loop, Return
  <1>4. Ladder'
    BY <1>0, <1>1 DEF ValueInv, Ladder, Setup, Loop, objects
  <1>5. pc' # "end" => \/ pc = "step" /\ pc' = "set" /\ UNCHANGED stepNo
                       \/ pc = "set" /\ pc' = "free" /\ UNCHANGED stepNo
                       \/ pc = "free" /\ pc' = "step" /\ stepNo' = stepNo + 1
    BY DEF callback, setResult, freeOutput, proceed, fail, position
  <1>6. Progress'
    BY <1>0, <1>1, <1>2, <1>5 DEF ValueInv, Progress, Setup, Loop, Return, outcome
  <1>7. Computation'
    <2>1. UNCHANGED <<parse, results, treeNo>>
      BY <1>0 DEF outcome
    <2>2. CASE pc' = "end"
      BY <2>1, <2>2 DEF ValueInv, Computation
    <2>3. CASE pc = "step" /\ pc' = "set"
      <3>1. output' = Term(Step) /\ UNCHANGED <<val, stepNo>>
        BY <2>3 DEF callback, setResult, freeOutput, proceed, fail, stack, position
      <3>2. Term(Step)' = Term(Step)
        BY <2>1, <3>1 DEF Term, Step
      <3> QED
        BY <2>1, <2>3, <3>1, <3>2 DEF ValueInv, Computation
    <2>4. CASE pc = "set" /\ pc' = "free"
      <3>1. val' = [val EXCEPT ![Step.result] = Term(Step)] /\ UNCHANGED stepNo
        BY <2>4 DEF ValueInv, Computation, callback, setResult, freeOutput, proceed, fail,
                    position, Stack!Set
      <3>2. val' = parse[treeNo].stacks[stepNo]
        <4>1. val = parse[treeNo].stacks[stepNo - 1]
          BY <2>4 DEF ValueInv, Computation
        <4> QED
          <5>1. parse[treeNo].stacks[stepNo] = Taken(parse[treeNo].stacks[stepNo - 1], Step)
            BY <1>0, StepTaken DEF Step
          <5>2. val' = Taken(val, Step)
            BY <3>1 DEF Taken, Term
          <5> QED
            BY <4>1, <5>1, <5>2
      <3>3. /\ results \in Seq({parse[k].term : k \in DOMAIN parse})
            /\ \A k \in 1 .. Len(results) : results[k] = parse[k].term
        BY DEF ValueInv, Computation
      <3> QED
        <4>1. val' = parse'[treeNo'].stacks[stepNo']
          BY <2>1, <3>1, <3>2
        <4> QED
          BY <2>1, <2>4, <3>3, <4>1 DEF Computation
    <2>5. CASE pc = "free" /\ pc' = "step"
      <3>1. stepNo' = stepNo + 1 /\ stepNo' - 1 = stepNo /\ UNCHANGED val
        BY <1>0, <2>5 DEF callback, setResult, freeOutput, proceed, fail, stack
      <3> QED
        BY <2>1, <2>5, <3>1 DEF ValueInv, Computation
    <2> QED
      BY <1>5, <2>2, <2>3, <2>4, <2>5
  <1> QED
    BY <1>3, <1>4, <1>6, <1>7 DEF ValueInv

\* The result of a tree is its term.
LEMMA TreeValued ==
  ASSUME ValueInv, result
  PROVE  ValueInv'
  <1>0. /\ Len(parse) \in Nat /\ treeNo \in 1 .. Len(parse) /\ parse \in Parses
        /\ pc = "step" /\ stepNo = Len(parse[treeNo].steps) + 1
        /\ stepNo - 1 = Len(parse[treeNo].steps) /\ Len(results) = treeNo - 1
    <2>1. pc = "step" /\ Finished
      BY DEF result
    <2>2. treeNo > 0 /\ stepNo \in 1 .. Len(parse[treeNo].steps) + 1 /\ Len(results) = treeNo - 1
      BY <2>1 DEF ValueInv, Progress, Loop
    <2>3. Len(parse) \in Nat /\ treeNo \in 1 .. Len(parse)
      BY <2>2, ParseFacts DEF ValueInv, FlagTypes, PlaceTypes
    <2>4. Len(parse[treeNo].steps) \in Nat /\ parse \in Parses
      BY <2>3, ParseFacts DEF ValueInv, FlagTypes, PlaceTypes
    <2> QED
      BY <2>1, <2>2, <2>3, <2>4 DEF Finished
  <1>1. val[0] = parse[treeNo].term
    BY <1>0, TreeEnds DEF ValueInv, Computation
  <1>2. /\ results' = Append(results, parse[treeNo].term)
        /\ UNCHANGED <<bocage, order, tree, inputs, parse, treeNo, stepNo, freedGarbage>>
        /\ output' = NULL
    BY <1>1 DEF result, objects, position
  <1>3. /\ results \in Seq({parse[k].term : k \in DOMAIN parse})
        /\ parse[treeNo].term \in {parse[k].term : k \in DOMAIN parse}
    BY <1>0, ParseFacts DEF ValueInv, Computation
  <1>4. /\ results' \in Seq({parse[k].term : k \in DOMAIN parse}) /\ Len(results') = treeNo
        /\ \A k \in 1 .. Len(results) : results'[k] = results[k]
        /\ results'[treeNo] = parse[treeNo].term
    BY <1>0, <1>2, <1>3
  <1>5. \/ /\ pc' = "end" /\ UNCHANGED <<stackp, val, size, valuator>>
           /\ \/ rcb' = FALSE /\ UNCHANGED stopped
              \/ UNCHANGED rcb /\ stopped' = TRUE
        \/ /\ pc' = "next" /\ UNCHANGED <<rcb, stopped>> /\ stackp' = FALSE /\ valuator' = FALSE
           /\ val' = [k \in Index |-> NULL] /\ size' = 0
    BY DEF result, proceed, fail, stack, Stack!Destroy, Stack!Empty
  <1>6. FlagTypes' /\ PlaceTypes'
    <2>1. FlagTypes'
      BY <1>2, <1>5 DEF ValueInv, FlagTypes
    <2>2. DOMAIN val' = Index /\ size' \in Nat
      BY <1>5 DEF ValueInv, PlaceTypes
    <2> QED
      BY <1>2, <1>5, <2>1, <2>2 DEF ValueInv, PlaceTypes, Setup, Loop, Return
  <1>7. Ladder'
    BY <1>0, <1>2, <1>5 DEF ValueInv, Ladder, Setup, Loop
  <1>8. Progress'
    <2>1. Len(results') = treeNo' /\ rcb /\ Len(results') <= treeNo'
      BY <1>0, <1>2, <1>4 DEF ValueInv, Progress, Return
    <2>2. CASE pc' = "end"
      BY <1>5, <2>1, <2>2 DEF Progress, Setup, Loop, Return
    <2>3. CASE pc' = "next"
      BY <1>5, <2>1, <2>3 DEF Progress, Setup, Loop, Return
    <2> QED
      BY <1>5, <2>2, <2>3
  <1>9. Computation'
    <2>1. \A k \in 1 .. Len(results') : results'[k] = parse[k].term
      <3> SUFFICES ASSUME NEW k \in 1 .. Len(results') PROVE results'[k] = parse[k].term
        OBVIOUS
      <3>1. k = treeNo \/ k \in 1 .. Len(results)
        BY <1>0, <1>4
      <3> QED
        BY <1>4, <3>1 DEF ValueInv, Computation
    <2> QED
      BY <1>2, <1>4, <1>5, <2>1 DEF Computation
  <1> QED
    BY <1>6, <1>7, <1>8, <1>9 DEF ValueInv

\* The end label releases whatever exists.
LEMMA Released ==
  ASSUME ValueInv, release
  PROVE  ValueInv'
  <1>0. /\ pc = "end" /\ pc' = "idle" /\ output' = NULL /\ inputs' = FALSE
        /\ valuator' = FALSE /\ tree' = FALSE /\ order' = FALSE /\ bocage' = FALSE
        /\ UNCHANGED <<parse, treeNo, stepNo, rcb, results, stopped>>
        /\ freedGarbage' \in BOOLEAN
    BY DEF release, position
  <1>1. stackp' = FALSE /\ DOMAIN val' = Index /\ size' \in Nat
    BY DEF release, ValueInv, FlagTypes, PlaceTypes, stack, Stack!Destroy, Stack!Empty
  <1>2. FlagTypes' /\ PlaceTypes'
    BY <1>0, <1>1 DEF ValueInv, FlagTypes, PlaceTypes, Setup, Loop, Return
  <1>3. Ladder'
    BY <1>0, <1>1 DEF Ladder, Setup, Loop
  <1>4. Progress'
    BY <1>0 DEF ValueInv, Progress, Setup, Loop, Return
  <1>5. Computation'
    BY <1>0 DEF ValueInv, Computation
  <1> QED
    BY <1>2, <1>3, <1>4, <1>5 DEF ValueInv
-----------------------------------------------------------------------------
\* The invariant holds in every reachable state.
LEMMA ValueInvariant == Spec => []ValueInv
  <1>1. Init => ValueInv
    <2> SUFFICES ASSUME Init PROVE ValueInv
      OBVIOUS
    <2>1. FlagTypes /\ Ladder
      BY DEF Init, FlagTypes, Ladder, Setup, Loop
    <2>2. PlaceTypes /\ Progress /\ Computation
      BY DEF Init, PlaceTypes, Progress, Computation, Setup, Loop, Return
    <2> QED
      BY <2>1, <2>2 DEF ValueInv
  <1>2. ValueInv /\ [Next]_vars => ValueInv'
    <2> SUFFICES ASSUME ValueInv, [Next]_vars PROVE ValueInv'
      OBVIOUS
    <2>1. CASE UNCHANGED vars
      BY <2>1 DEF vars, objects, stack, position, outcome, ValueInv, FlagTypes, PlaceTypes, Ladder,
                  Progress, Computation, Setup, Loop, Return, Term, Step
    <2> QED
      BY <2>1, Entered, SetUp, TreeBegun, TreesDone, StepOfTree, TreeValued, Released
      DEF Next, Running
  <1> QED
    BY <1>1, <1>2, PTL DEF Spec

\* Wherever vb fails, it returns with nothing left allocated, and libmarpa's
\* objects exist only beside those they were made from.
THEOREM VbReleases == Spec => []AllReleased
  <1>1. ValueInv => AllReleased
    BY DEF ValueInv, Ladder, AllReleased, FlagTypes, PlaceTypes, ValueTypeOK, Setup, Loop, Return
  <1> QED
    BY <1>1, ValueInvariant, PTL

\* The result callback gets the value of every tree, in the order of the trees.
THEOREM VbValuesTrees == Spec => []ResultsAreTreeValues
  <1>1. ValueInv => ResultsAreTreeValues
    <2> SUFFICES ASSUME ValueInv PROVE ResultsAreTreeValues
      OBVIOUS
    <2>1. Len(parse) \in Nat /\ treeNo \in 0 .. Len(parse) /\ Len(results) <= treeNo
      BY ParseFacts DEF ValueInv, FlagTypes, PlaceTypes, Progress, Setup, Loop, Return
    <2>2. Len(results) \in Nat /\ DOMAIN results = 1 .. Len(results)
      BY DEF ValueInv, Computation
    <2> QED
      BY <2>1, <2>2 DEF ValueInv, Computation, ResultsAreTreeValues
  <1> QED
    BY <1>1, ValueInvariant, PTL

\* An answer TRUE means that every tree was valued or the callback said stop.
THEOREM VbCompletes == Spec => []SuccessIsComplete
  <1>1. ValueInv => SuccessIsComplete
    BY DEF ValueInv, Progress, Return, SuccessIsComplete
  <1> QED
    BY <1>1, ValueInvariant, PTL
=============================================================================
