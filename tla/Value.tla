------------------------------- MODULE Value -------------------------------
(***************************************************************************)
(* marpaWrapper_vb in src/src/marpaWrapper.c: the value phase.  One call   *)
(* builds libmarpa's bocage, order and tree, then for every parse tree a   *)
(* valuator and a genericStack on which the user's callbacks compute; any  *)
(* failure jumps to marpaWrapper_v_end_label, which releases what exists.  *)
(*                                                                         *)
(* The stack is the array of SparseArray, which GenericStack implements.   *)
(* libmarpa's valuator is external: a tree is the sequence of steps it     *)
(* tells vb to take.  The callbacks build terms, so that the result of a   *)
(* tree can be compared with the term it stands for.  What libmarpa        *)
(* promises of the steps is that, taken one after the other on an empty    *)
(* array, they leave that term in entry 0: stacks[n] is the array after    *)
(* the first n of them.                                                    *)
(***************************************************************************)
EXTENDS Integers, Sequences

CONSTANTS
  Parses,          \* the sequences of trees marpa_t_next can go through
  Index, NULL,     \* the indices of the stack, and what an unset entry reads
  GARBAGE          \* what an uninitialized pointer holds

Steps == [kind : {"rule", "token", "nulling"}, name : STRING, first : Nat, last : Nat,
          result : Index]

ASSUME ValueConstants ==
  /\ Index \subseteq Nat /\ NULL # GARBAGE
  /\ \A p \in Parses : /\ p \in Seq({p[k] : k \in DOMAIN p})
                       /\ \A k \in DOMAIN p : p[k].steps \in Seq(Steps)
  /\ \A p \in Parses : \A k \in DOMAIN p : \A n \in DOMAIN p[k].steps :
        p[k].steps[n].first .. p[k].steps[n].last \subseteq Index

\* The callback of a step, on an array: a rule's gets the entries of its range.
TermOn(array, step) == IF step.kind = "rule"
                       THEN <<step.name>> \o [i \in 1 .. step.last - step.first + 1 |->
                                                array[step.first + i - 1]]
                       ELSE <<step.name>>

\* A step taken on an array.
Taken(array, step) == [array EXCEPT ![step.result] = TermOn(array, step)]

\* The steps of a tree leave its term in entry 0.
ASSUME StepsMakeTerm ==
  \A p \in Parses : \A k \in DOMAIN p :
     LET t == p[k] IN
     /\ t.stacks[0] = [i \in Index |-> NULL]
     /\ \A n \in DOMAIN t.steps : t.stacks[n] = Taken(t.stacks[n - 1], t.steps[n])
     /\ t.stacks[Len(t.steps)][0] = t.term

VARIABLES
  pc,              \* where the call is
  bocage, order, tree, valuator, inputs,  \* the pointer is not NULL
  stackp, val, size, stackRet,            \* the stack, and its last answer
  output,          \* valueOutputp
  parse, treeNo, stepNo,
  rcb,
  results,         \* what valueResultCallbackp was called with
  stopped,         \* it answered STOP
  freedGarbage     \* ghost: free() was called on a pointer never assigned

objects == <<bocage, order, tree>>
stack == <<stackp, val, size, stackRet>>
position == <<parse, treeNo, stepNo>>
outcome == <<results, stopped, freedGarbage>>
vars == <<pc, objects, valuator, inputs, stack, output, position, rcb, outcome>>

Stack == INSTANCE SparseArray WITH live <- stackp, ret <- stackRet, Values <- {}

Init ==
  /\ pc = "idle"
  /\ bocage = FALSE /\ order = FALSE /\ tree = FALSE /\ valuator = FALSE /\ inputs = FALSE
  /\ stackp = FALSE /\ val = [i \in Index |-> NULL] /\ size = 0 /\ stackRet = NULL
  /\ output = NULL /\ parse = <<>> /\ treeNo = 0 /\ stepNo = 0
  /\ rcb = TRUE /\ results = <<>> /\ stopped = FALSE /\ freedGarbage = FALSE

ValueTypeOK ==
  /\ pc \in {"idle", "bocage", "order", "rank", "tree", "next", "step", "set", "free", "end"}
  /\ bocage \in BOOLEAN /\ order \in BOOLEAN /\ tree \in BOOLEAN /\ valuator \in BOOLEAN
  /\ inputs \in BOOLEAN /\ stackp \in BOOLEAN /\ rcb \in BOOLEAN
  /\ stopped \in BOOLEAN /\ freedGarbage \in BOOLEAN
  /\ DOMAIN val = Index /\ size \in Nat
  /\ parse \in Parses \cup {<<>>} /\ treeNo \in 0 .. Len(parse) /\ stepNo \in Nat

\* Mutant: goto without rcb = FALSE.
failSilently == pc' = "end" /\ UNCHANGED rcb

\* rcb = FALSE; goto marpaWrapper_v_end_label
fail == pc' = "end" /\ rcb' = FALSE
proceed(where) == pc' = where /\ UNCHANGED rcb
-----------------------------------------------------------------------------
(* Up to the tree                                                          *)

\* valueOutputp is declared without a value: it holds whatever was there.
vb(p) ==
  /\ pc = "idle"
  /\ pc' = "bocage" /\ rcb' = TRUE
  /\ output' \in {NULL, GARBAGE}
  /\ parse' = p /\ treeNo' = 0 /\ stepNo' = 0
  /\ results' = <<>> /\ stopped' = FALSE /\ freedGarbage' = FALSE
  /\ UNCHANGED <<objects, valuator, inputs, stack>>

\* No recognizer, no stack option, or no parse up to the latest Earley set.
newBocage ==
  /\ pc = "bocage"
  /\ \/ proceed("order") /\ bocage' = TRUE
     \/ fail /\ UNCHANGED bocage
  /\ UNCHANGED <<order, tree, valuator, inputs, stack, output, position, outcome>>

newOrder ==
  /\ pc = "order"
  /\ \/ proceed("rank") /\ order' = TRUE
     \/ fail /\ UNCHANGED order
  /\ UNCHANGED <<bocage, tree, valuator, inputs, stack, output, position, outcome>>

\* Ranking, and the parse being ambiguous or null against the options.
checkOrder ==
  /\ pc = "rank"
  /\ proceed("tree") \/ fail
  /\ UNCHANGED <<objects, valuator, inputs, stack, output, position, outcome>>

newTree ==
  /\ pc = "tree"
  /\ \/ proceed("next") /\ tree' = TRUE
     \/ fail /\ UNCHANGED tree
  /\ UNCHANGED <<bocage, order, valuator, inputs, stack, output, position, outcome>>
-----------------------------------------------------------------------------
(* One tree                                                                *)

Step == parse[treeNo].steps[stepNo]
Finished == stepNo > Len(parse[treeNo].steps)

\* marpa_t_next refuses a tree that still has a valuator.
Paused == valuator

\* The next tree gets a valuator and a stack of its own.
nextTree ==
  /\ pc = "next" /\ treeNo < Len(parse) /\ ~Paused
  /\ treeNo' = treeNo + 1 /\ stepNo' = 1
  /\ \/ proceed("step") /\ valuator' = TRUE /\ Stack!New
     \/ fail /\ valuator' = FALSE /\ UNCHANGED stack   \* marpa_v_new
     \/ fail /\ valuator' = TRUE /\ UNCHANGED stack    \* marpa_v_valued_force
     \/ fail /\ valuator' = TRUE /\ Stack!Refuse       \* genericStack_newp
  /\ UNCHANGED <<objects, inputs, output, parse, outcome>>

\* Any negative answer ends the loop, the one for a paused tree included.
noMoreTrees ==
  /\ pc = "next" /\ (treeNo = Len(parse) \/ Paused)
  /\ proceed("end")
  /\ UNCHANGED <<objects, valuator, inputs, stack, output, position, outcome>>

\* Mutant: the arguments are gathered from the last one down.
TermReversed(step) == IF step.kind = "rule"
                      THEN <<step.name>> \o [i \in 1 .. step.last - step.first + 1 |->
                                               val[step.last - i + 1]]
                      ELSE <<step.name>>

\* What the callback of a step makes of its arguments.
Term(step) == TermOn(val, step)

\* A step up to and including its callback.  A rule's arguments are gathered
\* in an array that is freed when the callback succeeds.  A callback that
\* fails may have set valueOutputp or not.
callback ==
  /\ pc = "step" /\ ~Finished
  /\ \/ proceed("set") /\ output' = Term(Step) /\ UNCHANGED inputs
     \/ fail /\ output' \in {NULL, Term(Step)} /\ inputs' = (Step.kind = "rule")
     \/ Step.kind = "rule" /\ fail /\ output' = NULL /\ UNCHANGED inputs   \* malloc
  /\ UNCHANGED <<objects, valuator, stack, position, outcome>>

\* genericStack_seti copies *valueOutputp into the stack.
setResult ==
  /\ pc = "set"
  /\ \/ proceed("free") /\ Stack!Set(Step.result, output)
     \/ fail /\ (Stack!SetFails(Step.result) \/ Stack!Refuse)
  /\ UNCHANGED <<objects, valuator, inputs, output, position, outcome>>

\* Mutant: the step is taken again.
freeOutputSameStep ==
  /\ pc = "free"
  /\ proceed("step") /\ output' = NULL
  /\ UNCHANGED <<objects, valuator, inputs, stack, position, outcome>>

\* The original is released by the user's callback and free().
freeOutput ==
  /\ pc = "free"
  /\ \/ proceed("step") /\ output' = NULL /\ stepNo' = stepNo + 1
     \/ fail /\ UNCHANGED <<output, stepNo>>
  /\ UNCHANGED <<objects, valuator, inputs, stack, parse, treeNo, outcome>>

\* MARPA_STEP_INACTIVE: valueOutputp = NULL, and the result is stack element 0.
result ==
  /\ pc = "step" /\ Finished
  /\ output' = NULL
  /\ results' = Append(results, val[0])
  /\ \/ fail /\ UNCHANGED <<stack, valuator, stopped>>
     \/ proceed("end") /\ stopped' = TRUE /\ UNCHANGED <<stack, valuator>>
     \/ proceed("next") /\ Stack!Destroy /\ valuator' = FALSE /\ UNCHANGED stopped
  /\ UNCHANGED <<objects, inputs, position, freedGarbage>>

\* Mutant: valueInputArraypp is not freed.
releaseButInputs ==
  /\ pc = "end"
  /\ pc' = "idle"
  /\ freedGarbage' = (output = GARBAGE)
  /\ output' = NULL
  /\ IF stackp THEN Stack!Destroy ELSE UNCHANGED stack
  /\ valuator' = FALSE /\ tree' = FALSE /\ order' = FALSE /\ bocage' = FALSE
  /\ UNCHANGED <<inputs, position, rcb, results, stopped>>

\* marpaWrapper_v_end_label
release ==
  /\ pc = "end"
  /\ pc' = "idle"
  /\ freedGarbage' = (output = GARBAGE)
  /\ output' = NULL /\ inputs' = FALSE
  /\ IF stackp THEN Stack!Destroy ELSE UNCHANGED stack
  /\ valuator' = FALSE /\ tree' = FALSE /\ order' = FALSE /\ bocage' = FALSE
  /\ UNCHANGED <<position, rcb, results, stopped>>

Running ==
  \/ newBocage \/ newOrder \/ checkOrder \/ newTree \/ nextTree \/ noMoreTrees
  \/ callback \/ setResult \/ freeOutput \/ result \/ release

Next == Running \/ \E p \in Parses : vb(p)

Spec == Init /\ [][Next]_vars

\* The call goes on once entered, and the callbacks it makes return.
FairSpec == Spec /\ WF_vars(Running)
-----------------------------------------------------------------------------
(* Properties                                                              *)

\* Whatever failed, vb returns with nothing left allocated; and while it runs,
\* libmarpa's objects exist only beside those they were made from, and the
\* variables keep their types.
AllReleased ==
  /\ ValueTypeOK
  /\ pc = "idle" => ~bocage /\ ~inputs /\ ~stackp /\ output = NULL
  /\ (valuator => tree) /\ (tree => order) /\ (order => bocage)
  /\ stackp => valuator

\* valueResultCallbackp is called with the value of each tree, in the order of
\* the trees: the arguments of every rule were those its children left on the
\* stack, and nothing of an earlier tree is seen.
ResultsAreTreeValues ==
  /\ Len(results) <= Len(parse)
  /\ \A k \in DOMAIN results : results[k] = parse[k].term

\* vb answers TRUE only when every tree was valued, or the result callback
\* asked to stop.
SuccessIsComplete ==
  pc = "idle" /\ rcb => stopped \/ Len(results) = Len(parse)

\* The call returns.
VbReturns == pc # "idle" ~> pc = "idle"

\* "if (valueOutputp != NULL) free(valueOutputp);" at the end label only ever
\* frees what a callback returned.
FreesOnlyOutputs == ~freedGarbage
=============================================================================
