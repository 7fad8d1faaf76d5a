----------------------------- MODULE MarpaTree -----------------------------
(***************************************************************************)
(* Parse trees one after another out of an ordered bocage, and the steps   *)
(* that tell a caller how to evaluate one.                                 *)
(*                                                                         *)
(* A tree is a stack of nooks. A nook is an or-node with the and-node      *)
(* chosen for it, the nook it hangs on, and whether it is there as the     *)
(* cause or the predecessor of that nook.                                  *)
(***************************************************************************)
EXTENDS MarpaBocage

marpa_t_new(o) ==
  [o |-> [o EXCEPT !.frozen = TRUE], nulling |-> o.b.nulling, nooks |-> <<>>, inUse |-> {},
   exhausted |-> FALSE, paused |-> 0, parseCount |-> 0, error |-> "NONE", ret |-> 0]

nook(or, parent, role) ==
  [or |-> or, choice |-> 1, parent |-> parent, role |-> role, cause |-> FALSE, pred |-> FALSE]

and_of_nook(t, k) == and_order_get(t.o, t.nooks[k].or, t.nooks[k].choice)

tree_exhaust(t) == [t EXCEPT !.nooks = <<>>, !.inUse = {}, !.exhausted = TRUE, !.ret = -1]

tree_or_node_release(t, or) == [t EXCEPT !.inUse = @ \ {or}]

(* The last nook with another choice takes it; nooks above it are dropped, *)
(* and what they hung on is to be expanded again.                          *)
RECURSIVE Iterate(_)
Iterate(t) ==
  LET top  == t.nooks[Len(t.nooks)]
      next == [t EXCEPT !.nooks[Len(t.nooks)].choice = @ + 1,
                        !.nooks[Len(t.nooks)].cause = FALSE,
                        !.nooks[Len(t.nooks)].pred = FALSE]
      open == CASE top.role = "cause" -> [t EXCEPT !.nooks[top.parent].cause = FALSE]
                [] top.role = "pred"  -> [t EXCEPT !.nooks[top.parent].pred = FALSE]
                [] OTHER -> t
  IN  IF t.nooks = <<>> THEN t
      ELSE IF and_order_ix_is_valid(t.o, top.or, top.choice + 1) THEN next
      ELSE Iterate([tree_or_node_release(open, top.or) EXCEPT !.nooks = Front(@)])

(* The nooks of the worklist, last first: a cause that is no token and     *)
(* then a predecessor get nooks of their own, until all are expanded. An   *)
(* or-node that is in use already, or has no choice, ends the attempt.     *)
RECURSIVE Expand(_, _)
Expand(t, work) ==
  LET k     == work[Len(work)]
      and   == and_of_nook(t, k)
      role  == IF ~ t.nooks[k].cause /\ and.cause.type = "or" THEN "cause"
               ELSE IF ~ t.nooks[k].pred /\ and.pred # None THEN "pred" ELSE "none"
      child == IF role = "cause" THEN and.cause.or[1] ELSE and.pred[1]
      used  == [t EXCEPT !.inUse = @ \cup {child}]
      grown == [used EXCEPT !.nooks = Append([@ EXCEPT ![k].cause = TRUE,
                                                       ![k].pred = @ \/ role = "pred"],
                                             nook(child, k, role))]
      whole == [t EXCEPT !.nooks[k].cause = TRUE, !.nooks[k].pred = TRUE]
  IN  IF work = <<>> THEN [t EXCEPT !.ret = Len(t.nooks)]
      ELSE IF role = "none" THEN Expand(whole, Front(work))
      ELSE IF child \notin DOMAIN t.o.order THEN [t EXCEPT !.error = "CRASHED", !.ret = -2]
      ELSE IF child \in t.inUse
      THEN [t EXCEPT !.nooks[k].cause = @ \/ role = "pred", !.ret = -3]
      ELSE IF ~ and_order_ix_is_valid(t.o, child, 1)
      THEN [used EXCEPT !.nooks[k].cause = @ \/ role = "pred", !.ret = -3]
      ELSE Expand(grown, Append(work, Len(t.nooks) + 1))

(* A call that gives up on one tree goes on to the next.                   *)
RECURSIVE NextTree(_)
NextTree(t) ==
  LET root  == t.o.b.root[1]
      first == [t EXCEPT !.nooks = <<nook(root, 0, "top")>>, !.inUse = {root}]
      there == IF t.ret = 0 THEN first ELSE Iterate(t)
      tried == Expand(there, [k \in DOMAIN there.nooks |-> k])
  IN  IF there.nooks = <<>> \/ (t.ret = 0 /\ ~ and_order_ix_is_valid(t.o, root, 1))
      THEN tree_exhaust(t)
      ELSE IF tried.ret = -3 THEN NextTree(tried)
      ELSE [tried EXCEPT !.parseCount = @ + 1]

marpa_t_next(t) ==
  IF t.paused > 0 THEN [t EXCEPT !.error = "TREE_PAUSED", !.ret = -2]
  ELSE IF t.exhausted THEN [t EXCEPT !.error = "TREE_EXHAUSTED", !.ret = -1]
  ELSE IF t.nulling /\ t.parseCount = 0 THEN [t EXCEPT !.parseCount = 1, !.ret = 0]
  ELSE IF t.nulling THEN tree_exhaust(t)
  ELSE NextTree([t EXCEPT !.ret = IF t.parseCount < 1 THEN 0 ELSE 1])

tree_pause(t) == [t EXCEPT !.paused = @ + 1]
tree_unpause(t) == [t EXCEPT !.paused = @ - 1]

(***************************************************************************)
(* Values. next is what the valuator looks at in the next step; the step   *)
(* itself is a token, a nulled symbol or a rule, with the places of the    *)
(* caller's stack it takes arguments from and puts its result at.          *)
(***************************************************************************)
NoValue == [next |-> "INACTIVE"]
marpa_v_new(t) ==
  [next |-> "INITIAL", step |-> "INITIAL", nook |-> -1, vstack |-> <<>>, arg0 |-> -1, argN |-> -1,
   result |-> -1, xsy |-> 0, value |-> 0, xrl |-> 0, type |-> "none",
   tokenStart |-> 0, ruleStart |-> 0, set |-> 0,
   valued |-> t.o.b.valued, lockedValued |-> t.o.b.lockedValued, ret |-> 0]
ValueError(t) ==
  IF t.parseCount <= 0 THEN "BEFORE_FIRST_TREE"
  ELSE IF t.exhausted THEN "TREE_EXHAUSTED" ELSE "NONE"

(* A symbol that has the setting already is locked, too.                   *)
symbol_is_valued_set(v, x, value) ==
  LET locked == [v EXCEPT !.lockedValued = @ \cup {x}, !.ret = Flag(value)]
  IN  IF (x \in v.valued) = value THEN locked
      ELSE IF x \in v.lockedValued THEN [v EXCEPT !.ret = -2]
      ELSE [locked EXCEPT !.valued = IF value THEN @ \cup {x} ELSE @ \ {x}]

marpa_v_symbol_is_valued_set(g, v, x, value) ==
  IF x < 1 THEN [v EXCEPT !.ret = -2]
  ELSE IF x \notin XsyIds(g) THEN [v EXCEPT !.ret = -1] ELSE symbol_is_valued_set(v, x, value)
marpa_v_rule_is_valued_set(g, v, r, value) ==
  IF r < 1 THEN [v EXCEPT !.ret = -2]
  ELSE IF r \notin XrlIds(g) THEN [v EXCEPT !.ret = -1]
  ELSE symbol_is_valued_set(v, g.xrl[r].lhs, value)
marpa_v_symbol_is_valued(v, x) == x \in v.valued
marpa_v_rule_is_valued(g, v, r) == g.xrl[r].lhs \in v.valued

(* Stops at a symbol that is locked as unvalued.                           *)
marpa_v_valued_force(g, v) ==
  LET stop == {x \in XsyIds(g) : x \notin v.valued /\ x \in v.lockedValued}
      upto == IF stop = {} THEN Len(g.xsy) ELSE Min(stop) - 1
  IN  [v EXCEPT !.valued = @ \cup (1..upto), !.lockedValued = @ \cup (1..upto),
                !.ret = IF stop = {} THEN Len(g.xsy) ELSE -2]

(* What the and-node of a nook adds to the stack. An unvalued token takes  *)
(* no place.                                                               *)
TakeToken(v0, or, and) ==
  LET v     == [v0 EXCEPT !.argN = @ + 1, !.arg0 = v0.argN + 1]
      start == IF and.pred = None THEN or.origin ELSE and.pred[1].set
  IN  CASE and.cause.type = "token" ->
             [v EXCEPT !.type = "token", !.xsy = and.cause.nsy.xsy, !.value = and.cause.value,
                       !.tokenStart = start]
        [] and.cause.type = "null" /\ and.cause.nsy.xsy \in v.valued ->
             [v EXCEPT !.type = "null", !.xsy = and.cause.nsy.xsy, !.tokenStart = or.set]
        [] and.cause.type = "null" /\ and.cause.nsy.xsy \notin v.valued ->
             [v EXCEPT !.type = "none"]
        [] OTHER -> [v0 EXCEPT !.type = "none"]

(* Mutant: the pieces of a rule cut by rewriting are not added up.         *)
TakeRuleApart(g, v, or) ==
  LET irl   == g.irl[or.irl]
      count == IF irl.vrhs THEN irl.real ELSE Len(irl.rhs)
  IN  IF or.pos < Len(irl.rhs) \/ irl.vlhs THEN v
      ELSE [v EXCEPT !.arg0 = v.argN - count + 1,
                     !.xrl = IF g.xrl[irl.xrl].lhs \in v.valued THEN irl.xrl ELSE 0,
                     !.ruleStart = or.origin]

(* At the end of an internal rule: the symbols of a piece of a rule are    *)
(* counted on the virtual stack, the rule's first piece adds them up.      *)
TakeRule(g, v, or) ==
  LET irl   == g.irl[or.irl]
      depth == Len(v.vstack)
      count == IF irl.vrhs THEN irl.real + v.vstack[depth] ELSE Len(irl.rhs)
  IN  IF or.pos < Len(irl.rhs) THEN v
      ELSE IF irl.vlhs /\ irl.vrhs THEN [v EXCEPT !.vstack[depth] = @ + irl.real]
      ELSE IF irl.vlhs THEN [v EXCEPT !.vstack = Append(@, irl.real)]
      ELSE [v EXCEPT !.vstack = IF irl.vrhs THEN Front(@) ELSE @,
                     !.arg0 = v.argN - count + 1,
                     !.xrl = IF g.xrl[irl.xrl].lhs \in v.valued THEN irl.xrl ELSE 0,
                     !.ruleStart = IF g.xrl[irl.xrl].lhs \in v.valued THEN or.origin ELSE @]

(* Nooks are visited from the last to the first, until one has a step. A   *)
(* rule takes its arguments off the stack: pop says one was complete.      *)
RECURSIVE GetData(_, _, _, _)
GetData(g, t, v0, pop) ==
  LET k    == v0.nook - 1
      v1   == [v0 EXCEPT !.nook = k, !.value = -1, !.xrl = 0]
      or   == t.nooks[k + 1].or
      v2   == [v1 EXCEPT !.argN = IF pop THEN v1.arg0 ELSE @, !.set = or.set]
      v3   == TakeRule(g, TakeToken(v2, or, and_of_nook(t, k + 1)), or)
      done == or.pos = Len(g.irl[or.irl].rhs) /\ ~ g.irl[or.irl].vlhs
  IN  IF k < 0 THEN [v1 EXCEPT !.next = "INACTIVE"]
      ELSE IF v3.xrl > 0 \/ v3.type # "none" THEN [v3 EXCEPT !.next = "TOKEN"]
      ELSE GetData(g, t, v3, done)

StepOf(v, step, next, result) ==
  [v EXCEPT !.step = step, !.ret = step, !.next = next, !.result = result]

NullingStep(g, v) ==
  IF v.next = "INACTIVE" \/ g.start \notin v.valued THEN StepOf(v, "INACTIVE", "INACTIVE", v.result)
  ELSE [StepOf(v, "NULLING_SYMBOL", "INACTIVE", 0) EXCEPT !.xsy = g.start, !.arg0 = 0, !.argN = 0]

RECURSIVE marpa_v_step(_, _, _)
marpa_v_step(g, t, v) ==
  LET begun == IF v.next = "INITIAL" THEN [v EXCEPT !.lockedValued = XsyIds(g)] ELSE v
      data  == GetData(g, t, IF v.nook < 0 THEN [begun EXCEPT !.nook = Len(t.nooks)] ELSE begun,
                       TRUE)
      rules == [v EXCEPT !.next = "RULE"]
      again == [v EXCEPT !.next = "GET_DATA"]
  IN  IF t.nulling THEN NullingStep(g, v)
      ELSE CASE v.next = "INACTIVE" -> StepOf(v, "INACTIVE", "INACTIVE", v.result)
             [] v.next \in {"INITIAL", "GET_DATA"} -> marpa_v_step(g, t, data)
             [] v.next = "TOKEN" /\ v.type = "token" -> StepOf(v, "TOKEN", "RULE", v.argN)
             [] v.next = "TOKEN" /\ v.type = "null" -> StepOf(v, "NULLING_SYMBOL", "RULE", v.argN)
             [] v.next = "TOKEN" /\ v.type = "none" -> marpa_v_step(g, t, rules)
             [] v.next = "RULE" /\ v.xrl > 0 -> StepOf(v, "RULE", "GET_DATA", v.arg0)
             [] v.next = "RULE" /\ v.xrl = 0 -> marpa_v_step(g, t, again)
=============================================================================
