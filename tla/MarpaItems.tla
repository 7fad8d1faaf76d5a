----------------------------- MODULE MarpaItems -----------------------------
(***************************************************************************)
(* Dotted internal rules (AHMs), what they predict and which events they   *)
(* raise, and marpa_g_precompute as a whole.                               *)
(***************************************************************************)
EXTENDS MarpaRewrite

IrlIds(g) == DOMAIN g.irl

(* Dot positions of a rule: before each symbol that is not nulling, and at *)
(* the end.                                                                *)
Positions(irl) ==
  {p \in 0..Len(irl.rhs) : p < Len(irl.rhs) => ~ NSY_is_Nulling(irl.rhs[p + 1])}
FirstAhm(g, i) ==
  LET all == Positions(g.irl[i]) IN <<i, CHOOSE p \in all : \A q \in all : p <= q>>
Next_AHM(g, ahm) ==
  LET later == {p \in Positions(g.irl[ahm[1]]) : p > ahm[2]}
  IN  <<ahm[1], CHOOSE p \in later : \A q \in later : p <= q>>
Prev_AHM(g, ahm) ==
  LET before == {p \in Positions(g.irl[ahm[1]]) : p < ahm[2]}
  IN  <<ahm[1], CHOOSE p \in before : \A q \in before : p >= q>>

NoNsy == [kind |-> "none", xsy |-> 0, xrl |-> 0, at |-> 0]
IRL_of_AHM(g, ahm) == g.irl[ahm[1]]
AHM_is_Completion(g, ahm) == ahm[2] = Len(g.irl[ahm[1]].rhs)
AHM_is_Prediction(g, ahm) == ahm = FirstAhm(g, ahm[1])
Postdot_NSY(g, ahm) == IF AHM_is_Completion(g, ahm) THEN NoNsy ELSE g.irl[ahm[1]].rhs[ahm[2] + 1]
LHS_of_AHM(g, ahm) == g.irl[ahm[1]].lhs
AHM_is_Leo_Completion(g, ahm) == AHM_is_Completion(g, ahm) /\ g.irl[ahm[1]].leo

(* The nulling symbols between the previous position and this one.         *)
Null_Count_of_AHM(g, ahm) ==
  IF AHM_is_Prediction(g, ahm) THEN ahm[2] ELSE ahm[2] - Prev_AHM(g, ahm)[2] - 1

Ahms(g) == UNION {{<<i, p>> : p \in Positions(g.irl[i])} : i \in IrlIds(g)}

Nsys(g) == UNION {{g.irl[i].lhs} \cup ToSet(g.irl[i].rhs) : i \in IrlIds(g)}
LhsIrls(g, nsy) == {i \in IrlIds(g) : g.irl[i].lhs = nsy}

(***************************************************************************)
(* Tables.                                                                 *)
(***************************************************************************)

(* The rules a symbol after the dot predicts.                              *)
prediction_nsy_by_nsy_matrix(g) ==
  [n \in Nsys(g) |->
     (IF LhsIrls(g, n) = {} THEN {} ELSE {n})
       \cup {Postdot_NSY(g, FirstAhm(g, i)) : i \in LhsIrls(g, n)}]
prediction_nsy_by_irl_matrix(g) ==
  LET closed == transitive_closure(prediction_nsy_by_nsy_matrix(g))
  IN  [n \in Nsys(g) |-> UNION {LhsIrls(g, m) : m \in closed[n]}]

(* The last symbol of a rule that is not nulling.                          *)
RightNsy(irl) ==
  LET solid == {k \in DOMAIN irl.rhs : ~ NSY_is_Nulling(irl.rhs[k])}
  IN  irl.rhs[CHOOSE k \in solid : \A j \in solid : j <= k]
nsy_by_right_nsy_matrix(g, irls) ==
  transitive_closure([n \in Nsys(g) |-> {RightNsy(g.irl[i]) : i \in LhsIrls(g, n) \cap irls}])
MarkRightRecursive(g) ==
  LET right == nsy_by_right_nsy_matrix(g, IrlIds(g))
  IN  [g EXCEPT !.irl = [i \in IrlIds(g) |->
                           [@[i] EXCEPT !.leo = @ \/ g.irl[i].lhs \in right[RightNsy(g.irl[i])]]]]

Terminals(g) ==
  {NSY_of_XSY(g, x) : x \in {y \in XsyIds(g) : /\ g.xsy[y].terminal
                                               /\ g.xsy[y].accessible /\ g.xsy[y].productive}}

(* The symbols whose events an AHM can raise.                              *)
Completion_XSYIDs(g, ahm) ==
  LET x == LHS_of_AHM(g, ahm).xsy
  IN  IF AHM_is_Completion(g, ahm) /\ ~ IRL_of_AHM(g, ahm).vlhs /\ g.xsy[x].completionEvent
      THEN {x} ELSE {}
Prediction_XSYIDs(g, ahm) ==
  IF AHM_is_Completion(g, ahm) THEN {} ELSE {Postdot_NSY(g, ahm).xsy}
Nulled_XSYIDs_of_AHM(g, ahm) ==
  UNION {g.nulled[IRL_of_AHM(g, ahm).rhs[k].xsy] :
           k \in (ahm[2] - Null_Count_of_AHM(g, ahm) + 1)..ahm[2]}
AHM_has_Event(g, ahm) ==
  Completion_XSYIDs(g, ahm) \cup Prediction_XSYIDs(g, ahm) \cup Nulled_XSYIDs_of_AHM(g, ahm) # {}

(* How many AHMs with events a Leo item can stand for.                     *)
Event_Group_Size(g, ahm) ==
  IF ~ AHM_is_Leo_Completion(g, ahm) THEN (IF AHM_has_Event(g, ahm) THEN 1 ELSE 0)
  ELSE Cardinality({b \in Ahms(g) :
                      /\ AHM_has_Event(g, b) /\ AHM_is_Leo_Completion(g, b)
                      /\ LHS_of_AHM(g, b) \in g.rightNsy[LHS_of_AHM(g, ahm)]})

MakeTables(g) ==
  LET h == MarkRightRecursive(g)
  IN  [h EXCEPT !.predicts = prediction_nsy_by_irl_matrix(h),
                !.rightNsy = nsy_by_right_nsy_matrix(h, {i \in IrlIds(h) : h.irl[i].leo})]

(***************************************************************************)
(* marpa_g_precompute. A stage that fails leaves what was marked before.   *)
(* The tree of rules, which rule_new needs, is gone from the first census  *)
(* on. A cycle is reported as a failure of a grammar that is precomputed.  *)
(***************************************************************************)
Failed(g, error) == [g EXCEPT !.error = error]

Finish(g) ==
  LET marked == MarkLoops([MarkRules(g) EXCEPT !.nulled = Nulled_XSYIDs(MarkRules(g))])
      made   == Rewrite(marked)
      tables == IF made.startIrl = 0 THEN made ELSE MakeTables(made)
  IN  [tables EXCEPT !.precomputed = TRUE,
                     !.error = IF tables.hasCycle THEN "GRAMMAR_HAS_CYCLE" ELSE "NONE"]

Census(g) ==
  LET nullable   == MarkNullable(MarkTerminals(g))
      productive == MarkProductive(nullable)
      nulling    == MarkNulling(MarkAccessible(productive))
  IN  CASE \E x \in nullable_v(g) : g.xsy[x].counted -> Failed(nullable, "COUNTED_NULLABLE")
        [] g.start \notin productive_v(g)            -> Failed(productive, "UNPRODUCTIVE_START")
        [] \E x \in nulling_v(g) : nulling.xsy[x].terminal -> Failed(nulling, "NULLING_TERMINAL")
        [] OTHER                                     -> Finish(nulling)

Precompute(g0) ==
  LET g == [g0 EXCEPT !.events = <<>>]
  IN  IF PrecomputeError(g) # "NONE" THEN Failed(g, PrecomputeError(g))
      ELSE Census([g EXCEPT !.xrlTree = FALSE])
=============================================================================
