----------------------------- MODULE MarpaRecce -----------------------------
(***************************************************************************)
(* libmarpa's recognizer: the Earley sets with the Leo memoisation of      *)
(* right recursions, tokens of any length, the events and the progress     *)
(* report. The calls are operators on a recognizer record, each of which   *)
(* returns the record after the call with what it returned in ret.         *)
(*                                                                         *)
(* An Earley set is a record in r.sets, known by its place there; an       *)
(* Earley item is a pair of an AHM and the place of its origin. The links  *)
(* of an item say how it came about, and are what parses are made of.      *)
(***************************************************************************)
EXTENDS MarpaSymbols

(* What the structure of the recognizer is before any input.               *)
marpa_r_new(g) ==
  [phase |-> "BEFORE", sets |-> <<>>, earleme |-> -1, furthest |-> 0, exhausted |-> FALSE,
   leo |-> FALSE, alternatives |-> {}, expected |-> {}, events |-> <<>>,
   active |-> [completed |-> {}, nulled |-> {}, predicted |-> {}],
   valued |-> {}, unvalued |-> {}, lockedValued |-> {}, report |-> <<>>, item |-> <<>>,
   error |-> "NONE", ret |-> 0]

earley_set_new(earleme) == [earleme |-> earleme, items |-> {}, links |-> <<>>, lims |-> <<>>]

(* The items of a set that wait for a symbol (its postdot items).          *)
Pims(g, ys, nsy) == {item \in ys.items : Postdot_NSY(g, item[1]) = nsy}
PostdotNsys(g, ys) == {Postdot_NSY(g, item[1]) : item \in ys.items} \ {NoNsy}

LinksOf(ys, item) == IF item \in DOMAIN ys.links THEN ys.links[item] ELSE {}
Earley_Item_has_No_Source(ys, item) == LinksOf(ys, item) = {}
earley_item_assign(ys, item) == [ys EXCEPT !.items = @ \cup {item}]
link_add(ys, item, link) ==
  [earley_item_assign(ys, item) EXCEPT
     !.links = (item :> (LinksOf(ys, item) \cup {link})) @@ @]

TokenLink(start, item, alt) ==
  [type |-> "token", set |-> start, pred |-> item, nsy |-> alt.nsy, value |-> alt.value]
CompletionLink(middle, item, cause) ==
  [type |-> "completion", set |-> middle, pred |-> item, cause |-> cause]
LeoLink(middle, nsy, cause) ==
  [type |-> "leo", set |-> middle, nsy |-> nsy, cause |-> cause]

Advanced(g, item) == <<Next_AHM(g, item[1]), item[2]>>

(***************************************************************************)
(* Postdot items. A symbol that a single item of a right recursive rule    *)
(* waits for, and that completes the rule, gets a Leo item. It stands for  *)
(* the whole chain of completions up to the topmost rule, with the rules   *)
(* on the way that have events.                                            *)
(***************************************************************************)
Leo_base(g, ys, nsy) == CHOOSE item \in Pims(g, ys, nsy) : TRUE
IsLeoNsy(g, ys, nsy) ==
  /\ \A a, b \in Pims(g, ys, nsy) : a = b
  /\ AHM_is_Leo_Completion(g, Next_AHM(g, Leo_base(g, ys, nsy)[1]))

Event_AHMIDs(g, ahm) == IF AHM_has_Event(g, ahm) THEN {ahm} ELSE {}

NoLim == <<>>

lim_from_base(g, n, nsy, base) ==
  LET trailhead == Next_AHM(g, base[1])
  IN  [set |-> n, nsy |-> nsy, base |-> base, trailhead |-> trailhead, pred |-> NoLim,
       top |-> trailhead, origin |-> base[2], events |-> Event_AHMIDs(g, trailhead)]

lim_from_predecessor(g, n, nsy, base, pred) ==
  LET trailhead == Next_AHM(g, base[1])
  IN  [set |-> n, nsy |-> nsy, base |-> base, trailhead |-> trailhead,
       pred |-> <<pred.set, pred.nsy>>, top |-> pred.top, origin |-> pred.origin,
       events |-> pred.events
                    \cup (IF Event_Group_Size(g, pred.top) > Cardinality(pred.events)
                          THEN Event_AHMIDs(g, trailhead) ELSE {})]

(* The predecessor of a Leo item may be a Leo item of the same set, which  *)
(* is then made first.                                                     *)
RECURSIVE Lim(_, _, _, _, _)
Lim(g, r, n, ys, nsy) ==
  LET base == Leo_base(g, ys, nsy)
      up   == LHS_of_AHM(g, base[1])
      From(pred) == lim_from_predecessor(g, n, nsy, base, pred)
  IN  CASE base[2] < n /\ up \in DOMAIN r.sets[base[2]].lims -> From(r.sets[base[2]].lims[up])
        [] base[2] = n /\ IsLeoNsy(g, ys, up) -> From(Lim(g, r, n, ys, up))
        [] OTHER -> lim_from_base(g, n, nsy, base)

(* Nothing is memoised in the first set.                                   *)
postdot_items_create(g, r, ys) ==
  LET n    == Len(r.sets) + 1
      leos == IF r.leo THEN {nsy \in PostdotNsys(g, ys) : IsLeoNsy(g, ys, nsy)} ELSE {}
      done == [ys EXCEPT !.lims = [nsy \in leos |-> Lim(g, r, n, ys, nsy)]]
  IN  [r EXCEPT !.sets = Append(@, done), !.expected = PostdotNsys(g, ys) \cap Terminals(g)]

(***************************************************************************)
(* Events of the latest set: those of its items and of the completions     *)
(* that its Leo items stand for, by kind and symbol.                       *)
(***************************************************************************)
EventsOfKind(g, kind, xsys) ==
  LET ids == SelectSeq([x \in XsyIds(g) |-> x], LAMBDA x : x \in xsys)
  IN  [i \in DOMAIN ids |-> <<kind, ids[i]>>]

(* Mutant: the completions a Leo item stands for raise no events.          *)
trigger_eventsTop(g, r) ==
  LET ys   == r.sets[Len(r.sets)]
      ahms == {ahm \in {item[1] : item \in ys.items} : AHM_has_Event(g, ahm)}
      Of(Xsyids(_, _)) == UNION {Xsyids(g, ahm) : ahm \in ahms}
  IN  EventsOfKind(g, "COMPLETED", Of(Completion_XSYIDs) \cap r.active.completed)
        \o EventsOfKind(g, "NULLED", Of(Nulled_XSYIDs_of_AHM) \cap r.active.nulled)
        \o EventsOfKind(g, "PREDICTED", Of(Prediction_XSYIDs) \cap r.active.predicted)

trigger_events(g, r) ==
  LET ys   == r.sets[Len(r.sets)]
      leos == {l \in UNION {LinksOf(ys, item) : item \in ys.items} : l.type = "leo"}
      ahms == {ahm \in {item[1] : item \in ys.items} : AHM_has_Event(g, ahm)}
                \cup UNION {r.sets[l.set].lims[l.nsy].events : l \in leos}
      Of(Xsyids(_, _)) == UNION {Xsyids(g, ahm) : ahm \in ahms}
  IN  EventsOfKind(g, "COMPLETED", Of(Completion_XSYIDs) \cap r.active.completed)
        \o EventsOfKind(g, "NULLED", Of(Nulled_XSYIDs_of_AHM) \cap r.active.nulled)
        \o EventsOfKind(g, "PREDICTED", Of(Prediction_XSYIDs) \cap r.active.predicted)

Exhaust(r) ==
  [r EXCEPT !.exhausted = TRUE, !.phase = "AFTER", !.events = Append(@, <<"EXHAUSTED", 0>>)]

(***************************************************************************)
(* Reading.                                                                *)
(***************************************************************************)
Flagged(g, Has(_)) == {x \in XsyIds(g) : Has(g.xsy[x])}

(* The first set: the start rule, and all that it predicts.                *)
marpa_r_start_input(g, r0) ==
  LET valued == Flagged(g, LAMBDA s : s.valued)
      r == [r0 EXCEPT !.earleme = 0, !.valued = valued, !.unvalued = XsyIds(g) \ valued,
                      !.lockedValued = Flagged(g, LAMBDA s : s.lockedValued),
                      !.events = <<>>, !.ret = 1]
      started == [r EXCEPT !.phase = "DURING",
        !.active = [completed |-> Flagged(g, LAMBDA s : s.completionEvent),
                    nulled    |-> Flagged(g, LAMBDA s : s.nulledEvent),
                    predicted |-> Flagged(g, LAMBDA s : s.predictionEvent)]]
      irls == {g.startIrl} \cup g.predicts[g.irl[g.startIrl].rhs[1]]
      set0 == [earley_set_new(0) EXCEPT !.items = {<<FirstAhm(g, i), 1>> : i \in irls}]
      read == [postdot_items_create(g, started, set0) EXCEPT !.leo = TRUE]
  IN  IF r0.phase # "BEFORE" THEN [r0 EXCEPT !.error = "RECCE_STARTED", !.ret = -2]
      ELSE IF g.startIrl = 0 THEN Exhaust(r)
      ELSE [read EXCEPT !.events = trigger_events(g, read)]

ys_at_current_earleme(r) ==
  {n \in {Len(r.sets)} \ {0} : r.sets[n].earleme = r.earleme}

(* Tokens end before this earleme.                                         *)
JEARLEME_THRESHOLD == INT_MAX \div 4

(* The checks of a token. A token of a symbol that is not yet fixed as     *)
(* valued or unvalued fixes it.                                            *)
AlternativeError(g, r, x, value, length) ==
  LET here == ys_at_current_earleme(r)
      kind == IF value # 0 THEN r.valued ELSE r.unvalued
  IN  IF r.phase # "DURING" THEN "RECCE_NOT_ACCEPTING_INPUT"
      ELSE IF x \notin XsyIds(g) THEN "INVALID_SYMBOL_ID"
      ELSE IF length <= 0 THEN "TOKEN_LENGTH_LE_ZERO"
      ELSE IF length >= JEARLEME_THRESHOLD THEN "TOKEN_TOO_LONG"
      ELSE IF ~ g.xsy[x].terminal THEN "TOKEN_IS_NOT_TERMINAL"
      ELSE IF x \notin kind /\ x \in r.lockedValued THEN "SYMBOL_VALUED_CONFLICT"
      ELSE IF ~ (g.xsy[x].accessible /\ g.xsy[x].productive) THEN "INACCESSIBLE_TOKEN"
      ELSE IF here = {} THEN "NO_TOKEN_EXPECTED_HERE"
      ELSE IF Pims(g, r.sets[Len(r.sets)], NSY_of_XSY(g, x)) = {} THEN "UNEXPECTED_TOKEN_ID"
      ELSE IF r.earleme + length >= JEARLEME_THRESHOLD THEN "PARSE_TOO_LONG"
      ELSE "NONE"

(* A valued symbol is fixed even when the token is refused further on, and *)
(* the furthest earleme has moved when a token is refused as a duplicate.  *)
(* The answer is 0 or the (positive) error code.                           *)
marpa_r_alternative(g, r0, x, value, length) ==
  LET error == AlternativeError(g, r0, x, value, length)
      fixes == error \in {"INACCESSIBLE_TOKEN", "NO_TOKEN_EXPECTED_HERE", "UNEXPECTED_TOKEN_ID",
                          "PARSE_TOO_LONG", "NONE"}
      r == IF fixes /\ value # 0 /\ x \notin r0.valued
           THEN [r0 EXCEPT !.valued = @ \cup {x}, !.lockedValued = @ \cup {x}]
           ELSE IF fixes /\ value = 0 /\ x \notin r0.unvalued
           THEN [r0 EXCEPT !.unvalued = @ \cup {x}, !.lockedValued = @ \cup {x}]
           ELSE r0
      end  == r.earleme + length
      alt  == [nsy |-> NSY_of_XSY(g, x), start |-> Len(r.sets), end |-> end, value |-> value]
      far  == [r EXCEPT !.furthest = IF @ < end THEN end ELSE @]
      twin == \E a \in r.alternatives :
                <<a.nsy, a.start, a.end>> = <<alt.nsy, alt.start, alt.end>>
  IN  IF error # "NONE" THEN [r EXCEPT !.error = error, !.ret = 1]
      ELSE IF twin THEN [far EXCEPT !.error = "DUPLICATE_TOKEN", !.ret = 1]
      ELSE [far EXCEPT !.alternatives = @ \cup {alt}, !.ret = 0]

(* The items that wait for a token that ends here move over it.            *)
Scan(g, r, ys, alts) ==
  FoldSet(LAMBDA alt, acc :
            FoldSet(LAMBDA item, y : link_add(y, Advanced(g, item), TokenLink(alt.start, item, alt)),
                    acc, Pims(g, r.sets[alt.start], alt.nsy)),
          ys, alts)

LeoEffect(lim) == <<lim.top, lim.origin>>

(* The effect of one completed item: that of the Leo item for its symbol,  *)
(* or else every item that waits for it moves on.                          *)
EffectsOf(g, r, cause) ==
  LET middle == r.sets[cause[2]]
      nsy    == LHS_of_AHM(g, cause[1])
  IN  IF nsy \in DOMAIN middle.lims
      THEN {<<LeoEffect(middle.lims[nsy]), LeoLink(cause[2], nsy, cause)>>}
      ELSE {<<Advanced(g, item), CompletionLink(cause[2], item, cause)>> :
              item \in Pims(g, middle, nsy)}

(* Completed items are worked off; an effect that is new and complete      *)
(* joins them.                                                             *)
RECURSIVE Complete(_, _, _, _)
Complete(g, r, ys, todo) ==
  IF todo = {} THEN ys
  ELSE LET cause   == CHOOSE item \in todo : TRUE
           effects == EffectsOf(g, r, cause)
           linked  == FoldSet(LAMBDA e, y : link_add(y, e[1], e[2]), ys, effects)
           new     == {item \in {e[1] : e \in effects} :
                         AHM_is_Completion(g, item[1]) /\ Earley_Item_has_No_Source(ys, item)}
       IN  Complete(g, r, linked, (todo \ {cause}) \cup new)

(* Mutant: what a predicted rule predicts is left out.                     *)
PredictDirect(g, ys, n) ==
  LET irls == UNION {LhsIrls(g, nsy) : nsy \in PostdotNsys(g, ys)}
  IN  [ys EXCEPT !.items = @ \cup {<<FirstAhm(g, i), n>> : i \in irls}]

Predict(g, ys, n) ==
  LET irls == UNION {g.predicts[nsy] : nsy \in PostdotNsys(g, ys)}
  IN  [ys EXCEPT !.items = @ \cup {<<FirstAhm(g, i), n>> : i \in irls}]

(* A step of the input. Past the last token's end it fails for good; where *)
(* no token ends there is no set.                                          *)
marpa_r_earleme_complete(g, r0) ==
  LET here == r0.earleme + 1
      r    == [r0 EXCEPT !.events = <<>>, !.expected = {}, !.earleme = here]
      alts == {a \in r.alternatives : a.end = here}
      left == r.alternatives \ alts
      scanned == Scan(g, r, earley_set_new(here), alts)
      done    == Complete(g, r, scanned,
                          {item \in scanned.items : AHM_is_Completion(g, item[1])})
      made == [postdot_items_create(g, r, Predict(g, done, Len(r.sets) + 1))
                 EXCEPT !.alternatives = left]
      last == IF made.expected = {} /\ left = {} THEN Exhaust(made) ELSE made
      told == IF r.active.completed \cup r.active.nulled \cup r.active.predicted = {} THEN last
              ELSE [last EXCEPT !.events = @ \o trigger_events(g, last)]
  IN  IF r0.phase # "DURING"
      THEN [r0 EXCEPT !.error = "RECCE_NOT_ACCEPTING_INPUT", !.ret = -2]
      ELSE IF here > r.furthest THEN [Exhaust(r) EXCEPT !.error = "PARSE_EXHAUSTED", !.ret = -2]
      ELSE IF alts = {} THEN [r EXCEPT !.ret = 0]
      ELSE [told EXCEPT !.ret = Len(told.events)]

(* An event may be switched off and on; switching on one that was not set  *)
(* up in the grammar is an error that is ignored.                          *)
symbol_activate(g, r, kind, setUp, x, on) ==
  IF on THEN [r EXCEPT !.active[kind] = @ \cup {x}, !.ret = 1,
                       !.error = IF x \in setUp THEN @ ELSE "SYMBOL_IS_NOT_EVENT"]
  ELSE [r EXCEPT !.active[kind] = @ \ {x}, !.ret = 0]
marpa_r_completion_symbol_activate(g, r, x, on) ==
  symbol_activate(g, r, "completed", Flagged(g, LAMBDA s : s.completionEvent), x, on)
marpa_r_nulled_symbol_activate(g, r, x, on) ==
  symbol_activate(g, r, "nulled", Flagged(g, LAMBDA s : s.nulledEvent), x, on)
marpa_r_prediction_symbol_activate(g, r, x, on) ==
  symbol_activate(g, r, "predicted", Flagged(g, LAMBDA s : s.predictionEvent), x, on)

marpa_r_terminals_expected(r) == {nsy.xsy : nsy \in r.expected}
marpa_r_terminal_is_expected(g, r, x) ==
  g.xsy[x].terminal /\ NSY_of_XSY(g, x) \in r.expected

(***************************************************************************)
(* Progress report: the dotted external rules of a set, in a balanced tree *)
(* ordered by position, rule and origin. The completions that a Leo item   *)
(* stands for are reported with the others. A report is <<>> or a tree     *)
(* with the node the traverser is at.                                      *)
(***************************************************************************)
Position_of_AHM(g, ahm) == IF AHM_is_Completion(g, ahm) THEN -1 ELSE ahm[2]

(* A piece of a rule counts from where it begins, its end included, and a  *)
(* sequence has the positions 0 and -1.                                    *)
XRL_Position_of_AHM(g, ahm) ==
  LET irl == IRL_of_AHM(g, ahm)
      p   == Position_of_AHM(g, ahm)
  IN  IF g.xrl[irl.xrl].sequence THEN (IF p > 0 THEN -1 ELSE 0)
      ELSE p + (IF irl.vstart >= 0 THEN irl.vstart ELSE 0)

progress_report_item_insert(g, tree, ahm, origin) ==
  LET irl == IRL_of_AHM(g, ahm)
  IN  IF irl.xrl = 0 THEN tree
      ELSE IF g.xrl[irl.xrl].sequence /\ Position_of_AHM(g, ahm) <= 0 /\ irl.vlhs THEN tree
      ELSE _marpa_avl_insert(tree, <<XRL_Position_of_AHM(g, ahm), irl.xrl, origin>>)

(* The Leo items above and including one.                                  *)
RECURSIVE LimPath(_, _)
LimPath(r, id) ==
  LET lim == r.sets[id[1]].lims[id[2]]
  IN  <<lim>> \o (IF lim.pred = NoLim THEN <<>> ELSE LimPath(r, lim.pred))

(* Mutant: only the topmost and the lowest completion of a Leo path.       *)
LeoReportLow(r, link) ==
  LET lim == r.sets[link.set].lims[link.nsy] IN {<<lim.trailhead, lim.base[2]>>}

LeoReport(r, link) ==
  {<<lim.trailhead, lim.base[2]>> : lim \in ToSet(LimPath(r, <<link.set, link.nsy>>))}

marpa_r_progress_report_start(g, r, n) ==
  LET ys   == r.sets[n]
      leos == {l \in UNION {LinksOf(ys, item) : item \in ys.items} : l.type = "leo"}
      all  == ys.items \cup UNION {LeoReport(r, l) : l \in leos}
      tree == FoldSet(LAMBDA item, t : progress_report_item_insert(g, t, item[1], item[2]),
                      NullTree, all)
  IN  IF r.phase = "BEFORE" THEN [r EXCEPT !.error = "RECCE_NOT_STARTED", !.ret = -2]
      ELSE IF n \notin DOMAIN r.sets
      THEN [r EXCEPT !.error = "NO_EARLEY_SET_AT_LOCATION", !.ret = -2]
      ELSE [r EXCEPT !.report = <<[tree |-> tree, at |-> NoNode]>>, !.ret = Len(InOrder(tree))]

WithReport(r, h) ==
  IF r.report = <<>> THEN [r EXCEPT !.error = "PROGRESS_REPORT_NOT_STARTED", !.ret = -2] ELSE h

marpa_r_progress_report_reset(r) ==
  WithReport(r, [r EXCEPT !.report[1].at = NoNode, !.ret = 1])
marpa_r_progress_report_finish(r) == WithReport(r, [r EXCEPT !.report = <<>>, !.ret = 1])

(* The rule of the next item is returned; item has all of it.              *)
marpa_r_progress_item(r) ==
  LET tree == r.report[1].tree
      next == _marpa_avl_t_next(tree, r.report[1].at)
      past == [r EXCEPT !.report[1].at = NoNode, !.error = "PROGRESS_REPORT_EXHAUSTED", !.ret = -1]
  IN  WithReport(r, IF next = NoNode THEN past
                    ELSE [r EXCEPT !.report[1].at = next, !.item = NodeAt(tree, next)[1].key,
                                   !.ret = NodeAt(tree, next)[1].key[2]])
=============================================================================
