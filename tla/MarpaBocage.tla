---------------------------- MODULE MarpaBocage ----------------------------
(***************************************************************************)
(* The parses of an input as libmarpa keeps them: the bocage, a shared     *)
(* forest of or-nodes (a prefix of an internal rule between two Earley     *)
(* sets) and and-nodes (the ways to make one: what precedes, and the       *)
(* symbol at the dot), and the ordering that ranks put on it.              *)
(***************************************************************************)
EXTENDS MarpaRecce

None == <<>>                       \* and <<x>> where there is one

(***************************************************************************)
(* Or-nodes and and-nodes.                                                 *)
(***************************************************************************)
or_node(irl, position, origin, set) ==
  [irl |-> irl, pos |-> position, origin |-> origin, set |-> set]
and_node(pred, cause) == [pred |-> pred, cause |-> cause]

(* What an and-node ends with: a token, a nulled symbol or an or-node.     *)
TokenCause(r, link) ==
  [type |-> IF link.nsy.xsy \in r.valued THEN "token" ELSE "unvalued",
   nsy |-> link.nsy, value |-> link.value, or |-> None]
NullCause(nsy) == [type |-> "null", nsy |-> nsy, value |-> 0, or |-> None]
OrCause(or) == [type |-> "or", nsy |-> NoNsy, value |-> 0, or |-> <<or>>]

(* The dot after the last symbol that is not null, and the or-node for the *)
(* whole of an item. A node of the search is a set and an item of it.      *)
Proper_Position(g, ahm) == ahm[2] - Null_Count_of_AHM(g, ahm)
set_or_from_yim(node) == or_node(node[2][1][1], node[2][1][2], node[2][2], node[1])
safe_or_from_yim(node) == IF node[2][1][2] < 1 THEN None ELSE <<set_or_from_yim(node)>>

(***************************************************************************)
(* The items of the parses that end with the start item. Predictions are   *)
(* among them only where their rule begins with nulled symbols.            *)
(***************************************************************************)
PathOf(r, link) == LimPath(r, <<link.set, link.nsy>>)
SourcesOf(r, node) ==
  LET Of(link) ==
        CASE link.type = "token"      -> {<<link.set, link.pred>>}
          [] link.type = "completion" -> {<<link.set, link.pred>>, <<node[1], link.cause>>}
          [] OTHER -> {<<node[1], link.cause>>}
                        \cup {<<lim.set, lim.base>> : lim \in ToSet(PathOf(r, link))}
  IN  UNION {Of(link) : link \in LinksOf(r.sets[node[1]], node[2])}

RECURSIVE ItemsInParses(_, _, _)
ItemsInParses(r, seen, todo) ==
  LET found == {node \in UNION {SourcesOf(r, n) : n \in todo} : safe_or_from_yim(node) # None}
  IN  IF todo = {} THEN seen ELSE ItemsInParses(r, seen \cup todo, found \ (seen \cup todo))

(***************************************************************************)
(* Making the or-nodes. The nulled symbols before an item's dot have       *)
(* or-nodes of their own. A Leo path gives the completed rules it skipped  *)
(* their or-node up to the last symbol that is not null; the or-nodes for  *)
(* nulled symbols behind that are filed under another set and not found.   *)
(***************************************************************************)
ItemOrs(g, node) ==
  LET ahm == node[2][1]
  IN  {or_node(ahm[1], p, node[2][2], node[1]) : p \in (Proper_Position(g, ahm)..ahm[2]) \ {0}}

PathOr(g, n, path, i) ==
  or_node(path[i].trailhead[1], Proper_Position(g, path[i].trailhead), path[i + 1].set, n)
PathOrs(g, n, path) == {PathOr(g, n, path, i) : i \in 1..(Len(path) - 1)}

LeoPaths(r, node) ==
  {<<PathOf(r, link), link.cause>> :
     link \in {l \in LinksOf(r.sets[node[1]], node[2]) : l.type = "leo"}}

(***************************************************************************)
(* Making the and-nodes, as pairs of an or-node and an and-node for it.    *)
(***************************************************************************)
NullDrafts(g, node) ==
  LET ahm == node[2][1]
      Or(p) == or_node(ahm[1], p, node[2][2], node[1])
  IN  {<<Or(p), and_node(IF p > 1 THEN <<Or(p - 1)>> ELSE None,
                         NullCause(IRL_of_AHM(g, ahm).rhs[p]))>>
         : p \in (Proper_Position(g, ahm) + 1)..ahm[2]}

ProperOr(g, node) ==
  or_node(node[2][1][1], Proper_Position(g, node[2][1]), node[2][2], node[1])
CompletedOr(g, irl, origin, set) == or_node(irl, Len(g.irl[irl].rhs), origin, set)

LinkDrafts(g, r, node) ==
  LET links == {l \in LinksOf(r.sets[node[1]], node[2]) : l.type # "leo"}
      Cause(l) == IF l.type = "token" THEN TokenCause(r, l)
                  ELSE OrCause(CompletedOr(g, l.cause[1][1], l.cause[2], node[1]))
  IN  {<<ProperOr(g, node), and_node(safe_or_from_yim(<<l.set, l.pred>>), Cause(l))>> : l \in links}

(* One for each rule of the path, from the cause up to the item itself.    *)
LeoDrafts(g, node, path, cause) ==
  LET n == node[1]
      Cause(i) == IF i = 1 THEN set_or_from_yim(<<n, cause>>)
                  ELSE CompletedOr(g, path[i - 1].trailhead[1], path[i].set, n)
      Parent(i) == IF i = Len(path) THEN ProperOr(g, node) ELSE PathOr(g, n, path, i)
  IN  {<<Parent(i), and_node(safe_or_from_yim(<<path[i].set, path[i].base>>), OrCause(Cause(i)))>>
         : i \in DOMAIN path}

InSomeOrder(S) == FoldSet(LAMBDA x, s : Append(s, x), <<>>, S)
AndsOf(drafts, or) == InSomeOrder({d[2] : d \in {e \in drafts : e[1] = or}})

NoBocage == [nulling |-> FALSE, ands |-> <<>>, root |-> None, metric |-> 0,
             valued |-> {}, lockedValued |-> {}, error |-> "NONE"]
NullBocage(r) ==
  [NoBocage EXCEPT !.nulling = TRUE, !.metric = 1, !.valued = r.valued,
                   !.lockedValued = r.lockedValued]
NoParse == [NoBocage EXCEPT !.error = "NO_PARSE"]

(* Mutant: the count of one of the or-nodes.                               *)
Ambiguity_MetricOne(ands) == Len(ands[CHOOSE or \in DOMAIN ands : TRUE])

(* The most choices an or-node has.                                        *)
Ambiguity_Metric(ands) == Max({1} \cup {Len(ands[or]) : or \in DOMAIN ands})

(* Only what Leo paths add is looked for among what an or-node has, and    *)
(* that it is there already can only be by another Leo path: where a set   *)
(* has a Leo item for a symbol, no item of it moves over that symbol       *)
(* otherwise (EffectsOf), so no link has the predecessor and the cause of  *)
(* a Leo path. The two kinds of and-nodes follow each other.               *)
Forest(g, r, n, start) ==
  LET nodes == ItemsInParses(r, {}, {<<n, start>>})
      leos  == UNION {{<<node, path[1], path[2]>> : path \in LeoPaths(r, node)} : node \in nodes}
      ors   == UNION {ItemOrs(g, node) : node \in nodes}
                 \cup UNION {PathOrs(g, l[1][1], l[2]) : l \in leos}
      ofLeo == UNION {LeoDrafts(g, l[1], l[2], l[3]) : l \in leos}
      other == UNION {NullDrafts(g, node) \cup LinkDrafts(g, r, node) : node \in nodes}
      ands  == [or \in ors |-> AndsOf(ofLeo, or) \o AndsOf(other, or)]
  IN  [NullBocage(r) EXCEPT !.nulling = FALSE, !.ands = ands,
                            !.root = <<set_or_from_yim(<<n, start>>)>>,
                            !.metric = Ambiguity_Metric(ands)]

(* The bocage of the parses that end at set n.                             *)
marpa_b_new(g, r, n) ==
  LET ends == {item \in r.sets[n].items : /\ item[1][1] = g.startIrl /\ item[2] = 1
                                          /\ ~ AHM_is_Prediction(g, item[1])}
  IN  IF r.phase = "BEFORE" THEN [NoBocage EXCEPT !.error = "RECCE_NOT_STARTED"]
      ELSE IF g.startIrl = 0 THEN (IF n > 1 THEN NoParse ELSE NullBocage(r))
      ELSE IF n \notin DOMAIN r.sets THEN [NoBocage EXCEPT !.error = "INVALID_LOCATION"]
      ELSE IF n = 1 THEN (IF g.xsy[g.start].nullable THEN NullBocage(r) ELSE NoParse)
      ELSE IF ends = {} THEN NoParse
      ELSE Forest(g, r, n, CHOOSE item \in ends : TRUE)

(***************************************************************************)
(* Ordering.                                                               *)
(***************************************************************************)
marpa_o_new(b) ==
  [b |-> b, order |-> b.ands, highRank |-> 1, frozen |-> FALSE, metric |-> b.metric,
   error |-> "NONE", ret |-> 0]

marpa_o_high_rank_only_set(o, count) ==
  IF o.frozen THEN [o EXCEPT !.error = "ORDER_FROZEN", !.ret = -2]
  ELSE [o EXCEPT !.highRank = count, !.ret = count]

and_node_rank(g, and) ==
  IF and.cause.type = "or" THEN g.irl[and.cause.or[1].irl].rank ELSE NSY_Rank(g, and.cause.nsy)

(* Mutant: the lowest ranks stay.                                          *)
high_rank_onlyLow(g, ands) ==
  LET low == Min({and_node_rank(g, ands[i]) : i \in DOMAIN ands})
  IN  IF Len(ands) <= 1 THEN ands
      ELSE SelectSeq(ands, LAMBDA and : and_node_rank(g, and) = low)

(* The choices of an or-node: those of the highest rank, or all of them    *)
(* with the higher ranks first.                                            *)
high_rank_only(g, ands) ==
  LET high == Max({and_node_rank(g, ands[i]) : i \in DOMAIN ands})
  IN  IF Len(ands) <= 1 THEN ands
      ELSE SelectSeq(ands, LAMBDA and : and_node_rank(g, and) = high)

Insert(g, order, and) ==
  LET before == SelectSeq(order, LAMBDA a : and_node_rank(g, and) <= and_node_rank(g, a))
      after  == SelectSeq(order, LAMBDA a : and_node_rank(g, and) > and_node_rank(g, a))
  IN  Append(before, and) \o after
all_by_rank(g, ands) == FoldLeft(LAMBDA order, and : Insert(g, order, and), <<>>, ands)

(* The metric counts every or-node, reached by a tree or not, and stays    *)
(* what it was when nothing is left out.                                   *)
marpa_o_rank(g, o) ==
  LET high == [or \in DOMAIN o.b.ands |-> high_rank_only(g, o.b.ands[or])]
      all  == [or \in DOMAIN o.b.ands |-> all_by_rank(g, o.b.ands[or])]
      done == [o EXCEPT !.frozen = TRUE, !.ret = 1]
  IN  IF o.frozen THEN [o EXCEPT !.error = "ORDER_FROZEN", !.ret = -2]
      ELSE IF o.highRank = 1
      THEN [done EXCEPT !.order = high, !.metric = Ambiguity_Metric(high)]
      ELSE [done EXCEPT !.order = all]

and_order_ix_is_valid(o, or, choice) == choice <= Len(o.order[or])
and_order_get(o, or, choice) == o.order[or][choice]
=============================================================================
