----------------------------- MODULE MarpaParse -----------------------------
(***************************************************************************)
(* A parse with libmarpa from marpa_r_new to the last parse tree, over a   *)
(* choice of precomputed grammars and of all short inputs to them. What    *)
(* the recognizer, the progress report, the bocage and the valuator answer *)
(* is compared with what the caller's rules mean.                          *)
(***************************************************************************)
EXTENDS MarpaTree

CONSTANT Cases        \* set of [g, terminals, lengths, max, extras]: a grammar and the
                      \* inputs to it, and how many reports, refused tokens and event
                      \* switches a behaviour has besides

VARIABLES case,       \* one of Cases, whose grammar no longer changes
          r,          \* the recognizer
          tokens,     \* the tokens it accepted: <<symbol, from, to>>
          extras,
          switched,   \* the events that were switched on when the latest earleme was read
          reported,   \* progress items returned since the report began
          o,          \* the ordering (with the bocage)
          ranked,     \* how the ordering was ranked: no, high or all
          t,          \* the tree
          v,          \* the valuator
          stack,      \* the caller's stack of values
          values      \* values of the trees so far

parseVars == <<case, r, tokens, extras, switched, reported, o, ranked, t, v, stack, values>>
readVars == <<case, r, tokens, extras, switched, reported>>

g == case.g

NoOrder == marpa_o_new(NoBocage)
NoTree == marpa_t_new(NoOrder)

ParseInit ==
  /\ case \in Cases /\ r = marpa_r_new(g)
  /\ tokens = {} /\ extras = 0 /\ switched = r.active /\ reported = <<>>
  /\ o = NoOrder /\ ranked = "no" /\ t = NoTree /\ v = NoValue /\ stack = <<>> /\ values = <<>>

Reading == o = NoOrder
NotParsing == UNCHANGED <<o, ranked, t, v, stack, values>>

StartInput ==
  /\ r.phase = "BEFORE"
  /\ r' = marpa_r_start_input(g, r)
  /\ switched' = r'.active
  /\ UNCHANGED <<case, tokens, extras, reported>> /\ NotParsing

(* The value of a token is one that tells apart where it begins. Tokens    *)
(* end within the bound of the case, or too far for libmarpa.              *)
Alternative ==
  /\ Reading /\ r.phase = "DURING" /\ r.earleme < case.max /\ r.report = <<>>
  /\ \E x \in case.terminals, length \in case.lengths :
       /\ r.earleme + length \notin case.max + 1 .. JEARLEME_THRESHOLD - 1
       /\ r' = marpa_r_alternative(g, r, x, r.earleme + 1, length)
       /\ IF r'.ret = 0
          THEN /\ tokens' = tokens \cup {<<x, r.earleme, r.earleme + length>>}
               /\ UNCHANGED extras
          ELSE extras < case.extras /\ extras' = extras + 1 /\ UNCHANGED tokens
  /\ UNCHANGED <<case, switched, reported>> /\ NotParsing

EarlemeComplete ==
  /\ Reading /\ r.phase = "DURING" /\ r.report = <<>>
  /\ r' = marpa_r_earleme_complete(g, r)
  /\ switched' = r'.active
  /\ UNCHANGED <<case, tokens, extras, reported>> /\ NotParsing

Activate ==
  /\ Reading /\ r.phase = "DURING" /\ r.report = <<>> /\ extras < case.extras
  /\ \E x \in XsyIds(g), on \in BOOLEAN :
       \/ /\ g.xsy[x].completionEvent
          /\ r' = marpa_r_completion_symbol_activate(g, r, x, on)
       \/ /\ g.xsy[x].nulledEvent
          /\ r' = marpa_r_nulled_symbol_activate(g, r, x, on)
       \/ /\ g.xsy[x].predictionEvent
          /\ r' = marpa_r_prediction_symbol_activate(g, r, x, on)
  /\ extras' = extras + 1
  /\ UNCHANGED <<case, tokens, switched, reported>> /\ NotParsing

ReportStart ==
  /\ Reading /\ r.report = <<>> /\ r.phase # "BEFORE" /\ extras < case.extras
  /\ \E n \in {Len(r.sets), Len(r.sets) + 1} : r' = marpa_r_progress_report_start(g, r, n)
  /\ extras' = extras + 1
  /\ UNCHANGED <<case, tokens, switched, reported>> /\ NotParsing

ReportItem ==
  /\ r.report # <<>>
  /\ r' = marpa_r_progress_item(r)
  /\ reported' = IF r'.ret = -1 THEN <<>> ELSE Append(reported, r'.item)
  /\ UNCHANGED <<case, tokens, extras, switched>> /\ NotParsing

ReportReset ==
  /\ r.report # <<>> /\ Len(reported) = 1
  /\ r' = marpa_r_progress_report_reset(r)
  /\ reported' = <<>>
  /\ UNCHANGED <<case, tokens, extras, switched>> /\ NotParsing

ReportFinish ==
  /\ r.report # <<>>
  /\ r' = marpa_r_progress_report_finish(r)
  /\ reported' = <<>>
  /\ UNCHANGED <<case, tokens, extras, switched>> /\ NotParsing

(* As the wrapper does it: a bocage at the latest set, ordered and ranked  *)
(* as the caller asks, and a tree. Ranking is tried where there is more    *)
(* than one parse.                                                         *)
LatestSet == IF r.sets = <<>> THEN 1 ELSE Len(r.sets)
Bocage ==
  /\ Reading /\ r.phase # "BEFORE" /\ r.report = <<>>
  /\ LET b == marpa_b_new(g, r, LatestSet)
     IN  \E high \in {0, 1}, rank \in BOOLEAN :
           LET order == marpa_o_high_rank_only_set(marpa_o_new(b), high)
           IN  /\ b.error = "NONE" /\ (high = 0 \/ rank) /\ (rank => b.metric > 1)
               /\ o' = IF rank THEN marpa_o_rank(g, order) ELSE order
               /\ ranked' = CASE ~ rank -> "no" [] rank /\ high = 1 -> "high" [] OTHER -> "all"
               /\ t' = marpa_t_new(o')
  /\ UNCHANGED <<v, stack, values>> /\ UNCHANGED readVars

TreeNext ==
  /\ ~ Reading /\ v = NoValue /\ ~ t.exhausted /\ t.error = "NONE"
  /\ t.parseCount = Len(values)
  /\ t' = marpa_t_next(t)
  /\ UNCHANGED <<o, ranked, v, stack, values>> /\ UNCHANGED readVars

ValueNew ==
  /\ ~ Reading /\ v = NoValue /\ ValueError(t) = "NONE" /\ t.error = "NONE"
  /\ t.parseCount > Len(values)
  /\ v' = marpa_v_valued_force(g, marpa_v_new(t))
  /\ t' = tree_pause(t)
  /\ UNCHANGED <<o, ranked, stack, values>> /\ UNCHANGED readVars

(* The caller does what a step says: the result replaces the arguments.    *)
Earleme(n) == IF r.sets = <<>> THEN 0 ELSE r.sets[n].earleme
Node(x, rule, from, to, kids) ==
  [x |-> x, rule |-> rule, from |-> from, to |-> to, kids |-> kids]
Put(s, place, value) == Append(SubSeq(s, 1, place), value)
ValueStep ==
  LET w == marpa_v_step(g, t, v)
      result ==
        CASE w.step = "TOKEN" -> Node(w.xsy, 0, w.value - 1, Earleme(w.set), <<>>)
          [] w.step = "NULLING_SYMBOL" ->
               Node(w.xsy, -1, IF t.nulling THEN 0 ELSE Earleme(w.tokenStart),
                    IF t.nulling THEN 0 ELSE Earleme(w.set), <<>>)
          [] w.step = "RULE" -> Node(g.xrl[w.xrl].lhs, w.xrl, Earleme(w.ruleStart), Earleme(w.set),
                                     SubSeq(stack, w.arg0 + 1, w.argN + 1))
  IN  /\ v # NoValue /\ v.step # "INACTIVE"
      /\ v' = w
      /\ stack' = IF w.step = "INACTIVE" THEN stack ELSE Put(stack, w.result, result)
      /\ UNCHANGED <<o, ranked, t, values>> /\ UNCHANGED readVars

ValueFree ==
  /\ v # NoValue /\ v.step = "INACTIVE"
  /\ v' = NoValue /\ t' = tree_unpause(t)
  /\ values' = Append(values, stack[1]) /\ stack' = <<>>
  /\ UNCHANGED <<o, ranked>> /\ UNCHANGED readVars

ParseNext ==
  \/ StartInput \/ Alternative \/ EarlemeComplete \/ Activate
  \/ ReportStart \/ ReportItem \/ ReportReset \/ ReportFinish
  \/ Bocage \/ TreeNext \/ ValueNew \/ ValueStep \/ ValueFree

ParseSpec == ParseInit /\ [][ParseNext]_parseVars

(***************************************************************************)
(* Reference: what the caller's rules say about the tokens, in earlemes.   *)
(***************************************************************************)
Nullable(x) == g.xsy[x].nullable

(* Where a symbol, or a string of symbols, from i may end, given the spans *)
(* D of symbols.                                                           *)
EndsOf(D, x, I) ==
  {d[3] : d \in {e \in D : e[1] = x /\ e[2] \in I}} \cup (IF Nullable(x) THEN I ELSE {})
RhsEnds(D, rhs, i) == FoldLeft(LAMBDA I, x : EndsOf(D, x, I), {i}, rhs)

(* Where one more item of a sequence may end, from I; and where a string   *)
(* of items from i may.                                                    *)
RECURSIVE ItemEnds(_, _, _)
ItemEnds(D, rule, I) ==
  LET next == EndsOf(D, rule.rhs[1], IF rule.sep = 0 THEN I ELSE EndsOf(D, rule.sep, I))
  IN  IF next \subseteq I THEN I ELSE ItemEnds(D, rule, I \cup next)
SeqEnds(D, rule, i) ==
  LET items == ItemEnds(D, rule, EndsOf(D, rule.rhs[1], {i}))
  IN  items \cup (IF rule.sep = 0 \/ rule.proper THEN {} ELSE EndsOf(D, rule.sep, items))
RuleEnds(D, rule, i) ==
  IF rule.sequence THEN SeqEnds(D, rule, i) ELSE RhsEnds(D, rule.rhs, i)

Earlemes == 0..case.max
Used == {q \in XrlIds(g) : g.xrl[q].used}
RECURSIVE SpansFrom(_)
SpansFrom(D) ==
  LET more == UNION {{<<g.xrl[q].lhs, i, j>> : j \in RuleEnds(D, g.xrl[q], i) \ {i}}
                     : q \in Used, i \in Earlemes}
  IN  IF more \subseteq D THEN D ELSE SpansFrom(D \cup more)
Spans(toks) == SpansFrom(toks)

(* Symbols that may begin at an earleme, after what was read up to it.     *)
RECURSIVE PredictedFrom(_, _)
PredictedFrom(D, P) ==
  LET Then(rule, i) ==
        IF rule.sequence
        THEN LET items == ItemEnds(D, rule, EndsOf(D, rule.rhs[1], {i}))
                 seps  == IF rule.sep = 0 THEN items ELSE EndsOf(D, rule.sep, items)
             IN  {<<rule.rhs[1], m>> : m \in {i} \cup seps}
                   \cup (IF rule.sep = 0 THEN {} ELSE {<<rule.sep, m>> : m \in items})
        ELSE UNION {{<<rule.rhs[k], m>> : m \in RhsEnds(D, SubSeq(rule.rhs, 1, k - 1), i)}
                    : k \in DOMAIN rule.rhs}
      more == UNION {Then(g.xrl[q], p[2]) : <<q, p>> \in
                       {z \in Used \X P : g.xrl[z[1]].lhs = z[2][1]}}
  IN  IF more \subseteq P THEN P ELSE PredictedFrom(D, P \cup more)
Predicted(D) == PredictedFrom(D, {<<g.start, 0>>})

(* All trees of a symbol over a span. A symbol over nothing is one leaf.   *)
RECURSIVE Trees(_, _, _, _)
RECURSIVE Kids(_, _, _, _)
RECURSIVE Items(_, _, _, _)
Kids(D, rhs, i, j) ==
  IF rhs = <<>> THEN (IF i = j THEN {<<>>} ELSE {})
  ELSE UNION {LET rest == Kids(D, Tail(rhs), m, j)
              IN  IF rest = {} THEN {}
                  ELSE {<<tree>> \o k : tree \in Trees(D, Head(rhs), i, m), k \in rest}
              : m \in EndsOf(D, Head(rhs), {i}) \cap (i..j)}
Items(D, rule, i, j) ==
  LET sep  == IF rule.sep = 0 THEN <<>> ELSE <<rule.sep>>
      last == Kids(D, rule.rhs, i, j)
                \cup (IF sep = <<>> \/ rule.proper THEN {} ELSE Kids(D, rule.rhs \o sep, i, j))
  IN  last \cup UNION {{k \o rest : k \in Kids(D, rule.rhs \o sep, i, m),
                                    rest \in Items(D, rule, m, j)} : m \in (i + 1)..(j - 1)}
Trees(D, x, i, j) ==
  IF i = j THEN (IF Nullable(x) THEN {Node(x, -1, i, j, <<>>)} ELSE {})
  ELSE (IF <<x, i, j>> \in tokens THEN {Node(x, 0, i, j, <<>>)} ELSE {})
         \cup UNION {{Node(x, q, i, j, k) :
                        k \in IF g.xrl[q].sequence THEN Items(D, g.xrl[q], i, j)
                              ELSE Kids(D, g.xrl[q].rhs, i, j)}
                     : q \in {p \in Used : g.xrl[p].lhs = x}}

(***************************************************************************)
(* Properties.                                                             *)
(***************************************************************************)

Now == r.sets # <<>> /\ r.sets[Len(r.sets)].earleme = r.earleme

(* marpa_r_terminals_expected gives exactly the terminals that can come    *)
(* next after the tokens read so far: neither the Leo items, nor the       *)
(* nulled symbols rules are rewritten around, nor tokens of other lengths  *)
(* lose or add one.                                                        *)
ExpectedExact ==
  (Reading /\ Now) =>
    marpa_r_terminals_expected(r) =
      {x \in XsyIds(g) : g.xsy[x].terminal /\ <<x, r.earleme>> \in Predicted(Spans(tokens))}

(* The events of an earleme, by their kinds and as the recognizer tells     *)
(* them; Cut: rules of the symbol are cut into pieces.                     *)
Cut(x) == \E i \in IrlIds(g) : g.irl[i].vrhs /\ ~ g.xrl[g.irl[i].xrl].sequence
                                /\ g.xrl[g.irl[i].xrl].lhs = x
CompletedAt(D, P, e) ==
  {g.xrl[q].lhs : q \in {p \in Used : \E i \in 0..(e - 1) :
                           <<g.xrl[p].lhs, i>> \in P /\ e \in RuleEnds(D, g.xrl[p], i)}}
EventsAt(e) ==
  LET D == Spans(tokens)
      P == Predicted(D)
      Here(S) == {x \in S : <<x, e>> \in P /\ ~ (x = g.start /\ e = 0)}
  IN  EventsOfKind(g, "COMPLETED", CompletedAt(D, P, e) \cap switched.completed)
        \o EventsOfKind(g, "NULLED", Here({x \in switched.nulled : Nullable(x)}))
        \o EventsOfKind(g, "PREDICTED",
             {x \in switched.predicted : <<x, e>> \in P /\ ~ g.xsy[x].nulling /\ ~ Cut(x)})
ToldEvents ==
  SelectSeq(r.events, LAMBDA e : /\ e[1] # "EXHAUSTED"
                                 /\ ~ (e[1] = "PREDICTED" /\ Cut(e[2]))
                                 /\ ~ (e[1] = "NULLED" /\ e[2] = g.start /\ r.earleme = 0))

(* After each earleme the events are the completed, nulled and predicted   *)
(* symbols that are switched on, in this order, each symbol once, and the  *)
(* completions that Leo items stand for are among them. Two things are     *)
(* left out: an empty parse raises no events for the start symbol, and a   *)
(* rule that is cut into pieces raises the prediction of its left-hand     *)
(* side again where a piece begins.                                        *)
EventsExact ==
  Reading => ToldEvents = IF Now THEN EventsAt(r.earleme) ELSE <<>>

(* The places the rules that are not rewritten can have reached.           *)
Plain == {q \in Used : ~ g.xrl[q].sequence /\ Factors(g, q) = <<>>}
Progress(e) ==
  LET D == Spans(tokens)
      P == Predicted(D)
      SetAt(i) == CHOOSE n \in DOMAIN r.sets : r.sets[n].earleme = i
      Solid(rule, k) == k < Len(rule.rhs) => ~ g.xsy[rule.rhs[k + 1]].nulling
  IN  UNION {LET rule == g.xrl[q]
             IN  {<<IF k = Len(rule.rhs) THEN -1 ELSE k, q, SetAt(i)>> :
                    <<k, i>> \in {z \in (0..Len(rule.rhs)) \X {p[2] : p \in {s \in P : s[1] = rule.lhs}} :
                                    /\ Solid(rule, z[1])
                                    /\ e \in RhsEnds(D, SubSeq(rule.rhs, 1, z[1]), z[2])}}
             : q \in Plain}
Smaller(a, b) == \E i \in 1..3 : a[i] < b[i] /\ \A j \in 1..(i - 1) : a[j] = b[j]

(* The items of a progress report come in order and once each, and for the *)
(* rules that are not rewritten they are exactly the places the rule can   *)
(* have reached: Leo items hide none, and a report that is reset begins    *)
(* again.                                                                  *)
ProgressExact ==
  /\ \A i \in 1..(Len(reported) - 1) : Smaller(reported[i], reported[i + 1])
  /\ (r.report # <<>> /\ Len(reported) = Len(InOrder(r.report[1].tree)))
       => {k \in ToSet(reported) : k[2] \in Plain} = Progress(r.sets[Len(r.sets)].earleme)

(* Internal rules that begin or end with nulled symbols beside a recursion. *)
LeadingNullLoop ==
  \E i \in IrlIds(g) : LET first == FirstAhm(g, i)
                       IN  first[2] > 0 /\ i \in g.predicts[Postdot_NSY(g, first)]
TrailingNullLeo ==
  \E i \in IrlIds(g) : g.irl[i].leo /\ NSY_is_Nulling(g.irl[i].rhs[Len(g.irl[i].rhs)])
Sound == g.startIrl # 0 => ~ LeadingNullLoop /\ ~ TrailingNullLeo

AllTrees ==
  IF r.sets = <<>> THEN Trees({}, g.start, 0, 0)
  ELSE Trees(Spans(tokens), g.start, 0, r.sets[Len(r.sets)].earleme)
TreesAreParses ==
  /\ t.error = "NONE"
  /\ \A i, j \in DOMAIN values : values[i] = values[j] => i = j
  /\ (v = NoValue /\ values # <<>>) => ToSet(values) \subseteq AllTrees
  /\ t.exhausted => IF ranked = "high" THEN values # <<>> ELSE ToSet(values) = AllTrees
BocageIffParse ==
  (Reading /\ r.phase # "BEFORE" /\ r.report = <<>>) =>
     (marpa_b_new(g, r, LatestSet).error = "NONE") = (AllTrees # {})

(* The values of the trees are parses of the tokens, no parse comes twice, *)
(* and when the trees are exhausted none is missing (of the highest ranks, *)
(* at least one has come). There is a bocage exactly when there is a       *)
(* parse. Left out are two kinds of grammars in which an internal rule     *)
(* begins or ends with nulled symbols beside a recursion: there libmarpa   *)
(* loses trees or crashes.                                                 *)
TreesExact == Sound => TreesAreParses /\ BocageIffParse

(* A bocage holds the full set of parses, whatever the grammar.            *)
FullSetOfParses == TreesAreParses

RECURSIVE Nodes(_)
Nodes(tree) == {tree} \cup UNION {Nodes(tree.kids[i]) : i \in DOMAIN tree.kids}

(* With only the highest ranks kept, no tree uses a rule where another     *)
(* rule of the same symbol over the same tokens has a higher rank.         *)
HighRanked ==
  (ranked = "high" /\ t.exhausted) =>
    LET D == Spans(tokens)
    IN  \A tree \in ToSet(values) : \A n \in Nodes(tree) :
          n.rule > 0 => \A q \in Used :
            (g.xrl[q].lhs = n.x /\ n.to \in RuleEnds(D, g.xrl[q], n.from))
              => g.xrl[q].rank <= g.xrl[n.rule].rank

(* The ambiguity metric says 1 of an unranked ordering exactly when there  *)
(* is one parse, and says 1 of a ranked one only then.                     *)
MetricExact ==
  (Sound /\ ~ Reading /\ t.exhausted) =>
    /\ o.metric = 1 => Len(values) = 1
    /\ (ranked # "high" /\ Len(values) = 1) => o.metric = 1
=============================================================================
