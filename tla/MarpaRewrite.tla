---------------------------- MODULE MarpaRewrite ----------------------------
(***************************************************************************)
(* The second half of marpa_g_precompute: external rules are rewritten     *)
(* into internal rules without nullable symbols (CHAF), sequences into     *)
(* left recursions, the grammar is augmented, and the tables of the        *)
(* recognizer are made. A dotted internal rule (AHM) is a pair of a rule   *)
(* and a position in it; the dot is never before a nulling symbol.         *)
(***************************************************************************)
EXTENDS MarpaPrecompute

EXTERNAL_RANK_FACTOR == 4
MAXIMUM_CHAF_RANK == 3

NullNsy(x) == [kind |-> "null", xsy |-> x, xrl |-> 0, at |-> 0]
ProperNsy(x) == [kind |-> "xsy", xsy |-> x, xrl |-> 0, at |-> 0]
VirtualNsy(g, r, at) == [kind |-> "virtual", xsy |-> g.xrl[r].lhs, xrl |-> r, at |-> at]
StartNsy(g) == [kind |-> "start", xsy |-> g.start, xrl |-> 0, at |-> 0]

NSY_is_Nulling(nsy) == nsy.kind = "null"
NSY_of_XSY(g, x) == IF g.xsy[x].nulling THEN NullNsy(x) ELSE ProperNsy(x)
NSY_Rank(g, nsy) == g.xsy[nsy.xsy].rank * EXTERNAL_RANK_FACTOR + MAXIMUM_CHAF_RANK

IRL_CHAF_Rank_by_XRL(rule, chafRank) ==
  rule.rank * EXTERNAL_RANK_FACTOR
    + (IF rule.nullHigh THEN MAXIMUM_CHAF_RANK - chafRank ELSE chafRank)

(* A rule with the values irl_start gives to what its maker does not set.  *)
irl_start(g, lhs, rhs) ==
  [lhs |-> lhs, rhs |-> rhs, xrl |-> 0, vlhs |-> FALSE, vrhs |-> FALSE,
   vstart |-> -1, real |-> 0, leo |-> FALSE,
   rank |-> g.defaultRank * EXTERNAL_RANK_FACTOR + MAXIMUM_CHAF_RANK]

FromXrl(g, r, lhs, rhs) ==
  [irl_start(g, lhs, rhs) EXCEPT !.xrl = r,
                                 !.rank = IRL_CHAF_Rank_by_XRL(g.xrl[r], MAXIMUM_CHAF_RANK)]

(***************************************************************************)
(* Sequences: lhs ::= inner, lhs ::= inner sep unless separation is        *)
(* proper, inner ::= item, inner ::= inner [sep] item.                     *)
(***************************************************************************)
SequenceIrls(g, r) ==
  LET rule  == g.xrl[r]
      lhs   == NSY_of_XSY(g, rule.lhs)
      inner == VirtualNsy(g, r, 0)
      item  == NSY_of_XSY(g, rule.rhs[1])
      sep   == IF rule.sep = 0 THEN <<>> ELSE <<NSY_of_XSY(g, rule.sep)>>
      Made(l, rhs, vlhs, vrhs, real) ==
        <<[FromXrl(g, r, l, rhs) EXCEPT !.vlhs = vlhs, !.vrhs = vrhs, !.real = real]>>
  IN  Made(lhs, <<inner>>, FALSE, TRUE, 0)
        \o (IF sep = <<>> \/ rule.proper THEN <<>>
            ELSE Made(lhs, <<inner>> \o sep, FALSE, TRUE, 1))
        \o Made(inner, <<item>>, TRUE, FALSE, 1)
        \o Made(inner, <<inner>> \o sep \o <<item>>, TRUE, TRUE, Len(sep) + 1)

(***************************************************************************)
(* CHAF: a rule is cut into pieces of at most two symbols that may or may  *)
(* not be null (factors); a piece has a variant for each choice, and ends  *)
(* with a virtual symbol for the rest. A rest that can be null altogether  *)
(* is not cut off but nulled in place, and no variant is null altogether.  *)
(***************************************************************************)
Factors(g, r) ==
  SelectSeq([k \in DOMAIN g.xrl[r].rhs |-> k],
            LAMBDA k : LET s == g.xsy[g.xrl[r].rhs[k]] IN s.nullable /\ ~ s.nulling)

(* The last position that cannot be null: the nullable suffix is after it. *)
LastNonNullable(g, r) ==
  LET solid == {k \in DOMAIN g.xrl[r].rhs : LET s == g.xsy[g.xrl[r].rhs[k]]
                                            IN  ~ s.nullable /\ ~ s.nulling}
  IN  IF solid = {} THEN 0 ELSE CHOOSE k \in solid : \A j \in solid : j <= k

(* The symbols from..to of rule r, those at the positions in nulled null.  *)
Piece(g, r, from, to, nulled) ==
  [k \in 1..(to - from + 1) |->
     LET x == g.xrl[r].rhs[from + k - 1]
     IN  IF from + k - 1 \in nulled THEN NullNsy(x) ELSE NSY_of_XSY(g, x)]

ChafIrl(g, r, lhs, from, rhs, real, chafRank) ==
  <<[FromXrl(g, r, lhs, rhs) EXCEPT !.rank = IRL_CHAF_Rank_by_XRL(g.xrl[r], chafRank),
                                    !.vlhs = from > 1, !.vrhs = Len(rhs) > real,
                                    !.vstart = from - 1, !.real = real]>>

(* At least three factors left, and all after the first are in the         *)
(* nullable suffix: the piece ends before the second factor.               *)
ChafSuffixPiece(g, r, lhs, from, first, second) ==
  LET len   == Len(g.xrl[r].rhs)
      to    == second - 1
      rest  == <<VirtualNsy(g, r, second)>>
      real  == to - from + 1
      suffix == second..len
  IN  ChafIrl(g, r, lhs, from, Piece(g, r, from, to, {}) \o rest, real, 3)
        \o ChafIrl(g, r, lhs, from, Piece(g, r, from, len, suffix), len - from + 1, 2)
        \o ChafIrl(g, r, lhs, from, Piece(g, r, from, to, {first}) \o rest, real, 1)
        \o (IF from > LastNonNullable(g, r) THEN <<>>
            ELSE ChafIrl(g, r, lhs, from, Piece(g, r, from, len, {first} \cup suffix),
                         len - from + 1, 0))

(* At least three factors left: the piece ends with the second.            *)
ChafPiece(g, r, lhs, from, first, second) ==
  LET rest == <<VirtualNsy(g, r, second + 1)>>
      real == second - from + 1
      With(nulled, chafRank) ==
        ChafIrl(g, r, lhs, from, Piece(g, r, from, second, nulled) \o rest, real, chafRank)
  IN  With({}, 3) \o With({second}, 2) \o With({first}, 1) \o With({first, second}, 0)

(* Mutant: no variant with only the first of two factors null.             *)
ChafLastTwoShort(g, r, lhs, from, first, second) ==
  LET len == Len(g.xrl[r].rhs)
      With(nulled, chafRank) ==
        ChafIrl(g, r, lhs, from, Piece(g, r, from, len, nulled), len - from + 1, chafRank)
  IN  With({}, 3) \o With({second}, 2)
        \o (IF from > LastNonNullable(g, r) THEN <<>> ELSE With({first, second}, 0))

(* The last piece, with one or two factors. The rule that would be null    *)
(* altogether is left out.                                                 *)
ChafLastTwo(g, r, lhs, from, first, second) ==
  LET len == Len(g.xrl[r].rhs)
      With(nulled, chafRank) ==
        ChafIrl(g, r, lhs, from, Piece(g, r, from, len, nulled), len - from + 1, chafRank)
  IN  With({}, 3) \o With({second}, 2) \o With({first}, 1)
        \o (IF from > LastNonNullable(g, r) THEN <<>> ELSE With({first, second}, 0))

ChafLastOne(g, r, lhs, from, first) ==
  LET len == Len(g.xrl[r].rhs)
      With(nulled, chafRank) ==
        ChafIrl(g, r, lhs, from, Piece(g, r, from, len, nulled), len - from + 1, chafRank)
  IN  With({}, 3) \o (IF from > LastNonNullable(g, r) THEN <<>> ELSE With({first}, 0))

RECURSIVE ChafIrls(_, _, _, _, _)
ChafIrls(g, r, lhs, from, factors) ==
  CASE Len(factors) = 1 -> ChafLastOne(g, r, lhs, from, factors[1])
    [] Len(factors) = 2 -> ChafLastTwo(g, r, lhs, from, factors[1], factors[2])
    [] factors[2] > LastNonNullable(g, r) ->
         ChafSuffixPiece(g, r, lhs, from, factors[1], factors[2])
           \o ChafIrls(g, r, VirtualNsy(g, r, factors[2]), factors[2], Tail(factors))
    [] OTHER ->
         ChafPiece(g, r, lhs, from, factors[1], factors[2])
           \o ChafIrls(g, r, VirtualNsy(g, r, factors[2] + 1), factors[2] + 1,
                       SubSeq(factors, 3, Len(factors)))

(* The internal rules of one external rule.                                *)
IrlsOf(g, r) ==
  CASE ~ g.xrl[r].used       -> <<>>
    [] g.xrl[r].sequence     -> SequenceIrls(g, r)
    [] Factors(g, r) # <<>>  -> ChafIrls(g, r, NSY_of_XSY(g, g.xrl[r].lhs), 1, Factors(g, r))
    [] OTHER -> <<FromXrl(g, r, NSY_of_XSY(g, g.xrl[r].lhs),
                          Piece(g, r, 1, Len(g.xrl[r].rhs), {}))>>

(* Augmentation is left out for a nulling start symbol (the trivial        *)
(* grammar).                                                               *)
Rewrite(g) ==
  LET rules == FlattenSeq([r \in XrlIds(g) |-> IrlsOf(g, r)])
      start == [irl_start(g, StartNsy(g), <<ProperNsy(g.start)>>)
                  EXCEPT !.vlhs = TRUE, !.real = 1]
  IN  IF g.xsy[g.start].nulling
      THEN [g EXCEPT !.irl = rules, !.startIrl = 0]
      ELSE [g EXCEPT !.irl = Append(rules, start), !.startIrl = Len(rules) + 1]
=============================================================================
