-------------------------- MODULE MarpaNooksProofs --------------------------
(***************************************************************************)
(* What marpa_t_next returns, for every bocage and every ordering.         *)
(*                                                                         *)
(* The nooks are a part of a tree (Shape): each hangs on an earlier one,   *)
(* and a role is marked as expanded exactly when what it asks for is       *)
(* there. Seen as the choices at its nooks in turn, a stack comes before   *)
(* or after every tree (Ahead, Behind) or is a part of it (Within).        *)
(* Trees that were returned are behind, the others are ahead or within,    *)
(* and no step of the iterator moves past a tree (Passed).                 *)
(***************************************************************************)
EXTENDS MarpaNooks, FiniteSetTheorems, TLAPS

Nook(o) == [or : Ors(o), choice : Nat, parent : Nat, role : Roles \cup {"top"},
            expanded : SUBSET Roles]

\* What a nook asks for in a role.
Wants(o, n, r) == Child(o, n.or, n.choice, r)

\* A part of a tree.
Hangs(o, ns, k) ==
  \/ k = 1 /\ ns[k].or = o.top /\ ns[k].parent = 0 /\ ns[k].role = "top"
  \/ /\ k > 1 /\ ns[k].parent \in 1 .. k - 1 /\ ns[k].role \in Roles
     /\ Wants(o, ns[ns[k].parent], ns[k].role) = ns[k].or
     /\ ns[k].role \in ns[ns[k].parent].expanded
Filled(ns, k, r) == \E j \in DOMAIN ns : ns[j].parent = k /\ ns[j].role = r
Followed(o, ns, m, C) ==
  /\ o.top \in C
  /\ \A k \in 1 .. m, r \in Roles : ns[k].or \in C => Wants(o, ns[k], r) \in C \cup {0}
Reaches(ns, m, C) == \A k \in 1 .. m : ns[k].or \in C
Shape(o, ns) ==
  /\ ns \in Seq(Nook(o))
  /\ \A k \in DOMAIN ns : ns[k].choice \in DOMAIN o.order[ns[k].or] /\ Hangs(o, ns, k)
  /\ \A j, k \in DOMAIN ns : ns[j].or = ns[k].or => j = k
  /\ \A k \in DOMAIN ns, r \in Roles :
       r \in ns[k].expanded => Wants(o, ns[k], r) = 0 \/ Filled(ns, k, r)
  /\ \A m \in 0 .. Len(ns), C \in SUBSET Ors(o) : Followed(o, ns, m, C) => Reaches(ns, m, C)

\* A stack and a tree.
Agrees(ns, f, m) == \A k \in 1 .. m : ns[k].or \in DOMAIN f /\ f[ns[k].or] = ns[k].choice
Within(ns, f) == Agrees(ns, f, Len(ns))
Ahead(ns, f) == \E p \in DOMAIN ns : /\ Agrees(ns, f, p - 1) /\ ns[p].or \in DOMAIN f
                                     /\ f[ns[p].or] > ns[p].choice
Behind(ns, f) == \E p \in DOMAIN ns : /\ Agrees(ns, f, p - 1) /\ ns[p].or \in DOMAIN f
                                      /\ f[ns[p].or] < ns[p].choice
Passed(o, ns, S) == \A f \in Trees(o) : IF f \in S THEN Behind(ns, f) \/ Within(ns, f)
                                        ELSE Ahead(ns, f)
Passing(o, ns, S) == \A f \in Trees(o) : IF f \in S THEN Behind(ns, f)
                                         ELSE Ahead(ns, f) \/ Within(ns, f)

\* The worklist has every nook that is not expanded.
Listed(w, k) == \E i \in DOMAIN w : w[i] = k
WorkInv(ns, w) ==
  /\ ns # <<>> /\ w \in Seq(1 .. Len(ns)) /\ Len(w) <= Len(ns)
  /\ \A k \in DOMAIN ns : Listed(w, k) \/ ns[k].expanded = Roles

NookTypes ==
  /\ b \in Bocages /\ at \in {"idle", "first", "iterate", "expand"}
  /\ work \in Seq(Nat) /\ Len(work) <= b.and_count
  /\ parseCount \in Nat /\ exhausted \in BOOLEAN /\ paused \in 0 .. MaxPaused
  /\ at # "idle" => paused = 0 /\ ~b.nulling /\ ~exhausted
  /\ b.nulling \/ exhausted => nooks = <<>>
  /\ at = "first" => parseCount = 0
SeenInv ==
  /\ IsFiniteSet(seen) /\ parseCount = Cardinality(seen) /\ seen \subseteq Trees(b)
  /\ parseCount = 0 /\ (at = "first" \/ (at = "idle" /\ ~exhausted)) => nooks = <<>>
  /\ exhausted \/ (b.nulling /\ parseCount > 0) => Trees(b) \subseteq seen
OrderInv ==
  /\ at = "expand" => Passing(b, nooks, seen) /\ WorkInv(nooks, work)
  /\ at = "iterate" \/ (at = "idle" /\ ~b.nulling /\ ~exhausted /\ parseCount > 0)
       => Passed(b, nooks, seen)
NookInv == NookTypes /\ Shape(b, nooks) /\ InUseExact /\ SeenInv /\ OrderInv

(***************************************************************************)
(* What is known of a bocage and of a stack                                *)
(***************************************************************************)
LEMMA OfSeq ==
  ASSUME NEW S, NEW s \in Seq(S)
  PROVE  /\ Len(s) \in Nat /\ DOMAIN s = 1 .. Len(s) /\ (Len(s) > 0 <=> s # <<>>)
         /\ \A i \in DOMAIN s : s[i] \in S
OBVIOUS

\* An or-node has a choice, and what hangs below a choice is an or-node or nothing.
LEMMA BocageFacts ==
  ASSUME NEW o \in Bocages
  PROVE  /\ o.or_count \in Nat /\ o.and_count \in Nat /\ o.nulling \in BOOLEAN
         /\ ~o.nulling => o.top \in Ors(o)
         /\ Ors(o) \subseteq Nat /\ 0 \notin Ors(o)
         /\ \A or \in Ors(o) :
              /\ Len(o.order[or]) \in Nat /\ DOMAIN o.order[or] = 1 .. Len(o.order[or])
              /\ 1 \in DOMAIN o.order[or]
              /\ \A i \in DOMAIN o.order[or] : /\ o.order[or][i] \in 1 .. o.and_count
                                              /\ o.and[o.order[or][i]].or = or
              /\ \A i \in DOMAIN o.order[or], r \in Roles : Child(o, or, i, r) \in Ors(o) \cup {0}
<1>1. /\ o.or_count \in Nat /\ o.and_count \in Nat /\ o.nulling \in BOOLEAN
      /\ ~o.nulling => o.top \in Ors(o)
      /\ o.and \in [Ands(o) -> [or : Ors(o), cause : 0 .. o.or_count, pred : 0 .. o.or_count]]
      /\ o.order \in [Ors(o) -> Seq(Ands(o))]
      /\ \A or \in Ors(o) : /\ o.order[or] # <<>>
                            /\ \A i \in DOMAIN o.order[or] : o.and[o.order[or][i]].or = or
  BY NookConstants
<1>2. Ors(o) \subseteq Nat /\ 0 \notin Ors(o) /\ 0 .. o.or_count = Ors(o) \cup {0}
  BY <1>1 DEF Ors
<1>3. ASSUME NEW or \in Ors(o)
      PROVE  /\ Len(o.order[or]) \in Nat /\ DOMAIN o.order[or] = 1 .. Len(o.order[or])
             /\ 1 \in DOMAIN o.order[or]
             /\ \A i \in DOMAIN o.order[or] : o.order[or][i] \in Ands(o)
  <2>1. o.order[or] \in Seq(Ands(o)) /\ o.order[or] # <<>>
    BY <1>1
  <2>. QED
    BY <2>1, OfSeq
<1>4. ASSUME NEW a \in Ands(o)
      PROVE  o.and[a].cause \in Ors(o) \cup {0} /\ o.and[a].pred \in Ors(o) \cup {0}
  BY <1>1, <1>2
<1>5. \A or \in Ors(o) : \A i \in DOMAIN o.order[or], r \in Roles :
        Child(o, or, i, r) \in Ors(o) \cup {0}
  BY <1>3, <1>4 DEF Child, and_order_get
<1>. QED
  BY <1>1, <1>2, <1>3, <1>5 DEF Ands

LEMMA OrNotZero ==
  ASSUME NEW o \in Bocages, NEW or \in Ors(o)
  PROVE  or # 0
BY BocageFacts
LEMMA UpToOrLast ==
  ASSUME NEW n \in Nat, NEW m \in 0 .. n
  PROVE  m <= n - 1 \/ m = n
OBVIOUS

LEMMA BeforeOrLast ==
  ASSUME NEW n \in Nat
  PROVE  /\ \A k \in 1 .. n : k \in 1 .. n - 1 \/ k = n
         /\ \A k \in 1 .. n - 1 : k \in 1 .. n /\ k # n
OBVIOUS

LEMMA ShapeFacts ==
  ASSUME NEW o \in Bocages, NEW ns, Shape(o, ns)
  PROVE  /\ Len(ns) \in Nat /\ DOMAIN ns = 1 .. Len(ns) /\ (Len(ns) > 0 <=> ns # <<>>)
         /\ \A k \in DOMAIN ns : /\ ns[k] \in Nook(o) /\ ns[k].or \in Ors(o)
                                 /\ ns[k].choice \in Nat /\ ns[k].choice >= 1
                                 /\ ns[k].choice <= Len(o.order[ns[k].or])
                                 /\ ns[k].parent \in Nat /\ ns[k].expanded \in SUBSET Roles
                                 /\ \A r \in Roles : Wants(o, ns[k], r) \in Ors(o) \cup {0}
<1>1. /\ Len(ns) \in Nat /\ DOMAIN ns = 1 .. Len(ns) /\ (Len(ns) > 0 <=> ns # <<>>)
      /\ \A k \in DOMAIN ns : ns[k] \in Nook(o)
  BY OfSeq DEF Shape
<1>2. ASSUME NEW k \in DOMAIN ns
      PROVE  /\ ns[k].or \in Ors(o) /\ ns[k].parent \in Nat /\ ns[k].expanded \in SUBSET Roles
             /\ ns[k].choice \in DOMAIN o.order[ns[k].or]
  BY <1>1 DEF Nook, Shape
<1>3. ASSUME NEW k \in DOMAIN ns
      PROVE  /\ ns[k].choice \in Nat /\ ns[k].choice >= 1
             /\ ns[k].choice <= Len(o.order[ns[k].or])
             /\ \A r \in Roles : Wants(o, ns[k], r) \in Ors(o) \cup {0}
  <2>1. /\ Len(o.order[ns[k].or]) \in Nat
        /\ DOMAIN o.order[ns[k].or] = 1 .. Len(o.order[ns[k].or])
    BY <1>2, BocageFacts
  <2>2. \A r \in Roles : Child(o, ns[k].or, ns[k].choice, r) \in Ors(o) \cup {0}
    BY <1>2, BocageFacts
  <2>. QED
    BY <1>2, <2>1, <2>2 DEF Wants
<1>. QED
  BY <1>1, <1>2, <1>3

\* Stacks with the same nooks up to a place.
SamePlaces(ms, ns, m) ==
  \A k \in 1 .. m : /\ ms[k].or = ns[k].or /\ ms[k].choice = ns[k].choice
                    /\ ms[k].parent = ns[k].parent /\ ms[k].role = ns[k].role

\* Marking roles for which there is nothing to expand.
LEMMA ShapeMarked ==
  ASSUME NEW o \in Bocages, NEW ns, Shape(o, ns), NEW ms \in Seq(Nook(o)),
         Len(ms) = Len(ns), SamePlaces(ms, ns, Len(ns)),
         \A k \in DOMAIN ns : ns[k].expanded \subseteq ms[k].expanded,
         \A k \in DOMAIN ns : \A r \in ms[k].expanded :
            r \in ns[k].expanded \/ Wants(o, ns[k], r) = 0
  PROVE  Shape(o, ms)
<1>1. DOMAIN ms = DOMAIN ns /\ DOMAIN ns = 1 .. Len(ns) /\ Len(ns) \in Nat
  BY OfSeq, ShapeFacts
<1>2. \A k \in DOMAIN ns, r \in Roles : Wants(o, ms[k], r) = Wants(o, ns[k], r)
  BY <1>1 DEF SamePlaces, Wants
<1>3. ASSUME NEW k \in DOMAIN ms
      PROVE  ms[k].choice \in DOMAIN o.order[ms[k].or] /\ Hangs(o, ms, k)
  <2>1. ns[k].choice \in DOMAIN o.order[ns[k].or] /\ Hangs(o, ns, k)
    BY <1>1 DEF Shape
  <2>2. k > 1 => 1 .. k - 1 \subseteq DOMAIN ns
    BY <1>1
  <2>. QED
    BY <1>1, <1>2, <2>1, <2>2 DEF Hangs, SamePlaces
<1>4. \A j, k \in DOMAIN ms : ms[j].or = ms[k].or => j = k
  BY <1>1 DEF Shape, SamePlaces
<1>5. \A k \in DOMAIN ms, r \in Roles :
        r \in ms[k].expanded => Wants(o, ms[k], r) = 0 \/ Filled(ms, k, r)
  BY <1>1, <1>2 DEF Shape, Filled, SamePlaces
<1>6. ASSUME NEW m \in 0 .. Len(ms), NEW C \in SUBSET Ors(o), Followed(o, ms, m, C)
      PROVE  Reaches(ms, m, C)
  <2>1. 1 .. m \subseteq DOMAIN ns /\ m \in 0 .. Len(ns)
    BY <1>1
  <2>2. Followed(o, ns, m, C)
    BY <1>1, <1>2, <1>6, <2>1 DEF Followed, SamePlaces
  <2>3. Reaches(ns, m, C)
    BY <2>1, <2>2 DEF Shape
  <2>. QED
    BY <1>1, <2>1, <2>3 DEF Reaches, SamePlaces
<1>. QED
  BY <1>3, <1>4, <1>5, <1>6 DEF Shape

\* A nook is pushed for what another asks for.
IsPushed(ms, ns, c, w, q) ==
  /\ Len(ms) = Len(ns) + 1 /\ SamePlaces(ms, ns, Len(ns))
  /\ ms[Len(ns) + 1] = nook(c, w, q)
  /\ \A k \in DOMAIN ns : ms[k].expanded = IF k = w THEN ns[k].expanded \cup {q}
                                           ELSE ns[k].expanded
LEMMA ShapePushed ==
  ASSUME NEW o \in Bocages, NEW ns, Shape(o, ns), NEW w \in DOMAIN ns, NEW q \in Roles,
         NEW c \in Ors(o), Wants(o, ns[w], q) = c, \A k \in DOMAIN ns : ns[k].or # c,
         NEW ms \in Seq(Nook(o)), IsPushed(ms, ns, c, w, q)
  PROVE  Shape(o, ms)
<1>. DEFINE L == Len(ns) + 1
<1>0. /\ Len(ms) = Len(ns) + 1 /\ SamePlaces(ms, ns, Len(ns))
      /\ ms[Len(ns) + 1] = nook(c, w, q)
      /\ \A k \in DOMAIN ns : ms[k].expanded = IF k = w THEN ns[k].expanded \cup {q}
                                               ELSE ns[k].expanded
  BY DEF IsPushed
<1>. USE <1>0
<1>1. /\ DOMAIN ns = 1 .. Len(ns) /\ Len(ns) \in Nat /\ DOMAIN ms = 1 .. L
      /\ L \in Nat /\ w \in 1 .. L - 1
  BY OfSeq, ShapeFacts
<1>2. /\ ms[L].or = c /\ ms[L].choice = 1 /\ ms[L].parent = w /\ ms[L].role = q
      /\ ms[L].expanded = {}
  BY DEF nook
<1>3. \A k \in DOMAIN ns, r \in Roles : Wants(o, ms[k], r) = Wants(o, ns[k], r)
  BY <1>1 DEF SamePlaces, Wants
<1>4. \A k \in DOMAIN ms : k \in DOMAIN ns \/ k = L
  BY <1>1
<1>5. ASSUME NEW k \in DOMAIN ms
      PROVE  ms[k].choice \in DOMAIN o.order[ms[k].or] /\ Hangs(o, ms, k)
  <2>1. CASE k \in DOMAIN ns
    <3>1. ns[k].choice \in DOMAIN o.order[ns[k].or] /\ Hangs(o, ns, k)
      BY <2>1 DEF Shape
    <3>2. k > 1 => 1 .. k - 1 \subseteq DOMAIN ns
      BY <1>1, <2>1
    <3>. QED
      BY <1>1, <1>3, <2>1, <3>1, <3>2 DEF Hangs, SamePlaces
  <2>2. CASE k = L
    <3>1. 1 \in DOMAIN o.order[c]
      BY BocageFacts
    <3>2. Wants(o, ms[w], q) = c /\ q \in ms[w].expanded
      BY <1>3
    <3>. QED
      BY <1>1, <1>2, <2>2, <3>1, <3>2 DEF Hangs
  <2>. QED
    BY <1>4, <2>1, <2>2
<1>6. \A j, k \in DOMAIN ms : ms[j].or = ms[k].or => j = k
  BY <1>1, <1>2, <1>4 DEF Shape, SamePlaces
<1>7. ASSUME NEW k \in DOMAIN ms, NEW r \in Roles, r \in ms[k].expanded
      PROVE  Wants(o, ms[k], r) = 0 \/ Filled(ms, k, r)
  <2>1. k \in DOMAIN ns
    BY <1>2, <1>4, <1>7
  <2>2. CASE k = w /\ r = q
    BY <1>1, <1>2, <2>2 DEF Filled
  <2>3. CASE r \in ns[k].expanded
    <3>1. Wants(o, ns[k], r) = 0 \/ Filled(ns, k, r)
      BY <2>1, <2>3 DEF Shape
    <3>. QED
      BY <1>1, <1>3, <2>1, <3>1 DEF Filled, SamePlaces
  <2>. QED
    BY <1>7, <2>1, <2>2, <2>3
<1>8. ASSUME NEW m \in 0 .. Len(ms), NEW C \in SUBSET Ors(o), Followed(o, ms, m, C)
      PROVE  Reaches(ms, m, C)
  <2>1. ASSUME NEW i \in 0 .. Len(ns), i <= m
        PROVE  Reaches(ms, i, C)
    <3>1. 1 .. i \subseteq DOMAIN ns /\ 1 .. i \subseteq 1 .. m
      BY <1>1, <2>1
    <3>2. Followed(o, ns, i, C)
      BY <1>1, <1>3, <1>8, <3>1 DEF Followed, SamePlaces
    <3>3. Reaches(ns, i, C)
      BY <3>2 DEF Shape
    <3>. QED
      BY <1>1, <3>1, <3>3 DEF Reaches, SamePlaces
  <2>2. CASE m <= Len(ns)
    BY <2>1, <2>2, <1>1
  <2>3. CASE m = L
    <3>1. Reaches(ms, Len(ns), C)
      BY <2>1, <2>3, <1>1
    <3>2. ms[w].or \in C
      BY <3>1, <1>1 DEF Reaches
    <3>3. Wants(o, ms[w], q) \in C \cup {0}
      BY <1>1, <1>8, <2>3, <3>2 DEF Followed
    <3>4. c \in C
      <4>1. c \in C \cup {0}
        BY <1>3, <3>3
      <4>2. c # 0
        BY OrNotZero
      <4>. QED
        BY <4>1, <4>2
    <3>. QED
      BY <1>1, <1>2, <2>3, <3>1, <3>4 DEF Reaches
  <2>. QED
    BY <1>1, <2>2, <2>3
<1>. QED
  BY <1>5, <1>6, <1>7, <1>8 DEF Shape

\* The last nook takes another choice, and nothing hangs on it.
LEMMA ShapeTurned ==
  ASSUME NEW o \in Bocages, NEW ns, Shape(o, ns), ns # <<>>,
         NEW ms \in Seq(Nook(o)), Len(ms) = Len(ns), \A k \in 1 .. Len(ns) - 1 : ms[k] = ns[k],
         ms[Len(ns)].or = ns[Len(ns)].or, ms[Len(ns)].parent = ns[Len(ns)].parent,
         ms[Len(ns)].role = ns[Len(ns)].role, ms[Len(ns)].expanded = {},
         ms[Len(ns)].choice \in DOMAIN o.order[ns[Len(ns)].or]
  PROVE  Shape(o, ms)
<1>. DEFINE L == Len(ns)
<1>1. DOMAIN ns = 1 .. L /\ DOMAIN ms = 1 .. L /\ L \in Nat /\ L > 0
  BY OfSeq, ShapeFacts
<1>2. \A k \in DOMAIN ms : k \in 1 .. L - 1 \/ k = L
  BY <1>1
<1>3. \A k \in DOMAIN ms : /\ ms[k].or = ns[k].or /\ ms[k].parent = ns[k].parent
                            /\ ms[k].role = ns[k].role
  BY <1>2
<1>4. ASSUME NEW k \in DOMAIN ms
      PROVE  ms[k].choice \in DOMAIN o.order[ms[k].or] /\ Hangs(o, ms, k)
  <2>1. ns[k].choice \in DOMAIN o.order[ns[k].or] /\ Hangs(o, ns, k)
    BY <1>1 DEF Shape
  <2>2. k > 1 => 1 .. k - 1 \subseteq 1 .. L - 1
    BY <1>1
  <2>3. Hangs(o, ms, k)
    BY <1>1, <1>3, <2>1, <2>2 DEF Hangs
  <2>4. ms[k].choice \in DOMAIN o.order[ms[k].or]
    BY <1>2, <2>1
  <2>. QED
    BY <2>3, <2>4
<1>5. \A j, k \in DOMAIN ms : ms[j].or = ms[k].or => j = k
  BY <1>1, <1>3 DEF Shape
<1>6. ASSUME NEW k \in DOMAIN ms, NEW r \in Roles, r \in ms[k].expanded
      PROVE  Wants(o, ms[k], r) = 0 \/ Filled(ms, k, r)
  <2>1. k \in 1 .. L - 1 /\ k \in DOMAIN ns /\ ms[k] = ns[k]
    BY <1>1, <1>2, <1>6
  <2>2. Wants(o, ns[k], r) = 0 \/ Filled(ns, k, r)
    BY <1>6, <2>1 DEF Shape
  <2>. QED
    BY <1>1, <1>3, <2>1, <2>2 DEF Filled
<1>7. ASSUME NEW m \in 0 .. Len(ms), NEW C \in SUBSET Ors(o), Followed(o, ms, m, C)
      PROVE  Reaches(ms, m, C)
  <2>1. ASSUME NEW i \in 0 .. L - 1, i <= m
        PROVE  Reaches(ms, i, C)
    <3>1. 1 .. i \subseteq 1 .. L - 1 /\ 1 .. i \subseteq 1 .. m /\ i \in 0 .. Len(ns)
      BY <1>1, <2>1
    <3>2. Followed(o, ns, i, C)
      BY <1>7, <3>1 DEF Followed
    <3>3. Reaches(ns, i, C)
      BY <3>1, <3>2 DEF Shape
    <3>. QED
      BY <3>1, <3>3 DEF Reaches
  <2>2. CASE m <= L - 1
    BY <2>1, <2>2, <1>1
  <2>3. CASE m = L
    <3>1. Reaches(ms, L - 1, C)
      BY <2>1, <2>3, <1>1
    <3>2. Hangs(o, ms, L)
      BY <1>1, <1>4
    <3>3. ms[L].or \in C
      <4>1. CASE L = 1
        BY <3>2, <4>1, <1>7 DEF Hangs, Followed
      <4>2. CASE L > 1
        <5>. DEFINE p == ms[L].parent
        <5>1. p \in 1 .. L - 1 /\ ms[L].role \in Roles /\ Wants(o, ms[p], ms[L].role) = ms[L].or
          BY <3>2, <4>2 DEF Hangs
        <5>2. ms[p].or \in C /\ p \in 1 .. m
          BY <3>1, <5>1, <2>3, <1>1 DEF Reaches
        <5>3. ms[L].or \in C \cup {0}
          BY <5>1, <5>2, <1>7 DEF Followed
        <5>4. ms[L].or \in Ors(o)
          BY <1>1, <1>3, ShapeFacts
        <5>. QED
          BY <5>3, <5>4, BocageFacts
      <4>. QED
        BY <4>1, <4>2, <1>1
    <3>. QED
      BY <1>1, <2>3, <3>1, <3>3 DEF Reaches
  <2>4. m <= L - 1 \/ m = L
    <3>1. m \in 0 .. L /\ L \in Nat
      BY <1>1
    <3>. QED
      BY <3>1, UpToOrLast
  <2>. QED
    BY <2>2, <2>3, <2>4
<1>. QED
  BY <1>4, <1>5, <1>6, <1>7 DEF Shape

\* The last nook is dropped, and its role is open again.
LEMMA ShapeDropped ==
  ASSUME NEW o \in Bocages, NEW ns, Shape(o, ns), ns # <<>>,
         NEW ms \in Seq(Nook(o)), Len(ms) = Len(ns) - 1, SamePlaces(ms, ns, Len(ns) - 1),
         \A k \in 1 .. Len(ns) - 1 :
            ms[k].expanded = IF k = ns[Len(ns)].parent THEN ns[k].expanded \ {ns[Len(ns)].role}
                             ELSE ns[k].expanded
  PROVE  Shape(o, ms)
<1>. DEFINE L == Len(ns)
<1>1. DOMAIN ns = 1 .. L /\ DOMAIN ms = 1 .. L - 1 /\ L \in Nat /\ L > 0
  BY OfSeq, ShapeFacts
<1>2. \A k \in DOMAIN ms : k \in DOMAIN ns /\ k # L
  BY <1>1
<1>3. \A k \in DOMAIN ms, r \in Roles : Wants(o, ms[k], r) = Wants(o, ns[k], r)
  BY <1>1 DEF SamePlaces, Wants
<1>4. ASSUME NEW k \in DOMAIN ms
      PROVE  ms[k].choice \in DOMAIN o.order[ms[k].or] /\ Hangs(o, ms, k)
  <2>1. ns[k].choice \in DOMAIN o.order[ns[k].or] /\ Hangs(o, ns, k)
    BY <1>2 DEF Shape
  <2>2. /\ ms[k].or = ns[k].or /\ ms[k].choice = ns[k].choice
        /\ ms[k].parent = ns[k].parent /\ ms[k].role = ns[k].role
    BY <1>1 DEF SamePlaces
  <2>3. CASE k = 1
    BY <2>1, <2>2, <2>3 DEF Hangs
  <2>4. CASE k # 1
    <3>. DEFINE p == ns[k].parent
    <3>1. /\ k > 1 /\ p \in 1 .. k - 1 /\ ns[k].role \in Roles
          /\ Wants(o, ns[p], ns[k].role) = ns[k].or /\ ns[k].role \in ns[p].expanded
      BY <2>1, <2>4 DEF Hangs
    <3>2. p \in DOMAIN ms
      BY <1>1, <3>1
    <3>3. ns[k].role \in ms[p].expanded
      <4>. SUFFICES ASSUME p = ns[L].parent, ns[k].role = ns[L].role PROVE FALSE
        BY <1>1, <3>1, <3>2
      <4>1. L > 1 /\ L \in DOMAIN ns
        BY <1>1, <3>1
      <4>2. Hangs(o, ns, L)
        BY <4>1 DEF Shape
      <4>3. Wants(o, ns[p], ns[k].role) = ns[L].or
        BY <4>1, <4>2 DEF Hangs
      <4>4. k = L
        BY <3>1, <4>1, <4>3, <1>2 DEF Shape
      <4>. QED
        BY <4>4, <1>2
    <3>. QED
      BY <1>3, <2>1, <2>2, <3>1, <3>2, <3>3 DEF Hangs
  <2>. QED
    BY <2>3, <2>4
<1>5. \A j, k \in DOMAIN ms : ms[j].or = ms[k].or => j = k
  BY <1>1, <1>2 DEF Shape, SamePlaces
<1>6. ASSUME NEW k \in DOMAIN ms, NEW r \in Roles, r \in ms[k].expanded
      PROVE  Wants(o, ms[k], r) = 0 \/ Filled(ms, k, r)
  <2>1. r \in ns[k].expanded /\ ~(k = ns[L].parent /\ r = ns[L].role)
    BY <1>1, <1>6
  <2>2. CASE Wants(o, ns[k], r) = 0
    BY <1>3, <2>2
  <2>3. CASE Filled(ns, k, r)
    <3>1. PICK j \in DOMAIN ns : ns[j].parent = k /\ ns[j].role = r
      BY <2>3 DEF Filled
    <3>2. j # L
      BY <2>1, <3>1
    <3>3. j \in DOMAIN ms
      BY <1>1, <3>2
    <3>. QED
      BY <1>1, <3>1, <3>3 DEF Filled, SamePlaces
  <2>. QED
    BY <1>2, <2>1, <2>2, <2>3 DEF Shape
<1>7. ASSUME NEW m \in 0 .. Len(ms), NEW C \in SUBSET Ors(o), Followed(o, ms, m, C)
      PROVE  Reaches(ms, m, C)
  <2>1. 1 .. m \subseteq DOMAIN ms /\ m \in 0 .. Len(ns)
    BY <1>1
  <2>2. Followed(o, ns, m, C)
    BY <1>1, <1>3, <1>7, <2>1 DEF Followed, SamePlaces
  <2>3. Reaches(ns, m, C)
    BY <2>1, <2>2 DEF Shape
  <2>. QED
    BY <1>1, <2>1, <2>3 DEF Reaches, SamePlaces
<1>. QED
  BY <1>4, <1>5, <1>6, <1>7 DEF Shape

\* The stack is empty, or has a nook for the root.
LEMMA ShapeOfNothing ==
  ASSUME NEW o \in Bocages
  PROVE  Shape(o, <<>>)
<1>1. <<>> \in Seq(Nook(o)) /\ DOMAIN <<>> = {} /\ Len(<<>>) = 0 /\ 0 .. 0 = {0} /\ 1 .. 0 = {}
  OBVIOUS
<1>. QED
  BY <1>1 DEF Shape, Reaches
LEMMA ShapeOfRoot ==
  ASSUME NEW o \in Bocages, ~o.nulling
  PROVE  Shape(o, <<nook(o.top, 0, "top")>>)
<1>. DEFINE ms == <<nook(o.top, 0, "top")>>
<1>1. /\ o.top \in Ors(o) /\ 1 \in DOMAIN o.order[o.top]
  BY BocageFacts
<1>2. nook(o.top, 0, "top") \in Nook(o)
  BY <1>1 DEF nook, Nook
<1>3. ms \in Seq(Nook(o)) /\ DOMAIN ms = {1} /\ Len(ms) = 1 /\ ms[1] = nook(o.top, 0, "top")
  BY <1>2
<1>. HIDE DEF ms
<1>4. /\ ms[1].or = o.top /\ ms[1].choice = 1 /\ ms[1].parent = 0 /\ ms[1].role = "top"
      /\ ms[1].expanded = {}
  BY <1>3 DEF nook
<1>5. Hangs(o, ms, 1)
  BY <1>4 DEF Hangs
<1>6. \A m \in 0 .. Len(ms), C \in SUBSET Ors(o) : Followed(o, ms, m, C) => Reaches(ms, m, C)
  BY <1>3, <1>4 DEF Followed, Reaches
<1>7. Shape(o, ms)
  BY <1>1, <1>3, <1>4, <1>5, <1>6 DEF Shape
<1>. QED
  BY <1>7 DEF ms

(***************************************************************************)
(* Stacks and trees                                                        *)
(***************************************************************************)
LEMMA TreeFacts ==
  ASSUME NEW o \in Bocages, ~o.nulling, NEW f \in Trees(o)
  PROVE  /\ IsTree(o, f) /\ f = [s \in DOMAIN f |-> f[s]]
         /\ \A s \in DOMAIN f : f[s] \in Nat /\ f[s] >= 1 /\ f[s] <= Len(o.order[s])
<1>1. IsTree(o, f) /\ f = [s \in DOMAIN f |-> f[s]]
  BY DEF Trees
<1>2. ASSUME NEW s \in DOMAIN f
      PROVE  f[s] \in Nat /\ f[s] >= 1 /\ f[s] <= Len(o.order[s])
  <2>1. s \in Ors(o) /\ f[s] \in DOMAIN o.order[s]
    BY <1>1 DEF IsTree
  <2>2. DOMAIN o.order[s] = 1 .. Len(o.order[s]) /\ Len(o.order[s]) \in Nat
    BY <2>1, BocageFacts
  <2>. QED
    BY <2>1, <2>2
<1>. QED
  BY <1>1, <1>2

\* The tree of a stack has the choices of its nooks.
LEMMA StackAsTree ==
  ASSUME NEW o \in Bocages, NEW ns, Shape(o, ns)
  PROVE  /\ DOMAIN TreeOf(ns) = {ns[k].or : k \in DOMAIN ns}
         /\ \A k \in DOMAIN ns : TreeOf(ns)[ns[k].or] = ns[k].choice
<1>1. DOMAIN TreeOf(ns) = {ns[k].or : k \in DOMAIN ns}
  BY DEF TreeOf
<1>2. ASSUME NEW k \in DOMAIN ns
      PROVE  TreeOf(ns)[ns[k].or] = ns[k].choice
  <2>. DEFINE j == CHOOSE i \in DOMAIN ns : ns[i].or = ns[k].or
  <2>1. j \in DOMAIN ns /\ ns[j].or = ns[k].or
    OBVIOUS
  <2>2. j = k
    BY <2>1 DEF Shape
  <2>3. TreeOf(ns)[ns[k].or] = ns[j].choice
    BY DEF TreeOf
  <2>. QED
    BY <2>2, <2>3
<1>. QED
  BY <1>1, <1>2

\* In an expanded stack a nook hangs wherever one is asked for.
LEMMA KidOf ==
  ASSUME NEW o \in Bocages, NEW ns, Shape(o, ns), NEW k \in DOMAIN ns, NEW r \in Roles,
         r \in ns[k].expanded, Wants(o, ns[k], r) # 0
  PROVE  \E j \in DOMAIN ns : /\ j # 1 /\ ns[j].parent = k /\ ns[j].role = r
                             /\ ns[j].or = Wants(o, ns[k], r)
<1>1. PICK j \in DOMAIN ns : ns[j].parent = k /\ ns[j].role = r
  BY DEF Shape, Filled
<1>2. Hangs(o, ns, j) /\ k # 0
  BY ShapeFacts DEF Shape
<1>. QED
  BY <1>1, <1>2 DEF Hangs

LEMMA FirstIsRoot ==
  ASSUME NEW o \in Bocages, NEW ns, Shape(o, ns), ns # <<>>
  PROVE  1 \in DOMAIN ns /\ ns[1].or = o.top
<1>1. 1 \in DOMAIN ns
  BY ShapeFacts
<1>2. Hangs(o, ns, 1)
  BY <1>1 DEF Shape
<1>. QED
  BY <1>1, <1>2 DEF Hangs

\* An expanded stack is a tree.
LEMMA StackIsTree ==
  ASSUME NEW o \in Bocages, ~o.nulling, NEW ns, Shape(o, ns), ns # <<>>,
         \A k \in DOMAIN ns : ns[k].expanded = Roles
  PROVE  TreeOf(ns) \in Trees(o)
<1>. DEFINE f == TreeOf(ns)
<1>1. /\ DOMAIN f = {ns[k].or : k \in DOMAIN ns}
      /\ \A k \in DOMAIN ns : f[ns[k].or] = ns[k].choice
  BY StackAsTree
<1>. HIDE DEF f
<1>2. \A k \in DOMAIN ns : \A r : Child(o, ns[k].or, f[ns[k].or], r) = Wants(o, ns[k], r)
  BY <1>1 DEF Wants
<1>3. 1 \in DOMAIN ns /\ ns[1].or = o.top
  BY FirstIsRoot
<1>4. /\ DOMAIN f \subseteq Ors(o) /\ o.top \in DOMAIN f
      /\ \A s \in DOMAIN f : f[s] \in DOMAIN o.order[s]
  <2>1. \A k \in DOMAIN ns : ns[k].or \in Ors(o) /\ ns[k].choice \in DOMAIN o.order[ns[k].or]
    BY ShapeFacts DEF Shape
  <2>. QED
    BY <1>1, <1>3, <2>1
<1>5. ASSUME NEW k \in DOMAIN ns, NEW r \in Roles
      PROVE  Wants(o, ns[k], r) \in (DOMAIN f \cup {0}) \ {o.top}
  <2>1. CASE Wants(o, ns[k], r) = 0
    BY <2>1, <1>4, OrNotZero
  <2>2. CASE Wants(o, ns[k], r) # 0
    <3>1. PICK j \in DOMAIN ns : j # 1 /\ ns[j].or = Wants(o, ns[k], r)
      BY <2>2, KidOf
    <3>2. ns[j].or # o.top
      BY <3>1, <1>3 DEF Shape
    <3>. QED
      BY <3>1, <3>2, <1>1
  <2>. QED
    BY <2>1, <2>2
<1>6. ASSUME NEW k \in DOMAIN ns, NEW i \in DOMAIN ns, NEW r \in Roles, NEW p \in Roles,
             Wants(o, ns[k], r) = Wants(o, ns[i], p), Wants(o, ns[k], r) # 0
      PROVE  k = i /\ r = p
  <2>1. PICK j \in DOMAIN ns : ns[j].parent = k /\ ns[j].role = r /\ ns[j].or = Wants(o, ns[k], r)
    BY <1>6, KidOf
  <2>2. PICK l \in DOMAIN ns : ns[l].parent = i /\ ns[l].role = p /\ ns[l].or = Wants(o, ns[i], p)
    BY <1>6, KidOf
  <2>3. j = l
    BY <1>6, <2>1, <2>2 DEF Shape
  <2>. QED
    BY <2>1, <2>2, <2>3
<1>7. ASSUME NEW C \in SUBSET DOMAIN f, o.top \in C,
             \A s \in C, r \in Roles : Child(o, s, f[s], r) \in C \cup {0}
      PROVE  C = DOMAIN f
  <2>1. DOMAIN ns = 1 .. Len(ns) /\ Len(ns) \in Nat
    BY ShapeFacts
  <2>2. Followed(o, ns, Len(ns), C)
    BY <1>2, <1>7, <2>1 DEF Followed
  <2>3. C \in SUBSET Ors(o) /\ Len(ns) \in 0 .. Len(ns)
    BY <1>4, <2>1
  <2>4. Reaches(ns, Len(ns), C)
    BY <2>2, <2>3 DEF Shape
  <2>. QED
    BY <1>1, <2>1, <2>4 DEF Reaches
<1>8. IsTree(o, f)
  <2>1. \A s \in DOMAIN f, r \in Roles : Child(o, s, f[s], r) \in (DOMAIN f \cup {0}) \ {o.top}
    BY <1>1, <1>2, <1>5
  <2>2. ASSUME NEW s \in DOMAIN f, NEW q \in DOMAIN f, NEW r \in Roles, NEW p \in Roles,
               Child(o, s, f[s], r) = Child(o, q, f[q], p), Child(o, s, f[s], r) # 0
        PROVE  s = q /\ r = p
    <3>1. PICK k \in DOMAIN ns : s = ns[k].or
      BY <1>1
    <3>2. PICK i \in DOMAIN ns : q = ns[i].or
      BY <1>1
    <3>3. Wants(o, ns[k], r) = Wants(o, ns[i], p) /\ Wants(o, ns[k], r) # 0
      BY <1>2, <2>2, <3>1, <3>2
    <3>. QED
      BY <1>6, <3>1, <3>2, <3>3
  <2>. QED
    BY <1>4, <1>7, <2>1, <2>2 DEF IsTree
<1>9. f \in UNION {[S -> ChoicesOf(o)] : S \in SUBSET Ors(o)}
  <2>1. f = [s \in DOMAIN f |-> f[s]]
    BY DEF f, TreeOf
  <2>2. \A s \in DOMAIN f : f[s] \in ChoicesOf(o)
    BY <1>4 DEF ChoicesOf
  <2>3. f \in [DOMAIN f -> ChoicesOf(o)]
    BY <2>1, <2>2
  <2>. QED
    BY <1>4, <2>3
<1>. QED
  BY <1>8, <1>9 DEF Trees, f

\* A tree that an expanded stack is a part of is the tree of the stack.
LEMMA NothingBeyond ==
  ASSUME NEW o \in Bocages, ~o.nulling, NEW ns, Shape(o, ns), ns # <<>>,
         \A k \in DOMAIN ns : ns[k].expanded = Roles, NEW f \in Trees(o), Within(ns, f)
  PROVE  f = TreeOf(ns)
<1>. DEFINE C == {ns[k].or : k \in DOMAIN ns}
<1>1. DOMAIN ns = 1 .. Len(ns)
  BY ShapeFacts
<1>2. \A k \in DOMAIN ns : ns[k].or \in DOMAIN f /\ f[ns[k].or] = ns[k].choice
  BY <1>1 DEF Within, Agrees
<1>3. C \in SUBSET DOMAIN f /\ o.top \in C
  BY <1>2, FirstIsRoot
<1>4. ASSUME NEW k \in DOMAIN ns, NEW r \in Roles
      PROVE  Child(o, ns[k].or, f[ns[k].or], r) \in C \cup {0}
  <2>1. Child(o, ns[k].or, f[ns[k].or], r) = Wants(o, ns[k], r)
    BY <1>2 DEF Wants
  <2>2. CASE Wants(o, ns[k], r) # 0
    <3>1. PICK j \in DOMAIN ns : ns[j].or = Wants(o, ns[k], r)
      BY <2>2, KidOf
    <3>. QED
      BY <2>1, <3>1
  <2>. QED
    BY <2>1, <2>2
<1>5. C = DOMAIN f
  <2>1. \A s \in C, r \in Roles : Child(o, s, f[s], r) \in C \cup {0}
    BY <1>4
  <2>. HIDE DEF C
  <2>. QED
    BY <1>3, <2>1, TreeFacts DEF IsTree
<1>6. DOMAIN TreeOf(ns) = C /\ \A k \in DOMAIN ns : TreeOf(ns)[ns[k].or] = ns[k].choice
  BY StackAsTree
<1>7. TreeOf(ns) = [s \in DOMAIN TreeOf(ns) |-> TreeOf(ns)[s]]
  BY DEF TreeOf
<1>8. f = [s \in DOMAIN f |-> f[s]]
  BY TreeFacts
<1>9. \A s \in C : f[s] = TreeOf(ns)[s]
  BY <1>2, <1>6
<1>. QED
  BY <1>5, <1>6, <1>7, <1>8, <1>9

\* What a nook asks for is in every tree the stack is a part of, and has no nook
\* already.
LEMMA AskedFor ==
  ASSUME NEW o \in Bocages, ~o.nulling, NEW ns, Shape(o, ns), NEW f \in Trees(o), Within(ns, f),
         NEW w \in DOMAIN ns, NEW r \in Roles, r \notin ns[w].expanded, Wants(o, ns[w], r) # 0
  PROVE  Wants(o, ns[w], r) \in DOMAIN f /\ \A k \in DOMAIN ns : ns[k].or # Wants(o, ns[w], r)
<1>1. DOMAIN ns = 1 .. Len(ns) /\ IsTree(o, f)
  BY ShapeFacts, TreeFacts
<1>2. \A k \in DOMAIN ns : /\ ns[k].or \in DOMAIN f
                           /\ \A q : Child(o, ns[k].or, f[ns[k].or], q) = Wants(o, ns[k], q)
  BY <1>1 DEF Within, Agrees, Wants
<1>3. Wants(o, ns[w], r) \in DOMAIN f /\ Wants(o, ns[w], r) # o.top
  BY <1>1, <1>2 DEF IsTree
<1>4. ASSUME NEW k \in DOMAIN ns, ns[k].or = Wants(o, ns[w], r)
      PROVE  FALSE
  <2>. DEFINE p == ns[k].parent
              q == ns[k].role
  <2>1. /\ k > 1 /\ p \in 1 .. k - 1 /\ q \in Roles
        /\ Wants(o, ns[p], q) = ns[k].or /\ q \in ns[p].expanded
    BY <1>3, <1>4 DEF Shape, Hangs
  <2>2. p \in DOMAIN ns
    BY <1>1, <2>1
  <2>3. ns[p].or = ns[w].or /\ q = r
    BY <1>1, <1>2, <1>4, <2>1, <2>2 DEF IsTree
  <2>4. p = w
    BY <2>2, <2>3 DEF Shape
  <2>. QED
    BY <2>1, <2>3, <2>4
<1>. QED
  BY <1>3, <1>4

(***************************************************************************)
(* No step passes a tree                                                   *)
(***************************************************************************)
LEMMA AgreesSame ==
  ASSUME NEW f, NEW ns, NEW ms, NEW m \in Nat, NEW i \in Nat, i <= m, SamePlaces(ms, ns, m)
  PROVE  Agrees(ms, f, i) <=> Agrees(ns, f, i)
<1>1. 1 .. i \subseteq 1 .. m
  OBVIOUS
<1>. QED
  BY <1>1 DEF Agrees, SamePlaces

\* A tree keeps its place as long as the nooks do.
LEMMA PlacesKept ==
  ASSUME NEW o \in Bocages, NEW ns, Shape(o, ns), NEW ms, Shape(o, ms), Len(ms) >= Len(ns),
         SamePlaces(ms, ns, Len(ns)), NEW f
  PROVE  /\ Behind(ns, f) => Behind(ms, f)
         /\ Ahead(ns, f) => Ahead(ms, f)
         /\ Agrees(ms, f, Len(ns)) <=> Within(ns, f)
<1>1. /\ Len(ns) \in Nat /\ Len(ms) \in Nat /\ DOMAIN ns = 1 .. Len(ns)
      /\ DOMAIN ms = 1 .. Len(ms)
  BY ShapeFacts
<1>2. ASSUME NEW p \in DOMAIN ns
      PROVE  /\ p \in DOMAIN ms /\ (Agrees(ms, f, p - 1) <=> Agrees(ns, f, p - 1))
             /\ ms[p].or = ns[p].or /\ ms[p].choice = ns[p].choice
  <2>1. p \in DOMAIN ms /\ p - 1 \in Nat /\ p - 1 <= Len(ns)
    BY <1>1
  <2>. QED
    BY <1>1, <2>1, AgreesSame DEF SamePlaces
<1>3. Agrees(ms, f, Len(ns)) <=> Within(ns, f)
  BY <1>1, AgreesSame DEF Within
<1>. QED
  BY <1>2, <1>3 DEF Behind, Ahead

LEMMA PassingMarked ==
  ASSUME NEW o \in Bocages, NEW ns, Shape(o, ns), NEW ms, Shape(o, ms), Len(ms) = Len(ns),
         SamePlaces(ms, ns, Len(ns)), NEW S, Passing(o, ns, S)
  PROVE  Passing(o, ms, S)
<1>. SUFFICES ASSUME NEW f \in Trees(o)
              PROVE  IF f \in S THEN Behind(ms, f) ELSE Ahead(ms, f) \/ Within(ms, f)
  BY DEF Passing
<1>1. Len(ms) >= Len(ns)
  BY ShapeFacts
<1>2. /\ Behind(ns, f) => Behind(ms, f)
      /\ Ahead(ns, f) => Ahead(ms, f)
      /\ Agrees(ms, f, Len(ns)) <=> Within(ns, f)
  BY <1>1, PlacesKept
<1>. QED
  BY <1>2 DEF Passing, Within

\* A nook that is pushed starts with the first choice.
LEMMA PassingPushed ==
  ASSUME NEW o \in Bocages, ~o.nulling, NEW ns, Shape(o, ns), NEW ms, Shape(o, ms),
         Len(ms) = Len(ns) + 1, SamePlaces(ms, ns, Len(ns)), ms[Len(ns) + 1].choice = 1,
         NEW S, Passing(o, ns, S),
         \A f \in Trees(o) : Within(ns, f) => ms[Len(ns) + 1].or \in DOMAIN f
  PROVE  Passing(o, ms, S)
<1>. SUFFICES ASSUME NEW f \in Trees(o)
              PROVE  IF f \in S THEN Behind(ms, f) ELSE Ahead(ms, f) \/ Within(ms, f)
  BY DEF Passing
<1>. DEFINE L == Len(ns) + 1
<1>1. L \in Nat /\ Len(ms) >= Len(ns) /\ L \in DOMAIN ms /\ Len(ns) \in Nat /\ L - 1 = Len(ns)
  BY ShapeFacts
<1>2. /\ Behind(ns, f) => Behind(ms, f)
      /\ Ahead(ns, f) => Ahead(ms, f)
      /\ Agrees(ms, f, Len(ns)) <=> Within(ns, f)
  BY <1>1, PlacesKept
<1>3. ASSUME Within(ns, f)
      PROVE  Ahead(ms, f) \/ Within(ms, f)
  <2>1. ms[L].or \in DOMAIN f /\ f[ms[L].or] \in Nat /\ f[ms[L].or] >= 1
    BY <1>3, TreeFacts
  <2>2. Agrees(ms, f, L - 1)
    BY <1>1, <1>2, <1>3
  <2>3. CASE f[ms[L].or] = 1
    <3>1. \A k \in 1 .. L : k \in 1 .. L - 1 \/ k = L
      BY <1>1
    <3>2. Agrees(ms, f, L)
      BY <2>1, <2>2, <2>3, <3>1 DEF Agrees
    <3>. QED
      BY <3>2 DEF Within
  <2>4. CASE f[ms[L].or] > 1
    BY <1>1, <2>1, <2>2, <2>4 DEF Ahead
  <2>. QED
    BY <2>1, <2>3, <2>4
<1>. QED
  BY <1>2, <1>3 DEF Passing

LEMMA PassingFromRoot ==
  ASSUME NEW o \in Bocages, ~o.nulling
  PROVE  Passing(o, <<nook(o.top, 0, "top")>>, {})
<1>. DEFINE ms == <<nook(o.top, 0, "top")>>
<1>1. Len(ms) = 1 /\ DOMAIN ms = {1} /\ ms[1].or = o.top /\ ms[1].choice = 1
  BY DEF nook
<1>. HIDE DEF ms
<1>2. ASSUME NEW f \in Trees(o)
      PROVE  Ahead(ms, f) \/ Within(ms, f)
  <2>1. o.top \in DOMAIN f
    BY TreeFacts DEF IsTree
  <2>2. f[o.top] \in Nat /\ f[o.top] >= 1
    BY <2>1, TreeFacts
  <2>3. 1 - 1 = 0 /\ 1 .. 0 = {} /\ 1 .. 1 = {1}
    OBVIOUS
  <2>4. CASE f[o.top] = 1
    BY <1>1, <2>1, <2>3, <2>4 DEF Within, Agrees
  <2>5. CASE f[o.top] > 1
    BY <1>1, <2>1, <2>3, <2>5 DEF Ahead, Agrees
  <2>. QED
    BY <2>2, <2>4, <2>5
<1>3. Passing(o, ms, {})
  BY <1>2 DEF Passing
<1>. QED
  BY <1>3 DEF ms

\* The last nook takes the next choice: trees with the old one are behind.
LEMMA PassedTurned ==
  ASSUME NEW o \in Bocages, ~o.nulling, NEW ns, Shape(o, ns), ns # <<>>, NEW ms, Shape(o, ms),
         Len(ms) = Len(ns), \A k \in 1 .. Len(ns) - 1 : ms[k] = ns[k],
         ms[Len(ns)].or = ns[Len(ns)].or, ms[Len(ns)].choice = ns[Len(ns)].choice + 1,
         NEW S, Passed(o, ns, S)
  PROVE  Passing(o, ms, S)
<1>. SUFFICES ASSUME NEW f \in Trees(o)
              PROVE  IF f \in S THEN Behind(ms, f) ELSE Ahead(ms, f) \/ Within(ms, f)
  BY DEF Passing
<1>. DEFINE L == Len(ns)
<1>1. L \in Nat /\ L > 0 /\ DOMAIN ns = 1 .. L /\ DOMAIN ms = 1 .. L /\ L \in 1 .. L
  BY ShapeFacts
<1>2. ns[L].choice \in Nat /\ \A s \in DOMAIN f : f[s] \in Nat
  BY <1>1, ShapeFacts, TreeFacts
<1>3. SamePlaces(ms, ns, L - 1)
  BY DEF SamePlaces
<1>4. ASSUME NEW p \in 1 .. L
      PROVE  Agrees(ms, f, p - 1) <=> Agrees(ns, f, p - 1)
  <2>1. p - 1 \in Nat /\ L - 1 \in Nat /\ p - 1 <= L - 1
    BY <1>1
  <2>. QED
    BY <1>3, <2>1, AgreesSame
<1>5. \A p \in 1 .. L : p = L \/ ms[p] = ns[p]
  BY <1>1, BeforeOrLast
<1>6. ASSUME Behind(ns, f)
      PROVE  Behind(ms, f)
  <2>1. PICK p \in 1 .. L : /\ Agrees(ns, f, p - 1) /\ ns[p].or \in DOMAIN f
                            /\ f[ns[p].or] < ns[p].choice
    BY <1>1, <1>6 DEF Behind
  <2>2. ms[p].or = ns[p].or /\ f[ms[p].or] < ms[p].choice
    <3>1. CASE p = L
      BY <1>2, <2>1, <3>1
    <3>2. CASE p # L
      BY <1>5, <2>1, <3>2
    <3>. QED
      BY <3>1, <3>2
  <2>. QED
    BY <1>1, <1>4, <2>1, <2>2 DEF Behind
<1>7. ASSUME Within(ns, f)
      PROVE  Behind(ms, f)
  <2>1. Agrees(ns, f, L - 1) /\ ns[L].or \in DOMAIN f /\ f[ns[L].or] = ns[L].choice
    BY <1>1, <1>7 DEF Within, Agrees
  <2>2. f[ms[L].or] < ms[L].choice
    BY <1>2, <2>1
  <2>. QED
    BY <1>1, <1>4, <2>1, <2>2 DEF Behind
<1>8. ASSUME Ahead(ns, f)
      PROVE  Ahead(ms, f) \/ Within(ms, f)
  <2>1. PICK p \in 1 .. L : /\ Agrees(ns, f, p - 1) /\ ns[p].or \in DOMAIN f
                            /\ f[ns[p].or] > ns[p].choice
    BY <1>1, <1>8 DEF Ahead
  <2>2. CASE p # L
    BY <1>1, <1>4, <1>5, <2>1, <2>2 DEF Ahead
  <2>3. CASE p = L
    <3>1. f[ns[L].or] \in Nat /\ f[ns[L].or] >= ns[L].choice + 1
      BY <1>2, <2>1, <2>3
    <3>2. Agrees(ms, f, L - 1)
      BY <1>4, <2>1, <2>3
    <3>3. CASE f[ms[L].or] = ms[L].choice
      <4>1. \A k \in 1 .. L : k \in 1 .. L - 1 \/ k = L
        BY <1>1, BeforeOrLast
      <4>2. Agrees(ms, f, L)
        BY <2>1, <2>3, <3>2, <3>3, <4>1 DEF Agrees
      <4>. QED
        BY <4>2 DEF Within
    <3>4. CASE f[ms[L].or] > ms[L].choice
      BY <1>1, <2>1, <2>3, <3>2, <3>4 DEF Ahead
    <3>. QED
      BY <1>2, <3>1, <3>3, <3>4
  <2>. QED
    BY <2>2, <2>3
<1>. QED
  BY <1>6, <1>7, <1>8 DEF Passed

\* The last nook has no other choice, so that no tree ahead is left with it.
LEMMA PassedDropped ==
  ASSUME NEW o \in Bocages, ~o.nulling, NEW ns, Shape(o, ns), ns # <<>>, NEW ms, Shape(o, ms),
         Len(ms) = Len(ns) - 1, SamePlaces(ms, ns, Len(ns) - 1),
         ns[Len(ns)].choice >= Len(o.order[ns[Len(ns)].or]), NEW S, Passed(o, ns, S)
  PROVE  Passed(o, ms, S)
<1>. SUFFICES ASSUME NEW f \in Trees(o)
              PROVE  IF f \in S THEN Behind(ms, f) \/ Within(ms, f) ELSE Ahead(ms, f)
  BY DEF Passed
<1>. DEFINE L == Len(ns)
<1>1. L \in Nat /\ L > 0 /\ DOMAIN ns = 1 .. L /\ DOMAIN ms = 1 .. L - 1 /\ L \in 1 .. L
  BY ShapeFacts
<1>2. /\ \A s \in DOMAIN f : f[s] \in Nat /\ f[s] <= Len(o.order[s])
      /\ ns[L].choice \in Nat /\ Len(o.order[ns[L].or]) \in Nat
  BY <1>1, ShapeFacts, TreeFacts, BocageFacts
<1>3. ASSUME NEW i \in 0 .. L - 1
      PROVE  Agrees(ms, f, i) <=> Agrees(ns, f, i)
  <2>1. i \in Nat /\ L - 1 \in Nat /\ i <= L - 1
    BY <1>1
  <2>. QED
    BY <2>1, AgreesSame
<1>4. \A p \in 1 .. L : p # L => /\ p \in DOMAIN ms /\ p - 1 \in 0 .. L - 1
                                 /\ ms[p].or = ns[p].or /\ ms[p].choice = ns[p].choice
  BY <1>1 DEF SamePlaces
<1>5. Agrees(ns, f, L - 1) => Within(ms, f)
  BY <1>1, <1>3 DEF Within
<1>6. Within(ns, f) => Within(ms, f)
  <2>1. Within(ns, f) => Agrees(ns, f, L - 1)
    BY <1>1 DEF Within, Agrees
  <2>. QED
    BY <1>5, <2>1
<1>7. ASSUME Behind(ns, f)
      PROVE  Behind(ms, f) \/ Within(ms, f)
  <2>1. PICK p \in 1 .. L : /\ Agrees(ns, f, p - 1) /\ ns[p].or \in DOMAIN f
                            /\ f[ns[p].or] < ns[p].choice
    BY <1>1, <1>7 DEF Behind
  <2>2. CASE p = L
    BY <1>5, <2>1, <2>2
  <2>3. CASE p # L
    BY <1>3, <1>4, <2>1, <2>3 DEF Behind
  <2>. QED
    BY <2>2, <2>3
<1>8. ASSUME Ahead(ns, f)
      PROVE  Ahead(ms, f)
  <2>1. PICK p \in 1 .. L : /\ Agrees(ns, f, p - 1) /\ ns[p].or \in DOMAIN f
                            /\ f[ns[p].or] > ns[p].choice
    BY <1>1, <1>8 DEF Ahead
  <2>2. p # L
    BY <1>2, <2>1
  <2>. QED
    BY <1>3, <1>4, <2>1, <2>2 DEF Ahead
<1>. QED
  BY <1>6, <1>7, <1>8 DEF Passed

(***************************************************************************)
(* The steps                                                               *)
(***************************************************************************)
\* The and-nodes chosen for the nooks are different ones.
LEMMA StackHasRoom ==
  ASSUME NEW o \in Bocages, NEW ns, Shape(o, ns)
  PROVE  Len(ns) <= o.and_count
<1>1. Len(ns) \in Nat /\ DOMAIN ns = 1 .. Len(ns) /\ o.and_count \in Nat
  BY ShapeFacts, BocageFacts
<1>. DEFINE a == [k \in 1 .. Len(ns) |-> o.order[ns[k].or][ns[k].choice]]
<1>2. ASSUME NEW k \in 1 .. Len(ns)
      PROVE  a[k] \in 1 .. o.and_count /\ o.and[a[k]].or = ns[k].or
  <2>1. ns[k].or \in Ors(o) /\ ns[k].choice \in DOMAIN o.order[ns[k].or]
    BY <1>1, ShapeFacts DEF Shape
  <2>2. \A i \in DOMAIN o.order[ns[k].or] : /\ o.order[ns[k].or][i] \in 1 .. o.and_count
                                            /\ o.and[o.order[ns[k].or][i]].or = ns[k].or
    BY <2>1, BocageFacts
  <2>. QED
    BY <2>1, <2>2
<1>3. a \in [1 .. Len(ns) -> 1 .. o.and_count]
  BY <1>2
<1>. HIDE DEF a
<1>4. SUFFICES ASSUME Len(ns) > o.and_count PROVE FALSE
  BY <1>1
<1>5. /\ IsFiniteSet(1 .. Len(ns)) /\ Cardinality(1 .. Len(ns)) = Len(ns)
      /\ IsFiniteSet(1 .. o.and_count) /\ Cardinality(1 .. o.and_count) = o.and_count
  <2>1. \A m \in Nat : IsFiniteSet(1 .. m) /\ Cardinality(1 .. m) = m
    BY FS_Interval
  <2>. QED
    BY <2>1, <1>1
<1>6. PICK j, k \in 1 .. Len(ns) : j # k /\ a[j] = a[k]
  <2>1. /\ IsFiniteSet(1 .. Len(ns)) /\ IsFiniteSet(1 .. o.and_count)
        /\ Cardinality(1 .. Len(ns)) > Cardinality(1 .. o.and_count)
    BY <1>4, <1>5
  <2>. QED
    BY <1>3, <2>1, FS_PigeonHole
<1>7. ns[j].or = ns[k].or
  BY <1>2, <1>6
<1>. QED
  BY <1>1, <1>6, <1>7 DEF Shape

\* The worklist with every nook.
LEMMA AllListed ==
  ASSUME NEW o \in Bocages, NEW ns, Shape(o, ns), ns # <<>>,
         NEW w, w = [k \in DOMAIN ns |-> k]
  PROVE  WorkInv(ns, w) /\ w \in Seq(Nat) /\ Len(w) <= o.and_count
<1>1. Len(ns) \in Nat /\ DOMAIN ns = 1 .. Len(ns) /\ Len(ns) <= o.and_count
  BY ShapeFacts, StackHasRoom
<1>2. w = [k \in 1 .. Len(ns) |-> k]
  BY <1>1
<1>3. w \in Seq(1 .. Len(ns)) /\ w \in Seq(Nat) /\ Len(w) = Len(ns) /\ DOMAIN w = DOMAIN ns
  BY <1>1, <1>2
<1>4. \A k \in DOMAIN ns : Listed(w, k)
  BY <1>3 DEF Listed
<1>. QED
  BY <1>1, <1>3, <1>4 DEF WorkInv

LEMMA NookStarts == NookInit => NookInv
<1>. SUFFICES ASSUME NookInit PROVE NookInv
  OBVIOUS
<1>1. /\ b \in Bocages /\ at = "idle" /\ nooks = <<>> /\ inUse = {} /\ work = <<>>
      /\ parseCount = 0 /\ exhausted = FALSE /\ paused = 0 /\ seen = {}
  BY DEF NookInit
<1>2. b.and_count \in Nat /\ MaxPaused \in Nat
  BY <1>1, BocageFacts, NookConstants
<1>3. work \in Seq(Nat) /\ Len(work) = 0 /\ DOMAIN nooks = {}
  BY <1>1
<1>4. NookTypes
  <2>1. Len(work) <= b.and_count /\ parseCount \in Nat /\ paused \in 0 .. MaxPaused
    BY <1>1, <1>2, <1>3
  <2>. QED
    BY <1>1, <1>3, <2>1 DEF NookTypes
<1>5. Shape(b, nooks) /\ InUseExact
  BY <1>1, <1>3, ShapeOfNothing DEF InUseExact
<1>6. SeenInv
  BY <1>1, FS_EmptySet DEF SeenInv
<1>7. OrderInv
  BY <1>1 DEF OrderInv
<1>. QED
  BY <1>4, <1>5, <1>6, <1>7 DEF NookInv

\* Steps that leave the stack alone.
LEMMA QuietKeeps ==
  ASSUME NookInv, refuseCall \/ tree_pause \/ tree_unpause \/ UNCHANGED nookVars
  PROVE  NookInv'
<1>1. /\ b' = b /\ at' = at /\ nooks' = nooks /\ inUse' = inUse /\ work' = work
      /\ parseCount' = parseCount /\ exhausted' = exhausted /\ seen' = seen
      /\ at # "idle" => paused' = paused
  BY DEF refuseCall, tree_pause, tree_unpause, nookVars, tree
<1>2. paused' \in 0 .. MaxPaused
  BY NookConstants DEF NookInv, NookTypes, refuseCall, tree_pause, tree_unpause, nookVars
<1>3. NookTypes'
  BY <1>1, <1>2 DEF NookInv, NookTypes
<1>4. InUseExact'
  BY <1>1 DEF NookInv, InUseExact
<1>5. Shape(b, nooks)' /\ SeenInv' /\ OrderInv'
  BY <1>1 DEF NookInv, SeenInv, OrderInv
<1>. QED
  BY <1>3, <1>4, <1>5 DEF NookInv

LEMMA BeginKeeps ==
  ASSUME NookInv, beginCall
  PROVE  NookInv'
<1>1. /\ b' = b /\ nooks' = nooks /\ inUse' = inUse /\ work' = work
      /\ parseCount' = parseCount /\ exhausted' = exhausted /\ seen' = seen /\ paused' = paused
      /\ at = "idle" /\ paused = 0 /\ exhausted = FALSE /\ ~b.nulling
      /\ parseCount \in Nat
      /\ at' = IF parseCount < 1 THEN "first" ELSE "iterate"
  BY DEF beginCall, tree, NookInv, NookTypes
<1>2. NookTypes'
  BY <1>1 DEF NookInv, NookTypes
<1>3. InUseExact'
  BY <1>1 DEF NookInv, InUseExact
<1>4. SeenInv'
  BY <1>1 DEF NookInv, SeenInv
<1>5. OrderInv'
  BY <1>1 DEF NookInv, OrderInv
<1>. QED
  BY <1>1, <1>2, <1>3, <1>4, <1>5 DEF NookInv

\* No tree was returned before the first.
LEMMA NoneSeen ==
  ASSUME SeenInv, parseCount = 0
  PROVE  seen = {}
BY FS_EmptySet DEF SeenInv

\* The tree of a parse of nothing.
LEMMA NullingKeeps ==
  ASSUME NookInv, nullingTree \/ nullingEnd
  PROVE  NookInv'
<1>1. /\ b \in Bocages /\ b' = b /\ at = "idle" /\ at' = "idle" /\ paused = 0 /\ paused' = 0
      /\ b.nulling /\ nooks = <<>> /\ parseCount \in Nat /\ b.and_count \in Nat
  BY BocageFacts DEF nullingTree, nullingEnd, tree_exhaust, NookInv, NookTypes
<1>2. Trees(b) = {<<>>} /\ TreeOf(<<>>) = <<>>
  BY <1>1 DEF Trees, TreeOf
<1>3. CASE nullingTree
  <2>1. /\ parseCount = 0 /\ parseCount' = 1 /\ seen' = seen \cup {TreeOf(nooks)}
        /\ nooks' = nooks /\ inUse' = inUse /\ work' = work /\ exhausted' = FALSE
    BY <1>1, <1>3 DEF nullingTree, tree, NookInv, NookTypes
  <2>2. seen = {} /\ seen' = {<<>>}
    BY <1>1, <1>2, <2>1, NoneSeen DEF NookInv
  <2>3. IsFiniteSet({<<>>}) /\ Cardinality({<<>>}) = 1
    BY FS_Singleton
  <2>4. NookTypes'
    BY <1>1, <2>1 DEF NookInv, NookTypes
  <2>5. SeenInv' /\ OrderInv'
    BY <1>1, <1>2, <2>1, <2>2, <2>3 DEF SeenInv, OrderInv
  <2>6. InUseExact' /\ Shape(b, nooks)'
    BY <1>1, <2>1 DEF NookInv, InUseExact
  <2>. QED
    BY <2>4, <2>5, <2>6 DEF NookInv
<1>4. CASE nullingEnd
  <2>1. /\ parseCount >= 1 /\ parseCount' = parseCount /\ seen' = seen
        /\ nooks' = <<>> /\ inUse' = {} /\ work' = <<>> /\ exhausted' = TRUE
    BY <1>1, <1>4 DEF nullingEnd, tree_exhaust
  <2>2. work' \in Seq(Nat) /\ Len(work') = 0 /\ DOMAIN nooks' = {}
    BY <2>1
  <2>3. NookTypes'
    BY <1>1, <2>1, <2>2 DEF NookInv, NookTypes
  <2>4. SeenInv' /\ OrderInv'
    BY <1>1, <2>1 DEF NookInv, SeenInv, OrderInv
  <2>5. InUseExact' /\ Shape(b, nooks)'
    BY <1>1, <2>1, <2>2, ShapeOfNothing DEF InUseExact
  <2>. QED
    BY <2>3, <2>4, <2>5 DEF NookInv
<1>. QED
  BY <1>3, <1>4

\* The first nook is for the root.
LEMMA FirstKeeps ==
  ASSUME NookInv, firstNook
  PROVE  NookInv'
<1>1. /\ b \in Bocages /\ b' = b /\ at = "first" /\ at' = "expand" /\ ~b.nulling
      /\ parseCount = 0 /\ nooks = <<>> /\ inUse' = inUse \cup {b.top}
      /\ nooks' = Append(nooks, nook(b.top, 0, "top")) /\ work' = [k \in DOMAIN nooks' |-> k]
      /\ UNCHANGED <<parseCount, exhausted, paused, seen>>
  BY DEF firstNook, expandAll, NookInv, NookTypes, SeenInv
<1>2. nooks' = <<nook(b.top, 0, "top")>>
  BY <1>1
<1>3. Shape(b, nooks')
  BY <1>1, <1>2, ShapeOfRoot
<1>4. seen = {}
  BY <1>1, NoneSeen DEF NookInv
<1>5. Passing(b, nooks', {})
  BY <1>1, <1>2, PassingFromRoot
<1>6. nooks' # <<>> /\ DOMAIN nooks' = {1} /\ nooks'[1].or = b.top /\ inUse = {}
  <2>1. DOMAIN nooks = {}
    BY <1>1
  <2>. QED
    BY <1>2, <2>1 DEF nook, NookInv, InUseExact
<1>7. WorkInv(nooks', work') /\ work' \in Seq(Nat) /\ Len(work') <= b.and_count
  BY <1>1, <1>3, <1>6, AllListed
<1>8. InUseExact'
  BY <1>1, <1>6 DEF InUseExact
<1>9. NookTypes'
  BY <1>1, <1>7 DEF NookInv, NookTypes
<1>10. SeenInv' /\ OrderInv'
  BY <1>1, <1>4, <1>5, <1>7 DEF NookInv, NookTypes, SeenInv, OrderInv
<1>. QED
  BY <1>1, <1>3, <1>8, <1>9, <1>10 DEF NookInv

\* What is common to the states inside of a call.
LEMMA CallFacts ==
  ASSUME NookInv, at # "idle"
  PROVE  /\ b \in Bocages /\ ~b.nulling /\ ~exhausted /\ paused = 0 /\ Shape(b, nooks)
         /\ Len(nooks) \in Nat /\ DOMAIN nooks = 1 .. Len(nooks)
         /\ \A k \in DOMAIN nooks : nooks[k] \in Nook(b)
<1>1. b \in Bocages /\ ~b.nulling /\ ~exhausted /\ paused = 0 /\ Shape(b, nooks)
  BY DEF NookInv, NookTypes
<1>. QED
  BY <1>1, ShapeFacts

\* The last nook takes its next choice.
LEMMA ChoiceKeeps ==
  ASSUME NookInv, nextChoice
  PROVE  NookInv'
<1>. DEFINE L == Len(nooks)
<1>1. /\ b' = b /\ at = "iterate" /\ at' = "expand" /\ nooks # <<>> /\ HasNextChoice
      /\ nooks' = [nooks EXCEPT ![L].choice = @ + 1, ![L].expanded = {}]
      /\ work' = [k \in DOMAIN nooks' |-> k]
      /\ UNCHANGED <<inUse, parseCount, exhausted, paused, seen>>
  BY DEF nextChoice, expandAll
<1>2. /\ b \in Bocages /\ ~b.nulling /\ Shape(b, nooks) /\ Passed(b, nooks, seen)
      /\ L \in Nat /\ DOMAIN nooks = 1 .. L /\ L \in DOMAIN nooks /\ nooks[L] \in Nook(b)
      /\ nooks \in Seq(Nook(b))
  BY <1>1, CallFacts, ShapeFacts DEF NookInv, OrderInv, Shape
<1>3. /\ nooks[L].choice \in Nat /\ nooks[L].choice >= 1 /\ nooks[L].or \in Ors(b)
      /\ DOMAIN b.order[nooks[L].or] = 1 .. Len(b.order[nooks[L].or])
      /\ Len(b.order[nooks[L].or]) \in Nat
  <2>1. nooks[L].choice \in Nat /\ nooks[L].choice >= 1 /\ nooks[L].or \in Ors(b)
    BY <1>2, ShapeFacts
  <2>. QED
    BY <1>2, <2>1, BocageFacts
<1>4. nooks[L].choice + 1 \in DOMAIN b.order[nooks[L].or]
  BY <1>1, <1>3 DEF HasNextChoice, top, and_order_ix_is_valid
<1>. DEFINE n == [nooks[L] EXCEPT !.choice = @ + 1, !.expanded = {}]
<1>5. /\ n \in Nook(b) /\ n.or = nooks[L].or /\ n.choice = nooks[L].choice + 1
      /\ n.parent = nooks[L].parent /\ n.role = nooks[L].role /\ n.expanded = {}
  <2>1. nooks[L].choice + 1 \in Nat
    BY <1>3
  <2>2. /\ n.or = nooks[L].or /\ n.choice = nooks[L].choice + 1
        /\ n.parent = nooks[L].parent /\ n.role = nooks[L].role /\ n.expanded = {}
    BY <1>2 DEF Nook
  <2>3. n \in Nook(b)
    BY <1>2, <2>1 DEF Nook
  <2>. QED
    BY <2>2, <2>3
<1>6. nooks' = [nooks EXCEPT ![L] = n]
  BY <1>1, <1>2 DEF Nook
<1>. HIDE DEF n
<1>7. /\ nooks' \in Seq(Nook(b)) /\ Len(nooks') = L /\ nooks'[L] = n
      /\ \A k \in 1 .. L - 1 : nooks'[k] = nooks[k]
  BY <1>2, <1>5, <1>6
<1>8. Shape(b, nooks')
  <2>1. /\ nooks'[L].or = nooks[L].or /\ nooks'[L].parent = nooks[L].parent
        /\ nooks'[L].role = nooks[L].role /\ nooks'[L].expanded = {}
        /\ nooks'[L].choice \in DOMAIN b.order[nooks[L].or]
    BY <1>4, <1>5, <1>7
  <2>. QED
    BY <1>1, <1>2, <1>7, <2>1, ShapeTurned
<1>9. Passing(b, nooks', seen)
  BY <1>1, <1>2, <1>5, <1>7, <1>8, PassedTurned
<1>10. DOMAIN nooks' = DOMAIN nooks /\ \A k \in DOMAIN nooks : nooks'[k].or = nooks[k].or
  <2>1. DOMAIN nooks' = 1 .. L
    BY <1>2, <1>7, OfSeq
  <2>. QED
    BY <1>2, <1>5, <1>7, <2>1, BeforeOrLast
<1>11. InUseExact'
  BY <1>1, <1>10 DEF NookInv, InUseExact
<1>12. nooks' # <<>>
  BY <1>2, <1>7, <1>8, ShapeFacts
<1>13. WorkInv(nooks', work') /\ work' \in Seq(Nat) /\ Len(work') <= b.and_count
  BY <1>1, <1>2, <1>8, <1>12, AllListed
<1>14. NookTypes'
  BY <1>1, <1>2, <1>13 DEF NookInv, NookTypes
<1>15. SeenInv' /\ OrderInv'
  BY <1>1, <1>2, <1>9, <1>13 DEF NookInv, NookTypes, SeenInv, OrderInv
<1>. QED
  BY <1>1, <1>8, <1>11, <1>14, <1>15 DEF NookInv

\* The last nook is dropped.
LEMMA DropKeeps ==
  ASSUME NookInv, dropNook
  PROVE  NookInv'
<1>. DEFINE L == Len(nooks)
<1>1. /\ b' = b /\ at = "iterate" /\ at' = at /\ nooks # <<>> /\ ~HasNextChoice
      /\ nooks' = [k \in 1 .. L - 1 |->
                     IF k = nooks[L].parent
                     THEN [nooks[k] EXCEPT !.expanded = @ \ {nooks[L].role}] ELSE nooks[k]]
      /\ inUse' = inUse \ {nooks[L].or}
      /\ UNCHANGED <<work, parseCount, exhausted, paused, seen>>
  BY DEF dropNook, top
<1>2. /\ b \in Bocages /\ ~b.nulling /\ Shape(b, nooks) /\ Passed(b, nooks, seen)
      /\ L \in Nat /\ L > 0 /\ DOMAIN nooks = 1 .. L /\ L \in DOMAIN nooks
      /\ \A k \in DOMAIN nooks : nooks[k] \in Nook(b)
  BY <1>1, CallFacts, ShapeFacts DEF NookInv, OrderInv
<1>3. nooks[L].choice >= Len(b.order[nooks[L].or])
  <2>1. nooks[L].choice \in Nat /\ nooks[L].or \in Ors(b)
    BY <1>2, ShapeFacts
  <2>2. Len(b.order[nooks[L].or]) \in Nat
    BY <1>2, <2>1, BocageFacts
  <2>. QED
    BY <1>1, <2>1, <2>2 DEF HasNextChoice, top, and_order_ix_is_valid
<1>4. ASSUME NEW k \in 1 .. L - 1
      PROVE  /\ nooks'[k] \in Nook(b)
             /\ nooks'[k].or = nooks[k].or /\ nooks'[k].choice = nooks[k].choice
             /\ nooks'[k].parent = nooks[k].parent /\ nooks'[k].role = nooks[k].role
             /\ nooks'[k].expanded = IF k = nooks[L].parent
                                     THEN nooks[k].expanded \ {nooks[L].role}
                                     ELSE nooks[k].expanded
  <2>1. nooks[k] \in Nook(b)
    BY <1>2
  <2>2. nooks'[k] = IF k = nooks[L].parent
                    THEN [nooks[k] EXCEPT !.expanded = @ \ {nooks[L].role}] ELSE nooks[k]
    BY <1>1
  <2>. QED
    BY <2>1, <2>2 DEF Nook
<1>5. nooks' \in Seq(Nook(b)) /\ Len(nooks') = L - 1 /\ DOMAIN nooks' = 1 .. L - 1
  <2>1. L - 1 \in Nat
    BY <1>2
  <2>. QED
    BY <1>1, <1>4, <2>1
<1>6. SamePlaces(nooks', nooks, L - 1)
  BY <1>4 DEF SamePlaces
<1>7. Shape(b, nooks')
  BY <1>1, <1>2, <1>4, <1>5, <1>6, ShapeDropped
<1>8. Passed(b, nooks', seen)
  BY <1>1, <1>2, <1>3, <1>5, <1>6, <1>7, PassedDropped
<1>9. InUseExact'
  <2>1. \A k \in DOMAIN nooks : k \in 1 .. L - 1 \/ k = L
    BY <1>2, BeforeOrLast
  <2>2. \A k \in 1 .. L - 1 : k \in DOMAIN nooks /\ k # L
    BY <1>2, BeforeOrLast
  <2>3. \A k \in 1 .. L - 1 : nooks[k].or # nooks[L].or
    BY <1>2, <2>2 DEF Shape
  <2>. QED
    BY <1>1, <1>4, <1>5, <2>1, <2>2, <2>3 DEF NookInv, InUseExact
<1>10. NookTypes'
  BY <1>1, <1>2, CallFacts DEF NookInv, NookTypes
<1>11. SeenInv' /\ OrderInv'
  BY <1>1, <1>2, <1>8, CallFacts DEF NookInv, SeenInv, OrderInv
<1>. QED
  BY <1>1, <1>7, <1>9, <1>10, <1>11 DEF NookInv

\* With no nook left, no tree is ahead.
LEMMA EndKeeps ==
  ASSUME NookInv, noTreeLeft
  PROVE  NookInv'
<1>1. /\ b' = b /\ at # "idle" /\ at' = "idle" /\ nooks' = <<>> /\ inUse' = {} /\ work' = <<>>
      /\ exhausted' = TRUE /\ UNCHANGED <<parseCount, paused, seen>>
      /\ (at = "iterate" /\ nooks = <<>>)
         \/ (at = "first" /\ ~and_order_ix_is_valid(b, b.top, 1))
  BY DEF noTreeLeft, tree_exhaust
<1>2. b \in Bocages /\ ~b.nulling /\ paused = 0 /\ b.and_count \in Nat
  BY <1>1, CallFacts, BocageFacts
<1>3. and_order_ix_is_valid(b, b.top, 1)
  <2>1. b.top \in Ors(b)
    BY <1>2, BocageFacts
  <2>2. /\ 1 \in DOMAIN b.order[b.top] /\ Len(b.order[b.top]) \in Nat
        /\ DOMAIN b.order[b.top] = 1 .. Len(b.order[b.top])
    BY <1>2, <2>1, BocageFacts
  <2>. QED
    BY <2>2 DEF and_order_ix_is_valid
<1>4. Passed(b, nooks, seen) /\ DOMAIN nooks = {}
  BY <1>1, <1>3 DEF NookInv, OrderInv
<1>5. Trees(b) \subseteq seen
  BY <1>4 DEF Passed, Ahead
<1>6. work' \in Seq(Nat) /\ Len(work') = 0 /\ DOMAIN nooks' = {}
  BY <1>1
<1>7. NookTypes'
  BY <1>1, <1>2, <1>6 DEF NookInv, NookTypes
<1>8. SeenInv' /\ OrderInv'
  BY <1>1, <1>5 DEF NookInv, SeenInv, OrderInv
<1>9. InUseExact' /\ Shape(b, nooks)'
  BY <1>1, <1>2, <1>6, ShapeOfNothing DEF InUseExact
<1>. QED
  BY <1>7, <1>8, <1>9 DEF NookInv

\* The nook on top of the worklist and the role it needs.
LEMMA WorkFacts ==
  ASSUME NookInv, at = "expand", work # <<>>
  PROVE  /\ workNook \in DOMAIN nooks /\ WorkInv(nooks, work) /\ Passing(b, nooks, seen)
         /\ nextRole(workNook) = "none" =>
              \A r \in Roles : r \in nooks[workNook].expanded \/ Wants(b, nooks[workNook], r) = 0
         /\ nextRole(workNook) # "none" =>
              /\ nextRole(workNook) \in Roles
              /\ nextRole(workNook) \notin nooks[workNook].expanded
              /\ nextRole(workNook) \notin expandedBefore(nextRole(workNook))
              /\ childOf(workNook) = Wants(b, nooks[workNook], nextRole(workNook))
              /\ childOf(workNook) \in Ors(b)
              /\ \A r \in expandedBefore(nextRole(workNook)) :
                   r \in Roles /\ (r \in nooks[workNook].expanded \/ Wants(b, nooks[workNook], r) = 0)
<1>. DEFINE w == workNook
<1>1. WorkInv(nooks, work) /\ Passing(b, nooks, seen) /\ b \in Bocages /\ Shape(b, nooks)
  BY CallFacts DEF NookInv, OrderInv
<1>2. w \in DOMAIN nooks
  <2>1. work \in Seq(1 .. Len(nooks)) /\ DOMAIN nooks = 1 .. Len(nooks)
    BY <1>1, CallFacts DEF WorkInv
  <2>2. Len(work) \in DOMAIN work
    BY <2>1, OfSeq
  <2>. QED
    BY <2>1, <2>2, OfSeq DEF workNook
<1>3. \A r : Needs(w, r) <=> r \notin nooks[w].expanded /\ Wants(b, nooks[w], r) # 0
  BY DEF Needs, Wants
<1>4. nextRole(w) = "none" =>
        \A r \in Roles : r \in nooks[w].expanded \/ Wants(b, nooks[w], r) = 0
  BY <1>3 DEF nextRole, Roles
<1>5. ASSUME nextRole(w) # "none"
      PROVE  /\ nextRole(w) \in Roles /\ nextRole(w) \notin nooks[w].expanded
             /\ nextRole(w) \notin expandedBefore(nextRole(w))
             /\ Wants(b, nooks[w], nextRole(w)) # 0
             /\ \A r \in expandedBefore(nextRole(w)) :
                  r \in Roles /\ (r \in nooks[w].expanded \/ Wants(b, nooks[w], r) = 0)
  <2>1. CASE Needs(w, "cause")
    <3>1. nextRole(w) = "cause" /\ expandedBefore("cause") = {}
      BY <2>1 DEF nextRole, expandedBefore
    <3>. QED
      BY <1>3, <2>1, <3>1 DEF Roles
  <2>2. CASE ~Needs(w, "cause")
    <3>1. nextRole(w) = "pred" /\ Needs(w, "pred") /\ expandedBefore("pred") = {"cause"}
      BY <1>5, <2>2 DEF nextRole, expandedBefore
    <3>. QED
      BY <1>3, <2>2, <3>1 DEF Roles
  <2>. QED
    BY <2>1, <2>2
<1>6. childOf(w) = Wants(b, nooks[w], nextRole(w))
  BY DEF childOf, Wants
<1>7. nextRole(w) # "none" => childOf(w) \in Ors(b)
  <2>. SUFFICES ASSUME nextRole(w) # "none" PROVE childOf(w) \in Ors(b)
    OBVIOUS
  <2>1. Wants(b, nooks[w], nextRole(w)) \in Ors(b) \cup {0}
    BY <1>1, <1>2, <1>5, ShapeFacts
  <2>. QED
    BY <1>5, <1>6, <2>1
<1>. QED
  BY <1>1, <1>2, <1>4, <1>5, <1>6, <1>7

\* A stack with other marks at one nook.
Marked(ns, w, E) == [ns EXCEPT ![w].expanded = E]
IsMarked(o, ms, ns, w, E) ==
  /\ ms \in Seq(Nook(o)) /\ Len(ms) = Len(ns) /\ SamePlaces(ms, ns, Len(ns))
  /\ \A k \in DOMAIN ns : ms[k].expanded = IF k = w THEN E ELSE ns[k].expanded
LEMMA MarkedAt ==
  ASSUME NEW o \in Bocages, NEW ns, Shape(o, ns), NEW w \in DOMAIN ns, NEW E \in SUBSET Roles
  PROVE  IsMarked(o, Marked(ns, w, E), ns, w, E)
<1>. DEFINE ms == Marked(ns, w, E)
<1>1. /\ ns \in Seq(Nook(o)) /\ DOMAIN ns = 1 .. Len(ns)
      /\ \A k \in DOMAIN ns : ns[k] \in Nook(o)
  BY ShapeFacts DEF Shape
<1>. DEFINE n == [ns[w] EXCEPT !.expanded = E]
<1>2. /\ n \in Nook(o) /\ n.or = ns[w].or /\ n.choice = ns[w].choice /\ n.expanded = E
      /\ n.parent = ns[w].parent /\ n.role = ns[w].role
  BY <1>1 DEF Nook
<1>3. ms = [ns EXCEPT ![w] = n]
  BY DEF Marked
<1>. HIDE DEF n, ms
<1>4. ms \in Seq(Nook(o)) /\ Len(ms) = Len(ns)
  BY <1>1, <1>2, <1>3
<1>5. \A k \in DOMAIN ns : ms[k] = IF k = w THEN n ELSE ns[k]
  BY <1>1, <1>3
<1>6. IsMarked(o, ms, ns, w, E)
  BY <1>1, <1>2, <1>4, <1>5 DEF SamePlaces, IsMarked
<1>. QED
  BY <1>6 DEF ms

LEMMA SameOrs ==
  ASSUME NEW o \in Bocages, NEW ns, Shape(o, ns), NEW ms, Shape(o, ms),
         Len(ms) = Len(ns), SamePlaces(ms, ns, Len(ns))
  PROVE  {ms[k].or : k \in DOMAIN ms} = {ns[k].or : k \in DOMAIN ns}
<1>1. DOMAIN ms = DOMAIN ns /\ DOMAIN ns = 1 .. Len(ns)
  BY ShapeFacts
<1>. QED
  BY <1>1 DEF SamePlaces

\* A nook with nothing left to expand leaves the worklist.
LEMMA DoneKeeps ==
  ASSUME NookInv, nookDone
  PROVE  NookInv'
<1>. DEFINE w == workNook
<1>1. /\ b' = b /\ at = "expand" /\ at' = at /\ work # <<>> /\ nextRole(w) = "none"
      /\ nooks' = [nooks EXCEPT ![w].expanded = Roles] /\ work' = SubSeq(work, 1, Len(work) - 1)
      /\ UNCHANGED <<inUse, parseCount, exhausted, paused, seen>>
  BY DEF nookDone
<1>2. /\ b \in Bocages /\ Shape(b, nooks) /\ DOMAIN nooks = 1 .. Len(nooks) /\ w \in DOMAIN nooks
      /\ WorkInv(nooks, work) /\ Passing(b, nooks, seen)
      /\ \A r \in Roles : r \in nooks[w].expanded \/ Wants(b, nooks[w], r) = 0
      /\ \A k \in DOMAIN nooks : nooks[k].expanded \in SUBSET Roles
  BY <1>1, CallFacts, WorkFacts, ShapeFacts
<1>3. /\ nooks' \in Seq(Nook(b)) /\ Len(nooks') = Len(nooks)
      /\ SamePlaces(nooks', nooks, Len(nooks))
      /\ \A k \in DOMAIN nooks : nooks'[k].expanded = IF k = w THEN Roles ELSE nooks[k].expanded
  <2>. DEFINE E == Roles
  <2>1. E \in SUBSET Roles /\ nooks' = Marked(nooks, w, E)
    BY <1>1 DEF Marked
  <2>. HIDE DEF w, E
  <2>2. IsMarked(b, nooks', nooks, w, E)
    BY <1>2, <2>1, MarkedAt
  <2>. QED
    BY <2>2 DEF E, IsMarked
<1>4. Shape(b, nooks')
  <2>1. /\ \A k \in DOMAIN nooks : nooks[k].expanded \subseteq nooks'[k].expanded
        /\ \A k \in DOMAIN nooks : \A r \in nooks'[k].expanded :
             r \in nooks[k].expanded \/ Wants(b, nooks[k], r) = 0
    BY <1>2, <1>3
  <2>. QED
    BY <1>2, <1>3, <2>1, ShapeMarked
<1>5. Passing(b, nooks', seen)
  BY <1>2, <1>3, <1>4, PassingMarked
<1>6. WorkInv(nooks', work') /\ work' \in Seq(Nat) /\ Len(work') <= b.and_count
  <2>1. /\ work \in Seq(1 .. Len(nooks)) /\ Len(work) \in Nat /\ Len(work) > 0
        /\ Len(work) <= Len(nooks) /\ DOMAIN work = 1 .. Len(work) /\ nooks # <<>>
        /\ Len(nooks) \in Nat /\ Len(nooks) <= b.and_count /\ b.and_count \in Nat
    BY <1>1, <1>2, CallFacts, OfSeq, StackHasRoom, BocageFacts DEF WorkInv
  <2>2. /\ work' \in Seq(1 .. Len(nooks)) /\ Len(work') = Len(work) - 1
        /\ DOMAIN work' = 1 .. Len(work) - 1
        /\ \A i \in 1 .. Len(work) - 1 : work'[i] = work[i]
    BY <1>1, <2>1
  <2>3. ASSUME NEW k \in DOMAIN nooks
        PROVE  Listed(work', k) \/ nooks'[k].expanded = Roles
    <3>1. CASE k = w
      BY <1>3, <3>1
    <3>2. CASE k # w
      <4>1. Listed(work, k) \/ nooks[k].expanded = Roles
        BY <1>2 DEF WorkInv
      <4>2. Listed(work, k) => Listed(work', k)
        BY <2>1, <2>2, <3>2, BeforeOrLast DEF Listed, workNook
      <4>. QED
        BY <1>3, <3>2, <4>1, <4>2
    <3>. QED
      BY <3>1, <3>2
  <2>4. DOMAIN nooks' = DOMAIN nooks /\ nooks' # <<>>
    BY <1>2, <1>3, <1>4, <2>1, ShapeFacts
  <2>5. work' \in Seq(Nat)
    BY <2>2
  <2>6. Len(work') <= Len(nooks') /\ Len(work') <= b.and_count
    BY <1>3, <2>1, <2>2
  <2>. QED
    BY <1>3, <2>2, <2>3, <2>4, <2>5, <2>6 DEF WorkInv
<1>7. InUseExact'
  BY <1>1, <1>2, <1>3, <1>4, SameOrs DEF NookInv, InUseExact
<1>8. NookTypes'
  BY <1>1, <1>6, CallFacts DEF NookInv, NookTypes
<1>9. SeenInv' /\ OrderInv'
  BY <1>1, <1>5, <1>6, CallFacts DEF NookInv, SeenInv, OrderInv
<1>. QED
  BY <1>1, <1>4, <1>7, <1>8, <1>9 DEF NookInv

\* The marks that are set before a nook is pushed or given up.
LEMMA MarkedBefore ==
  ASSUME NookInv, at = "expand", work # <<>>, nextRole(workNook) # "none",
         NEW ms, ms = Marked(nooks, workNook,
                             nooks[workNook].expanded \cup expandedBefore(nextRole(workNook)))
  PROVE  /\ Shape(b, ms) /\ Len(ms) = Len(nooks) /\ SamePlaces(ms, nooks, Len(nooks))
         /\ \A k \in DOMAIN nooks :
              ms[k].expanded = IF k = workNook
                               THEN nooks[k].expanded \cup expandedBefore(nextRole(workNook))
                               ELSE nooks[k].expanded
         /\ Passing(b, ms, seen)
<1>. DEFINE w == workNook
            E == nooks[workNook].expanded \cup expandedBefore(nextRole(workNook))
<1>1. /\ b \in Bocages /\ Shape(b, nooks) /\ w \in DOMAIN nooks /\ Passing(b, nooks, seen)
      /\ \A r \in expandedBefore(nextRole(w)) :
           r \in Roles /\ (r \in nooks[w].expanded \/ Wants(b, nooks[w], r) = 0)
      /\ \A k \in DOMAIN nooks : nooks[k].expanded \in SUBSET Roles
  BY CallFacts, WorkFacts, ShapeFacts
<1>2. E \in SUBSET Roles /\ ms = Marked(nooks, w, E)
  BY <1>1
<1>3. nooks[w].expanded \subseteq E /\ \A r \in E : r \in nooks[w].expanded \/ Wants(b, nooks[w], r) = 0
  BY <1>1
<1>4. /\ ms \in Seq(Nook(b)) /\ Len(ms) = Len(nooks) /\ SamePlaces(ms, nooks, Len(nooks))
      /\ \A k \in DOMAIN nooks : ms[k].expanded = IF k = w THEN E ELSE nooks[k].expanded
  <2>. HIDE DEF w, E
  <2>. QED
    <3>1. IsMarked(b, ms, nooks, w, E)
      BY <1>1, <1>2, MarkedAt
    <3>. QED
      BY <3>1 DEF IsMarked
<1>5. Shape(b, ms)
  <2>. HIDE DEF w, E
  <2>1. /\ \A k \in DOMAIN nooks : nooks[k].expanded \subseteq ms[k].expanded
        /\ \A k \in DOMAIN nooks : \A r \in ms[k].expanded :
             r \in nooks[k].expanded \/ Wants(b, nooks[k], r) = 0
    BY <1>3, <1>4
  <2>. QED
    BY <1>1, <1>4, <2>1, ShapeMarked
<1>6. Passing(b, ms, seen)
  BY <1>1, <1>4, <1>5, PassingMarked
<1>. QED
  BY <1>4, <1>5, <1>6

\* What the nook asks for is in use: no tree has the stack as a part.
LEMMA GiveUpKeeps ==
  ASSUME NookInv, giveUp
  PROVE  NookInv'
<1>. DEFINE w == workNook
            c == childOf(workNook)
            q == nextRole(workNook)
<1>1. /\ b' = b /\ at = "expand" /\ at' = "iterate" /\ work # <<>> /\ q # "none" /\ ~CanTry(c)
      /\ nooks' = Marked(nooks, workNook,
                         nooks[workNook].expanded \cup expandedBefore(nextRole(workNook)))
      /\ inUse' = inUse \cup {c} /\ UNCHANGED <<work, parseCount, exhausted, paused, seen>>
  BY DEF giveUp, Marked
<1>2. /\ b \in Bocages /\ ~b.nulling /\ Shape(b, nooks) /\ w \in DOMAIN nooks
      /\ q \in Roles /\ q \notin nooks[w].expanded /\ c = Wants(b, nooks[w], q) /\ c \in Ors(b)
      /\ Passing(b, nooks, seen) /\ inUse = {nooks[k].or : k \in DOMAIN nooks}
  BY <1>1, CallFacts, WorkFacts DEF NookInv, InUseExact
<1>3. /\ Shape(b, nooks') /\ Len(nooks') = Len(nooks) /\ SamePlaces(nooks', nooks, Len(nooks))
      /\ Passing(b, nooks', seen)
  BY <1>1, MarkedBefore
<1>. HIDE DEF w, c, q
<1>4. c \in inUse
  <2>1. 1 \in DOMAIN b.order[c] /\ DOMAIN b.order[c] = 1 .. Len(b.order[c])
    BY <1>2, BocageFacts
  <2>2. and_order_ix_is_valid(b, c, 1)
    <3>1. Len(b.order[c]) \in Nat
      BY <1>2, BocageFacts
    <3>. QED
      BY <2>1, <3>1 DEF and_order_ix_is_valid
  <2>. QED
    BY <1>1, <2>2 DEF CanTry
<1>5. \A f \in Trees(b) : ~Within(nooks, f)
  <2>1. PICK k \in DOMAIN nooks : nooks[k].or = c
    BY <1>2, <1>4
  <2>2. c # 0
    BY <1>2, OrNotZero
  <2>. QED
    BY <1>2, <2>1, <2>2, AskedFor
<1>6. Passed(b, nooks', seen)
  <2>. SUFFICES ASSUME NEW f \in Trees(b), f \notin seen PROVE Ahead(nooks', f)
    BY <1>3 DEF Passed, Passing
  <2>1. ~Within(nooks, f) /\ (Ahead(nooks, f) \/ Within(nooks, f))
    BY <1>2, <1>5 DEF Passing
  <2>2. Len(nooks') >= Len(nooks)
    BY <1>2, <1>3, ShapeFacts
  <2>. QED
    BY <1>2, <1>3, <2>1, <2>2, PlacesKept
<1>7. InUseExact'
  <2>1. inUse' = inUse
    BY <1>1, <1>4
  <2>. QED
    <3>1. DOMAIN nooks' = 1 .. Len(nooks) /\ DOMAIN nooks = 1 .. Len(nooks)
      <4>1. DOMAIN nooks = 1 .. Len(nooks)
        BY <1>2, ShapeFacts
      <4>2. DOMAIN nooks' = 1 .. Len(nooks')
        BY <1>2, <1>3, ShapeFacts
      <4>. QED
        BY <1>3, <4>1, <4>2
    <3>2. \A k \in 1 .. Len(nooks) : nooks'[k].or = nooks[k].or
      BY <1>3 DEF SamePlaces
    <3>. QED
      BY <1>2, <2>1, <3>1, <3>2 DEF InUseExact
<1>8. NookTypes'
  BY <1>1, <1>2, CallFacts DEF NookInv, NookTypes
<1>9. SeenInv' /\ OrderInv'
  BY <1>1, <1>2, <1>6, CallFacts DEF NookInv, SeenInv, OrderInv
<1>. QED
  BY <1>1, <1>3, <1>7, <1>8, <1>9 DEF NookInv

\* What the nook asks for gets a nook of its own.
LEMMA ChildKeeps ==
  ASSUME NookInv, childNook
  PROVE  NookInv'
<1>. DEFINE w == workNook
            c == childOf(workNook)
            q == nextRole(workNook)
            before == expandedBefore(nextRole(workNook))
            L == Len(nooks)
            ns == Marked(nooks, workNook,
                         nooks[workNook].expanded \cup expandedBefore(nextRole(workNook)))
            E == nooks[workNook].expanded \cup expandedBefore(nextRole(workNook))
                   \cup {nextRole(workNook)}
            marked == Marked(nooks, workNook, E)
<1>1. /\ b' = b /\ at = "expand" /\ at' = at /\ work # <<>> /\ q # "none" /\ CanTry(c)
      /\ nooks' = Append(marked, nook(c, w, q))
      /\ inUse' = inUse \cup {c} /\ work' = Append(work, L + 1)
      /\ UNCHANGED <<parseCount, exhausted, paused, seen>>
  BY DEF childNook, Marked
<1>2. /\ b \in Bocages /\ ~b.nulling /\ Shape(b, nooks) /\ w \in DOMAIN nooks
      /\ q \in Roles /\ q \notin nooks[w].expanded /\ q \notin before
      /\ c = Wants(b, nooks[w], q) /\ c \in Ors(b) /\ before \subseteq Roles
      /\ WorkInv(nooks, work) /\ inUse = {nooks[k].or : k \in DOMAIN nooks}
      /\ L \in Nat /\ DOMAIN nooks = 1 .. L
      /\ \A k \in DOMAIN nooks : nooks[k].expanded \in SUBSET Roles
  BY <1>1, CallFacts, WorkFacts, ShapeFacts DEF NookInv, InUseExact
<1>3. /\ Shape(b, ns) /\ Len(ns) = L /\ SamePlaces(ns, nooks, L) /\ Passing(b, ns, seen)
      /\ \A k \in DOMAIN nooks : ns[k].expanded = IF k = w THEN nooks[k].expanded \cup before
                                                  ELSE nooks[k].expanded
  BY <1>1, MarkedBefore
<1>4. /\ marked \in Seq(Nook(b)) /\ Len(marked) = L /\ SamePlaces(marked, nooks, L)
      /\ \A k \in DOMAIN nooks : marked[k].expanded = IF k = w THEN E ELSE nooks[k].expanded
  <2>1. E \in SUBSET Roles
    BY <1>2
  <2>. HIDE DEF E, w
  <2>2. IsMarked(b, Marked(nooks, w, E), nooks, w, E)
    BY <1>2, <2>1, MarkedAt
  <2>. QED
    BY <2>2 DEF IsMarked, w
<1>5. \A k \in DOMAIN nooks : marked[k].expanded = IF k = w THEN ns[k].expanded \cup {q}
                                                   ELSE ns[k].expanded
  BY <1>3, <1>4
<1>. HIDE DEF ns, marked, E, w, c, q, before
<1>6. nook(c, w, q) \in Nook(b)
  BY <1>2 DEF nook, Nook
<1>7. /\ nooks' \in Seq(Nook(b)) /\ Len(nooks') = L + 1 /\ DOMAIN nooks' = 1 .. L + 1
      /\ nooks'[L + 1] = nook(c, w, q) /\ \A k \in 1 .. L : nooks'[k] = marked[k]
  BY <1>1, <1>2, <1>4, <1>6
<1>8. DOMAIN ns = DOMAIN nooks
  BY <1>2, <1>3, ShapeFacts
<1>9. /\ SamePlaces(nooks', ns, L) /\ SamePlaces(nooks', nooks, L)
      /\ \A k \in DOMAIN ns : nooks'[k].expanded = IF k = w THEN ns[k].expanded \cup {q}
                                                    ELSE ns[k].expanded
  <2>1. SamePlaces(nooks', nooks, L)
    BY <1>4, <1>7 DEF SamePlaces
  <2>2. SamePlaces(nooks', ns, L)
    BY <1>3, <2>1 DEF SamePlaces
  <2>3. \A k \in DOMAIN ns : nooks'[k].expanded = marked[k].expanded
    BY <1>2, <1>7, <1>8
  <2>. QED
    BY <1>5, <1>8, <2>1, <2>2, <2>3
<1>10. Wants(b, ns[w], q) = c /\ q \notin ns[w].expanded /\ \A k \in DOMAIN ns : ns[k].or # c
  <2>1. Wants(b, ns[w], q) = Wants(b, nooks[w], q)
    BY <1>2, <1>3 DEF SamePlaces, Wants
  <2>2. \A k \in DOMAIN ns : ns[k].or = nooks[k].or
    BY <1>2, <1>3, <1>8 DEF SamePlaces
  <2>3. c \notin inUse
    BY <1>1 DEF CanTry
  <2>. QED
    BY <1>2, <1>3, <1>8, <2>1, <2>2, <2>3
<1>11. Shape(b, nooks')
  <2>1. w \in DOMAIN ns /\ Len(nooks') = Len(ns) + 1 /\ nooks'[Len(ns) + 1] = nook(c, w, q)
    BY <1>2, <1>3, <1>7, <1>8
  <2>2. SamePlaces(nooks', ns, Len(ns))
    BY <1>3, <1>9
  <2>. QED
    <3>1. IsPushed(nooks', ns, c, w, q)
      BY <1>9, <2>1, <2>2 DEF IsPushed
    <3>. QED
      BY <1>2, <1>3, <1>7, <1>10, <2>1, <3>1, ShapePushed
<1>12. Passing(b, nooks', seen)
  <2>1. nooks'[L + 1].choice = 1 /\ nooks'[L + 1].or = c
    BY <1>7 DEF nook
  <2>2. c # 0
    BY <1>2, OrNotZero
  <2>3. \A f \in Trees(b) : Within(ns, f) => c \in DOMAIN f
    BY <1>2, <1>3, <1>8, <1>10, <2>2, AskedFor
  <2>4. /\ Len(nooks') = Len(ns) + 1 /\ SamePlaces(nooks', ns, Len(ns))
        /\ nooks'[Len(ns) + 1].choice = 1
        /\ \A f \in Trees(b) : Within(ns, f) => nooks'[Len(ns) + 1].or \in DOMAIN f
    BY <1>3, <1>7, <1>9, <2>1, <2>3
  <2>. QED
    BY <1>2, <1>3, <1>11, <2>4, PassingPushed
<1>13. WorkInv(nooks', work') /\ work' \in Seq(Nat) /\ Len(work') <= b.and_count
  <2>1. /\ work \in Seq(1 .. L) /\ Len(work) \in Nat /\ Len(work) <= L
        /\ DOMAIN work = 1 .. Len(work)
    BY <1>2, OfSeq DEF WorkInv
  <2>2. /\ work' \in Seq(1 .. L + 1) /\ work' \in Seq(Nat) /\ Len(work') = Len(work) + 1
        /\ DOMAIN work' = 1 .. Len(work) + 1 /\ work'[Len(work) + 1] = L + 1
        /\ \A i \in 1 .. Len(work) : work'[i] = work[i]
    BY <1>1, <1>2, <2>1
  <2>3. Len(nooks') <= b.and_count /\ nooks' # <<>> /\ b.and_count \in Nat
    <3>1. Len(nooks') <= b.and_count /\ b.and_count \in Nat
      BY <1>2, <1>11, StackHasRoom, BocageFacts
    <3>2. Len(nooks') > 0
      BY <1>2, <1>7
    <3>. QED
      BY <1>2, <1>11, <3>1, <3>2, ShapeFacts
  <2>4. Len(work') <= Len(nooks') /\ Len(work') <= b.and_count
    BY <1>2, <1>7, <2>1, <2>2, <2>3
  <2>5. \A k : Listed(work, k) => Listed(work', k)
    BY <2>1, <2>2 DEF Listed
  <2>6. Listed(work, w)
    <3>1. Len(work) \in DOMAIN work
      BY <1>1, <2>1, OfSeq
    <3>. QED
      BY <3>1 DEF Listed, w, workNook
  <2>7. Listed(work', L + 1)
    BY <2>1, <2>2 DEF Listed
  <2>8. ASSUME NEW k \in 1 .. L
        PROVE  Listed(work', k) \/ nooks'[k].expanded = Roles
    BY <1>2, <1>4, <1>7, <2>5, <2>6 DEF WorkInv
  <2>9. \A k \in DOMAIN nooks' : k \in 1 .. L \/ k = L + 1
    BY <1>2, <1>7
  <2>. QED
    BY <1>7, <2>2, <2>3, <2>4, <2>7, <2>8, <2>9 DEF WorkInv
<1>14. InUseExact'
  <2>1. \A k \in 1 .. L : nooks'[k].or = nooks[k].or
    BY <1>9 DEF SamePlaces
  <2>2. nooks'[L + 1].or = c
    BY <1>7 DEF nook
  <2>3. 1 .. L + 1 = 1 .. L \cup {L + 1}
    BY <1>2
  <2>. QED
    <3>1. {nooks'[k].or : k \in 1 .. L + 1} = {nooks[k].or : k \in 1 .. L} \cup {c}
      BY <2>1, <2>2, <2>3
    <3>. QED
      BY <1>1, <1>2, <1>7, <3>1 DEF InUseExact
<1>15. NookTypes'
  BY <1>1, <1>2, <1>13, CallFacts DEF NookInv, NookTypes
<1>16. SeenInv' /\ OrderInv'
  BY <1>1, <1>2, <1>12, <1>13, CallFacts DEF NookInv, SeenInv, OrderInv
<1>. QED
  BY <1>1, <1>11, <1>14, <1>15, <1>16 DEF NookInv

\* Nothing is left to expand: the stack is a tree that was not returned before,
\* and no other tree has the stack as a part.
LEMMA FinishKeeps ==
  ASSUME NookInv, finishTree
  PROVE  NookInv'
<1>. DEFINE T == TreeOf(nooks)
<1>1. /\ b' = b /\ at = "expand" /\ at' = "idle" /\ work = <<>>
      /\ parseCount' = parseCount + 1 /\ seen' = seen \cup {T}
      /\ nooks' = nooks /\ inUse' = inUse /\ work' = work
      /\ exhausted' = exhausted /\ paused' = paused
  BY DEF finishTree, tree
<1>2. /\ b \in Bocages /\ ~b.nulling /\ ~exhausted /\ paused = 0 /\ Shape(b, nooks)
      /\ Passing(b, nooks, seen) /\ WorkInv(nooks, work)
  BY <1>1, CallFacts DEF NookInv, OrderInv
<1>3. nooks # <<>> /\ \A k \in DOMAIN nooks : nooks[k].expanded = Roles
  BY <1>1, <1>2 DEF WorkInv, Listed
<1>4. T \in Trees(b)
  BY <1>2, <1>3, StackIsTree
<1>5. \A k \in DOMAIN nooks : nooks[k].or \in DOMAIN T /\ T[nooks[k].or] = nooks[k].choice
  BY <1>2, StackAsTree
<1>6. DOMAIN nooks = 1 .. Len(nooks) /\ \A k \in DOMAIN nooks : nooks[k].choice \in Nat
  BY <1>2, ShapeFacts
<1>7. \A f \in Trees(b) : Within(nooks, f) => f = T
  BY <1>2, <1>3, NothingBeyond
<1>. HIDE DEF T
<1>8. Within(nooks, T) /\ ~Behind(nooks, T)
  <2>1. Within(nooks, T)
    BY <1>5, <1>6 DEF Within, Agrees
  <2>2. ASSUME NEW p \in DOMAIN nooks PROVE ~(T[nooks[p].or] < nooks[p].choice)
    BY <1>5, <1>6
  <2>. QED
    BY <2>1, <2>2 DEF Behind
<1>9. T \notin seen
  BY <1>2, <1>4, <1>8 DEF Passing
<1>10. Passed(b, nooks, seen')
  BY <1>1, <1>2, <1>7, <1>8 DEF Passed, Passing
<1>11. /\ IsFiniteSet(seen') /\ Cardinality(seen') = Cardinality(seen) + 1
       /\ parseCount' = Cardinality(seen') /\ parseCount' \in Nat /\ parseCount' # 0
  <2>1. IsFiniteSet(seen) /\ parseCount = Cardinality(seen) /\ parseCount \in Nat
    BY DEF NookInv, SeenInv, NookTypes
  <2>2. IsFiniteSet(seen') /\ Cardinality(seen') = Cardinality(seen) + 1
    BY <1>1, <1>9, <2>1, FS_AddElement
  <2>. QED
    BY <1>1, <2>1, <2>2
<1>12. NookTypes'
  BY <1>1, <1>2, <1>11 DEF NookInv, NookTypes
<1>13. SeenInv'
  BY <1>1, <1>2, <1>4, <1>11 DEF NookInv, SeenInv
<1>14. OrderInv'
  BY <1>1, <1>10 DEF OrderInv
<1>15. InUseExact' /\ Shape(b, nooks)'
  BY <1>1 DEF NookInv, InUseExact
<1>. QED
  BY <1>12, <1>13, <1>14, <1>15 DEF NookInv

(***************************************************************************)
(* The theorems                                                            *)
(***************************************************************************)
LEMMA NookStep == NookInv /\ [NookNext]_nookVars => NookInv'
<1>. SUFFICES ASSUME NookInv, [NookNext]_nookVars PROVE NookInv'
  OBVIOUS
<1>1. CASE refuseCall \/ tree_pause \/ tree_unpause \/ UNCHANGED nookVars
  BY <1>1, QuietKeeps
<1>2. CASE nullingTree \/ nullingEnd
  BY <1>2, NullingKeeps
<1>3. CASE beginCall
  BY <1>3, BeginKeeps
<1>4. CASE firstNook
  BY <1>4, FirstKeeps
<1>5. CASE nextChoice
  BY <1>5, ChoiceKeeps
<1>6. CASE dropNook
  BY <1>6, DropKeeps
<1>7. CASE noTreeLeft
  BY <1>7, EndKeeps
<1>8. CASE nookDone
  BY <1>8, DoneKeeps
<1>9. CASE childNook
  BY <1>9, ChildKeeps
<1>10. CASE giveUp
  BY <1>10, GiveUpKeeps
<1>11. CASE finishTree
  BY <1>11, FinishKeeps
<1>. QED
  BY <1>1, <1>2, <1>3, <1>4, <1>5, <1>6, <1>7, <1>8, <1>9, <1>10, <1>11 DEF NookNext, InCall

LEMMA NookInvariant == NookSpec => []NookInv
BY NookStarts, NookStep, PTL DEF NookSpec

\* Types: in every state the nooks are records of or-nodes of the bocage, and the
\* counters are what marpa_t_next takes them for.
THEOREM NookTypesHold == NookSpec => []NookTypeOK
<1>1. NookInv => NookTypeOK
  <2>. SUFFICES ASSUME NookInv PROVE NookTypeOK
    OBVIOUS
  <2>1. nooks \in Seq(Nook(b)) /\ b \in Bocages
    BY DEF NookInv, NookTypes, Shape
  <2>2. \A k \in DOMAIN nooks : nooks[k].or \in Ors(b)
    BY <2>1, ShapeFacts DEF NookInv
  <2>3. inUse \subseteq Ors(b)
    BY <2>2 DEF NookInv, InUseExact
  <2>. QED
    BY <2>1, <2>3 DEF NookInv, NookTypes, NookTypeOK, Nook
<1>. QED
  BY <1>1, NookInvariant, PTL

\* The nook stack and the worklist, which marpa_t_next pushes without a test, never
\* need more places than the bocage has and-nodes: an or-node is there once, and
\* the and-nodes of two or-nodes differ.
THEOREM NooksHaveRoom == NookSpec => []NookRoom
<1>1. NookInv => NookRoom
  BY StackHasRoom DEF NookInv, NookTypes, NookRoom
<1>. QED
  BY <1>1, NookInvariant, PTL

\* The bits of the or-nodes in use are those of the nooks in every state, also
\* after trees were given up.
THEOREM NooksInUse == NookSpec => []InUseExact
<1>1. NookInv => InUseExact
  BY DEF NookInv
<1>. QED
  BY <1>1, NookInvariant, PTL

\* What marpa_t_next returns is a whole tree of the bocage.
THEOREM TreesAreWhole == NookSpec => []TreesWhole
<1>1. NookInv => TreesWhole
  BY DEF NookInv, SeenInv, TreesWhole
<1>. QED
  BY <1>1, NookInvariant, PTL

\* Each tree is returned at most once: a stack that is finished is a part of no
\* tree that is behind it.
THEOREM TreesOnce == NookSpec => []NoTreeTwice
<1>1. NookInv => NoTreeTwice
  BY DEF NookInv, SeenInv, NoTreeTwice
<1>. QED
  BY <1>1, NookInvariant, PTL

\* An exhausted iterator has returned every tree of the bocage, for every bocage
\* and every order of its and-nodes.
THEOREM TreesAll == NookSpec => []NoTreeMissed
<1>1. NookInv => NoTreeMissed
  BY DEF NookInv, SeenInv, NoTreeMissed
<1>. QED
  BY <1>1, NookInvariant, PTL

\* The stacks are sound in every state, for every bocage and every order.
THEOREM NooksAreSound == NookSpec => []NooksSound
<1>1. NookTypeOK /\ NookRoom /\ InUseExact => NooksSound
  BY DEF NooksSound
<1>. QED
  BY <1>1, NookTypesHold, NooksHaveRoom, NooksInUse, PTL

\* The iterator is right: it returns each tree of the bocage exactly once before it
\* says that it is exhausted.
THEOREM TreesExactlyOnce == NookSpec => []TreesOnceEach
<1>1. TreesWhole /\ NoTreeTwice /\ NoTreeMissed => TreesOnceEach
  BY DEF TreesOnceEach
<1>. QED
  BY <1>1, TreesAreWhole, TreesOnce, TreesAll, PTL

\* While a valuator holds the tree no step changes its nooks: a call of marpa_t_next
\* is refused, and none is under way when a valuator is made.
THEOREM PausedTrees == NookSpec => PausedTreeStays
<1>1. NookInv /\ [NookNext]_nookVars
        => [paused > 0 => UNCHANGED <<nooks, inUse, parseCount, seen>>]_nookVars
  <2>. SUFFICES ASSUME NookInv, NookNext, paused > 0
                PROVE  UNCHANGED <<nooks, inUse, parseCount, seen>>
    OBVIOUS
  <2>1. at = "idle"
    BY CallFacts
  <2>2. ~InCall
    BY <2>1 DEF InCall, firstNook, nextChoice, dropNook, noTreeLeft, nookDone, childNook,
                giveUp, finishTree
  <2>3. ~nullingTree /\ ~nullingEnd /\ ~beginCall
    BY DEF nullingTree, nullingEnd, beginCall
  <2>4. refuseCall \/ tree_pause \/ tree_unpause
    BY <2>2, <2>3 DEF NookNext
  <2>. QED
    BY <2>4 DEF refuseCall, tree_pause, tree_unpause, tree
<1>. QED
  BY <1>1, NookInvariant, PTL DEF NookSpec, PausedTreeStays
=============================================================================
