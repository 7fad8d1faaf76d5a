------------------------- MODULE MarpaCensusProofs -------------------------
(***************************************************************************)
(* What the loops of the census compute, for every grammar.                *)
(*                                                                         *)
(* While transitive_closure runs, a path through a row it has passed is    *)
(* either in the matrix already or goes on through the current row         *)
(* (ThroughPassed): rows change in place, and a row that is still to come  *)
(* in this turn may lag behind.  While rhs_closure runs, a rule whose      *)
(* left-hand side is missing although its right-hand side is complete is   *)
(* still to be looked at, or one of its symbols is on the worklist         *)
(* (NothingForgotten), and no marked symbol is outside a set that is       *)
(* closed under the rules (NothingElse).                                   *)
(***************************************************************************)
EXTENDS MarpaCensus, FiniteSetTheorems, TLAPS

N == Len(G.xsy)

\* The matrix.
Row(M, i, k, j) == k \in M[i] /\ j \in M[k]
Current(M, n, k, i, j) == k <= n /\ Row(M, i, k, j)
Joined(M, k, c) == IF k \in M[c] THEN [M EXCEPT ![c] = @ \cup M[k]] ELSE M
Turned(M, n, k, c) ==
  /\ M \in [1 .. n -> SUBSET (1 .. n)]
  /\ \A i, p, j \in 1 .. n :
       /\ p < k /\ Row(M, i, p, j) => j \in M[i] \/ Current(M, n, k, i, j)
       /\ i < c + 1 /\ Current(M, n, k, i, j) => j \in M[i]
ThroughPassed(M, n, k, c) ==
  \A i, p, j \in 1 .. n :
    /\ p < k /\ Row(M, i, p, j) => j \in M[i] \/ Current(M, n, k, i, j)
    /\ i < c /\ Current(M, n, k, i, j) => j \in M[i]
AtLeast(M) == \A x \in XsyIds(G) : Below(G, x) \subseteq M[x]
AtMost(M) == \A x \in XsyIds(G) : \A C \in SUBSET XsyIds(G) :
               Below(G, x) \subseteq C /\ ClosedBelow(C) => M[x] \subseteq C
MatrixInv == /\ matrix \in [XsyIds(G) -> SUBSET XsyIds(G)]
             /\ outer_row \in 1 .. N + 1 /\ column \in 1 .. N
             /\ outer_row = N + 1 => column = 1
             /\ pc # "reach" => outer_row = N + 1
             /\ ThroughPassed(matrix, N, outer_row, column)
             /\ AtLeast(matrix) /\ AtMost(matrix)

\* What a sequence is.
LEMMA OfSeq ==
  ASSUME NEW S, NEW s \in Seq(S)
  PROVE  /\ Len(s) \in Nat /\ DOMAIN s = 1 .. Len(s) /\ (Len(s) > 0 <=> s # <<>>)
         /\ \A i \in DOMAIN s : s[i] \in S
OBVIOUS

\* What is known of the constants.
LEMMA GrammarFacts ==
  ASSUME G \in Grammars
  PROVE  /\ N \in Nat /\ XsyIds(G) = 1 .. N /\ G.start \in 1 .. N /\ N > 0
         /\ \A r \in XrlIds(G) : /\ G.xrl[r].lhs \in 1 .. N
                                 /\ G.xrl[r].rhs \in Seq(1 .. N)
                                 /\ ToSet(G.xrl[r].rhs) \subseteq 1 .. N
                                 /\ G.xrl[r].sequence \in BOOLEAN
                                 /\ G.xrl[r].min \in Int /\ G.xrl[r].sep \in 0 .. N
                                 /\ G.xrl[r].sequence => G.xrl[r].rhs # <<>>
         /\ XrlIds(G) \subseteq Nat
         /\ \A x \in XsyIds(G) : Below(G, x) \subseteq XsyIds(G)
         /\ empty_lhs_v(G) \subseteq XsyIds(G) /\ terminal_v(G) \subseteq XsyIds(G)
         /\ lhs_v(G) \subseteq XsyIds(G)
<1>1. /\ G.xsy \in Seq([counted : BOOLEAN, lockedTerminal : BOOLEAN, terminal : BOOLEAN])
      /\ G.xrl \in Seq(Rules(N)) /\ G.start \in lhs_v(G)
      /\ \A r \in DOMAIN G.xrl : IF G.xrl[r].sequence THEN Len(G.xrl[r].rhs) = 1
                                 ELSE G.xrl[r].sep = 0
  BY CensusConstants DEF N
<1>2. N \in Nat /\ XsyIds(G) = 1 .. N /\ XrlIds(G) \subseteq Nat
  BY <1>1 DEF N, XsyIds, XrlIds
<1>3. ASSUME NEW r \in XrlIds(G)
      PROVE  /\ G.xrl[r].lhs \in 1 .. N /\ G.xrl[r].rhs \in Seq(1 .. N)
             /\ G.xrl[r].sequence \in BOOLEAN
             /\ G.xrl[r].min \in Int /\ G.xrl[r].sep \in 0 .. N
             /\ G.xrl[r].sequence => G.xrl[r].rhs # <<>>
  <2>1. G.xrl[r] \in Rules(N)
    BY <1>1 DEF XrlIds
  <2>2. G.xrl[r].sequence => Len(G.xrl[r].rhs) = 1
    BY <1>1 DEF XrlIds
  <2>3. /\ G.xrl[r].lhs \in 1 .. N /\ G.xrl[r].rhs \in Seq(1 .. N)
        /\ G.xrl[r].sequence \in BOOLEAN
        /\ G.xrl[r].min \in Int /\ G.xrl[r].sep \in 0 .. N
    BY <2>1 DEF Rules
  <2>4. G.xrl[r].sequence => G.xrl[r].rhs # <<>>
    <3>1. ASSUME G.xrl[r].rhs = <<>> PROVE Len(G.xrl[r].rhs) # 1
      BY <3>1
    <3>. QED
      BY <3>1, <2>2
  <2>. QED
    BY <2>3, <2>4
<1>4. \A r \in XrlIds(G) : ToSet(G.xrl[r].rhs) \subseteq 1 .. N
  <2>. SUFFICES ASSUME NEW r \in XrlIds(G), NEW i \in DOMAIN G.xrl[r].rhs
                PROVE  G.xrl[r].rhs[i] \in 1 .. N
    BY DEF ToSet
  <2>1. G.xrl[r].rhs \in Seq(1 .. N)
    BY <1>3
  <2>. QED
    BY <2>1, OfSeq
<1>5. lhs_v(G) \subseteq 1 .. N /\ empty_lhs_v(G) \subseteq 1 .. N
  BY <1>3 DEF lhs_v, empty_lhs_v
<1>6. G.start \in 1 .. N /\ N > 0
  BY <1>1, <1>2, <1>5
<1>7. \A x \in XsyIds(G) : Below(G, x) \subseteq XsyIds(G)
  BY <1>2, <1>3, <1>4 DEF Below, xrl_list_x_lh_sym
<1>8. terminal_v(G) \subseteq XsyIds(G)
  BY DEF terminal_v
<1>. QED
  BY <1>2, <1>3, <1>4, <1>5, <1>6, <1>7, <1>8

(***************************************************************************)
(* transitive_closure                                                      *)
(***************************************************************************)
\* One turn of the inner loop keeps every path through the rows passed.
LEMMA RowTurn ==
  ASSUME NEW n \in Nat, NEW M \in [1 .. n -> SUBSET (1 .. n)],
         NEW k \in 1 .. n, NEW c \in 1 .. n, ThroughPassed(M, n, k, c)
  PROVE  Turned(Joined(M, k, c), n, k, c)
<1>1. CASE k \notin M[c]
  BY <1>1 DEF ThroughPassed, Row, Current, Turned, Joined
<1>2. CASE k \in M[c]
  <2>. DEFINE MM == Joined(M, k, c)
  <2>1. /\ MM \in [1 .. n -> SUBSET (1 .. n)]
        /\ MM[c] = M[c] \cup M[k] /\ MM[k] = M[k]
        /\ \A i \in 1 .. n : i # c => MM[i] = M[i]
    BY <1>2 DEF Joined
  <2>. HIDE DEF MM
  <2>2. ASSUME NEW i \in 1 .. n, NEW p \in 1 .. n, NEW j \in 1 .. n, p < k, Row(MM, i, p, j)
        PROVE  j \in MM[i] \/ Current(MM, n, k, i, j)
    <3>1. CASE i = c /\ p = c
      BY <3>1, <2>2 DEF Row
    <3>2. CASE i = c /\ p # c
      <4>1. j \in M[p] /\ p \in M[c] \cup M[k]
        BY <3>2, <2>1, <2>2 DEF Row
      <4>2. CASE p \in M[c]
        <5>1. j \in M[c] \/ Current(M, n, k, c, j)
          BY <4>1, <4>2, <2>2 DEF ThroughPassed, Row
        <5>. QED
          BY <5>1, <2>1, <3>2 DEF Current, Row
      <4>3. CASE p \in M[k]
        <5>1. j \in M[k] \/ Current(M, n, k, k, j)
          BY <4>1, <4>3, <2>2 DEF ThroughPassed, Row
        <5>. QED
          BY <5>1, <2>1, <3>2 DEF Current, Row
      <4>. QED
        BY <4>1, <4>2, <4>3
    <3>3. CASE i # c /\ p = c
      <4>1. c \in M[i] /\ j \in M[c] \cup M[k]
        BY <3>3, <2>1, <2>2 DEF Row
      <4>2. CASE j \in M[c]
        <5>1. j \in M[i] \/ Current(M, n, k, i, j)
          BY <4>1, <4>2, <3>3, <2>2 DEF ThroughPassed, Row
        <5>. QED
          BY <5>1, <2>1, <3>3 DEF Current, Row
      <4>3. CASE j \in M[k]
        <5>1. k \in M[i] \/ Current(M, n, k, i, k)
          BY <4>1, <1>2, <3>3, <2>2 DEF ThroughPassed, Row
        <5>. QED
          BY <5>1, <4>3, <2>1, <3>3 DEF Current, Row
      <4>. QED
        BY <4>1, <4>2, <4>3
    <3>4. CASE i # c /\ p # c
      <4>1. j \in M[i] \/ Current(M, n, k, i, j)
        BY <3>4, <2>1, <2>2 DEF ThroughPassed, Row
      <4>. QED
        BY <4>1, <2>1, <3>4 DEF Current, Row
    <3>. QED
      BY <3>1, <3>2, <3>3, <3>4
  <2>3. ASSUME NEW i \in 1 .. n, NEW j \in 1 .. n, i < c + 1, Current(MM, n, k, i, j)
        PROVE  j \in MM[i]
    <3>1. CASE i = c
      BY <3>1, <2>1, <2>3 DEF Current, Row
    <3>2. CASE i # c
      BY <3>2, <2>1, <2>3 DEF Current, Row, ThroughPassed
    <3>. QED
      BY <3>1, <3>2
  <2>4. Turned(MM, n, k, c)
    BY <2>1, <2>2, <2>3 DEF Turned
  <2>. QED
    BY <2>4 DEF MM
<1>. QED
  BY <1>1, <1>2

\* The loops go on to the next row or to the next turn.
LEMMA CloseRowKeeps ==
  ASSUME G \in Grammars, MatrixInv, closeRow
  PROVE  MatrixInv'
<1>0. USE GrammarFacts
<1>1. /\ G' = G /\ pc' = "reach" /\ pc = "reach" /\ outer_row \in 1 .. N /\ N' = N
      /\ matrix' = IF outer_row \in matrix[column]
                   THEN [matrix EXCEPT ![column] = @ \cup matrix[outer_row]] ELSE matrix
      /\ outer_row' = IF column = N THEN outer_row + 1 ELSE outer_row
      /\ column' = IF column = N THEN 1 ELSE column + 1
      /\ XsyIds(G)' = XsyIds(G)
  BY DEF closeRow, MatrixInv, N, XsyIds
<1>2. Turned(matrix', N, outer_row, column)
  <2>1. /\ matrix \in [1 .. N -> SUBSET (1 .. N)] /\ N \in Nat /\ outer_row \in 1 .. N
        /\ column \in 1 .. N /\ ThroughPassed(matrix, N, outer_row, column)
    BY <1>1 DEF MatrixInv
  <2>2. matrix' = Joined(matrix, outer_row, column)
    BY <1>1 DEF Joined
  <2>. QED
    BY <2>1, <2>2, RowTurn
<1>3. outer_row' \in 1 .. N + 1 /\ column' \in 1 .. N /\ (outer_row' = N + 1 => column' = 1)
  BY <1>1 DEF MatrixInv
<1>4. ThroughPassed(matrix', N, outer_row', column')
  <2>1. CASE column = N
    <3>1. ASSUME NEW i \in 1 .. N, NEW p \in 1 .. N, NEW j \in 1 .. N, p < outer_row + 1,
                 Row(matrix', i, p, j)
          PROVE  j \in matrix'[i]
      <4>1. Current(matrix', N, outer_row, i, j) => j \in matrix'[i]
        BY <1>2, <2>1 DEF Turned
      <4>2. CASE p = outer_row
        BY <4>1, <4>2, <3>1 DEF Current
      <4>3. CASE p < outer_row
        BY <4>1, <4>3, <3>1, <1>2 DEF Turned
      <4>. QED
        BY <4>2, <4>3, <3>1, <1>1
    <3>2. outer_row' = outer_row + 1 /\ column' = 1
      BY <1>1, <2>1
    <3>3. \A i \in 1 .. N : ~(i < 1)
      OBVIOUS
    <3>. QED
      BY <3>1, <3>2, <3>3 DEF ThroughPassed
  <2>2. CASE column # N
    BY <1>1, <1>2, <2>2 DEF ThroughPassed, Turned
  <2>. QED
    BY <2>1, <2>2
<1>5. AtLeast(matrix)'
  BY <1>1 DEF MatrixInv, AtLeast
<1>6. AtMost(matrix)'
  <2>. SUFFICES ASSUME NEW x \in XsyIds(G), NEW C \in SUBSET XsyIds(G),
                       Below(G, x) \subseteq C, ClosedBelow(C)
                PROVE  matrix'[x] \subseteq C
    BY <1>1 DEF AtMost, ClosedBelow
  <2>1. matrix[x] \subseteq C
    BY DEF MatrixInv, AtMost
  <2>2. CASE x = column /\ outer_row \in matrix[column]
    <3>1. outer_row \in C
      BY <2>1, <2>2
    <3>2. Below(G, outer_row) \subseteq C
      BY <3>1 DEF ClosedBelow
    <3>3. matrix[outer_row] \subseteq C
      BY <3>2, <1>1 DEF MatrixInv, AtMost
    <3>. QED
      BY <2>1, <2>2, <3>3, <1>1 DEF MatrixInv
  <2>3. CASE ~(x = column /\ outer_row \in matrix[column])
    BY <2>1, <2>3, <1>1 DEF MatrixInv
  <2>. QED
    BY <2>2, <2>3
<1>. QED
  BY <1>1, <1>2, <1>3, <1>4, <1>5, <1>6 DEF MatrixInv, Turned

\* When the last row is passed, each row is what is below its symbol.
LEMMA MatrixExact ==
  ASSUME G \in Grammars, MatrixInv, outer_row = N + 1
  PROVE  \A x \in XsyIds(G) : matrix[x] = Reached(Below(G, x))
<1>0. USE GrammarFacts
<1>1. \A i, p, j \in 1 .. N : Row(matrix, i, p, j) => j \in matrix[i]
  BY DEF MatrixInv, ThroughPassed, Current
<1>2. ASSUME NEW x \in XsyIds(G)
      PROVE  matrix[x] = Reached(Below(G, x))
  <2>1. matrix[x] \in SUBSET XsyIds(G) /\ Below(G, x) \subseteq matrix[x]
    BY DEF MatrixInv, AtLeast
  <2>2. ClosedBelow(matrix[x])
    <3>. SUFFICES ASSUME NEW y \in matrix[x], NEW z \in Below(G, y) PROVE z \in matrix[x]
      BY DEF ClosedBelow
    <3>1. y \in XsyIds(G) /\ z \in matrix[y] /\ z \in XsyIds(G)
      BY <2>1 DEF MatrixInv, AtLeast
    <3>. QED
      BY <3>1, <1>1 DEF Row
  <2>3. Reached(Below(G, x)) \subseteq matrix[x]
    BY <2>1, <2>2 DEF Reached
  <2>4. matrix[x] \subseteq Reached(Below(G, x))
    BY <2>1 DEF Reached, MatrixInv, AtMost
  <2>. QED
    BY <2>3, <2>4
<1>. QED
  BY <1>2

(***************************************************************************)
(* rhs_closure                                                             *)
(***************************************************************************)
\* What a vector is compared with: the set the closure starts from.
Given == IF pc = "nullable" THEN {} ELSE terminal_v(G)

\* The rules the loop comes to when it takes a symbol of the worklist.
Waiting(r, s, t) == r \in t \/ \E i \in DOMAIN s : r \in xrl_list_x_rh_sym(G)[s[i]]

NothingForgotten(v, s, t) ==
  \A r \in XrlIds(G) :
    WholeRhsIn(G.xrl[r], v) /\ G.xrl[r].rhs # <<>> /\ G.xrl[r].lhs \notin v => Waiting(r, s, t)
NothingElse(v, base) ==
  \A C \in SUBSET XsyIds(G) : base \subseteq C /\ ClosedUnderRules(C) => v \subseteq C
OnceEach(s) == \A i, j \in DOMAIN s : s[i] = s[j] => i = j

ClosureTypes == /\ bv \in SUBSET XsyIds(G) /\ scan \in 1 .. N + 1
                /\ stack \in Seq(bv) /\ todo \in SUBSET XrlIds(G) /\ OnceEach(stack)
ClosureInv ==
  /\ empty_lhs_v(G) \cup Given \subseteq bv
  /\ NothingElse(bv, Given)
  /\ scan <= N => /\ todo = {} /\ \A i \in DOMAIN stack : stack[i] < scan
                  /\ \A x \in bv : x < scan => \E i \in DOMAIN stack : stack[i] = x
  /\ scan > N => NothingForgotten(bv, stack, todo)

\* A push and a pop of the worklist.
IsPush(ss, s, x) ==
  /\ \A i \in DOMAIN s : i \in DOMAIN ss /\ ss[i] = s[i]
  /\ \E i \in DOMAIN ss : ss[i] = x
  /\ \A i \in DOMAIN ss : ss[i] = x \/ \E j \in DOMAIN s : ss[i] = s[j]
LEMMA Pushed ==
  ASSUME NEW S, NEW s \in Seq(S), OnceEach(s), NEW x, \A i \in DOMAIN s : s[i] # x
  PROVE  /\ Append(s, x) \in Seq(S \cup {x}) /\ OnceEach(Append(s, x))
         /\ IsPush(Append(s, x), s, x)
<1>1. /\ Len(s) \in Nat /\ DOMAIN s = 1 .. Len(s)
      /\ Append(s, x) \in Seq(S \cup {x}) /\ DOMAIN Append(s, x) = 1 .. Len(s) + 1
      /\ \A i \in 1 .. Len(s) : Append(s, x)[i] = s[i]
      /\ Append(s, x)[Len(s) + 1] = x
  OBVIOUS
<1>2. OnceEach(Append(s, x))
  BY <1>1 DEF OnceEach
<1>3. IsPush(Append(s, x), s, x)
  BY <1>1 DEF IsPush
<1>. QED
  BY <1>1, <1>2, <1>3
LEMMA Popped ==
  ASSUME NEW S, NEW s \in Seq(S), OnceEach(s), s # <<>>
  PROVE  /\ SubSeq(s, 1, Len(s) - 1) \in Seq(S) /\ OnceEach(SubSeq(s, 1, Len(s) - 1))
         /\ s[Len(s)] \in S
         /\ \A i \in DOMAIN s : i = Len(s) \/ \E j \in DOMAIN SubSeq(s, 1, Len(s) - 1) :
                                                SubSeq(s, 1, Len(s) - 1)[j] = s[i]
<1>1. Len(s) \in Nat /\ DOMAIN s = 1 .. Len(s) /\ Len(s) > 0 /\ s[Len(s)] \in S
  BY OfSeq
<1>2. /\ SubSeq(s, 1, Len(s) - 1) \in Seq(S)
      /\ DOMAIN SubSeq(s, 1, Len(s) - 1) = 1 .. Len(s) - 1
      /\ \A i \in 1 .. Len(s) - 1 : SubSeq(s, 1, Len(s) - 1)[i] = s[i]
  BY <1>1
<1>3. OnceEach(SubSeq(s, 1, Len(s) - 1))
  BY <1>1, <1>2 DEF OnceEach
<1>4. ASSUME NEW i \in DOMAIN s, i # Len(s)
      PROVE  \E j \in DOMAIN SubSeq(s, 1, Len(s) - 1) : SubSeq(s, 1, Len(s) - 1)[j] = s[i]
  <2>1. i \in 1 .. Len(s) - 1
    BY <1>1, <1>4
  <2>. QED
    BY <1>2, <2>1
<1>. QED
  BY <1>1, <1>2, <1>3, <1>4

\* What the rules mean does not change while the grammar does not.
LEMMA SameMeaning ==
  ASSUME G' = G
  PROVE  /\ N' = N /\ XsyIds(G)' = XsyIds(G)
         /\ terminal_v(G)' = terminal_v(G) /\ lhs_v(G)' = lhs_v(G)
         /\ Derived({})' = Derived({})
         /\ Derived(terminal_v(G))' = Derived(terminal_v(G))
         /\ Reached({G.start})' = Reached({G.start})
         /\ \A x : Reached(Below(G, x))' = Reached(Below(G, x))
         /\ \A x : IsTerminal(x)' <=> IsTerminal(x)
         /\ \A C : ClosedUnderRules(C)' <=> ClosedUnderRules(C)
BY DEF N, Derived, Reached, IsTerminal, ClosedUnderRules, ClosedBelow

\* A closed vector has every symbol the rules derive, and no other.
LEMMA ClosureExact ==
  ASSUME G \in Grammars, InClosure, ClosureTypes, ClosureInv, ClosureDone
  PROVE  bv = Derived(Given)
<1>0. USE GrammarFacts
<1>1. NothingForgotten(bv, stack, todo) /\ stack = <<>> /\ todo = {}
  BY DEF ClosureDone, ClosureInv, N
<1>2. DOMAIN stack = {}
  BY <1>1
<1>3. ClosedUnderRules(bv)
  <2>. SUFFICES ASSUME NEW r \in XrlIds(G), Usable(G.xrl[r], bv)
                PROVE  G.xrl[r].lhs \in bv
    BY DEF ClosedUnderRules
  <2>1. CASE (G.xrl[r].sequence /\ G.xrl[r].min <= 0) \/ G.xrl[r].rhs = <<>>
    <3>1. G.xrl[r].lhs \in empty_lhs_v(G)
      BY <2>1 DEF empty_lhs_v
    <3>. QED
      BY <3>1 DEF ClosureInv
  <2>2. CASE WholeRhsIn(G.xrl[r], bv) /\ G.xrl[r].rhs # <<>>
    BY <2>2, <1>1, <1>2 DEF NothingForgotten, Waiting
  <2>. QED
    BY <2>1, <2>2 DEF Usable
<1>4. Derived(Given) \subseteq bv
  BY <1>3 DEF Derived, ClosureInv, ClosureTypes
<1>5. bv \subseteq Derived(Given)
  BY DEF Derived, ClosureInv, ClosureTypes, NothingElse
<1>. QED
  BY <1>4, <1>5

\* rhs_closure begins with a vector of symbols that have to be marked.
LEMMA ClosureEntered ==
  ASSUME G \in Grammars, G' = G, NEW v \in SUBSET XsyIds(G), NEW loop \in {"nullable", "productive"},
         enterClosure(v, loop), empty_lhs_v(G) \cup Given' \subseteq v, NothingElse(v, Given')
  PROVE  ClosureTypes' /\ ClosureInv'
<1>0. USE GrammarFacts, SameMeaning
<1>1. bv' = v /\ scan' = 1 /\ stack' = <<>> /\ todo' = {}
  BY DEF enterClosure
<1>2. DOMAIN stack' = {} /\ stack' \in Seq(bv')
  BY <1>1
<1>3. ClosureTypes'
  BY <1>1, <1>2 DEF ClosureTypes, OnceEach
<1>4. NothingElse(bv, Given)'
  BY <1>1 DEF NothingElse
<1>5. \A x \in bv' : ~(x < 1)
  BY <1>1
<1>6. empty_lhs_v(G)' = empty_lhs_v(G)
  OBVIOUS
<1>. QED
  BY <1>1, <1>2, <1>3, <1>4, <1>5, <1>6 DEF ClosureInv

\* The first symbols are pushed; after the last of them every rule waits.
LEMMA PushFirstKeeps ==
  ASSUME G \in Grammars, ClosureTypes, ClosureInv, pushFirst
  PROVE  ClosureTypes' /\ ClosureInv'
<1>0. USE GrammarFacts
<1>1. /\ G' = G /\ N' = N /\ bv' = bv /\ scan' = scan + 1 /\ todo' = todo /\ todo = {}
      /\ Given' = Given /\ scan \in 1 .. N /\ bv \subseteq 1 .. N
      /\ stack' = IF scan \in bv THEN Append(stack, scan) ELSE stack
  BY DEF pushFirst, ClosureTypes, ClosureInv, N, Given
<1>2. stack \in Seq(bv) /\ OnceEach(stack) /\ \A i \in DOMAIN stack : stack[i] < scan /\ stack[i] \in bv
  BY <1>1, OfSeq DEF ClosureTypes, ClosureInv
<1>3. ASSUME NEW i \in DOMAIN stack PROVE stack[i] < scan + 1
  <2>1. stack[i] < scan /\ stack[i] \in 1 .. N /\ scan \in 1 .. N
    BY <1>1, <1>2
  <2>. QED
    BY <2>1
<1>4. /\ stack' \in Seq(bv') /\ OnceEach(stack')
      /\ \A i \in DOMAIN stack' : stack'[i] < scan'
      /\ \A x \in bv' : x < scan' => \E i \in DOMAIN stack' : stack'[i] = x
  <2>0. \A x \in bv : x < scan => \E i \in DOMAIN stack : stack[i] = x
    BY <1>1 DEF ClosureInv
  <2>1. CASE scan \in bv
    <3>1. \A i \in DOMAIN stack : stack[i] # scan
      BY <1>1, <1>2
    <3>2. stack' = Append(stack, scan) /\ bv \cup {scan} = bv
      BY <1>1, <2>1
    <3>3. /\ Append(stack, scan) \in Seq(bv \cup {scan}) /\ OnceEach(Append(stack, scan))
          /\ IsPush(Append(stack, scan), stack, scan)
      BY <1>2, <3>1, Pushed
    <3>4. stack' \in Seq(bv') /\ OnceEach(stack')
      BY <3>2, <3>3, <1>1
    <3>5. \A i \in DOMAIN stack' : stack'[i] < scan'
      <4>. SUFFICES ASSUME NEW i \in DOMAIN stack' PROVE stack'[i] < scan + 1
        BY <1>1
      <4>1. stack'[i] = scan \/ \E j \in DOMAIN stack : stack'[i] = stack[j]
        BY <3>2, <3>3 DEF IsPush
      <4>. QED
        BY <4>1, <1>3, <1>1
    <3>6. \A x \in bv' : x < scan' => x < scan \/ x = scan
      BY <1>1
    <3>. QED
      BY <3>2, <3>3, <3>4, <3>5, <3>6, <1>1, <2>0 DEF IsPush
  <2>2. CASE scan \notin bv
    <3>1. \A x \in bv : x < scan + 1 => x < scan
      <4>. SUFFICES ASSUME NEW x \in bv, x < scan + 1 PROVE x < scan
        OBVIOUS
      <4>1. x \in Nat /\ scan \in Nat /\ x # scan
        BY <1>1, <2>2
      <4>. QED
        BY <4>1
    <3>3. stack' = stack /\ bv' = bv /\ scan' = scan + 1
      BY <1>1, <2>2
    <3>. QED
      BY <1>2, <1>3, <2>0, <3>1, <3>3
  <2>. QED
    BY <2>1, <2>2
<1>5. ClosureTypes'
  BY <1>1, <1>4 DEF ClosureTypes
<1>6. NothingElse(bv, Given)'
  BY <1>1, SameMeaning DEF ClosureInv, NothingElse
<1>7. ASSUME scan' > N
      PROVE  NothingForgotten(bv, stack, todo)'
  <2>. SUFFICES ASSUME NEW r \in XrlIds(G), WholeRhsIn(G.xrl[r], bv), G.xrl[r].rhs # <<>>
                PROVE  \E i \in DOMAIN stack' : r \in xrl_list_x_rh_sym(G)[stack'[i]]
    BY <1>1 DEF NothingForgotten, Waiting
  <2>1. 1 \in DOMAIN G.xrl[r].rhs
    BY OfSeq
  <2>2. G.xrl[r].rhs[1] \in ToSet(G.xrl[r].rhs) /\ G.xrl[r].rhs[1] \in bv
    BY <2>1 DEF WholeRhsIn, ToSet
  <2>3. G.xrl[r].rhs[1] < scan'
    BY <2>2, <1>1, <1>7
  <2>4. r \in xrl_list_x_rh_sym(G)[G.xrl[r].rhs[1]]
    BY <2>2, <1>1 DEF xrl_list_x_rh_sym
  <2>. QED
    <3>1. PICK i \in DOMAIN stack' : stack'[i] = G.xrl[r].rhs[1]
      BY <2>2, <2>3, <1>1, <1>4
    <3>. QED
      BY <3>1, <2>4
<1>. QED
  BY <1>1, <1>4, <1>5, <1>6, <1>7 DEF ClosureInv

\* The rules of the symbol that is popped are looked at next.
LEMMA PopKeeps ==
  ASSUME G \in Grammars, ClosureTypes, ClosureInv, popSymbol
  PROVE  ClosureTypes' /\ ClosureInv'
<1>0. USE GrammarFacts
<1>1. /\ G' = G /\ N' = N /\ bv' = bv /\ scan' = scan /\ todo = {} /\ scan > N /\ scan \in Int
      /\ Given' = Given /\ stack \in Seq(bv) /\ stack # <<>> /\ OnceEach(stack)
      /\ empty_lhs_v(G)' = empty_lhs_v(G)
      /\ stack' = SubSeq(stack, 1, Len(stack) - 1)
      /\ todo' = xrl_list_x_rh_sym(G)[stack[Len(stack)]]
  BY DEF popSymbol, ClosureTypes, ClosureInv, N, Given
<1>2. /\ stack' \in Seq(bv') /\ OnceEach(stack') /\ stack[Len(stack)] \in bv
      /\ \A i \in DOMAIN stack : i = Len(stack) \/ \E j \in DOMAIN stack' : stack'[j] = stack[i]
  BY <1>1, Popped
<1>3. todo' \in SUBSET XrlIds(G)
  BY <1>1, <1>2 DEF ClosureTypes, xrl_list_x_rh_sym
<1>4. ClosureTypes'
  BY <1>1, <1>2, <1>3 DEF ClosureTypes
<1>5. NothingElse(bv, Given)'
  BY <1>1, SameMeaning DEF ClosureInv, NothingElse
<1>6. NothingForgotten(bv, stack, todo)'
  <2>. SUFFICES ASSUME NEW r \in XrlIds(G), Waiting(r, stack, todo)
                PROVE  Waiting(r, stack, todo)'
    BY <1>1 DEF NothingForgotten, ClosureInv
  <2>1. PICK i \in DOMAIN stack : r \in xrl_list_x_rh_sym(G)[stack[i]]
    BY <1>1 DEF Waiting
  <2>2. CASE i = Len(stack)
    BY <2>1, <2>2, <1>1 DEF Waiting
  <2>3. CASE i # Len(stack)
    <3>1. PICK j \in DOMAIN stack' : stack'[j] = stack[i]
      BY <2>3, <1>2
    <3>. QED
      BY <3>1, <2>1, <1>1 DEF Waiting
  <2>. QED
    BY <2>2, <2>3
<1>. QED
  BY <1>1, <1>4, <1>5, <1>6 DEF ClosureInv

\* A rule that is looked at is used or cannot be used yet.
LEMMA VisitKeeps ==
  ASSUME G \in Grammars, ClosureTypes, ClosureInv, visitRule
  PROVE  ClosureTypes' /\ ClosureInv'
<1>0. USE GrammarFacts
<1>1. /\ G' = G /\ N' = N /\ scan' = scan /\ Given' = Given /\ stack \in Seq(bv) /\ OnceEach(stack)
      /\ bv \subseteq XsyIds(G) /\ empty_lhs_v(G)' = empty_lhs_v(G)
  BY DEF visitRule, ClosureTypes, N, Given
<1>2. PICK r \in todo : /\ todo' = todo \ {r}
                        /\ IF LhsJoins(G.xrl[r], bv)
                           THEN bv' = bv \cup {G.xrl[r].lhs} /\ stack' = Append(stack, G.xrl[r].lhs)
                           ELSE UNCHANGED <<bv, stack>>
  BY DEF visitRule
<1>3. scan > N /\ r \in XrlIds(G) /\ todo \subseteq XrlIds(G)
  BY <1>2 DEF ClosureTypes, ClosureInv
<1>4. CASE LhsJoins(G.xrl[r], bv)
  <2>. DEFINE l == G.xrl[r].lhs
  <2>1. bv' = bv \cup {l} /\ stack' = Append(stack, l) /\ l \notin bv /\ l \in XsyIds(G)
    BY <1>2, <1>3, <1>4 DEF LhsJoins
  <2>2. \A i \in DOMAIN stack : stack[i] # l
    BY <2>1, <1>1, OfSeq
  <2>. HIDE DEF l
  <2>3. stack' \in Seq(bv') /\ OnceEach(stack') /\ IsPush(stack', stack, l)
    <3>1. /\ Append(stack, l) \in Seq(bv \cup {l}) /\ OnceEach(Append(stack, l))
          /\ IsPush(Append(stack, l), stack, l)
      BY <2>2, <1>1, Pushed
    <3>. QED
      BY <3>1, <2>1
  <2>4. ClosureTypes'
    BY <1>1, <1>2, <1>3, <2>1, <2>3 DEF ClosureTypes
  <2>5. NothingElse(bv, Given)'
    <3>. SUFFICES ASSUME NEW C \in SUBSET XsyIds(G), Given \subseteq C, ClosedUnderRules(C)
                  PROVE  bv' \subseteq C
      BY <1>1, SameMeaning DEF NothingElse
    <3>1. bv \subseteq C
      BY DEF ClosureInv, NothingElse
    <3>2. WholeRhsIn(G.xrl[r], C)
      BY <1>4, <3>1 DEF LhsJoins, WholeRhsIn
    <3>3. l \in C
      BY <3>2, <1>3 DEF ClosedUnderRules, Usable, l
    <3>. QED
      BY <3>1, <3>3, <2>1
  <2>6. NothingForgotten(bv, stack, todo)'
    <3>. SUFFICES ASSUME NEW q \in XrlIds(G), WholeRhsIn(G.xrl[q], bv'), G.xrl[q].rhs # <<>>,
                         G.xrl[q].lhs \notin bv'
                  PROVE  Waiting(q, stack', todo')
      BY <1>1 DEF NothingForgotten, Waiting
    <3>1. CASE WholeRhsIn(G.xrl[q], bv)
      <4>1. Waiting(q, stack, todo) /\ q # r
        BY <3>1, <1>3, <2>1 DEF NothingForgotten, ClosureInv, l
      <4>. QED
        BY <4>1, <2>3, <1>2 DEF Waiting, IsPush
    <3>2. CASE ~WholeRhsIn(G.xrl[q], bv)
      <4>1. l \in ToSet(G.xrl[q].rhs) \/ (NeedsSeparator(G.xrl[q]) /\ l = G.xrl[q].sep)
        BY <3>2, <2>1 DEF WholeRhsIn
      <4>2. q \in xrl_list_x_rh_sym(G)[l]
        BY <4>1, <2>1 DEF xrl_list_x_rh_sym, NeedsSeparator
      <4>. QED
        BY <4>2, <2>3 DEF Waiting, IsPush
    <3>. QED
      BY <3>1, <3>2
  <2>. QED
    BY <1>1, <1>3, <2>1, <2>4, <2>5, <2>6 DEF ClosureInv
<1>5. CASE ~LhsJoins(G.xrl[r], bv)
  <2>1. bv' = bv /\ stack' = stack /\ todo' = todo \ {r}
    BY <1>2, <1>5
  <2>2. NothingElse(bv, Given)'
    BY <1>1, <2>1, SameMeaning DEF NothingElse, ClosureInv
  <2>3. NothingForgotten(bv, stack, todo)'
    BY <1>1, <1>3, <1>5, <2>1 DEF NothingForgotten, Waiting, ClosureInv, LhsJoins
  <2>. QED
    BY <1>1, <1>3, <2>1, <2>2, <2>3 DEF ClosureInv, ClosureTypes
<1>. QED
  BY <1>4, <1>5

(***************************************************************************)
(* The marks                                                               *)
(***************************************************************************)
\* What the rules derive is closed under the rules, and least.
LEMMA DerivedIsLeast ==
  ASSUME G \in Grammars, NEW base \in SUBSET XsyIds(G)
  PROVE  /\ Derived(base) \in SUBSET XsyIds(G) /\ base \subseteq Derived(base)
         /\ ClosedUnderRules(Derived(base)) /\ NothingElse(Derived(base), base)
<1>0. USE GrammarFacts
<1>1. /\ Derived(base) \in SUBSET XsyIds(G) /\ base \subseteq Derived(base)
      /\ NothingElse(Derived(base), base)
  BY DEF Derived, NothingElse
<1>2. ClosedUnderRules(Derived(base))
  <2>. SUFFICES ASSUME NEW r \in XrlIds(G), Usable(G.xrl[r], Derived(base)),
                       NEW C \in SUBSET XsyIds(G), base \subseteq C, ClosedUnderRules(C)
                PROVE  G.xrl[r].lhs \in C
    BY DEF ClosedUnderRules, Derived
  <2>1. Derived(base) \subseteq C
    BY <1>1 DEF NothingElse
  <2>2. Usable(G.xrl[r], C)
    BY <2>1 DEF Usable, WholeRhsIn
  <2>. QED
    BY <2>2 DEF ClosedUnderRules
<1>. QED
  BY <1>1, <1>2

\* Left-hand sides of rules that are empty are nullable.
LEMMA EmptyIsDerived ==
  ASSUME G \in Grammars, NEW C \in SUBSET XsyIds(G), ClosedUnderRules(C)
  PROVE  empty_lhs_v(G) \subseteq C
<1>0. USE GrammarFacts
<1>. SUFFICES ASSUME NEW r \in XrlIds(G),
                     (G.xrl[r].sequence /\ G.xrl[r].min <= 0) \/ G.xrl[r].rhs = <<>>
              PROVE  G.xrl[r].lhs \in C
  BY DEF empty_lhs_v
<1>1. Usable(G.xrl[r], C)
  <2>1. CASE G.xrl[r].rhs = <<>>
    <3>1. ~NeedsSeparator(G.xrl[r])
      BY <2>1 DEF NeedsSeparator
    <3>2. ToSet(G.xrl[r].rhs) = {}
      BY <2>1 DEF ToSet
    <3>. QED
      BY <3>1, <3>2 DEF Usable, WholeRhsIn
  <2>. QED
    BY <2>1 DEF Usable
<1>. QED
  BY <1>1 DEF ClosedUnderRules

\* A symbol from which a string of terminals is derived derives the empty one,
\* is a terminal, or has a terminal below it.
LEMMA ProductiveSymbols ==
  ASSUME G \in Grammars, MatrixInv, outer_row = N + 1
  PROVE  \A x \in Derived(terminal_v(G)) :
           x \in Derived({}) \/ x \in terminal_v(G) \/ matrix[x] \cap terminal_v(G) # {}
<1>0. USE GrammarFacts
<1>1. \A i, p, j \in 1 .. N : Row(matrix, i, p, j) => j \in matrix[i]
  BY DEF MatrixInv, ThroughPassed, Current
<1>. DEFINE T(x) == x \in terminal_v(G) \/ matrix[x] \cap terminal_v(G) # {}
            C == {x \in XsyIds(G) : x \in Derived({}) \/ T(x)}
<1>2. ASSUME NEW r \in XrlIds(G), NEW y \in Below(G, G.xrl[r].lhs), T(y)
      PROVE  T(G.xrl[r].lhs)
  <2>1. y \in 1 .. N /\ G.xrl[r].lhs \in 1 .. N /\ y \in matrix[G.xrl[r].lhs]
    BY <1>2 DEF MatrixInv, AtLeast
  <2>2. CASE y \in terminal_v(G)
    BY <2>1, <2>2
  <2>3. CASE matrix[y] \cap terminal_v(G) # {}
    <3>1. PICK t \in 1 .. N : t \in matrix[y] /\ t \in terminal_v(G)
      BY <2>3
    <3>2. t \in matrix[G.xrl[r].lhs]
      BY <3>1, <2>1, <1>1 DEF Row
    <3>. QED
      BY <3>1, <3>2
  <2>. QED
    BY <1>2, <2>2, <2>3
<1>3. ClosedUnderRules(Derived({})) /\ Derived({}) \subseteq XsyIds(G)
  BY DerivedIsLeast
<1>4. ASSUME NEW r \in XrlIds(G), Usable(G.xrl[r], C)
      PROVE  G.xrl[r].lhs \in C
  <2>1. CASE Usable(G.xrl[r], Derived({}))
    BY <2>1, <1>3 DEF ClosedUnderRules
  <2>2. CASE ~Usable(G.xrl[r], Derived({}))
    <3>1. PICK y \in C : /\ y \notin Derived({})
                         /\ \/ y \in ToSet(G.xrl[r].rhs)
                            \/ NeedsSeparator(G.xrl[r]) /\ y = G.xrl[r].sep
      BY <2>2, <1>4 DEF Usable, WholeRhsIn
    <3>2. r \in xrl_list_x_lh_sym(G)[G.xrl[r].lhs]
      BY DEF xrl_list_x_lh_sym
    <3>3. y \in Below(G, G.xrl[r].lhs)
      BY <3>1, <3>2 DEF Below, NeedsSeparator
    <3>4. T(y)
      BY <3>1
    <3>5. T(G.xrl[r].lhs)
      BY <3>3, <3>4, <1>2
    <3>. QED
      BY <3>5
  <2>. QED
    BY <2>1, <2>2
<1>5. C \in SUBSET XsyIds(G) /\ terminal_v(G) \subseteq C /\ ClosedUnderRules(C)
  BY <1>4 DEF ClosedUnderRules
<1>6. Derived(terminal_v(G)) \subseteq C
  <2>. HIDE DEF C
  <2>. QED
    BY <1>5 DEF Derived
<1>. QED
  BY <1>6

\* The start symbol's row and the start symbol are what it reaches.
LEMMA AccessibleExact ==
  ASSUME G \in Grammars, MatrixInv, outer_row = N + 1
  PROVE  matrix[G.start] \cup {G.start} = Reached({G.start})
<1>0. USE GrammarFacts
<1>. DEFINE A == matrix[G.start] \cup {G.start}
<1>1. \A i, p, j \in 1 .. N : Row(matrix, i, p, j) => j \in matrix[i]
  BY DEF MatrixInv, ThroughPassed, Current
<1>2. A \in SUBSET XsyIds(G) /\ G.start \in XsyIds(G)
  BY DEF MatrixInv
<1>3. ClosedBelow(A)
  <2>. SUFFICES ASSUME NEW y \in A, NEW z \in Below(G, y) PROVE z \in A
    BY DEF ClosedBelow
  <2>1. y \in XsyIds(G) /\ z \in matrix[y] /\ z \in XsyIds(G)
    BY <1>2 DEF MatrixInv, AtLeast
  <2>. QED
    BY <1>1, <1>2, <2>1 DEF Row
<1>4. Reached({G.start}) \subseteq A
  <2>. HIDE DEF A
  <2>1. {G.start} \subseteq A
    BY DEF A
  <2>. QED
    BY <1>2, <1>3, <2>1 DEF Reached
<1>5. A \subseteq Reached({G.start})
  <2>. SUFFICES ASSUME NEW C \in SUBSET XsyIds(G), G.start \in C, ClosedBelow(C)
                PROVE  A \subseteq C
    BY <1>2 DEF Reached
  <2>1. Below(G, G.start) \subseteq C
    BY DEF ClosedBelow
  <2>2. matrix[G.start] \subseteq C
    BY <2>1, <1>2 DEF MatrixInv, AtMost
  <2>. QED
    BY <2>2
<1>. QED
  BY <1>4, <1>5

(***************************************************************************)
(* The theorems                                                            *)
(***************************************************************************)
Pcs == {"reach", "nullable", "productive", "mark", "failed", "done"}
Marks == /\ DerivesExact /\ MarksMean /\ VerdictRight
         /\ pc # "failed" => error = "NONE"
CensusInv == /\ G \in Grammars /\ pc \in Pcs
             /\ MatrixInv /\ ClosureTypes /\ (InClosure => ClosureInv) /\ Marks

\* The loops begin with the rules as they are.
LEMMA CensusStarts == CensusInit => CensusInv
<1>. SUFFICES ASSUME CensusInit PROVE CensusInv
  OBVIOUS
<1>0. USE GrammarFacts
<1>1. G \in Grammars /\ pc = "reach" /\ outer_row = 1 /\ column = 1 /\ error = "NONE"
  BY DEF CensusInit
<1>2. MatrixInv
  <2>1. matrix \in [XsyIds(G) -> SUBSET XsyIds(G)]
    BY <1>1 DEF CensusInit
  <2>2. ThroughPassed(matrix, N, 1, 1)
    BY <1>1 DEF ThroughPassed
  <2>3. AtLeast(matrix) /\ AtMost(matrix)
    BY <1>1 DEF CensusInit, AtLeast, AtMost
  <2>. QED
    BY <1>1, <2>1, <2>2, <2>3 DEF MatrixInv
<1>3. ClosureTypes
  <2>1. stack = <<>> /\ bv = {} /\ scan = 1 /\ todo = {}
    BY DEF CensusInit
  <2>. QED
    BY <1>1, <2>1 DEF ClosureTypes, OnceEach
<1>4. Marks /\ ~InClosure
  BY <1>1 DEF Marks, DerivesExact, MarksMean, VerdictRight, InClosure
<1>. QED
  BY <1>1, <1>2, <1>3, <1>4 DEF CensusInv, Pcs

\* A step that leaves the matrix alone.
LEMMA MatrixSame ==
  ASSUME G \in Grammars, MatrixInv, G' = G, UNCHANGED <<outer_row, column, matrix>>,
         pc # "reach" \/ outer_row = N + 1
  PROVE  MatrixInv'
<1>1. N' = N
  BY DEF N
<1>2. ThroughPassed(matrix, N, outer_row, column)'
  BY <1>1 DEF MatrixInv, ThroughPassed, Current, Row
<1>3. AtLeast(matrix)' /\ AtMost(matrix)'
  BY DEF MatrixInv, AtLeast, AtMost, ClosedBelow
<1>. QED
  BY <1>1, <1>2, <1>3 DEF MatrixInv

\* A step inside a loop marks nothing.
LEMMA MarksSame ==
  ASSUME Marks, G' = G, UNCHANGED <<pc, flags, error>>
  PROVE  Marks'
<1>1. DerivesExact'
  BY SameMeaning DEF Marks, DerivesExact, flags
<1>2. MarksMean'
  BY SameMeaning DEF Marks, MarksMean, flags
<1>3. VerdictRight'
  BY SameMeaning DEF Marks, VerdictRight
<1>. QED
  BY <1>1, <1>2, <1>3 DEF Marks

\* The nullable symbols are marked.
LEMMA NullableKeeps ==
  ASSUME CensusInv, markNullable
  PROVE  CensusInv'
<1>0. USE GrammarFacts
<1>1. /\ G \in Grammars /\ G' = G /\ pc = "nullable" /\ nullable' = bv /\ error = "NONE"
      /\ UNCHANGED <<outer_row, column, matrix, productive, accessible, nulling>>
      /\ MatrixInv /\ ClosureTypes /\ ClosureInv /\ ClosureDone
  BY DEF markNullable, CensusInv, InClosure, Marks
<1>2. MatrixInv'
  BY <1>1, MatrixSame
<1>3. bv = Derived({})
  BY <1>1, ClosureExact DEF InClosure, Given
<1>4. CASE \E x \in bv : G.xsy[x].counted
  <2>1. pc' = "failed" /\ error' = "COUNTED_NULLABLE" /\ UNCHANGED closing
    BY <1>4 DEF markNullable, fails
  <2>2. ClosureTypes'
    BY <1>1, <2>1 DEF ClosureTypes, closing, N
  <2>3. Marks'
    BY <1>1, <1>3, <1>4, <2>1, SameMeaning DEF Marks, DerivesExact, MarksMean, VerdictRight
  <2>. QED
    BY <1>1, <1>2, <2>1, <2>2, <2>3 DEF CensusInv, InClosure, Pcs
<1>5. CASE ~\E x \in bv : G.xsy[x].counted
  <2>1. enterClosure(bv \cup terminal_v(G), "productive") /\ error' = error
    BY <1>5 DEF markNullable
  <2>2. pc' = "productive" /\ Given' = terminal_v(G)
    BY <2>1, <1>1, SameMeaning DEF enterClosure, Given
  <2>3. empty_lhs_v(G) \cup terminal_v(G) \subseteq bv \cup terminal_v(G)
    BY <1>1 DEF ClosureInv
  <2>4. NothingElse(bv \cup terminal_v(G), terminal_v(G))
    BY <1>1 DEF ClosureInv, NothingElse, Given
  <2>5. bv \cup terminal_v(G) \in SUBSET XsyIds(G)
    BY <1>1 DEF ClosureTypes
  <2>6. ClosureTypes' /\ ClosureInv'
    BY <1>1, <2>1, <2>2, <2>3, <2>4, <2>5, ClosureEntered
  <2>7. Marks'
    BY <1>1, <1>3, <1>5, <2>1, <2>2, SameMeaning DEF Marks, DerivesExact, MarksMean, VerdictRight
  <2>. QED
    BY <1>1, <1>2, <2>2, <2>6, <2>7 DEF CensusInv, Pcs
<1>. QED
  BY <1>4, <1>5

\* The productive symbols are marked.
LEMMA ProductiveKeeps ==
  ASSUME CensusInv, markProductive
  PROVE  CensusInv'
<1>1. /\ G \in Grammars /\ G' = G /\ pc = "productive" /\ productive' = bv /\ error = "NONE"
      /\ UNCHANGED <<outer_row, column, matrix, closing, nullable, accessible, nulling>>
      /\ MatrixInv /\ ClosureTypes /\ ClosureInv /\ ClosureDone /\ nullable = Derived({})
  BY DEF markProductive, CensusInv, InClosure, Marks, DerivesExact
<1>2. MatrixInv'
  BY <1>1, MatrixSame
<1>3. bv = Derived(terminal_v(G))
  BY <1>1, ClosureExact DEF InClosure, Given
<1>4. ClosureTypes'
  BY <1>1 DEF ClosureTypes, closing, N
<1>5. \/ G.start \in bv /\ pc' = "mark" /\ error' = "NONE"
      \/ G.start \notin bv /\ pc' = "failed" /\ error' = "UNPRODUCTIVE_START"
  BY <1>1 DEF markProductive, fails
<1>6. Marks'
  <2>1. \A x \in Derived({}) : ~ G.xsy[x].counted
    BY <1>1 DEF CensusInv, Marks, VerdictRight
  <2>. QED
    BY <1>1, <1>3, <1>5, <2>1, SameMeaning DEF Marks, DerivesExact, MarksMean, VerdictRight
<1>. QED
  BY <1>1, <1>2, <1>4, <1>5, <1>6 DEF CensusInv, InClosure, Pcs

\* Accessible and nulling symbols are marked.
LEMMA ReachedKeeps ==
  ASSUME CensusInv, markReached
  PROVE  CensusInv'
<1>0. USE GrammarFacts
<1>1. /\ G \in Grammars /\ G' = G /\ pc = "mark" /\ error = "NONE"
      /\ accessible' = matrix[G.start] \cup {G.start}
      /\ nulling' = {x \in lhs_v(G) : terminal_v(G) \cap matrix[x] = {}}
      /\ UNCHANGED <<outer_row, column, matrix, closing, nullable, productive>>
      /\ MatrixInv /\ ClosureTypes /\ nullable = Derived({})
      /\ productive = Derived(terminal_v(G)) /\ outer_row = N + 1
  BY DEF markReached, CensusInv, InClosure, Marks, DerivesExact, MatrixInv
<1>2. MatrixInv'
  BY <1>1, MatrixSame
<1>3. ClosureTypes'
  BY <1>1 DEF ClosureTypes, closing, N
<1>4. \A x \in XsyIds(G) : matrix[x] = Reached(Below(G, x))
  BY <1>1, MatrixExact
<1>5. \/ (\E x \in nulling' : IsTerminal(x)) /\ pc' = "failed" /\ error' = "NULLING_TERMINAL"
      \/ (\A x \in nulling' : ~IsTerminal(x)) /\ pc' = "done" /\ error' = "NONE"
  BY <1>1 DEF markReached, fails
<1>6. DerivesExact'
  BY <1>1, <1>5, SameMeaning DEF DerivesExact
<1>7. MarksMean'
  <2>. SUFFICES ASSUME pc' = "done"
                PROVE  /\ accessible' = Reached({G.start})
                       /\ nulling' \cap Derived(terminal_v(G)) \subseteq Derived({})
                       /\ \A x \in nulling' :
                            ({x} \cup Reached(Below(G, x))) \cap terminal_v(G) = {}
    BY <1>1, SameMeaning DEF MarksMean
  <2>1. accessible' = Reached({G.start})
    BY <1>1, AccessibleExact
  <2>2. \A x \in nulling' : x \notin terminal_v(G) /\ terminal_v(G) \cap matrix[x] = {}
    BY <1>1, <1>5 DEF IsTerminal
  <2>3. nulling' \cap Derived(terminal_v(G)) \subseteq Derived({})
    BY <1>1, <2>2, ProductiveSymbols
  <2>4. \A x \in nulling' : ({x} \cup Reached(Below(G, x))) \cap terminal_v(G) = {}
    BY <1>1, <1>4, <2>2
  <2>. QED
    BY <2>1, <2>3, <2>4
<1>8. VerdictRight'
  <2>1. ASSUME error' = "NULLING_TERMINAL"
        PROVE  \E x \in lhs_v(G) : IsTerminal(x) /\ Reached(Below(G, x)) \cap terminal_v(G) = {}
    <3>1. PICK x \in nulling' : IsTerminal(x)
      BY <1>5, <2>1
    <3>2. x \in lhs_v(G) /\ x \in XsyIds(G) /\ terminal_v(G) \cap matrix[x] = {}
      BY <1>1
    <3>. QED
      BY <3>1, <3>2, <1>4
  <2>2. \A x \in Derived({}) : ~ G.xsy[x].counted
    BY <1>1 DEF CensusInv, Marks, VerdictRight
  <2>. QED
    BY <1>1, <1>5, <2>1, <2>2, SameMeaning DEF VerdictRight
<1>. QED
  BY <1>1, <1>2, <1>3, <1>5, <1>6, <1>7, <1>8 DEF CensusInv, InClosure, Pcs, Marks

\* Before a vector is closed nothing is marked.
LEMMA LoopsKeep ==
  ASSUME CensusInv, closeRow \/ findNullable \/ pushFirst \/ popSymbol \/ visitRule
  PROVE  CensusInv'
<1>0. USE GrammarFacts
<1>1. G \in Grammars /\ pc \in Pcs /\ MatrixInv /\ ClosureTypes /\ Marks
  BY DEF CensusInv
<1>2. CASE closeRow
  <2>1. G' = G /\ pc = "reach" /\ pc' = "reach" /\ UNCHANGED <<closing, flags, error>>
    BY <1>2 DEF closeRow
  <2>2. MatrixInv'
    BY <1>1, <1>2, CloseRowKeeps
  <2>3. ClosureTypes'
    BY <1>1, <2>1 DEF ClosureTypes, closing, N
  <2>4. Marks'
    BY <1>1, <2>1, MarksSame
  <2>. QED
    BY <1>1, <2>1, <2>2, <2>3, <2>4 DEF CensusInv, InClosure
<1>3. CASE findNullable
  <2>1. /\ G' = G /\ pc = "reach" /\ pc' = "nullable" /\ outer_row > N
        /\ enterClosure(empty_lhs_v(G), "nullable")
        /\ UNCHANGED <<outer_row, column, matrix, flags, error>>
    BY <1>3 DEF findNullable, enterClosure, N
  <2>2. outer_row = N + 1
    BY <1>1, <2>1 DEF MatrixInv
  <2>3. MatrixInv'
    BY <1>1, <2>1, <2>2, MatrixSame
  <2>4. Given' = {}
    BY <2>1 DEF Given
  <2>5. NothingElse(empty_lhs_v(G), {})
    BY <1>1, EmptyIsDerived DEF NothingElse
  <2>6. ClosureTypes' /\ ClosureInv'
    BY <1>1, <2>1, <2>4, <2>5, ClosureEntered
  <2>7. Marks'
    BY <1>1, <2>1, SameMeaning DEF Marks, DerivesExact, MarksMean, VerdictRight, flags
  <2>. QED
    BY <1>1, <2>1, <2>3, <2>6, <2>7 DEF CensusInv, Pcs
<1>4. CASE pushFirst \/ popSymbol \/ visitRule
  <2>1. /\ G' = G /\ InClosure /\ pc' = pc
        /\ UNCHANGED <<outer_row, column, matrix, flags, error>>
    BY <1>4 DEF pushFirst, popSymbol, visitRule
  <2>2. ClosureInv /\ pc # "reach"
    BY <2>1 DEF CensusInv, InClosure
  <2>3. MatrixInv'
    BY <1>1, <2>1, <2>2, MatrixSame
  <2>4. ClosureTypes' /\ ClosureInv'
    BY <1>1, <1>4, <2>2, PushFirstKeeps, PopKeeps, VisitKeeps
  <2>5. Marks'
    BY <1>1, <2>1, MarksSame
  <2>. QED
    BY <1>1, <2>1, <2>3, <2>4, <2>5 DEF CensusInv
<1>. QED
  BY <1>2, <1>3, <1>4

\* Every step keeps the invariant.
LEMMA CensusStep == CensusInv /\ [CensusNext]_censusVars => CensusInv'
<1>. SUFFICES ASSUME CensusInv, [CensusNext]_censusVars PROVE CensusInv'
  OBVIOUS
<1>1. CASE CensusNext
  BY <1>1, LoopsKeep, NullableKeeps, ProductiveKeeps, ReachedKeeps DEF CensusNext
<1>2. CASE UNCHANGED censusVars
  <2>1. /\ G' = G /\ pc' = pc /\ UNCHANGED <<outer_row, column, matrix>>
        /\ UNCHANGED closing /\ UNCHANGED <<flags, error>>
    BY <1>2 DEF censusVars
  <2>2. G \in Grammars /\ pc \in Pcs /\ MatrixInv /\ ClosureTypes /\ Marks
    BY DEF CensusInv
  <2>3. N' = N
    BY <2>1 DEF N
  <2>4. MatrixInv'
    <3>1. ThroughPassed(matrix, N, outer_row, column)'
      BY <2>1, <2>2, <2>3 DEF MatrixInv, ThroughPassed, Current, Row
    <3>2. AtLeast(matrix)' /\ AtMost(matrix)'
      BY <2>1, <2>2 DEF MatrixInv, AtLeast, AtMost, ClosedBelow
    <3>. QED
      BY <2>1, <2>2, <2>3, <3>1, <3>2 DEF MatrixInv
  <2>5. ClosureTypes'
    BY <2>1, <2>2, <2>3 DEF ClosureTypes, closing
  <2>6. InClosure => ClosureInv'
    BY <2>1, <2>3, SameMeaning
       DEF CensusInv, ClosureInv, NothingElse, NothingForgotten, Waiting, Given, closing
  <2>7. Marks'
    BY <2>1, <2>2, MarksSame
  <2>. QED
    BY <2>1, <2>2, <2>4, <2>5, <2>6, <2>7 DEF CensusInv, InClosure
<1>. QED
  BY <1>1, <1>2

LEMMA CensusInvariant == CensusSpec => []CensusInv
BY CensusStarts, CensusStep, PTL DEF CensusSpec

\* A worklist without repetition is no longer than the grammar has symbols.
LEMMA RoomForEach ==
  ASSUME NEW n \in Nat, NEW s \in Seq(1 .. n), OnceEach(s)
  PROVE  Len(s) <= n
<1>1. Len(s) \in Nat /\ DOMAIN s = 1 .. Len(s) /\ \A i \in 1 .. Len(s) : s[i] \in 1 .. n
  BY OfSeq
<1>2. SUFFICES ASSUME Len(s) > n PROVE FALSE
  BY <1>1
<1>3. /\ IsFiniteSet(1 .. Len(s)) /\ Cardinality(1 .. Len(s)) = Len(s)
      /\ IsFiniteSet(1 .. n) /\ Cardinality(1 .. n) = n
  <2>1. \A m \in Nat : IsFiniteSet(1 .. m) /\ Cardinality(1 .. m) = m
    BY FS_Interval
  <2>. QED
    BY <2>1, <1>1
<1>. DEFINE f == [i \in 1 .. Len(s) |-> s[i]]
<1>4. f \in [1 .. Len(s) -> 1 .. n]
  BY <1>1
<1>5. \E x, y \in 1 .. Len(s) : x # y /\ f[x] = f[y]
  <2>. HIDE DEF f
  <2>. QED
    BY <1>2, <1>3, <1>4, FS_PigeonHole
<1>. QED
  BY <1>1, <1>5 DEF OnceEach

\* transitive_closure and rhs_closure stay inside the vectors and the matrix they
\* were given.
THEOREM CensusTypes == CensusSpec => []CensusTypeOK
<1>1. CensusInv => CensusTypeOK
  <2>. SUFFICES ASSUME CensusInv PROVE CensusTypeOK
    OBVIOUS
  <2>1. G \in Grammars /\ pc \in Pcs /\ MatrixInv /\ ClosureTypes
    BY DEF CensusInv
  <2>2. stack \in Seq(XsyIds(G))
    BY <2>1 DEF ClosureTypes
  <2>. QED
    BY <2>1, <2>2, GrammarFacts DEF CensusTypeOK, MatrixInv, ClosureTypes, Pcs
<1>. QED
  BY <1>1, CensusInvariant, PTL

\* The worklist of rhs_closure, pushed without a test, has room for every grammar.
THEOREM CensusHasRoom == CensusSpec => []WorklistFits
<1>1. CensusInv => WorklistFits
  <2>. SUFFICES ASSUME CensusInv PROVE WorklistFits
    OBVIOUS
  <2>1. G \in Grammars /\ stack \in Seq(bv) /\ bv \subseteq XsyIds(G) /\ OnceEach(stack)
    BY DEF CensusInv, ClosureTypes
  <2>2. N \in Nat /\ stack \in Seq(1 .. N)
    BY <2>1, GrammarFacts
  <2>3. Len(stack) <= N
    BY <2>1, <2>2, RoomForEach
  <2>. QED
    BY <2>1, <2>3 DEF WorklistFits, OnceEach, N
<1>. QED
  BY <1>1, CensusInvariant, PTL

\* rhs_closure marks the nullable and the productive symbols of every grammar,
\* and no others, whatever the order in which its worklist comes to the rules.
THEOREM CensusDerives == CensusSpec => []DerivesExact
<1>1. CensusInv => DerivesExact
  BY DEF CensusInv, Marks
<1>. QED
  BY <1>1, CensusInvariant, PTL

\* transitive_closure, in place, gives the symbols below each symbol.
THEOREM CensusReaches == CensusSpec => []ReachExact
<1>1. CensusInv => ReachExact
  <2>. SUFFICES ASSUME CensusInv, pc # "reach"
                PROVE  \A x \in XsyIds(G) : matrix[x] = Reached(Below(G, x))
    BY DEF ReachExact
  <2>1. G \in Grammars /\ MatrixInv /\ outer_row = N + 1
    BY DEF CensusInv, MatrixInv
  <2>. QED
    BY <2>1, MatrixExact
<1>. QED
  BY <1>1, CensusInvariant, PTL

\* The accessible and nulling marks of the census mean what their names say.
THEOREM CensusMarks == CensusSpec => []MarksMean
<1>1. CensusInv => MarksMean
  BY DEF CensusInv, Marks
<1>. QED
  BY <1>1, CensusInvariant, PTL

\* Each error of the census is given for a grammar that has the fault.
THEOREM CensusVerdicts == CensusSpec => []VerdictRight
<1>1. CensusInv => VerdictRight
  BY DEF CensusInv, Marks
<1>. QED
  BY <1>1, CensusInvariant, PTL

\* The census is right for every grammar: the loops stay inside what they allocate,
\* and the marks and verdicts are what the rules mean.
THEOREM CensusIsRight == CensusSpec => []CensusRight
<1>1. CensusTypeOK /\ WorklistFits /\ DerivesExact /\ ReachExact /\ MarksMean /\ VerdictRight
        => CensusRight
  BY DEF CensusRight
<1>. QED
  BY <1>1, CensusTypes, CensusHasRoom, CensusDerives, CensusReaches, CensusMarks, CensusVerdicts, PTL
=============================================================================
