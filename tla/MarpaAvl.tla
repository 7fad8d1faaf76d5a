------------------------------ MODULE MarpaAvl ------------------------------
(***************************************************************************)
(* The balanced trees of marpa_avl.c, as far as libmarpa inserts, finds    *)
(* and walks. A tree is <<>> or <<node>>; a node has a key, two links      *)
(* (0 before, 1 after) and a balance. A key is the sequence of integers    *)
(* the tree's comparison function looks at, in the order it does.          *)
(***************************************************************************)
EXTENDS Integers, Sequences

NullTree == <<>>

(* The sign of the first difference. Keys that agree as far as both go     *)
(* have the same length, which every comparison looks at first.            *)
avl_compare(a, b) ==
  LET differ == {i \in DOMAIN a \cap DOMAIN b : a[i] # b[i]}
  IN  IF differ = {} THEN 0
      ELSE LET i == CHOOSE j \in differ : \A k \in differ : j <= k
           IN  IF a[i] < b[i] THEN -1 ELSE 1

Direction(key, node) == IF avl_compare(key, node.key) > 0 THEN 1 ELSE 0

RECURSIVE _marpa_avl_find(_, _)
_marpa_avl_find(tree, key) ==
  /\ tree # NullTree
  /\ \/ avl_compare(key, tree[1].key) = 0
     \/ _marpa_avl_find(tree[1].link[Direction(key, tree[1])], key)

(* Hangs a new leaf and shifts the balance of every node above it.         *)
RECURSIVE Grow(_, _)
Grow(tree, key) ==
  IF tree = NullTree THEN <<[key |-> key, link |-> [d \in 0..1 |-> NullTree], balance |-> 0]>>
  ELSE LET d == Direction(key, tree[1])
       IN  <<[tree[1] EXCEPT !.link[d] = Grow(@, key),
                             !.balance = @ + (IF d = 0 THEN -1 ELSE 1)]>>

(* Is there an unbalanced node on the way from the root of tree to key?    *)
RECURSIVE HeavyBelow(_, _)
HeavyBelow(tree, key) ==
  /\ tree # NullTree
  /\ \/ tree[1].balance # 0
     \/ HeavyBelow(tree[1].link[Direction(key, tree[1])], key)

(* Rotates a node whose side d is two levels deeper.                       *)
Rotate(y, d) ==
  LET sign == IF d = 0 THEN -1 ELSE 1
      x == y.link[d][1]
      w == x.link[1 - d][1]
      single == [x EXCEPT !.link[1 - d] = <<[y EXCEPT !.link[d] = x.link[1 - d], !.balance = 0]>>,
                          !.balance = 0]
      double ==
        [w EXCEPT !.link[d] = <<[x EXCEPT !.link[1 - d] = w.link[d],
                                          !.balance = IF w.balance = - sign THEN sign ELSE 0]>>,
                  !.link[1 - d] = <<[y EXCEPT !.link[d] = w.link[1 - d],
                                              !.balance = IF w.balance = sign THEN - sign ELSE 0]>>,
                  !.balance = 0]
  IN  IF x.balance = sign THEN single ELSE double

(* Mutant: a node whose deeper child leans the other way is rotated once.  *)
RebalanceSingle(tree) ==
  LET y == tree[1]
      Once(d) == LET x == y.link[d][1]
                 IN  <<[x EXCEPT !.link[1 - d] = <<[y EXCEPT !.link[d] = x.link[1 - d],
                                                             !.balance = 0]>>,
                                 !.balance = 0]>>
  IN  CASE y.balance = -2 -> Once(0)
        [] y.balance = 2  -> Once(1)
        [] OTHER -> tree

Rebalance(tree) ==
  CASE tree[1].balance = -2 -> <<Rotate(tree[1], 0)>>
    [] tree[1].balance = 2  -> <<Rotate(tree[1], 1)>>
    [] OTHER -> tree

(* The lowest unbalanced node on the way, or the root, is where balances   *)
(* change and the only place where a rotation may be needed.               *)
RECURSIVE _marpa_avl_probe(_, _)
_marpa_avl_probe(tree, key) ==
  IF tree = NullTree THEN Grow(tree, key)
  ELSE LET d == Direction(key, tree[1])
       IN  IF HeavyBelow(tree[1].link[d], key)
           THEN <<[tree[1] EXCEPT !.link[d] = _marpa_avl_probe(@, key)]>>
           ELSE Rebalance(Grow(tree, key))

(* A key that is there already is not inserted again.                      *)
_marpa_avl_insert(tree, key) ==
  IF _marpa_avl_find(tree, key) THEN tree ELSE _marpa_avl_probe(tree, key)

(***************************************************************************)
(* A traverser's node and its stack of parents are the path of links from  *)
(* the root; NoNode is the null node.                                      *)
(***************************************************************************)
NoNode == <<-1>>

RECURSIVE NodeAt(_, _)
NodeAt(tree, path) ==
  IF path = <<>> THEN tree ELSE NodeAt(tree[1].link[path[1]], Tail(path))

RECURSIVE LeftMost(_, _)
LeftMost(tree, path) ==
  IF NodeAt(tree, path)[1].link[0] = NullTree THEN path ELSE LeftMost(tree, Append(path, 0))

_marpa_avl_t_first(tree) == IF tree = NullTree THEN NoNode ELSE LeftMost(tree, <<>>)

RECURSIVE UpFromRight(_)
UpFromRight(path) ==
  IF path = <<>> THEN NoNode
  ELSE LET up == SubSeq(path, 1, Len(path) - 1)
       IN  IF path[Len(path)] = 1 THEN UpFromRight(up) ELSE up

_marpa_avl_t_next(tree, path) ==
  CASE path = NoNode -> _marpa_avl_t_first(tree)
    [] path # NoNode /\ NodeAt(tree, path)[1].link[1] # NullTree ->
         LeftMost(tree, Append(path, 1))
    [] OTHER -> UpFromRight(path)

(***************************************************************************)
(* What the trees promise: keys in order, balances that say how much       *)
(* deeper the second side is, and nowhere more than one.                   *)
(***************************************************************************)
RECURSIVE InOrder(_)
InOrder(tree) ==
  IF tree = NullTree THEN <<>>
  ELSE InOrder(tree[1].link[0]) \o <<tree[1].key>> \o InOrder(tree[1].link[1])

RECURSIVE Height(_)
Height(tree) ==
  IF tree = NullTree THEN 0
  ELSE LET a == Height(tree[1].link[0])
           b == Height(tree[1].link[1])
       IN  1 + (IF a > b THEN a ELSE b)

RECURSIVE BalancesRight(_)
BalancesRight(tree) ==
  tree = NullTree
    \/ /\ tree[1].balance \in -1..1
       /\ tree[1].balance = Height(tree[1].link[1]) - Height(tree[1].link[0])
       /\ \A d \in 0..1 : BalancesRight(tree[1].link[d])

IsAvlTree(tree, keys) ==
  /\ BalancesRight(tree)
  /\ LET order == InOrder(tree)
     IN  /\ {order[i] : i \in DOMAIN order} = keys
         /\ \A i \in 1..(Len(order) - 1) : avl_compare(order[i], order[i + 1]) < 0
=============================================================================
