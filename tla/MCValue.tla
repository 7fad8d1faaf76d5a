------------------------------ MODULE MCValue ------------------------------
(* Instance of Value for TLC: an ambiguous parse with two trees, whose rules *)
(* reuse stack positions, and one with a nulled symbol.                      *)
EXTENDS Value

MCIndex == 0 .. 2
token(n, r) == [kind |-> "token", name |-> n, first |-> 0, last |-> 0, result |-> r]
nulling(n, r) == [kind |-> "nulling", name |-> n, first |-> 0, last |-> 0, result |-> r]
rule(n, f, l) == [kind |-> "rule", name |-> n, first |-> f, last |-> l, result |-> f]

\* A tree with the array after each of its steps.
Tree(steps, term) ==
  LET after[n \in 0 .. Len(steps)] ==
        IF n = 0 THEN [i \in MCIndex |-> NULL]
        ELSE Taken(after[n - 1], steps[n])
  IN  [steps |-> steps, term |-> term, stacks |-> after]

\* a b c as (a b) c and as a (b c)
LeftTree == Tree(<<token("a", 0), token("b", 1), rule("E", 0, 1), token("c", 1),
                         rule("E", 0, 1)>>,
                 <<"E", <<"E", <<"a">>, <<"b">>>>, <<"c">>>>)
RightTree == Tree(<<token("a", 0), token("b", 1), token("c", 2), rule("E", 1, 2),
                          rule("E", 0, 1)>>,
                 <<"E", <<"a">>, <<"E", <<"b">>, <<"c">>>>>>)
NulledTree == Tree(<<token("a", 0), nulling("n", 1), rule("A", 0, 1), token("b", 1),
                           rule("S", 0, 1)>>,
                 <<"S", <<"A", <<"a">>, <<"n">>>>, <<"b">>>>)
MCParses == {<<LeftTree, RightTree>>, <<NulledTree>>}
=============================================================================
