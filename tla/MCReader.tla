------------------------------ MODULE MCReader ------------------------------
(* An instance of Reader for TLC: the start symbol, which is a terminal of  *)
(* unknown size, and terminals of equal or different sizes, in grammars     *)
(* where all can be expected together, and room for a symbol added while    *)
(* reading.                                                                 *)
EXTENDS Reader

MCCapacities == {2, 4}
MCOptions == {{"start", "terminal"}, {"terminal"}, {"start"}}
MCWrapperOptions == {[warningIsErrorb |-> TRUE, unsortedEventsb |-> TRUE]}

Rule(l, r) == [lhs |-> l, rhs |-> r, sequence |-> FALSE, separator |-> NoSymbol]
MCRules == {Rule(0, <<0, 1>>), Rule(0, <<1, 2>>), Rule(0, <<>>)}

Hint(size, char) == [sizel |-> size, firstChari |-> char]
MCSymbolHints == {(0 :> Hint(0, -1)) @@ (1 :> Hint(2, -1)) @@ (2 :> Hint(2, -1)),
                  (0 :> Hint(0, -1)) @@ (1 :> Hint(1, 65)) @@ (2 :> Hint(2, 66))}
\* <<latm, share>>
MCReaderOptions ==
  {[remainingDataIsOkb |-> m[1], longestAcceptableTokenMatchb |-> m[1],
    longestAcceptableTokensShareTheSameValueAndLengthb |-> m[2]] :
      m \in {<<TRUE, TRUE>>, <<TRUE, FALSE>>, <<FALSE, FALSE>>}}
=============================================================================
