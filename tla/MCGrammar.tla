----------------------------- MODULE MCGrammar -----------------------------
(* The wrapper's pointer tables at work, in one run: those of symbols and    *)
(* rules in the grammar phase, and that of progress items. The two share no  *)
(* state, and in a behaviour one of them moves. Tables start with one slot,  *)
(* so that three ids are enough for the second doubling and for the damage   *)
(* it can do.                                                                *)
EXTENDS Grammar, Progress

VARIABLE part

MCCapacities == {1, 2, 4}
MCOptions == {{}, {"start"}, {"terminal", "predicted"}}

Rule(l, r) == [lhs |-> l, rhs |-> r, sequence |-> FALSE, separator |-> NoSymbol]
Sequence(l, r, s) == [lhs |-> l, rhs |-> r, sequence |-> TRUE, separator |-> s]

MCRules == {Rule(0, <<1>>), Rule(0, <<>>), Rule(1, <<2, 0>>), Rule(2, <<0>>),
            Sequence(0, <<1>>, 2), Sequence(1, <<2>>, NoSymbol), Sequence(2, <<1, 0>>, NoSymbol)}

\* Reports come in the order of position, rule and origin: the sort has work
\* to do, also on items that it holds for equal.
Dotted(r, p, o) == [rule |-> r, position |-> p, origin |-> o]
MCReports == {<<>>, <<Dotted(1, 0, 0)>>,
              <<Dotted(1, -1, 0), Dotted(0, 0, 0)>>,
              <<Dotted(0, 1, 0), Dotted(0, 1, 1)>>}

MCVars == <<part, gvars, progressVars>>

MCInit == part \in {"grammar", "progress"} /\ Init /\ ProgressInit

MCNext ==
  \/ part = "grammar" /\ Next /\ UNCHANGED <<part, progressVars>>
  \/ part = "progress" /\ ProgressNext /\ UNCHANGED <<part, gvars>>

MCSpec == MCInit /\ [][MCNext]_MCVars
=============================================================================
