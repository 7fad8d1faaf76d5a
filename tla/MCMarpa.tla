------------------------------- MODULE MCMarpa -------------------------------
(* Three models of libmarpa in one run: the calls that build a grammar, the    *)
(* loops of the census and the loops of the tree iterator. They share no       *)
(* state, and in a behaviour one of them moves.                                *)
EXTENDS MarpaGrammar, MarpaCensus, MarpaNooks

VARIABLE part

(***************************************************************************)
(* Calls: a small menu of rules over four symbols, with nullable symbols   *)
(* and rules, runs of nullable symbols, right and left recursion, cycles,  *)
(* and rules that are never used.                                          *)
(***************************************************************************)
MCRuleMenu ==
  << <<1, <<2, 3, 2>>>>, <<1, <<2>>>>, <<3, <<4, 3>>>>, <<3, <<>>>>, <<2, <<>>>>, <<2, <<4>>>>,
     <<2, <<1>>>>, <<4, <<4>>>> >>
MCSequenceMenu == {<<1, 3, 2, 0, FALSE, FALSE>>, <<3, 4, 2, 1, TRUE, TRUE>>}

(***************************************************************************)
(* Census: grammars of up to four rules over three symbols, the third of   *)
(* which may be declared a terminal or not to be one, and the grammar of   *)
(* the empty string.                                                       *)
(***************************************************************************)
bnf(l, r) == [lhs |-> l, rhs |-> r, sequence |-> FALSE, min |-> -1, sep |-> 0]
items(l, i, m, s) == [lhs |-> l, rhs |-> <<i>>, sequence |-> TRUE, min |-> m, sep |-> s]
CensusMenu ==
  {bnf(1, <<2, 3>>), bnf(1, <<1>>), bnf(1, <<3>>), bnf(2, <<>>), bnf(2, <<1>>),
   bnf(2, <<3, 3>>), bnf(3, <<1, 2>>), bnf(3, <<2>>), items(1, 2, 0, 0), items(2, 3, 2, 1)}

\* A sequence is the only rule of its left-hand side, and counts its symbols.
RuleSets == {R \in SUBSET CensusMenu :
               /\ Cardinality(R) <= 4 /\ \E r \in R : r.lhs = 1
               /\ \A r, q \in R : r.sequence /\ r.lhs = q.lhs => r = q}
IsCounted(x, R) == \E r \in R : r.sequence /\ (r.rhs[1] = x \/ r.sep = x)
Symbol(x, R, locked, terminal) ==
  [counted |-> IsCounted(x, R), lockedTerminal |-> locked /\ x = 3, terminal |-> terminal /\ x = 3]
EmptyGrammar == [xsy |-> <<Symbol(1, {}, FALSE, FALSE)>>, xrl |-> <<bnf(1, <<>>)>>, start |-> 1]

MCGrammars ==
  {[xsy |-> [x \in 1 .. 3 |-> Symbol(x, R, s[1], s[2])], xrl |-> SetToSeq(R), start |-> 1] :
     R \in RuleSets, s \in {<<FALSE, FALSE>>, <<TRUE, FALSE>>, <<TRUE, TRUE>>}}
  \cup {EmptyGrammar}

(***************************************************************************)
(* Trees: bocages of three or-nodes with two choices each, with and        *)
(* without cycles, and the bocage of a parse of nothing. A cause and a     *)
(* predecessor are different or-nodes, and so are the choices.             *)
(***************************************************************************)
an(or, cause, pred) == [or |-> or, cause |-> cause, pred |-> pred]
Below1 == {a \in [or : {1}, cause : {0, 2, 3}, pred : {0, 2, 3}] : a.cause = a.pred => a.cause = 0}
Below2 == {a \in [or : {2}, cause : {0, 1, 2, 3}, pred : {0, 3}] : a.cause = a.pred => a.cause = 0}
Pairs(S) == {p \in S \X S : p[1] # p[2]}
EmptyBocage ==
  [or_count |-> 0, and_count |-> 0, nulling |-> TRUE, top |-> 0, and |-> <<>>, order |-> <<>>]

\* The second or-node may have one choice left after ranking.
MCBocages ==
  {[or_count |-> 3, and_count |-> 6, nulling |-> FALSE, top |-> 1,
    and |-> <<p[1], p[2], q[1], q[2], an(3, 0, 0), an(3, c[1], 0)>>,
    order |-> <<<<1, 2>>, c[2], <<6, 5>>>>] :
     p \in Pairs(Below1), q \in Pairs(Below2), c \in {<<2, <<3, 4>>>>, <<0, <<4>>>>}}
  \cup {EmptyBocage}

(***************************************************************************)
(* The run.                                                                *)
(***************************************************************************)
MCVars == <<part, mgVars, censusVars, nookVars>>

MCInit ==
  /\ part \in {"calls", "census", "trees"}
  /\ MarpaGrammarInit /\ CensusInit /\ NookInit
  /\ part # "census" => G = EmptyGrammar
  /\ part # "trees" => b = EmptyBocage

MCNext ==
  \/ part = "calls" /\ MarpaGrammarNext /\ UNCHANGED <<part, censusVars, nookVars>>
  \/ part = "census" /\ CensusNext /\ UNCHANGED <<part, mgVars, nookVars>>
  \/ part = "trees" /\ NookNext /\ UNCHANGED <<part, mgVars, censusVars>>

MCSpec ==
  /\ MCInit /\ [][MCNext]_MCVars
  /\ WF_MCVars(part = "trees" /\ InCall /\ UNCHANGED <<part, mgVars, censusVars>>)
=============================================================================
