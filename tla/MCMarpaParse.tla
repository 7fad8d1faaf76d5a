---------------------------- MODULE MCMarpaParse ----------------------------
(* Small grammars, one for each of the ways libmarpa treats a rule, and the *)
(* inputs to try them on. Symbol 1 is the start symbol.                     *)
EXTENDS MarpaParse

Upto(n) == [i \in 1..n |-> i]
Symbols(n) == FoldLeft(LAMBDA h, i : symbol_new(h), marpa_g_new, Upto(n))
Rules(h, rules) == FoldLeft(LAMBDA k, q : marpa_g_rule_new(k, q[1], q[2]), h, rules)
SeqRules(h, seqs) ==
  FoldLeft(LAMBDA k, q : marpa_g_sequence_new(k, q[1], q[2], q[3], q[4], TRUE, q[5]), h, seqs)
RanksOf(h, ranks) == FoldLeft(LAMBDA k, q : marpa_g_rule_rank_set(k, q[1], q[2]), h, ranks)
Events(h, n) ==
  FoldLeft(LAMBDA k, x : marpa_g_symbol_is_completion_event_set(
                           marpa_g_symbol_is_nulled_event_set(
                             marpa_g_symbol_is_prediction_event_set(k, x, TRUE), x, TRUE), x, TRUE),
           h, Upto(n))
Precomputed(c) ==
  marpa_g_precompute(marpa_g_force_valued(marpa_g_start_symbol_set(
    Events(RanksOf(SeqRules(Rules(Symbols(c.symbols), c.rules), c.seqs), c.ranks), c.events), 1)))
Made(c) == [g |-> Precomputed(c), terminals |-> c.terminals, lengths |-> c.lengths,
            max |-> c.max, extras |-> c.extras]

Plainly(symbols, rules, terminals, max) ==
  [symbols |-> symbols, rules |-> rules, seqs |-> <<>>, ranks |-> <<>>, events |-> 0,
   terminals |-> terminals, lengths |-> {1}, max |-> max, extras |-> 0]

(* Right recursion through three rules, and below the start symbol.         *)
Leo == [Plainly(5, << <<1, <<4, 2>>>>, <<2, <<3>>>>, <<3, <<1>>>>, <<2, <<5>>>> >>, {4, 5}, 4)
          EXCEPT !.events = 3, !.extras = 1]
Chain == [Plainly(5, << <<1, <<2>>>>, <<2, <<3>>>>, <<3, <<5, 2>>>>, <<3, <<4>>>> >>, {4, 5}, 4)
            EXCEPT !.events = 3]
(* Recursion on the right and in the middle.                                *)
Mixed == Plainly(3, << <<1, <<2, 1>>>>, <<1, <<3, 1, 2>>>>, <<1, <<3>>>> >>, {2, 3}, 4)
(* Tokens of two lengths, some of them too long for libmarpa (7 is), or     *)
(* after the first earleme (6 is); and two symbols for them.                *)
Long == [Plainly(2, << <<1, <<2, 1>>>>, <<1, <<2>>>> >>, {2}, 3)
           EXCEPT !.lengths = {1, 2, 6, 7}, !.extras = 1]
Lexemes == [Plainly(4, << <<1, <<2, 1>>>>, <<1, <<2>>>>, <<2, <<3>>>>, <<2, <<4>>>> >>, {3, 4}, 2)
              EXCEPT !.lengths = {1, 2}]
(* Ambiguous; and with a rule that has a higher rank than others.           *)
Ambiguous == [Plainly(2, << <<1, <<1, 1>>>>, <<1, <<2>>>> >>, {2}, 4) EXCEPT !.extras = 1]
Ranked == [Plainly(4, << <<1, <<2, 3>>>>, <<2, <<4>>>>, <<2, <<4, 4>>>>, <<3, <<4>>>>,
                         <<3, <<4, 4>>>>, <<1, <<4, 4, 4>>>> >>, {4}, 4)
             EXCEPT !.ranks = << <<4, 1>>, <<6, -1>> >>]
(* Nullable symbols in a row; around a solid one, with a nulling symbol.    *)
Nullables == [Plainly(3, << <<1, <<2, 2, 2>>>>, <<2, <<3>>>>, <<2, <<>>>> >>, {3}, 3)
                EXCEPT !.events = 2, !.extras = 1]
Solids == [Plainly(5, << <<1, <<2, 3, 2, 5, 2, 2>>>>, <<2, <<4>>>>, <<2, <<>>>>, <<5, <<>>>> >>,
                   {3, 4}, 4) EXCEPT !.events = 2]
(* Sequences: of items with rules and a liberal separator, and a proper one. *)
Liberal == [Plainly(4, << <<2, <<4>>>>, <<2, <<4, 4>>>> >>, {3, 4}, 4)
              EXCEPT !.seqs = << <<1, 2, 3, 0, FALSE>> >>]
Proper == [Plainly(4, << <<1, <<2, 4>>>> >>, {3, 4}, 4)
             EXCEPT !.seqs = << <<2, 4, 3, 1, TRUE>> >>, !.extras = 1]
(* Nothing but the empty input.                                             *)
Trivial == [Plainly(1, << <<1, <<>>>> >>, {}, 1) EXCEPT !.extras = 1]
(* A nulling symbol before and after a recursion.                           *)
Leading == Plainly(3, << <<1, <<3, 1, 2>>>>, <<1, <<2>>>>, <<3, <<>>>> >>, {2}, 3)
Trailing == Plainly(3, << <<1, <<2, 1, 3>>>>, <<1, <<2>>>>, <<3, <<>>>> >>, {2}, 3)

MCCases ==
  {Made(c) : c \in {Leo, Chain, Mixed, Long, Lexemes, Ambiguous, Ranked, Nullables, Solids, Liberal,
                    Proper, Trivial, Leading, Trailing}}
MCNullCases == {Made(c) : c \in {Leading, Trailing}}
=============================================================================
