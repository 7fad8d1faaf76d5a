---------------------------- MODULE MCRecognizer ----------------------------
(* Instances of Recognizer for TLC.  Recognizer.cfg: two terminals, one of   *)
(* them the start symbol, with events and tokens of several lengths.         *)
(* EventOrder.cfg: one subscribed start symbol.                              *)
EXTENDS Recognizer

MCCapacities == {2, 4}
MCOptions == {{"start", "terminal", "completed"}, {"start"}, {"terminal", "predicted"}}
OrderOptions == {{"start", "terminal", "completed"}, {"terminal", "nulled", "predicted"}}
MCWrapperOptions == {[warningIsErrorb |-> w, unsortedEventsb |-> ~w] : w \in BOOLEAN}
OneWrapperOption == {[warningIsErrorb |-> TRUE, unsortedEventsb |-> FALSE]}
MCEventSets == {{"predicted"}}

Rule(l, r) == [lhs |-> l, rhs |-> r, sequence |-> FALSE, separator |-> NoSymbol]
MCRules == {Rule(0, <<0, 1>>), Rule(0, <<>>)}
=============================================================================
