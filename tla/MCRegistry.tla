----------------------------- MODULE MCRegistry -----------------------------
(* Instances of Registry for TLC. *)
EXTENDS Registry

CONSTANTS c1, c2, c3, a1, a2, w1, w2

Pairs == {<<a1, w1>>}

Good == [bearer |-> TRUE, origin |-> "listed",
         opens |-> TRUE, agent |-> a1,
         workspace |-> w1, env |-> "none"]

\* A good request and the ways to spoil it by one field.
OneFieldOff ==
  {Good, [Good EXCEPT !.bearer = FALSE], [Good EXCEPT !.origin = "foreign"],
   [Good EXCEPT !.agent = a2], [Good EXCEPT !.workspace = w2],
   [Good EXCEPT !.env = "unlisted"], [Good EXCEPT !.opens = FALSE]}
=============================================================================
