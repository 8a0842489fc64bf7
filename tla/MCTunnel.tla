------------------------------ MODULE MCTunnel ------------------------------
(***************************************************************************)
(* Instances of Tunnel for TLC.  Client lines p1 and p2 are forwarded (p2  *)
(* rewritten to w2), p3 is rejected with the answer r3 and p4 makes        *)
(* AcpPolicy::apply fail.  Under LongAnswer r3 is a line within the frame  *)
(* limit whose message is not.  a1 and a2 are agent lines; a3 is an agent  *)
(* line over the frame limit.  Sizes are in units of the limit: 1 fits, 2  *)
(* does not.                                                               *)
(***************************************************************************)
EXTENDS Tunnel

CONSTANTS p1, p2, w2, p3, r3, p4, a1, a2, a3

MCPayloads == {p1, p2, w2, p3, r3, p4, a1, a2, a3}
MCSize == [p \in MCPayloads |-> IF p = a3 THEN 2 ELSE 1]
MCEnvelopeSize == [p \in MCPayloads |-> IF p = a3 THEN 2 ELSE 1]
LongAnswer == [MCEnvelopeSize EXCEPT ![r3] = 2]
MCApply == [p \in MCPayloads |->
              CASE p = p2 -> [outcome |-> "forward", line |-> w2]
                [] p = p3 -> [outcome |-> "reject", line |-> r3]
                [] p = p4 -> [outcome |-> "error", line |-> p4]
                [] OTHER -> [outcome |-> "forward", line |-> p]]

NoLines == << >>
TwoClientLines == <<p2, p3>>
TwoAgentLines == <<a1, a2>>
OneClientLine == <<p1>>
InvalidLineLast == <<p3, p4>>
OneAgentLine == <<a1>>
LongAgentLine == <<a1, a3>>
BurstOfLines == [n \in 1 .. 11 |-> p1]
=============================================================================
