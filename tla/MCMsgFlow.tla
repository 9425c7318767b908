----------------------------- MODULE MCMsgFlow ------------------------------
(* The test for TLC: four packets, two of which have one priority.         *)
EXTENDS MsgFlow

MCClients == {Test}
MCMsg == {[dwClientId |-> 5, dwTicks |-> n, cPriority |-> 7 * (n \div 2)] : n \in 0..3}
=============================================================================
