--------------------------- MODULE MCPriorityQueue ---------------------------
(* The program for TLC: clients 1..MaxClients, small limits.               *)
EXTENDS PriorityQueue

MCClients == 1..MaxClients
MCMsg == [dwClientId : MCClients, n : 1..MsgLimit, cPriority : Priority]
=============================================================================
