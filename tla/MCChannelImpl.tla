---------------------------- MODULE MCChannelImpl ----------------------------
(***************************************************************************)
(* The channel for TLC: packets are told apart by n; priorities collide on *)
(* purpose, so that the heap has ties to break.                            *)
(***************************************************************************)
EXTENDS ChannelImpl, TLC

MCMsg == {[n |-> 1, cPriority |-> 0], [n |-> 2, cPriority |-> 7],
          [n |-> 3, cPriority |-> 255], [n |-> 4, cPriority |-> 255]}

(* Clients differ by name only.                                            *)
ClientSymmetry == Permutations(Clients)
=============================================================================
