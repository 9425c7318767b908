---------------------------- MODULE MCSessionLog ----------------------------
(***************************************************************************)
(* The log for TLC: days of three ticks, and a local time that is ahead of *)
(* the clock, so that its midnight is not the clock's.                     *)
(***************************************************************************)
EXTENDS SessionLog
=============================================================================
