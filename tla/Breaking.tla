------------------------------ MODULE Breaking ------------------------------
(***************************************************************************)
(* The break handler (src/src/Utils/BreackingHandler.cpp): one status that *)
(* a signal sets and every thread polls.  In the program the status leaves *)
(* Initial once and never comes back; Processing and Handled are unused.   *)
(***************************************************************************)

VARIABLES
  status_,      \* Breaking::status_
  handler       \* is ctrlBreakHandler the action of SIGINT?

breakingVars == <<status_, handler>>

BreakingInit ==
  /\ status_ = "Initial"
  /\ handler = FALSE

(* reactivateHandler, as built for Linux: the status is left alone.        *)
ReactivateHandler ==
  /\ handler' = TRUE
  /\ UNCHANGED status_

(* ctrlBreakHandler.  A signal before the handler is there ends the        *)
(* process, a second one changes nothing: neither is a step.               *)
CtrlBreakHandler ==
  /\ handler
  /\ status_ = "Initial"
  /\ status_' = "Pending"
  /\ UNCHANGED handler

gl_getCancelStatus == status_ = "Pending"
=============================================================================
