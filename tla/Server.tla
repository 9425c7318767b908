------------------------------- MODULE Server -------------------------------
(***************************************************************************)
(* The server thread (src/src/Server/Server.cpp): Server::loop waits for   *)
(* packets and pops them, until a break or the shutdown flag ends it.  The *)
(* two flags are read one after the other, at the top of the loop only:    *)
(* packets still queued when one of them is set are not drained.           *)
(***************************************************************************)
EXTENDS ChannelImpl, Breaking

VARIABLES
  srv,                \* where the thread is in Server::loop
  bShutDownPending_,  \* set by the main thread (scheduleShutDown)
  msgCount_           \* packets received by onMsg

serverVars == <<srv, bShutDownPending_, msgCount_>>

ServerInit ==
  /\ srv = "unborn"
  /\ bShutDownPending_ = FALSE
  /\ msgCount_ = 0

(* The thread's entry: Server::run with a server and a channel.            *)
ServerStart ==
  /\ srv = "unborn"
  /\ srv' = "loop"
  /\ UNCHANGED <<bShutDownPending_, msgCount_>>

(* scheduleShutDown, after its sleep; called by the main thread.           *)
SetShutDownPending ==
  /\ bShutDownPending_' = TRUE
  /\ UNCHANGED <<srv, msgCount_>>

(* while (!gl_getCancelStatus())                                           *)
LoopCondition ==
  /\ srv = "loop"
  /\ srv' = IF gl_getCancelStatus THEN "gone" ELSE "poll"
  /\ UNCHANGED <<bShutDownPending_, msgCount_, channelVars>>

(* Mutant: the plain bool is read once and kept in a register.             *)
PollShutDown_Cached ==
  /\ srv = "poll"
  /\ srv' = "wait"
  /\ UNCHANGED <<bShutDownPending_, msgCount_, channelVars>>

(* if (bShutDownPending_) break;                                           *)
PollShutDown ==
  /\ srv = "poll"
  /\ srv' = IF bShutDownPending_ THEN "gone" ELSE "wait"
  /\ UNCHANGED <<bShutDownPending_, msgCount_, channelVars>>

(* if (spChannel->waitForMsg(20ms)): call, wait, and branch on the answer. *)
LoopWait ==
  /\ srv = "wait"
  /\ WaitCall
  /\ srv' = "waiting"
  /\ UNCHANGED <<bShutDownPending_, msgCount_>>

LoopWaiting ==
  /\ WaitPredicate \/ WaitBlock \/ WaitRelock
  /\ UNCHANGED serverVars

LoopSpurious ==
  /\ WaitSpurious
  /\ UNCHANGED serverVars

LoopTimeout ==
  /\ WaitTimeout
  /\ UNCHANGED serverVars

(* Mutant: popMsg whatever waitForMsg answered.                            *)
LoopWaited_AlwaysPop ==
  /\ WaitReturn
  /\ srv' = "pop"
  /\ UNCHANGED <<bShutDownPending_, msgCount_>>

LoopWaited ==
  /\ WaitReturn
  /\ srv' = IF result THEN "pop" ELSE "idle"
  /\ UNCHANGED <<bShutDownPending_, msgCount_>>

(* spChannel->popMsg(this): call, one onMsg per packet, return.            *)
LoopPop ==
  /\ srv = "pop"
  /\ PopLock
  /\ srv' = "popping"
  /\ UNCHANGED <<bShutDownPending_, msgCount_>>

OnMsg ==
  /\ PopTop
  /\ msgCount_' = msgCount_ + 1
  /\ UNCHANGED <<srv, bShutDownPending_>>

LoopPopping ==
  /\ PopRemove
  /\ UNCHANGED serverVars

LoopPopped ==
  /\ PopUnlock
  /\ srv' = "loop"
  /\ UNCHANGED <<bShutDownPending_, msgCount_>>

(* onIdle() yields the processor.                                          *)
OnIdle ==
  /\ srv = "idle"
  /\ srv' = "loop"
  /\ UNCHANGED <<bShutDownPending_, msgCount_, channelVars>>

(* The steps the thread is certain to make, and the one it may make.       *)
ServerProgress ==
  \/ LoopCondition
  \/ PollShutDown
  \/ LoopWait
  \/ LoopWaiting
  \/ LoopTimeout
  \/ LoopWaited
  \/ LoopPop
  \/ OnMsg
  \/ LoopPopping
  \/ LoopPopped
  \/ OnIdle

ServerStep == ServerProgress \/ LoopSpurious
=============================================================================
