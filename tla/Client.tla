------------------------------- MODULE Client -------------------------------
(***************************************************************************)
(* A client thread (src/src/Client/Client.cpp): Client::run issues packets *)
(* until it has sent msgCount of them or a break is pending.               *)
(*                                                                         *)
(* Client::mtx_ guards only what a single step touches (the generator, a   *)
(* line on std::cout), so taking and releasing it is inside that step.     *)
(* The random priority is any of Priority.  A packet's dwTicks and text    *)
(* are abstracted to n: it is the client's n-th packet.                    *)
(***************************************************************************)
EXTENDS ChannelImpl, Breaking

CONSTANTS
  MsgLimit,     \* bound on the number of packets per client
  SizeMax,      \* the largest size_t, which the count of packets wraps to
  Priority      \* what uid_(rnGen_) may draw

ASSUME ClientAssumption ==
  /\ MsgLimit \in Nat /\ SizeMax \in Nat /\ MsgLimit < SizeMax
  /\ Priority \subseteq 0..255 /\ Priority # {}
  /\ Msg = [dwClientId : Clients, n : 1..MsgLimit, cPriority : Priority]

VARIABLES
  cli,          \* where each client is in Client::run
  msgCount,     \* Client::run: packets still to issue, a size_t
  issued,       \* packets generated so far: the n of the latest one
  msg           \* doAction: the local "msg"

clientVars == <<cli, msgCount, issued, msg>>

ClientInit ==
  /\ cli = [c \in Clients |-> "unborn"]
  /\ msgCount = [c \in Clients |-> 0]
  /\ issued = [c \in Clients |-> 0]
  /\ msg = [c \in Clients |-> NoMsg]

(* The thread's entry: Client::run(spClient, spChannel, count).            *)
ClientStart(c, count) ==
  /\ cli[c] = "unborn"
  /\ cli' = [cli EXCEPT ![c] = "loop"]
  /\ msgCount' = [msgCount EXCEPT ![c] = count]
  /\ UNCHANGED <<issued, msg>>

(* msgCount--: unsigned, so that zero wraps.                               *)
Decremented(n) == IF n = 0 THEN SizeMax ELSE n - 1

(* Mutant: the break is not looked at.                                     *)
ClientContinue_Deaf(c) ==
  /\ cli[c] = "loop"
  /\ msgCount[c] # 0
  /\ cli' = [cli EXCEPT ![c] = "generate"]
  /\ msgCount' = [msgCount EXCEPT ![c] = Decremented(@)]
  /\ UNCHANGED <<issued, msg, channelVars>>

(* Mutant: the count is compared after the decrement has passed zero.      *)
ClientContinue_OneMore(c) ==
  /\ cli[c] = "loop"
  /\ ~ gl_getCancelStatus
  /\ msgCount[c] >= 0
  /\ cli' = [cli EXCEPT ![c] = "generate"]
  /\ msgCount' = [msgCount EXCEPT ![c] = Decremented(@)]
  /\ UNCHANGED <<issued, msg, channelVars>>

(* while (!gl_getCancelStatus() && (msgCount-- != 0)), entering the body.  *)
ClientContinue(c) ==
  /\ cli[c] = "loop"
  /\ ~ gl_getCancelStatus
  /\ msgCount[c] # 0
  /\ cli' = [cli EXCEPT ![c] = "generate"]
  /\ msgCount' = [msgCount EXCEPT ![c] = Decremented(@)]
  /\ UNCHANGED <<issued, msg, channelVars>>

(* The same condition, false: the thread ends.  The count is decremented   *)
(* only if there was no break, and then it is the zero that wraps.         *)
ClientFinish(c) ==
  /\ cli[c] = "loop"
  /\ \/ gl_getCancelStatus /\ UNCHANGED msgCount
     \/ /\ ~ gl_getCancelStatus
        /\ msgCount[c] = 0
        /\ msgCount' = [msgCount EXCEPT ![c] = Decremented(@)]
  /\ cli' = [cli EXCEPT ![c] = "gone"]
  /\ UNCHANGED <<issued, msg, channelVars>>

GenerateMsg(c) ==
  /\ cli[c] = "generate"
  /\ cli' = [cli EXCEPT ![c] = "push"]
  /\ issued' = [issued EXCEPT ![c] = @ + 1]
  /\ \E priority \in Priority :
       msg' = [msg EXCEPT ![c] = [dwClientId |-> c, n |-> issued'[c],
                                  cPriority |-> priority]]
  /\ UNCHANGED <<msgCount, channelVars>>

(* channel.pushMsg(std::move(msg)): the call, what goes on inside, the     *)
(* return to the loop (the packet is a plain struct: moving it copies it). *)
ClientPush(c) ==
  /\ cli[c] = "push"
  /\ PushLock(c, msg[c])
  /\ cli' = [cli EXCEPT ![c] = "pushing"]
  /\ UNCHANGED <<msgCount, issued, msg>>

ClientPushing(c) ==
  /\ PushEmplace(c) \/ PushNotify(c)
  /\ UNCHANGED clientVars

(* Mutant: a push that is over is made again.                              *)
ClientPushed_Retried(c) ==
  /\ PushUnlock(c)
  /\ cli' = [cli EXCEPT ![c] = "push"]
  /\ UNCHANGED <<msg, msgCount, issued>>

ClientPushed(c) ==
  /\ PushUnlock(c)
  /\ cli' = [cli EXCEPT ![c] = "loop"]
  /\ msg' = [msg EXCEPT ![c] = NoMsg]
  /\ UNCHANGED <<msgCount, issued>>

ClientStep(c) ==
  \/ ClientContinue(c)
  \/ ClientFinish(c)
  \/ GenerateMsg(c)
  \/ ClientPush(c)
  \/ ClientPushing(c)
  \/ ClientPushed(c)
=============================================================================
