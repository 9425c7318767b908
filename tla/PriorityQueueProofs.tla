------------------------- MODULE PriorityQueueProofs -------------------------
(***************************************************************************)
(* What holds of the program for any number of clients and packets.        *)
(* ProgramInv is inductive.  It contains ChannelInv: under it every step   *)
(* of the program is a step of the channel or leaves it alone, so the      *)
(* channel's own step lemma (StepInv) does that conjunct, and the others   *)
(* are shown action by action.                                             *)
(***************************************************************************)
EXTENDS PriorityQueue, ChannelImplProofs, FiniteSetTheorems, FunctionTheorems

(* The limits are numbers.                                                 *)
LEMMA Limits ==
  /\ MsgLimit \in Nat /\ MaxClients \in Nat /\ Clients = 1..MaxClients
  /\ SizeMax \in Nat /\ MsgLimit < SizeMax
  BY ClientAssumption, ProgramAssumption

(* The fields of a packet.                                                 *)
LEMMA Packet ==
  /\ \A m \in Msg : m.dwClientId \in Clients /\ m.n \in 1..MsgLimit
  /\ \A c \in Clients : \A k \in 1..MsgLimit : \A p \in Priority :
       [dwClientId |-> c, n |-> k, cPriority |-> p] \in Msg
  BY ClientAssumption

-----------------------------------------------------------------------------
(* The program keeps to the channel's protocol.                            *)

(* A client pushes a packet that nobody has pushed before: its number is   *)
(* the latest of its client's, and the other clients push only their own.  *)
LEMMA PushesFresh ==
  ASSUME ProgramInv, NEW c \in Clients, cli[c] = "push"
  PROVE  msg[c] \in Msg /\ Fresh(msg[c])
  <1> USE ChannelAssumption DEF ProgramInv, Serials, OnItsWay
  <1>1. msg[c] \in Msg /\ msg[c].dwClientId = c /\ msg[c].n = issued[c]
    OBVIOUS
  <1>2. msg[c] \notin queue_ \cup received
    BY <1>1 DEF Known
  <1>3. ASSUME NEW d \in Clients, arg[d] = msg[c]
        PROVE  FALSE
    <2>1. cli[d] = "pushing" /\ arg[d] = msg[d]
      BY <1>1, <1>3
    <2>2. msg[d].dwClientId = d
      BY <2>1
    <2> QED
      BY <1>1, <1>3, <2>1, <2>2
  <1> QED
    BY <1>1, <1>2, <1>3 DEF Fresh

(* Each step of a client, of the server or of main is one of the channel's *)
(* or none.                                                                *)
LEMMA ChannelStep == ProgramInv /\ [Next]_vars => [ChannelNext]_channelVars
  <1> SUFFICES ASSUME ProgramInv, [Next]_vars PROVE [ChannelNext]_channelVars
    OBVIOUS
  <1>1. CASE MainThread \/ Break \/ Terminated \/ UNCHANGED vars
    BY <1>1 DEF MainThread, Break, Terminated, vars
  <1>2. ASSUME NEW c \in Clients, ClientThread(c)
        PROVE  [ChannelNext]_channelVars
    <2>1. CASE ClientPush(c)
      BY <2>1, PushesFresh DEF ClientPush, ChannelNext
    <2>2. CASE ClientPushing(c) \/ ClientPushed(c)
      BY <2>2 DEF ClientPushing, ClientPushed, ChannelNext, PushInside
    <2>3. CASE ClientContinue(c) \/ ClientFinish(c) \/ GenerateMsg(c)
      BY <2>3 DEF ClientContinue, ClientFinish, GenerateMsg
    <2> QED
      BY <1>2, <2>1, <2>2, <2>3 DEF ClientThread, ClientStep
  <1>3. CASE ServerThread
    <2>1. CASE LoopWait \/ LoopWaiting \/ LoopSpurious \/ LoopTimeout \/ LoopWaited
      BY <2>1 DEF LoopWait, LoopWaiting, LoopSpurious, LoopTimeout, LoopWaited,
         ChannelNext, WaitInside
    <2>2. CASE LoopPop \/ OnMsg \/ LoopPopping \/ LoopPopped
      BY <2>2 DEF LoopPop, OnMsg, LoopPopping, LoopPopped, ChannelNext, PopInside
    <2>3. CASE LoopCondition \/ PollShutDown \/ OnIdle
      BY <2>3 DEF LoopCondition, PollShutDown, OnIdle
    <2> QED
      BY <1>3, <2>1, <2>2, <2>3 DEF ServerThread, ServerStep, ServerProgress
  <1> QED
    BY <1>1, <1>2, <1>3 DEF Next

(* The channel's invariant, in the program.                                *)
LEMMA ChannelInvStep == ProgramInv /\ [Next]_vars => ChannelInv'
  BY ChannelStep, StepInv DEF ProgramInv

-----------------------------------------------------------------------------
(* Steps of a client.                                                      *)

(* A client that moves is neither unborn nor gone: main has not joined it, *)
(* no report was made, and none of main's variables changes.               *)
LEMMA ClientFrame ==
  ASSUME ProgramInv, NEW c \in Clients, cli[c] \notin {"unborn", "gone"},
         NEW to \in {"loop", "generate", "push", "pushing", "gone"},
         cli' = [cli EXCEPT ![c] = to],
         UNCHANGED <<breakingVars, serverVars, mainVars, polled>>
  PROVE  /\ Started' /\ LastTurn' /\ Reported' /\ NoUseAfterRelease'
         /\ ~ AllJoined
  <1> USE ProgramAssumption
      DEF ProgramInv, ProgramTypeOK, breakingVars, serverVars, mainVars, arguments,
          objects, outcome
  <1>1. /\ cli'[c] = to
        /\ \A d \in Clients : d # c => cli'[d] = cli[d]
    OBVIOUS
  <1>2. ~ AllJoined
    BY DEF AllJoined
  <1>3. ~ polled /\ report # "Done" /\ ~ bShutDownPending_
    BY <1>2 DEF LastTurn, Reported, Started
  <1>4. Started'
    BY <1>1, <1>2, <1>3 DEF Started
  <1>5. LastTurn' /\ Reported'
    BY <1>3 DEF LastTurn, Reported
  <1>6. NoUseAfterRelease'
    BY <1>1 DEF NoUseAfterRelease
  <1> QED
    BY <1>2, <1>4, <1>5, <1>6

(* The types that a step of a client can disturb.                          *)
LEMMA ClientTypes ==
  ASSUME ProgramInv, ChannelInv', NEW c \in Clients,
         NEW to \in {"loop", "generate", "push", "pushing", "gone"},
         cli' = [cli EXCEPT ![c] = to],
         msgCount' \in [Clients -> 0..SizeMax],
         issued' \in [Clients -> 0..MsgLimit],
         msg' \in [Clients -> Msg \cup {NoMsg}],
         late' \in [Threads -> Nat],
         UNCHANGED <<breakingVars, serverVars, mainVars, polled>>
  PROVE  ProgramTypeOK'
  <1>1. cli' \in [Clients -> {"unborn", "loop", "generate", "push", "pushing", "gone"}]
    BY DEF ProgramInv, ProgramTypeOK
  <1> QED
    BY <1>1 DEF ProgramInv, ProgramTypeOK, ChannelInv, breakingVars, serverVars, mainVars,
       arguments, objects, outcome

(* The loop goes on: one packet less to issue, one on its way.             *)
LEMMA ClientContinueInv ==
  ASSUME ProgramInv, ChannelInv', NEW c \in Clients, ClientThread(c),
         ClientContinue(c)
  PROVE  ProgramInv'
  <1> USE ChannelAssumption, ProgramAssumption
      DEF ProgramInv, ClientContinue, ClientThread, channelVars, breakingVars,
          serverVars, mainVars, arguments, objects, outcome, Threads
  <1>1. Started' /\ LastTurn' /\ Reported' /\ NoUseAfterRelease'
    BY ClientFrame
  <1>2. late' = late
    OBVIOUS
  <1>3. /\ msgCount[c] \in 1..SizeMax /\ msgCount'[c] = msgCount[c] - 1
        /\ cli[c] = "loop" /\ cli'[c] = "generate"
        /\ \A d \in Clients : d # c => cli'[d] = cli[d] /\ msgCount'[d] = msgCount[d]
    BY Limits DEF ProgramTypeOK, Decremented
  <1>4. ProgramTypeOK'
    <2>1. msgCount[c] - 1 \in 0..SizeMax
      BY <1>3, Limits
    <2>2. msgCount' \in [Clients -> 0..SizeMax]
      <3>1. msgCount' = [msgCount EXCEPT ![c] = msgCount[c] - 1]
        BY <1>3 DEF Decremented
      <3>2. msgCount \in [Clients -> 0..SizeMax]
        BY DEF ProgramTypeOK
      <3> QED
        BY <2>1, <3>1, <3>2
    <2>3. /\ issued' \in [Clients -> 0..MsgLimit]
          /\ msg' \in [Clients -> Msg \cup {NoMsg}]
          /\ late' \in [Threads -> Nat]
      BY <1>2 DEF ProgramTypeOK
    <2>4. cli' = [cli EXCEPT ![c] = "generate"]
      OBVIOUS
    <2> QED
      BY <2>2, <2>3, <2>4, ClientTypes
  <1>5. Placed'
    BY DEF Placed, ProgramTypeOK
  <1>6. Counted'
    <2>1. /\ issued[c] \in Nat /\ msgCount[c] \in Nat
          /\ issued[c] + msgCount[c] = c_msgs
      BY <1>3, Limits DEF Counted, ProgramTypeOK
    <2>2. issued[c] + (msgCount[c] - 1) + 1 = c_msgs
      BY <2>1
    <2>3. issued' = issued /\ c_msgs' = c_msgs
      OBVIOUS
    <2> QED
      BY <1>3, <2>2, <2>3 DEF Counted
  <1>7. Serials'
    <2>1. /\ UNCHANGED <<Known, arg, msg, issued>>
          /\ \A d \in Clients : OnItsWay(d)' <=> OnItsWay(d)
      BY <1>3 DEF Known, OnItsWay
    <2>2. \A m \in Known : m.dwClientId \in Clients
      BY Packet DEF Known, ChannelInv, TypeOK
    <2> QED
      BY <1>3, <2>1, <2>2 DEF Serials
  <1>8. CountsReceived' /\ NeverPopsInVain' /\ (srv = "pop" => result)'
    BY DEF CountsReceived, NeverPopsInVain
  <1>9. Broken' /\ BreakStopsSoon'
    BY <1>2 DEF Broken, BreakStopsSoon, OnItsWay, gl_getCancelStatus, ProgramTypeOK
  <1> QED
    BY <1>1, <1>4, <1>5, <1>6, <1>7, <1>8, <1>9

(* The loop ends: without a break, no packet is left to issue.             *)
LEMMA ClientFinishInv ==
  ASSUME ProgramInv, ChannelInv', NEW c \in Clients, ClientThread(c),
         ClientFinish(c)
  PROVE  ProgramInv'
  <1> USE ChannelAssumption, ProgramAssumption
      DEF ProgramInv, ClientFinish, ClientThread, channelVars, breakingVars,
          serverVars, mainVars, arguments, objects, outcome, Threads
  <1>1. Started' /\ LastTurn' /\ Reported' /\ NoUseAfterRelease'
    BY ClientFrame
  <1>2. /\ late' = late
        /\ msgCount' \in [Clients -> 0..SizeMax]
        /\ \A d \in Clients : d # c => msgCount'[d] = msgCount[d]
        /\ ~ gl_getCancelStatus => msgCount[c] = 0 /\ msgCount'[c] = SizeMax
        /\ gl_getCancelStatus => msgCount' = msgCount
    <2>1. msgCount \in [Clients -> 0..SizeMax] /\ late' = late
      BY DEF ProgramTypeOK
    <2>2. CASE gl_getCancelStatus /\ msgCount' = msgCount
      BY <2>1, <2>2
    <2>3. CASE /\ ~ gl_getCancelStatus /\ msgCount[c] = 0
               /\ msgCount' = [msgCount EXCEPT ![c] = SizeMax]
      BY <2>1, <2>3, Limits
    <2> QED
      BY <2>2, <2>3 DEF Decremented
  <1>3. ProgramTypeOK'
    <2>1. /\ msgCount' \in [Clients -> 0..SizeMax]
          /\ issued' \in [Clients -> 0..MsgLimit]
          /\ msg' \in [Clients -> Msg \cup {NoMsg}]
          /\ late' \in [Threads -> Nat]
      BY <1>2 DEF ProgramTypeOK
    <2>2. cli' = [cli EXCEPT ![c] = "gone"]
      OBVIOUS
    <2> QED
      BY <2>1, <2>2, ClientTypes
  <1>4. Placed'
    BY DEF Placed, ProgramTypeOK
  <1>5. cli[c] = "loop" /\ cli'[c] = "gone" /\ \A d \in Clients : d # c => cli'[d] = cli[d]
    BY DEF ProgramTypeOK
  <1>6. gl_getCancelStatus \/ issued[c] = c_msgs
    <2>1. issued[c] + msgCount[c] = c_msgs /\ issued[c] \in Nat
      BY <1>5, Limits DEF Counted, ProgramTypeOK
    <2> QED
      BY <1>2, <2>1
  <1>7. Counted'
    <2>1. issued' = issued /\ c_msgs' = c_msgs
      OBVIOUS
    <2>2. \/ issued[c] + msgCount'[c] = c_msgs
          \/ issued[c] = c_msgs /\ msgCount'[c] = SizeMax
      BY <1>2, <1>5, <1>6 DEF Counted
    <2> QED
      BY <1>2, <1>5, <2>1, <2>2 DEF Counted
  <1>8. Serials'
    <2>1. /\ UNCHANGED <<Known, arg, msg, issued>>
          /\ \A d \in Clients : OnItsWay(d)' <=> OnItsWay(d)
      BY <1>5 DEF Known, OnItsWay
    <2>2. \A m \in Known : m.dwClientId \in Clients
      BY Packet DEF Known, ChannelInv, TypeOK
    <2> QED
      BY <1>5, <2>1, <2>2 DEF Serials
  <1>9. CountsReceived' /\ NeverPopsInVain' /\ (srv = "pop" => result)'
    BY DEF CountsReceived, NeverPopsInVain
  <1>10. Broken' /\ BreakStopsSoon'
    BY <1>2, <1>5, <1>6 DEF Broken, BreakStopsSoon, OnItsWay, gl_getCancelStatus
  <1> QED
    BY <1>1, <1>3, <1>4, <1>7, <1>8, <1>9, <1>10

(* A packet with the next number; its predecessor was queued before.       *)
LEMMA GenerateMsgInv ==
  ASSUME ProgramInv, ChannelInv', NEW c \in Clients, ClientThread(c),
         GenerateMsg(c)
  PROVE  ProgramInv'
  <1> USE ChannelAssumption, ProgramAssumption
      DEF ProgramInv, GenerateMsg, ClientThread, channelVars, breakingVars,
          serverVars, mainVars, arguments, objects, outcome, Threads
  <1>1. Started' /\ LastTurn' /\ Reported' /\ NoUseAfterRelease'
    BY ClientFrame
  <1>2. late' = late
    OBVIOUS
  <1>3. /\ issued[c] + 1 \in 1..MsgLimit
        /\ issued' = [issued EXCEPT ![c] = @ + 1]
        /\ issued'[c] = issued[c] + 1
        /\ \A d \in Clients : d # c => issued'[d] = issued[d]
    <2>1. /\ cli[c] = "generate"
          /\ issued' = [issued EXCEPT ![c] = @ + 1]
      OBVIOUS
    <2>2. /\ issued \in [Clients -> 0..MsgLimit]
          /\ msgCount[c] \in 0..SizeMax /\ c_msgs \in 0..MsgLimit
      BY DEF ProgramTypeOK
    <2>3. issued[c] + msgCount[c] + 1 = c_msgs
      BY <2>1 DEF Counted
    <2>4. issued[c] + 1 \in 1..MsgLimit
      BY <2>2, <2>3, Limits
    <2>5. issued'[c] = issued[c] + 1 /\ \A d \in Clients : d # c => issued'[d] = issued[d]
      BY <2>1, <2>2, Zenon
    <2> QED
      BY <2>1, <2>4, <2>5
  <1>4. PICK p \in Priority :
          msg' = [msg EXCEPT ![c] = [dwClientId |-> c, n |-> issued[c] + 1,
                                     cPriority |-> p]]
    BY <1>3
  <1>5. /\ msg' \in [Clients -> Msg \cup {NoMsg}]
        /\ msg'[c] \in Msg /\ msg'[c].dwClientId = c /\ msg'[c].n = issued'[c]
        /\ \A d \in Clients : d # c => msg'[d] = msg[d]
    <2> DEFINE m == [dwClientId |-> c, n |-> issued[c] + 1, cPriority |-> p]
    <2>1. m \in Msg /\ m.dwClientId = c /\ m.n = issued'[c]
      BY <1>3, Packet
    <2>2. msg \in [Clients -> Msg \cup {NoMsg}] /\ msg' = [msg EXCEPT ![c] = m]
      BY <1>4 DEF ProgramTypeOK
    <2> HIDE DEF m
    <2> QED
      BY <2>1, <2>2
  <1>6. /\ cli'[c] = "push" /\ cli[c] = "generate"
        /\ \A d \in Clients : d # c => cli'[d] = cli[d]
    BY DEF ProgramTypeOK
  <1>7. ProgramTypeOK'
    <2>1. issued' \in [Clients -> 0..MsgLimit]
      BY <1>3, Limits DEF ProgramTypeOK
    <2>2. msgCount' \in [Clients -> 0..SizeMax] /\ late' \in [Threads -> Nat]
      BY <1>2 DEF ProgramTypeOK
    <2>3. cli' = [cli EXCEPT ![c] = "push"]
      OBVIOUS
    <2> QED
      BY <1>5, <2>1, <2>2, <2>3, ClientTypes
  <1>8. Placed'
    BY <1>6 DEF Placed
  <1>9. Counted'
    BY <1>3, <1>6 DEF Counted, ProgramTypeOK
  <1>10. Serials'
    <2> USE DEF Serials, Known
    <2>1. pc[c] = "out"
      BY <1>6 DEF Placed
    <2>2. \A d \in Clients : cli'[d] \in {"push", "pushing"} =>
            msg'[d] \in Msg /\ msg'[d].dwClientId = d /\ msg'[d].n = issued'[d]
      BY <1>3, <1>5, <1>6
    <2>3. \A d \in Clients : arg'[d] = IF cli'[d] = "pushing" THEN msg'[d] ELSE NoMsg
      BY <1>5, <1>6
    <2>4. \A m \in Known : m \in Msg /\ m.dwClientId \in Clients /\ m.n \in 1..MsgLimit
      BY Packet DEF ChannelInv, TypeOK
    <2>5. \A m \in Known' :
            /\ m.n =< issued'[m.dwClientId]
            /\ OnItsWay(m.dwClientId)' => m.n # issued'[m.dwClientId]
      <3>1. SUFFICES ASSUME NEW m \in Known
                     PROVE  /\ m.n =< issued'[m.dwClientId]
                            /\ OnItsWay(m.dwClientId)' => m.n # issued'[m.dwClientId]
        OBVIOUS
      <3>2. /\ m.dwClientId \in Clients /\ m.n \in Int
            /\ m.n =< issued[m.dwClientId]
            /\ OnItsWay(m.dwClientId) => m.n # issued[m.dwClientId]
        BY <2>4
      <3>3. CASE m.dwClientId = c
        BY <1>3, <3>2, <3>3, Limits DEF ProgramTypeOK
      <3>4. CASE m.dwClientId # c
        <4>1. OnItsWay(m.dwClientId)' <=> OnItsWay(m.dwClientId)
          BY <1>6, <3>2, <3>4 DEF OnItsWay
        <4> QED BY <1>3, <3>2, <3>4, <4>1
      <3> QED BY <3>3, <3>4
    <2>6. \A d \in Clients : \A k \in 1..issued'[d] :
            \/ k = issued'[d] /\ OnItsWay(d)'
            \/ \E m \in Known' : m.dwClientId = d /\ m.n = k
      <3>1. ASSUME NEW k \in 1..issued'[c], k # issued'[c]
            PROVE  k \in 1..issued[c]
        BY <1>3, <3>1, Limits DEF ProgramTypeOK
      <3>2. ~ OnItsWay(c) /\ OnItsWay(c)'
        BY <1>6, <2>1 DEF OnItsWay
      <3>3. \A d \in Clients : d # c => (OnItsWay(d)' <=> OnItsWay(d))
        BY <1>6 DEF OnItsWay
      <3> QED
        BY <1>3, <3>1, <3>2, <3>3
    <2> QED
      BY <2>2, <2>3, <2>5, <2>6
  <1>11. CountsReceived' /\ NeverPopsInVain' /\ (srv = "pop" => result)'
    BY DEF CountsReceived, NeverPopsInVain
  <1>12. Broken' /\ BreakStopsSoon'
    BY <1>2, <1>6 DEF Broken, BreakStopsSoon, OnItsWay, gl_getCancelStatus
  <1> QED
    BY <1>1, <1>7, <1>8, <1>9, <1>10, <1>11, <1>12

(* The packet is passed to pushMsg.                                        *)
LEMMA ClientPushInv ==
  ASSUME ProgramInv, ChannelInv', NEW c \in Clients, ClientThread(c),
         ClientPush(c)
  PROVE  ProgramInv'
  <1> USE ChannelAssumption, ProgramAssumption
      DEF ProgramInv, ClientPush, PushLock, ClientThread, breakingVars,
          serverVars, mainVars, arguments, objects, outcome, Threads
  <1>1. Started' /\ LastTurn' /\ Reported' /\ NoUseAfterRelease'
    BY ClientFrame
  <1>2. /\ late' = late
        /\ cli[c] = "push" /\ cli'[c] = "pushing"
        /\ pc[c] = "out" /\ pc'[c] = "push_emplace"
        /\ arg'[c] = msg[c]
        /\ \A d \in Clients : d # c =>
             cli'[d] = cli[d] /\ pc'[d] = pc[d] /\ arg'[d] = arg[d]
        /\ pc'[Server] = pc[Server]
    BY DEF ProgramTypeOK, TypeOK
  <1>3. ProgramTypeOK'
    <2>1. /\ msgCount' \in [Clients -> 0..SizeMax]
          /\ issued' \in [Clients -> 0..MsgLimit]
          /\ msg' \in [Clients -> Msg \cup {NoMsg}]
          /\ late' \in [Threads -> Nat]
      BY <1>2 DEF ProgramTypeOK
    <2>2. cli' = [cli EXCEPT ![c] = "pushing"]
      OBVIOUS
    <2> QED
      BY <2>1, <2>2, ClientTypes
  <1>4. Placed'
    BY <1>2 DEF Placed
  <1>5. Counted'
    BY <1>2 DEF Counted
  <1>6. Serials'
    BY <1>2 DEF Serials, Known, OnItsWay
  <1>7. CountsReceived' /\ NeverPopsInVain' /\ (srv = "pop" => result)'
    BY DEF CountsReceived, NeverPopsInVain
  <1>8. Broken' /\ BreakStopsSoon'
    BY <1>2 DEF Broken, BreakStopsSoon, OnItsWay, gl_getCancelStatus
  <1> QED
    BY <1>1, <1>3, <1>4, <1>5, <1>6, <1>7, <1>8

(* Inside pushMsg: the packet is queued and its number is no longer        *)
(* missing; then the server is told, which may wake it.                    *)
LEMMA ClientPushingInv ==
  ASSUME ProgramInv, ChannelInv', NEW c \in Clients, ClientThread(c),
         ClientPushing(c)
  PROVE  ProgramInv'
  <1> USE ChannelAssumption, ProgramAssumption
      DEF ProgramInv, ClientPushing, ClientThread, clientVars, breakingVars,
          serverVars, mainVars, arguments, objects, outcome, Threads
  <1>1. pc[c] \in {"push_emplace", "push_notify"} /\ cli[c] = "pushing"
    BY DEF PushEmplace, PushNotify, Placed
  <1>2. cli' = [cli EXCEPT ![c] = "pushing"] /\ UNCHANGED <<msgCount, issued, msg>>
    BY <1>1 DEF ProgramTypeOK
  <1>3. Started' /\ LastTurn' /\ Reported' /\ NoUseAfterRelease'
    BY <1>1, <1>2, ClientFrame
  <1>4. CountsReceived' /\ NeverPopsInVain' /\ (srv = "pop" => result)'
    BY DEF CountsReceived, NeverPopsInVain, PushEmplace, PushNotify
  <1>5. CASE PushEmplace(c)
    <2>1. /\ pc[c] = "push_emplace" /\ pc'[c] = "push_notify"
          /\ \A t \in Threads : t # c => pc'[t] = pc[t]
          /\ arg[c] = msg[c] /\ msg[c] \in Msg
          /\ msg[c].dwClientId = c /\ msg[c].n = issued[c]
          /\ Known' = Known \cup {msg[c]}
      BY <1>1, <1>5 DEF PushEmplace, Known, Serials, ProgramTypeOK, TypeOK
    <2>2. /\ late' \in [Threads -> Nat]
          /\ \A t \in Threads : t # c => late'[t] = late[t]
          /\ late'[c] =< 1
          /\ ~ gl_getCancelStatus => late' = late
      BY <2>1 DEF Broken, OnItsWay, ProgramTypeOK
    <2>3. ProgramTypeOK'
      <3>1. /\ msgCount' \in [Clients -> 0..SizeMax]
            /\ issued' \in [Clients -> 0..MsgLimit]
            /\ msg' \in [Clients -> Msg \cup {NoMsg}]
        BY <1>2 DEF ProgramTypeOK
      <3> QED
        BY <1>2, <2>2, <3>1, ClientTypes
    <2>4. Placed'
      <3>1. pc'[Server] = pc[Server] /\ \A d \in Clients : d # c => pc'[d] = pc[d]
        BY <2>1
      <3>2. cli' = cli /\ srv' = srv
        OBVIOUS
      <3> QED
        BY <1>1, <2>1, <3>1, <3>2 DEF Placed
    <2>5. Counted'
      BY <1>5 DEF Counted
    <2>6. Serials'
      <3>1. ~ OnItsWay(c)' /\ \A d \in Clients : d # c => (OnItsWay(d)' <=> OnItsWay(d))
        BY <1>1, <2>1 DEF OnItsWay
      <3>2. \A m \in Known : m.dwClientId = c => m.n # issued[c]
        BY <2>1 DEF Serials, OnItsWay
      <3>3. issued[c] \in Nat /\ arg' = arg
        BY <1>5, Limits DEF ProgramTypeOK, PushEmplace
      <3>4. \A m \in Known : m.dwClientId \in Clients
        BY Packet DEF Known, ChannelInv, TypeOK
      <3>5. issued' = issued /\ cli' = cli /\ msg' = msg
        OBVIOUS
      <3>6. \A m \in Known' :
              /\ m.n =< issued'[m.dwClientId]
              /\ OnItsWay(m.dwClientId)' => m.n # issued'[m.dwClientId]
        BY <2>1, <3>1, <3>3, <3>4, <3>5 DEF Serials
      <3>7. \A m, n \in Known' : m.dwClientId = n.dwClientId /\ m.n = n.n => m = n
        BY <2>1, <3>2 DEF Serials
      <3>8. \A d \in Clients : \A k \in 1..issued'[d] :
              \/ k = issued'[d] /\ OnItsWay(d)'
              \/ \E m \in Known' : m.dwClientId = d /\ m.n = k
        BY <2>1, <3>1, <3>5 DEF Serials
      <3> QED
        BY <3>3, <3>5, <3>6, <3>7, <3>8 DEF Serials
    <2>7. Broken' /\ BreakStopsSoon'
      BY <1>1, <2>1, <2>2 DEF Broken, BreakStopsSoon, OnItsWay, gl_getCancelStatus
    <2> QED
      BY <1>3, <1>4, <2>3, <2>4, <2>5, <2>6, <2>7
  <1>6. CASE PushNotify(c)
    <2>1. /\ pc[c] = "push_notify" /\ pc'[c] = "push_unlock"
          /\ \A d \in Clients : d # c => pc'[d] = pc[d]
          /\ pc'[Server] = IF pc[Server] = "wait_blocked" THEN "wait_notified"
                           ELSE pc[Server]
          /\ late' = late
          /\ UNCHANGED <<queue_, received, arg>>
      BY <1>6 DEF PushNotify, ProgramTypeOK, TypeOK
    <2>2. ProgramTypeOK'
      <3>1. /\ msgCount' \in [Clients -> 0..SizeMax]
            /\ issued' \in [Clients -> 0..MsgLimit]
            /\ msg' \in [Clients -> Msg \cup {NoMsg}]
            /\ late' \in [Threads -> Nat]
        BY <1>2, <2>1 DEF ProgramTypeOK
      <3> QED
        BY <1>2, <3>1, ClientTypes
    <2>3. Placed'
      BY <1>1, <2>1 DEF Placed, WaitPc, PopPc
    <2>4. Counted'
      BY DEF Counted
    <2>5. Serials'
      <3>1. \A d \in Clients : OnItsWay(d)' <=> OnItsWay(d)
        BY <1>1, <2>1 DEF OnItsWay
      <3>2. Known' = Known /\ \A m \in Known : m.dwClientId \in Clients
        BY <2>1, Packet DEF Known, ChannelInv, TypeOK
      <3> QED
        BY <2>1, <3>1, <3>2 DEF Serials
    <2>6. Broken' /\ BreakStopsSoon'
      BY <2>1 DEF Broken, BreakStopsSoon, OnItsWay, gl_getCancelStatus
    <2> QED
      BY <1>3, <1>4, <2>2, <2>3, <2>4, <2>5, <2>6
  <1> QED
    BY <1>5, <1>6

(* pushMsg returns, with nothing on its way.                               *)
LEMMA ClientPushedInv ==
  ASSUME ProgramInv, ChannelInv', NEW c \in Clients, ClientThread(c),
         ClientPushed(c)
  PROVE  ProgramInv'
  <1> USE ChannelAssumption, ProgramAssumption
      DEF ProgramInv, ClientPushed, PushUnlock, ClientThread, breakingVars,
          serverVars, mainVars, arguments, objects, outcome, Threads
  <1>1. /\ late' = late
        /\ cli[c] = "pushing" /\ cli'[c] = "loop"
        /\ pc[c] = "push_unlock" /\ pc'[c] = "out"
        /\ arg'[c] = NoMsg
        /\ \A d \in Clients : d # c =>
             /\ cli'[d] = cli[d] /\ pc'[d] = pc[d]
             /\ arg'[d] = arg[d] /\ msg'[d] = msg[d]
        /\ pc'[Server] = pc[Server]
    BY DEF Placed, ProgramTypeOK, TypeOK
  <1>2. Started' /\ LastTurn' /\ Reported' /\ NoUseAfterRelease'
    BY <1>1, ClientFrame
  <1>3. ProgramTypeOK'
    <2>1. /\ msgCount' \in [Clients -> 0..SizeMax]
          /\ issued' \in [Clients -> 0..MsgLimit]
          /\ msg' \in [Clients -> Msg \cup {NoMsg}]
          /\ late' \in [Threads -> Nat]
      BY <1>1 DEF ProgramTypeOK
    <2>2. cli' = [cli EXCEPT ![c] = "loop"]
      OBVIOUS
    <2> QED
      BY <2>1, <2>2, ClientTypes
  <1>4. Placed'
    BY <1>1 DEF Placed
  <1>5. Counted'
    BY <1>1 DEF Counted
  <1>6. Serials'
    BY <1>1 DEF Serials, Known, OnItsWay
  <1>7. CountsReceived' /\ NeverPopsInVain' /\ (srv = "pop" => result)'
    BY DEF CountsReceived, NeverPopsInVain
  <1>8. Broken' /\ BreakStopsSoon'
    BY <1>1 DEF Broken, BreakStopsSoon, OnItsWay, gl_getCancelStatus
  <1> QED
    BY <1>2, <1>3, <1>4, <1>5, <1>6, <1>7, <1>8

-----------------------------------------------------------------------------
(* Steps of the server.                                                    *)

(* While the server runs, main has not joined it and made no report; a     *)
(* packet it hands over or removes stays known, and the clients are not    *)
(* concerned.                                                              *)
LEMMA ServerFrame ==
  ASSUME ProgramInv, ServerThread
  PROVE  /\ Started' /\ Counted' /\ Reported' /\ NoUseAfterRelease'
         /\ Known' = Known => Serials'
         /\ AllJoined' <=> AllJoined
         /\ srv \notin {"unborn", "gone"}
         /\ \A c \in Clients : pc'[c] = pc[c]
  <1> USE ChannelAssumption, ProgramAssumption
      DEF ProgramInv, ServerThread, ServerRecord, breakingVars, clientVars, mainVars,
          arguments, objects, outcome
  <1>1. /\ srv \notin {"unborn", "gone"} /\ srv' # "unborn"
        /\ bShutDownPending_' = bShutDownPending_
        /\ arg' = arg
        /\ \A c \in Clients : pc'[c] = pc[c]
    BY DEF ServerStep, ServerProgress, LoopCondition, PollShutDown, LoopWait,
       LoopWaiting, LoopSpurious, LoopTimeout, LoopWaited, LoopPop, OnMsg, LoopPopping,
       LoopPopped, OnIdle, WaitCall, WaitPredicate, WaitBlock, WaitTimeout,
       WaitSpurious, WaitRelock, WaitReturn, PopLock, PopTop, PopRemove, PopUnlock,
       channelVars, serverVars, ChannelInv, TypeOK, Threads, Placed, WaitPc, PopPc
  <1>2. AllJoined' <=> AllJoined
    BY DEF AllJoined
  <1>3. Started'
    BY <1>1, <1>2 DEF Started
  <1>4. Counted' /\ Reported' /\ NoUseAfterRelease'
    BY <1>1 DEF Counted, Reported, NoUseAfterRelease
  <1>5. ASSUME Known' = Known
        PROVE  Serials'
    <2>1. \A c \in Clients : OnItsWay(c)' <=> OnItsWay(c)
      BY <1>1 DEF OnItsWay
    <2>2. \A m \in Known : m.dwClientId \in Clients
      BY Packet DEF Known, ChannelInv, TypeOK
    <2> QED
      BY <1>1, <1>5, <2>1, <2>2 DEF Serials
  <1> QED
    BY <1>1, <1>2, <1>3, <1>4, <1>5

(* The two polls and the idle turn, outside the channel.                   *)
LEMMA ServerOutsideInv ==
  ASSUME ProgramInv, ChannelInv', ServerThread,
         LoopCondition \/ PollShutDown \/ OnIdle
  PROVE  ProgramInv'
  <1> USE ChannelAssumption
      DEF ProgramInv, LoopCondition, PollShutDown, OnIdle, ServerThread, ServerRecord,
          channelVars, breakingVars, clientVars, mainVars, arguments, objects, outcome
  <1>1. Started' /\ Counted' /\ Reported' /\ NoUseAfterRelease' /\ Serials'
    BY ServerFrame DEF Known
  <1>2. late' = late /\ srv \in {"loop", "poll", "idle"}
    OBVIOUS
  <1>3. ProgramTypeOK'
    BY <1>2 DEF ProgramTypeOK, ChannelInv
  <1>4. Placed'
    BY <1>2 DEF Placed
  <1>5. CountsReceived' /\ NeverPopsInVain' /\ (srv = "pop" => result)'
    BY DEF CountsReceived, NeverPopsInVain
  <1>6. Broken' /\ BreakStopsSoon'
    BY <1>2 DEF Broken, BreakStopsSoon, OnItsWay, gl_getCancelStatus, Threads
  <1>7. LastTurn'
    BY <1>2, ServerFrame DEF LastTurn, Started, gl_getCancelStatus
  <1> QED
    BY <1>1, <1>3, <1>4, <1>5, <1>6, <1>7

(* waitForMsg is called.                                                   *)
LEMMA LoopWaitInv ==
  ASSUME ProgramInv, ChannelInv', ServerThread, LoopWait
  PROVE  ProgramInv'
  <1> USE ChannelAssumption
      DEF ProgramInv, LoopWait, WaitCall, ServerThread, ServerRecord,
          breakingVars, clientVars, mainVars, arguments, objects, outcome
  <1>1. Started' /\ Counted' /\ Reported' /\ NoUseAfterRelease' /\ Serials'
    BY ServerFrame DEF Known
  <1>2. /\ late' = late /\ polled' = polled
        /\ pc'[Server] = "wait_pred"
        /\ \A c \in Clients : pc'[c] = pc[c]
    BY ServerFrame DEF ChannelInv, TypeOK, Threads, ProgramTypeOK
  <1>3. ProgramTypeOK'
    BY <1>2 DEF ProgramTypeOK, ChannelInv
  <1>4. Placed'
    BY <1>2 DEF Placed, WaitPc, PopPc
  <1>5. CountsReceived' /\ NeverPopsInVain' /\ (srv = "pop" => result)'
    BY DEF CountsReceived, NeverPopsInVain
  <1>6. Broken' /\ BreakStopsSoon'
    BY <1>2 DEF Broken, BreakStopsSoon, OnItsWay, gl_getCancelStatus, Threads
  <1>7. LastTurn'
    BY <1>2, ServerFrame DEF LastTurn, gl_getCancelStatus
  <1> QED
    BY <1>1, <1>3, <1>4, <1>5, <1>6, <1>7

(* Inside waitForMsg: once the clients are joined no push can race with    *)
(* the predicate, so an answer FALSE means an empty queue.                 *)
LEMMA LoopWaitingInv ==
  ASSUME ProgramInv, ChannelInv', ServerThread,
         LoopWaiting \/ LoopSpurious \/ LoopTimeout
  PROVE  ProgramInv'
  <1> USE ChannelAssumption
      DEF ProgramInv, LoopWaiting, LoopSpurious, LoopTimeout, WaitBlock, WaitTimeout,
          WaitSpurious, WaitRelock, ServerThread, ServerRecord, serverVars,
          breakingVars, clientVars, mainVars, arguments, objects, outcome
  <1>1. Started' /\ Counted' /\ Reported' /\ NoUseAfterRelease' /\ Serials'
    BY ServerFrame DEF Known, WaitPredicate
  <1>2. /\ pc[Server] \in WaitPc /\ pc'[Server] \in WaitPc
        /\ srv = "waiting" /\ srv' = "waiting"
    BY DEF WaitPredicate, WaitPc, PopPc, Placed, ChannelInv, TypeOK, Threads
  <1>3. late' = late /\ polled' = polled
    BY <1>2 DEF ProgramTypeOK
  <1>4. ProgramTypeOK'
    BY <1>2, <1>3 DEF ProgramTypeOK, ChannelInv
  <1>5. Placed'
    BY <1>2, ServerFrame DEF Placed, WaitPc, PopPc
  <1>6. CountsReceived' /\ NeverPopsInVain' /\ (srv = "pop" => result)'
    BY <1>2 DEF CountsReceived, NeverPopsInVain, WaitPredicate
  <1>7. Broken' /\ BreakStopsSoon'
    BY <1>2, <1>3, ServerFrame
       DEF Broken, BreakStopsSoon, OnItsWay, gl_getCancelStatus, Threads
  <1>8. LastTurn'
    <2>1. CASE WaitPredicate
      <3>1. ASSUME AllJoined
            PROVE  result' \/ queue_' = {}
        <4>1. \A c \in Clients : pc[c] # "push_emplace"
          BY <3>1 DEF AllJoined, Placed
        <4>2. PredicateValues = {queue_ # {}}
          BY <4>1 DEF PredicateValues
        <4>3. result' = (queue_ # {}) /\ queue_' = queue_
          BY <2>1, <4>2 DEF WaitPredicate
        <4> QED
          BY <4>3, Zenon
      <3> QED
        BY <1>2, <1>3, <3>1, ServerFrame DEF LastTurn, gl_getCancelStatus
    <2>2. CASE WaitBlock \/ WaitTimeout \/ WaitSpurious \/ WaitRelock
      BY <1>2, <1>3, <2>2, ServerFrame DEF LastTurn, gl_getCancelStatus
    <2> QED
      BY <2>1, <2>2
  <1> QED
    BY <1>1, <1>4, <1>5, <1>6, <1>7, <1>8

(* waitForMsg returns: its answer decides what the loop does.              *)
LEMMA LoopWaitedInv ==
  ASSUME ProgramInv, ChannelInv', ServerThread, LoopWaited
  PROVE  ProgramInv'
  <1> USE ChannelAssumption
      DEF ProgramInv, LoopWaited, WaitReturn, ServerThread, ServerRecord,
          breakingVars, clientVars, mainVars, arguments, objects, outcome
  <1>1. Started' /\ Counted' /\ Reported' /\ NoUseAfterRelease' /\ Serials'
    BY ServerFrame DEF Known
  <1>2. /\ srv = "waiting"
        /\ pc[Server] = "wait_return" /\ pc'[Server] = "out"
    BY DEF Placed, WaitPc, ChannelInv, TypeOK, Threads
  <1>3. late' = late /\ polled' = polled
    BY <1>2 DEF ProgramTypeOK
  <1>4. ProgramTypeOK'
    BY <1>3 DEF ProgramTypeOK, ChannelInv
  <1>5. Placed'
    BY <1>2, ServerFrame DEF Placed, WaitPc, PopPc
  <1>6. CountsReceived' /\ NeverPopsInVain' /\ (srv = "pop" => result)'
    BY DEF CountsReceived, NeverPopsInVain
  <1>7. Broken' /\ BreakStopsSoon'
    BY <1>2, <1>3, ServerFrame
       DEF Broken, BreakStopsSoon, OnItsWay, gl_getCancelStatus, Threads
  <1>8. LastTurn'
    BY <1>2, <1>3, ServerFrame DEF LastTurn, gl_getCancelStatus
  <1> QED
    BY <1>1, <1>4, <1>5, <1>6, <1>7, <1>8

(* popMsg is called on a founded answer: it finds a packet.                *)
LEMMA LoopPopInv ==
  ASSUME ProgramInv, ChannelInv', ServerThread, LoopPop
  PROVE  ProgramInv'
  <1> USE ChannelAssumption
      DEF ProgramInv, LoopPop, PopLock, ServerThread, ServerRecord,
          breakingVars, clientVars, mainVars, arguments, objects, outcome
  <1>1. Started' /\ Counted' /\ Reported' /\ NoUseAfterRelease' /\ Serials'
    BY ServerFrame DEF Known
  <1>2. /\ srv = "pop" /\ srv' = "popping" /\ polled' = polled
        /\ pc'[Server] = "pop_drain"
    BY DEF ChannelInv, TypeOK, Threads, ProgramTypeOK
  <1>3. /\ late' \in [Threads -> Nat]
        /\ late'[Server] =< 1 /\ (~ gl_getCancelStatus => late' = late)
        /\ \A c \in Clients : late'[c] = late[c]
    BY <1>2 DEF ProgramTypeOK, Broken, Threads
  <1>4. ProgramTypeOK'
    BY <1>2, <1>3 DEF ProgramTypeOK, ChannelInv
  <1>5. Placed'
    BY <1>2, ServerFrame DEF Placed, WaitPc, PopPc
  <1>6. CountsReceived'
    BY DEF CountsReceived
  <1>7. NeverPopsInVain' /\ (srv = "pop" => result)'
    <2>1. \A c \in Clients : pc[c] # "push_emplace"
      BY DEF ChannelInv, InsideHoldsLock, Threads, PushPc
    <2>2. queue_ # {}
      BY <2>1 DEF ChannelInv, TrueAnswerHolds
    <2> QED
      BY <1>2, <2>2 DEF NeverPopsInVain
  <1>8. Broken' /\ BreakStopsSoon'
    BY <1>2, <1>3, ServerFrame
       DEF Broken, BreakStopsSoon, OnItsWay, gl_getCancelStatus, Threads
  <1>9. LastTurn'
    BY <1>2, ServerFrame DEF LastTurn, gl_getCancelStatus
  <1> QED
    BY <1>1, <1>4, <1>5, <1>6, <1>7, <1>8, <1>9

(* onMsg counts a packet that was not received before.                     *)
LEMMA OnMsgInv ==
  ASSUME ProgramInv, ChannelInv', ServerThread, OnMsg
  PROVE  ProgramInv'
  <1> USE ChannelAssumption
      DEF ProgramInv, OnMsg, PopTop, ServerThread, ServerRecord,
          breakingVars, clientVars, mainVars, arguments, objects, outcome
  <1>1. /\ srv = "popping" /\ srv' = "popping" /\ polled' = polled /\ late' = late
        /\ pc'[Server] = "pop_remove"
    BY DEF ChannelInv, TypeOK, Threads, ProgramTypeOK, Placed, PopPc
  <1>2. PICK m \in Top(queue_) : received' = received \cup {m}
    OBVIOUS
  <1>3. m \in queue_ /\ m \notin received
    BY <1>2 DEF Top, ChannelInv, TypeOK, InHand
  <1>4. Started' /\ Counted' /\ Reported' /\ NoUseAfterRelease' /\ Serials'
    BY <1>2, <1>3, ServerFrame DEF Known
  <1>5. ProgramTypeOK'
    BY <1>1 DEF ProgramTypeOK, ChannelInv
  <1>6. Placed'
    BY <1>1, ServerFrame DEF Placed, WaitPc, PopPc
  <1>7. CountsReceived'
    BY <1>2, <1>3, FS_AddElement DEF CountsReceived
  <1>8. NeverPopsInVain' /\ (srv = "pop" => result)'
    BY <1>1 DEF NeverPopsInVain
  <1>9. Broken' /\ BreakStopsSoon'
    BY <1>1, ServerFrame DEF Broken, BreakStopsSoon, OnItsWay, gl_getCancelStatus, Threads
  <1>10. LastTurn'
    BY <1>1, ServerFrame DEF LastTurn, gl_getCancelStatus
  <1> QED
    BY <1>4, <1>5, <1>6, <1>7, <1>8, <1>9, <1>10

(* The packet leaves the queue; it is among the received ones.             *)
LEMMA LoopPoppingInv ==
  ASSUME ProgramInv, ChannelInv', ServerThread, LoopPopping
  PROVE  ProgramInv'
  <1> USE ChannelAssumption
      DEF ProgramInv, LoopPopping, PopRemove, ServerThread, ServerRecord, serverVars,
          breakingVars, clientVars, mainVars, arguments, objects, outcome
  <1>1. /\ srv = "popping" /\ srv' = "popping" /\ polled' = polled /\ late' = late
        /\ pc'[Server] = "pop_drain"
    BY DEF ChannelInv, TypeOK, Threads, ProgramTypeOK, Placed, PopPc
  <1>2. Known' = Known
    BY DEF Known, ChannelInv, InHand
  <1>3. Started' /\ Counted' /\ Reported' /\ NoUseAfterRelease' /\ Serials'
    BY <1>2, ServerFrame
  <1>4. ProgramTypeOK'
    BY <1>1 DEF ProgramTypeOK, ChannelInv
  <1>5. Placed'
    BY <1>1, ServerFrame DEF Placed, WaitPc, PopPc
  <1>6. CountsReceived' /\ NeverPopsInVain' /\ (srv = "pop" => result)'
    BY <1>1 DEF CountsReceived, NeverPopsInVain
  <1>7. Broken' /\ BreakStopsSoon'
    BY <1>1, ServerFrame DEF Broken, BreakStopsSoon, OnItsWay, gl_getCancelStatus, Threads
  <1>8. LastTurn'
    BY <1>1, ServerFrame DEF LastTurn, gl_getCancelStatus
  <1> QED
    BY <1>3, <1>4, <1>5, <1>6, <1>7, <1>8

(* popMsg returns on an empty queue.                                       *)
LEMMA LoopPoppedInv ==
  ASSUME ProgramInv, ChannelInv', ServerThread, LoopPopped
  PROVE  ProgramInv'
  <1> USE ChannelAssumption
      DEF ProgramInv, LoopPopped, PopUnlock, ServerThread, ServerRecord,
          breakingVars, clientVars, mainVars, arguments, objects, outcome
  <1>1. Started' /\ Counted' /\ Reported' /\ NoUseAfterRelease' /\ Serials'
    BY ServerFrame DEF Known
  <1>2. /\ srv = "popping" /\ srv' = "loop" /\ polled' = polled /\ late' = late
        /\ pc'[Server] = "out"
    BY DEF ChannelInv, TypeOK, Threads, ProgramTypeOK, Placed, PopPc
  <1>3. ProgramTypeOK'
    BY <1>2 DEF ProgramTypeOK, ChannelInv
  <1>4. Placed'
    BY <1>2, ServerFrame DEF Placed, WaitPc, PopPc
  <1>5. CountsReceived' /\ NeverPopsInVain' /\ (srv = "pop" => result)'
    BY <1>2 DEF CountsReceived, NeverPopsInVain
  <1>6. Broken' /\ BreakStopsSoon'
    BY <1>2, ServerFrame DEF Broken, BreakStopsSoon, OnItsWay, gl_getCancelStatus, Threads
  <1>7. LastTurn'
    BY <1>2, ServerFrame DEF LastTurn, gl_getCancelStatus
  <1> QED
    BY <1>1, <1>3, <1>4, <1>5, <1>6, <1>7

-----------------------------------------------------------------------------
(* Steps of main, and the break.                                           *)

(* main leaves the channel, the counters of the clients and the history    *)
(* alone.                                                                  *)
LEMMA MainFrame ==
  ASSUME ProgramInv, UNCHANGED <<channelVars, history>>
  PROVE  /\ UNCHANGED msgCount_ => CountsReceived'
         /\ UNCHANGED srv => NeverPopsInVain' /\ (srv = "pop" => result)'
         /\ BreakStopsSoon'
         /\ UNCHANGED <<clientVars, c_msgs>> => Counted'
         /\ UNCHANGED clientVars => Serials'
         /\ UNCHANGED <<clientVars, srv>> => Placed'
         /\ UNCHANGED <<clientVars, c_msgs, srv, breakingVars>> => Broken'
  <1> USE DEF ProgramInv, channelVars, history, clientVars, breakingVars
  <1>1. UNCHANGED msgCount_ => CountsReceived'
    BY DEF CountsReceived
  <1>2. UNCHANGED srv => NeverPopsInVain' /\ (srv = "pop" => result)'
    BY DEF NeverPopsInVain
  <1>3. BreakStopsSoon'
    BY DEF BreakStopsSoon
  <1>4. UNCHANGED <<clientVars, c_msgs>> => Counted'
    BY DEF Counted
  <1>5. UNCHANGED clientVars => Serials'
    BY DEF Serials, Known, OnItsWay
  <1>6. UNCHANGED <<clientVars, srv>> => Placed'
    BY DEF Placed
  <1>7. UNCHANGED <<clientVars, c_msgs, srv, breakingVars>> => Broken'
    BY DEF Broken, OnItsWay, gl_getCancelStatus
  <1> QED
    BY <1>1, <1>2, <1>3, <1>4, <1>5, <1>6, <1>7

(* Before the threads exist.                                               *)
LEMMA SetUpInv ==
  ASSUME ProgramInv, ChannelInv', UNCHANGED <<channelVars, history>>,
         AcceptArguments \/ RejectArguments \/ InstallHandler \/ MakeObjects
  PROVE  ProgramInv'
  <1> USE ProgramAssumption
      DEF ProgramInv, AcceptArguments, RejectArguments, InstallHandler, MakeObjects,
          ReactivateHandler, Goto, history, channelVars, clientVars, serverVars,
          breakingVars, arguments, objects, outcome
  <1>1. /\ CountsReceived' /\ NeverPopsInVain' /\ (srv = "pop" => result)'
        /\ BreakStopsSoon' /\ Placed'
    BY MainFrame
  <1>2. srv = "unborn" /\ \A c \in Clients : cli[c] = "unborn"
    BY DEF Started
  <1>3. ProgramTypeOK'
    <2>1. CASE AcceptArguments
      BY <2>1, Limits DEF ProgramTypeOK, ChannelInv, MainPc
    <2>2. CASE RejectArguments
      BY <2>2, Limits DEF ProgramTypeOK, ChannelInv, MainPc
    <2>3. CASE InstallHandler
      BY <2>3, Limits DEF ProgramTypeOK, ChannelInv, MainPc
    <2>4. CASE MakeObjects
      BY <2>4, Limits DEF ProgramTypeOK, ChannelInv, MainPc
    <2> QED
      BY <2>1, <2>2, <2>3, <2>4
  <1>4. Counted'
    BY <1>2 DEF Counted
  <1>5. Serials'
    BY MainFrame DEF Serials, Known, OnItsWay
  <1>6. Started'
    BY <1>2 DEF Started
  <1>7. Broken'
    BY <1>2 DEF Broken, OnItsWay, gl_getCancelStatus, Threads
  <1>8. LastTurn' /\ Reported' /\ NoUseAfterRelease'
    BY <1>2 DEF LastTurn, Reported, NoUseAfterRelease
  <1> QED
    BY <1>1, <1>3, <1>4, <1>5, <1>6, <1>7, <1>8

(* The server's thread is started: both objects are there.                 *)
LEMMA StartServerInv ==
  ASSUME ProgramInv, ChannelInv', UNCHANGED <<channelVars, history>>, StartServer
  PROVE  ProgramInv'
  <1> USE ProgramAssumption
      DEF ProgramInv, StartServer, ServerStart, Goto, history, channelVars, clientVars,
          breakingVars, arguments, objects, outcome
  <1>1. CountsReceived' /\ BreakStopsSoon' /\ Counted' /\ Serials'
    BY MainFrame
  <1>2. \A c \in Clients : cli[c] = "unborn"
    BY DEF Started
  <1>3. ProgramTypeOK' /\ NeverPopsInVain' /\ (srv = "pop" => result)'
    BY DEF ProgramTypeOK, ChannelInv, MainPc, NeverPopsInVain
  <1>4. Placed'
    BY DEF Placed
  <1>5. Started'
    BY <1>2, Limits DEF Started, ProgramTypeOK
  <1>6. Broken' /\ LastTurn' /\ Reported'
    BY DEF Broken, OnItsWay, gl_getCancelStatus, Threads, LastTurn, Reported
  <1>7. NoUseAfterRelease'
    BY <1>2 DEF NoUseAfterRelease, Started
  <1> QED
    BY <1>1, <1>3, <1>4, <1>5, <1>6, <1>7

(* One more client, with all its packets to issue; its object comes first. *)
LEMMA StartClientInv ==
  ASSUME ProgramInv, ChannelInv', UNCHANGED <<channelVars, history>>, StartClient
  PROVE  ProgramInv'
  <1> USE ProgramAssumption
      DEF ProgramInv, StartClient, ClientStart, history, channelVars, serverVars,
          breakingVars, arguments, outcome
  <1>1. /\ CountsReceived' /\ NeverPopsInVain' /\ (srv = "pop" => result)'
        /\ BreakStopsSoon'
    BY MainFrame DEF serverVars
  <1>2. /\ i \in Clients /\ cli[i] = "unborn" /\ cli'[i] = "loop"
        /\ msgCount'[i] = c_msgs /\ issued[i] = 0
        /\ \A c \in Clients : c # i => cli'[c] = cli[c] /\ msgCount'[c] = msgCount[c]
    BY Limits DEF ProgramTypeOK, Counted
  <1>3. ProgramTypeOK'
    BY <1>2, Limits DEF ProgramTypeOK, ChannelInv
  <1>4. Placed'
    BY <1>2 DEF Placed
  <1>5. Counted'
    BY <1>2, Limits DEF Counted, ProgramTypeOK
  <1>6. Serials'
    <2>1. \A c \in Clients : OnItsWay(c)' <=> OnItsWay(c)
      BY <1>2 DEF OnItsWay
    <2>2. Known' = Known /\ \A m \in Known : m.dwClientId \in Clients
      BY Packet DEF Known, ChannelInv, TypeOK
    <2> QED
      BY <1>2, <2>1, <2>2 DEF Serials
  <1>7. Started'
    BY <1>2, Limits DEF Started, ProgramTypeOK
  <1>8. Broken'
    BY <1>2 DEF Broken, OnItsWay, gl_getCancelStatus
  <1>9. LastTurn' /\ Reported'
    BY DEF LastTurn, Reported
  <1>10. NoUseAfterRelease'
    BY <1>2 DEF NoUseAfterRelease, Started
  <1> QED
    BY <1>1, <1>3, <1>4, <1>5, <1>6, <1>7, <1>8, <1>9, <1>10

(* main moves on while the threads run, or joins one of them.              *)
LEMMA JoinInv ==
  ASSUME ProgramInv, ChannelInv', UNCHANGED <<channelVars, history>>,
         ClientsStarted \/ JoinClient \/ ClientsJoined \/ JoinServer
  PROVE  ProgramInv'
  <1> USE ProgramAssumption
      DEF ProgramInv, ClientsStarted, JoinClient, ClientsJoined, JoinServer, Goto,
          history, channelVars, clientVars, serverVars, breakingVars, arguments,
          objects, outcome
  <1>1. /\ CountsReceived' /\ NeverPopsInVain' /\ (srv = "pop" => result)'
        /\ BreakStopsSoon' /\ Counted' /\ Serials' /\ Placed' /\ Broken'
    BY MainFrame
  <1>2. ProgramTypeOK'
    <2>1. CASE ClientsStarted
      BY <2>1, Limits DEF ProgramTypeOK, ChannelInv, MainPc
    <2>2. CASE JoinClient
      BY <2>2, Limits DEF ProgramTypeOK, ChannelInv, MainPc
    <2>3. CASE ClientsJoined
      BY <2>3, Limits DEF ProgramTypeOK, ChannelInv, MainPc
    <2>4. CASE JoinServer
      BY <2>4, Limits DEF ProgramTypeOK, ChannelInv, MainPc
    <2> QED
      BY <2>1, <2>2, <2>3, <2>4
  <1>3. Started'
    <2>1. CASE ClientsStarted
      BY <2>1, Limits DEF Started, AllJoined, ProgramTypeOK
    <2>2. CASE JoinClient
      BY <2>2, Limits DEF Started, AllJoined, ProgramTypeOK
    <2>3. CASE ClientsJoined
      BY <2>3, Limits DEF Started, AllJoined, ProgramTypeOK
    <2>4. CASE JoinServer
      BY <2>4 DEF Started, AllJoined
    <2> QED
      BY <2>1, <2>2, <2>3, <2>4
  <1>4. LastTurn' /\ Reported'
    BY DEF LastTurn, Reported, AllJoined, gl_getCancelStatus
  <1>5. NoUseAfterRelease'
    BY DEF NoUseAfterRelease, Started, AllJoined
  <1> QED
    BY <1>1, <1>2, <1>3, <1>4, <1>5

(* The flag is set, the report chosen, the objects released: no client can *)
(* move any more.                                                          *)
LEMMA ShutDownInv ==
  ASSUME ProgramInv, ChannelInv', UNCHANGED <<channelVars, history>>,
         ScheduleShutDown \/ Report \/ ReleaseServer \/ Return
  PROVE  ProgramInv'
  <1> USE ProgramAssumption
      DEF ProgramInv, ScheduleShutDown, SetShutDownPending, Report, ReleaseServer,
          Return, Goto, history, channelVars, clientVars, serverVars, breakingVars,
          arguments, objects, outcome
  <1>1. /\ CountsReceived' /\ NeverPopsInVain' /\ (srv = "pop" => result)'
        /\ BreakStopsSoon' /\ Counted' /\ Serials' /\ Placed' /\ Broken'
    BY MainFrame
  <1>2. AllJoined /\ AllJoined'
    BY DEF Started, AllJoined
  <1>3. ProgramTypeOK'
    <2>1. CASE ScheduleShutDown
      BY <2>1, Limits DEF ProgramTypeOK, ChannelInv, MainPc
    <2>2. CASE Report
      BY <2>2, Limits DEF ProgramTypeOK, ChannelInv, MainPc
    <2>3. CASE ReleaseServer
      BY <2>3, Limits DEF ProgramTypeOK, ChannelInv, MainPc
    <2>4. CASE Return
      BY <2>4, Limits DEF ProgramTypeOK, ChannelInv, MainPc
    <2> QED
      BY <2>1, <2>2, <2>3, <2>4
  <1>4. Started'
    BY <1>2 DEF Started
  <1>5. LastTurn'
    BY <1>2 DEF LastTurn, gl_getCancelStatus
  <1>6. Reported'
    <2>1. CASE Report
      <3>1. srv = "gone"
        BY <2>1 DEF Started
      <3>2. ~ gl_getCancelStatus => \A c \in Clients : c =< c_clients => issued[c] = c_msgs
        BY <1>2 DEF AllJoined, Broken
      <3>3. ~ gl_getCancelStatus /\ polled => queue_ = {}
        BY <3>1 DEF LastTurn
      <3> QED
        BY <1>2, <2>1, <3>1, <3>2, <3>3 DEF Reported
    <2>2. CASE ScheduleShutDown \/ ReleaseServer \/ Return
      BY <1>2, <2>2 DEF Reported
    <2> QED
      BY <2>1, <2>2
  <1>7. NoUseAfterRelease'
    BY <1>2 DEF NoUseAfterRelease, Started, AllJoined
  <1> QED
    BY <1>1, <1>3, <1>4, <1>5, <1>6, <1>7

(* The process dies before any thread of it is joined.                     *)
LEMMA TerminateInv ==
  ASSUME ProgramInv, ChannelInv', UNCHANGED <<channelVars, history>>, Terminate
  PROVE  ProgramInv'
  <1> USE DEF ProgramInv, Terminate, history, channelVars, clientVars, serverVars,
          breakingVars, arguments, objects
  <1>1. /\ CountsReceived' /\ NeverPopsInVain' /\ (srv = "pop" => result)'
        /\ BreakStopsSoon' /\ Counted' /\ Serials' /\ Placed' /\ Broken'
    BY MainFrame
  <1>2. ProgramTypeOK'
    BY DEF ProgramTypeOK, ChannelInv, MainPc
  <1>3. Started' /\ NoUseAfterRelease'
    BY DEF Started, NoUseAfterRelease, AllJoined
  <1>4. LastTurn' /\ Reported'
    BY DEF LastTurn, Reported, AllJoined, gl_getCancelStatus
  <1> QED
    BY <1>1, <1>2, <1>3, <1>4

(* A break sets the status; nothing has happened after it.                 *)
LEMMA BreakInv ==
  ASSUME ProgramInv, ChannelInv', Break
  PROVE  ProgramInv'
  <1> USE DEF ProgramInv, Break, CtrlBreakHandler, mainVars, history, channelVars,
          clientVars, serverVars, arguments, objects, outcome
  <1>1. /\ CountsReceived' /\ NeverPopsInVain' /\ (srv = "pop" => result)'
        /\ BreakStopsSoon' /\ Counted' /\ Serials' /\ Placed'
    BY MainFrame
  <1>2. ProgramTypeOK'
    BY DEF ProgramTypeOK, ChannelInv
  <1>3. Started' /\ NoUseAfterRelease'
    BY DEF Started, NoUseAfterRelease, AllJoined
  <1>4. Broken'
    BY DEF Broken, gl_getCancelStatus, OnItsWay, Threads
  <1>5. LastTurn' /\ Reported'
    BY DEF LastTurn, Reported, AllJoined, gl_getCancelStatus
  <1> QED
    BY <1>1, <1>2, <1>3, <1>4, <1>5

-----------------------------------------------------------------------------
(* ProgramInv is inductive.                                                *)

(* Nothing exists and nothing was issued.                                  *)
LEMMA ProgramInit == Init => ProgramInv
  <1> SUFFICES ASSUME Init PROVE ProgramInv
    OBVIOUS
  <1> USE Limits, ChannelAssumption DEF Init, BreakingInit, ClientInit, ServerInit, Threads
  <1>1. ChannelInv
    BY InitInv
  <1>2. ProgramTypeOK
    <2>1. msgCount \in [Clients -> 0..SizeMax] /\ issued \in [Clients -> 0..MsgLimit]
      OBVIOUS
    <2>2. c_clients \in 0..MaxClients /\ c_msgs \in 0..MsgLimit /\ i \in 1..(MaxClients + 1)
      OBVIOUS
    <2>3. cli \in [Clients -> {"unborn", "loop", "generate", "push", "pushing", "gone"}]
          /\ msg \in [Clients -> Msg \cup {NoMsg}] /\ late \in [Threads -> Nat]
      OBVIOUS
    <2> QED
      BY <1>1, <2>1, <2>2, <2>3 DEF ProgramTypeOK, ChannelInv, MainPc
  <1>3. pc = [t \in Threads |-> "out"] /\ queue_ = {} /\ received = {}
        /\ arg = [c \in Clients |-> NoMsg]
    BY DEF ChannelInit
  <1>4. Placed /\ Counted
    BY <1>3 DEF Placed, Counted, WaitPc, PopPc
  <1>5. Serials
    BY <1>3 DEF Serials, Known
  <1>6. CountsReceived
    BY <1>3, FS_EmptySet DEF CountsReceived
  <1>7. Started /\ LastTurn /\ Reported /\ NoUseAfterRelease
    BY DEF Started, LastTurn, Reported, NoUseAfterRelease
  <1>8. Broken /\ BreakStopsSoon /\ NeverPopsInVain
    BY DEF Broken, BreakStopsSoon, NeverPopsInVain
  <1> QED
    BY <1>1, <1>2, <1>4, <1>5, <1>6, <1>7, <1>8 DEF ProgramInv

(* A step in which nothing happens.                                        *)
LEMMA ProgramStutter == ProgramInv /\ UNCHANGED vars => ProgramInv'
  BY MainFrame DEF vars, mainVars, serverVars, breakingVars, history, arguments, objects,
     outcome, clientVars, channelVars, ProgramInv, ProgramTypeOK, TypeOK, ChannelInv,
     InsideHoldsLock, PushedPacket, InHand, TrueAnswerHolds, AnswerUsedUp,
     NotifiedFindsPacket, BatchInPriorityOrder, BatchAheadOfQueue, Started, LastTurn,
     Reported, NoUseAfterRelease, AllJoined, gl_getCancelStatus

(* Every step of the program keeps the invariant.                          *)
LEMMA ProgramStep == ProgramInv /\ [Next]_vars => ProgramInv'
  <1> SUFFICES ASSUME ProgramInv, [Next]_vars PROVE ProgramInv'
    OBVIOUS
  <1>1. ChannelInv'
    BY ChannelInvStep
  <1>2. CASE MainThread
    BY <1>1, <1>2, SetUpInv, StartServerInv, StartClientInv, JoinInv, ShutDownInv,
       TerminateInv DEF MainThread
  <1>3. ASSUME NEW c \in Clients, ClientThread(c)
        PROVE  ProgramInv'
    BY <1>1, <1>3, ClientContinueInv, ClientFinishInv, GenerateMsgInv, ClientPushInv,
       ClientPushingInv, ClientPushedInv DEF ClientThread, ClientStep
  <1>4. CASE ServerThread
    BY <1>1, <1>4, ServerOutsideInv, LoopWaitInv, LoopWaitingInv, LoopWaitedInv,
       LoopPopInv, OnMsgInv, LoopPoppingInv, LoopPoppedInv
       DEF ServerThread, ServerStep, ServerProgress
  <1>5. CASE Break
    BY <1>1, <1>5, BreakInv
  <1>6. CASE Terminated \/ UNCHANGED vars
    BY <1>6, ProgramStutter DEF Terminated
  <1> QED
    BY <1>2, <1>3, <1>4, <1>5, <1>6 DEF Next

(* The program's inductive invariant, for any number of clients and        *)
(* packets, with a break or a failure of main at any point.                *)
THEOREM ProgramCorrect == Spec => []ProgramInv
  BY ProgramInit, ProgramStep, PTL DEF Spec

-----------------------------------------------------------------------------
(* Safety properties.                                                      *)

(* The program keeps to the channel's protocol (one waiting thread, no     *)
(* packet pushed twice): what is proved of the channel holds in it.        *)
THEOREM ProgramUsesChannel == Spec => UsesChannel
  <1>1. Init => ChannelInit
    BY DEF Init
  <1> QED
    BY <1>1, ChannelStep, ProgramCorrect, PTL DEF Spec, UsesChannel, ChannelSpec

(* Hence the whole program, seen from outside, is a PriorityMailbox: main, *)
(* a break and a failure only decide how far it gets.                      *)
THEOREM ProgramIsMailbox == Spec => IsMailbox
  BY ProgramUsesChannel, Refinement, PTL DEF UsesChannel

(* So in the whole program, whatever the threads do, the server gets each  *)
(* packet at most once, a batch in priority order and with every packet    *)
(* that was there when it began, and a packet that was pushed stays until  *)
(* the server gets it.                                                     *)
THEOREM ProgramKeepsPromises ==
  Spec => /\ []Mailbox!MailboxInv
          /\ Mailbox!NothingLost
          /\ Mailbox!BatchComplete
  <1>1. Spec => ChannelSpec
    BY ProgramUsesChannel DEF UsesChannel
  <1> QED
    BY <1>1, ChannelInOrder, ChannelLosesNothing, ChannelIsEmptied, PTL

(* Every variable keeps its type.                                          *)
THEOREM ProgramTypeCorrect == Spec => []ProgramTypeOK
  BY ProgramCorrect, PTL DEF ProgramInv

(* No thread runs after what it refers to is gone.                         *)
THEOREM NoDanglingUse == Spec => []NoUseAfterRelease
  BY ProgramCorrect, PTL DEF ProgramInv

(* The answer of popMsg that the loop ignores is always TRUE.              *)
THEOREM PopsFindPackets == Spec => []NeverPopsInVain
  BY ProgramCorrect, PTL DEF ProgramInv

(* After a break each thread does at most what it was busy with.           *)
THEOREM BreakIsPrompt == Spec => []BreakStopsSoon
  BY ProgramCorrect, PTL DEF ProgramInv

(* The flag is set after the last push.                                    *)
THEOREM ShutDownIsLast == Spec => NoPushAfterShutDown
  <1>1. ASSUME ProgramInv, [Next]_vars, bShutDownPending_
        PROVE  queue_' \subseteq queue_
    <2>1. ASSUME NEW c \in Clients
          PROVE  pc[c] = "out"
      BY <1>1 DEF ProgramInv, Started, AllJoined, Placed
    <2>2. CASE UNCHANGED channelVars
      BY <2>2 DEF channelVars
    <2>3. CASE ChannelNext
      BY <2>1, <2>3 DEF ChannelNext, PushLock, PushInside, PushEmplace, PushNotify,
         PushUnlock, WaitCall, WaitInside, WaitPredicate, WaitBlock, WaitTimeout,
         WaitSpurious, WaitRelock, WaitReturn, PopLock, PopInside, PopTop, PopRemove,
         PopUnlock
    <2> QED
      BY <1>1, <2>2, <2>3, ChannelStep
  <1> QED
    BY <1>1, ProgramCorrect, PTL DEF Spec, NoPushAfterShutDown

(* One packet for each client and number, no more and no less.             *)
LEMMA OneForEach ==
  ASSUME ProgramInv, report = "Done"
  PROVE  /\ \A c \in 1..c_clients : issued[c] = c_msgs
         /\ IsFiniteSet(Known) /\ Cardinality(Known) = c_clients * c_msgs
  <1> USE Limits DEF ProgramInv
  <1>1. c_clients \in 0..MaxClients /\ c_msgs \in Nat /\ \A c \in 1..c_clients : c \in Clients
    BY DEF ProgramTypeOK
  <1>2. \A c \in Clients : cli[c] = IF c =< c_clients THEN "gone" ELSE "unborn"
    BY DEF Reported, AllJoined
  <1>3. \A c \in Clients : issued[c] = IF c =< c_clients THEN c_msgs ELSE 0
    <2>1. \A c \in Clients : c =< c_clients => issued[c] = c_msgs
      BY DEF Reported
    <2>2. \A c \in Clients : ~ (c =< c_clients) => issued[c] = 0
      BY <1>2 DEF Counted
    <2> QED
      BY <2>1, <2>2
  <1>4. \A c \in Clients : ~ OnItsWay(c)
    BY <1>2 DEF OnItsWay, Placed
  <1> DEFINE S == (1..c_clients) \X (1..c_msgs)
             key == [m \in Known |-> <<m.dwClientId, m.n>>]
  <1>5. \A m \in Known : /\ m.dwClientId \in Clients /\ m.n \in 1..MsgLimit
                         /\ m.n =< issued[m.dwClientId]
    BY Packet DEF Known, ChannelInv, TypeOK, Serials
  <1>6. key \in [Known -> S]
    BY <1>1, <1>3, <1>5
  <1>7. key \in Injection(Known, S)
    BY <1>6 DEF Injection, IsInjective, Serials
  <1>8. \A s \in S : \E m \in Known : key[m] = s
    BY <1>1, <1>3, <1>4 DEF Serials
  <1>9. key \in Bijection(Known, S)
    BY <1>6, <1>7, <1>8 DEF Bijection, Surjection
  <1>10. IsFiniteSet(S) /\ Cardinality(S) = c_clients * c_msgs
    <2>1. /\ IsFiniteSet(1..c_clients) /\ Cardinality(1..c_clients) = c_clients
          /\ IsFiniteSet(1..c_msgs) /\ Cardinality(1..c_msgs) = c_msgs
      BY <1>1, FS_Interval
    <2>2. /\ IsFiniteSet(S)
          /\ Cardinality(S) = Cardinality(1..c_clients) * Cardinality(1..c_msgs)
      BY <2>1, FS_Product, Zenon
    <2> HIDE DEF S
    <2> QED
      BY <2>1, <2>2
  <1>11. ExistsBijection(Known, S)
    BY <1>9 DEF ExistsBijection
  <1>12. IsFiniteSet(Known) /\ Cardinality(Known) = Cardinality(S)
    BY <1>10, <1>11, FS_Bijection, Fun_ExistsBijSymmetric
  <1> QED
    BY <1>1, <1>3, <1>10, <1>12

(* "Done" means that no client was cut short and that no packet of the     *)
(* c_clients * c_msgs is lost or there twice.                              *)
THEOREM DoneIsComplete == Spec => []DoneMeansAllIssued
  <1>1. ProgramInv => DoneMeansAllIssued
    BY OneForEach DEF DoneMeansAllIssued, Known
  <1> QED
    BY <1>1, ProgramCorrect, PTL

(* If the server made one turn while main slept, every packet is received  *)
(* and the count printed with "Done" is their number.                      *)
THEOREM DoneIsReceived == Spec => []DoneMeansAllReceived
  <1>1. ASSUME ProgramInv, report = "Done", polled
        PROVE  queue_ = {} /\ msgCount_ = c_clients * c_msgs
    <2>1. queue_ = {}
      BY <1>1 DEF ProgramInv, Reported
    <2>2. Known = received
      BY <2>1 DEF Known
    <2> QED
      BY <1>1, <2>1, <2>2, OneForEach DEF ProgramInv, CountsReceived
  <1> QED
    BY <1>1, ProgramCorrect, PTL DEF DoneMeansAllReceived
-----------------------------------------------------------------------------
(* Who waits for whom.                                                     *)

(* cv_mtx_ is held exactly where waitForMsg holds it, and a thread inside  *)
(* the channel can go on: the channel's theorem, in the program.           *)
LEMMA ProgramInside == Spec => []InsideMayMove
  BY ProgramUsesChannel, NoDeadlockInside, PTL DEF UsesChannel

(* A client that runs can go on, or mtx_ is held by a thread that can.     *)
LEMMA ClientOrHolder ==
  ASSUME ProgramInv, InsideMayMove, NEW c \in Clients, cli[c] \notin {"unborn", "gone"}
  PROVE  ServerMayMove \/ \E d \in Clients : ClientMayMove(d)
  <1> USE ChannelAssumption DEF ProgramInv, Threads
  <1>1. CASE cli[c] \in {"loop", "generate"}
    BY <1>1, ClientAssumption DEF ClientMayMove
  <1>2. ASSUME NEW d \in Clients, pc[d] # "out"
        PROVE  ClientMayMove(d)
    BY <1>2 DEF ClientMayMove, Placed, InsideMayMove
  <1>3. CASE cli[c] = "pushing"
    BY <1>2, <1>3 DEF Placed
  <1>4. CASE cli[c] = "push"
    <2>1. pc[c] = "out"
      BY <1>4 DEF Placed
    <2>2. CASE mtx_ = NoThread
      BY <1>4, <2>1, <2>2 DEF ClientMayMove
    <2>3. ASSUME NEW d \in Clients, mtx_ = d
          PROVE  ClientMayMove(d)
      BY <1>2, <2>3 DEF InsideMayMove
    <2>4. ASSUME mtx_ = Server
          PROVE  ServerMayMove
      <3>1. pc[Server] \in PopPc
        BY <2>4 DEF ChannelInv, InsideHoldsLock, TypeOK, PushPc, PopPc, WaitPc, InsideMayMove
      <3>2. srv = "popping" /\ PopMayMove
        BY <3>1 DEF Placed, InsideMayMove, WaitMayMove, PopPc
      <3> QED
        BY <3>2 DEF ServerMayMove
    <2>5. mtx_ = NoThread \/ mtx_ = Server \/ mtx_ \in Clients
      BY DEF ChannelInv, TypeOK
    <2> QED
      BY <2>2, <2>3, <2>4, <2>5
  <1> QED
    BY <1>1, <1>3, <1>4 DEF ProgramTypeOK

(* The server, while it runs, can go on, or mtx_ is held by a client that  *)
(* can.                                                                    *)
LEMMA ServerOrHolder ==
  ASSUME ProgramInv, InsideMayMove, srv \notin {"unborn", "gone"}
  PROVE  ServerMayMove \/ \E d \in Clients : ClientMayMove(d)
  <1> USE ChannelAssumption DEF ProgramInv, Threads
  <1>1. CASE srv \in {"loop", "poll", "idle"}
    BY <1>1 DEF ServerMayMove
  <1>2. CASE srv \in {"wait", "pop"}
    <2>1. pc[Server] = "out" /\ cv_mtx_ = NoThread
      BY <1>2 DEF Placed, ChannelInv, TypeOK, InsideMayMove
    <2>2. ASSUME NEW d \in Clients, mtx_ = d
          PROVE  ClientMayMove(d)
      BY <2>2 DEF ClientMayMove, Placed, InsideMayMove
    <2>3. mtx_ = NoThread \/ mtx_ \in Clients
      BY <2>1 DEF ChannelInv, TypeOK, InsideMayMove
    <2> QED
      BY <1>2, <2>1, <2>2, <2>3 DEF ServerMayMove
  <1>3. CASE srv = "waiting"
    <2>1. pc[Server] \in WaitPc /\ pc[Server] # "out"
      BY <1>3 DEF Placed, WaitPc
    <2> QED
      BY <1>3, <2>1 DEF ServerMayMove, InsideMayMove, PopMayMove, WaitPc
  <1>4. CASE srv = "popping"
    <2>1. pc[Server] \in PopPc /\ pc[Server] # "out"
      BY <1>4 DEF Placed, PopPc
    <2> QED
      BY <1>4, <2>1 DEF ServerMayMove, InsideMayMove, WaitMayMove, PopPc
  <1> QED
    BY <1>1, <1>2, <1>3, <1>4 DEF ProgramTypeOK

(* The program cannot deadlock, with any number of clients and packets:    *)
(* main joins only threads that run or are gone, and of the threads that   *)
(* run one can go on.                                                      *)
THEOREM NoDeadlock == Spec => []SomeoneMayMove
  <1>1. ASSUME ProgramInv, InsideMayMove, main # "done"
        PROVE  MainMayMove \/ ServerMayMove \/ \E c \in Clients : ClientMayMove(c)
    <2> USE <1>1, ProgramAssumption DEF ProgramInv
    <2>1. CASE main = "startClients"
      <3>1. i =< c_clients => i \in Clients
        BY Limits DEF ProgramTypeOK
      <3> QED
        BY <2>1, <3>1, Limits DEF Started, MainMayMove
    <2>2. CASE main = "join" /\ i =< c_clients
      <3>1. i \in Clients /\ cli[i] # "unborn"
        BY <2>2, Limits DEF ProgramTypeOK, Started
      <3>2. CASE cli[i] = "gone"
        BY <2>2, <3>2 DEF MainMayMove
      <3>3. CASE cli[i] # "gone"
        BY <3>1, <3>3, ClientOrHolder
      <3> QED
        BY <3>2, <3>3
    <2>3. CASE main = "join" /\ ~ (i =< c_clients)
      BY <2>3 DEF MainMayMove
    <2>4. CASE main = "joinServer"
      <3>1. srv # "unborn"
        BY <2>4 DEF Started
      <3>2. CASE srv = "gone"
        BY <2>4, <3>2 DEF MainMayMove
      <3>3. CASE srv # "gone"
        BY <3>1, <3>3, ServerOrHolder
      <3> QED
        BY <3>2, <3>3
    <2>5. CASE main = "startServer"
      BY <2>5 DEF Started, MainMayMove
    <2> QED
      BY <2>1, <2>2, <2>3, <2>4, <2>5 DEF ProgramTypeOK, MainPc, MainMayMove
  <1> QED
    BY <1>1, ProgramCorrect, ProgramInside, PTL DEF SomeoneMayMove
=============================================================================
