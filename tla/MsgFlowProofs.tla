---------------------------- MODULE MsgFlowProofs ---------------------------
(***************************************************************************)
(* What MsgFlowTest expects holds for any set of packets, finite or not,   *)
(* and in any order of the pushes.  FlowInv is inductive; it contains      *)
(* ChannelInv, which StepInv keeps, for the test too uses the channel only *)
(* as the channel may be used.                                             *)
(***************************************************************************)
EXTENDS MsgFlow, ChannelImplProofs, FiniteSetTheorems

(* The test is the only client, and not the server.                        *)
LEMMA TestIsClient == Clients = {Test} /\ Test # Server /\ Threads = {Test, Server}
  BY MsgFlowAssumption, ChannelAssumption DEF Threads

(* Each step of the test is one of the channel's or none: a packet that is *)
(* still to push is a fresh one.                                           *)
LEMMA FlowChannelStep == FlowInv /\ [FlowNext]_flowVars => [ChannelNext]_channelVars
<1> SUFFICES ASSUME FlowInv, [FlowNext]_flowVars PROVE [ChannelNext]_channelVars
  OBVIOUS
<1>1. CASE TestPush
  <2>1. PICK m \in toPush : PushLock(Test, m)
    BY <1>1 DEF TestPush
  <2>2. m \in Msg /\ Fresh(m)
    BY TestIsClient DEF FlowInv, FlowTypeOK, PacketsAccounted, Fresh
  <2> QED
    BY <2>1, <2>2, TestIsClient DEF ChannelNext
<1>2. CASE TestPushing
  BY <1>2, TestIsClient DEF TestPushing, ChannelNext, PushInside
<1>3. CASE TestLoop
  <2>1. CASE LoopCondition \/ PollShutDown
    BY <2>1 DEF LoopCondition, PollShutDown
  <2>2. CASE LoopWait \/ LoopWaiting \/ LoopTimeout \/ LoopWaited
    BY <2>2 DEF LoopWait, LoopWaiting, LoopTimeout, LoopWaited, ChannelNext, WaitInside
  <2>3. CASE LoopPop \/ OnMsg \/ LoopPopping \/ LoopPopped
    BY <2>3 DEF LoopPop, OnMsg, LoopPopping, LoopPopped, ChannelNext, PopInside
  <2> QED
    BY <1>3, <2>1, <2>2, <2>3 DEF TestLoop
<1>4. CASE TestSpurious
  BY <1>4 DEF TestSpurious, LoopSpurious, ChannelNext, WaitInside
<1>5. CASE TestRun \/ MockOnIdle \/ TestCheck \/ Checked \/ UNCHANGED flowVars
  BY <1>5 DEF TestRun, MockOnIdle, TestCheck, Checked, flowVars
<1> QED
  BY <1>1, <1>2, <1>3, <1>4, <1>5 DEF FlowNext, TestStep

(* The channel's invariant, in the test.                                   *)
LEMMA FlowChannelInv == FlowInv /\ [FlowNext]_flowVars => ChannelInv'
  BY FlowChannelStep, StepInv DEF FlowInv

-----------------------------------------------------------------------------
(* FlowInv is inductive.                                                   *)

(* Nothing is pushed and nothing received.                                 *)
LEMMA InitFlowInv == FlowInit => FlowInv
<1> SUFFICES ASSUME FlowInit PROVE FlowInv
  OBVIOUS
<1> USE TestIsClient
    DEF FlowInit, ChannelInit, BreakingInit, ServerInit
<1>1. ChannelInv
  BY InitInv
<1>2. pc[Test] = "out" /\ pc[Server] = "out" /\ arg[Test] = NoMsg
  OBVIOUS
<1>3. FlowTypeOK
  BY <1>1 DEF FlowTypeOK, ChannelInv
<1>4. OneThread
  BY <1>2 DEF OneThread, WaitPc, PopPc
<1>5. PacketsAccounted
  BY <1>2, ChannelAssumption DEF PacketsAccounted
<1>6. EachCountedOnce
  BY FS_EmptySet DEF EachCountedOnce
<1>7. FalseAnswerHolds /\ IdleEnds
  BY DEF FalseAnswerHolds, IdleEnds
<1> QED
  BY <1>1, <1>3, <1>4, <1>5, <1>6, <1>7 DEF FlowInv

(* pushMsg, before the server runs.                                        *)
LEMMA TestPushInv ==
  ASSUME FlowInv, ChannelInv', TestPush
  PROVE  FlowInv'
<1> USE TestIsClient DEF FlowInv, breakingVars, serverVars
<1>1. PICK m \in toPush : PushLock(Test, m) /\ toPush' = toPush \ {m}
  BY DEF TestPush
<1>2. /\ test = "push" /\ pc[Test] = "out"
      /\ UNCHANGED <<status_, srv, bShutDownPending_, msgCount_, test, idles, firstIdle>>
      /\ UNCHANGED <<queue_, received, result>>
  BY <1>1 DEF TestPush, PushLock
<1>3. /\ pc'[Test] = "push_emplace" /\ pc'[Server] = pc[Server]
      /\ arg'[Test] = m
  BY <1>1 DEF PushLock, ChannelInv, TypeOK
<1>4. FlowTypeOK'
  BY <1>1, <1>2 DEF FlowTypeOK, ChannelInv
<1>5. OneThread'
  BY <1>2, <1>3 DEF OneThread
<1>6. PacketsAccounted'
  BY <1>1, <1>2, <1>3 DEF PacketsAccounted
<1>7. EachCountedOnce' /\ FalseAnswerHolds' /\ IdleEnds'
  BY <1>2, <1>3 DEF EachCountedOnce, FalseAnswerHolds, IdleEnds
<1> QED
  BY <1>4, <1>5, <1>6, <1>7

(* The rest of pushMsg: the packet is queued, and no server is there to be *)
(* told.                                                                   *)
LEMMA TestPushingInv ==
  ASSUME FlowInv, ChannelInv', TestPushing
  PROVE  FlowInv'
<1> USE TestIsClient DEF FlowInv, breakingVars, serverVars, testVars
<1>1. /\ UNCHANGED <<status_, srv, bShutDownPending_, msgCount_, test, toPush, idles,
                     firstIdle>>
      /\ UNCHANGED <<received, result>>
      /\ pc[Test] \in PushPc
  BY DEF TestPushing, PushEmplace, PushNotify, PushUnlock, PushPc
<1>2. test = "push" /\ srv = "unborn" /\ pc[Server] \notin WaitPc \cup PopPc
  BY <1>1 DEF OneThread, PushPc
<1>3. pc'[Server] = pc[Server]
  BY <1>2 DEF TestPushing, PushEmplace, PushNotify, PushUnlock, ChannelInv, TypeOK, WaitPc
<1>4. FlowTypeOK'
  BY <1>1 DEF FlowTypeOK, ChannelInv
<1>5. OneThread'
  BY <1>1, <1>2, <1>3 DEF OneThread
<1>6. PacketsAccounted'
  <2>1. CASE PushEmplace(Test)
    <3>1. /\ pc[Test] = "push_emplace" /\ arg[Test] \in Msg
          /\ queue_' = queue_ \cup {arg[Test]} /\ arg' = arg
          /\ pc'[Test] = "push_notify"
      BY <2>1 DEF PushEmplace, ChannelInv, TypeOK, PushedPacket, PushPc
    <3> QED
      BY <1>1, <3>1 DEF PacketsAccounted
  <2>2. CASE PushNotify(Test)
    BY <1>1, <2>2 DEF PushNotify, ChannelInv, TypeOK, PacketsAccounted
  <2>3. CASE PushUnlock(Test)
    <3>1. pc[Test] = "push_unlock" /\ queue_' = queue_ /\ arg'[Test] = NoMsg
      BY <2>3 DEF PushUnlock, ChannelInv, TypeOK
    <3>2. NoMsg \notin toPush
      BY ChannelAssumption DEF FlowTypeOK
    <3> QED
      BY <1>1, <3>1, <3>2 DEF PacketsAccounted
  <2> QED
    BY <2>1, <2>2, <2>3 DEF TestPushing
<1>7. EachCountedOnce' /\ FalseAnswerHolds' /\ IdleEnds'
  BY <1>1, <1>2, <1>3 DEF EachCountedOnce, FalseAnswerHolds, IdleEnds, WaitPc
<1> QED
  BY <1>4, <1>5, <1>6, <1>7

(* The steps outside the channel: the test's own and the polls.            *)
LEMMA OutsideInv ==
  ASSUME FlowInv, ChannelInv',
         \/ TestRun
         \/ TestLoop /\ (LoopCondition \/ PollShutDown)
         \/ TestCheck
  PROVE  FlowInv'
<1> USE DEF FlowInv, TestRun, ServerStart, TestLoop, LoopCondition, PollShutDown,
            TestCheck, channelVars, breakingVars, serverVars, testVars
<1>1. /\ UNCHANGED <<queue_, pc, arg, received, result, status_, bShutDownPending_,
                     msgCount_, toPush, idles, firstIdle>>
      /\ srv \in {"unborn", "loop", "poll", "gone"}
      /\ srv' \in {"loop", "poll", "wait", "gone"}
      /\ ~ gl_getCancelStatus
  BY DEF OneThread, gl_getCancelStatus
<1>2. FlowTypeOK'
  BY <1>1 DEF FlowTypeOK, ChannelInv
<1>3. OneThread'
  BY <1>1 DEF OneThread
<1>4. PacketsAccounted' /\ EachCountedOnce' /\ FalseAnswerHolds'
  BY <1>1 DEF PacketsAccounted, EachCountedOnce, FalseAnswerHolds
<1>5. IdleEnds'
  BY <1>1 DEF IdleEnds, OneThread
<1> QED
  BY <1>2, <1>3, <1>4, <1>5

(* A step of the server inside the channel, or into it or out of it: what  *)
(* such steps have in common.                                              *)
LEMMA TurnFrame ==
  ASSUME FlowInv, ChannelInv',
         test = "run", UNCHANGED <<breakingVars, testVars, arg, bShutDownPending_>>,
         NEW to \in {"out"} \cup WaitPc \cup PopPc,
         pc' = [pc EXCEPT ![Server] = to],
         srv \in {"wait", "waiting", "pop", "popping"},
         srv' \in {"waiting", "idle", "pop", "popping", "loop"},
         srv' = "waiting" <=> to \in WaitPc,
         srv' = "popping" <=> to \in PopPc,
         queue_' \cup received' = queue_ \cup received,
         EachCountedOnce', FalseAnswerHolds'
  PROVE  FlowInv'
<1> USE TestIsClient DEF FlowInv, breakingVars, testVars
<1>1. pc[Test] = "out" /\ pc'[Test] = "out" /\ pc'[Server] = to /\ toPush = {}
  BY DEF OneThread, ChannelInv, TypeOK
<1>2. idles = 0
  BY DEF IdleEnds
<1>3. FlowTypeOK'
  <2>1. msgCount_' \in Nat
    BY FS_CardinalityType DEF EachCountedOnce
  <2> QED
    BY <2>1 DEF FlowTypeOK, ChannelInv
<1>4. OneThread'
  BY <1>1 DEF OneThread
<1>5. PacketsAccounted'
  BY <1>1 DEF PacketsAccounted
<1>6. IdleEnds'
  BY <1>2 DEF IdleEnds
<1> QED
  BY <1>3, <1>4, <1>5, <1>6

(* waitForMsg: with no pusher the predicate reads what is there.           *)
LEMMA TurnWaitInv ==
  ASSUME FlowInv, ChannelInv', test = "run", UNCHANGED <<breakingVars, testVars>>,
         LoopWait \/ LoopWaiting \/ LoopTimeout \/ LoopSpurious \/ LoopWaited
  PROVE  FlowInv'
<1> USE DEF FlowInv, serverVars
<1>1. /\ UNCHANGED <<queue_, received, arg, bShutDownPending_, msgCount_>>
      /\ pc[Test] = "out"
  BY DEF LoopWait, LoopWaiting, LoopTimeout, LoopSpurious, LoopWaited, WaitCall,
     WaitPredicate, WaitBlock, WaitTimeout, WaitSpurious, WaitRelock, WaitReturn,
     OneThread
<1>2. EachCountedOnce'
  BY <1>1 DEF EachCountedOnce
<1>3. PredicateValues = {queue_ # {}}
  BY <1>1, TestIsClient DEF PredicateValues
<1>4. pc \in [Threads -> {"out"} \cup PushPc \cup WaitPc \cup PopPc] /\ Server \in Threads
  BY TestIsClient DEF ChannelInv, TypeOK
<1>5. CASE LoopWait
  <2>1. /\ srv = "wait" /\ srv' = "waiting"
        /\ pc' = [pc EXCEPT ![Server] = "wait_pred"] /\ pc'[Server] = "wait_pred"
    BY <1>4, <1>5 DEF LoopWait, WaitCall
  <2>2. FalseAnswerHolds'
    BY <2>1 DEF FalseAnswerHolds
  <2> QED
    BY <1>1, <1>2, <2>1, <2>2, TurnFrame DEF WaitPc, PopPc
<1>6. CASE LoopWaiting \/ LoopTimeout \/ LoopSpurious
  <2>1. pc[Server] \in WaitPc /\ srv = "waiting" /\ srv' = "waiting"
    BY <1>6 DEF LoopWaiting, LoopTimeout, LoopSpurious, WaitPredicate, WaitBlock,
       WaitTimeout, WaitSpurious, WaitRelock, OneThread, WaitPc
  <2>2. PICK to \in WaitPc :
          /\ pc' = [pc EXCEPT ![Server] = to]
          /\ to = "wait_return" => result' = (queue_ # {})
    <3>1. CASE WaitPredicate
      <4>1. /\ result' = (queue_ # {})
            /\ pc' = [pc EXCEPT ![Server] =
                        IF queue_ # {} \/ @ = "wait_last" THEN "wait_return"
                        ELSE "wait_sleep"]
        BY <1>3, <3>1 DEF WaitPredicate
      <4> DEFINE next == IF queue_ # {} \/ pc[Server] = "wait_last" THEN "wait_return"
                         ELSE "wait_sleep"
      <4>2. next \in WaitPc /\ pc' = [pc EXCEPT ![Server] = next]
        BY <4>1 DEF WaitPc
      <4> HIDE DEF next
      <4> QED
        BY <4>1, <4>2
    <3>2. CASE WaitBlock \/ WaitTimeout \/ WaitSpurious
      BY <3>2 DEF WaitBlock, WaitTimeout, WaitSpurious, WaitPc
    <3>3. CASE WaitRelock
      BY <3>3 DEF WaitRelock, WaitPc
    <3> QED
      BY <1>6, <3>1, <3>2, <3>3 DEF LoopWaiting, LoopTimeout, LoopSpurious
  <2>3. pc'[Server] = to /\ to \notin PopPc
    BY <1>4, <2>2 DEF WaitPc, PopPc
  <2>4. FalseAnswerHolds'
    BY <1>1, <2>1, <2>2, <2>3 DEF FalseAnswerHolds
  <2> QED
    BY <1>1, <1>2, <2>1, <2>2, <2>3, <2>4, TurnFrame
<1>7. CASE LoopWaited
  <2>1. /\ pc[Server] = "wait_return" /\ srv = "waiting"
        /\ srv' = IF result THEN "pop" ELSE "idle"
        /\ pc' = [pc EXCEPT ![Server] = "out"] /\ pc'[Server] = "out"
    BY <1>4, <1>7 DEF LoopWaited, WaitReturn, OneThread, WaitPc
  <2>2. FalseAnswerHolds'
    BY <1>1, <2>1 DEF FalseAnswerHolds
  <2> QED
    BY <1>1, <1>2, <2>1, <2>2, TurnFrame DEF WaitPc, PopPc
<1> QED
  BY <1>5, <1>6, <1>7

(* popMsg: each packet goes from the queue to the received ones and is     *)
(* counted at that moment.                                                 *)
LEMMA TurnPopInv ==
  ASSUME FlowInv, ChannelInv', test = "run", UNCHANGED <<breakingVars, testVars>>,
         LoopPop \/ OnMsg \/ LoopPopping \/ LoopPopped
  PROVE  FlowInv'
<1> USE DEF FlowInv, serverVars
<1>1. pc \in [Threads -> {"out"} \cup PushPc \cup WaitPc \cup PopPc] /\ Server \in Threads
  BY TestIsClient DEF ChannelInv, TypeOK
<1>2. CASE LoopPop
  <2>1. /\ srv = "pop" /\ srv' = "popping"
        /\ pc' = [pc EXCEPT ![Server] = "pop_drain"] /\ pc'[Server] = "pop_drain"
        /\ UNCHANGED <<queue_, received, arg, bShutDownPending_, msgCount_>>
    BY <1>1, <1>2 DEF LoopPop, PopLock
  <2>2. EachCountedOnce' /\ FalseAnswerHolds'
    BY <2>1 DEF EachCountedOnce, FalseAnswerHolds
  <2> QED
    BY <2>1, <2>2, TurnFrame DEF WaitPc, PopPc
<1>3. CASE OnMsg
  <2>1. PICK m \in Top(queue_) : received' = received \cup {m}
    BY <1>3 DEF OnMsg, PopTop
  <2>2. /\ srv = "popping" /\ srv' = "popping"
        /\ pc' = [pc EXCEPT ![Server] = "pop_remove"] /\ pc'[Server] = "pop_remove"
        /\ UNCHANGED <<queue_, arg, bShutDownPending_>>
        /\ msgCount_' = msgCount_ + 1
        /\ pc[Server] = "pop_drain"
    BY <1>1, <1>3 DEF OnMsg, PopTop, OneThread, PopPc
  <2>3. m \in queue_ /\ m \notin received
    BY <2>1, <2>2, ChannelAssumption DEF Top, ChannelInv, TypeOK, InHand
  <2>4. EachCountedOnce'
    BY <2>1, <2>2, <2>3, FS_AddElement DEF EachCountedOnce
  <2>5. FalseAnswerHolds'
    BY <2>2 DEF FalseAnswerHolds
  <2>6. queue_' \cup received' = queue_ \cup received
    BY <2>1, <2>2, <2>3
  <2> QED
    BY <2>2, <2>4, <2>5, <2>6, TurnFrame DEF WaitPc, PopPc
<1>4. CASE LoopPopping
  <2>1. /\ srv = "popping" /\ srv' = "popping"
        /\ pc' = [pc EXCEPT ![Server] = "pop_drain"] /\ pc'[Server] = "pop_drain"
        /\ UNCHANGED <<received, arg, bShutDownPending_, msgCount_>>
        /\ pc[Server] = "pop_remove" /\ queue_' = queue_ \ {current}
    BY <1>1, <1>4 DEF LoopPopping, PopRemove, OneThread, PopPc
  <2>2. EachCountedOnce' /\ FalseAnswerHolds'
    BY <2>1 DEF EachCountedOnce, FalseAnswerHolds
  <2>3. queue_' \cup received' = queue_ \cup received
    BY <2>1 DEF ChannelInv, InHand
  <2> QED
    BY <2>1, <2>2, <2>3, TurnFrame DEF WaitPc, PopPc
<1>5. CASE LoopPopped
  <2>1. /\ srv = "popping" /\ srv' = "loop"
        /\ pc' = [pc EXCEPT ![Server] = "out"] /\ pc'[Server] = "out"
        /\ UNCHANGED <<queue_, received, arg, bShutDownPending_, msgCount_>>
    BY <1>1, <1>5 DEF LoopPopped, PopUnlock, OneThread, PopPc
  <2>2. EachCountedOnce' /\ FalseAnswerHolds'
    BY <2>1 DEF EachCountedOnce, FalseAnswerHolds
  <2> QED
    BY <2>1, <2>2, TurnFrame DEF WaitPc, PopPc
<1> QED
  BY <1>2, <1>3, <1>4, <1>5

(* The idle turn: the queue is empty and nothing is on its way, so all has *)
(* been received.                                                          *)
LEMMA MockOnIdleInv ==
  ASSUME FlowInv, ChannelInv', MockOnIdle
  PROVE  FlowInv'
<1> USE DEF FlowInv, MockOnIdle, channelVars, breakingVars
<1>1. /\ srv = "idle" /\ srv' = "loop" /\ idles = 0 /\ idles' = 1
      /\ bShutDownPending_' = TRUE /\ firstIdle' = received
      /\ queue_ = {}
      /\ UNCHANGED <<queue_, pc, arg, received, result, status_, msgCount_, test, toPush>>
  BY DEF IdleEnds, FalseAnswerHolds
<1>2. received = Msg
  BY <1>1 DEF OneThread, PacketsAccounted, ChannelInv, TypeOK
<1>3. FlowTypeOK'
  BY <1>1, <1>2 DEF FlowTypeOK, ChannelInv
<1>4. OneThread'
  BY <1>1 DEF OneThread
<1>5. PacketsAccounted' /\ EachCountedOnce' /\ FalseAnswerHolds'
  BY <1>1 DEF PacketsAccounted, EachCountedOnce, FalseAnswerHolds
<1>6. IdleEnds'
  BY <1>1, <1>2 DEF IdleEnds
<1> QED
  BY <1>3, <1>4, <1>5, <1>6

(* FlowInv is inductive.                                                   *)
LEMMA StepFlowInv == FlowInv /\ [FlowNext]_flowVars => FlowInv'
<1> SUFFICES ASSUME FlowInv, [FlowNext]_flowVars PROVE FlowInv'
  OBVIOUS
<1>1. ChannelInv'
  BY FlowChannelInv
<1>2. CASE TestPush \/ TestPushing \/ MockOnIdle
  BY <1>1, <1>2, TestPushInv, TestPushingInv, MockOnIdleInv
<1>3. CASE TestRun \/ TestCheck
  BY <1>1, <1>3, OutsideInv
<1>4. CASE TestLoop
  <2>1. CASE LoopCondition \/ PollShutDown
    BY <1>1, <1>4, <2>1, OutsideInv
  <2>2. CASE LoopWait \/ LoopWaiting \/ LoopTimeout \/ LoopWaited
    BY <1>1, <1>4, <2>2, TurnWaitInv DEF TestLoop
  <2>3. CASE LoopPop \/ OnMsg \/ LoopPopping \/ LoopPopped
    BY <1>1, <1>4, <2>3, TurnPopInv DEF TestLoop
  <2> QED
    BY <1>4, <2>1, <2>2, <2>3 DEF TestLoop
<1>5. CASE TestSpurious
  BY <1>1, <1>5, TurnWaitInv DEF TestSpurious
<1>6. CASE UNCHANGED flowVars
  BY <1>1, <1>6 DEF flowVars, channelVars, breakingVars, serverVars, testVars, FlowInv,
     FlowTypeOK, ChannelInv, OneThread, PacketsAccounted, EachCountedOnce,
     FalseAnswerHolds, IdleEnds
<1> QED
  BY <1>2, <1>3, <1>4, <1>5, <1>6 DEF FlowNext, TestStep, Checked

-----------------------------------------------------------------------------
(* What holds after every step of the test, for any set of packets: the    *)
(* types, the channel's invariant, and where each packet is.               *)
THEOREM FlowCorrect == FlowSpec => []FlowInv
  BY InitFlowInv, StepFlowInv, PTL DEF FlowSpec

(* The test uses the channel as the channel's own specification says, and  *)
(* so all that is proved of the channel holds in the test too.             *)
THEOREM FlowUsesChannel == FlowSpec => ChannelSpec
<1>1. FlowInit => ChannelInit
  BY DEF FlowInit
<1> QED
  BY <1>1, FlowChannelStep, FlowCorrect, PTL DEF FlowSpec, ChannelSpec

(* onIdle is called once, when all that was pushed has been received.      *)
THEOREM IdleOnce == FlowSpec => []IdleOnceAtTheEnd
<1>1. FlowInv => IdleOnceAtTheEnd
  BY DEF FlowInv, IdleEnds, IdleOnceAtTheEnd
<1> QED
  BY <1>1, FlowCorrect, PTL

(* The server's count at the end is the number of the packets.             *)
THEOREM AllCounted == FlowSpec => []CountIsPushed
<1>1. FlowInv => CountIsPushed
  <2> SUFFICES ASSUME FlowInv, test = "checked"
               PROVE  msgCount_ = Cardinality(Msg) /\ queue_ = {}
    BY DEF CountIsPushed
  <2>1. queue_ = {} /\ toPush = {} /\ pc[Test] = "out"
    BY DEF FlowInv, OneThread, IdleEnds
  <2>2. received = Msg
    BY <2>1 DEF FlowInv, PacketsAccounted, ChannelInv, TypeOK
  <2> QED
    BY <2>1, <2>2 DEF FlowInv, EachCountedOnce
<1> QED
  BY <1>1, FlowCorrect, PTL
=============================================================================
