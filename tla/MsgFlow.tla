------------------------------ MODULE MsgFlow -------------------------------
(***************************************************************************)
(* MsgFlowTest (src/src/g.tests/src/server-ts.cpp:59-83): the server       *)
(* without main.  One thread pushes its packets, then runs Server::run     *)
(* itself, on a mock whose onIdle calls scheduleShutDown: the flag is set  *)
(* by the thread that polls it, and only an idle turn of the loop ends it. *)
(*                                                                         *)
(* The test pushes one packet; here it pushes any set of them.  What it    *)
(* expects of the calls is what the properties say.                        *)
(***************************************************************************)
EXTENDS Server

CONSTANT Test   \* the test, in its role as the channel's one client

ASSUME MsgFlowAssumption == Clients = {Test}

VARIABLES
  test,         \* "push", "run" or "checked"
  toPush,       \* packets the test has not pushed yet
  idles,        \* calls of onIdle
  firstIdle     \* history: the packets received before the first of them

testVars == <<test, toPush, idles, firstIdle>>
flowVars == <<channelVars, breakingVars, serverVars, testVars>>

(* SetUp: a server whose log is never made, and an empty channel.          *)
FlowInit ==
  /\ ChannelInit
  /\ BreakingInit
  /\ ServerInit
  /\ test = "push"
  /\ toPush = Msg
  /\ idles = 0
  /\ firstIdle = {}

(* spChannel_->pushMsg(msg), in any order.                                 *)
TestPush ==
  /\ test = "push"
  /\ \E m \in toPush :
       /\ PushLock(Test, m)
       /\ toPush' = toPush \ {m}
  /\ UNCHANGED <<breakingVars, serverVars, test, idles, firstIdle>>

TestPushing ==
  /\ PushEmplace(Test) \/ PushNotify(Test) \/ PushUnlock(Test)
  /\ UNCHANGED <<breakingVars, serverVars, testVars>>

(* Server::run(server_, spChannel_), on the same thread.                   *)
TestRun ==
  /\ test = "push"
  /\ toPush = {}
  /\ pc[Test] = "out"
  /\ test' = "run"
  /\ ServerStart
  /\ UNCHANGED <<channelVars, breakingVars, toPush, idles, firstIdle>>

(* The turns of Server::loop, but for onIdle; the mock's onMsg calls the   *)
(* server's own.                                                           *)
TestLoop ==
  /\ test = "run"
  /\ \/ LoopCondition
     \/ PollShutDown
     \/ LoopWait
     \/ LoopWaiting
     \/ LoopTimeout
     \/ LoopWaited
     \/ LoopPop
     \/ OnMsg
     \/ LoopPopping
     \/ LoopPopped
  /\ UNCHANGED <<breakingVars, testVars>>

TestSpurious ==
  /\ test = "run"
  /\ LoopSpurious
  /\ UNCHANGED <<breakingVars, testVars>>

(* Mutant: the mock's action is forgotten.                                 *)
MockOnIdle_Default ==
  /\ srv = "idle"
  /\ srv' = "loop"
  /\ idles' = 1
  /\ firstIdle' = IF idles = 0 THEN received ELSE firstIdle
  /\ UNCHANGED <<channelVars, breakingVars, bShutDownPending_, msgCount_, test, toPush>>

(* MockServer::onIdle: scheduleShutDown sleeps a second and sets the flag. *)
MockOnIdle ==
  /\ srv = "idle"
  /\ srv' = "loop"
  /\ bShutDownPending_' = TRUE
  /\ idles' = idles + 1
  /\ firstIdle' = IF idles = 0 THEN received ELSE firstIdle
  /\ UNCHANGED <<channelVars, breakingVars, msgCount_, test, toPush>>

TestCheck ==
  /\ test = "run"
  /\ srv = "gone"
  /\ test' = "checked"
  /\ UNCHANGED <<channelVars, breakingVars, serverVars, toPush, idles, firstIdle>>

TestStep ==
  \/ TestPush
  \/ TestPushing
  \/ TestRun
  \/ TestLoop
  \/ MockOnIdle
  \/ TestCheck

Checked ==
  /\ test = "checked"
  /\ UNCHANGED flowVars

FlowNext == TestStep \/ TestSpurious \/ Checked

FlowSpec == FlowInit /\ [][FlowNext]_flowVars

(* The thread goes on, and its waits end, as in ChannelFairness.           *)
FairFlowSpec ==
  /\ FlowSpec
  /\ WF_flowVars(TestStep)
  /\ SF_flowVars(test = "run" /\ LoopTimeout /\ UNCHANGED <<breakingVars, testVars>>)

-----------------------------------------------------------------------------
(* Properties.                                                             *)

(* Every variable keeps its type.                                          *)
FlowTypeOK ==
  /\ TypeOK
  /\ srv \in {"unborn", "loop", "poll", "wait", "waiting", "pop", "popping",
              "idle", "gone"}
  /\ bShutDownPending_ \in BOOLEAN
  /\ msgCount_ \in Nat
  /\ test \in {"push", "run", "checked"}
  /\ toPush \subseteq Msg
  /\ idles \in Nat
  /\ firstIdle \subseteq Msg

(* onIdle is called when all that was pushed has been received, and once:  *)
(* a wait that ends without an answer leaves no packet behind, and the     *)
(* flag is seen in the next turn, before another wait.                     *)
(* EXPECT_CALL(onIdle).After(onMsgExp).WillOnce (server-ts.cpp:72-76)      *)
IdleOnceAtTheEnd ==
  /\ idles > 0 => firstIdle = Msg
  /\ idles =< 1
  /\ srv = "gone" => idles = 1

(* EXPECT_EQ(getReceivedMsgCount(), 1) (server-ts.cpp:82), for any number  *)
(* of packets: each was counted once and none is left.                     *)
CountIsPushed == test = "checked" => msgCount_ = Cardinality(Msg) /\ queue_ = {}

(* The test ends.                                                          *)
TestEnds == <>(test = "checked")

-----------------------------------------------------------------------------
(* The inductive invariant.                                                *)

(* The one thread pushes first and runs the server then, as its own place  *)
(* in the channel's code shows; no signal comes.                           *)
OneThread ==
  /\ status_ = "Initial"
  /\ test = "push" <=> srv = "unborn"
  /\ test # "push" => toPush = {} /\ pc[Test] = "out"
  /\ test = "checked" => srv = "gone"
  /\ srv = "waiting" <=> pc[Server] \in WaitPc
  /\ srv = "popping" <=> pc[Server] \in PopPc

(* Each packet is still to push, on its way, queued or received.           *)
PacketsAccounted ==
  /\ toPush \cap (queue_ \cup received) = {}
  /\ arg[Test] \notin toPush
  /\ \A m \in Msg : \/ m \in toPush \cup queue_ \cup received
                    \/ pc[Test] = "push_emplace" /\ m = arg[Test]

EachCountedOnce == IsFiniteSet(received) /\ msgCount_ = Cardinality(received)

(* With no other thread, the answer FALSE means an empty queue.            *)
FalseAnswerHolds ==
  (pc[Server] = "wait_return" /\ ~ result) \/ srv = "idle" => queue_ = {}

(* The first idle turn is the last turn but for the poll that ends it.     *)
IdleEnds ==
  \/ /\ idles = 0
     /\ firstIdle = {}
     /\ ~ bShutDownPending_
     /\ srv # "gone"
  \/ /\ idles = 1
     /\ firstIdle = Msg
     /\ bShutDownPending_
     /\ srv \in {"loop", "poll", "gone"}
     /\ queue_ = {}

FlowInv ==
  /\ FlowTypeOK
  /\ ChannelInv
  /\ OneThread
  /\ PacketsAccounted
  /\ EachCountedOnce
  /\ FalseAnswerHolds
  /\ IdleEnds
=============================================================================
