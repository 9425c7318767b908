---------------------------- MODULE PriorityQueue ----------------------------
(***************************************************************************)
(* The program (src/src/main.cpp): main starts one server thread and       *)
(* c_clients client threads on one channel, joins the clients, gives the   *)
(* server one more second, tells it to shut down, joins it and reports.    *)
(* Ctrl+Break may come at any point after the handler is installed.        *)
(*                                                                         *)
(* The second that main sleeps is the state main = "sleep"; it may be      *)
(* arbitrarily long or short for the server (polled records whether it was *)
(* long enough for one turn of the loop).                                  *)
(***************************************************************************)
EXTENDS Client, Server

CONSTANT MaxClients       \* bound on the argument --clients

ASSUME ProgramAssumption ==
  /\ MaxClients \in Nat
  /\ Clients = 1..MaxClients

VARIABLES
  main,         \* where the main thread is
  c_clients,    \* argument --clients
  c_msgs,       \* argument --messages
  i,            \* the index of the loops that start and join the clients
  alive,        \* which of the objects "channel", "server" exist
  clients,      \* the vector of Client objects
  report,       \* the word printed at the end
  returned,     \* main's return value
  polled,       \* history: did the server read bShutDownPending_ = FALSE
                \* while main slept?
  late          \* history: packets each client queued, and batches the
                \* server began, after the break

arguments == <<c_clients, c_msgs>>
objects   == <<alive, clients>>
outcome   == <<report, returned>>
mainVars  == <<main, arguments, i, objects, outcome>>
history   == <<polled, late>>
vars == <<channelVars, breakingVars, clientVars, serverVars, mainVars, history>>

Init ==
  /\ ChannelInit
  /\ BreakingInit
  /\ ClientInit
  /\ ServerInit
  /\ main = "arguments"
  /\ c_clients = 0
  /\ c_msgs = 0
  /\ i = 1
  /\ alive = {}
  /\ clients = {}
  /\ report = "none"
  /\ returned = "none"
  /\ polled = FALSE
  /\ late = [t \in Threads |-> 0]

Goto(from, to) ==
  /\ main = from
  /\ main' = to

-----------------------------------------------------------------------------
(* main()                                                                  *)

MAX_CLIENTS == 50

(* processArguments: the option clients is there and within the limit (no  *)
(* client at all is, too); messages is any number.                         *)
AcceptArguments ==
  /\ Goto("arguments", "handler")
  /\ c_clients' \in 0..MaxClients
  /\ MAX_CLIENTS >= c_clients'
  /\ c_msgs' \in 0..MsgLimit
  /\ UNCHANGED <<breakingVars, clientVars, serverVars, i, objects, outcome>>

(* Anything else, parsing errors included.                                 *)
RejectArguments ==
  /\ Goto("arguments", "done")
  /\ returned' = "1"
  /\ UNCHANGED <<breakingVars, clientVars, serverVars, arguments, i, objects, report>>

InstallHandler ==
  /\ Goto("handler", "objects")
  /\ ReactivateHandler
  /\ UNCHANGED <<clientVars, serverVars, arguments, i, objects, outcome>>

(* getPriorityQueueInstance() into spChannel; Server::getInstance().       *)
MakeObjects ==
  /\ Goto("objects", "startServer")
  /\ alive' = {"channel", "server"}
  /\ UNCHANGED <<breakingVars, clientVars, serverVars, arguments, i, clients, outcome>>

StartServer ==
  /\ Goto("startServer", "startClients")
  /\ ServerStart
  /\ UNCHANGED <<breakingVars, clientVars, arguments, i, objects, outcome>>

(* One turn of startClients' loop: the Client object, then its thread.     *)
StartClient ==
  /\ main = "startClients"
  /\ i =< c_clients
  /\ clients' = clients \cup {i}
  /\ ClientStart(i, c_msgs)
  /\ i' = i + 1
  /\ UNCHANGED <<breakingVars, serverVars, main, arguments, alive, outcome>>

ClientsStarted ==
  /\ i > c_clients
  /\ Goto("startClients", "join")
  /\ i' = 1
  /\ UNCHANGED <<breakingVars, clientVars, serverVars, arguments, objects, outcome>>

(* Mutant: the clients are detached, not joined.                           *)
JoinClient_Detached ==
  /\ main = "join"
  /\ i =< c_clients
  /\ i' = i + 1
  /\ UNCHANGED <<breakingVars, clientVars, serverVars, main, arguments, objects, outcome>>

(* for (auto& th: clientThreads) th.join();                                *)
JoinClient ==
  /\ main = "join"
  /\ i =< c_clients
  /\ cli[i] = "gone"
  /\ i' = i + 1
  /\ UNCHANGED <<breakingVars, clientVars, serverVars, main, arguments, objects, outcome>>

ClientsJoined ==
  /\ i > c_clients
  /\ Goto("join", "sleep")
  /\ UNCHANGED <<breakingVars, clientVars, serverVars, arguments, i, objects, outcome>>

(* scheduleShutDown: the sleep is over, the flag is set.                   *)
ScheduleShutDown ==
  /\ Goto("sleep", "joinServer")
  /\ SetShutDownPending
  /\ UNCHANGED <<breakingVars, clientVars, arguments, i, objects, outcome>>

(* Mutant: the server is detached, not joined.                             *)
JoinServer_Detached ==
  /\ Goto("joinServer", "report")
  /\ clients' = {}
  /\ UNCHANGED <<breakingVars, clientVars, serverVars, arguments, i, alive, outcome>>

(* srvTh.join(); clients.clear()                                           *)
JoinServer ==
  /\ srv = "gone"
  /\ Goto("joinServer", "report")
  /\ clients' = {}
  /\ UNCHANGED <<breakingVars, clientVars, serverVars, arguments, i, alive, outcome>>

(* The status is read once more to choose the word.  The local exitCode is *)
(* chosen with it and never used.                                          *)
Report ==
  /\ Goto("report", "release")
  /\ report' = IF gl_getCancelStatus THEN "Aborted" ELSE "Done"
  /\ UNCHANGED <<breakingVars, clientVars, serverVars, arguments, i, objects, returned>>

(* Server::releaseInstance()                                               *)
ReleaseServer ==
  /\ Goto("release", "return")
  /\ alive' = alive \ {"server"}
  /\ UNCHANGED <<breakingVars, clientVars, serverVars, arguments, i, clients, outcome>>

(* return 0, which destroys spChannel                                      *)
Return ==
  /\ Goto("return", "done")
  /\ alive' = alive \ {"channel"}
  /\ returned' = "0"
  /\ UNCHANGED <<breakingVars, clientVars, serverVars, arguments, i, clients, report>>

(* An exception that nobody catches, from initLog or from a std::thread     *)
(* that cannot be created: std::terminate ends the process and all threads. *)
Terminate ==
  /\ \/ main \in {"objects", "startServer"}
     \/ main = "startClients" /\ i =< c_clients
  /\ main' = "done"
  /\ returned' = "terminated"
  /\ UNCHANGED <<breakingVars, clientVars, serverVars, arguments, i, objects, report>>

MainThread ==
  /\ \/ AcceptArguments
     \/ RejectArguments
     \/ InstallHandler
     \/ MakeObjects
     \/ StartServer
     \/ StartClient
     \/ ClientsStarted
     \/ JoinClient
     \/ ClientsJoined
     \/ ScheduleShutDown
     \/ JoinServer
     \/ Report
     \/ ReleaseServer
     \/ Return
     \/ Terminate
  /\ UNCHANGED <<channelVars, history>>

-----------------------------------------------------------------------------
(* The threads side by side.                                               *)

Break ==
  /\ main # "done"
  /\ CtrlBreakHandler
  /\ UNCHANGED <<channelVars, clientVars, serverVars, mainVars, history>>

ClientThread(c) ==
  /\ main # "done"
  /\ ClientStep(c)
  /\ late' = IF gl_getCancelStatus /\ queue_' # queue_
             THEN [late EXCEPT ![c] = @ + 1] ELSE late
  /\ UNCHANGED <<breakingVars, serverVars, mainVars, polled>>

(* What the history and the other threads' variables do in a server step.  *)
ServerRecord ==
  /\ polled' = (polled \/ (srv = "poll" /\ srv' = "wait" /\ main = "sleep"))
  /\ late' = IF gl_getCancelStatus /\ srv = "pop" /\ srv' = "popping"
             THEN [late EXCEPT ![Server] = @ + 1] ELSE late
  /\ UNCHANGED <<breakingVars, clientVars, mainVars>>

ServerThread == main # "done" /\ ServerStep /\ ServerRecord

(* The process is gone, and every thread with it.                          *)
Terminated ==
  /\ main = "done"
  /\ UNCHANGED vars

Next ==
  \/ MainThread
  \/ \E c \in Clients : ClientThread(c)
  \/ ServerThread
  \/ Break
  \/ Terminated

Spec == Init /\ [][Next]_vars

(* Each thread is scheduled; the timeout as in ChannelFairness.  Neither a *)
(* break nor a spurious wake-up need come.                                 *)
Fairness ==
  /\ WF_vars(MainThread)
  /\ \A c \in Clients : WF_vars(ClientThread(c))
  /\ WF_vars(main # "done" /\ ServerProgress /\ ServerRecord)
  /\ SF_vars(main # "done" /\ LoopTimeout /\ ServerRecord)

FairSpec == Spec /\ Fairness
-----------------------------------------------------------------------------
(* Properties.                                                             *)

MainPc == {"arguments", "handler", "objects", "startServer", "startClients",
           "join", "sleep", "joinServer", "report", "release", "return", "done"}

(* Every variable keeps its type.                                          *)
ProgramTypeOK ==
  /\ TypeOK
  /\ status_ \in {"Initial", "Pending"}
  /\ handler \in BOOLEAN
  /\ cli \in [Clients -> {"unborn", "loop", "generate", "push", "pushing", "gone"}]
  /\ msgCount \in [Clients -> 0..SizeMax]
  /\ issued \in [Clients -> 0..MsgLimit]
  /\ msg \in [Clients -> Msg \cup {NoMsg}]
  /\ srv \in {"unborn", "loop", "poll", "wait", "waiting", "pop", "popping",
              "idle", "gone"}
  /\ bShutDownPending_ \in BOOLEAN
  /\ msgCount_ \in Nat
  /\ main \in MainPc
  /\ c_clients \in 0..MaxClients
  /\ c_msgs \in 0..MsgLimit
  /\ i \in 1..(MaxClients + 1)
  /\ alive \subseteq {"channel", "server"}
  /\ clients \subseteq Clients
  /\ report \in {"none", "Done", "Aborted"}
  /\ returned \in {"none", "0", "1", "terminated"}
  /\ polled \in BOOLEAN
  /\ late \in [Threads -> Nat]

(* The threads hold references to main's locals (main.cpp:157, 176) and    *)
(* raw pointers: none of them runs when what it refers to is gone.         *)
NoUseAfterRelease ==
  /\ srv \notin {"unborn", "gone"} => {"channel", "server"} \subseteq alive
  /\ \A c \in Clients : cli[c] \notin {"unborn", "gone"} =>
       "channel" \in alive /\ c \in clients

(* waitForMsg and popMsg take different mutexes (Server.cpp:110-111): the  *)
(* loop may ignore popMsg's answer, for it never pops an empty queue.      *)
NeverPopsInVain == srv = "popping" => hadMessages

(* The word "Done" comes from a read of the status after all threads are   *)
(* gone (main.cpp:84); no client can have been cut short then: each issued *)
(* all its packets and all of them are received or still queued.           *)
DoneMeansAllIssued ==
  report = "Done" =>
    /\ \A c \in 1..c_clients : issued[c] = c_msgs
    /\ Cardinality(queue_ \cup received) = c_clients * c_msgs

(* The server does not drain the queue when told to shut down              *)
(* (Server.cpp:107-108).  Nothing is left behind if it made one turn while *)
(* main slept, and the printed count is then the number issued.            *)
DoneMeansAllReceived ==
  report = "Done" /\ polled => queue_ = {} /\ msgCount_ = c_clients * c_msgs

(* After a break each client queues at most the one packet it was busy     *)
(* with (Client.cpp:27) and the server begins at most one more batch       *)
(* (Server.cpp:105-111).                                                   *)
BreakStopsSoon == \A t \in Threads : late[t] =< 1

(* The shutdown flag is set after the last push: the queue only shrinks.   *)
NoPushAfterShutDown == [][bShutDownPending_ => queue_' \subseteq queue_]_vars

(* The program uses the channel as ChannelImpl expects of its callers: one *)
(* waiting thread, no packet pushed twice; what is proved of the channel   *)
(* holds in the program.                                                   *)
UsesChannel == ChannelSpec

(* "clients number (not above than 10)" (README.md:20, main.cpp:33).       *)
AtMostTenClients == c_clients =< 10

(* With or without a break, the program ends: every join returns.          *)
Terminates == <>(main = "done")

(* A queued packet is received, unless the server or the process has ended. *)
PacketsReceived ==
  \A m \in Msg : m \in queue_ ~> m \in received \/ srv = "gone" \/ main = "done"

-----------------------------------------------------------------------------
(* The inductive invariant behind the safety properties above.             *)

(* A thread's place in its own loop and its place in the channel agree.    *)
Placed ==
  /\ \A c \in Clients : cli[c] = "pushing" <=> pc[c] # "out"
  /\ srv = "waiting" <=> pc[Server] \in WaitPc
  /\ srv = "popping" <=> pc[Server] \in PopPc

(* What a client has issued and what it has still to issue.                *)
Counted ==
  \A c \in Clients :
    /\ cli[c] = "unborn" => msgCount[c] = 0 /\ issued[c] = 0
    /\ cli[c] = "generate" => issued[c] + msgCount[c] + 1 = c_msgs
    /\ cli[c] \in {"loop", "push", "pushing"} => issued[c] + msgCount[c] = c_msgs
    /\ cli[c] = "gone" =>
         \/ issued[c] + msgCount[c] = c_msgs
         \/ issued[c] = c_msgs /\ msgCount[c] = SizeMax

Known == queue_ \cup received

(* The client's latest packet is generated and not queued yet.             *)
OnItsWay(c) == cli[c] = "push" \/ pc[c] = "push_emplace"

(* Packets are numbered without a gap: each but the one on its way is      *)
(* queued or received, and there is one for each number.                   *)
Serials ==
  /\ \A c \in Clients : cli[c] \in {"push", "pushing"} =>
       msg[c] \in Msg /\ msg[c].dwClientId = c /\ msg[c].n = issued[c]
  /\ \A c \in Clients : arg[c] = IF cli[c] = "pushing" THEN msg[c] ELSE NoMsg
  /\ \A m \in Known :
       /\ m.n =< issued[m.dwClientId]
       /\ OnItsWay(m.dwClientId) => m.n # issued[m.dwClientId]
  /\ \A m, n \in Known : m.dwClientId = n.dwClientId /\ m.n = n.n => m = n
  /\ \A c \in Clients : \A k \in 1..issued[c] :
       \/ k = issued[c] /\ OnItsWay(c)
       \/ \E m \in Known : m.dwClientId = c /\ m.n = k

(* onMsg counts each packet once.                                          *)
CountsReceived == IsFiniteSet(received) /\ msgCount_ = Cardinality(received)

(* Which threads there are at which point of main.                         *)
AllJoined ==
  \A c \in Clients : cli[c] = IF c =< c_clients THEN "gone" ELSE "unborn"

Started ==
  /\ main \in {"arguments", "handler", "objects", "startServer"} =>
       srv = "unborn" /\ i = 1 /\ \A c \in Clients : cli[c] = "unborn"
  /\ main = "startClients" =>
       i =< c_clients + 1 /\ \A c \in Clients : c >= i => cli[c] = "unborn"
  /\ main = "join" => \A c \in Clients :
       /\ c > c_clients => cli[c] = "unborn"
       /\ c < i => cli[c] \in {"gone", "unborn"}
       /\ c =< c_clients => cli[c] # "unborn"
  /\ main = "startClients" => \A c \in Clients : c < i => cli[c] # "unborn"
  /\ main \in {"sleep", "joinServer", "report", "release", "return"} => AllJoined
  /\ main \in {"report", "release", "return"} => srv = "gone"
  /\ main \in {"startClients", "join", "sleep", "joinServer"} => srv # "unborn"
  /\ main \in {"startServer", "startClients", "join", "sleep", "joinServer"} =>
       alive = {"channel", "server"}
  /\ bShutDownPending_ =>
       main \in {"joinServer", "report", "release", "return", "done"} /\ AllJoined

(* What a break leaves undone, and what its absence means.                 *)
Broken ==
  /\ ~ gl_getCancelStatus =>
       /\ \A t \in Threads : late[t] = 0
       /\ \A c \in Clients : cli[c] = "gone" => issued[c] = c_msgs
  /\ \A c \in Clients : cli[c] = "generate" \/ OnItsWay(c) => late[c] = 0
  /\ srv \in {"poll", "wait", "waiting", "pop"} => late[Server] = 0

(* The turn of the loop that began while main slept leaves the queue empty. *)
LastTurn ==
  polled =>
    /\ main \in {"sleep", "joinServer", "report", "release", "return", "done"}
    /\ AllJoined
    /\ ~ gl_getCancelStatus =>
         \/ queue_ = {}
         \/ srv \in {"wait", "pop", "popping"}
         \/ srv = "waiting" /\ (pc[Server] = "wait_pred" \/ result)

Reported ==
  /\ report # "none" => main \in {"release", "return", "done"}
  /\ report = "Done" =>
       /\ srv = "gone"
       /\ AllJoined
       /\ \A c \in Clients : c =< c_clients => issued[c] = c_msgs
       /\ polled => queue_ = {}

(* All of it.  srv = "pop" with a founded answer is what NeverPopsInVain   *)
(* rests on.                                                               *)
ProgramInv ==
  /\ ProgramTypeOK
  /\ ChannelInv
  /\ Placed
  /\ Counted
  /\ Serials
  /\ CountsReceived
  /\ Started
  /\ Broken
  /\ LastTurn
  /\ Reported
  /\ NoUseAfterRelease
  /\ srv = "pop" => result
  /\ NeverPopsInVain
  /\ BreakStopsSoon

-----------------------------------------------------------------------------
(* Who waits for whom.                                                     *)

(* What the guards of MainThread, ClientThread and ServerThread ask for.   *)
MainMayMove ==
  \/ main \in {"arguments", "handler", "objects", "sleep", "report", "release", "return"}
  \/ main = "startServer" /\ srv = "unborn"
  \/ main = "startClients" /\ (i =< c_clients => cli[i] = "unborn")
  \/ main = "join" /\ (i =< c_clients => cli[i] = "gone")
  \/ main = "joinServer" /\ srv = "gone"

ClientMayMove(c) ==
  \/ cli[c] = "loop"
  \/ cli[c] = "generate" /\ Priority # {}
  \/ cli[c] = "push" /\ pc[c] = "out" /\ mtx_ = NoThread
  \/ cli[c] = "pushing" /\ PushMayMove(c)

ServerMayMove ==
  \/ srv \in {"loop", "poll", "idle"}
  \/ srv = "wait" /\ pc[Server] = "out" /\ cv_mtx_ = NoThread
  \/ srv = "waiting" /\ WaitMayMove
  \/ srv = "pop" /\ pc[Server] = "out" /\ mtx_ = NoThread
  \/ srv = "popping" /\ PopMayMove

(* main waits for a client, a client or the server waits for mtx_, and     *)
(* never all of them: until the program ends, one thread can go on.        *)
SomeoneMayMove ==
  main # "done" =>
    MainMayMove \/ ServerMayMove \/ \E c \in Clients : ClientMayMove(c)
=============================================================================
