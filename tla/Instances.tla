----------------------------- MODULE Instances ------------------------------
(***************************************************************************)
(* The one Server of the process: getInstance, which checks srvInst_       *)
(* twice, once without its mutex, and releaseInstance, which takes no      *)
(* mutex (src/src/Server/Server.cpp:33-57).  main calls each once; here    *)
(* any number of threads call getInstance, again and again.                *)
(*                                                                         *)
(* getInstance publishes the server before it gives it its log, and        *)
(* initLog can throw: when the log's file cannot be opened, and when       *)
(* spdlog's registry still has a logger of that name, which it keeps until *)
(* the process ends.                                                       *)
(*                                                                         *)
(* The unlocked reads of srvInst_ race with the store under the mutex; a   *)
(* pointer is read whole, so they see it before or after.                  *)
(***************************************************************************)
EXTENDS Integers

CONSTANTS
  Callers,      \* threads that use the server
  NoThread,     \* mtx_ is free
  ServerLimit,  \* bound on the servers made
  FailureLimit  \* bound on log files that cannot be opened

ASSUME InstancesAssumption ==
  /\ NoThread \notin Callers
  /\ ServerLimit \in Nat \ {0}
  /\ FailureLimit \in Nat

VARIABLES
  pc,           \* where each caller is in getInstance
  mtx_,         \* the caller that holds Server::mtx_
  srvInst_,     \* the published server, or nullptr
  live,         \* servers made and not deleted
  logs,         \* servers whose initLog came to its end
  registered,   \* has spdlog's registry a "server_logger"?
  got,          \* the server each caller works with, or nullptr
  made,         \* servers made so far
  failures,     \* history: files that could not be opened
  threw,        \* history: servers whose initLog threw
  locked        \* history: callers whose last call took the mutex

static   == <<mtx_, srvInst_, live, made>>
logging  == <<logs, registered, failures, threw>>
instVars == <<pc, static, logging, got, locked>>

nullptr == 0

InstInit ==
  /\ pc = [t \in Callers |-> "out"]
  /\ mtx_ = NoThread
  /\ srvInst_ = nullptr
  /\ live = {}
  /\ logs = {}
  /\ registered = FALSE
  /\ got = [t \in Callers |-> nullptr]
  /\ made = 0
  /\ failures = 0
  /\ threw = {}
  /\ locked = {}

Goto(t, from, to) ==
  /\ pc[t] = from
  /\ pc' = [pc EXCEPT ![t] = to]

-----------------------------------------------------------------------------
(* getInstance, step by step                                               *)

Call(t) ==
  /\ Goto(t, "out", "first")
  /\ locked' = locked \ {t}
  /\ UNCHANGED <<static, logging, got>>

(* if (nullptr == srvInst_), without the mutex                             *)
FirstCheck(t) ==
  /\ Goto(t, "first", IF srvInst_ = nullptr THEN "lock" ELSE "return")
  /\ UNCHANGED <<static, logging, got, locked>>

Lock(t) ==
  /\ mtx_ = NoThread
  /\ Goto(t, "lock", "second")
  /\ mtx_' = t
  /\ locked' = locked \cup {t}
  /\ UNCHANGED <<srvInst_, live, made, logging, got>>

(* Mutant: srvInst_ is checked once only.                                  *)
SecondCheck_Dropped(t) ==
  /\ Goto(t, "second", "new")
  /\ UNCHANGED <<static, logging, got, locked>>

(* if (nullptr == srvInst_), with it                                       *)
SecondCheck(t) ==
  /\ Goto(t, "second", IF srvInst_ = nullptr THEN "new" ELSE "unlock")
  /\ UNCHANGED <<static, logging, got, locked>>

(* Mutant: the guard's scope ends before initLog.                          *)
Publish_Unlocks(t) ==
  /\ Goto(t, "new", "log")
  /\ made' = made + 1
  /\ srvInst_' = made'
  /\ live' = live \cup {made'}
  /\ mtx_' = NoThread
  /\ UNCHANGED <<logging, got, locked>>

(* srvInst_ = new Server(): from here on every other caller sees it.       *)
Publish(t) ==
  /\ Goto(t, "new", "log")
  /\ made' = made + 1
  /\ srvInst_' = made'
  /\ live' = live \cup {made'}
  /\ UNCHANGED <<mtx_, logging, got, locked>>

(* srvInst_->initLog()                                                     *)
InitLog(t) ==
  /\ ~registered
  /\ Goto(t, "log", "unlock")
  /\ logs' = logs \cup {srvInst_}
  /\ registered' = TRUE
  /\ UNCHANGED <<static, failures, threw, got, locked>>

(* Mutant: lock() and unlock() in place of the guard.                      *)
InitLogThrows_KeepsLock(t) ==
  /\ Goto(t, "log", "out")
  /\ \/ registered /\ UNCHANGED failures
     \/ failures < FailureLimit /\ failures' = failures + 1
  /\ threw' = threw \cup {srvInst_}
  /\ UNCHANGED <<static, logs, registered, got, locked>>

(* The exception leaves getInstance: the guard unlocks, the caller gets    *)
(* nothing, and the server without a log stays published.                  *)
InitLogThrows(t) ==
  /\ Goto(t, "log", "out")
  /\ \/ registered /\ UNCHANGED failures
     \/ failures < FailureLimit /\ failures' = failures + 1
  /\ threw' = threw \cup {srvInst_}
  /\ mtx_' = NoThread
  /\ UNCHANGED <<srvInst_, live, made, logs, registered, got, locked>>

Unlock(t) ==
  /\ Goto(t, "unlock", "return")
  /\ mtx_' = NoThread
  /\ UNCHANGED <<srvInst_, live, made, logging, got, locked>>

(* return srvInst_: read once more, without the mutex                      *)
Return(t) ==
  /\ Goto(t, "return", "out")
  /\ got' = [got EXCEPT ![t] = srvInst_]
  /\ UNCHANGED <<static, logging, locked>>

-----------------------------------------------------------------------------
(* releaseInstance is called when no one uses the server or is about to:   *)
(* main has joined its threads (main.cpp:66-77).                           *)

NobodyInside == \A t \in Callers : pc[t] = "out"

(* Mutant: the pointer is not reset.                                       *)
ReleaseInstance_KeepsPointer ==
  /\ NobodyInside
  /\ made < ServerLimit
  /\ srvInst_ # nullptr
  /\ live' = live \ {srvInst_}
  /\ got' = [t \in Callers |-> nullptr]
  /\ UNCHANGED <<pc, mtx_, srvInst_, made, logging, locked>>

ReleaseInstance ==
  /\ NobodyInside
  /\ made < ServerLimit
  /\ srvInst_ # nullptr
  /\ live' = live \ {srvInst_}
  /\ srvInst_' = nullptr
  /\ got' = [t \in Callers |-> nullptr]
  /\ UNCHANGED <<pc, mtx_, made, logging, locked>>

CallStep(t) ==
  \/ FirstCheck(t)
  \/ Lock(t)
  \/ SecondCheck(t)
  \/ Publish(t)
  \/ InitLog(t)
  \/ InitLogThrows(t)
  \/ Unlock(t)
  \/ Return(t)

InstNext ==
  \/ \E t \in Callers : Call(t) \/ CallStep(t)
  \/ ReleaseInstance

InstSpec == InstInit /\ [][InstNext]_instVars

(* A thread that called goes on with its call.                             *)
FairInstSpec == InstSpec /\ \A t \in Callers : WF_instVars(CallStep(t))

-----------------------------------------------------------------------------
(* Properties.                                                             *)

Servers == 1..ServerLimit
Holding == {"second", "new", "log", "unlock"}

(* Every variable keeps its type.                                          *)
InstTypeOK ==
  /\ pc \in [Callers -> {"out", "first", "lock", "return"} \cup Holding]
  /\ mtx_ \in Callers \cup {NoThread}
  /\ srvInst_ \in Servers \cup {nullptr}
  /\ live \subseteq Servers
  /\ logs \subseteq Servers
  /\ registered \in BOOLEAN
  /\ got \in [Callers -> Servers \cup {nullptr}]
  /\ made \in 0..ServerLimit
  /\ failures \in 0..FailureLimit
  /\ threw \subseteq Servers
  /\ locked \subseteq Callers

(* However the calls interleave, there is one server at a time.            *)
OneServer == \A s, u \in live : s = u

(* What a caller works with exists: an earlier server is never returned,   *)
(* nor a null pointer (the third read of srvInst_, Server.cpp:47).         *)
ReturnedAlive ==
  \A t \in Callers : got[t] # nullptr \/ pc[t] = "return" =>
    srvInst_ \in live /\ (got[t] # nullptr => got[t] = srvInst_)

(* A caller has a server without a log in two cases only.  The initLog of  *)
(* that server threw (at another call of getInstance; Server.cpp:43 leaves *)
(* it published).  Or the caller saw srvInst_ without the mutex (line 38), *)
(* and initLog is still under way: to have waited for the mutex excludes   *)
(* this second case, though not the first.                                 *)
LoglessOnlyAfterThrow ==
  \A t \in Callers : got[t] # nullptr /\ pc[t] = "out" =>
    \/ got[t] \in logs
    \/ got[t] \in threw
    \/ t \notin locked /\ \E u \in Callers : pc[u] = "log"

(* Every call comes to an end, if by an exception: a failing initLog does  *)
(* not leave the mutex locked.                                             *)
CallsReturn == \A t \in Callers : pc[t] = "first" ~> pc[t] = "out"

-----------------------------------------------------------------------------
(* The inductive invariant.                                                *)

(* The mutex is held by the caller that is past it, and by no other.       *)
HoldsLock == \A t \in Callers : pc[t] \in Holding <=> mtx_ = t

(* The pointer and the object exist together.                              *)
Published == live = {srvInst_} \ {nullptr}

(* A caller about to make a server does so where there is none.            *)
NothingYet == \A t \in Callers : pc[t] = "new" => srvInst_ = nullptr

(* Past the making of it, or past a check that saw one, there is a server. *)
ThereIsOne == \A t \in Callers : pc[t] \in {"log", "unlock", "return"} => srvInst_ # nullptr

(* The server is as good as initLog leaves it, but during initLog.         *)
Whole ==
  srvInst_ # nullptr =>
    srvInst_ \in logs \cup threw \/ \E t \in Callers : pc[t] = "log"

(* What a caller works with is the server there is; if it comes through    *)
(* the mutex, then initLog is through with that server.                    *)
WorksWith ==
  \A t \in Callers :
    /\ got[t] # nullptr => got[t] = srvInst_
    /\ pc[t] \in {"first", "lock"} => t \notin locked
    /\ t \in locked /\ pc[t] \in {"unlock", "return"} => srvInst_ \in logs \cup threw
    /\ t \in locked /\ pc[t] = "out" /\ got[t] # nullptr => srvInst_ \in logs \cup threw

(* While there is room for a server more, or one is being made for it.     *)
Room ==
  /\ srvInst_ =< made
  /\ srvInst_ = nullptr => made < ServerLimit

InstInv ==
  /\ InstTypeOK
  /\ HoldsLock
  /\ Published
  /\ NothingYet
  /\ ThereIsOne
  /\ Whole
  /\ WorksWith
  /\ Room
=============================================================================
