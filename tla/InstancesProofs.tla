-------------------------- MODULE InstancesProofs ---------------------------
(***************************************************************************)
(* Proofs about getInstance and releaseInstance, for any number of callers *)
(* and of servers.                                                         *)
(***************************************************************************)
EXTENDS Instances, TLAPS

USE InstancesAssumption

(* Nothing is published at the start.                                      *)
LEMMA InstInitInv == InstInit => InstInv
<1>1. InstInit => InstTypeOK
  <2> SUFFICES ASSUME InstInit
               PROVE  InstTypeOK
    OBVIOUS
  <2>1. pc \in [Callers -> {"out", "first", "lock", "return"} \cup Holding]
    BY DEF InstInit
  <2>2. got \in [Callers -> Servers \cup {nullptr}]
    BY DEF InstInit
  <2>3. made \in 0..ServerLimit /\ failures \in 0..FailureLimit
    BY DEF InstInit
  <2> QED
    BY <2>1, <2>2, <2>3 DEF InstInit, InstTypeOK
<1> QED
  BY <1>1 DEF InstInit, InstInv, HoldsLock, Published, NothingYet, ThereIsOne,
              Whole, WorksWith, Room, Holding, nullptr

(* The steps that move one caller and touch nothing that is shared: the    *)
(* call, the checks, and the return.                                       *)
LEMMA LookingInv ==
  ASSUME InstInv, NEW t \in Callers,
         Call(t) \/ FirstCheck(t) \/ SecondCheck(t) \/ Return(t)
  PROVE  InstInv'
<1>1. InstTypeOK'
  BY DEF InstInv, InstTypeOK, Call, FirstCheck, SecondCheck, Return, Goto, static, logging,
         Holding
<1>2. HoldsLock'
  BY DEF InstInv, InstTypeOK, HoldsLock, Call, FirstCheck, SecondCheck, Return, Goto,
         static, logging, Holding
<1>3. Published' /\ Room'
  BY DEF InstInv, Published, Room, Call, FirstCheck,
         SecondCheck, Return, static, logging
<1>4. NothingYet' /\ ThereIsOne'
  BY DEF InstInv, InstTypeOK, NothingYet, ThereIsOne, Call, FirstCheck, SecondCheck,
         Return, Goto, static, logging
<1>5. Whole'
  BY DEF InstInv, InstTypeOK, Whole, Call, FirstCheck, SecondCheck, Return, Goto, static,
         logging
<1>6. WorksWith'
  <2>1. CASE SecondCheck(t)
    <3>1. srvInst_ # nullptr => srvInst_ \in logs \cup threw
      BY <2>1 DEF InstInv, HoldsLock, Whole, SecondCheck, Goto, Holding
    <3> QED BY <2>1, <3>1 DEF InstInv, InstTypeOK, WorksWith, SecondCheck, Goto, static,
                             logging
  <2>2. CASE Call(t) \/ FirstCheck(t) \/ Return(t)
    BY <2>2 DEF InstInv, InstTypeOK, WorksWith, Call, FirstCheck, Return, Goto, static,
                logging
  <2> QED BY <2>1, <2>2
<1> QED BY <1>1, <1>2, <1>3, <1>4, <1>5, <1>6 DEF InstInv

(* Taking the mutex and giving it back.                                    *)
LEMMA LockingInv ==
  ASSUME InstInv, NEW t \in Callers, Lock(t) \/ Unlock(t)
  PROVE  InstInv'
<1>1. InstTypeOK'
  BY DEF InstInv, InstTypeOK, Lock, Unlock, Goto, logging, Holding
<1>2. HoldsLock'
  BY DEF InstInv, InstTypeOK, HoldsLock, Lock, Unlock, Goto, Holding
<1>3. Published' /\ Room'
  BY DEF InstInv, Published, Room, Lock, Unlock, logging
<1>4. NothingYet' /\ ThereIsOne'
  BY DEF InstInv, InstTypeOK, NothingYet, ThereIsOne, Lock, Unlock, Goto
<1>5. Whole'
  BY DEF InstInv, InstTypeOK, Whole, Lock, Unlock, Goto, logging
<1>6. WorksWith'
  BY DEF InstInv, InstTypeOK, WorksWith, Lock, Unlock, Goto, logging
<1> QED BY <1>1, <1>2, <1>3, <1>4, <1>5, <1>6 DEF InstInv

(* A new server: there was none, for the caller checked under the mutex.   *)
LEMMA PublishInv ==
  ASSUME InstInv, NEW t \in Callers, Publish(t)
  PROVE  InstInv'
<1>1. srvInst_ = nullptr /\ live = {} /\ made \in Nat /\ made < ServerLimit /\ srvInst_' = made + 1
  BY DEF InstInv, InstTypeOK, NothingYet, Published, Room, Publish, Goto
<1>2. InstTypeOK'
  BY <1>1 DEF InstInv, InstTypeOK, Publish, Goto, logging, Servers, Holding
<1>3. HoldsLock' /\ NothingYet' /\ ThereIsOne'
  BY <1>1 DEF InstInv, InstTypeOK, HoldsLock, NothingYet, ThereIsOne, Publish, Goto,
              Holding, nullptr
<1>4. Published' /\ Room'
  BY <1>1 DEF InstInv, Published, Room, Publish, logging, nullptr
<1>5. Whole'
  BY DEF InstInv, InstTypeOK, Whole, Publish, Goto
<1>6. WorksWith'
  BY <1>1 DEF InstInv, InstTypeOK, HoldsLock, ThereIsOne, WorksWith, Publish, Goto, logging, Holding
<1> QED BY <1>2, <1>3, <1>4, <1>5, <1>6 DEF InstInv

(* initLog succeeds or throws.                                             *)
LEMMA InitLogInv ==
  ASSUME InstInv, NEW t \in Callers, InitLog(t) \/ InitLogThrows(t)
  PROVE  InstInv'
<1>1. srvInst_ # nullptr /\ mtx_ = t /\ UNCHANGED <<srvInst_, live, made, got, locked>>
  BY DEF InstInv, HoldsLock, ThereIsOne, InitLog, InitLogThrows, Goto, static, Holding
<1>2. srvInst_ \in logs' \cup threw' /\ logs \subseteq logs' /\ threw \subseteq threw'
  BY DEF InitLog, InitLogThrows
<1>3. InstTypeOK'
  <2>1. CASE InitLog(t)
    BY <1>1, <2>1 DEF InstInv, InstTypeOK, InitLog, Goto, static, Holding
  <2>2. CASE InitLogThrows(t)
    BY <1>1, <2>2 DEF InstInv, InstTypeOK, InitLogThrows, Goto, Holding
  <2> QED BY <2>1, <2>2
<1>4. HoldsLock' /\ NothingYet' /\ ThereIsOne'
  BY <1>1 DEF InstInv, InstTypeOK, HoldsLock, NothingYet, ThereIsOne, InitLog,
              InitLogThrows, Goto, static, Holding
<1>5. Published' /\ Room'
  BY <1>1 DEF InstInv, Published, Room
<1>6. Whole'
  BY <1>1, <1>2 DEF Whole
<1>7. WorksWith'
  BY <1>1, <1>2 DEF InstInv, InstTypeOK, WorksWith, InitLog,
                    InitLogThrows, Goto
<1> QED BY <1>3, <1>4, <1>5, <1>6, <1>7 DEF InstInv

(* The release: no caller is inside, and none keeps the server.            *)
LEMMA ReleaseInv ==
  ASSUME InstInv, ReleaseInstance
  PROVE  InstInv'
<1>1. \A t \in Callers : pc[t] = "out" /\ got'[t] = nullptr
  BY DEF ReleaseInstance, NobodyInside
<1>2. srvInst_' = nullptr /\ live' = {} /\ UNCHANGED <<pc, mtx_, made, logging, locked>>
  BY DEF InstInv, Published, ReleaseInstance
<1>3. InstTypeOK'
  BY <1>2 DEF InstInv, InstTypeOK, ReleaseInstance, logging
<1>4. HoldsLock' /\ NothingYet' /\ ThereIsOne'
  BY <1>1, <1>2 DEF InstInv, HoldsLock, NothingYet, ThereIsOne
<1>5. Published' /\ Whole'
  BY <1>2 DEF InstInv, Published, Whole, logging
<1>6. Room'
  BY <1>2 DEF InstInv, InstTypeOK, Room, ReleaseInstance, nullptr
<1>7. WorksWith'
  BY <1>1, <1>2 DEF InstInv, InstTypeOK, WorksWith, logging
<1> QED BY <1>3, <1>4, <1>5, <1>6, <1>7 DEF InstInv

(* The invariant holds always.                                             *)
THEOREM InstancesCorrect == InstSpec => []InstInv
<1>1. InstInv /\ [InstNext]_instVars => InstInv'
  <2> SUFFICES ASSUME InstInv, [InstNext]_instVars
               PROVE  InstInv'
    OBVIOUS
  <2>1. CASE \E t \in Callers : Call(t) \/ CallStep(t)
    BY <2>1, LookingInv, LockingInv, PublishInv, InitLogInv DEF CallStep
  <2>2. CASE ReleaseInstance
    BY <2>2, ReleaseInv
  <2>3. CASE UNCHANGED instVars
    BY <2>3 DEF instVars, static, logging, InstInv, InstTypeOK, HoldsLock, Published,
                NothingYet, ThereIsOne, Whole, WorksWith, Room
  <2> QED BY <2>1, <2>2, <2>3 DEF InstNext
<1> QED BY <1>1, InstInitInv, PTL DEF InstSpec

(* The double check makes one server at a time (Server.cpp:38-46).         *)
THEOREM Singleton == InstSpec => []OneServer
<1>1. InstInv => OneServer
  BY DEF InstInv, Published, OneServer
<1> QED BY <1>1, InstancesCorrect, PTL

(* Whoever works with a server works with the one that exists.             *)
THEOREM NoDanglingServer == InstSpec => []ReturnedAlive
<1>1. InstInv => ReturnedAlive
  BY DEF InstInv, Published, ThereIsOne, WorksWith, ReturnedAlive
<1> QED BY <1>1, InstancesCorrect, PTL

(* A caller gets a server without a log only after its initLog threw, or   *)
(* past the unlocked check (Server.cpp:38) while it is under way.          *)
THEOREM NoLogMeansThrown == InstSpec => []LoglessOnlyAfterThrow
<1>1. InstInv => LoglessOnlyAfterThrow
  <2> SUFFICES ASSUME InstInv, NEW t \in Callers, got[t] # nullptr, pc[t] = "out"
               PROVE  \/ got[t] \in logs \cup threw
                      \/ t \notin locked /\ \E u \in Callers : pc[u] = "log"
    BY DEF LoglessOnlyAfterThrow
  <2>1. got[t] = srvInst_
    BY DEF InstInv, WorksWith
  <2>2. CASE t \in locked
    BY <2>1, <2>2 DEF InstInv, WorksWith
  <2>3. CASE t \notin locked
    BY <2>1, <2>3 DEF InstInv, Whole
  <2> QED BY <2>2, <2>3
<1> QED BY <1>1, InstancesCorrect, PTL
=============================================================================
