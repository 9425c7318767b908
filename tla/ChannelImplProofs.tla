-------------------------- MODULE ChannelImplProofs --------------------------
(***************************************************************************)
(* What holds of the channel for any number of clients and packets.        *)
(* ChannelInv is inductive; the safety properties are its conjuncts or     *)
(* follow from it and one step, and so does the refinement of              *)
(* PriorityMailbox.  Two results come last: the threads inside the channel *)
(* cannot deadlock, and what a mailbox promises holds of the channel.      *)
(***************************************************************************)
EXTENDS ChannelImpl, TLAPS, WellFoundedInduction

-----------------------------------------------------------------------------
(* ChannelInv is inductive.                                                *)

(* The empty channel satisfies the invariant.                              *)
LEMMA InitInv == ChannelInit => ChannelInv
  <1> SUFFICES ASSUME ChannelInit PROVE ChannelInv
    OBVIOUS
  <1> USE ChannelAssumption DEF ChannelInit, Threads, PushPc, PopPc, WaitPc
  <1>1. TypeOK
    <2>1. batch \in Seq(Msg)
      OBVIOUS
    <2>2. /\ pc \in [Threads -> {"out"} \cup PushPc \cup WaitPc \cup PopPc]
          /\ \A c \in Clients : pc[c] \in {"out"} \cup PushPc
          /\ pc[Server] \in {"out"} \cup WaitPc \cup PopPc
      OBVIOUS
    <2>3. /\ queue_ \subseteq Msg
          /\ mtx_ \in Threads \cup {NoThread}
          /\ cv_mtx_ \in {Server, NoThread}
          /\ arg \in [Clients -> Msg \cup {NoMsg}]
      OBVIOUS
    <2>4. /\ result \in BOOLEAN
          /\ hadMessages \in BOOLEAN
          /\ current \in Msg \cup {NoMsg}
          /\ received \subseteq Msg
      OBVIOUS
    <2> QED
      BY <2>1, <2>2, <2>3, <2>4 DEF TypeOK
  <1>2. InsideHoldsLock
    BY DEF InsideHoldsLock
  <1>3. PushedPacket /\ InHand
    BY DEF PushedPacket, InHand
  <1>4. TrueAnswerHolds /\ AnswerUsedUp /\ NotifiedFindsPacket
    BY DEF TrueAnswerHolds, AnswerUsedUp, NotifiedFindsPacket
  <1>5. BatchInPriorityOrder /\ BatchAheadOfQueue
    BY DEF BatchInPriorityOrder, BatchAheadOfQueue
  <1> QED
    BY <1>1, <1>2, <1>3, <1>4, <1>5 DEF ChannelInv

(* pushMsg takes its lock: only the pusher's own variables change.         *)
LEMMA PushLockInv ==
  ASSUME ChannelInv, NEW c \in Clients, NEW m \in Msg, Fresh(m), PushLock(c, m)
  PROVE  ChannelInv'
  <1> USE ChannelAssumption
      DEF ChannelInv, TypeOK, PushLock, Threads, PushPc, PopPc, WaitPc
  <1>1. TypeOK'
    OBVIOUS
  <1>2. InsideHoldsLock'
    BY DEF InsideHoldsLock
  <1>3. PushedPacket'
    BY DEF PushedPacket, Fresh
  <1>4. InHand'
    BY DEF InHand
  <1>5. TrueAnswerHolds' /\ AnswerUsedUp' /\ NotifiedFindsPacket'
    BY DEF TrueAnswerHolds, AnswerUsedUp, NotifiedFindsPacket
  <1>6. BatchInPriorityOrder' /\ BatchAheadOfQueue'
    BY DEF BatchInPriorityOrder, BatchAheadOfQueue
  <1> QED
    BY <1>1, <1>2, <1>3, <1>4, <1>5, <1>6

(* The queue grows.  The lock keeps every other pusher, and the server's   *)
(* drain, outside.                                                         *)
LEMMA PushEmplaceInv ==
  ASSUME ChannelInv, NEW c \in Clients, PushEmplace(c)
  PROVE  ChannelInv'
  <1> USE ChannelAssumption
      DEF ChannelInv, TypeOK, PushEmplace, Threads, PushPc, PopPc, WaitPc
  <1>1. TypeOK'
    BY DEF PushedPacket
  <1>2. InsideHoldsLock'
    BY DEF InsideHoldsLock
  <1>3. PushedPacket'
    BY DEF PushedPacket, InsideHoldsLock
  <1>4. InHand'
    BY DEF InHand, PushedPacket
  <1>5. TrueAnswerHolds' /\ AnswerUsedUp' /\ NotifiedFindsPacket'
    BY DEF TrueAnswerHolds, AnswerUsedUp, NotifiedFindsPacket
  <1>6. BatchInPriorityOrder' /\ BatchAheadOfQueue'
    BY DEF BatchInPriorityOrder, BatchAheadOfQueue, InsideHoldsLock
  <1> QED
    BY <1>1, <1>2, <1>3, <1>4, <1>5, <1>6

(* The server may be woken: there is a packet for it.                      *)
LEMMA PushNotifyInv ==
  ASSUME ChannelInv, NEW c \in Clients, PushNotify(c)
  PROVE  ChannelInv'
  <1> USE ChannelAssumption
      DEF ChannelInv, TypeOK, PushNotify, Threads, PushPc, PopPc, WaitPc
  <1>1. TypeOK'
    OBVIOUS
  <1>2. InsideHoldsLock'
    BY DEF InsideHoldsLock
  <1>3. PushedPacket'
    BY DEF PushedPacket
  <1>4. InHand'
    BY DEF InHand
  <1>5. TrueAnswerHolds'
    BY DEF TrueAnswerHolds
  <1>6. AnswerUsedUp' /\ NotifiedFindsPacket'
    BY DEF AnswerUsedUp, NotifiedFindsPacket, PushedPacket
  <1>7. BatchInPriorityOrder' /\ BatchAheadOfQueue'
    BY DEF BatchInPriorityOrder, BatchAheadOfQueue
  <1> QED
    BY <1>1, <1>2, <1>3, <1>4, <1>5, <1>6, <1>7

(* pushMsg returns.                                                        *)
LEMMA PushUnlockInv ==
  ASSUME ChannelInv, NEW c \in Clients, PushUnlock(c)
  PROVE  ChannelInv'
  <1> USE ChannelAssumption
      DEF ChannelInv, TypeOK, PushUnlock, Threads, PushPc, PopPc, WaitPc
  <1>1. TypeOK'
    OBVIOUS
  <1>2. InsideHoldsLock'
    BY DEF InsideHoldsLock
  <1>3. PushedPacket'
    BY DEF PushedPacket
  <1>4. InHand'
    BY DEF InHand
  <1>5. TrueAnswerHolds' /\ AnswerUsedUp' /\ NotifiedFindsPacket'
    BY DEF TrueAnswerHolds, AnswerUsedUp, NotifiedFindsPacket
  <1>6. BatchInPriorityOrder' /\ BatchAheadOfQueue'
    BY DEF BatchInPriorityOrder, BatchAheadOfQueue
  <1> QED
    BY <1>1, <1>2, <1>3, <1>4, <1>5, <1>6

(* waitForMsg touches neither the queue nor mtx_: whatever it does to its  *)
(* own variables, only what is said of its answer needs an argument.       *)
LEMMA WaitFrame ==
  ASSUME ChannelInv,
         NEW to \in {"out"} \cup WaitPc,
         pc[Server] \in {"out"} \cup WaitPc,
         pc' = [pc EXCEPT ![Server] = to],
         cv_mtx_' \in {Server, NoThread},
         result' \in BOOLEAN,
         UNCHANGED <<queue_, mtx_, arg, hadMessages, current, received, batch>>,
         TrueAnswerHolds', NotifiedFindsPacket'
  PROVE  ChannelInv'
  <1> USE ChannelAssumption DEF ChannelInv, TypeOK, Threads, PushPc, PopPc, WaitPc
  <1>1. TypeOK'
    OBVIOUS
  <1>2. InsideHoldsLock'
    BY DEF InsideHoldsLock
  <1>3. PushedPacket'
    BY DEF PushedPacket
  <1>4. InHand' /\ AnswerUsedUp'
    BY DEF InHand, AnswerUsedUp
  <1>5. BatchInPriorityOrder' /\ BatchAheadOfQueue'
    BY DEF BatchInPriorityOrder, BatchAheadOfQueue
  <1> QED
    BY <1>1, <1>2, <1>3, <1>4, <1>5

(* The six steps of waitForMsg, and its call.                              *)
LEMMA WaitInv ==
  ASSUME ChannelInv, WaitCall \/ WaitInside
  PROVE  ChannelInv'
  <1> USE ChannelAssumption
      DEF ChannelInv, TypeOK, TrueAnswerHolds, NotifiedFindsPacket, Threads, WaitPc
  <1>1. CASE WaitCall
    BY <1>1, WaitFrame DEF WaitCall
  <1>2. CASE WaitPredicate
    <2>1. PICK value \in PredicateValues :
            /\ result' = value
            /\ pc' = [pc EXCEPT ![Server] =
                        IF value \/ @ = "wait_last" THEN "wait_return" ELSE "wait_sleep"]
      BY <1>2 DEF WaitPredicate
    <2>2. value \in BOOLEAN
      BY DEF PredicateValues
    <2>3. TrueAnswerHolds'
      BY <1>2, <2>1 DEF PredicateValues, WaitPredicate
    <2>4. NotifiedFindsPacket'
      BY <1>2, <2>1 DEF WaitPredicate
    <2>5. /\ pc[Server] \in {"out"} \cup WaitPc
          /\ UNCHANGED <<queue_, mtx_, cv_mtx_, arg, hadMessages, current, received, batch>>
      BY <1>2 DEF WaitPredicate
    <2>6. CASE value \/ pc[Server] = "wait_last"
      BY <2>1, <2>2, <2>3, <2>4, <2>5, <2>6, WaitFrame
    <2>7. CASE ~ (value \/ pc[Server] = "wait_last")
      BY <2>1, <2>2, <2>3, <2>4, <2>5, <2>7, WaitFrame
    <2> QED
      BY <2>6, <2>7
  <1>3. CASE WaitBlock
    BY <1>3, WaitFrame DEF WaitBlock
  <1>4. CASE WaitTimeout
    BY <1>4, WaitFrame DEF WaitTimeout
  <1>5. CASE WaitSpurious
    BY <1>5, WaitFrame DEF WaitSpurious
  <1>6. CASE WaitRelock
    <2>1. PICK to \in {"wait_pred", "wait_last"} : pc' = [pc EXCEPT ![Server] = to]
      BY <1>6 DEF WaitRelock
    <2>2. /\ pc[Server] \in {"out"} \cup WaitPc
          /\ cv_mtx_' = Server
          /\ UNCHANGED <<queue_, mtx_, arg, result, hadMessages, current, received, batch>>
      BY <1>6 DEF WaitRelock
    <2>3. pc'[Server] = to /\ \A c \in Clients : pc'[c] = pc[c]
      BY <2>1
    <2>4. TrueAnswerHolds' /\ NotifiedFindsPacket'
      BY <2>2, <2>3
    <2> QED
      BY <2>1, <2>2, <2>4, WaitFrame
  <1>7. CASE WaitReturn
    BY <1>7, WaitFrame DEF WaitReturn
  <1> QED
    BY <1>1, <1>2, <1>3, <1>4, <1>5, <1>6, <1>7 DEF WaitInside

(* popMsg takes its lock: an empty batch is in order and ahead of all.     *)
LEMMA PopLockInv ==
  ASSUME ChannelInv, PopLock
  PROVE  ChannelInv'
  <1> USE ChannelAssumption
      DEF ChannelInv, TypeOK, PopLock, Threads, PushPc, PopPc, WaitPc
  <1>1. TypeOK'
    <2>1. batch' \in Seq(Msg)
      OBVIOUS
    <2>2. hadMessages' \in BOOLEAN /\ result' \in BOOLEAN
      OBVIOUS
    <2>3. /\ pc' \in [Threads -> {"out"} \cup PushPc \cup WaitPc \cup PopPc]
          /\ \A c \in Clients : pc'[c] \in {"out"} \cup PushPc
          /\ pc'[Server] \in {"out"} \cup WaitPc \cup PopPc
      OBVIOUS
    <2>4. /\ queue_' \subseteq Msg
          /\ mtx_' \in Threads \cup {NoThread}
          /\ cv_mtx_' \in {Server, NoThread}
          /\ arg' \in [Clients -> Msg \cup {NoMsg}]
          /\ current' \in Msg \cup {NoMsg}
          /\ received' \subseteq Msg
      OBVIOUS
    <2> QED
      BY <2>1, <2>2, <2>3, <2>4
  <1>2. InsideHoldsLock'
    BY DEF InsideHoldsLock
  <1>3. PushedPacket'
    BY DEF PushedPacket
  <1>4. InHand'
    BY DEF InHand
  <1>5. TrueAnswerHolds' /\ AnswerUsedUp' /\ NotifiedFindsPacket'
    BY DEF TrueAnswerHolds, AnswerUsedUp, NotifiedFindsPacket
  <1>6. BatchInPriorityOrder' /\ BatchAheadOfQueue'
    BY DEF BatchInPriorityOrder, BatchAheadOfQueue
  <1> QED
    BY <1>1, <1>2, <1>3, <1>4, <1>5, <1>6

(* The observer receives a packet that nothing queued comes before.        *)
LEMMA PopTopInv ==
  ASSUME ChannelInv, PopTop
  PROVE  ChannelInv'
  <1> USE ChannelAssumption
      DEF ChannelInv, TypeOK, PopTop, Threads, PushPc, PopPc, WaitPc
  <1>1. TypeOK'
    BY DEF Top
  <1>2. InsideHoldsLock'
    BY DEF InsideHoldsLock
  <1>3. PushedPacket'
    BY DEF PushedPacket, InsideHoldsLock
  <1>4. InHand'
    BY DEF InHand, Top
  <1>5. TrueAnswerHolds' /\ AnswerUsedUp' /\ NotifiedFindsPacket'
    BY DEF TrueAnswerHolds, AnswerUsedUp, NotifiedFindsPacket
  <1>6. BatchInPriorityOrder' /\ BatchAheadOfQueue'
    BY DEF BatchInPriorityOrder, BatchAheadOfQueue, Top
  <1> QED
    BY <1>1, <1>2, <1>3, <1>4, <1>5, <1>6

(* The queue shrinks by the packet received.                               *)
LEMMA PopRemoveInv ==
  ASSUME ChannelInv, PopRemove
  PROVE  ChannelInv'
  <1> USE ChannelAssumption
      DEF ChannelInv, TypeOK, PopRemove, Threads, PushPc, PopPc, WaitPc
  <1>1. TypeOK'
    OBVIOUS
  <1>2. InsideHoldsLock'
    BY DEF InsideHoldsLock
  <1>3. PushedPacket'
    BY DEF PushedPacket, InsideHoldsLock
  <1>4. InHand'
    BY DEF InHand
  <1>5. TrueAnswerHolds' /\ AnswerUsedUp' /\ NotifiedFindsPacket'
    BY DEF TrueAnswerHolds, AnswerUsedUp, NotifiedFindsPacket
  <1>6. BatchInPriorityOrder' /\ BatchAheadOfQueue'
    BY DEF BatchInPriorityOrder, BatchAheadOfQueue
  <1> QED
    BY <1>1, <1>2, <1>3, <1>4, <1>5, <1>6

(* popMsg returns.                                                         *)
LEMMA PopUnlockInv ==
  ASSUME ChannelInv, PopUnlock
  PROVE  ChannelInv'
  <1> USE ChannelAssumption
      DEF ChannelInv, TypeOK, PopUnlock, Threads, PushPc, PopPc, WaitPc
  <1>1. TypeOK'
    OBVIOUS
  <1>2. InsideHoldsLock'
    BY DEF InsideHoldsLock
  <1>3. PushedPacket'
    BY DEF PushedPacket
  <1>4. InHand'
    BY DEF InHand
  <1>5. TrueAnswerHolds' /\ AnswerUsedUp' /\ NotifiedFindsPacket'
    BY DEF TrueAnswerHolds, AnswerUsedUp, NotifiedFindsPacket
  <1>6. BatchInPriorityOrder' /\ BatchAheadOfQueue'
    BY DEF BatchInPriorityOrder, BatchAheadOfQueue
  <1> QED
    BY <1>1, <1>2, <1>3, <1>4, <1>5, <1>6

(* A step in which the channel does not move.                              *)
LEMMA StutterInv ==
  ASSUME ChannelInv, UNCHANGED channelVars
  PROVE  ChannelInv'
  BY DEF channelVars, ChannelInv, TypeOK, InsideHoldsLock, PushedPacket, InHand,
     TrueAnswerHolds, AnswerUsedUp, NotifiedFindsPacket, BatchInPriorityOrder,
     BatchAheadOfQueue

(* Every step of the channel keeps the invariant.                          *)
LEMMA StepInv == ChannelInv /\ [ChannelNext]_channelVars => ChannelInv'
  <1> SUFFICES ASSUME ChannelInv, [ChannelNext]_channelVars PROVE ChannelInv'
    OBVIOUS
  <1>1. ASSUME NEW c \in Clients, NEW m \in Msg, Fresh(m), PushLock(c, m)
        PROVE  ChannelInv'
    BY <1>1, PushLockInv
  <1>2. ASSUME NEW c \in Clients, PushInside(c)
        PROVE  ChannelInv'
    BY <1>2, PushEmplaceInv, PushNotifyInv, PushUnlockInv DEF PushInside
  <1>3. CASE WaitCall \/ WaitInside
    BY <1>3, WaitInv
  <1>4. CASE PopLock
    BY <1>4, PopLockInv
  <1>5. CASE PopInside
    BY <1>5, PopTopInv, PopRemoveInv, PopUnlockInv DEF PopInside
  <1>6. CASE UNCHANGED channelVars
    BY <1>6, StutterInv
  <1> QED
    BY <1>1, <1>2, <1>3, <1>4, <1>5, <1>6 DEF ChannelNext

(* The channel's inductive invariant, TypeOK included: it holds of pushMsg *)
(* and popMsg (ChannelImpl.cpp:22-53) next to a waitForMsg that reads the  *)
(* queue without their lock.                                               *)
THEOREM ChannelCorrect == ChannelSpec => []ChannelInv
  BY InitInv, StepInv, PTL DEF ChannelSpec

-----------------------------------------------------------------------------
(* Safety properties.                                                      *)

(* Every variable keeps its type.                                          *)
THEOREM TypeCorrect == ChannelSpec => []TypeOK
  BY ChannelCorrect, PTL DEF ChannelInv

(* mtx_ keeps the threads inside pushMsg and popMsg apart.                 *)
THEOREM Exclusion == ChannelSpec => []MutualExclusion
  <1>1. ChannelInv => MutualExclusion
    BY DEF ChannelInv, InsideHoldsLock, MutualExclusion
  <1> QED
    BY <1>1, ChannelCorrect, PTL

(* The answer TRUE of waitForMsg is founded until it is used.              *)
THEOREM TrueAnswer == ChannelSpec => []TrueAnswerHolds
  BY ChannelCorrect, PTL DEF ChannelInv

(* A server woken by notify_all finds a packet.                            *)
THEOREM Notified == ChannelSpec => []NotifiedFindsPacket
  BY ChannelCorrect, PTL DEF ChannelInv

(* One popMsg hands its packets over in priority order.                    *)
THEOREM BatchOrder == ChannelSpec => []BatchInPriorityOrder
  BY ChannelCorrect, PTL DEF ChannelInv

(* A popMsg after a waitForMsg that answered TRUE finds a packet: whoever  *)
(* gave the answer its ground has released mtx_ by then.                   *)
THEOREM PopFinds == ChannelSpec => PopAfterWaitFinds
  <1>1. ASSUME ChannelInv, [ChannelNext]_channelVars,
               result, mtx_ # Server, mtx_' = Server
        PROVE  hadMessages'
    <2> USE ChannelAssumption, <1>1
    <2>1. PopLock
      BY DEF ChannelNext, channelVars, PushLock, PushInside, PushEmplace, PushNotify,
         PushUnlock, WaitCall, WaitInside, WaitPredicate, WaitBlock, WaitTimeout,
         WaitSpurious, WaitRelock, WaitReturn, PopInside, PopTop, PopRemove,
         PopUnlock, Threads
    <2>2. \A c \in Clients : pc[c] # "push_emplace"
      BY <2>1 DEF PopLock, ChannelInv, InsideHoldsLock, PushPc, Threads
    <2> QED
      BY <2>1, <2>2 DEF PopLock, ChannelInv, TrueAnswerHolds
  <1> QED
    BY <1>1, ChannelCorrect, PTL DEF ChannelSpec, PopAfterWaitFinds

-----------------------------------------------------------------------------
(* The refinement of PriorityMailbox.  The packet in the observer's hands  *)
(* is queued still but no longer pending, so a push happens at its         *)
(* emplace, a packet is taken at top(), and all else is a stutter.         *)

(* The empty channel is an empty mailbox.                                  *)
LEMMA MailboxInitially == ChannelInit => Mailbox!MailboxInit
  <1> SUFFICES ASSUME ChannelInit PROVE Mailbox!MailboxInit
    OBVIOUS
  <1>1. pc[Server] = "out"
    BY DEF ChannelInit, Threads
  <1> QED
    BY <1>1 DEF ChannelInit, Mailbox!MailboxInit, PopPc

(* emplace puts the packet: the server is outside popMsg, for the pusher   *)
(* holds mtx_.                                                             *)
LEMMA EmplacePuts ==
  ASSUME ChannelInv, NEW c \in Clients, PushEmplace(c)
  PROVE  Mailbox!Put(arg[c])
  <1> USE ChannelAssumption
      DEF ChannelInv, TypeOK, PushEmplace, Threads, PushPc, PopPc
  <1>1. pc[Server] \notin PopPc /\ pc'[Server] \notin PopPc
    BY DEF InsideHoldsLock
  <1>2. current = NoMsg /\ current' = NoMsg
    BY <1>1 DEF InHand
  <1>3. arg[c] \in Msg /\ arg[c] \notin queue_ \cup received
    BY DEF PushedPacket
  <1>4. queue_ \ {current} = queue_ /\ queue_' \ {current'} = queue_ \cup {arg[c]}
    BY <1>2, <1>3
  <1> QED
    BY <1>1, <1>3, <1>4 DEF Mailbox!Put

(* top() and onMsg take a packet that none of the pending ones precedes.   *)
LEMMA TopTakes ==
  ASSUME ChannelInv, PopTop
  PROVE  \E m \in Msg : Mailbox!Take(m)
  <1> USE ChannelAssumption
      DEF ChannelInv, TypeOK, PopTop, Threads, PushPc, PopPc
  <1>1. PICK m \in Top(queue_) :
          /\ current' = m
          /\ received' = received \cup {m}
          /\ batch' = Append(batch, m)
    OBVIOUS
  <1>2. current = NoMsg
    BY DEF InHand
  <1>3. queue_ \ {current} = queue_
    BY <1>2
  <1>4. m \in Msg /\ m \in Mailbox!Foremost(queue_)
    BY <1>1 DEF Top, Mailbox!Foremost
  <1>5. pc[Server] \in PopPc /\ pc'[Server] \in PopPc
    OBVIOUS
  <1>6. queue_' \ {current'} = queue_ \ {m}
    BY <1>1
  <1>7. Mailbox!Take(m)
    BY <1>1, <1>3, <1>4, <1>5, <1>6 DEF Mailbox!Take
  <1> QED
    BY <1>4, <1>7

(* Every step of the channel is a step of the mailbox or leaves it alone.  *)
LEMMA MailboxStep ==
  ChannelInv /\ [ChannelNext]_channelVars =>
    [Mailbox!MailboxNext]_Mailbox!mailboxVars
  <1> SUFFICES ASSUME ChannelInv, [ChannelNext]_channelVars
               PROVE  [Mailbox!MailboxNext]_Mailbox!mailboxVars
    OBVIOUS
  <1> USE ChannelAssumption DEF Mailbox!mailboxVars
  <1>1. ASSUME NEW c \in Clients, NEW m \in Msg, PushLock(c, m)
        PROVE  UNCHANGED Mailbox!mailboxVars
    BY <1>1 DEF PushLock, ChannelInv, TypeOK, Threads, PopPc
  <1>2. ASSUME NEW c \in Clients, PushEmplace(c)
        PROVE  Mailbox!MailboxNext
    BY <1>2, EmplacePuts DEF Mailbox!MailboxNext, ChannelInv, PushedPacket,
       PushEmplace, PushPc
  <1>3. ASSUME NEW c \in Clients, PushNotify(c)
        PROVE  UNCHANGED Mailbox!mailboxVars
    BY <1>3 DEF PushNotify, ChannelInv, TypeOK, Threads, PopPc
  <1>4. ASSUME NEW c \in Clients, PushUnlock(c)
        PROVE  UNCHANGED Mailbox!mailboxVars
    BY <1>4 DEF PushUnlock, ChannelInv, TypeOK, Threads, PopPc
  <1>5. CASE WaitCall \/ WaitInside
    BY <1>5 DEF WaitCall, WaitInside, WaitPredicate, WaitBlock, WaitTimeout,
       WaitSpurious, WaitRelock, WaitReturn, ChannelInv, TypeOK, Threads, PopPc, WaitPc
  <1>6. CASE PopLock
    <2>1. Mailbox!OpenBatch
      BY <1>6 DEF PopLock, Mailbox!OpenBatch, ChannelInv, TypeOK, Threads, PopPc
    <2> QED
      BY <2>1 DEF Mailbox!MailboxNext
  <1>7. CASE PopTop
    BY <1>7, TopTakes DEF Mailbox!MailboxNext
  <1>8. CASE PopRemove
    BY <1>8 DEF PopRemove, ChannelInv, TypeOK, Threads, PopPc
  <1>9. CASE PopUnlock
    <2>1. Mailbox!CloseBatch
      BY <1>9 DEF PopUnlock, Mailbox!CloseBatch, ChannelInv, TypeOK, Threads, PopPc
    <2> QED
      BY <2>1 DEF Mailbox!MailboxNext
  <1>10. CASE UNCHANGED channelVars
    BY <1>10 DEF channelVars
  <1> QED
    BY <1>1, <1>2, <1>3, <1>4, <1>5, <1>6, <1>7, <1>8, <1>9, <1>10
       DEF ChannelNext, PushInside, PopInside

(* The channel is a PriorityMailbox, for any clients and packets: two      *)
(* mutexes, a lost wake-up and a racing predicate do not show outside.     *)
THEOREM Refinement == ChannelSpec => IsMailbox
  BY MailboxInitially, MailboxStep, ChannelCorrect, PTL
     DEF ChannelSpec, IsMailbox, Mailbox!MailboxSpec

-----------------------------------------------------------------------------
(* Who waits for whom.                                                     *)

(* A set of numbers with an element has a least one.                       *)
LEMMA LeastNumber ==
  ASSUME NEW S \in SUBSET Nat, S # {}
  PROVE  \E k \in S : \A n \in S : k =< n
  <1> DEFINE R == OpToRel(<, Nat)
  <1>1. IsWellFoundedOn(R, Nat)
    BY NatLessThanWellFounded, Zenon
  <1>2. \A k, n \in Nat : n < k => <<n, k>> \in R
    BY DEF OpToRel
  <1> HIDE DEF R
  <1>3. PICK k \in S : \A n \in S : ~ (<<n, k>> \in R)
    BY <1>1, WFMin
  <1>4. k \in Nat /\ \A n \in S : n \in Nat
    OBVIOUS
  <1>5. ASSUME NEW n \in S
        PROVE  k =< n
    <2>1. ~ (n < k)
      BY <1>2, <1>3, <1>4, Zenon
    <2> QED
      BY <1>4, <2>1
  <1> QED
    BY <1>5

(* A heap that is not empty has a packet on top, be there one packet in it *)
(* or any number: popMsg's loop never finds none.                          *)
LEMMA HeapHasTop ==
  ASSUME NEW q \in SUBSET Msg, q # {}
  PROVE  Top(q) # {}
  <1> DEFINE S == {m.cPriority : m \in q}
  <1>1. \A m \in q : m.cPriority \in Nat
    BY ChannelAssumption
  <1>2. S \in SUBSET Nat /\ S # {}
    BY <1>1
  <1>3. \E k \in S : \A n \in S : k =< n
    <2> HIDE DEF S
    <2> QED
      BY <1>2, LeastNumber
  <1>4. PICK m \in q : \A n \in q : m.cPriority =< n.cPriority
    BY <1>3
  <1> QED
    BY <1>4 DEF Top

(* waitForMsg takes and releases cv_mtx_ in step with its place, and       *)
(* nothing else touches it.                                                *)
LEMMA WaitHoldsLockStep ==
  ASSUME ChannelInv, WaitHoldsLock, [ChannelNext]_channelVars
  PROVE  WaitHoldsLock'
  <1> USE ChannelAssumption DEF ChannelInv, TypeOK, WaitHoldsLock, Threads
  <1>1. ASSUME NEW c \in Clients, NEW m \in Msg, PushLock(c, m)
        PROVE  WaitHoldsLock'
    BY <1>1 DEF PushLock
  <1>2. ASSUME NEW c \in Clients, PushInside(c)
        PROVE  WaitHoldsLock'
    BY <1>2 DEF PushInside, PushEmplace, PushNotify, PushUnlock
  <1>3. CASE WaitCall
    BY <1>3 DEF WaitCall
  <1>4. CASE WaitPredicate
    <2>1. /\ pc[Server] \in {"wait_pred", "wait_last"}
          /\ pc'[Server] \in {"wait_return", "wait_sleep"}
          /\ cv_mtx_' = cv_mtx_
      BY <1>4 DEF WaitPredicate
    <2> QED
      BY <2>1
  <1>5. CASE WaitBlock \/ WaitTimeout \/ WaitSpurious \/ WaitReturn
    BY <1>5 DEF WaitBlock, WaitTimeout, WaitSpurious, WaitReturn
  <1>6. CASE WaitRelock
    BY <1>6 DEF WaitRelock
  <1>7. CASE PopLock \/ PopInside
    BY <1>7 DEF PopLock, PopInside, PopTop, PopRemove, PopUnlock
  <1>8. CASE UNCHANGED channelVars
    BY <1>8 DEF channelVars
  <1> QED
    BY <1>1, <1>2, <1>3, <1>4, <1>5, <1>6, <1>7, <1>8 DEF ChannelNext, WaitInside

(* cv_mtx_ is held exactly where waitForMsg holds it.                      *)
LEMMA WaitHoldsLockAlways == ChannelSpec => []WaitHoldsLock
  <1>1. ChannelInit => WaitHoldsLock
    BY ChannelAssumption DEF ChannelInit, WaitHoldsLock, Threads
  <1> QED
    BY <1>1, WaitHoldsLockStep, ChannelCorrect, PTL DEF ChannelSpec

(* The two mutexes cannot deadlock: a thread inside the channel always has *)
(* a step to make, the timeout at least, whatever the other threads do and *)
(* however many they are; and a thread that is not waits only for one that *)
(* is.                                                                     *)
THEOREM NoDeadlockInside == ChannelSpec => []InsideMayMove
  <1>1. ASSUME ChannelInv, WaitHoldsLock
        PROVE  InsideMayMove
    <2> USE ChannelAssumption, <1>1 DEF ChannelInv, TypeOK, Threads
    <2>1. ASSUME NEW c \in Clients, pc[c] # "out"
          PROVE  PushMayMove(c)
      BY <2>1 DEF PushMayMove
    <2>2. cv_mtx_ = Server \/ cv_mtx_ = NoThread
      OBVIOUS
    <2>3. ASSUME pc[Server] \in WaitPc
          PROVE  WaitMayMove
      BY <2>2, <2>3 DEF WaitMayMove, WaitHoldsLock, WaitPc
    <2>4. ASSUME pc[Server] \in PopPc
          PROVE  PopMayMove
      <3>1. queue_ = {} \/ Top(queue_) # {}
        BY HeapHasTop
      <3> QED
        BY <2>4, <3>1 DEF PopMayMove, PopPc
    <2>5. pc[Server] = "out" => cv_mtx_ = NoThread
      BY <2>2 DEF WaitHoldsLock
    <2>6. mtx_ # NoThread => mtx_ \in Threads /\ pc[mtx_] # "out"
      BY DEF InsideHoldsLock, PushPc, PopPc
    <2> QED
      BY <2>1, <2>3, <2>4, <2>5, <2>6 DEF InsideMayMove
  <1> QED
    BY <1>1, ChannelCorrect, WaitHoldsLockAlways, PTL

-----------------------------------------------------------------------------
(* What a mailbox promises, the channel promises.  Mailbox is an instance  *)
(* of the specification alone; Promised is the same one with its theorems. *)
Promised == INSTANCE PriorityMailboxProofs WITH
  pending <- queue_ \ {current},
  taken   <- received,
  batch   <- batch,
  open    <- pc[Server] \in PopPc

(* The two instances say the same.                                         *)
LEMMA SameMailbox ==
  /\ Mailbox!MailboxInit <=> Promised!MailboxInit
  /\ [Mailbox!MailboxNext]_Mailbox!mailboxVars
       <=> [Promised!MailboxNext]_Promised!mailboxVars
  /\ Mailbox!MailboxInv <=> Promised!MailboxInv
  <1>1. Mailbox!MailboxInit <=> Promised!MailboxInit
    BY DEF Mailbox!MailboxInit, Promised!MailboxInit
  <1>2. ASSUME NEW m
        PROVE  Mailbox!Put(m) <=> Promised!Put(m)
    BY DEF Mailbox!Put, Promised!Put
  <1>3. ASSUME NEW m
        PROVE  Mailbox!Take(m) <=> Promised!Take(m)
    BY DEF Mailbox!Take, Promised!Take, Mailbox!Foremost, Promised!Foremost
  <1>4. Mailbox!OpenBatch <=> Promised!OpenBatch
    BY DEF Mailbox!OpenBatch, Promised!OpenBatch
  <1>5. Mailbox!CloseBatch <=> Promised!CloseBatch
    BY DEF Mailbox!CloseBatch, Promised!CloseBatch
  <1>6. (UNCHANGED Mailbox!mailboxVars) <=> UNCHANGED Promised!mailboxVars
    BY DEF Mailbox!mailboxVars, Promised!mailboxVars
  <1>7. Mailbox!MailboxNext <=> Promised!MailboxNext
    BY <1>2, <1>3, <1>4, <1>5 DEF Mailbox!MailboxNext, Promised!MailboxNext
  <1>8. Mailbox!MailboxInv <=> Promised!MailboxInv
    BY DEF Mailbox!MailboxInv, Promised!MailboxInv,
           Mailbox!TakenOnce, Promised!TakenOnce,
           Mailbox!BatchSound, Promised!BatchSound
  <1> QED
    BY <1>1, <1>6, <1>7, <1>8

(* Through the two mutexes, the condition variable and the heap: popMsg    *)
(* hands each packet out at most once, and those of a batch in priority    *)
(* order.                                                                  *)
THEOREM ChannelInOrder == ChannelSpec => []Mailbox!MailboxInv
  <1>1. Promised!MailboxSpec => []Promised!MailboxInv
    BY Promised!MailboxInOrder
  <1> QED
    BY <1>1, Refinement, SameMailbox, PTL
    DEF IsMailbox, Mailbox!MailboxSpec, Promised!MailboxSpec

(* A packet that pushMsg put into queue_ stays there until popMsg hands it *)
(* out, and then it does not come back.                                    *)
THEOREM ChannelLosesNothing == ChannelSpec => Mailbox!NothingLost
  <1> DEFINE Q == queue_ \ {current}
             Kept == Q \subseteq Q' \cup received' /\ received \subseteq received'
  <1>1. Promised!MailboxSpec => Promised!NothingLost
    BY Promised!MailboxKeeps
  <1>2. [Kept]_Promised!mailboxVars => [Kept]_Mailbox!mailboxVars
    BY DEF Mailbox!mailboxVars, Promised!mailboxVars
  <1> QED
    BY <1>1, <1>2, Refinement, SameMailbox, PTL
    DEF IsMailbox, Mailbox!MailboxSpec, Promised!MailboxSpec,
        Mailbox!NothingLost, Promised!NothingLost

(* No packet reaches queue_ while popMsg drains it, and popMsg ends when   *)
(* there is none left.                                                     *)
THEOREM ChannelIsEmptied == ChannelSpec => Mailbox!BatchComplete
  <1> DEFINE Q == queue_ \ {current}
             Busy == pc[Server] \in PopPc
             Emptied == Busy => Q' \subseteq Q /\ (Busy' \/ Q = {})
  <1>1. Promised!MailboxSpec => Promised!BatchComplete
    BY Promised!MailboxEmptied
  <1>2. [Emptied]_Promised!mailboxVars => [Emptied]_Mailbox!mailboxVars
    BY DEF Mailbox!mailboxVars, Promised!mailboxVars
  <1> QED
    BY <1>1, <1>2, Refinement, SameMailbox, PTL
    DEF IsMailbox, Mailbox!MailboxSpec, Promised!MailboxSpec,
        Mailbox!BatchComplete, Promised!BatchComplete
=============================================================================
