----------------------------- MODULE ChannelImpl -----------------------------
(***************************************************************************)
(* ChannelImpl (src/src/Channel/ChannelImpl.h, .cpp): the priority queue   *)
(* between the client threads and the server thread.                       *)
(*                                                                         *)
(* pushMsg and popMsg run under mtx_.  waitForMsg runs under another       *)
(* mutex, cv_mtx_, that no pusher takes.  Hence two things the model keeps *)
(* apart step by step:                                                     *)
(*   - a push may complete, notify_all included, between the evaluation of *)
(*     the predicate and the moment the server blocks: the wake-up is lost *)
(*     and only the timeout ends the wait;                                 *)
(*   - the predicate reads queue_.empty() while a pusher may be inside     *)
(*     emplace: a data race, modelled by PredicateValues.                  *)
(*                                                                         *)
(* Every client is a thread of Clients; Server is the only thread that     *)
(* waits and pops, as in src/src/main.cpp.  pushMsg(Msg&&) and             *)
(* pushMsg(const Msg&) make the same steps and are modelled once.          *)
(***************************************************************************)
EXTENDS Integers, Sequences, FiniteSets

CONSTANTS
  Clients,      \* the threads that push
  Server,       \* the thread that waits and pops
  Msg,          \* the packets, records with a field cPriority
  NoMsg,        \* not a packet: an unset local variable
  NoThread      \* not a thread: a free mutex

Threads == Clients \cup {Server}

(* cPriority is a uint8_t: 0 (highest) .. 255.                             *)
ASSUME ChannelAssumption ==
  /\ Server \notin Clients
  /\ NoThread \notin Threads
  /\ NoMsg \notin Msg
  /\ \A m \in Msg : m.cPriority \in 0..255

VARIABLES
  queue_,       \* contents of the std::priority_queue
  mtx_,         \* the thread that holds mtx_
  cv_mtx_,      \* the thread that holds cv_mtx_
  pc,           \* where each thread is in the channel's code
  arg,          \* the packet a client passed to pushMsg
  result,       \* waitForMsg: its local, then the answer the server holds
                \* until it waits or pops again
  hadMessages,  \* popMsg: its local, then the answer of the latest call
  current,      \* popMsg: the element that top() returned
  received,     \* history: the packets given to the observer
  batch         \* history: those of the latest popMsg, in order

channelVars == <<queue_, mtx_, cv_mtx_, pc, arg, result, hadMessages,
                 current, received, batch>>

PushPc == {"push_emplace", "push_notify", "push_unlock"}
WaitPc == {"wait_pred", "wait_sleep", "wait_blocked", "wait_notified",
           "wait_spurious", "wait_expired", "wait_last", "wait_return"}
PopPc  == {"pop_drain", "pop_remove"}

(* Mutant: the comparator with its operands swapped.                       *)
Top_Swapped(q) == {m \in q : \A n \in q : m.cPriority >= n.cPriority}

(* The priority_queue's comparator, left.cPriority > right.cPriority, puts *)
(* a least cPriority on top; among equals the heap may hold any of them    *)
(* there.                                                                  *)
Top(q) == {m \in q : \A n \in q : m.cPriority =< n.cPriority}

(* Mutant: the predicate without its negation.                             *)
PredicateValues_Negated == {queue_ = {}}

(* What the predicate !queue_.empty() can read without mtx_.  Between the  *)
(* begin of emplace and the notify_all that follows it (whose locked       *)
(* instruction drains the pusher's store buffer) an empty queue can read   *)
(* as either; a non-empty one never reads as empty, the begin and the end  *)
(* pointer of two vector buffers never being equal.                        *)
PredicateValues ==
  {queue_ # {}} \cup {b \in {TRUE} : \E c \in Clients : pc[c] = "push_emplace"}

ChannelInit ==
  /\ queue_ = {}
  /\ mtx_ = NoThread
  /\ cv_mtx_ = NoThread
  /\ pc = [t \in Threads |-> "out"]
  /\ arg = [c \in Clients |-> NoMsg]
  /\ result = FALSE
  /\ hadMessages = FALSE
  /\ current = NoMsg
  /\ received = {}
  /\ batch = <<>>

-----------------------------------------------------------------------------
(* pushMsg, by a client c.                                                 *)

(* Mutant: no lock_guard.                                                  *)
PushLock_NoGuard(c, m) ==
  /\ pc[c] = "out"
  /\ mtx_' = c
  /\ arg' = [arg EXCEPT ![c] = m]
  /\ pc' = [pc EXCEPT ![c] = "push_emplace"]
  /\ UNCHANGED <<queue_, cv_mtx_, result, hadMessages, current, received, batch>>

(* Mutant: notify_all before emplace.                                      *)
PushLock_NotifyFirst(c, m) ==
  /\ pc[c] = "out"
  /\ mtx_ = NoThread
  /\ mtx_' = c
  /\ arg' = [arg EXCEPT ![c] = m]
  /\ pc' = [pc EXCEPT ![c] = "push_emplace",
                      ![Server] = IF @ = "wait_blocked" THEN "wait_notified" ELSE @]
  /\ UNCHANGED <<queue_, cv_mtx_, result, hadMessages, current, received, batch>>

(* lock_guard guard(mtx_)                                                  *)
PushLock(c, m) ==
  /\ pc[c] = "out"
  /\ mtx_ = NoThread
  /\ mtx_' = c
  /\ arg' = [arg EXCEPT ![c] = m]
  /\ pc' = [pc EXCEPT ![c] = "push_emplace"]
  /\ UNCHANGED <<queue_, cv_mtx_, result, hadMessages, current, received, batch>>

(* Mutant: an unset packet is queued in place of the argument.             *)
PushEmplace_Unset(c) ==
  /\ pc[c] = "push_emplace"
  /\ queue_' = queue_ \cup {NoMsg}
  /\ pc' = [pc EXCEPT ![c] = "push_notify"]
  /\ UNCHANGED <<mtx_, cv_mtx_, arg, result, hadMessages, current, received, batch>>

(* queue_.emplace / queue_.push: done when the element is in the heap.     *)
PushEmplace(c) ==
  /\ pc[c] = "push_emplace"
  /\ queue_' = queue_ \cup {arg[c]}
  /\ pc' = [pc EXCEPT ![c] = "push_notify"]
  /\ UNCHANGED <<mtx_, cv_mtx_, arg, result, hadMessages, current, received, batch>>

(* cv_.notify_all(): wakes the server if it is blocked, else has no effect. *)
PushNotify(c) ==
  /\ pc[c] = "push_notify"
  /\ pc' = [pc EXCEPT ![c] = "push_unlock",
                      ![Server] = IF @ = "wait_blocked" THEN "wait_notified" ELSE @]
  /\ UNCHANGED <<queue_, mtx_, cv_mtx_, arg, result, hadMessages, current,
                 received, batch>>

(* The lock_guard's destructor.                                            *)
PushUnlock(c) ==
  /\ pc[c] = "push_unlock"
  /\ mtx_' = NoThread
  /\ arg' = [arg EXCEPT ![c] = NoMsg]
  /\ pc' = [pc EXCEPT ![c] = "out"]
  /\ UNCHANGED <<queue_, cv_mtx_, result, hadMessages, current, received, batch>>

-----------------------------------------------------------------------------
(* waitForMsg, by the server.  condition_variable_any::wait_for with a     *)
(* predicate is: while (!pred()) if (wait_until(lock, deadline) ==         *)
(* timeout) return pred();                                                 *)

(* result(false); unique_lock lc(cv_mtx_)                                  *)
WaitCall ==
  /\ pc[Server] = "out"
  /\ cv_mtx_ = NoThread
  /\ cv_mtx_' = Server
  /\ result' = FALSE
  /\ pc' = [pc EXCEPT ![Server] = "wait_pred"]
  /\ UNCHANGED <<queue_, mtx_, arg, hadMessages, current, received, batch>>

(* result = !queue_.empty(), before waiting and after every wake-up.       *)
WaitPredicate ==
  /\ pc[Server] \in {"wait_pred", "wait_last"}
  /\ \E value \in PredicateValues :
       /\ result' = value
       /\ pc' = [pc EXCEPT ![Server] =
                   IF value \/ @ = "wait_last" THEN "wait_return" ELSE "wait_sleep"]
  /\ UNCHANGED <<queue_, mtx_, cv_mtx_, arg, hadMessages, current, received, batch>>

(* The wait registers with cv_ and releases cv_mtx_ in one step: cv_'s own *)
(* mutex, which notify_all takes too, covers both.                         *)
WaitBlock ==
  /\ pc[Server] = "wait_sleep"
  /\ cv_mtx_' = NoThread
  /\ pc' = [pc EXCEPT ![Server] = "wait_blocked"]
  /\ UNCHANGED <<queue_, mtx_, arg, result, hadMessages, current, received, batch>>

(* Mutant: wait in place of wait_for.                                      *)
WaitTimeout_Never == FALSE /\ UNCHANGED channelVars

(* The deadline passes before a notification.                              *)
WaitTimeout ==
  /\ pc[Server] = "wait_blocked"
  /\ pc' = [pc EXCEPT ![Server] = "wait_expired"]
  /\ UNCHANGED <<queue_, mtx_, cv_mtx_, arg, result, hadMessages, current,
                 received, batch>>

(* A condition variable may wake a thread nobody notified.                 *)
WaitSpurious ==
  /\ pc[Server] = "wait_blocked"
  /\ pc' = [pc EXCEPT ![Server] = "wait_spurious"]
  /\ UNCHANGED <<queue_, mtx_, cv_mtx_, arg, result, hadMessages, current,
                 received, batch>>

(* cv_mtx_ is taken again; wait_until compares the clock with the deadline *)
(* whatever woke it, so a notified thread can also be told "timeout".      *)
WaitRelock ==
  /\ pc[Server] \in {"wait_notified", "wait_spurious", "wait_expired"}
  /\ cv_mtx_ = NoThread
  /\ cv_mtx_' = Server
  /\ \E next \in {"wait_pred", "wait_last"} :
       /\ pc[Server] = "wait_expired" => next = "wait_last"
       /\ pc' = [pc EXCEPT ![Server] = next]
  /\ UNCHANGED <<queue_, mtx_, arg, result, hadMessages, current, received, batch>>

(* return result; the unique_lock's destructor.                            *)
WaitReturn ==
  /\ pc[Server] = "wait_return"
  /\ cv_mtx_' = NoThread
  /\ pc' = [pc EXCEPT ![Server] = "out"]
  /\ UNCHANGED <<queue_, mtx_, arg, result, hadMessages, current, received, batch>>

-----------------------------------------------------------------------------
(* popMsg, by the server.  Its only caller, Server::loop, passes itself:   *)
(* the observer is never null.                                             *)

(* Mutant: no lock_guard.                                                  *)
PopLock_NoGuard ==
  /\ pc[Server] = "out"
  /\ mtx_' = Server
  /\ hadMessages' = (queue_ # {})
  /\ result' = FALSE
  /\ batch' = <<>>
  /\ pc' = [pc EXCEPT ![Server] = "pop_drain"]
  /\ UNCHANGED <<queue_, cv_mtx_, arg, current, received>>

(* lock_guard guard(mtx_); hadMessages = !queue_.empty()                   *)
PopLock ==
  /\ pc[Server] = "out"
  /\ mtx_ = NoThread
  /\ mtx_' = Server
  /\ hadMessages' = (queue_ # {})
  /\ result' = FALSE
  /\ batch' = <<>>
  /\ pc' = [pc EXCEPT ![Server] = "pop_drain"]
  /\ UNCHANGED <<queue_, cv_mtx_, arg, current, received>>

(* msg = queue_.top(); observ->onMsg(msg).  The element stays queued while *)
(* the observer runs.                                                      *)
PopTop ==
  /\ pc[Server] = "pop_drain"
  /\ \E m \in Top(queue_) :
       /\ current' = m
       /\ received' = received \cup {m}
       /\ batch' = Append(batch, m)
  /\ pc' = [pc EXCEPT ![Server] = "pop_remove"]
  /\ UNCHANGED <<queue_, mtx_, cv_mtx_, arg, result, hadMessages>>

(* queue_.pop(): under the same lock, hence the element that was on top.   *)
PopRemove ==
  /\ pc[Server] = "pop_remove"
  /\ queue_' = queue_ \ {current}
  /\ current' = NoMsg
  /\ pc' = [pc EXCEPT ![Server] = "pop_drain"]
  /\ UNCHANGED <<mtx_, cv_mtx_, arg, result, hadMessages, received, batch>>

(* Mutant: "if" in place of "while", one packet per call.                  *)
PopUnlock_OneOnly ==
  /\ pc[Server] = "pop_drain"
  /\ queue_ = {} \/ batch # <<>>
  /\ mtx_' = NoThread
  /\ pc' = [pc EXCEPT ![Server] = "out"]
  /\ UNCHANGED <<queue_, cv_mtx_, arg, result, hadMessages, current, received, batch>>

(* The loop ends on an empty queue; return hadMessages releases mtx_.      *)
PopUnlock ==
  /\ pc[Server] = "pop_drain"
  /\ queue_ = {}
  /\ mtx_' = NoThread
  /\ pc' = [pc EXCEPT ![Server] = "out"]
  /\ UNCHANGED <<queue_, cv_mtx_, arg, result, hadMessages, current, received, batch>>

-----------------------------------------------------------------------------
(* The channel on its own: clients push any packet not pushed before, the  *)
(* server calls waitForMsg and popMsg in any order.                        *)
(* A packet stands for one call of pushMsg, so it is pushed once.          *)

Fresh(m) ==
  /\ m \notin queue_ \cup received
  /\ \A c \in Clients : arg[c] # m

PushInside(c) == PushEmplace(c) \/ PushNotify(c) \/ PushUnlock(c)

WaitInside ==
  \/ WaitPredicate
  \/ WaitBlock
  \/ WaitTimeout
  \/ WaitSpurious
  \/ WaitRelock
  \/ WaitReturn

PopInside == PopTop \/ PopRemove \/ PopUnlock

ChannelNext ==
  \/ \E c \in Clients : \/ \E m \in Msg : Fresh(m) /\ PushLock(c, m)
                        \/ PushInside(c)
  \/ WaitCall
  \/ WaitInside
  \/ PopLock
  \/ PopInside

ChannelSpec == ChannelInit /\ [][ChannelNext]_channelVars

(* A thread inside the channel goes on.  The 20 ms deadline of waitForMsg  *)
(* is a point in time, not a delay that restarts: spurious wake-ups cannot *)
(* postpone it for ever, hence strong fairness of the timeout.             *)
ChannelFairness ==
  /\ \A c \in Clients : WF_channelVars(PushInside(c))
  /\ WF_channelVars(WaitPredicate \/ WaitBlock \/ WaitRelock \/ WaitReturn)
  /\ SF_channelVars(WaitTimeout)
  /\ WF_channelVars(PopInside)

FairChannelSpec == ChannelSpec /\ ChannelFairness

-----------------------------------------------------------------------------
(* Properties.                                                             *)

(* Every variable keeps its type.                                          *)
TypeOK ==
  /\ queue_ \subseteq Msg
  /\ mtx_ \in Threads \cup {NoThread}
  /\ cv_mtx_ \in {Server, NoThread}
  /\ pc \in [Threads -> {"out"} \cup PushPc \cup WaitPc \cup PopPc]
  /\ \A c \in Clients : pc[c] \in {"out"} \cup PushPc
  /\ pc[Server] \in {"out"} \cup WaitPc \cup PopPc
  /\ arg \in [Clients -> Msg \cup {NoMsg}]
  /\ result \in BOOLEAN
  /\ hadMessages \in BOOLEAN
  /\ current \in Msg \cup {NoMsg}
  /\ received \subseteq Msg
  /\ batch \in Seq(Msg)

(* The heap is never touched by two threads: of the pushers inside pushMsg *)
(* and the server inside popMsg there is at most one, whatever waitForMsg  *)
(* does under its other mutex (ChannelImpl.cpp:24, 43, 50).                *)
MutualExclusion ==
  \A t, u \in Threads :
    pc[t] \in PushPc \cup PopPc /\ pc[u] \in PushPc \cup PopPc => t = u

(* waitForMsg reads queue_ without mtx_ (ChannelImpl.cpp:59).  Its answer  *)
(* TRUE is never unfounded all the same: until the server waits or pops    *)
(* again there is a packet, or a push that is past its lock.               *)
TrueAnswerHolds ==
  result => \/ queue_ # {}
            \/ \E c \in Clients : pc[c] = "push_emplace"

(* Check-then-act across two mutexes: a popMsg after a waitForMsg that     *)
(* answered TRUE (Server.cpp:110-111) finds a packet.                      *)
PopAfterWaitFinds ==
  [][result /\ mtx_ # Server /\ mtx_' = Server => hadMessages']_channelVars

(* notify_all follows emplace (ChannelImpl.cpp:44-45): a server woken by   *)
(* it finds a packet at its next look, so it never sleeps through a packet *)
(* it was told of.                                                         *)
NotifiedFindsPacket == pc[Server] = "wait_notified" => queue_ # {}

(* "0 - higher" (Base/msg.h:16): one popMsg hands its packets to the       *)
(* observer in priority order, although the clients compete with it.       *)
BatchInPriorityOrder ==
  \A i, j \in 1..Len(batch) : i < j => batch[i].cPriority =< batch[j].cPriority

(* The channel is a PriorityMailbox: no packet is lost, handed over twice  *)
(* or overtaken by one of lower priority, and none joins an open batch.    *)
Mailbox == INSTANCE PriorityMailbox WITH
  pending <- queue_ \ {current},
  taken   <- received,
  batch   <- batch,
  open    <- pc[Server] \in PopPc

IsMailbox == Mailbox!MailboxSpec

(* A waitForMsg returns, even when its wake-up was lost or was spurious.   *)
WaitReturns == pc[Server] \in WaitPc ~> pc[Server] \notin WaitPc

-----------------------------------------------------------------------------
(* The inductive invariant behind the properties above.                    *)

(* Who is inside pushMsg or popMsg holds mtx_, and conversely.             *)
InsideHoldsLock ==
  \A t \in Threads : pc[t] \in PushPc \cup PopPc <=> mtx_ = t

(* A packet being pushed is a packet not yet known before emplace and a    *)
(* queued one until its notification.                                      *)
PushedPacket ==
  \A c \in Clients :
    /\ pc[c] \in PushPc => arg[c] \in Msg
    /\ pc[c] = "push_emplace" => arg[c] \notin queue_ \cup received
    /\ pc[c] = "push_notify" => arg[c] \in queue_

(* Only the packet in the observer's hands is both queued and received.    *)
InHand ==
  /\ pc[Server] = "pop_remove" => current \in queue_ \cap received
  /\ pc[Server] # "pop_remove" => current = NoMsg
  /\ queue_ \cap received \subseteq {current}

(* No answer of waitForMsg outlives the popMsg that follows it.            *)
AnswerUsedUp == pc[Server] \in PopPc => ~ result

(* What popMsg has handed over does not come after what it has not.        *)
BatchAheadOfQueue ==
  pc[Server] \in PopPc =>
    \A k \in 1..Len(batch) : \A m \in queue_ : batch[k].cPriority =< m.cPriority

(* All of it: what holds of the channel after every step.                  *)
ChannelInv ==
  /\ TypeOK
  /\ InsideHoldsLock
  /\ PushedPacket
  /\ InHand
  /\ TrueAnswerHolds
  /\ AnswerUsedUp
  /\ NotifiedFindsPacket
  /\ BatchInPriorityOrder
  /\ BatchAheadOfQueue

-----------------------------------------------------------------------------
(* Who waits for whom.                                                     *)

(* The server holds cv_mtx_ inside waitForMsg except where it sleeps, and  *)
(* on its way from there to the predicate.                                 *)
WaitHoldsLock ==
  cv_mtx_ = Server <=>
    pc[Server] \in {"wait_pred", "wait_sleep", "wait_last", "wait_return"}

(* What the guards of PushInside, WaitInside and PopInside ask for.        *)
PushMayMove(c) == pc[c] \in PushPc

WaitMayMove ==
  \/ pc[Server] \in {"wait_pred", "wait_sleep", "wait_last", "wait_blocked",
                     "wait_return"}
  \/ /\ pc[Server] \in {"wait_notified", "wait_spurious", "wait_expired"}
     /\ cv_mtx_ = NoThread

PopMayMove ==
  \/ pc[Server] = "pop_drain" /\ (queue_ = {} \/ Top(queue_) # {})
  \/ pc[Server] = "pop_remove"

(* Who is inside the channel can go on, and who is outside waits for mtx_  *)
(* at most, hence for a thread that is inside.                             *)
InsideMayMove ==
  /\ \A c \in Clients : pc[c] # "out" => PushMayMove(c)
  /\ pc[Server] # "out" => WaitMayMove \/ PopMayMove
  /\ pc[Server] = "out" => cv_mtx_ = NoThread
  /\ mtx_ # NoThread => mtx_ \in Threads /\ pc[mtx_] # "out"
=============================================================================
