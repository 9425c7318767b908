------------------------ MODULE PriorityMailboxProofs -----------------------
(***************************************************************************)
(* What a PriorityMailbox promises.  By the refinement (ChannelImplProofs) *)
(* the channel promises it too, and so does the whole program.             *)
(***************************************************************************)
EXTENDS PriorityMailbox, TLAPS

(* A packet goes onto the end of the batch.                                *)
LEMMA Appended ==
  ASSUME NEW S, NEW s \in Seq(S), NEW e \in S
  PROVE  /\ Append(s, e) \in Seq(S)
         /\ Len(s) \in Nat /\ Len(Append(s, e)) = Len(s) + 1
         /\ \A k \in 1..Len(s) : Append(s, e)[k] = s[k]
         /\ Append(s, e)[Len(s) + 1] = e
  OBVIOUS

(* The foremost packet is taken: it was not in the batch, and nothing in   *)
(* the batch comes after it.                                               *)
LEMMA TakeInv ==
  ASSUME MailboxInv, NEW m \in Msg, Take(m)
  PROVE  MailboxInv'
<1> USE DEF MailboxInv, Take
<1>1. /\ m \in pending /\ m \notin taken
      /\ \A n \in pending : m.cPriority =< n.cPriority
  BY DEF TakenOnce, Foremost
<1>2. /\ batch' = Append(batch, m) /\ batch' \in Seq(Msg)
      /\ Len(batch) \in Nat /\ Len(batch') = Len(batch) + 1
      /\ \A k \in 1..Len(batch) : batch'[k] = batch[k]
      /\ batch'[Len(batch) + 1] = m
  <2>1. batch' = Append(batch, m) /\ batch \in Seq(Msg)
    OBVIOUS
  <2> HIDE DEF MailboxInv, Take
  <2> QED
    BY <2>1, Appended
<1>3. \A k \in 1..Len(batch') : k \in 1..Len(batch) \/ k = Len(batch) + 1
  BY <1>2
<1>4. TakenOnce'
  BY <1>1 DEF TakenOnce
<1>5. \A k \in 1..Len(batch') : batch'[k] \in taken'
  BY <1>2, <1>3 DEF BatchSound
<1>6. ASSUME NEW j \in 1..Len(batch'), NEW k \in 1..Len(batch'), j < k
      PROVE  batch'[j] # batch'[k] /\ batch'[j].cPriority =< batch'[k].cPriority
  <2>1. j \in 1..Len(batch)
    BY <1>2, <1>3, <1>6
  <2>2. CASE k \in 1..Len(batch)
    BY <1>2, <1>6, <2>1, <2>2 DEF BatchSound
  <2>3. CASE k = Len(batch) + 1
    BY <1>1, <1>2, <2>1, <2>3 DEF BatchSound
  <2> QED
    BY <1>3, <2>2, <2>3
<1>7. ASSUME NEW k \in 1..Len(batch'), NEW n \in pending'
      PROVE  batch'[k].cPriority =< n.cPriority
  <2>1. CASE k \in 1..Len(batch)
    BY <1>2, <2>1 DEF BatchSound
  <2>2. CASE k = Len(batch) + 1
    BY <1>1, <1>2, <2>2
  <2> QED
    BY <1>3, <2>1, <2>2
<1> QED
  BY <1>1, <1>2, <1>4, <1>5, <1>6, <1>7 DEF BatchSound

(* MailboxInv is inductive.                                                *)
LEMMA MailboxInvStep == MailboxInv /\ [MailboxNext]_mailboxVars => MailboxInv'
<1> SUFFICES ASSUME MailboxInv, [MailboxNext]_mailboxVars PROVE MailboxInv'
  OBVIOUS
<1>1. ASSUME NEW m \in Msg, Put(m)
      PROVE  MailboxInv'
  BY <1>1 DEF MailboxInv, Put, TakenOnce, BatchSound
<1>2. CASE OpenBatch
  <2>1. batch' \in Seq(Msg) /\ Len(batch') = 0
    BY <1>2 DEF OpenBatch
  <2>2. \A k \in 1..Len(batch') : FALSE
    BY <2>1
  <2> QED
    BY <1>2, <2>1, <2>2 DEF MailboxInv, OpenBatch, TakenOnce, BatchSound
<1>3. CASE CloseBatch
  BY <1>3 DEF MailboxInv, CloseBatch, TakenOnce, BatchSound
<1>4. CASE UNCHANGED mailboxVars
  BY <1>4 DEF MailboxInv, mailboxVars, TakenOnce, BatchSound
<1> QED
  BY <1>1, <1>2, <1>3, <1>4, TakeInv DEF MailboxNext

(* Each packet is taken at most once, in a batch that is in priority       *)
(* order.                                                                  *)
THEOREM MailboxInOrder == MailboxSpec => []MailboxInv
<1>1. MailboxInit => MailboxInv
  <2> SUFFICES ASSUME MailboxInit PROVE MailboxInv
    OBVIOUS
  <2>1. batch \in Seq(Msg) /\ Len(batch) = 0
    BY DEF MailboxInit
  <2>2. \A k \in 1..Len(batch) : FALSE
    BY <2>1
  <2> QED
    BY <2>1, <2>2 DEF MailboxInit, MailboxInv, TakenOnce, BatchSound
<1> QED
  BY <1>1, MailboxInvStep, PTL DEF MailboxSpec

(* No packet is lost, and none comes back.                                 *)
THEOREM MailboxKeeps == MailboxSpec => NothingLost
<1>1. [MailboxNext]_mailboxVars =>
        [pending \subseteq pending' \cup taken' /\ taken \subseteq taken']_mailboxVars
  BY DEF MailboxNext, mailboxVars, Put, Take, OpenBatch, CloseBatch
<1> QED
  BY <1>1, PTL DEF MailboxSpec, NothingLost

(* A batch takes along every packet that was there when it began.          *)
THEOREM MailboxEmptied == MailboxSpec => BatchComplete
<1>1. [MailboxNext]_mailboxVars =>
        [open => pending' \subseteq pending /\ (open' \/ pending = {})]_mailboxVars
  BY DEF MailboxNext, mailboxVars, Put, Take, OpenBatch, CloseBatch
<1> QED
  BY <1>1, PTL DEF MailboxSpec, BatchComplete
=============================================================================
