--------------------------- MODULE PriorityMailbox ---------------------------
(***************************************************************************)
(* What the Channel interface (src/src/Channel/Channel.h) promises to the  *)
(* clients that push and to the one server that pops, with no mutex, no    *)
(* condition variable and no heap: a mailbox of packets that is emptied in *)
(* batches.  While a batch is open nothing is added, every packet leaves   *)
(* in priority order, and the batch closes only on an empty mailbox.       *)
(***************************************************************************)
EXTENDS Integers, Sequences

CONSTANT Msg              \* the packets; each has a field cPriority

VARIABLES
  pending,                \* packets put and not yet taken
  taken,                  \* packets taken so far
  batch,                  \* packets of the latest batch, in the order taken
  open                    \* is a batch being taken?

mailboxVars == <<pending, taken, batch, open>>

(* "packet priority 0 - 255 (0 - higher)": the packets that may go next.   *)
Foremost(S) == {m \in S : \A n \in S : m.cPriority =< n.cPriority}

MailboxInit ==
  /\ pending = {}
  /\ taken = {}
  /\ batch = <<>>
  /\ open = FALSE

(* A packet is put once, and never into an open batch.                     *)
Put(m) ==
  /\ ~ open
  /\ m \notin pending \cup taken
  /\ pending' = pending \cup {m}
  /\ UNCHANGED <<taken, batch, open>>

OpenBatch ==
  /\ ~ open
  /\ open' = TRUE
  /\ batch' = <<>>
  /\ UNCHANGED <<pending, taken>>

Take(m) ==
  /\ open
  /\ m \in Foremost(pending)
  /\ pending' = pending \ {m}
  /\ taken' = taken \cup {m}
  /\ batch' = Append(batch, m)
  /\ UNCHANGED open

CloseBatch ==
  /\ open
  /\ pending = {}
  /\ open' = FALSE
  /\ UNCHANGED <<pending, taken, batch>>

MailboxNext ==
  \/ \E m \in Msg : Put(m) \/ Take(m)
  \/ OpenBatch
  \/ CloseBatch

MailboxSpec == MailboxInit /\ [][MailboxNext]_mailboxVars

-----------------------------------------------------------------------------
(* What follows from the specification.                                    *)

(* A packet is never both still there and taken.                           *)
TakenOnce == pending \cap taken = {}

(* A batch holds packets that were taken, each once, in priority order;    *)
(* while it is open no packet is there that should have gone before.       *)
BatchSound ==
  /\ \A k \in 1..Len(batch) : batch[k] \in taken
  /\ \A j, k \in 1..Len(batch) : j < k =>
       batch[j] # batch[k] /\ batch[j].cPriority =< batch[k].cPriority
  /\ open => \A k \in 1..Len(batch) : \A m \in pending :
       batch[k].cPriority =< m.cPriority

(* All of it: the inductive invariant of the mailbox.                      *)
MailboxInv ==
  /\ pending \subseteq Msg /\ taken \subseteq Msg /\ batch \in Seq(Msg)
  /\ TakenOnce
  /\ BatchSound

(* No packet is lost: what is there stays there until it is taken, and     *)
(* what was taken does not come back.                                      *)
NothingLost ==
  [][pending \subseteq pending' \cup taken' /\ taken \subseteq taken']_mailboxVars

(* A batch is complete: nothing joins what is there while it is taken, and *)
(* it is over when nothing is left.                                        *)
BatchComplete ==
  [][open => pending' \subseteq pending /\ (open' \/ pending = {})]_mailboxVars
=============================================================================
