-------------------------- MODULE SessionLogProofs --------------------------
(***************************************************************************)
(* Proofs about the log, for any length of the day and any offset of local *)
(* time, any number of sessions, records and failures, and a clock that    *)
(* moves between any two steps.                                            *)
(***************************************************************************)
EXTENDS SessionLog, SequenceTheorems, TLAPS

USE SessionLogAssumption

(* A packet is counted and its record is on the way.                       *)
UnderWay == pc \in {"rotate", "rotated", "write"}

Logged == IF UnderWay THEN count - 1 ELSE count

(* Midnight at the end of day d.                                           *)
Midnight(d) == (d + 1) * DayLength - Zone

(* What belongs to the current session is not older than it, and there is  *)
(* nothing of a session to come.                                           *)
Current ==
  /\ began =< clock
  /\ pc # "off" => session >= 1
  /\ UnderWay => count >= 1 /\ began =< stamp /\ stamp =< clock
  /\ raced \subseteq 1..session
  /\ \A r \in OnDisk : r.session =< session

(* A record reaches the file with the file open: after a rotation that     *)
(* failed the next record rotates, since its time has come already.        *)
FileOpen ==
  /\ pc \in {"opened", "name", "rotated", "write"} => fd # NoFile
  /\ pc \in {"off", "open"} => fd = NoFile
  /\ pc = "ready" /\ fd = NoFile => rotation_tp =< clock
  /\ pc = "rotate" => rotation_tp =< stamp

(* A buffer is that of the open file.                                      *)
Buffered ==
  /\ fd = NoFile \/ pc \in {"opened", "name", "rotated", "released"} => buffer = <<>>
  /\ \A r \in ToSet(buffer) :
       r.session = session /\ (session \notin raced => Date(r.time) = fd)

(* Unless midnight fell between the sink's two readings of the clock, its  *)
(* rotation is due at the end of the day of its file.                      *)
OnTime ==
  /\ pc = "rotated" => Date(stamp) = fd
  /\ session \notin raced =>
       /\ fd # NoFile /\ pc \in {"name", "ready"} => rotation_tp = Midnight(fd)
       /\ pc = "write" => Date(stamp) = fd /\ rotation_tp = Midnight(fd)

(* The files of a session, and the name it prints, are of its days.        *)
WithinSession ==
  LET Lived == Date(began)..Date(clock)
  IN /\ pc = "open" => toOpen \in Lived
     /\ fd # NoFile => fd \in Lived
     /\ UnderWay \/ pc \in {"ready", "released"} => logFileName \in Lived
     /\ \A d \in Days : \A r \in ToSet(disk[d]) : r.session = session => d \in Lived

(* Every packet whose turn is over has left its record somewhere.          *)
Accounted ==
  pc # "off" =>
    \A k \in 1..Logged : \E r \in OnDisk \cup ToSet(buffer) \cup Lost :
      r.session = session /\ r.n = k

(* Whatever comes before a record in the buffer is on disk, is lost or is  *)
(* before it in the buffer.                                                *)
Trail ==
  \A j \in 1..Len(buffer) : \A k \in 1..(buffer[j].n - 1) :
    \/ \E e \in OnDisk \cup Lost : e.session = session /\ e.n = k
    \/ \E i \in 1..(j - 1) : buffer[i].n = k

(* The buffer follows what is on disk, and what comes follows the buffer.  *)
InSequence ==
  /\ \A r \in OnDisk :
       r.session = session => r.n =< Logged /\ \A e \in ToSet(buffer) : r.n < e.n
  /\ \A j \in 1..Len(buffer) :
       buffer[j].n =< Logged /\ \A i \in 1..(j - 1) : buffer[i].n < buffer[j].n

(* The open file, or the one about to be opened, is the latest.            *)
Latest ==
  /\ pc = "open" => count = 0
  /\ UnderWay /\ fd # NoFile => fd =< Date(stamp)
  /\ \A d \in Days : \A r \in ToSet(disk[d]) : r.session = session =>
       /\ UnderWay => d =< Date(stamp)
       /\ fd # NoFile => d =< fd

(* A rotation, whose fclose may lose records, is not due before midnight.  *)
NotBeforeMidnight ==
  /\ pc \in {"name", "ready", "rotate", "rotated", "write"} =>
       Midnight(Date(began)) =< rotation_tp
  /\ \A r \in dropped : r.session =< session

LogInv ==
  /\ LogTypeOK
  /\ Current
  /\ FileOpen
  /\ Buffered
  /\ OnTime
  /\ WithinSession
  /\ Accounted
  /\ Trail
  /\ InSequence
  /\ Latest
  /\ NotBeforeMidnight
  /\ NoGaps
  /\ UnreportedLossNeedsMidnight
  /\ WrittenOnceInOrder
  /\ UnracedInFileOfItsDay

-----------------------------------------------------------------------------
(* Days.                                                                   *)

(* A day is a number.                                                      *)
LEMMA DateInt ==
  ASSUME NEW t \in Int
  PROVE  Date(t) \in Int
  BY DEF Date

(* Days follow one another as time does.                                   *)
LEMMA DateMonotone ==
  ASSUME NEW s \in Int, NEW t \in Int, s =< t
  PROVE  Date(s) =< Date(t)
<1>1. s + Zone \in Int /\ t + Zone \in Int /\ s + Zone =< t + Zone
  OBVIOUS
<1>2. \A x, y \in Int : x =< y => x \div DayLength =< y \div DayLength
  OBVIOUS
<1> QED BY <1>1, <1>2 DEF Date

(* Within the bound on the clock, the day is one of Days.                  *)
LEMMA DateInDays ==
  ASSUME NEW t \in 0..LastTick
  PROVE  Date(t) \in Days
  BY DateInt, DateMonotone DEF Days

(* A day is not a null FILE*.                                              *)
LEMMA DaysInt ==
  /\ Days \subseteq Int
  /\ NoFile \notin Days
<1>1. Date(0) \in Int /\ Date(LastTick) \in Int
  BY DateInt
<1> QED BY <1>1 DEF Days

(* Before the midnight that ends day d nothing is on a later day.          *)
LEMMA BeforeMidnight ==
  ASSUME NEW t \in Int, NEW d \in Int, t < Midnight(d)
  PROVE  Date(t) =< d
<1>1. t + Zone \in Int /\ t + Zone < (d + 1) * DayLength
  BY DEF Midnight
<1>2. \A x \in Int : x < (d + 1) * DayLength => x \div DayLength =< d
  OBVIOUS
<1> QED BY <1>1, <1>2 DEF Date

(* Midnight is a tick.                                                     *)
LEMMA MidnightInt ==
  ASSUME NEW d \in Int
  PROVE  Midnight(d) \in Int
<1>1. (d + 1) * DayLength \in Int
  OBVIOUS
<1> QED BY <1>1 DEF Midnight

(* From that midnight on all is on a later day.                            *)
LEMMA AfterMidnight ==
  ASSUME NEW t \in Int, NEW d \in Int, Midnight(d) =< t
  PROVE  d < Date(t)
<1>1. t + Zone \in Int /\ (d + 1) * DayLength \in Int /\ (d + 1) * DayLength =< t + Zone
  BY DEF Midnight
<1>2. \A x \in Int : (d + 1) * DayLength =< x => d < x \div DayLength
  OBVIOUS
<1> QED BY <1>1, <1>2 DEF Date

(* Midnights follow one another as days do.                                *)
LEMMA MidnightMonotone ==
  ASSUME NEW d \in Int, NEW e \in Int, d =< e
  PROVE  Midnight(d) =< Midnight(e)
<1>1. (d + 1) * DayLength =< (e + 1) * DayLength
  OBVIOUS
<1> QED BY <1>1 DEF Midnight

(* The sink rotates at the midnight that ends the day.                     *)
LEMMA NextRotationIsMidnight ==
  ASSUME NEW t \in Int
  PROVE  NextRotation(t) = Midnight(Date(t))
  BY DEF NextRotation, Midnight

-----------------------------------------------------------------------------
(* Buffers and files.                                                      *)

(* The elements of a concatenation.                                        *)
LEMMA ToSetConcat ==
  ASSUME NEW S, NEW s \in Seq(S), NEW t \in Seq(S)
  PROVE  /\ s \o t \in Seq(S)
         /\ ToSet(s \o t) = ToSet(s) \cup ToSet(t)
<1>1. s \o t \in Seq(S) /\ Len(s \o t) = Len(s) + Len(t)
  OBVIOUS
<1>2. \A i \in 1..Len(s) : (s \o t)[i] = s[i]
  OBVIOUS
<1>3. \A i \in 1..Len(t) : (s \o t)[Len(s) + i] = t[i]
  OBVIOUS
<1>4. ASSUME NEW i \in 1..Len(s \o t)
      PROVE  \/ i \in 1..Len(s)
             \/ \E j \in 1..Len(t) : i = Len(s) + j
  <2>1. CASE i =< Len(s)
    BY <2>1
  <2>2. CASE i > Len(s)
    <3>1. i - Len(s) \in 1..Len(t) /\ i = Len(s) + (i - Len(s))
      BY <1>1, <2>2
    <3> QED BY <3>1
  <2> QED BY <2>1, <2>2, <1>1
<1>5. DOMAIN s = 1..Len(s) /\ DOMAIN t = 1..Len(t) /\ DOMAIN (s \o t) = 1..Len(s \o t)
  BY <1>1
<1>6. ASSUME NEW e \in ToSet(s \o t)
      PROVE  e \in ToSet(s) \cup ToSet(t)
  <2>1. PICK i \in 1..Len(s \o t) : e = (s \o t)[i]
    BY <1>5 DEF ToSet
  <2> QED BY <2>1, <1>2, <1>3, <1>4, <1>5 DEF ToSet
<1>7. ASSUME NEW e \in ToSet(s)
      PROVE  e \in ToSet(s \o t)
  <2>1. PICK i \in 1..Len(s) : e = s[i]
    BY <1>5 DEF ToSet
  <2>2. i \in 1..Len(s \o t)
    BY <1>1
  <2> QED BY <2>1, <2>2, <1>2, <1>5 DEF ToSet
<1>8. ASSUME NEW e \in ToSet(t)
      PROVE  e \in ToSet(s \o t)
  <2>1. PICK i \in 1..Len(t) : e = t[i]
    BY <1>5 DEF ToSet
  <2>2. Len(s) + i \in 1..Len(s \o t)
    BY <1>1
  <2> QED BY <2>1, <2>2, <1>3, <1>5 DEF ToSet
<1> QED BY <1>1, <1>6, <1>7, <1>8

(* Appending leaves what was there.                                        *)
LEMMA ConcatExtends ==
  ASSUME NEW S, NEW s \in Seq(S), NEW t \in Seq(S)
  PROVE  IsPrefix(s, s \o t)
<1>1. Len(s) =< Len(s \o t)
  OBVIOUS
<1>2. SubSeq(s, 1, Len(s)) = s
  OBVIOUS
<1>3. SubSeq(s \o t, 1, Len(s)) = s
  OBVIOUS
<1> QED BY <1>1, <1>2, <1>3 DEF IsPrefix

(* A sequence of records, of which the system takes the first k.           *)
LEMMA Handing ==
  ASSUME NEW S, NEW s \in Seq(S), NEW k \in 0..Len(s)
  PROVE  /\ SubSeq(s, 1, k) \in Seq(S)
         /\ SubSeq(s, k + 1, Len(s)) \in Seq(S)
         /\ Len(SubSeq(s, k + 1, Len(s))) = Len(s) - k
         /\ \A i \in 1..(Len(s) - k) : SubSeq(s, k + 1, Len(s))[i] = s[k + i]
         /\ ToSet(SubSeq(s, 1, k)) = {s[i] : i \in 1..k}
         /\ ToSet(SubSeq(s, k + 1, Len(s))) = {s[i] : i \in (k + 1)..Len(s)}
<1> DEFINE head == SubSeq(s, 1, k)
           rest == SubSeq(s, k + 1, Len(s))
<1>1. head \in Seq(S) /\ Len(head) = k
  OBVIOUS
<1>2. rest \in Seq(S) /\ Len(rest) = Len(s) - k
  OBVIOUS
<1>3. \A i \in 1..k : head[i] = s[i]
  OBVIOUS
<1>4. \A i \in 1..(Len(s) - k) : rest[i] = s[k + i]
  OBVIOUS
<1>5. DOMAIN head = 1..k /\ DOMAIN rest = 1..(Len(s) - k)
  BY <1>1, <1>2
<1> HIDE DEF head, rest
<1>6. ToSet(head) = {s[i] : i \in 1..k}
  BY <1>3, <1>5 DEF ToSet
<1>7. ToSet(rest) \subseteq {s[i] : i \in (k + 1)..Len(s)}
  BY <1>4, <1>5 DEF ToSet
<1>8. ASSUME NEW i \in (k + 1)..Len(s)
      PROVE  s[i] \in ToSet(rest)
  <2>1. i - k \in 1..(Len(s) - k) /\ k + (i - k) = i
    OBVIOUS
  <2> QED BY <2>1, <1>4, <1>5 DEF ToSet
<1> QED BY <1>1, <1>2, <1>4, <1>6, <1>7, <1>8 DEF head, rest

-----------------------------------------------------------------------------
(* Steps that leave the files alone, or empty the buffer.                  *)

(* While nothing is written, what holds of the files goes on holding.      *)
LEMMA StillDisk ==
  ASSUME LogInv, UNCHANGED <<disk, failed, dropped>>, raced \subseteq raced'
  PROVE  /\ OnDisk' = OnDisk /\ Lost' = Lost
         /\ NoGaps' /\ WrittenOnceInOrder' /\ UnracedInFileOfItsDay'
<1>1. OnDisk' = OnDisk /\ Lost' = Lost
  BY DEF OnDisk, Lost
<1>2. NoGaps'
  BY <1>1 DEF LogInv, NoGaps
<1>3. WrittenOnceInOrder'
  BY DEF LogInv, WrittenOnceInOrder
<1> QED BY <1>1, <1>2, <1>3 DEF LogInv, UnracedInFileOfItsDay

(* Likewise of the buffer, and of what was lost.                           *)
LEMMA StillBuffer ==
  ASSUME LogInv, UNCHANGED <<buffer, disk, session, failed, dropped>>
  PROVE  Trail'
<1>1. OnDisk' = OnDisk /\ Lost' = Lost
  BY DEF OnDisk, Lost
<1> QED BY <1>1 DEF LogInv, Trail

(* What was lost stays lost, and nothing is added to it.                   *)
LEMMA StillLost ==
  ASSUME LogInv, UNCHANGED <<clock, session, began, dropped>>
  PROVE  UnreportedLossNeedsMidnight' /\ \A r \in dropped' : r.session =< session'
  BY DEF LogInv, NotBeforeMidnight, UnreportedLossNeedsMidnight

(* While no record's turn ends, the order stands.                          *)
LEMMA StillInSequence ==
  ASSUME LogInv, UNCHANGED <<buffer, disk, session>>, Logged' = Logged
  PROVE  InSequence'
<1>1. OnDisk' = OnDisk
  BY DEF OnDisk
<1> QED BY <1>1 DEF LogInv, InSequence

(* Nothing is asked of an empty buffer.                                    *)
LEMMA EmptyBuffer ==
  ASSUME buffer' = <<>>
  PROVE  /\ Trail' /\ ToSet(buffer') = {} /\ buffer' \in Seq(Records)
         /\ Len(buffer') = 0
<1>1. Len(<<>>) = 0 /\ DOMAIN <<>> = {} /\ <<>> \in Seq(Records)
  OBVIOUS
<1> QED BY <1>1 DEF Trail, ToSet

(* The times are numbers, and their days are days.                         *)
LEMMA Times ==
  ASSUME LogTypeOK
  PROVE  /\ {clock, began, stamp} \subseteq Int
         /\ {Date(clock), Date(began), Date(stamp)} \subseteq Int
         /\ {Date(clock), Date(began), Date(stamp)} \subseteq Days
<1>1. {clock, began, stamp} \subseteq Int
  BY DEF LogTypeOK
<1>2. {Date(clock), Date(began), Date(stamp)} \subseteq Int
  BY <1>1, DateInt
<1>3. {Date(clock), Date(began), Date(stamp)} \subseteq Days
  BY DateInDays DEF LogTypeOK
<1> QED BY <1>1, <1>2, <1>3

(* Files and buffer hold records.                                          *)
LEMMA OfRecords ==
  ASSUME LogTypeOK
  PROVE  OnDisk \subseteq Records /\ ToSet(buffer) \subseteq Records
<1>1. \A s \in Seq(Records) : ToSet(s) \subseteq Records
  BY DEF ToSet
<1> QED BY <1>1 DEF LogTypeOK, OnDisk

(* What lies within the days of the session goes on doing so.              *)
LEMMA TickInv ==
  ASSUME LogInv, Tick
  PROVE  LogInv'
<1>1. LogTypeOK'
  BY SMTT(30) DEF LogInv, LogTypeOK, Tick, files, sinkVars, trouble
<1>2. /\ NoGaps' /\ WrittenOnceInOrder' /\ UnracedInFileOfItsDay' /\ Trail'
      /\ OnDisk' = OnDisk /\ Lost' = Lost
  BY StillDisk, StillBuffer DEF Tick, files, trouble
<1>3. Current' /\ FileOpen'
  BY <1>2 DEF LogInv, LogTypeOK, Current, FileOpen, UnderWay, Tick, files, sinkVars, trouble
<1>4. Buffered' /\ OnTime' /\ Latest'
  BY DEF LogInv, Buffered, OnTime, Latest, UnderWay, Tick, files, sinkVars, trouble
<1>5. Date(clock) \in Int /\ Date(clock') \in Int /\ Date(clock) =< Date(clock')
  <2>1. clock \in Int /\ clock' \in Int /\ clock =< clock'
    BY SMTT(30) DEF LogInv, LogTypeOK, Tick
  <2> QED BY <2>1, DateInt, DateMonotone
<1>6. WithinSession'
  <2>1. Date(began)..Date(clock) \subseteq Date(began)..Date(clock')
    BY <1>5, Times DEF LogInv
  <2> QED BY <2>1 DEF LogInv, WithinSession, UnderWay, Tick, files, sinkVars, trouble
<1>7. Accounted' /\ InSequence'
  <2>1. Logged' = Logged
    BY DEF Logged, UnderWay, Tick
  <2> QED BY <1>2, <2>1, StillInSequence DEF LogInv, Accounted, Tick, files, sinkVars, trouble
<1>8. NotBeforeMidnight' /\ UnreportedLossNeedsMidnight'
  <2>1. UnreportedLossNeedsMidnight'
    BY <1>5, Times DEF LogInv, UnreportedLossNeedsMidnight, Tick, trouble
  <2> QED BY <2>1 DEF LogInv, NotBeforeMidnight, Tick, sinkVars, trouble
<1> QED BY <1>1, <1>2, <1>3, <1>4, <1>6, <1>7, <1>8 DEF LogInv

-----------------------------------------------------------------------------
(* The start of a session.                                                 *)

(* Nothing of the new session is anywhere yet.                             *)
LEMMA InitLogInv ==
  ASSUME LogInv, InitLog
  PROVE  LogInv'
<1>1. Date(clock) \in Days /\ Date(clock) \in Int
  BY Times DEF LogInv
<1>2. LogTypeOK'
  BY <1>1, SMTT(30) DEF LogInv, LogTypeOK, InitLog, Goto, files, sinkVars, trouble
<1>3. buffer = <<>> /\ fd = NoFile
  BY DEF LogInv, FileOpen, Buffered, InitLog, Goto
<1>4. /\ NoGaps' /\ WrittenOnceInOrder' /\ UnracedInFileOfItsDay'
      /\ OnDisk' = OnDisk /\ disk' = disk
  BY StillDisk DEF InitLog, files, trouble
<1>5. Trail' /\ ToSet(buffer') = {} /\ Len(buffer') = 0
  BY <1>3, EmptyBuffer DEF InitLog, files
<1>6. session \in Int /\ session' = session + 1
  BY DEF LogInv, LogTypeOK, InitLog
<1>7. \A r \in OnDisk \cup dropped : r.session \in Int /\ r.session =< session
  <2>1. OnDisk \cup dropped \subseteq Records
    BY OfRecords DEF LogInv, LogTypeOK
  <2>2. \A r \in OnDisk \cup dropped : r.session =< session
    BY DEF LogInv, Current, NotBeforeMidnight
  <2> QED BY <2>1, <2>2 DEF Records
<1>8. \A r \in OnDisk \cup dropped : r.session # session' /\ r.session =< session'
  BY <1>6, <1>7
<1>9. \A d \in Days : \A r \in ToSet(disk'[d]) : r.session # session'
  <2>1. \A d \in Days : \A r \in ToSet(disk[d]) : r \in OnDisk
    BY DEF OnDisk
  <2> QED BY <1>4, <1>8, <2>1
<1>10. Current'
  <2>1. session \in Nat /\ raced' = raced /\ raced \subseteq 1..session
    BY DEF LogInv, LogTypeOK, Current, InitLog
  <2> QED BY <1>4, <1>6, <1>8, <2>1, Times DEF LogInv, Current, UnderWay, InitLog, Goto
<1>11. FileOpen' /\ Buffered' /\ OnTime'
  BY <1>3, <1>5 DEF FileOpen, Buffered, OnTime, InitLog, Goto, files
<1>12. WithinSession' /\ Latest'
  BY <1>1, <1>3, <1>9 DEF WithinSession, Latest, UnderWay, InitLog, Goto, files
<1>13. Accounted' /\ InSequence'
  BY <1>4, <1>5, <1>8 DEF Accounted, InSequence, Logged, UnderWay, InitLog, Goto
<1>14. NotBeforeMidnight' /\ UnreportedLossNeedsMidnight'
  BY <1>8 DEF NotBeforeMidnight, UnreportedLossNeedsMidnight, InitLog, Goto, trouble
<1> QED BY <1>2, <1>4, <1>5, <1>10, <1>11, <1>12, <1>13, <1>14 DEF LogInv

(* The sink has its file; its rotation time is not set yet.                *)
LEMMA OpenFirstInv ==
  ASSUME LogInv, OpenFirst
  PROVE  LogInv'
<1>1. LogTypeOK'
  BY DEF LogInv, LogTypeOK, OpenFirst, Goto, sinkVars, trouble
<1>2. buffer = <<>> /\ fd' # NoFile
  BY DaysInt DEF LogInv, LogTypeOK, FileOpen, Buffered, OpenFirst, Goto
<1>3. /\ NoGaps' /\ WrittenOnceInOrder' /\ UnracedInFileOfItsDay'
      /\ OnDisk' = OnDisk /\ Lost' = Lost
  BY StillDisk DEF OpenFirst, trouble
<1>4. Trail' /\ ToSet(buffer') = {}
  BY <1>2, EmptyBuffer DEF OpenFirst
<1>5. Current' /\ FileOpen' /\ Buffered' /\ OnTime'
  BY <1>2, <1>3, <1>4 DEF LogInv, Current, FileOpen, Buffered, OnTime, UnderWay, OpenFirst,
     Goto
<1>6. WithinSession'
  BY DEF LogInv, WithinSession, UnderWay, OpenFirst, Goto, sinkVars
<1>7. Logged = 0 /\ Logged' = Logged
  BY DEF LogInv, Latest, Logged, UnderWay, OpenFirst, Goto
<1>8. Accounted' /\ InSequence'
  BY <1>3, <1>7, StillInSequence DEF LogInv, Accounted, OpenFirst, Goto, trouble
<1>9. Latest'
  <2>1. \A r \in OnDisk : r.session # session
    <3>1. \A r \in OnDisk : r.n \in Nat \ {0}
      BY OfRecords DEF LogInv, Records
    <3>2. \A r \in OnDisk : r.session = session => r.n =< 0
      BY <1>7 DEF LogInv, InSequence
    <3> QED BY <3>1, <3>2
  <2>2. \A d \in Days : \A r \in ToSet(disk[d]) : r.session # session
    BY <2>1 DEF OnDisk
  <2> QED BY <2>2 DEF Latest, UnderWay, OpenFirst, Goto
<1>10. NotBeforeMidnight' /\ UnreportedLossNeedsMidnight'
  BY StillLost DEF NotBeforeMidnight, OpenFirst, Goto, trouble
<1> QED BY <1>1, <1>3, <1>4, <1>5, <1>6, <1>8, <1>9, <1>10 DEF LogInv

(* The session ends before it has logged anything.                         *)
LEMMA OpenFirstFailsInv ==
  ASSUME LogInv, OpenFirstFails
  PROVE  LogInv'
<1>1. LogTypeOK'
  BY SMTT(30) DEF LogInv, LogTypeOK, OpenFirstFails, FailsIf, Goto, files, sinkVars
<1>2. /\ NoGaps' /\ WrittenOnceInOrder' /\ UnracedInFileOfItsDay' /\ Trail'
      /\ OnDisk' = OnDisk
  BY StillDisk, StillBuffer DEF OpenFirstFails, files
<1>3. Current' /\ FileOpen' /\ Buffered' /\ OnTime'
  BY <1>2 DEF LogInv, Current, FileOpen, Buffered, OnTime, UnderWay, OpenFirstFails, Goto,
     files, sinkVars
<1>4. WithinSession' /\ Accounted' /\ Latest'
  BY DEF LogInv, WithinSession, Accounted, Latest, UnderWay, OpenFirstFails, Goto, files,
     sinkVars
<1>5. InSequence'
  <2>1. Logged' = Logged
    BY DEF Logged, UnderWay, OpenFirstFails, Goto
  <2> QED BY <2>1, StillInSequence DEF OpenFirstFails, files
<1>6. NotBeforeMidnight' /\ UnreportedLossNeedsMidnight'
  BY StillLost DEF NotBeforeMidnight, OpenFirstFails, Goto
<1> QED BY <1>1, <1>2, <1>3, <1>4, <1>5, <1>6 DEF LogInv

(* Unless the session is raced, the clock is still on the day of the file. *)
LEMMA SetRotationInv ==
  ASSUME LogInv, SetRotation
  PROVE  LogInv'
<1>1. rotation_tp' \in Int /\ rotation_tp' = Midnight(Date(clock))
  BY Times, MidnightInt, NextRotationIsMidnight DEF LogInv, SetRotation
<1>2. session \in 1..SessionLimit /\ raced' \subseteq raced \cup {session}
  BY DEF LogInv, LogTypeOK, Current, SetRotation
<1>3. LogTypeOK'
  BY <1>1, <1>2 DEF LogInv, LogTypeOK, SetRotation, files, trouble
<1>4. /\ NoGaps' /\ WrittenOnceInOrder' /\ UnracedInFileOfItsDay' /\ Trail'
      /\ OnDisk' = OnDisk /\ Lost' = Lost
  BY StillDisk, StillBuffer DEF SetRotation, files, trouble
<1>5. Current' /\ FileOpen'
  BY <1>2, <1>4 DEF LogInv, LogTypeOK, Current, FileOpen, UnderWay, SetRotation, files
<1>6. Buffered' /\ Latest'
  BY DEF LogInv, Buffered, Latest, UnderWay, SetRotation, files
<1>7. OnTime'
  BY <1>1 DEF LogInv, OnTime, SetRotation, files
<1>8. WithinSession'
  BY DEF LogInv, WithinSession, UnderWay, SetRotation, files
<1>9. Accounted' /\ InSequence'
  <2>1. pc \in {"opened", "rotated"} /\ Logged' = Logged
    BY DEF Logged, UnderWay, SetRotation
  <2> QED BY <1>4, <2>1, StillInSequence DEF LogInv, Accounted, SetRotation, files, trouble
<1>10. NotBeforeMidnight' /\ UnreportedLossNeedsMidnight'
  <2>1. Date(began) \in Int /\ Date(clock) \in Int /\ Date(began) =< Date(clock)
    BY Times, DateMonotone DEF LogInv, Current
  <2>2. Midnight(Date(began)) =< rotation_tp'
    BY <1>1, <2>1, MidnightMonotone
  <2> QED BY <2>2, StillLost DEF NotBeforeMidnight, SetRotation, trouble
<1> QED BY <1>3, <1>4, <1>5, <1>6, <1>7, <1>8, <1>9, <1>10 DEF LogInv

(* The name is of a day on which the session runs.                         *)
LEMMA NameLogInv ==
  ASSUME LogInv, NameLog
  PROVE  LogInv'
<1>1. Date(clock) \in Days /\ Date(clock) \in Int /\ Date(began) \in Int
      /\ Date(began) =< Date(clock)
  BY Times, DateMonotone DEF LogInv, Current
<1>2. LogTypeOK'
  BY <1>1 DEF LogInv, LogTypeOK, NameLog, Goto, files, sinkVars, trouble
<1>3. /\ NoGaps' /\ WrittenOnceInOrder' /\ UnracedInFileOfItsDay' /\ Trail'
      /\ OnDisk' = OnDisk /\ Lost' = Lost
  BY StillDisk, StillBuffer DEF NameLog, files, trouble
<1>4. Current' /\ FileOpen' /\ Buffered' /\ OnTime'
  BY <1>3 DEF LogInv, Current, FileOpen, Buffered, OnTime, UnderWay, NameLog, Goto, files,
     sinkVars
<1>5. WithinSession' /\ Latest'
  BY <1>1 DEF LogInv, WithinSession, Latest, UnderWay, NameLog, Goto, files, sinkVars
<1>6. Accounted' /\ InSequence'
  <2>1. Logged' = Logged
    BY DEF Logged, UnderWay, NameLog, Goto
  <2> QED BY <1>3, <2>1, StillInSequence DEF LogInv, Accounted, NameLog, Goto, files, trouble
<1>7. NotBeforeMidnight' /\ UnreportedLossNeedsMidnight'
  BY StillLost DEF LogInv, NotBeforeMidnight, NameLog, Goto, sinkVars, trouble
<1> QED BY <1>2, <1>3, <1>4, <1>5, <1>6, <1>7 DEF LogInv

-----------------------------------------------------------------------------
(* A record on its way.                                                    *)

(* Without a rotation due, the record is of the day of the file.           *)
LEMMA OnMsgInv ==
  ASSUME LogInv, OnMsg
  PROVE  LogInv'
<1>1. LogTypeOK'
  BY SMTT(30) DEF LogInv, LogTypeOK, OnMsg, Goto, files, trouble
<1>2. /\ NoGaps' /\ WrittenOnceInOrder' /\ UnracedInFileOfItsDay' /\ Trail'
      /\ OnDisk' = OnDisk /\ Lost' = Lost
  BY StillDisk, StillBuffer DEF OnMsg, files, trouble
<1>3. count \in Nat /\ clock \in Int /\ rotation_tp \in Int
  BY Times DEF LogInv, LogTypeOK
<1>4. Current'
  BY <1>2, <1>3 DEF LogInv, Current, UnderWay, OnMsg, Goto
<1>5. FileOpen'
  BY <1>3 DEF LogInv, FileOpen, OnMsg, Goto, files
<1>6. Buffered'
  BY DEF LogInv, Buffered, OnMsg, Goto, files
<1>7. OnTime'
  <2> SUFFICES ASSUME pc' = "write", session \notin raced
               PROVE  Date(stamp') = fd' /\ rotation_tp' = Midnight(fd')
    BY DEF OnTime, OnMsg, Goto, files
  <2>1. clock < rotation_tp /\ fd # NoFile
    BY <1>3 DEF LogInv, FileOpen, OnMsg, Goto
  <2>2. rotation_tp = Midnight(fd) /\ fd \in Date(began)..Date(clock)
    BY <2>1 DEF LogInv, OnTime, WithinSession, OnMsg, Goto, files
  <2>3. Date(clock) \in Int /\ Date(began) \in Int
    BY Times DEF LogInv
  <2>4. Date(clock) =< fd
    BY <1>3, <2>1, <2>2, BeforeMidnight
  <2> QED BY <2>2, <2>3, <2>4 DEF OnMsg, files
<1>8. WithinSession'
  BY DEF LogInv, WithinSession, UnderWay, OnMsg, Goto, files
<1>9. Accounted' /\ InSequence'
  <2>1. Logged' = Logged
    BY <1>3 DEF Logged, UnderWay, OnMsg, Goto
  <2> QED BY <1>2, <2>1, StillInSequence DEF LogInv, Accounted, OnMsg, Goto, files, trouble
<1>10. Latest'
  <2>1. \A d \in Date(began)..Date(clock) : d =< Date(clock)
    BY Times DEF LogInv
  <2> QED BY <2>1 DEF LogInv, WithinSession, Latest, UnderWay, OnMsg, Goto, files
<1>11. NotBeforeMidnight' /\ UnreportedLossNeedsMidnight'
  BY StillLost DEF LogInv, NotBeforeMidnight, OnMsg, Goto, trouble
<1> QED BY <1>1, <1>2, <1>4, <1>5, <1>6, <1>7, <1>8, <1>9, <1>10, <1>11 DEF LogInv

(* The record whose turn it is.                                            *)
LEMMA RecordType ==
  ASSUME LogInv, UnderWay
  PROVE  Record \in Records
  BY DEF LogInv, LogTypeOK, Current, UnderWay, Record, Records

(* Its failure accounts for it, and for what is lost with it.              *)
LEMMA FailedIsAccounted ==
  ASSUME LogInv, UnderWay, pc' = "ready", UNCHANGED <<session, count>>,
         Record \in Lost',
         OnDisk \cup ToSet(buffer) \cup Lost \subseteq OnDisk' \cup Lost'
  PROVE  Accounted'
<1>1. Record.session = session /\ Record.n = count
  BY DEF Record
<1>2. count \in Nat /\ Logged = count - 1 /\ Logged' = count
  BY DEF LogInv, LogTypeOK, Logged, UnderWay
<1>3. ASSUME NEW k \in 1..count
      PROVE  \E r \in OnDisk' \cup Lost' : r.session = session /\ r.n = k
  <2>1. CASE k = count
    BY <1>1, <2>1
  <2>2. CASE k \in 1..(count - 1)
    BY <1>2, <2>2 DEF LogInv, Accounted, UnderWay
  <2> QED BY <1>2, <2>1, <2>2
<1> QED BY <1>2, <1>3 DEF Accounted

-----------------------------------------------------------------------------
(* Records handed to the system.                                           *)

(* The first k of the records w go to the end of the open file.            *)
LEMMA Handed ==
  ASSUME LogTypeOK, fd # NoFile, NEW w \in Seq(Records), NEW k \in 0..Len(w),
         disk' = [disk EXCEPT ![fd] = @ \o SubSeq(w, 1, k)]
  PROVE  /\ disk' \in [Days -> Seq(Records)]
         /\ \A d \in Days : IsPrefix(disk[d], disk'[d])
         /\ \A d \in Days : \A i \in DOMAIN disk'[d] :
              \/ i \in DOMAIN disk[d] /\ disk'[d][i] = disk[d][i]
              \/ /\ d = fd
                 /\ i - Len(disk[fd]) \in 1..k
                 /\ disk'[d][i] = w[i - Len(disk[fd])]
         /\ \A d \in Days : \A r \in ToSet(disk'[d]) :
              r \in ToSet(disk[d]) \/ (d = fd /\ \E i \in 1..k : r = w[i])
         /\ OnDisk' = OnDisk \cup {w[i] : i \in 1..k}
<1> DEFINE new == SubSeq(w, 1, k)
<1>1. new \in Seq(Records) /\ ToSet(new) = {w[i] : i \in 1..k}
  BY Handing
<1>2. fd \in Days /\ disk \in [Days -> Seq(Records)]
  BY DEF LogTypeOK
<1>3. Len(new) = k /\ \A i \in 1..k : new[i] = w[i]
  OBVIOUS
<1> HIDE DEF new
<1>4. disk' = [disk EXCEPT ![fd] = disk[fd] \o new]
  BY DEF new
<1>5. /\ disk[fd] \o new \in Seq(Records)
      /\ ToSet(disk[fd] \o new) = ToSet(disk[fd]) \cup ToSet(new)
      /\ IsPrefix(disk[fd], disk[fd] \o new)
  BY <1>1, <1>2, ToSetConcat, ConcatExtends
<1>6. /\ disk'[fd] = disk[fd] \o new
      /\ \A d \in Days \ {fd} : disk'[d] = disk[d]
      /\ disk' \in [Days -> Seq(Records)]
  BY <1>2, <1>4, <1>5
<1>7. \A x \in Seq(Records) : IsPrefix(x, x)
  BY DEF IsPrefix
<1>8. \A d \in Days : IsPrefix(disk[d], disk'[d])
  BY <1>2, <1>5, <1>6, <1>7
<1>9. ToSet(disk'[fd]) = ToSet(disk[fd]) \cup {w[i] : i \in 1..k}
  BY <1>1, <1>5, <1>6
<1>10. OnDisk' = OnDisk \cup {w[i] : i \in 1..k}
  <2>1. \A d \in Days \ {fd} : ToSet(disk'[d]) = ToSet(disk[d])
    BY <1>6
  <2> QED BY <1>2, <1>9, <2>1 DEF OnDisk
<1>11. ASSUME NEW i \in DOMAIN disk'[fd]
       PROVE  \/ i \in DOMAIN disk[fd] /\ disk'[fd][i] = disk[fd][i]
              \/ /\ i - Len(disk[fd]) \in 1..k
                 /\ disk'[fd][i] = w[i - Len(disk[fd])]
  <2>1. disk[fd] \in Seq(Records)
    BY <1>2
  <2> DEFINE old == disk[fd]
  <2>2. old \in Seq(Records) /\ disk'[fd] = old \o new
    BY <1>6, <2>1
  <2> HIDE DEF old
  <2>3. Len(old \o new) = Len(old) + k /\ i \in 1..(Len(old) + k)
    <3>1. new \in Seq(Records) /\ Len(new) = k
      BY <1>1, <1>3
    <3>2. old \o new \in Seq(Records) /\ Len(old \o new) = Len(old) + k
      BY <2>2, <3>1
    <3> QED BY SMTT(30), <2>2, <3>2
  <2>4. CASE i =< Len(old)
    <3>1. i \in 1..Len(old) /\ (old \o new)[i] = old[i]
      BY <1>1, <2>2, <2>3, <2>4
    <3> QED BY <2>2, <3>1 DEF old
  <2>5. CASE i > Len(old)
    <3>1. i - Len(old) \in 1..k /\ (old \o new)[i] = new[i - Len(old)]
      BY SMTT(30), <1>1, <1>3, <2>2, <2>3, <2>5
    <3>2. disk'[fd][i] = w[i - Len(old)]
      BY <1>3, <2>2, <3>1
    <3> QED BY <3>1, <3>2 DEF old
  <2>6. i \in Int /\ Len(old) \in Int
    BY <2>2, <2>3
  <2> QED BY <2>4, <2>5, <2>6
<1>12. \A d \in Days : \A i \in DOMAIN disk'[d] :
         \/ i \in DOMAIN disk[d] /\ disk'[d][i] = disk[d][i]
         \/ d = fd /\ i - Len(disk[fd]) \in 1..k /\ disk'[d][i] = w[i - Len(disk[fd])]
  BY <1>6, <1>11
<1> QED BY SMTT(30), <1>6, <1>8, <1>9, <1>10, <1>12

(* The others stay in the buffer.                                          *)
LEMMA Kept ==
  ASSUME NEW w \in Seq(Records), NEW k \in 0..Len(w), buffer' = SubSeq(w, k + 1, Len(w))
  PROVE  /\ buffer' \in Seq(Records)
         /\ Len(buffer') = Len(w) - k
         /\ \A i \in 1..(Len(w) - k) : buffer'[i] = w[k + i]
         /\ ToSet(buffer') = {w[i] : i \in (k + 1)..Len(w)}
<1>1. /\ SubSeq(w, k + 1, Len(w)) \in Seq(Records)
      /\ Len(SubSeq(w, k + 1, Len(w))) = Len(w) - k
      /\ \A i \in 1..(Len(w) - k) : SubSeq(w, k + 1, Len(w))[i] = w[k + i]
      /\ ToSet(SubSeq(w, k + 1, Len(w))) = {w[i] : i \in (k + 1)..Len(w)}
  BY Handing
<1> QED BY <1>1

(* Records that may follow what is on disk: they are of the session and of *)
(* the file's day, nothing before them is unaccounted for, and they are in *)
(* order.                                                                  *)
Orderly(w) ==
  /\ w \in Seq(Records)
  /\ \A i \in 1..Len(w) :
       w[i].session = session /\ (session \notin raced => Date(w[i].time) = fd)
  /\ \A j \in 1..Len(w) : \A m \in 1..(w[j].n - 1) :
       \/ \E e \in OnDisk \cup Lost : e.session = session /\ e.n = m
       \/ \E i \in 1..(j - 1) : w[i].n = m
  /\ \A j \in 1..Len(w) : \A i \in 1..(j - 1) : w[i].n < w[j].n
  /\ \A r \in OnDisk : r.session = session => \A i \in 1..Len(w) : r.n < w[i].n

(* Those in the buffer are such.                                           *)
LEMMA BufferOrderly ==
  ASSUME LogInv
  PROVE  Orderly(buffer)
<1>1. buffer \in Seq(Records)
  BY DEF LogInv, LogTypeOK
<1>2. \A j \in 1..Len(buffer) : buffer[j] \in ToSet(buffer)
  BY <1>1 DEF ToSet
<1> QED BY <1>1, <1>2 DEF LogInv, Buffered, Trail, InSequence, Orderly

(* So are those with the new record at their end.                          *)
LEMMA Written ==
  ASSUME LogInv, pc = "write", NEW w, w = Append(buffer, Record)
  PROVE  /\ Orderly(w)
         /\ Len(w) = Len(buffer) + 1
         /\ \A i \in 1..Len(w) : w[i].n =< count
         /\ \E i \in 1..Len(w) : w[i].n = count
         /\ \A r \in ToSet(buffer) : \E i \in 1..Len(w) : w[i] = r
<1>1. buffer \in Seq(Records) /\ Record \in Records /\ count \in Nat
  BY RecordType DEF LogInv, LogTypeOK, UnderWay
<1>2. Record.session = session /\ Record.n = count /\ Record.time = stamp
  BY DEF Record
<1>3. /\ w \in Seq(Records)
      /\ Len(w) = Len(buffer) + 1
      /\ \A i \in 1..Len(buffer) : w[i] = buffer[i]
      /\ w[Len(buffer) + 1] = Record
  BY <1>1
<1>4. Logged = count - 1
  BY DEF Logged, UnderWay
<1>5. ASSUME NEW i \in 1..Len(w)
      PROVE  i \in 1..Len(buffer) \/ i = Len(buffer) + 1
  BY <1>1, <1>3
<1>6. Orderly(buffer)
  BY BufferOrderly
<1>7. ASSUME NEW i \in 1..Len(w)
      PROVE  w[i].session = session /\ (session \notin raced => Date(w[i].time) = fd)
  <2>1. CASE i \in 1..Len(buffer)
    BY <1>3, <1>6, <2>1 DEF Orderly
  <2>2. CASE i = Len(buffer) + 1
    BY <1>2, <1>3, <2>2 DEF LogInv, OnTime
  <2> QED BY <1>5, <2>1, <2>2
<1>8. ASSUME NEW r \in ToSet(buffer)
      PROVE  \E i \in 1..Len(buffer) : buffer[i] = r
  BY <1>1 DEF ToSet
<1>9. ASSUME NEW j \in 1..Len(w), NEW m \in 1..(w[j].n - 1)
      PROVE  \/ \E e \in OnDisk \cup Lost : e.session = session /\ e.n = m
             \/ \E i \in 1..(j - 1) : w[i].n = m
  <2>1. CASE j \in 1..Len(buffer)
    <3>1. \/ \E e \in OnDisk \cup Lost : e.session = session /\ e.n = m
          \/ \E i \in 1..(j - 1) : buffer[i].n = m
      BY <1>3, <1>6, <2>1 DEF Orderly
    <3>2. \A i \in 1..(j - 1) : w[i] = buffer[i]
      BY <1>1, <1>3, <2>1
    <3> QED BY <3>1, <3>2
  <2>2. CASE j = Len(buffer) + 1
    <3>1. m \in 1..Logged /\ j - 1 = Len(buffer)
      BY <1>1, <1>2, <1>3, <1>4, <2>2
    <3>2. PICK r \in OnDisk \cup ToSet(buffer) \cup Lost : r.session = session /\ r.n = m
      BY <3>1 DEF LogInv, Accounted
    <3>3. CASE r \in ToSet(buffer)
      BY <1>3, <1>8, <3>1, <3>2, <3>3
    <3> QED BY <3>2, <3>3
  <2> QED BY <1>5, <2>1, <2>2
<1>10. \A i \in 1..Len(buffer) : buffer[i].n \in Int /\ buffer[i].n < count
  <2>1. \A i \in 1..Len(buffer) : buffer[i].n \in Int
    <3>1. \A r \in Records : r.n \in Int
      BY DEF Records
    <3> QED BY <1>1, <3>1
  <2> QED BY <1>1, <1>4, <2>1 DEF LogInv, InSequence
<1>11. ASSUME NEW j \in 1..Len(w), NEW i \in 1..(j - 1)
       PROVE  w[i].n < w[j].n
  <2>1. CASE j \in 1..Len(buffer)
    <3>1. i \in 1..Len(buffer)
      BY <1>1, <2>1
    <3> QED BY <1>3, <1>6, <2>1, <3>1 DEF Orderly
  <2>2. CASE j = Len(buffer) + 1
    <3>1. i \in 1..Len(buffer)
      BY <1>1, <2>2
    <3> QED BY <1>2, <1>3, <1>10, <2>2, <3>1
  <2> QED BY <1>5, <2>1, <2>2
<1>12. ASSUME NEW r \in OnDisk, r.session = session, NEW i \in 1..Len(w)
       PROVE  r.n < w[i].n
  <2>1. CASE i \in 1..Len(buffer)
    BY <1>3, <1>6, <1>12, <2>1 DEF Orderly
  <2>2. CASE i = Len(buffer) + 1
    <3>1. r.n \in Int
      BY OfRecords DEF LogInv, Records
    <3>2. r.n =< count - 1
      BY <1>4, <1>12 DEF LogInv, InSequence
    <3> QED BY <1>1, <1>2, <1>3, <2>2, <3>1, <3>2
  <2> QED BY <1>5, <2>1, <2>2
<1>13. ASSUME NEW i \in 1..Len(w)
       PROVE  w[i].n =< count
  <2>1. CASE i \in 1..Len(buffer)
    BY <1>1, <1>3, <1>10, <2>1
  <2> QED BY <1>1, <1>2, <1>3, <1>5, <2>1
<1>14. Len(buffer) + 1 \in 1..Len(w) /\ 1..Len(buffer) \subseteq 1..Len(w)
  BY <1>1, <1>3
<1>15. Orderly(w)
  BY <1>3, <1>7, <1>9, <1>11, <1>12 DEF Orderly
<1> QED BY <1>2, <1>3, <1>8, <1>13, <1>14, <1>15

(* What is orderly in hand is orderly on disk.                             *)
LEMMA HandedInOrder ==
  ASSUME LogInv, fd # NoFile, NEW w, Orderly(w), NEW k \in 0..Len(w),
         disk' = [disk EXCEPT ![fd] = @ \o SubSeq(w, 1, k)],
         UNCHANGED <<session, raced>>, Lost \subseteq Lost'
  PROVE  NoGaps' /\ WrittenOnceInOrder' /\ UnracedInFileOfItsDay'
<1>1. w \in Seq(Records) /\ LogTypeOK /\ Len(w) \in Nat
  BY DEF LogInv, Orderly
<1>2. /\ disk' \in [Days -> Seq(Records)]
      /\ \A d \in Days : \A i \in DOMAIN disk'[d] :
           \/ i \in DOMAIN disk[d] /\ disk'[d][i] = disk[d][i]
           \/ /\ d = fd
              /\ i - Len(disk[fd]) \in 1..k
              /\ disk'[d][i] = w[i - Len(disk[fd])]
      /\ \A d \in Days : \A r \in ToSet(disk'[d]) :
           r \in ToSet(disk[d]) \/ (d = fd /\ \E i \in 1..k : r = w[i])
      /\ OnDisk' = OnDisk \cup {w[i] : i \in 1..k}
  BY ZenonT(40), <1>1, Handed
<1>3. 1..k \subseteq 1..Len(w)
  BY <1>1
<1>4. NoGaps'
  <2> SUFFICES ASSUME NEW r \in OnDisk', NEW m \in 1..(r.n - 1)
               PROVE  \E e \in OnDisk' \cup Lost' : e.session = r.session /\ e.n = m
    BY DEF NoGaps
  <2>1. CASE r \in OnDisk
    <3>1. PICK e \in OnDisk \cup Lost : e.session = r.session /\ e.n = m
      BY <2>1 DEF LogInv, NoGaps
    <3>2. OnDisk \subseteq OnDisk'
      BY <1>2
    <3> QED BY <3>1, <3>2
  <2>2. CASE \E i \in 1..k : r = w[i]
    <3>1. PICK j \in 1..k : r = w[j]
      BY <2>2
    <3>2. \/ \E e \in OnDisk \cup Lost : e.session = session /\ e.n = m
          \/ \E i \in 1..(j - 1) : w[i].n = m
      BY <1>3, <3>1 DEF Orderly
    <3>3. 1..(j - 1) \subseteq 1..k
      BY <1>1
    <3>4. r.session = session
      BY <1>3, <3>1 DEF Orderly
    <3>5. CASE \E i \in 1..(j - 1) : w[i].n = m
      <4>1. PICK i \in 1..k : w[i].n = m
        BY <3>3, <3>5
      <4>2. w[i] \in OnDisk' /\ w[i].session = session
        BY <1>2, <1>3 DEF Orderly
      <4> QED BY <3>4, <4>1, <4>2
    <3> QED BY <1>2, <3>2, <3>4, <3>5
  <2> QED BY <1>2, <2>1, <2>2
<1>5. UnracedInFileOfItsDay'
  <2> SUFFICES ASSUME NEW d \in Days, NEW r \in ToSet(disk'[d]), r.session \notin raced
               PROVE  Date(r.time) = d
    BY DEF UnracedInFileOfItsDay
  <2>1. CASE r \in ToSet(disk[d])
    BY <2>1 DEF LogInv, UnracedInFileOfItsDay
  <2>2. CASE d = fd /\ \E i \in 1..k : r = w[i]
    BY <1>3, <2>2 DEF Orderly
  <2> QED BY <1>2, <2>1, <2>2
<1>6. WrittenOnceInOrder'
  <2> DEFINE last == Len(disk[fd])
  <2> SUFFICES ASSUME NEW d \in Days, NEW e \in Days,
                      NEW i \in DOMAIN disk'[d], NEW j \in DOMAIN disk'[e],
                      disk'[d][i].session = disk'[e][j].session,
                      d < e \/ (d = e /\ i < j)
               PROVE  disk'[d][i].n < disk'[e][j].n
    BY DEF WrittenOnceInOrder
  <2>1. disk \in [Days -> Seq(Records)] /\ fd \in Days /\ Days \subseteq Int
    BY <1>1, DaysInt DEF LogTypeOK
  <2>2. last \in Nat /\ DOMAIN disk[fd] = 1..last /\ i \in Int /\ j \in Int
    <3>1. disk[fd] \in Seq(Records) /\ disk'[d] \in Seq(Records) /\ disk'[e] \in Seq(Records)
      BY <1>2, <2>1
    <3>2. \A s \in Seq(Records) : Len(s) \in Nat /\ DOMAIN s = 1..Len(s) /\ DOMAIN s \subseteq Int
      OBVIOUS
    <3>3. DOMAIN disk'[d] \subseteq Int /\ DOMAIN disk'[e] \subseteq Int
      BY <3>1, <3>2
    <3> QED BY <3>1, <3>2, <3>3
  <2>3. \A x \in Days : \A a \in DOMAIN disk[x] : disk[x][a] \in ToSet(disk[x])
    BY DEF ToSet
  <2>4. \A x \in Days : \A a \in DOMAIN disk[x] : disk[x][a] \in OnDisk
    BY <2>3 DEF OnDisk
  <2> DEFINE Old(x, a) == a \in DOMAIN disk[x] /\ disk'[x][a] = disk[x][a]
             New(x, a) == x = fd /\ a - last \in 1..k /\ disk'[x][a] = w[a - last]
  <2>5. (Old(d, i) \/ New(d, i)) /\ (Old(e, j) \/ New(e, j))
    BY <1>2
  <2>6. CASE Old(d, i) /\ Old(e, j)
    BY <2>6 DEF LogInv, WrittenOnceInOrder
  <2>7. CASE Old(d, i) /\ New(e, j)
    <3>1. disk[d][i] \in OnDisk /\ disk[d][i].session = session /\ j - last \in 1..Len(w)
      BY <1>3, <2>4, <2>7 DEF Orderly
    <3> QED BY <2>7, <3>1 DEF Orderly
  <2>8. CASE New(d, i) /\ Old(e, j)
    <3>1. disk[e][j].session = session /\ disk[e][j] \in ToSet(disk[e])
      BY <1>3, <2>3, <2>8 DEF Orderly
    <3>2. e =< fd
      BY <3>1 DEF LogInv, Latest
    <3>3. e = fd /\ i < j /\ j =< last /\ i > last
      BY <2>1, <2>2, <2>8, <3>2
    <3> QED BY <2>2, <3>3
  <2>9. CASE New(d, i) /\ New(e, j)
    <3>1. i < j
      BY <2>1, <2>9
    <3>2. i - last \in 1..((j - last) - 1) /\ j - last \in 1..Len(w)
      BY <1>3, <2>2, <2>9, <3>1
    <3> QED BY <2>9, <3>2 DEF Orderly
  <2> QED BY <2>5, <2>6, <2>7, <2>8, <2>9
<1> QED BY <1>4, <1>5, <1>6

(* Writing, flushing and closing hand over from an orderly buffer; nothing *)
(* of it stays, and what the system did not take is Rest(k).               *)
LEMMA HandedFiles ==
  ASSUME LogInv, NEW k \in 0..Len(buffer), HandOver(k)
  PROVE  /\ disk' \in [Days -> Seq(Records)]
         /\ \A d \in Days : IsPrefix(disk[d], disk'[d])
         /\ \A d \in Days : \A r \in ToSet(disk'[d]) :
              r \in ToSet(disk[d]) \/ (d = fd /\ fd # NoFile /\ r \in ToSet(buffer))
         /\ OnDisk' \subseteq OnDisk \cup ToSet(buffer)
         /\ OnDisk \cup ToSet(buffer) \subseteq OnDisk' \cup Rest(k)
         /\ Rest(k) \subseteq ToSet(buffer)
         /\ buffer' \in Seq(Records) /\ ToSet(buffer') = {} /\ buffer' = <<>>
         /\ Len(buffer') = 0 /\ Trail'
<1>1. LogTypeOK /\ buffer \in Seq(Records) /\ disk \in [Days -> Seq(Records)]
  BY DEF LogInv, LogTypeOK
<1>2. /\ buffer' \in Seq(Records) /\ ToSet(buffer') = {} /\ buffer' = <<>>
      /\ Len(buffer') = 0 /\ Trail'
  BY EmptyBuffer DEF HandOver
<1>3. ToSet(buffer) = {buffer[i] : i \in 1..Len(buffer)}
  BY <1>1 DEF ToSet
<1>4. Rest(k) = {buffer[i] : i \in (k + 1)..Len(buffer)}
  BY <1>1, Handing DEF Rest
<1>5. /\ Rest(k) \subseteq ToSet(buffer)
      /\ ToSet(buffer) = {buffer[i] : i \in 1..k} \cup Rest(k)
  <2>1. Len(buffer) \in Nat
    BY <1>1
  <2>2. 1..Len(buffer) = 1..k \cup (k + 1)..Len(buffer)
    BY <2>1
  <2> QED BY <1>3, <1>4, <2>2
<1>6. CASE fd = NoFile
  <2>1. buffer = <<>> /\ disk' = disk
    BY <1>6 DEF LogInv, Buffered, HandOver
  <2>2. ToSet(buffer) = {}
    BY <2>1 DEF ToSet
  <2>3. \A x \in Seq(Records) : IsPrefix(x, x)
    BY DEF IsPrefix
  <2>4. OnDisk' = OnDisk
    BY <2>1 DEF OnDisk
  <2> QED BY <1>1, <1>2, <1>5, <2>1, <2>2, <2>3, <2>4
<1>7. CASE fd # NoFile
  <2>1. disk' = [disk EXCEPT ![fd] = @ \o SubSeq(buffer, 1, k)]
    BY <1>7 DEF HandOver
  <2>2. /\ disk' \in [Days -> Seq(Records)]
        /\ \A d \in Days : IsPrefix(disk[d], disk'[d])
        /\ \A d \in Days : \A r \in ToSet(disk'[d]) :
             r \in ToSet(disk[d]) \/ (d = fd /\ \E i \in 1..k : r = buffer[i])
        /\ OnDisk' = OnDisk \cup {buffer[i] : i \in 1..k}
    BY ZenonT(40), <1>1, <1>7, <2>1, Handed
  <2>3. \A i \in 1..k : buffer[i] \in ToSet(buffer)
    BY <1>5
  <2> QED BY <1>2, <1>5, <1>7, <2>2, <2>3
<1> QED BY <1>6, <1>7

(* The order of what is on disk stands a hand-over, a failing one as well. *)
LEMMA HandedOver ==
  ASSUME LogInv, NEW k \in 0..Len(buffer), HandOver(k),
         UNCHANGED <<session, raced>>, Lost \subseteq Lost'
  PROVE  /\ NoGaps' /\ WrittenOnceInOrder' /\ UnracedInFileOfItsDay'
         /\ \A r \in OnDisk' :
              r.session =< session /\ (r.session = session => r.n =< Logged)
<1>1. buffer \in Seq(Records) /\ session \in Nat
  BY DEF LogInv, LogTypeOK
<1>2. NoGaps' /\ WrittenOnceInOrder' /\ UnracedInFileOfItsDay'
  <2>1. CASE fd = NoFile
    <3>1. disk' = disk /\ OnDisk' = OnDisk
      BY <2>1 DEF HandOver, OnDisk
    <3>2. NoGaps'
      BY <3>1 DEF LogInv, NoGaps
    <3>3. WrittenOnceInOrder'
      BY <3>1 DEF LogInv, WrittenOnceInOrder
    <3> QED BY <3>1, <3>2, <3>3 DEF LogInv, UnracedInFileOfItsDay
  <2>2. CASE fd # NoFile
    <3>1. disk' = [disk EXCEPT ![fd] = @ \o SubSeq(buffer, 1, k)]
      BY <2>2 DEF HandOver
    <3> QED BY <2>2, <3>1, BufferOrderly, HandedInOrder
  <2> QED BY <2>1, <2>2
<1>3. ASSUME NEW r \in ToSet(buffer)
      PROVE  r.session = session /\ r.n =< Logged
  <2>1. PICK j \in 1..Len(buffer) : r = buffer[j]
    BY <1>1 DEF ToSet
  <2> QED BY <2>1 DEF LogInv, Buffered, InSequence
<1>4. \A r \in OnDisk : r.session =< session /\ (r.session = session => r.n =< Logged)
  BY DEF LogInv, Current, InSequence
<1> QED BY <1>1, <1>2, <1>3, <1>4, HandedFiles

(* Only the file of the open descriptor grows.                             *)
LEMMA HandedWithin ==
  ASSUME LogInv, NEW k \in 0..Len(buffer), HandOver(k)
  PROVE  \A d \in Days : \A r \in ToSet(disk'[d]) : r.session = session =>
           /\ d \in Date(began)..Date(clock)
           /\ UnderWay => d =< Date(stamp)
           /\ fd # NoFile => d =< fd
<1> SUFFICES ASSUME NEW d \in Days, NEW r \in ToSet(disk'[d]), r.session = session
             PROVE  /\ d \in Date(began)..Date(clock)
                    /\ UnderWay => d =< Date(stamp)
                    /\ fd # NoFile => d =< fd
  OBVIOUS
<1>1. CASE r \in ToSet(disk[d])
  BY <1>1 DEF LogInv, WithinSession, Latest
<1>2. CASE d = fd /\ fd # NoFile
  BY <1>2, DaysInt DEF LogInv, WithinSession, Latest
<1> QED BY <1>1, <1>2, HandedFiles

(* A rotation is due on a later day than that on which the session began.  *)
LEMMA LostAtRotation ==
  ASSUME LogInv, pc = "rotate", NEW k \in 0..Len(buffer), HandOver(k),
         dropped' = dropped \cup Rest(k), UNCHANGED <<clock, session, began>>
  PROVE  UnreportedLossNeedsMidnight' /\ \A r \in dropped' : r.session =< session'
<1>1. Date(began) < Date(clock)
  <2>1. {clock, stamp, rotation_tp, Date(began)} \subseteq Int
    BY Times DEF LogInv, LogTypeOK
  <2>2. /\ Midnight(Date(began)) =< rotation_tp
        /\ rotation_tp =< stamp /\ stamp =< clock
    BY DEF LogInv, NotBeforeMidnight, FileOpen, Current, UnderWay
  <2>3. Midnight(Date(began)) \in Int
    BY <2>1, MidnightInt
  <2>4. Midnight(Date(began)) =< clock
    BY <2>1, <2>2, <2>3
  <2> QED BY <2>1, <2>4, AfterMidnight
<1>2. \A r \in Rest(k) : r.session = session
  BY HandedFiles DEF LogInv, Buffered
<1>3. session =< session
  BY DEF LogInv, LogTypeOK
<1> QED BY <1>1, <1>2, <1>3 DEF LogInv, UnreportedLossNeedsMidnight, NotBeforeMidnight

(* The new file is of the day of the record, and its buffer is empty.      *)
LEMMA RotateInv ==
  ASSUME LogInv, Rotate
  PROVE  LogInv'
<1>1. PICK k \in 0..Len(buffer) : CloseFile(k) /\ FailsIf(k < Len(buffer))
  BY DEF Rotate
<1>2. HandOver(k) /\ dropped' = dropped \cup Rest(k) /\ Lost' = Lost \cup Rest(k)
  BY <1>1 DEF CloseFile, Rotate, Lost
<1>3. UNCHANGED <<clock, session, count, logFileName, rotation_tp, stamp, failed, began, raced>>
      /\ pc = "rotate" /\ pc' = "rotated" /\ fd' = Date(stamp) /\ toOpen' = Date(stamp)
  BY DEF Rotate, Goto
<1>4. Date(stamp) \in Days /\ Date(stamp) # NoFile /\ Date(stamp) \in Date(began)..Date(clock)
  <2>1. began =< stamp /\ stamp =< clock
    BY <1>3 DEF LogInv, Current, UnderWay
  <2> QED BY <2>1, Times, DateMonotone, DaysInt DEF LogInv
<1>5. LogTypeOK'
  <2>1. dropped' \subseteq Records
    BY <1>2, HandedFiles, OfRecords DEF LogInv, LogTypeOK
  <2>2. failures' \in 0..FailureLimit
    BY SMTT(30), <1>1 DEF LogInv, LogTypeOK, FailsIf
  <2>3. disk' \in [Days -> Seq(Records)] /\ buffer' \in Seq(Records)
    BY <1>2, HandedFiles
  <2> QED BY <1>3, <1>4, <2>1, <2>2, <2>3 DEF LogInv, LogTypeOK
<1>6. NoGaps' /\ WrittenOnceInOrder' /\ UnracedInFileOfItsDay' /\ Trail'
  BY <1>2, <1>3, HandedOver, HandedFiles
<1>7. Logged' = Logged
  BY <1>3 DEF Logged, UnderWay
<1>8. Current' /\ InSequence'
  <2>1. \A r \in OnDisk' : r.session =< session /\ (r.session = session => r.n =< Logged)
    BY <1>2, <1>3, HandedOver
  <2>2. ToSet(buffer') = {} /\ Len(buffer') = 0
    BY <1>2, HandedFiles
  <2> QED BY <1>3, <1>7, <2>1, <2>2 DEF LogInv, Current, InSequence, UnderWay
<1>9. FileOpen' /\ OnTime'
  BY <1>3, <1>4 DEF FileOpen, OnTime
<1>10. Buffered'
  BY <1>2, HandedFiles DEF Buffered
<1>11. WithinSession' /\ Latest'
  <2>1. \A d \in Days : \A r \in ToSet(disk'[d]) : r.session = session =>
          d \in Date(began)..Date(clock) /\ d =< Date(stamp)
    BY <1>2, <1>3, HandedWithin DEF UnderWay
  <2>2. Date(stamp) =< Date(stamp)
    BY Times DEF LogInv
  <2> QED BY <1>3, <1>4, <2>1, <2>2 DEF LogInv, WithinSession, Latest, UnderWay
<1>12. Accounted'
  BY <1>2, <1>3, <1>7, HandedFiles DEF LogInv, Accounted
<1>13. NotBeforeMidnight' /\ UnreportedLossNeedsMidnight'
  BY <1>2, <1>3, LostAtRotation DEF LogInv, NotBeforeMidnight
<1> QED BY <1>5, <1>6, <1>8, <1>9, <1>10, <1>11, <1>12, <1>13 DEF LogInv

(* The time of the next rotation stays in the past.                        *)
LEMMA RotateFailsInv ==
  ASSUME LogInv, RotateFails
  PROVE  LogInv'
<1>1. PICK k \in 0..Len(buffer) : CloseFile(k)
  BY DEF RotateFails
<1>2. HandOver(k) /\ dropped' = dropped \cup Rest(k) /\ failed' = failed \cup {Record}
  BY <1>1 DEF CloseFile, RotateFails
<1>3. Lost' = Lost \cup Rest(k) \cup {Record}
  BY <1>2 DEF Lost
<1>4. UNCHANGED <<clock, session, count, logFileName, rotation_tp, stamp, began, raced>>
      /\ pc = "rotate" /\ pc' = "ready" /\ fd' = NoFile /\ toOpen' = Date(stamp)
  BY DEF RotateFails, Goto
<1>5. Date(stamp) \in Days /\ UnderWay /\ ~UnderWay'
  BY <1>4, Times DEF LogInv, UnderWay
<1>6. LogTypeOK'
  <2>1. Record \in Records
    BY <1>5, RecordType
  <2>2. disk' \in [Days -> Seq(Records)] /\ buffer' \in Seq(Records)
    BY <1>2, HandedFiles
  <2>3. failed' \subseteq Records /\ dropped' \subseteq Records
    BY <1>2, <2>1, HandedFiles, OfRecords DEF LogInv, LogTypeOK
  <2>4. failures' \in 0..FailureLimit
    BY DEF LogInv, LogTypeOK, RotateFails, FailsIf
  <2> QED BY <1>4, <1>5, <2>2, <2>3, <2>4 DEF LogInv, LogTypeOK
<1>7. NoGaps' /\ WrittenOnceInOrder' /\ UnracedInFileOfItsDay' /\ Trail'
  BY <1>2, <1>3, <1>4, HandedOver, HandedFiles
<1>8. Current' /\ InSequence'
  <2>1. \A r \in OnDisk' : r.session =< session /\ (r.session = session => r.n =< Logged)
    BY <1>2, <1>3, <1>4, HandedOver
  <2>2. count \in Nat /\ Logged = count - 1 /\ Logged' = count
    BY <1>4, <1>5 DEF LogInv, LogTypeOK, Logged
  <2>3. \A r \in OnDisk' : r.session = session => r.n =< count
    <3>1. OnDisk' \subseteq Records
      BY <1>2, HandedFiles, OfRecords DEF LogInv
    <3> QED BY <2>1, <2>2, <3>1 DEF Records
  <2>4. ToSet(buffer') = {} /\ Len(buffer') = 0
    BY <1>2, HandedFiles
  <2> QED BY <1>4, <1>5, <2>1, <2>2, <2>3, <2>4 DEF LogInv, Current, InSequence
<1>9. FileOpen'
  <2>1. rotation_tp \in Int /\ rotation_tp =< stamp /\ stamp =< clock
    BY <1>4, <1>5 DEF LogInv, LogTypeOK, Current, FileOpen
  <2>2. rotation_tp =< clock
    BY <2>1, Times DEF LogInv
  <2> QED BY <1>4, <2>2 DEF FileOpen
<1>10. Buffered' /\ OnTime'
  BY <1>2, <1>4, HandedFiles DEF Buffered, OnTime
<1>11. WithinSession' /\ Latest'
  <2>1. \A d \in Days : \A r \in ToSet(disk'[d]) : r.session = session =>
          d \in Date(began)..Date(clock)
    BY <1>2, HandedWithin
  <2> QED BY <1>4, <1>5, <2>1 DEF LogInv, WithinSession, Latest
<1>12. Accounted'
  <2>1. Record \in Lost' /\ OnDisk \cup ToSet(buffer) \cup Lost \subseteq OnDisk' \cup Lost'
    BY <1>2, <1>3, HandedFiles
  <2> QED BY <1>4, <1>5, <2>1, FailedIsAccounted
<1>13. NotBeforeMidnight' /\ UnreportedLossNeedsMidnight'
  BY <1>2, <1>4, LostAtRotation DEF LogInv, NotBeforeMidnight
<1> QED BY <1>6, <1>7, <1>8, <1>9, <1>10, <1>11, <1>12, <1>13 DEF LogInv

(* The record is lost, and so is what the system did not take before it.   *)
LEMMA WriteFailsInv ==
  ASSUME LogInv, WriteFails
  PROVE  LogInv'
<1>1. PICK k \in 0..Len(buffer) :
        HandOver(k) /\ failed' = failed \cup {Record} \cup Rest(k)
  BY DEF WriteFails
<1>2. UNCHANGED <<clock, session, count, logFileName, fd, toOpen, rotation_tp, stamp, dropped,
                  began, raced>>
      /\ pc = "write" /\ pc' = "ready" /\ fd # NoFile
  BY DEF WriteFails, Goto, sinkVars
<1>3. Lost' = Lost \cup Rest(k) \cup {Record}
  BY <1>1, <1>2 DEF Lost
<1>4. UnderWay /\ ~UnderWay'
  BY <1>2 DEF UnderWay
<1>5. LogTypeOK'
  <2>1. Record \in Records
    BY <1>4, RecordType
  <2>2. disk' \in [Days -> Seq(Records)] /\ buffer' \in Seq(Records)
    BY <1>1, HandedFiles
  <2>3. failed' \subseteq Records
    BY <1>1, <2>1, HandedFiles, OfRecords DEF LogInv, LogTypeOK
  <2>4. failures' \in 0..FailureLimit
    BY DEF LogInv, LogTypeOK, WriteFails, FailsIf
  <2> QED BY <1>2, <2>2, <2>3, <2>4 DEF LogInv, LogTypeOK
<1>6. NoGaps' /\ WrittenOnceInOrder' /\ UnracedInFileOfItsDay' /\ Trail'
  BY <1>1, <1>2, <1>3, HandedOver, HandedFiles
<1>7. Current' /\ InSequence'
  <2>1. \A r \in OnDisk' : r.session =< session /\ (r.session = session => r.n =< Logged)
    BY <1>1, <1>2, <1>3, HandedOver
  <2>2. count \in Nat /\ Logged = count - 1 /\ Logged' = count
    BY <1>2, <1>4 DEF LogInv, LogTypeOK, Logged
  <2>3. \A r \in OnDisk' : r.session = session => r.n =< count
    <3>1. OnDisk' \subseteq Records
      BY <1>1, HandedFiles, OfRecords DEF LogInv
    <3> QED BY <2>1, <2>2, <3>1 DEF Records
  <2>4. ToSet(buffer') = {} /\ Len(buffer') = 0
    BY <1>1, HandedFiles
  <2> QED BY <1>2, <1>4, <2>1, <2>2, <2>3, <2>4 DEF LogInv, Current, InSequence
<1>8. FileOpen' /\ OnTime'
  BY <1>2 DEF LogInv, FileOpen, OnTime
<1>9. Buffered'
  BY <1>1, HandedFiles DEF Buffered
<1>10. WithinSession' /\ Latest'
  <2>1. \A d \in Days : \A r \in ToSet(disk'[d]) : r.session = session =>
          d \in Date(began)..Date(clock) /\ d =< fd
    BY <1>1, <1>2, HandedWithin
  <2> QED BY <1>2, <1>4, <2>1 DEF LogInv, WithinSession, Latest
<1>11. Accounted'
  <2>1. Record \in Lost' /\ OnDisk \cup ToSet(buffer) \cup Lost \subseteq OnDisk' \cup Lost'
    BY <1>1, <1>3, HandedFiles
  <2> QED BY <1>2, <1>4, <2>1, FailedIsAccounted
<1>12. NotBeforeMidnight' /\ UnreportedLossNeedsMidnight'
  BY <1>2, StillLost DEF LogInv, NotBeforeMidnight
<1> QED BY <1>5, <1>6, <1>7, <1>8, <1>9, <1>10, <1>11, <1>12 DEF LogInv

(* The record joins the buffer, and any prefix of that goes to disk.       *)
LEMMA WriteInv ==
  ASSUME LogInv, Write
  PROVE  LogInv'
<1> DEFINE w == Append(buffer, Record)
<1>1. pc = "write" /\ pc' = "ready" /\ fd # NoFile
  BY DEF LogInv, FileOpen, Write, Goto
<1>2. PICK k \in 0..Len(w) :
        /\ disk' = [disk EXCEPT ![fd] = @ \o SubSeq(w, 1, k)]
        /\ buffer' = SubSeq(w, k + 1, Len(w))
  BY <1>1 DEF Write
<1>3. /\ Orderly(w)
      /\ Len(w) = Len(buffer) + 1
      /\ \A i \in 1..Len(w) : w[i].n =< count
      /\ \E i \in 1..Len(w) : w[i].n = count
      /\ \A r \in ToSet(buffer) : \E i \in 1..Len(w) : w[i] = r
  BY <1>1, Written
<1> HIDE DEF w
<1>4. w \in Seq(Records) /\ Len(w) \in Nat /\ k \in Nat /\ k =< Len(w) /\ LogTypeOK
  BY <1>2, <1>3 DEF Orderly, LogInv
<1>5. /\ disk' \in [Days -> Seq(Records)]
      /\ \A d \in Days : \A r \in ToSet(disk'[d]) :
           r \in ToSet(disk[d]) \/ (d = fd /\ \E i \in 1..k : r = w[i])
      /\ OnDisk' = OnDisk \cup {w[i] : i \in 1..k}
  BY ZenonT(40), <1>1, <1>2, <1>4, Handed
<1>6. /\ buffer' \in Seq(Records)
      /\ Len(buffer') = Len(w) - k
      /\ \A i \in 1..(Len(w) - k) : buffer'[i] = w[k + i]
      /\ ToSet(buffer') = {w[i] : i \in (k + 1)..Len(w)}
  BY <1>2, <1>4, Kept
<1>7. UNCHANGED <<clock, session, count, logFileName, fd, toOpen, rotation_tp, stamp,
                  failed, dropped, failures, began, raced>>
  BY DEF Write, sinkVars, trouble
<1>8. LogTypeOK'
  BY <1>1, <1>5, <1>6, <1>7 DEF LogInv, LogTypeOK
<1>9. \A i \in 1..Len(w) : w[i] \in OnDisk' \/ w[i] \in ToSet(buffer')
  <2>1. ASSUME NEW i \in 1..Len(w)
        PROVE  i \in 1..k \/ i \in (k + 1)..Len(w)
    BY <1>4
  <2> QED BY <1>5, <1>6, <2>1
<1>10. /\ 1..k \subseteq 1..Len(w) /\ (k + 1)..Len(w) \subseteq 1..Len(w)
       /\ Lost' = Lost
  BY <1>4, <1>7 DEF Lost
<1>11. \A i \in 1..Len(w) : w[i].session = session /\ w[i].n \in Int
  <2>1. \A r \in Records : r.n \in Int
    BY DEF Records
  <2>2. \A i \in 1..Len(w) : w[i] \in Records
    BY <1>4
  <2> QED BY <1>3, <2>1, <2>2 DEF Orderly
<1>12. Current'
  <2>1. \A r \in OnDisk' : r.session =< session
    <3>1. session \in Nat
      BY DEF LogInv, LogTypeOK
    <3> QED BY <1>5, <1>10, <1>11, <3>1 DEF LogInv, Current
  <2> QED BY <1>1, <1>7, <2>1 DEF LogInv, Current, UnderWay
<1>13. FileOpen' /\ OnTime'
  BY <1>1, <1>7 DEF LogInv, FileOpen, OnTime
<1>14. Buffered'
  BY <1>1, <1>3, <1>6, <1>7, <1>10 DEF Buffered, Orderly
<1>15. WithinSession' /\ Latest'
  <2>1. fd \in Int
    BY <1>1, DaysInt DEF LogInv, LogTypeOK
  <2>2. WithinSession'
    BY <1>1, <1>5, <1>7 DEF LogInv, WithinSession, UnderWay
  <2>3. \A d \in Days : \A r \in ToSet(disk'[d]) : r.session = session => d =< fd
    BY <1>1, <1>5, <2>1 DEF LogInv, Latest
  <2> QED BY <1>1, <1>7, <2>2, <2>3 DEF Latest, UnderWay
<1>16. count \in Nat /\ Logged = count - 1 /\ Logged' = count
  BY <1>1, <1>7 DEF LogInv, LogTypeOK, Logged, UnderWay
<1>17. Accounted'
  <2>1. ASSUME NEW m \in 1..count
        PROVE  \E r \in OnDisk' \cup ToSet(buffer') \cup Lost' : r.session = session /\ r.n = m
    <3>1. CASE m = count
      BY <1>3, <1>9, <1>11, <3>1
    <3>2. CASE m \in 1..(count - 1)
      <4>1. PICK r \in OnDisk \cup ToSet(buffer) \cup Lost : r.session = session /\ r.n = m
        BY <1>1, <1>16, <3>2 DEF LogInv, Accounted
      <4> QED BY <1>3, <1>5, <1>9, <1>10, <4>1
    <3> QED BY <1>16, <3>1, <3>2
  <2> QED BY <1>7, <1>16, <2>1 DEF Accounted
<1>18. Trail'
  <2> SUFFICES ASSUME NEW j \in 1..Len(buffer'), NEW m \in 1..(buffer'[j].n - 1)
               PROVE  \/ \E e \in OnDisk' \cup Lost' : e.session = session' /\ e.n = m
                      \/ \E i \in 1..(j - 1) : buffer'[i].n = m
    BY DEF Trail
  <2>1. k + j \in 1..Len(w) /\ buffer'[j] = w[k + j]
    BY <1>4, <1>6
  <2>2. CASE \E e \in OnDisk \cup Lost : e.session = session /\ e.n = m
    BY <1>5, <1>7, <1>10, <2>2
  <2>3. j \in 1..(Len(w) - k)
    BY <1>6
  <2>4. CASE \E i \in 1..((k + j) - 1) : w[i].n = m
    <3>1. PICK i \in 1..((k + j) - 1) : w[i].n = m
      BY <2>4
    <3>2. CASE i =< k
      <4>1. i \in 1..k
        BY <1>4, <3>2
      <4> QED BY <1>5, <1>7, <1>10, <1>11, <3>1, <4>1
    <3>3. CASE i > k
      <4>1. i - k \in 1..(j - 1) /\ i - k \in 1..(Len(w) - k) /\ k + (i - k) = i
        BY <1>4, <2>3, <3>3
      <4>2. buffer'[i - k] = w[k + (i - k)]
        BY <1>6, <4>1
      <4>3. buffer'[i - k].n = m
        BY <3>1, <4>1, <4>2
      <4> QED BY <4>1, <4>3
    <3> QED BY <1>4, <3>2, <3>3
  <2>5. \/ \E e \in OnDisk \cup Lost : e.session = session /\ e.n = m
        \/ \E i \in 1..((k + j) - 1) : w[i].n = m
    <3>1. m \in 1..(w[k + j].n - 1)
      BY <2>1
    <3>2. \A i \in 1..Len(w) : \A x \in 1..(w[i].n - 1) :
            \/ \E e \in OnDisk \cup Lost : e.session = session /\ e.n = x
            \/ \E h \in 1..(i - 1) : w[h].n = x
      BY <1>3 DEF Orderly
    <3> QED BY <2>1, <3>1, <3>2, Zenon
  <2> QED BY <2>2, <2>4, <2>5
<1>19. InSequence'
  <2>1. \A a \in 1..Len(w) : \A b \in 1..(a - 1) : w[b].n < w[a].n
    BY <1>3 DEF Orderly
  <2>2. \A a \in (k + 1)..Len(w) : \A b \in 1..k : w[b].n < w[a].n
    <3>1. \A a \in (k + 1)..Len(w) : a \in 1..Len(w) /\ 1..k \subseteq 1..(a - 1)
      BY <1>4
    <3> QED BY <2>1, <3>1
  <2>3. ASSUME NEW r \in OnDisk', r.session = session
        PROVE  r.n =< count /\ \A e \in ToSet(buffer') : r.n < e.n
    <3>1. CASE r \in OnDisk
      <4>1. r.n \in Int
        BY <3>1, OfRecords DEF LogInv, Records
      <4>2. r.n =< count - 1
        BY <1>16, <2>3, <3>1 DEF LogInv, InSequence
      <4>3. \A i \in 1..Len(w) : r.n < w[i].n
        BY <1>3, <2>3, <3>1 DEF Orderly
      <4> QED BY <1>6, <1>10, <1>16, <4>1, <4>2, <4>3
    <3>2. CASE r \in {w[i] : i \in 1..k}
      BY <1>3, <1>6, <1>10, <2>2, <3>2
    <3> QED BY <1>5, <3>1, <3>2
  <2>4. ASSUME NEW j \in 1..Len(buffer')
        PROVE  buffer'[j].n =< count /\ \A i \in 1..(j - 1) : buffer'[i].n < buffer'[j].n
    <3>1. k + j \in 1..Len(w) /\ buffer'[j] = w[k + j]
      BY <1>4, <1>6
    <3>2. ASSUME NEW i \in 1..(j - 1)
          PROVE  buffer'[i].n < buffer'[j].n
      <4>1. k + i \in 1..((k + j) - 1) /\ i \in 1..(Len(w) - k)
        BY <1>4, <1>6
      <4>2. buffer'[i] = w[k + i]
        BY <1>6, <4>1
      <4> QED BY <2>1, <3>1, <4>1, <4>2
    <3> QED BY <1>3, <3>1, <3>2
  <2> QED BY <1>7, <1>16, <2>3, <2>4 DEF InSequence
<1>20. NoGaps' /\ WrittenOnceInOrder' /\ UnracedInFileOfItsDay'
  <2>1. Lost \subseteq Lost'
    BY <1>10
  <2> QED BY <1>1, <1>2, <1>3, <1>7, <2>1, HandedInOrder
<1>21. NotBeforeMidnight' /\ UnreportedLossNeedsMidnight'
  BY <1>1, <1>7, StillLost DEF LogInv, NotBeforeMidnight
<1> QED BY <1>8, <1>12, <1>13, <1>14, <1>15, <1>17, <1>18, <1>19, <1>20, <1>21 DEF LogInv

-----------------------------------------------------------------------------
(* The end of a session.                                                   *)

(* What was in the buffer is on disk, or its loss was reported.            *)
LEMMA ReleaseInv ==
  ASSUME LogInv, Release
  PROVE  LogInv'
<1>1. PICK k \in 0..Len(buffer) :
        HandOver(k) /\ failed' = failed \cup Rest(k) /\ FailsIf(k < Len(buffer))
  BY DEF Release
<1>2. UNCHANGED <<clock, session, count, logFileName, fd, toOpen, rotation_tp, stamp, dropped,
                  began, raced>>
      /\ pc = "ready" /\ pc' = "released"
  BY DEF Release, Goto, sinkVars
<1>3. Lost' = Lost \cup Rest(k)
  BY <1>1, <1>2 DEF Lost
<1>4. LogTypeOK'
  <2>1. disk' \in [Days -> Seq(Records)] /\ buffer' \in Seq(Records)
    BY <1>1, HandedFiles
  <2>2. failed' \subseteq Records
    BY <1>1, HandedFiles, OfRecords DEF LogInv, LogTypeOK
  <2>3. failures' \in 0..FailureLimit
    BY SMTT(30), <1>1 DEF LogInv, LogTypeOK, FailsIf
  <2> QED BY <1>2, <2>1, <2>2, <2>3 DEF LogInv, LogTypeOK
<1>5. NoGaps' /\ WrittenOnceInOrder' /\ UnracedInFileOfItsDay' /\ Trail'
  BY <1>1, <1>2, <1>3, HandedOver, HandedFiles
<1>6. Logged' = Logged
  BY <1>2 DEF Logged, UnderWay
<1>7. Current' /\ InSequence'
  <2>1. \A r \in OnDisk' : r.session =< session /\ (r.session = session => r.n =< Logged)
    BY <1>1, <1>2, <1>3, HandedOver
  <2>2. ToSet(buffer') = {} /\ Len(buffer') = 0
    BY <1>1, HandedFiles
  <2> QED BY <1>2, <1>6, <2>1, <2>2 DEF LogInv, Current, InSequence, UnderWay
<1>8. FileOpen' /\ Buffered' /\ OnTime'
  BY <1>1, <1>2, HandedFiles DEF LogInv, FileOpen, Buffered, OnTime
<1>9. WithinSession' /\ Latest'
  BY <1>1, <1>2, HandedWithin DEF LogInv, WithinSession, Latest, UnderWay
<1>10. Accounted'
  BY <1>1, <1>2, <1>3, <1>6, HandedFiles DEF LogInv, Accounted
<1>11. NotBeforeMidnight' /\ UnreportedLossNeedsMidnight'
  BY <1>2, StillLost DEF NotBeforeMidnight
<1> QED BY <1>4, <1>5, <1>7, <1>8, <1>9, <1>10, <1>11 DEF LogInv

(* Closing finds nothing that the flush has left.                          *)
LEMMA ExitInv ==
  ASSUME LogInv, Exit
  PROVE  LogInv'
<1>1. PICK k \in 0..Len(buffer) : CloseFile(k) /\ FailsIf(k < Len(buffer))
  BY DEF Exit
<1>2. UNCHANGED <<clock, session, count, logFileName, toOpen, rotation_tp, stamp, failed,
                  began, raced>>
      /\ pc = "released" /\ pc' = "off" /\ fd' = NoFile
  BY DEF Exit, Goto, sinkVars
<1>3. HandOver(k) /\ dropped' = dropped
  <2>1. HandOver(k) /\ dropped' = dropped \cup Rest(k)
    BY <1>1 DEF CloseFile
  <2>2. ToSet(buffer) = {}
    BY <1>2 DEF LogInv, Buffered, ToSet
  <2> QED BY <2>1, <2>2, HandedFiles
<1>4. Lost' = Lost
  BY <1>2, <1>3 DEF Lost
<1>5. LogTypeOK'
  <2>1. disk' \in [Days -> Seq(Records)] /\ buffer' \in Seq(Records)
    BY <1>3, HandedFiles
  <2>2. failures' \in 0..FailureLimit
    BY SMTT(30), <1>1 DEF LogInv, LogTypeOK, FailsIf
  <2> QED BY <1>2, <1>3, <2>1, <2>2 DEF LogInv, LogTypeOK
<1>6. NoGaps' /\ WrittenOnceInOrder' /\ UnracedInFileOfItsDay' /\ Trail'
  BY <1>2, <1>3, <1>4, HandedOver, HandedFiles
<1>7. Logged' = Logged
  BY <1>2 DEF Logged, UnderWay
<1>8. Current' /\ InSequence'
  <2>1. \A r \in OnDisk' : r.session =< session /\ (r.session = session => r.n =< Logged)
    BY <1>2, <1>3, <1>4, HandedOver
  <2>2. ToSet(buffer') = {} /\ Len(buffer') = 0
    BY <1>3, HandedFiles
  <2> QED BY <1>2, <1>7, <2>1, <2>2 DEF LogInv, Current, InSequence, UnderWay
<1>9. FileOpen' /\ Buffered' /\ OnTime'
  BY <1>2, <1>3, HandedFiles DEF FileOpen, Buffered, OnTime
<1>10. WithinSession' /\ Latest'
  BY <1>2, <1>3, HandedWithin DEF LogInv, WithinSession, Latest, UnderWay
<1>11. Accounted'
  BY <1>2 DEF Accounted
<1>12. NotBeforeMidnight' /\ UnreportedLossNeedsMidnight'
  BY <1>2, <1>3, StillLost DEF NotBeforeMidnight
<1> QED BY <1>5, <1>6, <1>8, <1>9, <1>10, <1>11, <1>12 DEF LogInv

(* What is lost with the buffer is the end of the log.                     *)
LEMMA KillInv ==
  ASSUME LogInv, Kill
  PROVE  LogInv'
<1>1. /\ Trail' /\ ToSet(buffer') = {} /\ buffer' \in Seq(Records) /\ buffer' = <<>>
      /\ Len(buffer') = 0
  BY EmptyBuffer DEF Kill
<1>2. LogTypeOK'
  BY <1>1 DEF LogInv, LogTypeOK, Kill, sinkVars, trouble
<1>3. /\ NoGaps' /\ WrittenOnceInOrder' /\ UnracedInFileOfItsDay'
      /\ OnDisk' = OnDisk
  BY StillDisk DEF Kill, trouble
<1>4. Current' /\ FileOpen' /\ Buffered' /\ OnTime'
  BY <1>1, <1>3 DEF LogInv, Current, FileOpen, Buffered, OnTime, UnderWay, Kill
<1>5. WithinSession' /\ Accounted' /\ Latest'
  BY DEF LogInv, WithinSession, Accounted, Latest, UnderWay, Kill
<1>6. InSequence'
  <2>1. count \in Int /\ Logged \in Int /\ Logged =< count /\ Logged' = count
    BY SMTT(30) DEF LogInv, LogTypeOK, Logged, UnderWay, Kill
  <2>2. \A r \in OnDisk : r.n \in Int
    BY OfRecords DEF LogInv, Records
  <2>3. \A r \in OnDisk : r.session = session => r.n =< count
    BY <2>1, <2>2 DEF LogInv, InSequence
  <2> QED BY <1>1, <1>3, <2>1, <2>3 DEF InSequence, Kill
<1>7. NotBeforeMidnight' /\ UnreportedLossNeedsMidnight'
  BY StillLost DEF NotBeforeMidnight, Kill, trouble
<1> QED BY <1>1, <1>2, <1>3, <1>4, <1>5, <1>6, <1>7 DEF LogInv

-----------------------------------------------------------------------------
(* Nothing is logged at the start.                                         *)
LEMMA LogInitInv == LogInit => LogInv
<1> SUFFICES ASSUME LogInit
             PROVE  LogInv
  OBVIOUS
<1>1. 0 \in 0..LastTick /\ Date(0) \in Days
  BY DateInDays
<1>2. <<>> \in Seq(Records) /\ Len(<<>>) = 0 /\ ToSet(<<>>) = {}
  BY DEF ToSet
<1>3. /\ OnDisk = {} /\ \A d \in Days : disk[d] = <<>> /\ DOMAIN disk[d] = {}
      /\ dropped = {}
  BY <1>2 DEF LogInit, OnDisk
<1>4. LogTypeOK
  BY <1>1, <1>2 DEF LogInit, LogTypeOK
<1>5. Current /\ FileOpen /\ Buffered /\ OnTime
  BY <1>2, <1>3 DEF LogInit, Current, FileOpen, Buffered, OnTime, UnderWay
<1>6. WithinSession /\ Accounted /\ Trail /\ InSequence /\ Latest
  BY <1>2, <1>3 DEF LogInit, WithinSession, Accounted, Trail, InSequence, Latest, UnderWay
<1>7. NoGaps /\ WrittenOnceInOrder /\ UnracedInFileOfItsDay
  BY <1>2, <1>3 DEF NoGaps, WrittenOnceInOrder, UnracedInFileOfItsDay
<1>8. NotBeforeMidnight /\ UnreportedLossNeedsMidnight
  BY <1>3 DEF LogInit, NotBeforeMidnight, UnreportedLossNeedsMidnight
<1> QED BY <1>4, <1>5, <1>6, <1>7, <1>8 DEF LogInv

(* The invariant is about the variables alone.                             *)
LEMMA LogStutterInv ==
  ASSUME LogInv, UNCHANGED logVars
  PROVE  LogInv'
<1>1. UNCHANGED <<clock, session, pc, count, logFileName, fd, buffer, disk, toOpen,
                  rotation_tp, stamp, failed, dropped, failures, began, raced>>
  BY DEF logVars, files, sinkVars, trouble
<1>2. /\ OnDisk' = OnDisk /\ Lost' = Lost
      /\ NoGaps' /\ WrittenOnceInOrder' /\ UnracedInFileOfItsDay' /\ Trail'
  BY <1>1, StillDisk, StillBuffer
<1>3. LogTypeOK' /\ Current' /\ FileOpen' /\ Buffered' /\ OnTime'
  BY <1>1, <1>2 DEF LogInv, LogTypeOK, Current, FileOpen, Buffered, OnTime, UnderWay
<1>4. WithinSession' /\ Latest'
  BY <1>1 DEF LogInv, WithinSession, Latest, UnderWay
<1>5. Accounted' /\ InSequence'
  <2>1. Logged' = Logged
    BY <1>1 DEF Logged, UnderWay
  <2> QED BY <1>1, <1>2, <2>1, StillInSequence DEF LogInv, Accounted
<1>6. NotBeforeMidnight' /\ UnreportedLossNeedsMidnight'
  BY <1>1, StillLost DEF LogInv, NotBeforeMidnight
<1> QED BY <1>2, <1>3, <1>4, <1>5, <1>6 DEF LogInv

(* The log keeps its invariant, whatever fails or is killed when and       *)
(* however the clock moves meanwhile.                                      *)
THEOREM LogCorrect == LogSpec => []LogInv
<1>1. LogInit => LogInv
  BY LogInitInv
<1>2. LogInv /\ [LogNext]_logVars => LogInv'
  <2> SUFFICES ASSUME LogInv, [LogNext]_logVars
               PROVE  LogInv'
    OBVIOUS
  <2>1. CASE Tick
    BY <2>1, TickInv
  <2>2. CASE InitLog \/ OpenFirst \/ OpenFirstFails
    BY <2>2, InitLogInv, OpenFirstInv, OpenFirstFailsInv
  <2>3. CASE SetRotation \/ NameLog
    BY <2>3, SetRotationInv, NameLogInv
  <2>4. CASE OnMsg \/ Rotate \/ RotateFails
    BY <2>4, OnMsgInv, RotateInv, RotateFailsInv
  <2>5. CASE Write \/ WriteFails
    BY <2>5, WriteInv, WriteFailsInv
  <2>6. CASE Release \/ Exit \/ Kill
    BY <2>6, ReleaseInv, ExitInv, KillInv
  <2>7. CASE UNCHANGED logVars
    BY <2>7, LogStutterInv
  <2> QED BY <2>1, <2>2, <2>3, <2>4, <2>5, <2>6, <2>7 DEF LogNext
<1> QED BY <1>1, <1>2, PTL DEF LogSpec

(* Every variable keeps its type: in particular the counters and the days  *)
(* stay within their bounds (Server.cpp:117-139).                          *)
THEOREM LogTypeCorrect == LogSpec => []LogTypeOK
<1>1. LogInv => LogTypeOK
  BY DEF LogInv
<1> QED BY <1>1, LogCorrect, PTL

(* What onMsg counted (Server.cpp:117-121) is in the log, or was lost in a *)
(* failure; no record is lost in a sink without a file, and none is left   *)
(* in the buffer by ~Server.                                               *)
THEOREM NothingUnaccounted == LogSpec => []CountedIsLogged
<1>1. LogInv => CountedIsLogged
  <2> SUFFICES ASSUME LogInv
               PROVE  CountedIsLogged
    OBVIOUS
  <2>1. pc = "released" => ToSet(buffer) = {}
    BY DEF LogInv, Buffered, ToSet
  <2> QED BY <2>1 DEF LogInv, Accounted, Logged, UnderWay, CountedIsLogged, CountedIn
<1> QED BY <1>1, LogCorrect, PTL

(* A session loses records in silence only at a change of files: within a  *)
(* day ~Server's flush (Server.cpp:72) leaves fclose nothing to lose.      *)
THEOREM SilentOnlyAtMidnight == LogSpec => []UnreportedLossNeedsMidnight
<1>1. LogInv => UnreportedLossNeedsMidnight
  BY DEF LogInv
<1> QED BY <1>1, LogCorrect, PTL

(* A process that dies loses the end of its log; from the middle only what *)
(* the system refused is missing (file_helper-inl.h:91, 104).              *)
THEOREM OnlyTheTailIsLost == LogSpec => []NoGaps
<1>1. LogInv => NoGaps
  BY DEF LogInv
<1> QED BY <1>1, LogCorrect, PTL

(* The files have each record once and in order, across rotations and      *)
(* hand-overs that fail (file_helper-inl.h:85-107).                        *)
THEOREM InOrderOnce == LogSpec => []WrittenOnceInOrder
<1>1. LogInv => WrittenOnceInOrder
  BY DEF LogInv
<1> QED BY <1>1, LogCorrect, PTL

(* Within one day the name that initLog computes (Server.cpp:94-98) is     *)
(* that of the file with all the records of the session.                   *)
THEOREM NameIsRight == LogSpec => []NamedFileHoldsAll
<1>1. LogInv => NamedFileHoldsAll
  <2> SUFFICES ASSUME LogInv, pc = "released", Date(began) = Date(clock),
                      NEW r \in OnDisk, r.session = session
               PROVE  r \in ToSet(disk[logFileName])
    BY DEF NamedFileHoldsAll
  <2>1. PICK d \in Days : r \in ToSet(disk[d])
    BY DEF OnDisk
  <2>2. d \in Date(began)..Date(clock) /\ logFileName \in Date(began)..Date(clock)
    BY <2>1 DEF LogInv, WithinSession
  <2>3. Date(clock) \in Int /\ d \in Int /\ logFileName \in Int
    BY <2>2, Times DEF LogInv
  <2> QED BY <2>1, <2>2, <2>3
<1> QED BY <1>1, LogCorrect, PTL

(* The sink (daily_file_sink.h:104-120) writes to the file of the day of   *)
(* the record, unless midnight fell between its two readings of the clock. *)
THEOREM InFileOfItsDay == LogSpec => []UnracedInFileOfItsDay
<1>1. LogInv => UnracedInFileOfItsDay
  BY DEF LogInv
<1> QED BY <1>1, LogCorrect, PTL

(* The files only grow, at their ends (file_helper-inl.h:24-64).           *)
THEOREM FilesOnlyGrow == LogSpec => NothingOverwritten
<1>1. LogInv /\ [LogNext]_logVars => [\A d \in Days : IsPrefix(disk[d], disk'[d])]_logVars
  <2> SUFFICES ASSUME LogInv, LogNext
               PROVE  \A d \in Days : IsPrefix(disk[d], disk'[d])
    OBVIOUS
  <2>1. ASSUME disk' = disk
        PROVE  \A d \in Days : IsPrefix(disk[d], disk'[d])
    <3>1. \A s \in Seq(Records) : IsPrefix(s, s)
      BY DEF IsPrefix
    <3> QED BY <2>1, <3>1 DEF LogInv, LogTypeOK
  <2>2. CASE Tick \/ InitLog \/ OpenFirst \/ OpenFirstFails \/ SetRotation \/ NameLog
             \/ OnMsg \/ Kill
    BY <2>1, <2>2 DEF Tick, InitLog, OpenFirst, OpenFirstFails, SetRotation, NameLog, OnMsg,
       Kill, files
  <2>3. CASE Rotate \/ RotateFails \/ WriteFails \/ Release \/ Exit
    <3>1. PICK k \in 0..Len(buffer) : HandOver(k)
      BY <2>3 DEF Rotate, RotateFails, WriteFails, Release, Exit, CloseFile
    <3> QED BY <3>1, HandedFiles
  <2>4. CASE Write
    <3> DEFINE w == Append(buffer, Record)
    <3>1. pc = "write" /\ fd # NoFile /\ LogTypeOK
      BY <2>4 DEF LogInv, FileOpen, Write, Goto
    <3>2. PICK k \in 0..Len(w) : disk' = [disk EXCEPT ![fd] = @ \o SubSeq(w, 1, k)]
      BY <2>4, <3>1 DEF Write
    <3>3. w \in Seq(Records)
      BY <3>1, Written DEF Orderly
    <3> HIDE DEF w
    <3> QED BY <3>1, <3>2, <3>3, Handed
  <2> QED BY <2>2, <2>3, <2>4 DEF LogNext
<1> QED BY <1>1, LogCorrect, PTL DEF LogSpec, NothingOverwritten
=============================================================================
