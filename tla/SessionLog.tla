----------------------------- MODULE SessionLog -----------------------------
(***************************************************************************)
(* The log of a session: Server::initLog, logMsg and the destructor        *)
(* (src/src/Server/Server.cpp), with as much of the vendored logger as     *)
(* they use: spdlog's daily_file_sink on a buffered file.                  *)
(*                                                                         *)
(* Four readings of the clock have to agree: the sink's, for the name of   *)
(* the file it opens and again for the time of its next rotation;          *)
(* initLog's, for the name the program prints; and the time stamped on     *)
(* each record.  The clock may move between any two of them.  It is taken  *)
(* never to be set back, and local time to be a constant offset from it.   *)
(*                                                                         *)
(* A process (session) may end in order, be killed, or fail to open its    *)
(* file; the files of a day stay for the sessions that follow.             *)
(*                                                                         *)
(* The buffer is the C library's: a record is smaller than it, and goes to *)
(* the system with what is written, flushed or closed later.  The system   *)
(* may refuse: it has then taken the first records of the buffer, and the  *)
(* library (glibc) forgets the others.  A record is on disk when all of it *)
(* is.                                                                     *)
(***************************************************************************)
EXTENDS Integers, Sequences, SequencesExt

CONSTANTS
  DayLength,    \* ticks of the clock in a day
  Zone,         \* offset of local time from the clock's, in ticks
  LastTick,     \* bound on the clock
  SessionLimit, \* bound on the number of sessions
  RecordLimit,  \* bound on the records of a session
  FailureLimit, \* bound on steps in which something fails
  NoFile        \* a null FILE*

ASSUME SessionLogAssumption ==
  /\ DayLength \in Nat \ {0}
  /\ Zone \in Int
  /\ {LastTick, SessionLimit, RecordLimit, FailureLimit} \subseteq Nat
  /\ NoFile \notin Int

VARIABLES
  clock,        \* the system clock
  session,      \* the number of the current session, or of the last one
  pc,           \* where the thread that logs is
  count,        \* Server::msgCount_
  logFileName,  \* strLogFileName_: the day in the name
  fd,           \* the sink's open file: the day in its name
  toOpen,       \* local "filename": the day in the name of the file to open
  rotation_tp,  \* when the sink changes its file
  stamp,        \* the time of the record being logged
  buffer,       \* records written and not handed to the system yet
  disk,         \* the files: for each day, the records in its file
  failed,       \* records lost in a failure that reached err_handler_
  dropped,      \* records lost by an fclose: its result is not looked at
  failures,     \* history: steps so far in which something failed
  began,        \* history: when the session began
  raced         \* history: sessions in which midnight fell between the name
                \* of a file and the rotation time computed for it

files    == <<fd, buffer, disk>>
sinkVars == <<toOpen, rotation_tp, stamp>>
trouble  == <<failed, dropped, failures>>
logVars  == <<clock, session, pc, count, logFileName, files, sinkVars, trouble,
              began, raced>>

(* localtime: the day that t falls on.                                     *)
Date(t) == (t + Zone) \div DayLength

Days == Date(0)..Date(LastTick)

(* next_rotation_tp_, for rotation at 0:00: mktime of the midnight that    *)
(* began the day, plus 24 hours.                                           *)
NextRotation(now) == (Date(now) + 1) * DayLength - Zone

LogInit ==
  /\ clock = 0
  /\ session = 0
  /\ pc = "off"
  /\ count = 0
  /\ logFileName = Date(0)
  /\ fd = NoFile
  /\ toOpen = Date(0)
  /\ rotation_tp = 0
  /\ stamp = 0
  /\ buffer = <<>>
  /\ disk = [d \in Days |-> <<>>]
  /\ failed = {}
  /\ dropped = {}
  /\ failures = 0
  /\ began = 0
  /\ raced = {}

Record == [session |-> session, n |-> count, time |-> stamp]

Goto(from, to) ==
  /\ pc = from
  /\ pc' = to

FailsIf(p) ==
  IF p THEN failures < FailureLimit /\ failures' = failures + 1
       ELSE UNCHANGED failures

(* Time passes.                                                            *)
Tick ==
  /\ clock < LastTick
  /\ clock' = clock + 1
  /\ UNCHANGED <<session, pc, count, logFileName, files, sinkVars, trouble, began, raced>>

-----------------------------------------------------------------------------
(* initLog                                                                 *)

(* Mutant: the day of the month taken for zero-based, as the month is.     *)
InitLog_OffByOne ==
  /\ session < SessionLimit
  /\ Goto("off", "open")
  /\ session' = session + 1
  /\ count' = 0
  /\ toOpen' = Date(clock) + 1
  /\ began' = clock
  /\ UNCHANGED <<clock, logFileName, files, rotation_tp, stamp, trouble, raced>>

(* daily_logger_st makes the sink; its constructor reads the clock for the *)
(* name of the file.                                                       *)
InitLog ==
  /\ session < SessionLimit
  /\ Goto("off", "open")
  /\ session' = session + 1
  /\ count' = 0
  /\ toOpen' = Date(clock)
  /\ began' = clock
  /\ UNCHANGED <<clock, logFileName, files, rotation_tp, stamp, trouble, raced>>

(* Mutant: fopen in mode "wb".                                             *)
OpenFirst_Truncates ==
  /\ Goto("open", "opened")
  /\ fd' = toOpen
  /\ disk' = [disk EXCEPT ![toOpen] = <<>>]
  /\ UNCHANGED <<clock, session, count, logFileName, buffer, sinkVars, trouble,
                 began, raced>>

(* file_helper::open: the file is created, or opened for appending.        *)
OpenFirst ==
  /\ Goto("open", "opened")
  /\ fd' = toOpen
  /\ UNCHANGED <<clock, session, count, logFileName, buffer, disk, sinkVars, trouble,
                 began, raced>>

(* All five tries failed; nobody catches the exception.                    *)
OpenFirstFails ==
  /\ Goto("open", "off")
  /\ FailsIf(TRUE)
  /\ UNCHANGED <<clock, session, count, logFileName, files, sinkVars, failed, dropped,
                 began, raced>>

(* rotation_tp_ = next_rotation_tp_(), which reads the clock again.  Also  *)
(* after a rotation, and then the record is written.                       *)
SetRotation ==
  /\ pc \in {"opened", "rotated"}
  /\ pc' = IF pc = "opened" THEN "name" ELSE "write"
  /\ rotation_tp' = NextRotation(clock)
  /\ raced' = IF Date(clock) # fd THEN raced \cup {session} ELSE raced
  /\ UNCHANGED <<clock, session, count, logFileName, files, toOpen, stamp, trouble, began>>

(* Mutant: gmtime in place of localtime.                                   *)
NameLog_Utc ==
  /\ Goto("name", "ready")
  /\ logFileName' = clock \div DayLength
  /\ UNCHANGED <<clock, session, count, files, sinkVars, trouble, began, raced>>

(* initLog computes a name of its own, from std::time(0).                  *)
NameLog ==
  /\ Goto("name", "ready")
  /\ logFileName' = Date(clock)
  /\ UNCHANGED <<clock, session, count, files, sinkVars, trouble, began, raced>>

-----------------------------------------------------------------------------
(* onMsg and logMsg: the packet is counted, then the record is stamped and *)
(* goes through the sink.  An exception in there is caught by the logger,  *)
(* which hands it to err_handler_ (at most one report a second on stderr). *)

(* Mutant: the comparison is strict.                                       *)
OnMsg_Late ==
  /\ count < RecordLimit
  /\ Goto("ready", IF clock > rotation_tp THEN "rotate" ELSE "write")
  /\ count' = count + 1
  /\ stamp' = clock
  /\ UNCHANGED <<clock, session, logFileName, files, toOpen, rotation_tp, trouble,
                 began, raced>>

OnMsg ==
  /\ count < RecordLimit
  /\ Goto("ready", IF clock >= rotation_tp THEN "rotate" ELSE "write")
  /\ count' = count + 1
  /\ stamp' = clock
  /\ UNCHANGED <<clock, session, logFileName, files, toOpen, rotation_tp, trouble,
                 began, raced>>

(* Mutant: the open file is forgotten, its buffer with it.                 *)
Rotate_Leaks ==
  /\ Goto("rotate", "rotated")
  /\ buffer' = <<>>
  /\ fd' = Date(stamp)
  /\ toOpen' = Date(stamp)
  /\ UNCHANGED <<clock, session, count, logFileName, disk, rotation_tp, stamp,
                 trouble, began, raced>>

(* Mutant: what the system refused stays in the buffer, all of it.         *)
HandOver_Keeps(k) ==
  /\ disk' = IF fd = NoFile THEN disk ELSE [disk EXCEPT ![fd] = @ \o SubSeq(buffer, 1, k)]
  /\ buffer' = IF k < Len(buffer) THEN buffer ELSE <<>>

(* The buffer goes to the system, which takes the first k records of it.   *)
HandOver(k) ==
  /\ disk' = IF fd = NoFile THEN disk ELSE [disk EXCEPT ![fd] = @ \o SubSeq(buffer, 1, k)]
  /\ buffer' = <<>>

Rest(k) == ToSet(SubSeq(buffer, k + 1, Len(buffer)))

(* file_helper::close.                                                     *)
CloseFile(k) ==
  /\ HandOver(k)
  /\ dropped' = dropped \cup Rest(k)

(* file_helper::open closes the file and opens that of the record's day.   *)
Rotate ==
  /\ Goto("rotate", "rotated")
  /\ \E k \in 0..Len(buffer) : CloseFile(k) /\ FailsIf(k < Len(buffer))
  /\ toOpen' = Date(stamp)
  /\ fd' = toOpen'
  /\ UNCHANGED <<clock, session, count, logFileName, rotation_tp, stamp, failed,
                 began, raced>>

(* Mutant: the rotation time is set before the file is open.               *)
RotateFails_Rearmed ==
  /\ Goto("rotate", "ready")
  /\ \E k \in 0..Len(buffer) : CloseFile(k)
  /\ toOpen' = Date(stamp)
  /\ fd' = NoFile
  /\ rotation_tp' = NextRotation(clock)
  /\ failed' = failed \cup {Record}
  /\ FailsIf(TRUE)
  /\ UNCHANGED <<clock, session, count, logFileName, stamp, began, raced>>

(* The old file is closed and the new one cannot be opened: this record is *)
(* lost.  rotation_tp is left alone, so the next record tries again.       *)
RotateFails ==
  /\ Goto("rotate", "ready")
  /\ \E k \in 0..Len(buffer) : CloseFile(k)
  /\ toOpen' = Date(stamp)
  /\ fd' = NoFile
  /\ failed' = failed \cup {Record}
  /\ FailsIf(TRUE)
  /\ UNCHANGED <<clock, session, count, logFileName, rotation_tp, stamp, began, raced>>

(* file_helper::write: fwrite appends to the buffer, and hands any prefix  *)
(* of it to the system.  Without an open file it returns and says nothing. *)
Write ==
  /\ Goto("write", "ready")
  /\ IF fd = NoFile
     THEN UNCHANGED <<buffer, disk>>
     ELSE LET written == Append(buffer, Record)
          IN \E k \in 0..Len(written) :
               /\ disk' = [disk EXCEPT ![fd] = @ \o SubSeq(written, 1, k)]
               /\ buffer' = SubSeq(written, k + 1, Len(written))
  /\ UNCHANGED <<clock, session, count, logFileName, fd, sinkVars, trouble, began, raced>>

(* fwrite fails when it has to make room and the system does not take what *)
(* earlier records left in the buffer: those are lost with this one.       *)
WriteFails ==
  /\ fd # NoFile
  /\ buffer # <<>>
  /\ Goto("write", "ready")
  /\ \E k \in 0..Len(buffer) :
       HandOver(k) /\ failed' = failed \cup {Record} \cup Rest(k)
  /\ FailsIf(TRUE)
  /\ UNCHANGED <<clock, session, count, logFileName, fd, sinkVars, dropped, began, raced>>

-----------------------------------------------------------------------------
(* The end of a session.                                                   *)

(* Mutant: ~Server does not flush.                                         *)
Release_Unflushed ==
  /\ Goto("ready", "released")
  /\ UNCHANGED <<clock, session, count, logFileName, files, sinkVars, trouble, began, raced>>

(* ~Server: spLogger_->flush(), which catches and reports like logMsg.     *)
Release ==
  /\ Goto("ready", "released")
  /\ \E k \in 0..Len(buffer) :
       HandOver(k) /\ failed' = failed \cup Rest(k) /\ FailsIf(k < Len(buffer))
  /\ UNCHANGED <<clock, session, count, logFileName, fd, sinkVars, dropped, began, raced>>

(* The logger goes with spdlog's registry, when the process ends.          *)
Exit ==
  /\ Goto("released", "off")
  /\ \E k \in 0..Len(buffer) : CloseFile(k) /\ FailsIf(k < Len(buffer))
  /\ fd' = NoFile
  /\ UNCHANGED <<clock, session, count, logFileName, sinkVars, failed, began, raced>>

(* The process dies, at any point: its buffer is lost.                     *)
Kill ==
  /\ pc # "off"
  /\ pc' = "off"
  /\ buffer' = <<>>
  /\ fd' = NoFile
  /\ UNCHANGED <<clock, session, count, logFileName, disk, sinkVars, trouble, began, raced>>

LogNext ==
  \/ Tick
  \/ InitLog
  \/ OpenFirst
  \/ OpenFirstFails
  \/ SetRotation
  \/ NameLog
  \/ OnMsg
  \/ Rotate
  \/ RotateFails
  \/ Write
  \/ WriteFails
  \/ Release
  \/ Exit
  \/ Kill

LogSpec == LogInit /\ [][LogNext]_logVars

-----------------------------------------------------------------------------
(* Properties.                                                             *)

Records == [session : 1..SessionLimit, n : 1..RecordLimit, time : 0..LastTick]

(* Every variable keeps its type.                                          *)
LogTypeOK ==
  /\ clock \in 0..LastTick
  /\ session \in 0..SessionLimit
  /\ pc \in {"off", "open", "opened", "name", "ready", "rotate", "rotated", "write",
             "released"}
  /\ count \in 0..RecordLimit
  /\ logFileName \in Days
  /\ fd \in Days \cup {NoFile}
  /\ toOpen \in Days
  /\ rotation_tp \in Int
  /\ stamp \in 0..LastTick
  /\ buffer \in Seq(Records)
  /\ disk \in [Days -> Seq(Records)]
  /\ failed \subseteq Records
  /\ dropped \subseteq Records
  /\ failures \in 0..FailureLimit
  /\ began \in 0..LastTick
  /\ raced \subseteq 1..SessionLimit

OnDisk == UNION {ToSet(disk[d]) : d \in Days}

(* What the system or the library refused to keep.                         *)
Lost == failed \cup dropped

CountedIn(S) == \A k \in 1..count : \E r \in S : r.session = session /\ r.n = k

(* Every packet that the report counts (main.cpp:90) has its record in the *)
(* log, on disk when main has released the server, unless it was lost in a *)
(* failure.  file_helper::write, silent without an open file               *)
(* (file_helper-inl.h:101), is never reached without one, for the next     *)
(* record tries a failed rotation again.                                   *)
CountedIsLogged ==
  /\ pc = "ready" => CountedIn(OnDisk \cup ToSet(buffer) \cup Lost)
  /\ pc = "released" => CountedIn(OnDisk \cup Lost)

(* Records are lost without a report only by a session that passed         *)
(* midnight: the result of fclose (file_helper-inl.h:91) is not looked at, *)
(* but within a day the file is closed once, after the flush of ~Server,   *)
(* whose failure is reported.                                              *)
UnreportedLossNeedsMidnight ==
  \A r \in dropped : r.session = session => Date(began) < Date(clock)

(* A process that dies loses the last records of its log, never one from   *)
(* the middle: whatever is on disk, all that came before it is there too,  *)
(* but for what was lost in a failure, such as an fwrite that fails with   *)
(* earlier records in its buffer (file_helper-inl.h:104).                  *)
NoGaps ==
  \A r \in OnDisk : \A k \in 1..(r.n - 1) :
    \E e \in OnDisk \cup Lost : e.session = r.session /\ e.n = k

(* The files, read day after day, have each record of a session once and   *)
(* in the order of its packets, whatever failed while they were written    *)
(* and however the file was changed: a hand-over that fails is not made    *)
(* again (file_helper-inl.h:91, 104).                                      *)
WrittenOnceInOrder ==
  \A d, e \in Days : \A i \in DOMAIN disk[d], j \in DOMAIN disk[e] :
    /\ disk[d][i].session = disk[e][j].session
    /\ d < e \/ (d = e /\ i < j)
    => disk[d][i].n < disk[e][j].n

(* Files are opened for appending: what a session wrote survives the later *)
(* sessions of the same day, and stays where it is in its file.            *)
NothingOverwritten == [][\A d \in Days : IsPrefix(disk[d], disk'[d])]_logVars

(* The file named in the report (main.cpp:92) holds all the records of a   *)
(* session that did not pass midnight, although the name and the sink's    *)
(* file come from different readings of the clock.                         *)
NamedFileHoldsAll ==
  pc = "released" /\ Date(began) = Date(clock) =>
    \A r \in OnDisk : r.session = session => r \in ToSet(disk[logFileName])

(* A record is in the file of the day it was stamped on, unless midnight   *)
(* fell between the two readings of the clock that the sink makes when it  *)
(* opens a file (daily_file_sink.h:88, 150).                               *)
UnracedInFileOfItsDay ==
  \A d \in Days : \A r \in ToSet(disk[d]) : r.session \notin raced => Date(r.time) = d

(* "create daily file sink which rotates on given time"                    *)
(* (daily_file_sink.h:69): the same with no exception.                     *)
RotatesOnGivenTime ==
  \A d \in Days : \A r \in ToSet(disk[d]) : Date(r.time) = d

(* "Application produces a log file for each session" (README.md:36).      *)
OneFilePerSession ==
  \A d \in Days : \A r, e \in ToSet(disk[d]) : r.session = e.session
=============================================================================
