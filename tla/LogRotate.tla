------------------------------ MODULE LogRotate ------------------------------
(***************************************************************************)
(* The ring of log files <me>.0.log, <me>.1.log, ... and the file          *)
(* <me>.log.sn that names the current one: get_log_file_fd_with_sn of      *)
(* src/linux-coding-c/log/src/log_file.c and the writes that follow it, by *)
(* the log-file service thread, the only thread that uses them.  A crash   *)
(* may stop the program between any two of the system calls, and the next  *)
(* run of it finds what is on the disk.                                    *)
(*                                                                         *)
(* A log file is the sequence of the units written to it, numbered as they *)
(* are written; a unit is whatever one write() of write_to_log_file        *)
(* appends.  What a failed write() loses never gets a number.              *)
(***************************************************************************)
EXTENDS Integers, SequencesExt

CONSTANTS
  Number,        \* log_file_max_number
  MaxSize,       \* log_file_max_size, in units
  MaxUnit,       \* bound: units written
  MaxCrash,      \* bound: crashes
  SnFails        \* TRUE: the sn file may refuse to be opened or written

ASSUME NumberAssumption == Number \in Nat /\ Number >= 2
ASSUME SizeAssumption == MaxSize \in Nat \ {0}
ASSUME BoundAssumption == MaxUnit \in Nat /\ MaxCrash \in Nat /\ SnFails \in BOOLEAN

VARIABLES
  sn,            \* the number in the sn file (0 stands for no sn file, too)
  file,          \* the log files
  pc,            \* "idle", or where the service thread is in a turn
  file_sn,       \* its local
  next,          \* the number of the next unit
  crashes

disk == <<sn, file>>
vars == <<disk, pc, file_sn, next, crashes>>

FileSn == 0 .. Number - 1
InRange(n) == IF n < 0 \/ n >= Number THEN 0 ELSE n

\* The sn file may be left by a program that kept more files than this one.
Init == /\ sn \in 0 .. Number
        /\ file = [k \in FileSn |-> <<>>]
        /\ pc = "idle" /\ file_sn = 0
        /\ next = 1 /\ crashes = 0

TooBig(k) == Len(file[k]) >= MaxSize

\* The sn file is read, and the file it names is looked at.
Look ==
  /\ pc = "idle"
  /\ LET k == InRange(sn)
     IN  IF TooBig(k) THEN file_sn' = InRange(k + 1) /\ pc' = "write sn"
                      ELSE file_sn' = k /\ pc' = "open"
  /\ UNCHANGED <<disk, next, crashes>>

WriteSn ==
  /\ pc = "write sn"
  /\ \/ sn' = file_sn
     \/ SnFails /\ UNCHANGED sn
  /\ pc' = "truncate"
  /\ UNCHANGED <<file, file_sn, next, crashes>>

TruncateNot ==                                                  \* mutant
  /\ pc = "truncate"
  /\ pc' = "open"
  /\ UNCHANGED <<disk, file_sn, next, crashes>>
Truncate ==
  /\ pc = "truncate"
  /\ file' = [file EXCEPT ![file_sn] = <<>>]
  /\ pc' = "open"
  /\ UNCHANGED <<sn, file_sn, next, crashes>>

\* The file cannot be opened: the turn ends, the pipe is left as it is.
Open ==
  /\ pc = "open"
  /\ pc' \in {"append", "idle"}
  /\ UNCHANGED <<disk, file_sn, next, crashes>>

\* O_APPEND writes, until the pipe is drained, whatever the size of the file.
AppendUnit ==
  /\ pc = "append" /\ next <= MaxUnit
  /\ file' = [file EXCEPT ![file_sn] = Append(@, next)]
  /\ next' = next + 1
  /\ UNCHANGED <<sn, pc, file_sn, crashes>>

Drained ==
  /\ pc = "append"
  /\ pc' = "idle"
  /\ UNCHANGED <<disk, file_sn, next, crashes>>

Crash ==
  /\ crashes < MaxCrash
  /\ crashes' = crashes + 1
  /\ pc' = "idle" /\ file_sn' = 0
  /\ UNCHANGED <<disk, next>>

Next == Look \/ WriteSn \/ Truncate \/ Open \/ AppendUnit \/ Drained \/ Crash

Spec == Init /\ [][Next]_vars
-----------------------------------------------------------------------------
TypeOK ==
  /\ sn \in 0 .. Number
  /\ file \in [FileSn -> Seq(1 .. MaxUnit)]
  /\ pc \in {"idle", "write sn", "truncate", "open", "append"}
  /\ file_sn \in FileSn
  /\ next \in 1 .. MaxUnit + 1 /\ crashes \in 0 .. MaxCrash

Kept == UNION {ToSet(file[k]) : k \in FileSn}

\* The file the sn file names, and how many files ago file k was that one.
Current == InRange(sn)
Age(k) == IF k <= Current THEN Current - k ELSE Current - k + Number

\* The newest units survive: all files but the one being filled are full, and
\* hold what was written last.  Each crash may cost one more file: between the
\* sn file and the truncation it leaves a full file of the oldest units as the
\* current one, and the next turn goes past it.  Without a crash, the files
\* from the one after the current one to the current one hold the units in the
\* order they were written: whoever reads them in that order reads the log
\* (log_file.c:256-275).
RingKept ==
  /\ \A u \in 1 .. next - 1 :
       u >= next - (Number - 1 - crashes) * MaxSize => u \in Kept
  /\ \A k \in FileSn : \A i, j \in DOMAIN file[k] : i < j => file[k][i] < file[k][j]
  /\ crashes = 0 /\ pc # "truncate" =>
       \A a, b \in FileSn : Age(a) > Age(b) =>
         \A u \in ToSet(file[a]), v \in ToSet(file[b]) : u < v
=============================================================================
