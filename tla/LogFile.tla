------------------------------- MODULE LogFile -------------------------------
(***************************************************************************)
(* The log-file service of src/linux-coding-c/log/src/log_file.c, with the *)
(* quit sequence of logcat.c: any thread injects records into the pipe     *)
(* saved_log_pipe under log_file_service_mutex and may raise need_write;   *)
(* one service thread looks at need_write every 500 ms and drains the pipe *)
(* into the log file, unless the pause file exists; log_safely_quit asks   *)
(* for a last write and joins the service thread.                          *)
(*                                                                         *)
(* The pipe is used through what PipeStream promises: a bounded stream     *)
(* that drops its oldest elements when it overflows.  Its unit here is a   *)
(* piece: a record goes in as two writes, its prefix and its text.         *)
(* Records that log_file_verbose_level filters out change nothing.         *)
(***************************************************************************)
EXTENDS Integers, SequencesExt

CONSTANTS
  Injector,      \* the threads that log
  MaxRecord,     \* bound: records logged in a behaviour
  Capacity,      \* the pieces the pipe holds
  Chunk,         \* the pieces one pipe_read of the service returns at most
  MaxPause,      \* bound: how often the pause file appears
  DiskFails,     \* TRUE: open and write may fail
  DateMode       \* has_log_logall_service: the files are named by date, and
                 \* a failed open is not logged as an error

ASSUME BoundAssumption == MaxRecord \in Nat /\ MaxPause \in Nat
ASSUME SizeAssumption == Capacity \in Nat \ {0} /\ Chunk \in Nat \ {0}
ASSUME ModeAssumption == DiskFails \in BOOLEAN /\ DateMode \in BOOLEAN

VARIABLES
  pipe,          \* the pieces in saved_log_pipe, oldest first
  need_write,    \* log_file_need_write
  mutex,         \* holder of log_file_service_mutex, or NoInjector
  ipc,           \* where each injector is: "idle", "locked", "prefix", "text"
  record,        \* the record each injector is injecting
  next,          \* the number of the next record
  file,          \* the pieces in the log files, in the order written
  lost,          \* pieces overwritten in the pipe or refused by the disk
  spc,           \* where the service thread is
  pause_flag,    \* its local pause_flag
  open_failed,   \* its last attempt to open the log file failed
  pause_exists,  \* /run/log/fii-log-pause exists
  pauses,        \* how often it has appeared
  exit_flag,     \* log_exit_flag
  qpc,           \* where log_safely_quit is: "none", "synced", "flagged", "joined"
  owed           \* the pieces it has to store: injected by calls that had
                 \* returned when it was called, and the pause file has not
                 \* existed since (else none)

service == <<spc, pause_flag, open_failed>>
injection == <<mutex, ipc, record, next>>
outside == <<pause_exists, pauses>>
quit == <<exit_flag, qpc, owed>>
vars == <<pipe, need_write, injection, file, lost, service, outside, quit>>

NoInjector == "none"
ASSUME InjectorAssumption == NoInjector \notin Injector
NoRecord == [id |-> 0, urgent |-> FALSE]
\* Of the levels only this matters: EMERG, ERR and WARN are urgent.
Record == [id : 1 .. MaxRecord, urgent : BOOLEAN]
Piece == [id : 1 .. MaxRecord, urgent : BOOLEAN, part : {"prefix", "text"}]
PieceOf(r, part) == [id |-> r.id, urgent |-> r.urgent, part |-> part]

First(s, n) == SubSeq(s, 1, IF n <= Len(s) THEN n ELSE Len(s))
After(s, n) == SubSeq(s, n + 1, Len(s))

Init == /\ pipe = <<>> /\ need_write = FALSE
        /\ mutex = NoInjector
        /\ ipc = [i \in Injector |-> "idle"]
        /\ record = [i \in Injector |-> NoRecord]
        /\ next = 1
        /\ file = <<>> /\ lost = {}
        /\ spc = "top" /\ pause_flag = FALSE /\ open_failed = FALSE
        /\ pause_exists = FALSE /\ pauses = 0
        /\ exit_flag = FALSE /\ qpc = "none" /\ owed = {}
-----------------------------------------------------------------------------
\* pipe_write in overwrite mode.
PutNewest(s) ==                                                 \* mutant
  LET all == pipe \o s IN /\ pipe' = First(all, Capacity)
                          /\ UNCHANGED lost
Put(s) ==
  LET all  == pipe \o s
      over == IF Len(all) > Capacity THEN Len(all) - Capacity ELSE 0
  IN  /\ pipe' = After(all, over)
      /\ lost' = lost \cup ToSet(First(all, over))

Half(p) == Len(p) >= Capacity \div 2

\* log_file_inject, under the mutex: two writes, then need_write when the
\* record is urgent or the pipe half full.
InjectLockFree(i) ==                                            \* mutant
  /\ ipc[i] = "idle" /\ next <= MaxRecord
  /\ \E u \in BOOLEAN : record' = [record EXCEPT ![i] = [id |-> next, urgent |-> u]]
  /\ next' = next + 1
  /\ ipc' = [ipc EXCEPT ![i] = "locked"]
  /\ mutex' = i
  /\ UNCHANGED <<pipe, need_write, file, lost, service, outside, quit>>
InjectLock(i) ==
  /\ ipc[i] = "idle" /\ mutex = NoInjector /\ next <= MaxRecord
  /\ \E u \in BOOLEAN : record' = [record EXCEPT ![i] = [id |-> next, urgent |-> u]]
  /\ next' = next + 1
  /\ ipc' = [ipc EXCEPT ![i] = "locked"]
  /\ mutex' = i
  /\ UNCHANGED <<pipe, need_write, file, lost, service, outside, quit>>

InjectPiece(i, from, part) ==
  /\ ipc[i] = from
  /\ Put(<<PieceOf(record[i], part)>>)
  /\ ipc' = [ipc EXCEPT ![i] = part]
  /\ UNCHANGED <<need_write, mutex, record, next, file, service, outside, quit>>

InjectFlag(i) ==
  /\ ipc[i] = "text"
  /\ need_write' = (need_write \/ record[i].urgent \/ Half(pipe))
  /\ ipc' = [ipc EXCEPT ![i] = "idle"]
  /\ mutex' = NoInjector
  /\ UNCHANGED <<pipe, record, next, file, lost, service, outside, quit>>

Inject(i) == \/ InjectLock(i)
             \/ InjectPiece(i, "locked", "prefix")
             \/ InjectPiece(i, "prefix", "text")
             \/ InjectFlag(i)
-----------------------------------------------------------------------------
\* log_file_service_thread.  "top" is the test of the exit flag, "look" that of
\* need_write, "open" and "drain" write_to_log_file, "sleep" the end of a turn.
ServiceGoto(label) == spc' = label

ExitWaits(paused) == IF paused THEN "look" ELSE "last open"     \* mutant
\* After the exit flag, the last drain happens unless the service is paused.
ExitDrain(paused) == IF paused THEN "done" ELSE "last open"
ServiceTop ==
  /\ spc = "top"
  /\ ServiceGoto(IF exit_flag THEN ExitDrain(pause_flag) ELSE "look")
  /\ UNCHANGED <<pipe, need_write, injection, file, lost, pause_flag,
                 open_failed, outside, quit>>

\* Nothing to write: more than log_file_write_period since the last one sets
\* need_write for the next turn.
ServicePeriodHalfFull ==                                        \* mutant
  /\ spc = "look" /\ ~need_write
  /\ need_write' = Half(pipe)
  /\ ServiceGoto("sleep")
  /\ UNCHANGED <<pipe, injection, file, lost, pause_flag, open_failed, outside, quit>>
ServicePeriod ==
  /\ spc = "look" /\ ~need_write
  /\ need_write' = TRUE
  /\ ServiceGoto("sleep")
  /\ UNCHANGED <<pipe, injection, file, lost, pause_flag, open_failed, outside, quit>>

ServiceIdle ==
  /\ spc = "look" /\ ~need_write
  /\ ServiceGoto("sleep")
  /\ UNCHANGED <<pipe, need_write, injection, file, lost, pause_flag,
                 open_failed, outside, quit>>

\* The pause file exists: need_write stays set.  The notice that the first
\* such turn appends to the file is not one of the records.
ServicePause ==
  /\ spc = "look" /\ need_write /\ pause_exists
  /\ pause_flag' = TRUE
  /\ ServiceGoto("sleep")
  /\ UNCHANGED <<pipe, need_write, injection, file, lost, open_failed, outside, quit>>

\* need_write is cleared before the drain, so that a request made during the
\* drain is not forgotten.
ServiceClear ==
  /\ spc = "look" /\ need_write /\ ~pause_exists
  /\ pause_flag' = FALSE
  /\ need_write' = FALSE
  /\ ServiceGoto("open")
  /\ UNCHANGED <<pipe, injection, file, lost, open_failed, outside, quit>>

Opened(from, to) ==
  /\ spc = from
  /\ open_failed' = FALSE
  /\ ServiceGoto(to)
  /\ UNCHANGED <<pipe, need_write, injection, file, lost, pause_flag, outside, quit>>

\* The log file cannot be opened.  get_log_file_fd_with_sn logs that with
\* log_err, a record of the service thread that raises need_write again;
\* get_log_file_fd_with_date only with log_debug_v2.
OpenFails(from, to) ==
  /\ spc = from /\ DiskFails
  /\ open_failed' = TRUE
  /\ ServiceGoto(to)
  /\ IF DateMode
       THEN UNCHANGED <<pipe, need_write, next, lost>>
       ELSE LET r == [id |-> next, urgent |-> TRUE]
            IN  /\ mutex = NoInjector /\ next <= MaxRecord
                /\ Put(<<PieceOf(r, "prefix"), PieceOf(r, "text")>>)
                /\ next' = next + 1
                /\ need_write' = TRUE
  /\ UNCHANGED <<mutex, ipc, record, file, pause_flag, outside, quit>>

\* One turn of write_to_log_file's loop: a chunk is read and written; a short
\* chunk is the last one.  The bytes of a failed write are gone.
DrainOneChunk(from, to) ==                                      \* mutant
  /\ spc = from
  /\ pipe' = After(pipe, Chunk)
  /\ file' = file \o First(pipe, Chunk)
  /\ ServiceGoto(to)
  /\ UNCHANGED <<need_write, injection, lost, pause_flag, open_failed, outside, quit>>
Drain(from, to) ==
  /\ spc = from
  /\ pipe' = After(pipe, Chunk)
  /\ \/ file' = file \o First(pipe, Chunk) /\ UNCHANGED lost
     \/ /\ DiskFails /\ pipe # <<>>
        /\ lost' = lost \cup ToSet(First(pipe, Chunk))
        /\ UNCHANGED file
  /\ ServiceGoto(IF Len(pipe) < Chunk THEN to ELSE from)
  /\ UNCHANGED <<need_write, injection, pause_flag, open_failed, outside, quit>>

ServiceSleepClears ==                                           \* mutant
  /\ spc = "sleep"
  /\ need_write' = (need_write /\ pause_flag)
  /\ ServiceGoto("top")
  /\ UNCHANGED <<pipe, injection, file, lost, pause_flag, open_failed, outside, quit>>
ServiceSleep ==
  /\ spc = "sleep"
  /\ ServiceGoto("top")
  /\ UNCHANGED <<pipe, need_write, injection, file, lost, pause_flag,
                 open_failed, outside, quit>>

Service == \/ ServiceTop \/ ServicePeriod \/ ServiceIdle \/ ServicePause
           \/ ServiceClear
           \/ Opened("open", "drain") \/ OpenFails("open", "sleep")
           \/ Drain("drain", "sleep")
           \/ ServiceSleep
           \/ Opened("last open", "last drain") \/ OpenFails("last open", "done")
           \/ Drain("last drain", "done")
-----------------------------------------------------------------------------
\* The pause file is created and removed from outside the program.
PauseFile ==
  /\ \/ pause_exists /\ pauses' = pauses
     \/ ~pause_exists /\ pauses < MaxPause /\ pauses' = pauses + 1
  /\ pause_exists' = ~pause_exists
  /\ owed' = {}
  /\ UNCHANGED <<pipe, need_write, injection, file, lost, service, exit_flag, qpc>>

\* The pieces of calls that have returned.
Finished == {p \in Piece : /\ p.id < next
                           /\ p \in ToSet(pipe) \cup ToSet(file) \cup lost
                           /\ \A i \in Injector : ipc[i] # "idle" => record[i].id # p.id}

\* log_safely_quit: log_file_sync, the exit flag, pthread_join.
QuitSync ==
  /\ qpc = "none"
  /\ need_write' = TRUE
  /\ qpc' = "synced"
  /\ owed' = IF pause_exists THEN {} ELSE Finished
  /\ UNCHANGED <<pipe, injection, file, lost, service, outside, exit_flag>>

QuitFlag ==
  /\ qpc = "synced"
  /\ exit_flag' = TRUE
  /\ qpc' = "flagged"
  /\ UNCHANGED <<pipe, need_write, injection, file, lost, service, outside, owed>>

QuitJoin ==
  /\ qpc = "flagged" /\ spc = "done"
  /\ qpc' = "joined"
  /\ UNCHANGED <<pipe, need_write, injection, file, lost, service, outside,
                 exit_flag, owed>>

Quit == QuitSync \/ QuitFlag \/ QuitJoin

Next == (\E i \in Injector : Inject(i)) \/ Service \/ PauseFile \/ Quit

Spec == Init /\ [][Next]_vars

\* The threads run, a call of log_file_inject ends, and the clock passes the
\* write period in the end.  Nobody need log, pause or quit.
Fairness == /\ WF_vars(Service)
            /\ SF_vars(ServicePeriod)
            /\ \A i \in Injector : WF_vars(Inject(i) /\ ipc[i] # "idle")
            /\ WF_vars(QuitFlag \/ QuitJoin)
FairSpec == Spec /\ Fairness
-----------------------------------------------------------------------------
TypeOK ==
  /\ pipe \in Seq(Piece) /\ Len(pipe) <= Capacity
  /\ need_write \in BOOLEAN
  /\ mutex \in Injector \cup {NoInjector}
  /\ ipc \in [Injector -> {"idle", "locked", "prefix", "text"}]
  /\ record \in [Injector -> Record \cup {NoRecord}]
  /\ next \in 1 .. MaxRecord + 1
  /\ file \in Seq(Piece) /\ lost \subseteq Piece /\ owed \subseteq Piece
  /\ spc \in {"top", "look", "open", "drain", "sleep", "last open", "last drain", "done"}
  /\ pause_flag \in BOOLEAN /\ open_failed \in BOOLEAN
  /\ pause_exists \in BOOLEAN /\ pauses \in 0 .. MaxPause
  /\ exit_flag \in BOOLEAN
  /\ qpc \in {"none", "synced", "flagged", "joined"}

\* The order of pieces: by record, the prefix before the text.
Before(p, q) == p.id < q.id \/ (p.id = q.id /\ p.part = "prefix" /\ q.part = "text")

\* What is in the files and still in the pipe is one stream, in the order the
\* records were logged, every prefix right before its own text unless a piece
\* was lost, nothing twice (log_file.c:194, "thread safe").
InOrder ==
  LET s == file \o pipe
  IN  \A i, j \in DOMAIN s : i < j => Before(s[i], s[j])

\* Every piece that was injected is in the pipe, in the files, or was given up
\* by an overflow or a failed write: none disappears otherwise.
NothingVanishes ==
  \A id \in 1 .. next - 1 :
    (\A i \in Injector : ipc[i] # "idle" => record[i].id # id) =>
      \A part \in {"prefix", "text"} :
        \E p \in ToSet(file) \cup ToSet(pipe) \cup lost : p.id = id /\ p.part = part

\* The drain that is under way will still reach everything in the pipe.
Draining == spc \in {"open", "drain"} \/ exit_flag

\* Nobody injecting: an urgent record still in the pipe, or a pipe half full,
\* has its write asked for or under way, whatever the service thread did with
\* the request meanwhile (log_file.c:203-208, cases 1 and 3).
WriteIsScheduled ==
  /\ mutex = NoInjector
  /\ Half(pipe) \/ \E p \in ToSet(pipe) : p.urgent
  => need_write \/ Draining

\* After log_safely_quit every record whose call had returned before is in the
\* files, unless an overflow or the disk took it, or writing was paused when it
\* was called or later (logcat.c:593, "Store logs to file timely before safely
\* quit the program").
QuitStoresLogs ==
  qpc = "joined" /\ ~open_failed => owed \subseteq ToSet(file) \cup lost

\* ... as far as the code keeps it: the service thread must also have noticed,
\* by a turn that writes, that a pause is over.
QuitStoresLogsNoticed == ~pause_flag => QuitStoresLogs

\* log_safely_quit returns (logcat.c:599).
QuitReturns == qpc = "synced" ~> qpc = "joined"

\* When the pause file stays away, what is in the pipe leaves it, within one
\* write period, urgent or not (log_file.c:203-208, case 2).
WrittenInTheEnd ==
  <>[]~pause_exists =>
    \A id \in 1 .. MaxRecord :
      (\E p \in ToSet(pipe) : p.id = id)
        ~> (exit_flag \/ \A p \in ToSet(pipe) : p.id # id)
=============================================================================
