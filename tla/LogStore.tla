------------------------------ MODULE LogStore ------------------------------
(***************************************************************************)
(* The log directory of the logall service (src/log_file.c): one log file  *)
(* for each date, cleaned when the date changes - old files are removed,   *)
(* yesterday's are compressed by threads of their own - and kept below the *)
(* size of the disk by the check of the free space.  The service thread    *)
(* writes, cleans and checks; the compress threads run beside it.          *)
(*                                                                         *)
(* A compress thread gets a pointer to a name that clean_log_files frees   *)
(* at once, and reads it twice: it may read the name, or nothing that is   *)
(* a name of a file, or (Reused) the name of another file of a later scan. *)
(***************************************************************************)
EXTENDS Integers, FiniteSets, SequencesExt

CONSTANTS
    MaxDay,      \* bound: dates
    Keep,        \* the days a file is kept: 31
    Disk,        \* the units the disk holds
    Required,    \* log_file_max_size, the units that must be free
    MaxUnit, MaxCrash, \* bounds: units written, crashes
    BusyMidnight, \* TRUE: the date may change during a turn or a compression
    Reused       \* TRUE: the memory of a freed name may get another name

VARIABLES
    day,         \* the date
    files,       \* the directory: [name -> the units in it]
    last_ts,     \* the date of the last cleaning, 0 when the program starts
    pc,          \* the service thread: "idle", "clean", "open", "append", "space"
    cur_ts,      \* the date of the file it writes
    namelist,    \* the names it has still to look at
    jobs,        \* the compress threads: [name, stage]
    next,        \* the number of the next unit
    given_up,    \* history: units removed because of their age or of the space
    mixed,       \* history: a compress thread has read the name of another file
    crashes

service == <<last_ts, pc, cur_ts, namelist>>
vars == <<day, files, service, jobs, next, given_up, mixed, crashes>>

Log(d) == [date |-> d, kind |-> "log"]
Archive(n) == [n EXCEPT !.kind = "tgz"]
Undated == 0                 \* any other name that ends in .log
Dates == {Undated} \cup 1 .. MaxDay

Exists(n) == n \in DOMAIN files
Without(n) == [m \in DOMAIN files \ {n} |-> files[m]]
With(n, units) == [m \in DOMAIN files \cup {n} |-> IF m = n THEN units ELSE files[m]]

\* An archive takes less than its log, in all cases here one unit.
Size(n) == IF n.kind = "tgz" THEN 1 ELSE Cardinality(files[n])
Free == Disk - FoldSet(LAMBDA n, sum : Size(n) + sum, 0, DOMAIN files)

\* scandir's list of names, and the order it is in.
Sorted(names, rank) ==
    LET From[rest \in SUBSET names] ==
            IF rest = {} THEN <<>>
            ELSE LET n == CHOOSE n \in rest : \A m \in rest : rank[n] <= rank[m]
                 IN  <<n>> \o From[rest \ {n}]
    IN  From[names]
ByName(names) ==
    Sorted(names, [n \in names |-> IF n.kind = "log" THEN 2 * n.date ELSE 2 * n.date + 1])

Init == /\ day = 1
        /\ files = [n \in {Log(Undated)} |-> {0}]
        /\ last_ts = 0 /\ pc = "idle" /\ cur_ts = 0
        /\ namelist = <<>>
        /\ jobs = {} /\ next = 1 /\ given_up = {} /\ mixed = FALSE /\ crashes = 0

\* Midnight.
Tick ==
    /\ day < MaxDay
    /\ BusyMidnight \/ (jobs = {} /\ pc = "idle")
    /\ day' = day + 1
    /\ UNCHANGED <<files, service, jobs, next, given_up, mixed, crashes>>

-----------------------------------------------------------------------------
\* get_log_file_fd_with_date: a new date, or the first, has the directory
\* cleaned first; what is opened is the file of the date looked at before.
Turn ==
    /\ pc = "idle"
    /\ cur_ts' = day /\ last_ts' = day
    /\ IF day # last_ts
       THEN /\ namelist' = ByName(DOMAIN files)
            /\ pc' = "clean"
       ELSE pc' = "open" /\ UNCHANGED namelist
    /\ UNCHANGED <<day, files, jobs, next, given_up, mixed, crashes>>

\* Midnight of date d is more than n days ago, which depends on the second
\* only at midnight itself.
MoreDaysAgo(d, n) == {day - d > n, day - d >= n}

GiveUp(n) ==
    /\ files' = Without(n)
    /\ given_up' = given_up \cup (IF Exists(n) THEN files[n] ELSE {})

\* handle_log_file of the next name, whatever has become of the file.
HandleLogFile ==
    /\ pc = "clean" /\ namelist # <<>>
    /\ namelist' = Tail(namelist)
    /\ LET n == Head(namelist)
       IN  \/ n.date = Undated /\ UNCHANGED <<files, jobs, given_up>>
           \/ n.date # Undated /\ TRUE \in MoreDaysAgo(n.date, Keep) /\ GiveUp(n) /\ UNCHANGED jobs
           \/ /\ n.date # Undated /\ FALSE \in MoreDaysAgo(n.date, Keep)
              /\ TRUE \in MoreDaysAgo(n.date, 1) /\ n.kind = "log"
              /\ \/ jobs' = jobs \cup {[name |-> n, stage |-> "start"]}
                 \/ UNCHANGED jobs                  \* no thread could be created
              /\ UNCHANGED <<files, given_up>>
           \/ /\ n.date # Undated /\ FALSE \in MoreDaysAgo(n.date, Keep)
              /\ FALSE \in MoreDaysAgo(n.date, 1) \/ n.kind # "log"
              /\ UNCHANGED <<files, jobs, given_up>>
    /\ UNCHANGED <<day, last_ts, pc, cur_ts, next, mixed, crashes>>

Cleaned ==
    /\ pc = "clean" /\ namelist = <<>>
    /\ pc' = "open"
    /\ UNCHANGED <<day, files, last_ts, cur_ts, namelist, jobs, next, given_up, mixed, crashes>>

\* The file is created or opened, or cannot be, and the turn ends.
Open ==
    /\ pc = "open"
    /\ \/ /\ pc' = "append"
          /\ files' = IF Exists(Log(cur_ts)) THEN files ELSE With(Log(cur_ts), {})
       \/ pc' = "idle" /\ UNCHANGED files
    /\ UNCHANGED <<day, last_ts, cur_ts, namelist, jobs, next, given_up, mixed, crashes>>

\* What is appended to a file that was removed meanwhile goes with it.
AppendUnit ==
    /\ pc = "append" /\ next <= MaxUnit /\ Free > 0
    /\ LET n == Log(cur_ts)
       IN  files' = IF Exists(n) THEN [files EXCEPT ![n] = @ \cup {next}] ELSE files
    /\ next' = next + 1
    /\ UNCHANGED <<day, service, jobs, given_up, mixed, crashes>>

Drained ==
    /\ pc = "append"
    /\ pc' = "idle"
    /\ UNCHANGED <<day, files, last_ts, cur_ts, namelist, jobs, next, given_up, mixed, crashes>>

-----------------------------------------------------------------------------
\* compress_thread: it reads the name, runs tar, reads the name again and
\* removes that file.
Compress(j, stage) == jobs' = (jobs \ {j}) \cup {[j EXCEPT !.stage = stage]}
Ended(j) == jobs' = jobs \ {j}

\* The names it may read in the memory of its name.
Reads(j) == {j.name} \cup (IF Reused THEN {n \in DOMAIN files : n.kind = "log"} ELSE {})

\* tar begins with a new archive; what is not a name is no file, and tar fails.
TarBegins(j) ==
    /\ j.stage = "start"
    /\ \/ \E n \in Reads(j) :
              /\ jobs' = (jobs \ {j}) \cup {[name |-> n, stage |-> "tar"]}
              /\ files' = With(Archive(n), {})
              /\ mixed' = (mixed \/ n # j.name)
       \/ Ended(j) /\ UNCHANGED <<files, mixed>>
    /\ UNCHANGED <<day, service, next, given_up, crashes>>

\* mutant: the log is removed though tar has failed
TarEndsAlways(j) ==
    /\ j.stage = "tar"
    /\ Compress(j, "remove")
    /\ \/ Exists(j.name) /\ files' = With(Archive(j.name), files[j.name])
       \/ UNCHANGED files
    /\ UNCHANGED <<day, service, next, given_up, mixed, crashes>>

\* ... and ends with the whole log in it, or fails and leaves what it has.
TarEnds(j) ==
    /\ j.stage = "tar"
    /\ \/ /\ Exists(j.name) /\ Exists(Archive(j.name)) /\ Free > 0
          /\ Compress(j, "remove")
          /\ files' = With(Archive(j.name), files[j.name])
       \/ Ended(j) /\ UNCHANGED files
    /\ UNCHANGED <<day, service, next, given_up, mixed, crashes>>

RemoveLog(j) ==
    /\ j.stage = "remove"
    /\ Ended(j)
    /\ \/ \E n \in Reads(j) : files' = Without(n) /\ mixed' = (mixed \/ n # j.name)
       \/ UNCHANGED <<files, mixed>>
    /\ UNCHANGED <<day, service, next, given_up, crashes>>

-----------------------------------------------------------------------------
\* check_storage_space.
\* mutant: the newest first
ByDateDown(names) == Sorted(names, [n \in names |-> 0 - n.date])

ByDate(names) == Sorted(names, [n \in names |-> n.date])

CheckSpace ==
    /\ pc = "idle" /\ Free < Required
    /\ namelist' = ByDate(DOMAIN files)
    /\ pc' = "space"
    /\ UNCHANGED <<day, files, last_ts, cur_ts, jobs, next, given_up, mixed, crashes>>

DeleteOldest ==
    /\ pc = "space" /\ namelist # <<>> /\ Free < Required
    /\ GiveUp(Head(namelist))
    /\ namelist' = Tail(namelist)
    /\ UNCHANGED <<day, last_ts, pc, cur_ts, jobs, next, mixed, crashes>>

Checked ==
    /\ pc = "space" /\ (namelist = <<>> \/ Free >= Required)
    /\ pc' = "idle"
    /\ UNCHANGED <<day, files, last_ts, cur_ts, namelist, jobs, next, given_up, mixed, crashes>>

\* The program ends at any point, with its threads.
Crash ==
    /\ crashes < MaxCrash
    /\ crashes' = crashes + 1
    /\ last_ts' = 0 /\ pc' = "idle" /\ cur_ts' = 0 /\ namelist' = <<>>
    /\ jobs' = {}
    /\ UNCHANGED <<day, files, next, given_up, mixed>>

Next == \/ Tick \/ Turn \/ HandleLogFile \/ Cleaned \/ Open \/ AppendUnit \/ Drained
        \/ CheckSpace \/ DeleteOldest \/ Checked \/ Crash
        \/ \E j \in jobs : TarBegins(j) \/ TarEnds(j) \/ RemoveLog(j)

Spec == Init /\ [][Next]_vars

-----------------------------------------------------------------------------
Stored == UNION {files[n] : n \in DOMAIN files}

\* A unit that was written is in a log or in a whole archive, unless it was
\* removed for its age or for the space: no crash, failing tar or unreadable
\* name costs one (log_file.c:475-478, the log is removed after a success).
NoUnitVanishes == ~mixed => 0 .. next - 1 \subseteq Stored \cup given_up

\* The space check gives up a file only when no log of an older date is left -
\* an archive may be made meanwhile - and only while there is no room
\* (log_file.c:613, "Will delete oldest log files").
OldestFirst ==
    [][pc = "space" /\ DOMAIN files' # DOMAIN files /\ given_up' # given_up =>
        /\ Free < Required
        /\ \A n \in DOMAIN files \ DOMAIN files', m \in DOMAIN files :
              m.kind = "log" => m.date >= n.date]_vars
=============================================================================
