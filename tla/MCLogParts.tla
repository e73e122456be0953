------------------------------ MODULE MCLogParts ------------------------------
(***************************************************************************)
(* Small instances of the parts of the log library that LogFile and        *)
(* LogcatService leave out, one of which runs in each behaviour: the two   *)
(* ways the log-file service names its files - LogRotate, with three files *)
(* of two units and enough units to go around twice, and LogStore, with    *)
(* three dates, one undated file and a disk that three units fill -, the   *)
(* logcat client, and the start of a service while a thread logs.          *)
(***************************************************************************)
EXTENDS LogRotate

CONSTANTS
    MaxDay, Keep, Disk, Required, DatedUnit, DatedCrash, BusyMidnight, Reused,
    CachedSize, ReadMax, ClearFirst, ReadTimes, ClosedReads, MaxSent, MaxClose,
    Loggers, Starters, CacheSize, OwnRecord, MaxLogged

VARIABLES
    part,
    day, files, last_ts, cur_ts, namelist, jobs, given_up, mixed,
    dated_pc, dated_next, dated_crashes,
    conn, closed, wire, cnt, cached, loglevel, printed, sent, received, torn, closes, quit,
    called, ready, pipe, cache, cached_bytes, flushed, start_pc, loaded, count, dropped, window

dated == <<day, files, last_ts, cur_ts, namelist, jobs, given_up, mixed,
           dated_pc, dated_next, dated_crashes>>
client == <<conn, closed, wire, cnt, cached, loglevel, printed, sent, received, torn, closes, quit>>
start == <<called, ready, pipe, cache, cached_bytes, flushed, start_pc, loaded, count, dropped,
           window>>

-----------------------------------------------------------------------------
\* A record of two lines and with a NUL, and one of a line that is longer than
\* the client's cache.
Records == {[request |-> {"EMERG", "ERR"}, text |-> <<"text", "nul", "newline", "text", "newline">>],
            [request |-> {"DEBUG_V1", "DEBUG_VV", "DEVICE"},
             text |-> <<"text", "text", "text", "text", "text", "text", "newline">>]}

Dated == INSTANCE LogStore WITH
           MaxUnit <- DatedUnit, MaxCrash <- DatedCrash,
           pc <- dated_pc, next <- dated_next, crashes <- dated_crashes
Client == INSTANCE LogcatClient WITH MaxRecord <- MaxSent, Size <- CachedSize
Early == INSTANCE EarlyLog WITH MaxRecord <- MaxLogged, pc <- start_pc

PartsInit ==
    /\ part \in {"ring", "dated", "client", "start"}
    /\ Init /\ (part = "ring" \/ sn = 0)
    /\ Dated!Init /\ Client!Init /\ Early!Init
PartsNext ==
    /\ UNCHANGED part
    /\ \/ part = "ring" /\ Next /\ UNCHANGED <<dated, client, start>>
       \/ part = "dated" /\ Dated!Next /\ UNCHANGED <<vars, client, start>>
       \/ part = "client" /\ Client!Next /\ UNCHANGED <<vars, dated, start>>
       \/ part = "start" /\ Early!Next /\ UNCHANGED <<vars, dated, client>>
PartsSpec == PartsInit /\ [][PartsNext]_<<part, vars, dated, client, start>>

-----------------------------------------------------------------------------
\* Of the service that names its files by date: what was written is kept until
\* it is too old or there is no room ...
NoUnitVanishes == Dated!NoUnitVanishes
\* ... and what goes for want of room is the oldest log.
OldestFirst == Dated!OldestFirst

\* The client prints each line once, whole, and at the level of its record.
LinesKept == Client!LinesKept

\* What is logged while a service starts reaches its pipe.
EarlyKept == Early!EarlyKept
=============================================================================
