------------------------------ MODULE EarlyLog ------------------------------
(***************************************************************************)
(* The start of the log-file service (log_file.c:137-192, 439-448) and of  *)
(* the logcat service (log_service.c:156-176, 203-227, 389-399), which is  *)
(* the same: what is logged before the pipe is there goes to a cache, the  *)
(* starting thread makes the pipe and writes the cache to it, and none of  *)
(* this is locked.  A record, with its mark, counts as one byte.           *)
(***************************************************************************)
EXTENDS Integers, SequencesExt

CONSTANTS
    Loggers,     \* threads that log
    Starters,    \* threads that call start_log_..._service
    CacheSize,   \* EARLY_LOG_SIZE, in records
    OwnRecord,   \* TRUE: the service logs while it starts (log_file.c:160)
    MaxRecord    \* bound: records of a logger

Thread == Loggers \cup Starters
Idle == "idle"

VARIABLES
    called,      \* __called of set_single_called
    ready,       \* log_file_ready, log_logcat_ready
    pipe,        \* the records in the pipe
    cache, cached_bytes, \* cached_early_log_buf, cached_early_log_bytes
    flushed,     \* the cache has been written to the pipe
    pc,          \* where each thread is
    loaded,      \* the value of cached_bytes a thread is adding to
    count,       \* the records each thread has begun
    dropped,     \* records that found no room
    window       \* history: records being injected at some point between ready and flushed

service == <<called, ready, flushed>>
vars == <<service, pipe, cache, cached_bytes, pc, loaded, count, dropped, window>>

Slots == -1 .. CacheSize
Record(t) == <<t, count[t]>>
Go(t, to) == pc' = [pc EXCEPT ![t] = to]

Init == /\ called = FALSE /\ ready = FALSE /\ flushed = FALSE
        /\ pipe = <<>> /\ cached_bytes = 0
        /\ cache = [i \in Slots |-> <<>>]
        /\ pc = [t \in Thread |-> Idle] /\ loaded = [t \in Thread |-> 0]
        /\ count = [t \in Thread |-> 0] /\ dropped = {} /\ window = {}

-----------------------------------------------------------------------------
\* __log_file_inject, log_logcat_inject.
Log(t) ==
    /\ t \in Loggers /\ pc[t] = Idle /\ count[t] < MaxRecord
    /\ count' = [count EXCEPT ![t] = @ + 1]
    /\ Go(t, "test")
    /\ window' = IF ready /\ ~flushed THEN window \cup {<<t, count'[t]>>} ELSE window
    /\ UNCHANGED <<service, pipe, cache, cached_bytes, loaded, dropped>>

HasRoom == cached_bytes >= 0 /\ cached_bytes + 1 < CacheSize

Test(t) ==
    /\ pc[t] = "test"
    /\ Go(t, IF HasRoom THEN "copy" ELSE "ready?")
    /\ dropped' = IF cached_bytes >= 0 /\ ~HasRoom THEN dropped \cup {Record(t)} ELSE dropped
    /\ UNCHANGED <<service, pipe, cache, cached_bytes, loaded, count, window>>

\* At -1 it writes into the byte before the cache.
Copy(t) ==
    /\ pc[t] = "copy"
    /\ cache' = [cache EXCEPT ![cached_bytes] = Record(t)]
    /\ Go(t, "load")
    /\ UNCHANGED <<service, pipe, cached_bytes, loaded, count, dropped, window>>

\* cached_early_log_bytes += ..., which is not atomic.
Load(t) ==
    /\ pc[t] = "load"
    /\ loaded' = [loaded EXCEPT ![t] = cached_bytes]
    /\ Go(t, "store")
    /\ UNCHANGED <<service, pipe, cache, cached_bytes, count, dropped, window>>
Store(t) ==
    /\ pc[t] = "store"
    /\ cached_bytes' = loaded[t] + 1
    /\ Go(t, "ready?")
    /\ UNCHANGED <<service, pipe, cache, loaded, count, dropped, window>>

\* mutant: else if: what has been cached is not written to the pipe
IsReadyElse(t) ==
    /\ pc[t] = "ready?"
    /\ LET direct == ready /\ \A i \in Slots : cache[i] # Record(t)
       IN  Go(t, IF direct THEN "direct" ELSE IF t \in Starters THEN "flush" ELSE Idle)
    /\ UNCHANGED <<service, pipe, cache, cached_bytes, loaded, count, dropped, window>>

IsReady(t) ==
    /\ pc[t] = "ready?"
    /\ Go(t, IF ready THEN "direct" ELSE IF t \in Starters THEN "flush" ELSE Idle)
    /\ UNCHANGED <<service, pipe, cache, cached_bytes, loaded, count, dropped, window>>
Direct(t) ==
    /\ pc[t] = "direct"
    /\ pipe' = Append(pipe, Record(t))
    /\ Go(t, IF t \in Starters THEN "flush" ELSE Idle)
    /\ UNCHANGED <<service, cache, cached_bytes, loaded, count, dropped, window>>

-----------------------------------------------------------------------------
\* set_single_called tests and sets, with nothing to keep another thread out.
Start(t) ==
    /\ t \in Starters /\ pc[t] = Idle /\ ~called
    /\ Go(t, "called")
    /\ UNCHANGED <<service, pipe, cache, cached_bytes, loaded, count, dropped, window>>
Called(t) ==
    /\ pc[t] = "called"
    /\ called' = TRUE
    /\ Go(t, "open")
    /\ UNCHANGED <<ready, flushed, pipe, cache, cached_bytes, loaded, count, dropped, window>>

\* pipe_init and pipe_open make an empty pipe.
Open(t) ==
    /\ pc[t] = "open"
    /\ pipe' = <<>>
    /\ Go(t, "made")
    /\ UNCHANGED <<service, cache, cached_bytes, loaded, count, dropped, window>>
Ready(t) ==
    /\ pc[t] = "made"
    /\ ready' = TRUE
    /\ IF OwnRecord THEN Go(t, "test") /\ count' = [count EXCEPT ![t] = @ + 1]
                    ELSE Go(t, "flush") /\ UNCHANGED count
    /\ window' = window \cup {<<u, count'[u]>> : u \in {u \in Loggers : pc[u] # Idle} \cup {t}}
    /\ UNCHANGED <<called, flushed, pipe, cache, cached_bytes, loaded, dropped>>

\* pipe_write of what is cached: of nothing when the count is negative.
Flush(t) ==
    /\ pc[t] = "flush"
    /\ pipe' = pipe \o [i \in 1 .. cached_bytes |-> cache[i - 1]]
    /\ flushed' = TRUE
    /\ Go(t, "stop")
    /\ UNCHANGED <<called, ready, cache, cached_bytes, loaded, count, dropped, window>>
Stop(t) ==
    /\ pc[t] = "stop"
    /\ cached_bytes' = -1
    /\ Go(t, Idle)
    /\ UNCHANGED <<service, pipe, cache, loaded, count, dropped, window>>

Step(t) == \/ Log(t) \/ Test(t) \/ Copy(t) \/ Load(t) \/ Store(t) \/ IsReady(t) \/ Direct(t)
           \/ Start(t) \/ Called(t) \/ Open(t) \/ Ready(t) \/ Flush(t) \/ Stop(t)
Next == \E t \in Thread : Step(t)

Spec == Init /\ [][Next]_vars

-----------------------------------------------------------------------------
Logged == {r \in Thread \X (1 .. MaxRecord) :
              r[2] < count[r[1]] \/ (r[2] = count[r[1]] /\ pc[r[1]] = Idle)}
Cached == {cache[i] : i \in 0 .. cached_bytes - 1}
Times(r) == Cardinality({i \in DOMAIN pipe : pipe[i] = r})

\* Whatever point of the start a record is logged at, it reaches the pipe,
\* unless the cache had no room for it; and a record that does so twice was
\* being logged between the pipe's getting ready and the writing of the cache.
EarlyKept ==
    /\ \A r \in Logged \ dropped : r \in ToSet(pipe) \/ (~flushed /\ r \in Cached)
    /\ \A r \in ToSet(pipe) : Times(r) = 1 \/ (Times(r) = 2 /\ r \in window)
=============================================================================
