------------------------- MODULE HighPrecisionTimer -------------------------
(***************************************************************************)
(* The high-precision timers, src/qt/timer/highprecisiontimer.cpp: timers  *)
(* that other threads start and stop, and one worker thread, which spins   *)
(* through the list of them while there is one.  Neither the list nor the  *)
(* queue of stopped timers has a lock.                                     *)
(***************************************************************************)
EXTENDS Naturals, SequencesExt

CONSTANTS
    Timers,
    Interval,   \* of every timer, in units of time
    MaxCalls    \* bound: calls of start and stop

VARIABLES
    m_timers, m_deleteCache,  \* the worker's list and queue
    on,          \* timers whose timerId is not 0
    elapsed,     \* time since startTime, at most Interval
    worker,      \* "idle", "turn", "check", "drain", "store", "test", "leave"
    turn,        \* the copy of m_timers that foreach goes through
    removed,     \* what RemoveOne is about to store: [timers, cache]
    destroyed,   \* timers whose object is gone
    excused,     \* the two lists were used at once, or a destroyed timer was
                 \* used, or one was started while the thread was leaving
    twice,       \* timers that were started while they were on
    exiting,     \* the worker's destructor waits for the thread
    calls

lists == <<m_timers, m_deleteCache>>
vars == <<lists, on, elapsed, worker, turn, removed, destroyed, excused, twice, exiting, calls>>

Init ==
    /\ m_timers = <<>> /\ m_deleteCache = <<>>
    /\ on = {} /\ elapsed = [t \in Timers |-> 0]
    /\ worker = "idle" /\ turn = <<>>
    /\ removed = [timers |-> <<>>, cache |-> <<>>]
    /\ destroyed = {} /\ excused = FALSE /\ twice = {} /\ exiting = FALSE /\ calls = 0

-----------------------------------------------------------------------------
(* The calls of other threads.                                              *)

Call(t) ==
    /\ t \notin destroyed /\ ~exiting
    /\ calls < MaxCalls /\ calls' = calls + 1

\* mutant: the thread is started for a list that was empty before
StartsThreadLate(list) == Len(list) = 0

\* addTimer starts the thread if the list has one timer by now.
StartsThread(list) == Len(list) = 1

\* start: the timer goes to the end of the list.  QThread::start does nothing
\* as long as the thread has not finished.
Start(t) ==
    /\ Call(t)
    /\ m_timers' = Append(m_timers, t)
    /\ elapsed' = [elapsed EXCEPT ![t] = 0]
    /\ on' = on \cup {t}
    /\ twice' = IF t \in on THEN twice \cup {t} ELSE twice
    /\ worker' = IF StartsThread(m_timers') /\ worker = "idle" THEN "turn" ELSE worker
    /\ excused' = (excused \/ worker \in {"store", "leave"})
    /\ UNCHANGED <<m_deleteCache, turn, removed, destroyed, exiting>>

\* stop only tells the worker, if the timer is on.
StopAll(ts) ==
    /\ m_deleteCache' = m_deleteCache \o SetToSeq(ts \cap on)
    /\ on' = on \ ts
    /\ excused' = (excused \/ (ts \cap on # {} /\ worker = "store"))
Stop(t) ==
    /\ Call(t)
    /\ StopAll({t})
    /\ UNCHANGED <<m_timers, elapsed, worker, turn, removed, destroyed, twice, exiting>>

\* The destructor stops the timer, but does not wait for the worker.
Destroy(t) ==
    /\ Call(t)
    /\ StopAll({t})
    /\ destroyed' = destroyed \cup {t}
    /\ UNCHANGED <<m_timers, elapsed, worker, turn, removed, twice, exiting>>

\* The worker's destructor: every timer of the list is stopped.
Exit ==
    /\ ~exiting
    /\ exiting' = TRUE
    /\ StopAll(ToSet(m_timers))
    /\ UNCHANGED <<m_timers, elapsed, worker, turn, removed, destroyed, twice, calls>>

Elapse ==
    /\ elapsed' = [t \in Timers |-> IF elapsed[t] < Interval THEN elapsed[t] + 1 ELSE Interval]
    /\ elapsed' # elapsed
    /\ UNCHANGED <<lists, on, worker, turn, removed, destroyed, excused, twice, exiting, calls>>

-----------------------------------------------------------------------------
(* The worker, HighPreTimerWorker::run.                                     *)

Turn ==
    /\ worker = "turn"
    /\ worker' = "check" /\ turn' = m_timers
    /\ UNCHANGED <<lists, on, elapsed, removed, destroyed, excused, twice, exiting, calls>>

\* checkHighPrecisionTimeout of the next timer of the copy, stopped or not: it
\* fires if its interval is over.
Check ==
    /\ worker = "check" /\ turn # <<>>
    /\ LET t == Head(turn)
       IN  /\ elapsed' = IF elapsed[t] = Interval THEN [elapsed EXCEPT ![t] = 0] ELSE elapsed
           /\ excused' = (excused \/ t \in destroyed)
    /\ turn' = Tail(turn)
    /\ UNCHANGED <<lists, on, worker, removed, destroyed, twice, exiting, calls>>

EndOfTurn ==
    /\ worker = "check" /\ turn = <<>>
    /\ worker' = "drain"
    /\ UNCHANGED <<lists, on, elapsed, turn, removed, destroyed, excused, twice, exiting, calls>>

\* The stopped timers, one at a time: a call that comes before the result is
\* stored is lost.
RemoveOne ==
    /\ worker = "drain" /\ m_deleteCache # <<>>
    /\ worker' = "store"
    /\ removed' = [timers |-> RemoveFirst(m_timers, Head(m_deleteCache)), cache |-> Tail(m_deleteCache)]
    /\ UNCHANGED <<lists, on, elapsed, turn, destroyed, excused, twice, exiting, calls>>
Store ==
    /\ worker = "store"
    /\ worker' = "drain"
    /\ m_timers' = removed.timers /\ m_deleteCache' = removed.cache
    /\ UNCHANGED <<on, elapsed, turn, removed, destroyed, excused, twice, exiting, calls>>

Drained ==
    /\ worker = "drain" /\ m_deleteCache = <<>>
    /\ worker' = "test"
    /\ UNCHANGED <<lists, on, elapsed, turn, removed, destroyed, excused, twice, exiting, calls>>

\* The thread breaks off if there is no timer; it is over a little later.
TestEmpty ==
    /\ worker = "test"
    /\ worker' = IF m_timers = <<>> THEN "leave" ELSE "turn"
    /\ UNCHANGED <<lists, on, elapsed, turn, removed, destroyed, excused, twice, exiting, calls>>
Finish ==
    /\ worker = "leave"
    /\ worker' = "idle"
    /\ UNCHANGED <<lists, on, elapsed, turn, removed, destroyed, excused, twice, exiting, calls>>

Worker == Turn \/ Check \/ EndOfTurn \/ RemoveOne \/ Store \/ Drained \/ TestEmpty \/ Finish

Next == Worker \/ Elapse \/ Exit \/ \E t \in Timers : Start(t) \/ Stop(t) \/ Destroy(t)

\* The worker spins, and time passes.
Spec == Init /\ [][Next]_vars /\ WF_vars(Worker) /\ WF_vars(Elapse)

-----------------------------------------------------------------------------
\* A timer that is on fires again and again; one that was stopped, and not
\* started twice, leaves the worker's list; the program's end does not wait
\* for ever (highprecisiontimer.cpp:86-154) - calls at the wrong moment apart.
TimersFire ==
    /\ \A t \in Timers :
         /\ t \in on /\ elapsed[t] = Interval ~> elapsed[t] = 0 \/ t \notin on \/ excused
         /\ t \notin on ~> t \in on \cup twice \/ t \notin ToSet(m_timers) \/ excused
    /\ exiting ~> worker = "idle" \/ twice # {} \/ excused
=============================================================================
