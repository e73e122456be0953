------------------------------ MODULE Programs ------------------------------
(***************************************************************************)
(* Smaller programs side by side, those whose properties are proved as well*)
(* as checked: the light switch, the blocking queue, the command line of   *)
(* the configuration library and the allocation tracker.                   *)
(***************************************************************************)
EXTENDS LightSwitch, FiniteSets

CONSTANTS
    Producer, Consumer, QueueLength, MaxMessage, DestroyAlone,
    Asking, Idle, MaxConn, MaxAsked, Orderly,
    Threads, Main, Addresses, NoOwner, MaxBlocks

VARIABLES
    alive, front, rear, data, waiting, queue_pc, w_cursor, message, next, accepted, popped, freed,
    up, cli_running, listening, server, stop, threads, handler, fd, deaf, shut, command,
    toserver, toclient, asking,
    list, owner, block, damaged, records, blocks, warned, reported, clean, alloc_pc

queue == <<alive, front, rear, data, waiting, queue_pc, w_cursor, message, next, accepted,
           popped, freed>>
cli == <<up, cli_running, listening, server, stop, threads, handler, fd, deaf, shut, command,
         toserver, toclient, asking>>
alloc == <<list, owner, block, damaged, records, blocks, warned, reported, clean, alloc_pc>>

Q == INSTANCE SimpleQueue WITH pc <- queue_pc, Length <- QueueLength
Cli == INSTANCE CliServer WITH
         running <- cli_running, client <- asking, Clients <- {Asking, Idle}, Mortal <- {Asking},
         MaxCommand <- [c \in {Asking, Idle} |-> IF c = Asking THEN MaxAsked ELSE 0]
Alloc == INSTANCE DebugAlloc WITH pc <- alloc_pc, None <- NoOwner

-----------------------------------------------------------------------------
\* A message whose push returned success is in the queue, was popped or was
\* freed with the queue (simple_queue.h:97, "0 Success"), and only one of these.
OneOwner == Q!NothingLost /\ Q!OneOwner
\* With one producer the ring is a FIFO of one message less than its slots.
RefinesFifo == Q!RefinesFifo

\* A client of the command line gets the answers to its own commands.
AnswersMatch == Cli!AnswersMatch

\* The allocation tracker reports what there is to report, and no more.
TrackerIsRight == Alloc!TrackerIsRight
=============================================================================
