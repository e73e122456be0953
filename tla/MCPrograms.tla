----------------------------- MODULE MCPrograms -----------------------------
(***************************************************************************)
(* Small instances of the smaller programs, one of which runs in each      *)
(* behaviour: the light switch, the blocking queue with a producer and two *)
(* consumers, the CAN FD packets, the command line of the configuration    *)
(* library, the allocation tracker, the high-precision timers, and the     *)
(* reader of frames.                                                       *)
(***************************************************************************)
EXTENDS Programs

CONSTANTS
    W, Ids, LongBits, Names, Uninitialised, MaxChanges,
    Timers, Interval, MaxCalls,
    BufferSize, MaxPacket, NoMemory, MaxFrames

VARIABLES
    program,
    tree, packet_data, value, subscribed, told, can_pc, id, at, copy, changes,
    m_timers, m_deleteCache, timer_on, elapsed, worker, turn, removed, destroyed, excused, twice,
    exiting, calls,
    buffer, recv_len, line, frames, tidy, complete, pushed, failed

can == <<tree, packet_data, value, subscribed, told, can_pc, id, at, copy, changes>>
timers == <<m_timers, m_deleteCache, timer_on, elapsed, worker, turn, removed, destroyed,
            excused, twice, exiting, calls>>
reader == <<buffer, recv_len, line, frames, tidy, complete, pushed, failed>>

-----------------------------------------------------------------------------
\* CAN FD packets of bytes of two bits.  Packet 3 has an aligned signal of a
\* byte and one across two, packet 5 two in one byte and an array, packet 6
\* one at byte 0 and one that is torn.
S(name, byte, bit, length) ==
    [name |-> name, start_byte |-> byte, start_bit |-> bit, bit_length |-> length]
Layout == [i \in 1 .. 6 |->
    CASE i = 3 -> [dlc |-> 4, signals |-> <<S("a", 1, 2, 2), S("b", 2, 4, 4)>>]
      [] i = 5 -> [dlc |-> 4, signals |-> <<S("a", 3, 6, 1), S("c", 3, 7, 1), S("d", 1, 2, 6)>>]
      [] i = 6 -> [dlc |-> 3, signals |-> <<S("e", 1, 3, 2), S("z", 0, 0, 1)>>]
      [] OTHER -> [dlc |-> 2, signals |-> <<>>]]
M(i, d) == [id |-> i, data |-> d]
Messages == {M(3, <<{0}, {1}, {}, {0, 1}>>), M(3, <<{}, {}, {}, {}>>), M(3, <<{0, 1}, {0}>>),
             M(3, <<{0}, {1}, {1}, {0, 1}>>), M(5, <<{1}, {}, {0}, {}>>), M(5, <<{0}>>),
             M(6, <<{0}, {0, 1}, {}>>), M(4, <<{}, {}, {}>>), M(7, <<{0}>>)}
Values == {{}, {1}, {0, 1}, {0, 3}}

\* Frames with nothing, something and everything to escape, and with a byte
\* that only looks like a code.
FrameMessages == {[id |-> 1, sub_id |-> 0, data |-> d] : d \in {<<1>>, <<4, 5>>, <<2, 4, 6>>}}

Can == INSTANCE CanFd WITH data <- packet_data, pc <- can_pc, Garbage <- Uninitialised
Timer == INSTANCE HighPrecisionTimer WITH on <- timer_on
Reader == INSTANCE FrameReader WITH
            Width <- 4, Sof <- 6, OtherSof <- 5, Escape <- 4, Code1 <- 1, Code2 <- 2, Code3 <- 3,
            Messages <- FrameMessages

ProgramsInit ==
    /\ program \in {"light", "queue", "can", "cli", "alloc", "timers", "reader"}
    /\ Init /\ Q!Init /\ Can!Init /\ Cli!Init /\ Alloc!Init /\ Timer!Init /\ Reader!Init
ProgramsNext ==
    /\ UNCHANGED program
    /\ \/ program = "light" /\ Next /\ UNCHANGED <<queue, can, cli, alloc, timers, reader>>
       \/ program = "queue" /\ Q!Next /\ UNCHANGED <<vars, can, cli, alloc, timers, reader>>
       \/ program = "can" /\ Can!Next /\ UNCHANGED <<vars, queue, cli, alloc, timers, reader>>
       \/ program = "cli" /\ Cli!Next /\ UNCHANGED <<vars, queue, can, alloc, timers, reader>>
       \/ program = "alloc" /\ Alloc!Next /\ UNCHANGED <<vars, queue, can, cli, timers, reader>>
       \/ program = "timers" /\ Timer!Next /\ UNCHANGED <<vars, queue, can, cli, alloc, reader>>
       \/ program = "reader" /\ Reader!Next /\ UNCHANGED <<vars, queue, can, cli, alloc, timers>>

\* The queue's threads go on once woken, and so do the threads of the server and
\* of the timers.
all == <<program, vars, queue, can, cli, alloc, timers, reader>>
ProgramsSpec ==
    /\ ProgramsInit /\ [][ProgramsNext]_all
    /\ Q!Fairness
    /\ WF_cli(program = "cli" /\ Cli!Server) /\ WF_cli(program = "cli" /\ Cli!Stop)
    /\ \A i \in 1 .. MaxConn : WF_cli(program = "cli" /\ Cli!Handler(i))
    /\ \A c \in {Asking, Idle} : WF_cli(program = "cli" /\ (Cli!ReadLine(c) \/ Cli!ReadEnd(c)))
    /\ WF_timers(program = "timers" /\ Timer!Worker) /\ WF_timers(program = "timers" /\ Timer!Elapse)

-----------------------------------------------------------------------------
\* Nobody of the queue waits for ever for what is there (simple_queue.c:109-113, 135-139).
QueueWakes == Q!PopWakes /\ Q!PushWakes

\* The tree of packets is in the order of the identifiers and balanced.
TreeIsSortedMap == Can!TreeIsSortedMap
\* A signal reads back as it was written, and writing it spares the others.
BitsRoundTrip == program = "can" => Can!BitsRoundTrip
\* The values of a packet's signals are those its data says, and a subscriber
\* has been told them.
PacketsAgree == Can!PacketsAgree

\* Neither a client of the command line nor the stop of its server waits for ever.
NobodyWaits == Cli!NobodyWaits

\* A timer fires as long as it is on, and no longer.
TimersFire == Timer!TimersFire

\* A frame that comes whole is pushed as it was sent.
FramesIntact == Reader!FramesIntact
=============================================================================
