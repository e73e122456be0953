----------------------------- MODULE SimpleQueue -----------------------------
(***************************************************************************)
(* The blocking queue of src/linux-coding-c/simple_queue/simple_queue.c: a *)
(* ring of queue_buf under data_mutex, with ONE condition variable,        *)
(* msg_cond, for the threads that wait because it is full and those that   *)
(* wait because it is empty.                                               *)
(*                                                                         *)
(* All the ring's state is read and written under data_mutex, so a section *)
(* from lock to unlock (or to the wait, which unlocks) is one step; the    *)
(* signal comes after the unlock and is a step of its own.  queue_type is  *)
(* stored and never looked at.  A message stands for its queue_buf and the *)
(* buffer that msg_buf owns.                                               *)
(***************************************************************************)
EXTENDS Integers, SequencesExt

CONSTANTS
  Producer, Consumer,   \* the threads that push and those that pop
  Length,               \* queue_length
  MaxMessage,           \* bound: messages pushed in a behaviour
  DestroyAlone          \* TRUE: destroy_simple_queue is only called while no
                        \* thread is in another call

VARIABLES
  alive,         \* the queue is allocated and initialised
  front, rear,   \* the cursors
  data,          \* the ring
  waiting,       \* the threads blocked on msg_cond
  pc,            \* where each thread is
  w_cursor,      \* the local of each producer
  message,       \* the message each producer is pushing, or 0
  next,          \* the number of the next message
  accepted,      \* messages whose push returned CNTL_QUEUE_SUCCESS
  popped, freed  \* messages popped, and those destroy freed

local == <<w_cursor, message, next>>
history == <<accepted, popped, freed>>
vars == <<alive, front, rear, data, waiting, pc, local, history>>

Thread == Producer \cup Consumer

Cursor == 0 .. Length - 1
Message == 1 .. MaxMessage
Garbage == 0                  \* what malloc left in the ring
After(i) == (i + 1) % Length
Held == (rear - front) % Length
Content == [i \in 1 .. Held |-> data[(front + i - 1) % Length]]

Goto(t, label) == pc' = [pc EXCEPT ![t] = label]

Init == /\ alive = FALSE /\ front = 0 /\ rear = 0
        /\ data = [i \in Cursor |-> Garbage]
        /\ waiting = {}
        /\ pc = [t \in Thread |-> "idle"]
        /\ w_cursor = [p \in Producer |-> 0]
        /\ message = [p \in Producer |-> 0]
        /\ next = 1
        /\ accepted = {} /\ popped = {} /\ freed = {}
-----------------------------------------------------------------------------
\* create_simple_queue; the queue is new, so are its ring and its cursors.
Create ==
  /\ ~alive /\ \A t \in Thread : pc[t] = "idle"
  /\ alive' = TRUE
  /\ front' = 0 /\ rear' = 0
  /\ data' = [i \in Cursor |-> Garbage]
  /\ UNCHANGED <<waiting, pc, local, history>>

\* data[rear] = *pdata; rear = w_cursor; unlock.
Store(p, m, w) ==
  /\ data' = [data EXCEPT ![rear] = m]
  /\ rear' = w
  /\ accepted' = accepted \cup {m}
  /\ message' = [message EXCEPT ![p] = 0]
  /\ Goto(p, "signal")

\* push_simple_queue up to its unlock or its wait.
PushNoFullTest(p) ==                                            \* mutant
  /\ alive /\ pc[p] = "idle" /\ next <= MaxMessage
  /\ next' = next + 1
  /\ Store(p, next, After(rear))
  /\ UNCHANGED <<alive, front, waiting, w_cursor, popped, freed>>
Push(p) ==
  /\ alive /\ pc[p] = "idle" /\ next <= MaxMessage
  /\ next' = next + 1
  /\ IF After(rear) # front
       THEN /\ Store(p, next, After(rear))
            /\ UNCHANGED <<waiting, w_cursor>>
       ELSE /\ w_cursor' = [w_cursor EXCEPT ![p] = After(rear)]
            /\ message' = [message EXCEPT ![p] = next]
            /\ waiting' = waiting \cup {p}
            /\ Goto(p, "full")
            /\ UNCHANGED <<data, rear, accepted>>
  /\ UNCHANGED <<alive, front, popped, freed>>

\* The wait is over and the mutex taken again: w_cursor is still the cursor of
\* before the wait.  A thread whose queue was freed meanwhile has undefined
\* behaviour, and takes no step.
PushAgain(p) ==
  /\ alive /\ pc[p] = "full" /\ p \notin waiting
  /\ IF w_cursor[p] # front
       THEN Store(p, message[p], w_cursor[p])
       ELSE /\ message' = [message EXCEPT ![p] = 0]
            /\ Goto(p, "idle")
            /\ UNCHANGED <<data, rear, accepted>>
  /\ UNCHANGED <<alive, front, waiting, w_cursor, next, popped, freed>>

\* *pdata = data[front]; front = (front + 1) % length; unlock.
TakeOut(c) ==
  /\ popped' = popped \cup {data[front]}
  /\ front' = After(front)
  /\ Goto(c, "signal")

Pop(c) ==
  /\ alive /\ pc[c] = "idle"
  /\ IF front # rear
       THEN TakeOut(c) /\ UNCHANGED waiting
       ELSE /\ waiting' = waiting \cup {c}
            /\ Goto(c, "empty")
            /\ UNCHANGED <<front, popped>>
  /\ UNCHANGED <<alive, rear, data, local, accepted, freed>>

PopAgain(c) ==
  /\ alive /\ pc[c] = "empty" /\ c \notin waiting
  /\ IF front # rear
       THEN TakeOut(c)
       ELSE Goto(c, "idle") /\ UNCHANGED <<front, popped>>
  /\ UNCHANGED <<alive, rear, data, waiting, local, accepted, freed>>

\* pthread_cond_signal wakes one of the waiting threads, whichever it waits
\* for; without one it does nothing.
SignalNobody(t) ==                                              \* mutant
  /\ alive /\ pc[t] = "signal"
  /\ Goto(t, "idle")
  /\ UNCHANGED <<alive, front, rear, data, waiting, local, history>>
Signal(t) ==
  /\ alive /\ pc[t] = "signal"
  /\ \/ waiting = {} /\ UNCHANGED waiting
     \/ \E u \in waiting : waiting' = waiting \ {u}
  /\ Goto(t, "idle")
  /\ UNCHANGED <<alive, front, rear, data, local, history>>

\* POSIX lets pthread_cond_wait return without a signal.
SpuriousWakeup ==
  /\ \E t \in waiting : waiting' = waiting \ {t}
  /\ UNCHANGED <<alive, front, rear, data, pc, local, history>>

\* destroy_simple_queue, without the mutex: the broadcast, then the loop that
\* frees the messages that are left, then the queue.
DestroyKeepsOne ==                                              \* mutant
  /\ alive
  /\ DestroyAlone => \A t \in Thread : pc[t] = "idle"
  /\ alive' = FALSE
  /\ waiting' = {}
  /\ freed' = IF Held > 1 THEN freed \cup ToSet(Tail(Content)) ELSE freed
  /\ front' = rear
  /\ UNCHANGED <<rear, data, pc, local, accepted, popped>>
Destroy ==
  /\ alive
  /\ DestroyAlone => \A t \in Thread : pc[t] = "idle"
  /\ alive' = FALSE
  /\ waiting' = {}
  /\ freed' = freed \cup ToSet(Content)
  /\ front' = rear
  /\ UNCHANGED <<rear, data, pc, local, accepted, popped>>

Next == \/ Create \/ Destroy \/ SpuriousWakeup
        \/ \E p \in Producer : Push(p) \/ PushAgain(p)
        \/ \E c \in Consumer : Pop(c) \/ PopAgain(c)
        \/ \E t \in Thread : Signal(t)

Spec == Init /\ [][Next]_vars

\* A thread that has been woken goes on, and one that has unlocked signals.
\* Nobody need call.
Fairness == /\ \A p \in Producer : WF_vars(PushAgain(p) \/ Signal(p))
            /\ \A c \in Consumer : WF_vars(PopAgain(c) \/ Signal(c))
FairSpec == Spec /\ Fairness
-----------------------------------------------------------------------------
TypeOK ==
  /\ alive \in BOOLEAN
  /\ front \in Cursor /\ rear \in Cursor
  /\ data \in [Cursor -> Message \cup {Garbage}]
  /\ waiting \subseteq Thread
  /\ \A p \in Producer : pc[p] \in {"idle", "full", "signal"}
  /\ \A c \in Consumer : pc[c] \in {"idle", "empty", "signal"}
  /\ \A t \in waiting : pc[t] \in {"full", "empty"}
  /\ w_cursor \in [Producer -> Cursor]
  /\ message \in [Producer -> Message \cup {0}]
  /\ next \in 1 .. MaxMessage + 1
  /\ accepted \cup freed \subseteq Message

\* A message whose push returned CNTL_QUEUE_SUCCESS is in the queue, was popped
\* or was freed with the queue: none is lost (simple_queue.h:97, "0 Success").
NothingLost == accepted \subseteq ToSet(Content) \cup popped \cup freed

\* No message is handed out and freed as well, nor handed out while it is still
\* in the queue, and nothing is handed out that was not pushed: each buffer has
\* one owner (simple_queue.c:146-147 and 168-172).
OneOwner ==
  /\ popped \cup freed \subseteq accepted
  /\ popped \cap freed = {}
  /\ (popped \cup freed) \cap ToSet(Content) = {}

\* Refinement: with one producer the ring is a FIFO of Length - 1 messages.
Fifo == INSTANCE BoundedFifo WITH
          Capacity <- Length - 1, live <- alive,
          fifo <- IF alive THEN Content ELSE <<>>
RefinesFifo == Fifo!Spec

\* A consumer that waits does not do so for ever while messages are there
\* (simple_queue.c:135-139).
PopWakes ==
  \A c \in Consumer : c \in waiting /\ front # rear ~> c \notin waiting \/ front = rear

\* ... nor does a producer while there is room (simple_queue.c:109-113).
PushWakes ==
  \A p \in Producer :
    p \in waiting /\ After(rear) # front ~> p \notin waiting \/ After(rear) = front
=============================================================================
