-------------------------------- MODULE Pipe --------------------------------
(***************************************************************************)
(* The byte pipe of src/linux-coding-c/log/src/pipe.c: a ring buffer under *)
(* a mutex.  A call checks `opened` without the mutex, then takes the      *)
(* mutex and counts itself in `user`; every wait inside the call is a      *)
(* sleep that KEEPS the mutex, so a waiting thread is simply one that      *)
(* holds the mutex and has no step enabled.  pipe_close and the stop       *)
(* functions never take the mutex.                                         *)
(*                                                                         *)
(* No caller in the repository writes more than the pipe's size at once    *)
(* (1 MB pipes, lines of at most 32 KB), which DataAssumption states.   *)
(***************************************************************************)
EXTENDS Integers, Sequences

CONSTANTS Thread, Byte, Size, Data, ReadArg,
          Sync,         \* how pipe_open is called: may the pipe block?
          Setters,      \* the setters that the caller's threads use
          Disciplined   \* TRUE: the caller's threads begin no call once
                        \* one of them closes the pipe, and none closes it
                        \* while another is still before the mutex

ASSUME SizeAssumption == Size \in Nat \ {0}
ASSUME DataAssumption == \A d \in Data : d \in Seq(Byte) /\ Len(d) <= Size
ASSUME ReadArgAssumption == ReadArg \subseteq [size : Nat, least : Nat, bunch : Nat]
ASSUME ModeAssumption == Sync \in BOOLEAN /\ Disciplined \in BOOLEAN

VARIABLES
  opened, stop_read, stop_write, loop_overwrite,
  user, bytes, read_ptr, write_ptr,
  buffer,          \* the malloc'ed ring; its bytes are Byte
  allocated,       \* the buffer exists: malloc returned it, free has not
  read_timeout, write_timeout,   \* a timeout other than 0 (forever) is set
  mutex,           \* the thread that holds it, or NoThread
  pc,              \* where each thread is
  op, arg, ret     \* its call, the argument, and what the last one returned

flags == <<opened, stop_read, stop_write, loop_overwrite, read_timeout, write_timeout>>
ring  == <<bytes, read_ptr, write_ptr, buffer>>
vars  == <<flags, ring, user, allocated, mutex, pc, op, arg, ret>>

NoThread == "none"
ASSUME ThreadAssumption == NoThread \notin Thread

ERR_NOT_OPENED == -1
ERR_WRITE_STOPPED == -3
ERR_READ_STOPPED == -4
ERR_SYNC_TIMEOUT == -5

Slot == 0 .. Size - 1
Smaller(m, n) == IF m <= n THEN m ELSE n
Wrap(i) == IF i >= Size THEN i - Size ELSE i
RoundDown(n, unit) == n - (n % unit)
NoResult == [code |-> 0, data |-> <<>>]

-----------------------------------------------------------------------------
\* pipe_init: memset(p, 0).  A zeroed mutex is an unlocked one.
Zeroed == /\ stop_read' = FALSE /\ stop_write' = FALSE
          /\ loop_overwrite' = FALSE
          /\ read_timeout' = FALSE /\ write_timeout' = FALSE
          /\ user' = 0 /\ bytes' = 0 /\ read_ptr' = 0 /\ write_ptr' = 0
          /\ mutex' = NoThread

Init == /\ opened = FALSE /\ stop_read = FALSE /\ stop_write = FALSE
        /\ loop_overwrite = FALSE
        /\ read_timeout = FALSE /\ write_timeout = FALSE
        /\ user = 0 /\ bytes = 0 /\ read_ptr = 0 /\ write_ptr = 0
        /\ buffer \in [Slot -> Byte]
        /\ allocated = FALSE
        /\ mutex = NoThread
        /\ pc = [t \in Thread |-> "idle"]
        /\ op = [t \in Thread |-> "none"]
        /\ arg = [t \in Thread |-> <<>>]
        /\ ret = [t \in Thread |-> NoResult]

Goto(t, label) == pc' = [pc EXCEPT ![t] = label]

\* Every caller in the repository has pipe_open return before it lets another
\* thread see the pipe.
Opening == \E t \in Thread : pc[t] = "opening"
Closing == \E t \in Thread : pc[t] \in {"closing", "closed", "freeing"}

\* pipe_open publishes `opened` ...
OpenBegin(t) ==
  /\ pc[t] = "idle" /\ ~opened
  /\ IF Disciplined THEN \A u \in Thread : pc[u] = "idle" ELSE ~Opening /\ ~Closing
  /\ Zeroed
  /\ opened' = TRUE
  /\ Goto(t, "opening")
  /\ UNCHANGED <<buffer, allocated, op, arg, ret>>

\* ... before malloc has returned the buffer, or has failed.
OpenEnd(t) ==
  /\ pc[t] = "opening"
  /\ Goto(t, "idle")
  /\ \/ /\ allocated' = TRUE
        /\ UNCHANGED <<flags, ring, user, mutex>>
     \/ /\ Zeroed
        /\ opened' = FALSE
        /\ UNCHANGED <<buffer, allocated>>
  /\ UNCHANGED <<op, arg, ret>>

\* pipe_close: the stop flags, the wait for `user`, `opened`, then the buffer.
CloseBegin(t) ==
  /\ pc[t] = "idle" /\ opened
  /\ ~Opening /\ ~Closing
  /\ Disciplined => \A u \in Thread : pc[u] # "enter"
  /\ stop_read' = TRUE /\ stop_write' = TRUE
  /\ Goto(t, "closing")
  /\ UNCHANGED <<opened, loop_overwrite, read_timeout, write_timeout, ring,
                 user, allocated, mutex, op, arg, ret>>

CloseNoWait(t) ==                                               \* mutant
  /\ pc[t] = "closing"
  /\ Goto(t, "closed")
  /\ UNCHANGED <<flags, ring, user, allocated, mutex, op, arg, ret>>
CloseNoUser(t) ==
  /\ pc[t] = "closing" /\ user = 0
  /\ Goto(t, "closed")
  /\ UNCHANGED <<flags, ring, user, allocated, mutex, op, arg, ret>>

CloseMark(t) ==
  /\ pc[t] = "closed"
  /\ opened' = FALSE
  /\ Goto(t, "freeing")
  /\ UNCHANGED <<stop_read, stop_write, loop_overwrite, read_timeout,
                 write_timeout, ring, user, allocated, mutex, op, arg, ret>>

CloseFree(t) ==
  /\ pc[t] = "freeing"
  /\ Zeroed
  /\ opened' = FALSE
  /\ allocated' = FALSE
  /\ Goto(t, "idle")
  /\ UNCHANGED <<buffer, op, arg, ret>>
-----------------------------------------------------------------------------
\* A call of pipe_read, pipe_peek or pipe_write, up to its check of `opened`.
Return(t, code, data) ==
  /\ Goto(t, "idle")
  /\ op' = [op EXCEPT ![t] = "none"]
  /\ arg' = [arg EXCEPT ![t] = <<>>]
  /\ ret' = [ret EXCEPT ![t] = [code |-> code, data |-> data]]

Call(t) ==
  /\ pc[t] = "idle" /\ ~Opening
  /\ Disciplined => ~Closing
  /\ \/ \E o \in {"read", "peek"}, a \in ReadArg :
          op' = [op EXCEPT ![t] = o] /\ arg' = [arg EXCEPT ![t] = a]
     \/ \E d \in Data :
          op' = [op EXCEPT ![t] = "write"] /\ arg' = [arg EXCEPT ![t] = d]
  /\ Goto(t, IF opened THEN "enter" ELSE "refused")
  /\ ret' = [ret EXCEPT ![t] = NoResult]
  /\ UNCHANGED <<flags, ring, user, allocated, mutex>>

NotOpened(t) ==
  /\ pc[t] = "refused"
  /\ Return(t, ERR_NOT_OPENED, <<>>)
  /\ UNCHANGED <<flags, ring, user, allocated, mutex>>

Lock(t) ==
  /\ pc[t] = "enter" /\ mutex = NoThread
  /\ mutex' = t
  /\ user' = user + 1
  /\ Goto(t, "locked")
  /\ UNCHANGED <<flags, ring, allocated, op, arg, ret>>

\* user--, unlock and return.  A thread under which the pipe was closed has
\* undefined behaviour, and takes no step.
Holds(t, ops) == pc[t] = "locked" /\ op[t] \in ops /\ allocated

LeaveWith(t, code, data) ==
  /\ user' = user - 1
  /\ mutex' = NoThread
  /\ Return(t, code, data)
  /\ UNCHANGED <<flags, allocated>>

\* The returns of pipe_read and pipe_peek that transfer nothing.
ReadNothingNoTimeout(t) ==                                      \* mutant
  /\ Holds(t, {"read", "peek"})
  /\ bytes = 0
  /\ \/ stop_write /\ LeaveWith(t, ERR_WRITE_STOPPED, <<>>)
     \/ ~stop_write /\ ~Sync /\ LeaveWith(t, 0, <<>>)
  /\ UNCHANGED ring
ReadNothingNoStop(t) ==                                         \* mutant
  /\ Holds(t, {"read", "peek"})
  /\ bytes = 0
  /\ \/ ~Sync /\ LeaveWith(t, 0, <<>>)
     \/ Sync /\ read_timeout /\ LeaveWith(t, ERR_SYNC_TIMEOUT, <<>>)
  /\ UNCHANGED ring
ReadNothing(t) ==
  /\ Holds(t, {"read", "peek"})
  /\ bytes = 0
  /\ \/ stop_write /\ LeaveWith(t, ERR_WRITE_STOPPED, <<>>)
     \/ ~stop_write /\ ~Sync /\ LeaveWith(t, 0, <<>>)
     \/ Sync /\ ~stop_write /\ read_timeout /\ LeaveWith(t, ERR_SYNC_TIMEOUT, <<>>)
  /\ UNCHANGED ring

Unit(a) == IF a.bunch < 1 THEN 1 ELSE a.bunch
Least(a) == LET l == RoundDown(a.least, Unit(a)) IN IF l < Unit(a) THEN Unit(a) ELSE l

TakePeeking(t, n) == /\ read_ptr' = Wrap(read_ptr + n)          \* mutant
                     /\ bytes' = IF op[t] = "peek" THEN bytes ELSE bytes - n
Take(t, n) == IF op[t] = "peek" THEN UNCHANGED <<read_ptr, bytes>>
              ELSE /\ read_ptr' = Wrap(read_ptr + n)
                   /\ bytes' = bytes - n

ReadData(t) ==
  /\ Holds(t, {"read", "peek"})
  /\ bytes > 0
  /\ bytes >= Least(arg[t]) \/ stop_write
  /\ LET n    == RoundDown(Smaller(arg[t].size, bytes), Unit(arg[t]))
         data == [i \in 1 .. n |-> buffer[Wrap(read_ptr + (i - 1))]]
     IN  /\ LeaveWith(t, n, data)
         /\ Take(t, n)
  /\ UNCHANGED <<write_ptr, buffer>>

\* The returns of pipe_write that transfer nothing.
WriteNothing(t) ==
  /\ Holds(t, {"write"})
  /\ \/ stop_read /\ LeaveWith(t, ERR_READ_STOPPED, <<>>)
     \/ ~stop_read /\ Len(arg[t]) = 0 /\ LeaveWith(t, 0, <<>>)
     \/ /\ ~stop_read /\ Len(arg[t]) > 0 /\ bytes = Size
        /\ \/ Sync /\ write_timeout /\ LeaveWith(t, ERR_SYNC_TIMEOUT, <<>>)
           \/ ~Sync /\ ~loop_overwrite /\ LeaveWith(t, 0, <<>>)
  /\ UNCHANGED ring

Overwriting == loop_overwrite /\ ~Sync
\* How many of the oldest bytes a write of len bytes drops.
OverwrittenAll(len) ==                                          \* mutant
  IF Overwriting /\ len > Size - bytes THEN Smaller(len, bytes) ELSE 0
Overwritten(len) == IF Overwriting /\ len > Size - bytes THEN len - (Size - bytes) ELSE 0

\* The bytes of the ring that a copy of len bytes to write_ptr covers, and
\* the place in the copy each comes from.
Distance(i) == IF i >= write_ptr THEN i - write_ptr ELSE i + Size - write_ptr

WriteData(t) ==
  /\ Holds(t, {"write"})
  /\ ~stop_read /\ Len(arg[t]) > 0
  /\ bytes < Size \/ Overwriting
  /\ LET drop == Overwritten(Len(arg[t]))
         n    == Smaller(Len(arg[t]), Size - (bytes - drop))
     IN  /\ read_ptr' = Wrap(read_ptr + drop)
         /\ bytes' = (bytes - drop) + n
         /\ write_ptr' = Wrap(write_ptr + n)
         /\ buffer' = [i \in Slot |-> IF Distance(i) < n THEN arg[t][Distance(i) + 1]
                                      ELSE buffer[i]]
         /\ LeaveWith(t, n, <<>>)
-----------------------------------------------------------------------------
\* The setters: they check `opened` and write their flag without the mutex.
StopRead == /\ stop_read' = TRUE
            /\ UNCHANGED <<stop_write, loop_overwrite, read_timeout, write_timeout>>
StopWrite == /\ stop_write' = TRUE
             /\ UNCHANGED <<stop_read, loop_overwrite, read_timeout, write_timeout>>
SetSyncTimeout == /\ read_timeout' \in BOOLEAN /\ write_timeout' \in BOOLEAN
                  /\ UNCHANGED <<stop_read, stop_write, loop_overwrite>>
SetLoopOverwrite == /\ ~Sync
                    /\ loop_overwrite' \in BOOLEAN
                    /\ UNCHANGED <<stop_read, stop_write, read_timeout, write_timeout>>
Set == /\ opened
       /\ ~Opening
       /\ Disciplined => ~Closing
       /\ \/ "stop_read" \in Setters /\ StopRead
          \/ "stop_write" \in Setters /\ StopWrite
          \/ "sync_timeout" \in Setters /\ SetSyncTimeout
          \/ "loop_overwrite" \in Setters /\ SetLoopOverwrite
       /\ UNCHANGED <<opened, ring, user, allocated, mutex, pc, op, arg, ret>>

Leave(t) == \/ ReadNothing(t) \/ ReadData(t)
            \/ WriteNothing(t) \/ WriteData(t)
CloseStep(t) == CloseNoUser(t) \/ CloseMark(t) \/ CloseFree(t)

Next == \/ \E t \in Thread : \/ OpenBegin(t) \/ OpenEnd(t)
                             \/ CloseBegin(t) \/ CloseStep(t)
                             \/ Call(t) \/ NotOpened(t) \/ Lock(t) \/ Leave(t)
        \/ Set

Spec == Init /\ [][Next]_vars

\* A thread inside a call goes on with it, and a mutex that is free again
\* and again is granted to whoever waits for it in the end.
Fairness == \A t \in Thread : /\ WF_vars(OpenEnd(t))
                              /\ WF_vars(CloseStep(t))
                              /\ WF_vars(NotOpened(t))
                              /\ WF_vars(Leave(t))
                              /\ SF_vars(Lock(t))
FairSpec == Spec /\ Fairness
-----------------------------------------------------------------------------
Op == {"none", "read", "peek", "write"}
Location == {"idle", "opening", "closing", "closed", "freeing", "refused",
             "enter", "locked"}

TypeOK ==
  /\ opened \in BOOLEAN /\ stop_read \in BOOLEAN /\ stop_write \in BOOLEAN
  /\ loop_overwrite \in BOOLEAN /\ allocated \in BOOLEAN
  /\ read_timeout \in BOOLEAN /\ write_timeout \in BOOLEAN
  /\ user \in Nat
  /\ bytes \in 0 .. Size /\ read_ptr \in Slot /\ write_ptr \in Slot
  /\ buffer \in [Slot -> Byte]
  /\ mutex \in Thread \cup {NoThread}
  /\ pc \in [Thread -> Location]
  /\ op \in [Thread -> Op] /\ DOMAIN arg = Thread
  /\ \A t \in Thread : op[t] \in {"read", "peek"} => arg[t] \in ReadArg
  /\ \A t \in Thread : op[t] = "write" => arg[t] \in Data

\* The three numbers of the ring agree: the bytes end where the next write
\* begins, across the wrap of either pointer (pipe.c keeps them separately).
RingInv == write_ptr = Wrap(read_ptr + bytes)

\* `user` counts the thread inside the mutex and no other: a thread waiting
\* for the mutex, past its check of `opened`, is not counted (pipe.c:74).
UserCountsHolder == user = IF mutex = NoThread THEN 0 ELSE 1

\* A thread between lock and unlock keeps the mutex and the buffer until it
\* leaves: neither pipe_open, before malloc has returned, nor pipe_close takes
\* them from it (pipe.c:53-59; pipe.c:78, "set close first, then free buffer").
NoUseAfterClose == \A t \in Thread : pc[t] = "locked" => mutex = t /\ allocated

\* The bytes in the pipe, oldest first, as the ring holds them.
Content == [i \in 1 .. bytes |-> buffer[Wrap(read_ptr + (i - 1))]]

Stream == INSTANCE PipeStream WITH
            state <- IF opened THEN "open" ELSE "closed",
            lossy <- opened /\ Overwriting,
            content <- IF opened THEN Content ELSE <<>>

\* Refinement: whatever the order of the threads, the ring behaves as one
\* bounded stream of bytes, first in first out, that drops only the oldest
\* bytes and only to make room in overwrite mode (pipe.c:336).
RefinesStream == Stream!Spec

\* A call on a pipe that does not block, or whose waits have timeouts,
\* returns, as long as that stays so (pipe.c:22; pipe.h, pipe_set_sync_timeout).
MayWaitForever == Sync /\ ~(read_timeout /\ write_timeout)
CallsReturn ==
  \A t \in Thread : op[t] # "none" /\ ~MayWaitForever ~> op[t] = "none" \/ MayWaitForever

\* pipe_close returns even when a thread is blocked in a synchronous read or
\* write, holding the mutex: the stop flags it sets without the mutex end
\* that wait (pipe.c:72-76).
CloseReturns ==
  \A t \in Thread : pc[t] = "closing" ~> pc[t] = "idle"
=============================================================================
