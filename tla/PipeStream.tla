----------------------------- MODULE PipeStream -----------------------------
(***************************************************************************)
(* What a pipe of src/linux-coding-c/log promises its callers, with no     *)
(* ring, no mutex and no counters: a bounded byte stream.  A call is       *)
(* requested, takes effect at one instant and has returned at that         *)
(* instant.  Pipe.tla implements this module.                              *)
(***************************************************************************)
EXTENDS Integers, Sequences

CONSTANTS Thread,     \* the threads that use the pipe
          Byte,       \* the values a byte can have
          Size,       \* the bytes the pipe can hold
          Data,       \* the byte sequences a caller may write
          ReadArg     \* the arguments a caller may give a read

VARIABLES state,      \* "closed" or "open"
          lossy,      \* a full pipe forgets its oldest bytes for new ones
          content,    \* the bytes in the pipe, oldest first
          op,         \* the call each thread has pending, or "none"
          arg,        \* its argument
          ret         \* what the last call of each thread returned

vars == <<state, lossy, content, op, arg, ret>>

NoResult == [code |-> 0, data |-> <<>>]
Result(code, data) == [code |-> code, data |-> data]

\* The last n elements of s, all of it when it is shorter.
Newest(s, n) == IF Len(s) <= n THEN s ELSE SubSeq(s, Len(s) - n + 1, Len(s))

Init == /\ state = "closed"
        /\ lossy = FALSE
        /\ content = <<>>
        /\ op = [t \in Thread |-> "none"]
        /\ arg = [t \in Thread |-> <<>>]
        /\ ret = [t \in Thread |-> NoResult]

Open == /\ state = "closed"
        /\ state' = "open"
        /\ content' = <<>>
        /\ lossy' = FALSE
        /\ UNCHANGED <<op, arg, ret>>

\* The bytes nobody has read go with the pipe.
Close == /\ state = "open"
         /\ state' = "closed"
         /\ content' = <<>>
         /\ lossy' = FALSE
         /\ UNCHANGED <<op, arg, ret>>

SetLossy == /\ state = "open"
            /\ lossy' \in BOOLEAN
            /\ UNCHANGED <<state, content, op, arg, ret>>

Request(t) == /\ op[t] = "none"
              /\ \/ \E o \in {"read", "peek"}, a \in ReadArg :
                      /\ op' = [op EXCEPT ![t] = o]
                      /\ arg' = [arg EXCEPT ![t] = a]
                 \/ \E d \in Data :
                      /\ op' = [op EXCEPT ![t] = "write"]
                      /\ arg' = [arg EXCEPT ![t] = d]
              /\ ret' = [ret EXCEPT ![t] = NoResult]
              /\ UNCHANGED <<state, lossy, content>>

Return(t, r) == /\ op' = [op EXCEPT ![t] = "none"]
                /\ arg' = [arg EXCEPT ![t] = <<>>]
                /\ ret' = [ret EXCEPT ![t] = r]

\* A call that transfers nothing: closed, stopped, timed out, empty or full.
Refuse(t) == /\ op[t] # "none"
             /\ \E code \in -5 .. 0 : Return(t, Result(code, <<>>))
             /\ UNCHANGED <<state, lossy, content>>

\* A read takes the oldest bytes, in order, and only a peek leaves them.
Read(t) == /\ op[t] \in {"read", "peek"}
           /\ \E n \in 0 .. Len(content) :
                /\ n <= arg[t].size
                /\ Return(t, Result(n, SubSeq(content, 1, n)))
                /\ content' = IF op[t] = "peek" THEN content
                              ELSE SubSeq(content, n + 1, Len(content))
           /\ UNCHANGED <<state, lossy>>

\* A write adds as many bytes as there is room for; a lossy pipe adds them
\* all and keeps the newest Size bytes.
Write(t) ==
  /\ op[t] = "write"
  /\ LET d    == arg[t]
         free == Size - Len(content)
         n    == IF lossy \/ Len(d) <= free THEN Len(d) ELSE free
     IN  /\ n > 0
         /\ content' = Newest(content \o SubSeq(d, 1, n), Size)
         /\ Return(t, Result(n, <<>>))
  /\ UNCHANGED <<state, lossy>>

Next == \/ Open \/ Close \/ SetLossy
        \/ \E t \in Thread : Request(t) \/ Refuse(t) \/ Read(t) \/ Write(t)

Spec == Init /\ [][Next]_vars
=============================================================================
