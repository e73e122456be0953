----------------------------- MODULE PipeProofs -----------------------------
(***************************************************************************)
(* Proofs about Pipe, for any number of threads, any ring size and any     *)
(* data, under the callers' discipline (Disciplined) that the log library  *)
(* keeps.                                                                  *)
(*                                                                         *)
(* The invariants of Pipe are not inductive one by one: `user` is right    *)
(* only because the mutex has at most one holder, and closing is safe only *)
(* because of what every other thread may be doing at each of its steps.   *)
(* PhaseInv says that, and IInv is the whole.                              *)
(***************************************************************************)
EXTENDS Pipe, SequenceTheorems, TLAPS

\* What the other threads may be doing while t is where it is.
OthersIn(t, locations) == \A u \in Thread \ {t} : pc[u] \in locations

HolderInv == \A t \in Thread : pc[t] = "locked" <=> mutex = t

PhaseInv ==
  \A t \in Thread :
    /\ pc[t] = "opening" => opened /\ OthersIn(t, {"idle"})
    /\ pc[t] = "closing" => opened /\ OthersIn(t, {"idle", "locked"})
    /\ pc[t] \in {"closed", "freeing"} => OthersIn(t, {"idle"})
    /\ pc[t] \in {"enter", "locked", "closing", "closed"} => opened /\ allocated
    /\ pc[t] \in {"refused", "freeing"} => ~opened
    /\ pc[t] \in {"idle", "opening", "closing", "closed", "freeing"} <=> op[t] = "none"

BufferInv == opened => allocated \/ Opening

IInv == TypeOK /\ RingInv /\ UserCountsHolder /\ HolderInv /\ PhaseInv /\ BufferInv

\* Rounding down to a unit, as pipe_read does for bunch, stays within bounds.
LEMMA RoundDownBounds ==
  ASSUME NEW n \in Nat, NEW unit \in Nat, unit > 0
  PROVE  RoundDown(n, unit) \in 0 .. n
<1>1. n % unit \in 0 .. unit - 1
  OBVIOUS
<1>2. n = unit * (n \div unit) + (n % unit) /\ n \div unit \in Nat
  OBVIOUS
<1>3. unit * (n \div unit) >= 0
  BY <1>2
<1> QED BY <1>1, <1>2, <1>3 DEF RoundDown

\* An emptied pipe is a well-formed ring.
LEMMA ZeroedRing ==
  ASSUME Zeroed
  PROVE  /\ bytes' \in 0 .. Size /\ read_ptr' \in Slot /\ write_ptr' \in Slot
         /\ RingInv'
         /\ user' = 0 /\ mutex' = NoThread
         /\ stop_read' \in BOOLEAN /\ stop_write' \in BOOLEAN
         /\ loop_overwrite' \in BOOLEAN
         /\ read_timeout' \in BOOLEAN /\ write_timeout' \in BOOLEAN
<1>1. /\ bytes' \in 0 .. Size /\ read_ptr' \in Slot /\ write_ptr' \in Slot
  BY SizeAssumption DEF Zeroed, Slot
<1>2. RingInv'
  BY SizeAssumption DEF Zeroed, RingInv, Wrap
<1> QED BY <1>1, <1>2 DEF Zeroed

\* A step that empties the pipe and leaves the calls alone keeps the types.
LEMMA ZeroedTypes ==
  ASSUME TypeOK, Zeroed, opened' \in BOOLEAN, allocated' \in BOOLEAN,
         pc' \in [Thread -> Location], UNCHANGED <<buffer, op, arg>>
  PROVE  TypeOK' /\ RingInv'
<1>1. /\ bytes' \in 0 .. Size /\ read_ptr' \in Slot /\ write_ptr' \in Slot
      /\ RingInv'
      /\ user' = 0 /\ mutex' = NoThread
      /\ stop_read' \in BOOLEAN /\ stop_write' \in BOOLEAN
      /\ loop_overwrite' \in BOOLEAN
      /\ read_timeout' \in BOOLEAN /\ write_timeout' \in BOOLEAN
  BY ZeroedRing
<1>2. /\ buffer' \in [Slot -> Byte]
      /\ op' \in [Thread -> Op] /\ DOMAIN arg' = Thread
  BY DEF TypeOK
<1>3. /\ \A t \in Thread : op'[t] \in {"read", "peek"} => arg'[t] \in ReadArg
      /\ \A t \in Thread : op'[t] = "write" => arg'[t] \in Data
  BY DEF TypeOK
<1>4. user' \in Nat /\ mutex' \in Thread \cup {NoThread}
  BY <1>1
<1> QED BY <1>1, <1>2, <1>3, <1>4, Zenon DEF TypeOK

\* A pipe nobody has opened satisfies the inductive invariant.
LEMMA InitIInv == Init => IInv
<1> SUFFICES ASSUME Init PROVE IInv
  OBVIOUS
<1>1. TypeOK
  <2>1. 0 \in 0 .. Size /\ 0 \in Slot /\ 0 \in Nat
    BY SizeAssumption DEF Slot
  <2> QED BY <2>1 DEF Init, TypeOK, Op, Location
<1>2. RingInv
  BY SizeAssumption DEF Init, RingInv, Wrap
<1>3. UserCountsHolder /\ HolderInv
  BY ThreadAssumption DEF Init, UserCountsHolder, HolderInv
<1>4. PhaseInv /\ BufferInv
  BY DEF Init, PhaseInv, BufferInv, OthersIn
<1> QED BY <1>1, <1>2, <1>3, <1>4 DEF IInv

\* A read takes at most what is there.
LEMMA ReadDataRing ==
  ASSUME TypeOK, RingInv, NEW t \in Thread, ReadData(t)
  PROVE  /\ bytes' \in 0 .. Size /\ read_ptr' \in Slot /\ write_ptr' \in Slot
         /\ buffer' \in [Slot -> Byte]
         /\ RingInv'
<1> DEFINE unit == Unit(arg[t])
           m    == Smaller(arg[t].size, bytes)
           n    == RoundDown(m, unit)
<1>1. arg[t] \in [size : Nat, least : Nat, bunch : Nat]
  BY ReadArgAssumption DEF ReadData, Holds, TypeOK
<1>2. unit \in Nat /\ unit > 0
  BY <1>1 DEF Unit
<1>3. m \in 0 .. bytes
  BY <1>1 DEF Smaller, TypeOK
<1>4. n \in 0 .. m
  BY <1>2, <1>3, RoundDownBounds DEF TypeOK
<1>5. n \in 0 .. bytes
  BY <1>3, <1>4 DEF TypeOK
<1> HIDE DEF n
<1>6. UNCHANGED <<write_ptr, buffer>> /\ Take(t, n)
  BY DEF ReadData, n
<1> QED BY <1>5, <1>6, SizeAssumption DEF Take, TypeOK, RingInv, Slot, Wrap

\* A write adds at most what there is room for, once the overwritten bytes
\* are gone.
LEMMA WriteDataRing ==
  ASSUME TypeOK, RingInv, NEW t \in Thread, WriteData(t)
  PROVE  /\ bytes' \in 0 .. Size /\ read_ptr' \in Slot /\ write_ptr' \in Slot
         /\ buffer' \in [Slot -> Byte]
         /\ RingInv'
<1> DEFINE len  == Len(arg[t])
           drop == Overwritten(len)
           n    == Smaller(len, Size - (bytes - drop))
<1>1. arg[t] \in Seq(Byte) /\ len \in 1 .. Size
  BY DataAssumption, SizeAssumption DEF WriteData, Holds, TypeOK
<1>2. drop \in 0 .. bytes
  BY <1>1, SizeAssumption DEF Overwritten, TypeOK
<1>3. n \in 0 .. len /\ (bytes - drop) + n \in 0 .. Size
  BY <1>1, <1>2, SizeAssumption DEF Smaller, TypeOK
<1>4. \A i \in Slot : Distance(i) \in Nat
  BY SizeAssumption DEF Distance, Slot, TypeOK
<1>5. \A i \in Slot : Distance(i) < n => arg[t][Distance(i) + 1] \in Byte
  BY <1>1, <1>3, <1>4, SizeAssumption
<1>6. buffer' \in [Slot -> Byte]
  BY <1>5 DEF WriteData, TypeOK
<1> HIDE DEF n, drop, len
<1>7. /\ read_ptr' = Wrap(read_ptr + drop)
      /\ bytes' = (bytes - drop) + n
      /\ write_ptr' = Wrap(write_ptr + n)
  BY DEF WriteData, n, drop, len
<1> QED BY <1>1, <1>2, <1>3, <1>6, <1>7, SizeAssumption DEF TypeOK, RingInv, Slot, Wrap

\* Every step of a disciplined caller, of a call and of a setter keeps it.
LEMMA NextIInv ==
  ASSUME Disciplined, IInv, [Next]_vars
  PROVE  IInv'
<1> USE DEF IInv, TypeOK, UserCountsHolder, HolderInv, PhaseInv, BufferInv,
            OthersIn, Opening, Closing, Location, Op, NoThread
<1> USE ThreadAssumption, SizeAssumption
<1>1. ASSUME NEW t \in Thread, OpenBegin(t) PROVE IInv'
  <2>1. TypeOK' /\ RingInv'
    BY <1>1, ZeroedRing DEF OpenBegin, Goto
  <2>2. UserCountsHolder' /\ HolderInv'
    BY <1>1, ZeroedRing DEF OpenBegin, Goto
  <2>3. PhaseInv' /\ BufferInv'
    BY <1>1 DEF OpenBegin, Goto
  <2> QED BY <2>1, <2>2, <2>3
<1>2. ASSUME NEW t \in Thread, OpenEnd(t) PROVE IInv'
  <2>1. mutex = NoThread /\ user = 0 /\ OthersIn(t, {"idle"}) /\ opened
    BY <1>2 DEF OpenEnd
  <2>2. pc' = [pc EXCEPT ![t] = "idle"] /\ UNCHANGED <<buffer, op, arg, ret>>
    BY <1>2 DEF OpenEnd, Goto, ring
  <2>3. CASE allocated' = TRUE /\ UNCHANGED <<flags, ring, user, mutex>>
    BY <1>2, <2>1, <2>2, <2>3 DEF OpenEnd, RingInv, flags, ring
  <2>4. CASE Zeroed /\ opened' = FALSE /\ UNCHANGED <<buffer, allocated>>
    <3>0. /\ bytes' \in 0 .. Size /\ read_ptr' \in Slot /\ write_ptr' \in Slot
          /\ RingInv'
          /\ user' = 0 /\ mutex' = NoThread
          /\ stop_read' \in BOOLEAN /\ stop_write' \in BOOLEAN
          /\ loop_overwrite' \in BOOLEAN
          /\ read_timeout' \in BOOLEAN /\ write_timeout' \in BOOLEAN
      BY <2>4, ZeroedRing
    <3>4. pc' \in [Thread -> Location]
      BY <2>2
    <3>5. buffer' = buffer /\ op' = op /\ arg' = arg /\ allocated' = allocated
      BY <2>2, <2>4
    <3>1. TypeOK'
      BY <2>4, <3>4, <3>5, ZeroedTypes
    <3>2. UserCountsHolder' /\ HolderInv' /\ BufferInv'
      BY <2>1, <2>2, <2>4, <3>0
    <3>3. PhaseInv'
      BY <1>2, <2>1, <2>2, <2>4 DEF OpenEnd
    <3> QED BY <3>0, <3>1, <3>2, <3>3
  <2> QED BY <1>2, <2>3, <2>4 DEF OpenEnd
<1>3. ASSUME NEW t \in Thread, CloseBegin(t) PROVE IInv'
  <2>5. TypeOK' /\ RingInv'
    BY <1>3 DEF CloseBegin, Goto, RingInv, Wrap, Slot, flags, ring
  <2>6. UserCountsHolder' /\ HolderInv'
    BY <1>3 DEF CloseBegin, Goto, flags, ring
  <2>7. PhaseInv'
    BY <1>3 DEF CloseBegin, Goto, flags, ring
  <2>8. BufferInv'
    BY <1>3 DEF CloseBegin, Goto, flags, ring
  <2> QED BY <2>5, <2>6, <2>7, <2>8
<1>4. ASSUME NEW t \in Thread, CloseStep(t) PROVE IInv'
  <2>1. CASE CloseNoUser(t)
    <3>1. mutex = NoThread /\ OthersIn(t, {"idle"})
      BY <2>1 DEF CloseNoUser
    <3> QED BY <2>1, <3>1 DEF CloseNoUser, Goto, RingInv, flags, ring
  <2>2. CASE CloseMark(t)
    <3>1. TypeOK' /\ RingInv' /\ UserCountsHolder' /\ HolderInv'
      BY <2>2 DEF CloseMark, Goto, RingInv, ring
    <3>2. PhaseInv' /\ BufferInv'
      BY <2>2 DEF CloseMark, Goto
    <3> QED BY <3>1, <3>2
  <2>3. CASE CloseFree(t)
    <3>1. TypeOK' /\ RingInv'
      <4>1. /\ opened' \in BOOLEAN /\ allocated' \in BOOLEAN
            /\ pc' \in [Thread -> Location] /\ UNCHANGED <<buffer, op, arg>> /\ Zeroed
        BY <2>3 DEF CloseFree, Goto
      <4> QED BY <4>1, ZeroedTypes
    <3>2. UserCountsHolder' /\ HolderInv' /\ BufferInv'
      BY <2>3, ZeroedRing DEF CloseFree, Goto
    <3>3. PhaseInv'
      BY <2>3 DEF CloseFree, Goto
    <3> QED BY <3>1, <3>2, <3>3
  <2> QED BY <1>4, <2>1, <2>2, <2>3 DEF CloseStep
<1>5. ASSUME NEW t \in Thread, Call(t) PROVE IInv'
  <2>1. UNCHANGED <<flags, ring, user, allocated, mutex>>
    BY <1>5 DEF Call
  <2>2. pc' \in [Thread -> Location]
    BY <1>5 DEF Call, Goto
  <2>3. /\ op' \in [Thread -> Op] /\ DOMAIN arg' = Thread
        /\ \A u \in Thread : op'[u] \in {"read", "peek"} => arg'[u] \in ReadArg
        /\ \A u \in Thread : op'[u] = "write" => arg'[u] \in Data
    BY <1>5 DEF Call
  <2>4. TypeOK'
    BY <2>1, <2>2, <2>3 DEF flags, ring
  <2>5. TypeOK' /\ RingInv'
    BY <2>1, <2>4 DEF RingInv, ring
  <2>6. UserCountsHolder' /\ HolderInv'
    BY <1>5 DEF Call, Goto, flags, ring
  <2>7. PhaseInv'
    BY <1>5 DEF Call, Goto, flags, ring
  <2>8. BufferInv'
    BY <1>5 DEF Call, Goto, flags, ring
  <2> QED BY <2>5, <2>6, <2>7, <2>8
<1>6. ASSUME NEW t \in Thread, NotOpened(t) PROVE IInv'
  BY <1>6 DEF NotOpened, Return, Goto, RingInv, flags, ring
<1>7. ASSUME NEW t \in Thread, Lock(t) PROVE IInv'
  BY <1>7 DEF Lock, Goto, RingInv, flags, ring
<1>8. ASSUME NEW t \in Thread, Leave(t) PROVE IInv'
  <2>1. pc[t] = "locked" /\ mutex = t /\ user = 1 /\ opened /\ allocated
    BY <1>8 DEF Leave, ReadNothing, ReadData, WriteNothing, WriteData, Holds
  <2>2. \E code, data : LeaveWith(t, code, data)
    BY <1>8 DEF Leave, ReadNothing, ReadData, WriteNothing, WriteData
  <2>3. /\ bytes' \in 0 .. Size /\ read_ptr' \in Slot /\ write_ptr' \in Slot
        /\ buffer' \in [Slot -> Byte]
        /\ RingInv'
    <3>1. CASE ReadData(t) BY <3>1, ReadDataRing
    <3>2. CASE WriteData(t) BY <3>2, WriteDataRing
    <3>3. CASE UNCHANGED ring BY <3>3 DEF ring, RingInv
    <3> QED BY <1>8, <3>1, <3>2, <3>3 DEF Leave, ReadNothing, WriteNothing
  <2> QED BY <2>1, <2>2, <2>3 DEF LeaveWith, Return, Goto, flags
<1>9. ASSUME Set PROVE IInv'
  <2>1. /\ stop_read' \in BOOLEAN /\ stop_write' \in BOOLEAN
        /\ loop_overwrite' \in BOOLEAN
        /\ read_timeout' \in BOOLEAN /\ write_timeout' \in BOOLEAN
    BY <1>9 DEF Set, StopRead, StopWrite, SetSyncTimeout, SetLoopOverwrite
  <2>2. UNCHANGED <<opened, ring, user, allocated, mutex, pc, op, arg>>
    BY <1>9 DEF Set
  <2>3. TypeOK'
    BY <2>1, <2>2 DEF ring
  <2>4. RingInv' /\ UserCountsHolder' /\ HolderInv' /\ BufferInv'
    BY <2>2 DEF RingInv, ring
  <2>5. PhaseInv'
    BY <2>2
  <2> QED BY <2>3, <2>4, <2>5
<1>10. CASE UNCHANGED vars
  BY <1>10 DEF vars, flags, ring, RingInv
<1> QED BY <1>1, <1>2, <1>3, <1>4, <1>5, <1>6, <1>7, <1>8, <1>9, <1>10 DEF Next

\* The inductive invariant holds in every reachable state.
THEOREM Inductive == Disciplined => (Spec => []IInv)
<1> SUFFICES ASSUME Disciplined PROVE Spec => []IInv
  OBVIOUS
<1>1. Init => IInv
  BY InitIInv
<1>2. IInv /\ [Next]_vars => IInv'
  BY NextIInv
<1> QED BY <1>1, <1>2, PTL DEF Spec

\* Every number of the pipe keeps its type: both ring pointers stay inside
\* the buffer and `bytes` within its size.
THEOREM TypeCorrect == Disciplined => (Spec => []TypeOK)
<1> SUFFICES ASSUME Disciplined PROVE Spec => []TypeOK
  OBVIOUS
<1>1. Spec => []IInv
  BY Inductive
<1>2. IInv => TypeOK
  BY DEF IInv
<1> QED BY <1>1, <1>2, PTL

\* read_ptr, write_ptr and bytes agree after any interleaving of calls.
THEOREM RingCorrect == Disciplined => (Spec => []RingInv)
<1> SUFFICES ASSUME Disciplined PROVE Spec => []RingInv
  OBVIOUS
<1>1. Spec => []IInv
  BY Inductive
<1>2. IInv => RingInv
  BY DEF IInv
<1> QED BY <1>1, <1>2, PTL

\* Under the discipline, closing never pulls the mutex or the buffer from
\* under a thread inside a call.
THEOREM CloseSafe ==
  Disciplined => (Spec => [](UserCountsHolder /\ NoUseAfterClose))
<1> DEFINE Safe == UserCountsHolder /\ NoUseAfterClose
<1> SUFFICES ASSUME Disciplined PROVE Spec => []Safe
  OBVIOUS
<1>1. Spec => []IInv
  BY Inductive
<1>2. IInv => Safe
  BY DEF IInv, HolderInv, PhaseInv, NoUseAfterClose
<1> QED BY <1>1, <1>2, PTL

-----------------------------------------------------------------------------
\* What the ring holds, as the stream that PipeStream promises.
LEMMA ContentIsSeq ==
  ASSUME TypeOK
  PROVE  /\ Content \in Seq(Byte) /\ Len(Content) = bytes
         /\ \A i \in 1 .. bytes : Content[i] = buffer[Wrap(read_ptr + (i - 1))]
<1>1. bytes \in 0 .. Size /\ read_ptr \in 0 .. Size - 1 /\ Size \in Nat
  BY SizeAssumption DEF TypeOK, Slot
<1>2. ASSUME NEW i \in 1 .. bytes PROVE Wrap(read_ptr + (i - 1)) \in Slot
  BY <1>1 DEF Wrap, Slot
<1>3. \A i \in 1 .. bytes : buffer[Wrap(read_ptr + (i - 1))] \in Byte
  BY <1>2 DEF TypeOK
<1> QED BY <1>1, <1>3 DEF Content

\* Where the element i of the ring is after drop have been taken from the
\* front: where it was, and far from a copy of n to the end, or in that copy.
LEMMA RingPlaces ==
  ASSUME NEW S \in Nat \ {0}, NEW r \in 0 .. S - 1, NEW b \in 0 .. S, NEW drop \in 0 .. b,
         NEW n \in 0 .. S, b - drop + n <= S, NEW i \in 0 .. b - drop + n - 1,
         NEW q, q = IF r + drop >= S THEN r + drop - S ELSE r + drop,
         NEW w, w = IF r + b >= S THEN r + b - S ELSE r + b,
         NEW p, p = IF q + i >= S THEN q + i - S ELSE q + i,
         NEW dist, dist = IF p >= w THEN p - w ELSE p + S - w
  PROVE  /\ p \in 0 .. S - 1
         /\ drop + i < b =>
              /\ p = IF r + (drop + i) >= S THEN r + (drop + i) - S ELSE r + (drop + i)
              /\ ~(dist < n)
         /\ drop + i >= b => dist = drop + i - b
OBVIOUS

\* A read returns the first bytes, and leaves the others unless it is a peek.
LEMMA ReadContent ==
  ASSUME TypeOK, NEW t \in Thread, ReadData(t)
  PROVE  \E n \in 0 .. bytes :
           /\ n <= arg[t].size
           /\ LeaveWith(t, n, SubSeq(Content, 1, n))
           /\ Content' = IF op[t] = "peek" THEN Content ELSE SubSeq(Content, n + 1, bytes)
<1> DEFINE unit == Unit(arg[t])
           m    == Smaller(arg[t].size, bytes)
           n    == RoundDown(m, unit)
           data == [i \in 1 .. n |-> buffer[Wrap(read_ptr + (i - 1))]]
<1>1. arg[t] \in [size : Nat, least : Nat, bunch : Nat]
  BY ReadArgAssumption DEF ReadData, Holds, TypeOK
<1>2. unit \in Nat /\ unit > 0
  BY <1>1 DEF Unit
<1>3. m \in 0 .. bytes /\ m <= arg[t].size
  BY <1>1 DEF Smaller, TypeOK
<1>4. n \in 0 .. m
  BY <1>2, <1>3, RoundDownBounds DEF TypeOK
<1>5. n \in 0 .. bytes /\ n <= arg[t].size
  BY <1>1, <1>3, <1>4 DEF TypeOK
<1>6. LeaveWith(t, n, data) /\ Take(t, n) /\ buffer' = buffer
  BY DEF ReadData
<1> HIDE DEF n
<1>7. bytes \in 0 .. Size /\ read_ptr \in 0 .. Size - 1 /\ Size \in Nat
  BY SizeAssumption DEF TypeOK, Slot
<1>8. data = SubSeq(Content, 1, n)
  BY <1>5, <1>7, ContentIsSeq
<1>9. CASE op[t] = "peek"
  <2>1. Content' = Content
    BY <1>6, <1>9 DEF Take, Content
  <2> QED BY <1>5, <1>6, <1>8, <1>9, <2>1
<1>10. CASE op[t] # "peek"
  <2>1. read_ptr' = Wrap(read_ptr + n) /\ bytes' = bytes - n
    BY <1>6, <1>10 DEF Take
  <2>2. ASSUME NEW i \in 1 .. bytes - n
        PROVE  Wrap(Wrap(read_ptr + n) + (i - 1)) = Wrap(read_ptr + (n + i - 1))
    BY <1>5, <1>7 DEF Wrap
  <2>3. Content' = [i \in 1 .. bytes - n |-> buffer[Wrap(Wrap(read_ptr + n) + (i - 1))]]
    BY <1>6, <2>1 DEF Content
  <2>4. ASSUME NEW i \in 1 .. bytes - n
        PROVE  Content[i + (n + 1) - 1] = buffer[Wrap(read_ptr + (n + i - 1))]
    <3>1. /\ n + i \in 1 .. bytes /\ i + (n + 1) - 1 = n + i
          /\ read_ptr + (n + i - 1) = read_ptr + ((n + i) - 1)
      BY <1>5, <1>7
    <3>2. Content[n + i] = buffer[Wrap(read_ptr + ((n + i) - 1))]
      BY <3>1, ContentIsSeq
    <3> QED BY <3>1, <3>2
  <2>5. SubSeq(Content, n + 1, bytes) = [i \in 1 .. bytes - n |-> Content[i + (n + 1) - 1]]
    BY <1>5, <1>7
  <2>6. Content' = SubSeq(Content, n + 1, bytes)
    BY <2>2, <2>3, <2>4, <2>5
  <2> QED BY <1>5, <1>6, <1>8, <1>10, <2>6
<1> QED BY <1>9, <1>10

\* A write appends what there is room for; what it overwrites are the oldest.
LEMMA WriteContent ==
  ASSUME TypeOK, RingInv, NEW t \in Thread, WriteData(t)
  PROVE  LET d == arg[t]
             n == IF Overwriting \/ Len(d) <= Size - bytes THEN Len(d) ELSE Size - bytes
         IN  /\ n \in 1 .. Len(d)
             /\ LeaveWith(t, n, <<>>)
             /\ Content' = Stream!Newest(Content \o SubSeq(d, 1, n), Size)
<1> DEFINE d    == arg[t]
           len  == Len(d)
           drop == Overwritten(len)
           n    == Smaller(len, Size - (bytes - drop))
           m    == IF Overwriting \/ len <= Size - bytes THEN len ELSE Size - bytes
           all  == Content \o SubSeq(d, 1, n)
<1>1. d \in Seq(Byte) /\ len \in 1 .. Size
  BY DataAssumption, SizeAssumption DEF WriteData, Holds, TypeOK
<1>2. bytes \in 0 .. Size /\ read_ptr \in 0 .. Size - 1 /\ Size \in Nat \ {0}
  BY SizeAssumption DEF TypeOK, Slot
<1>3. bytes < Size \/ Overwriting
  BY DEF WriteData
<1>4. /\ drop \in 0 .. bytes /\ n \in 1 .. len /\ bytes - drop + n <= Size
      /\ n = m /\ drop = IF bytes + n > Size THEN bytes + n - Size ELSE 0
  BY <1>1, <1>2, <1>3 DEF Overwritten, Smaller
<1>5. /\ read_ptr' = Wrap(read_ptr + drop) /\ bytes' = (bytes - drop) + n
      /\ buffer' = [i \in Slot |-> IF Distance(i) < n THEN d[Distance(i) + 1] ELSE buffer[i]]
      /\ LeaveWith(t, n, <<>>)
  BY DEF WriteData
<1> HIDE DEF n, drop, len, m
<1>6. SubSeq(d, 1, n) \in Seq(Byte) /\ Len(SubSeq(d, 1, n)) = n
      /\ \A k \in 1 .. n : SubSeq(d, 1, n)[k] = d[k]
  <2>1. \A k \in 1 .. n : d[k] \in Byte
    BY <1>1, <1>4, ElementOfSeq DEF len
  <2> QED BY <1>1, <1>4, <2>1, SubSeqProperties DEF len
<1>7. /\ all \in Seq(Byte) /\ Len(all) = bytes + n
      /\ \A k \in 1 .. bytes + n : all[k] = IF k <= bytes THEN Content[k] ELSE d[k - bytes]
  <2> DEFINE tail == SubSeq(d, 1, n)
  <2>1. tail \in Seq(Byte) /\ Len(tail) = n /\ \A k \in 1 .. n : tail[k] = d[k]
    BY <1>6
  <2>2. Content \in Seq(Byte) /\ Len(Content) = bytes
    BY ContentIsSeq
  <2> HIDE DEF tail, d
  <2>3. /\ Content \o tail \in Seq(Byte) /\ Len(Content \o tail) = bytes + n
        /\ \A k \in 1 .. bytes + n :
              (Content \o tail)[k] = IF k <= bytes THEN Content[k] ELSE tail[k - bytes]
    BY <2>1, <2>2, ConcatProperties
  <2>4. ASSUME NEW k \in 1 .. bytes + n, ~(k <= bytes) PROVE tail[k - bytes] = d[k - bytes]
    BY <1>2, <1>4, <2>1, <2>4
  <2> QED BY <2>3, <2>4 DEF tail
<1> HIDE DEF all
<1>8. ASSUME NEW i \in 1 .. bytes - drop + n
      PROVE  buffer'[Wrap(Wrap(read_ptr + drop) + (i - 1))] = all[i + drop]
  <2> DEFINE p == Wrap(Wrap(read_ptr + drop) + (i - 1))
  <2>1. i - 1 \in 0 .. bytes - drop + n - 1 /\ drop \in 0 .. bytes /\ n \in 0 .. Size
        /\ bytes - drop + n <= Size
    BY <1>1, <1>2, <1>4
  <2>2. /\ p \in Slot
        /\ drop + (i - 1) < bytes =>
             p = Wrap(read_ptr + (drop + (i - 1))) /\ ~(Distance(p) < n)
        /\ drop + (i - 1) >= bytes => Distance(p) = drop + (i - 1) - bytes
    BY <1>2, <2>1, RingPlaces DEF RingInv, Wrap, Slot, Distance
  <2> HIDE DEF p
  <2>3. buffer'[p] = IF Distance(p) < n THEN d[Distance(p) + 1] ELSE buffer[p]
    BY <1>5, <2>2
  <2>4. PICK j \in 1 .. bytes + n : j = i + drop /\ j - 1 = drop + (i - 1)
    <3>1. i + drop \in 1 .. bytes + n /\ (i + drop) - 1 = drop + (i - 1)
      BY <1>2, <1>4
    <3> QED BY <3>1
  <2>5. ASSUME j <= bytes PROVE buffer'[p] = all[j]
    <3>1. j \in 1 .. bytes /\ drop + (i - 1) < bytes
      BY <1>2, <2>4, <2>5
    <3>2. all[j] = Content[j]
      BY <1>7, <2>4, <2>5
    <3>3. Content[j] = buffer[Wrap(read_ptr + (j - 1))]
      BY <3>1, ContentIsSeq
    <3>4. p = Wrap(read_ptr + (j - 1)) /\ ~(Distance(p) < n)
      BY <2>2, <2>4, <3>1
    <3> QED BY <2>3, <3>2, <3>3, <3>4
  <2>6. ASSUME ~(j <= bytes) PROVE buffer'[p] = all[j]
    <3>1. /\ drop + (i - 1) >= bytes /\ (j - 1) - bytes < n
          /\ ((j - 1) - bytes) + 1 = j - bytes
          /\ drop + (i - 1) - bytes = (j - 1) - bytes
      BY <1>2, <1>4, <2>4, <2>6
    <3>2. all[j] = d[j - bytes]
      BY <1>7, <2>4, <2>6
    <3>3. Distance(p) = (j - 1) - bytes
      BY <2>2, <3>1
    <3> QED BY <2>3, <3>1, <3>2, <3>3
  <2>7. buffer'[p] = all[i + drop]
    BY <2>4, <2>5, <2>6
  <2> QED BY <2>7 DEF p
<1>9. Content' = [i \in 1 .. bytes - drop + n |-> all[i + drop]]
  <2>1. Content' = [i \in 1 .. bytes - drop + n |->
                      buffer'[Wrap(Wrap(read_ptr + drop) + (i - 1))]]
    BY <1>5 DEF Content
  <2> QED BY <1>8, <2>1
<1>10. Stream!Newest(all, Size) = [i \in 1 .. bytes - drop + n |-> all[i + drop]]
  <2>1. CASE bytes + n <= Size
    <3>1. Stream!Newest(all, Size) = all /\ drop = 0 /\ bytes - drop + n = bytes + n
      BY <1>2, <1>4, <1>7, <2>1 DEF Stream!Newest
    <3>2. all = [i \in 1 .. bytes + n |-> all[i]]
      BY <1>7
    <3>3. \A i \in 1 .. bytes + n : all[i + drop] = all[i]
      BY <1>2, <1>4, <3>1
    <3> QED BY <3>1, <3>2, <3>3
  <2>2. CASE ~(bytes + n <= Size)
    <3>1. /\ Stream!Newest(all, Size) = SubSeq(all, bytes + n - Size + 1, bytes + n)
          /\ drop = bytes + n - Size /\ bytes - drop + n = Size
      BY <1>2, <1>4, <1>7, <2>2 DEF Stream!Newest
    <3>2. SubSeq(all, drop + 1, bytes + n) =
           [i \in 1 .. bytes + n - drop |-> all[i + (drop + 1) - 1]]
      BY <1>2, <1>4
    <3>3. \A i \in 1 .. bytes + n - drop : all[i + (drop + 1) - 1] = all[i + drop]
      BY <1>2, <1>4
    <3>4. bytes + n - drop = bytes - drop + n /\ bytes + n - Size + 1 = drop + 1
      BY <1>2, <1>4, <3>1
    <3> QED BY <3>1, <3>2, <3>3, <3>4
  <2> QED BY <2>1, <2>2
<1>11. Content' = Stream!Newest(Content \o SubSeq(d, 1, n), Size)
  BY <1>9, <1>10 DEF all
<1> QED BY <1>4, <1>5, <1>11 DEF m, len
-----------------------------------------------------------------------------
\* The state of the stream as Pipe maps it.
StreamState == IF opened THEN "open" ELSE "closed"
StreamLossy == opened /\ Overwriting
StreamContent == IF opened THEN Content ELSE <<>>
Kept == /\ StreamState' = StreamState /\ StreamLossy' = StreamLossy
        /\ StreamContent' = StreamContent

\* A step that touches neither the ring nor these two flags is none of the
\* stream.
LEMMA KeptStream ==
  ASSUME opened' = opened, loop_overwrite' = loop_overwrite, UNCHANGED ring
  PROVE  Kept
<1>1. Content' = Content
  BY DEF ring, Content
<1>2. StreamState' = StreamState /\ StreamContent' = StreamContent
  BY <1>1 DEF StreamState, StreamContent
<1>3. StreamLossy' = StreamLossy
  BY Zenon DEF StreamLossy, Overwriting
<1> QED BY <1>2, <1>3 DEF Kept

\* A step that touches nothing of the stream or of the calls is a stutter.
LEMMA Stutters ==
  ASSUME Kept, UNCHANGED <<op, arg, ret>>
  PROVE  UNCHANGED Stream!vars
BY Zenon DEF Kept, StreamState, StreamLossy, StreamContent, Stream!vars

\* A step after which the pipe is closed closes it, or changes nothing.
LEMMA ClosedStep ==
  ASSUME opened' = FALSE, opened \in BOOLEAN, UNCHANGED <<op, arg, ret>>
  PROVE  Stream!Close \/ UNCHANGED Stream!vars
<1>1. StreamState' = "closed" /\ StreamContent' = <<>>
  BY DEF StreamState, StreamContent
<1>2. StreamLossy' = FALSE
  BY Zenon DEF StreamLossy
<1>3. CASE opened = TRUE
  <2>1. StreamState = "open"
    BY <1>3 DEF StreamState
  <2> QED BY <1>1, <1>2, <2>1, Zenon
          DEF StreamState, StreamLossy, StreamContent, Stream!Close
<1>4. CASE opened = FALSE
  <2>1. StreamState = "closed" /\ StreamContent = <<>>
    BY <1>4 DEF StreamState, StreamContent
  <2>2. StreamLossy = FALSE
    BY <1>4, Zenon DEF StreamLossy
  <2> QED BY <1>1, <1>2, <2>1, <2>2, Stutters DEF Kept
<1> QED BY <1>3, <1>4

\* Every step of the pipe is a step of the stream, or none: a call takes
\* effect at its return, under the mutex.
LEMMA StreamNext ==
  ASSUME Disciplined, IInv, [Next]_vars
  PROVE  [Stream!Next]_(Stream!vars)
<1>0. TypeOK /\ RingInv /\ PhaseInv
  BY DEF IInv
<1>1. ASSUME NEW t \in Thread, OpenBegin(t) PROVE Stream!Open
  <2>1. opened = FALSE /\ opened' = TRUE /\ bytes' = 0 /\ loop_overwrite' = FALSE
        /\ UNCHANGED <<op, arg, ret>>
    BY <1>0, <1>1, Zenon DEF OpenBegin, Zeroed, TypeOK
  <2>2. StreamState = "closed" /\ StreamState' = "open"
    BY <2>1 DEF StreamState
  <2>3. StreamContent' = <<>>
    BY <2>1 DEF StreamContent, Content
  <2>4. StreamLossy' = FALSE
    BY <2>1, Zenon DEF StreamLossy, Overwriting
  <2> QED BY <2>1, <2>2, <2>3, <2>4, Zenon
          DEF StreamState, StreamLossy, StreamContent, Stream!Open
<1>2. ASSUME NEW t \in Thread, OpenEnd(t) PROVE Stream!Close \/ UNCHANGED Stream!vars
  <2>1. UNCHANGED <<op, arg, ret>>
    BY <1>2 DEF OpenEnd
  <2>2. CASE UNCHANGED <<flags, ring>>
    BY <2>1, <2>2, KeptStream, Stutters DEF flags
  <2>3. CASE opened' = FALSE
    BY <1>0, <2>1, <2>3, ClosedStep DEF TypeOK
  <2> QED BY <1>2, <2>2, <2>3 DEF OpenEnd
<1>3. ASSUME NEW t \in Thread, CloseBegin(t) \/ CloseNoUser(t) \/ Lock(t)
      PROVE  UNCHANGED Stream!vars
  <2>1. opened' = opened /\ loop_overwrite' = loop_overwrite /\ UNCHANGED ring
        /\ UNCHANGED <<op, arg, ret>>
    BY <1>3 DEF CloseBegin, CloseNoUser, Lock, flags
  <2> QED BY <2>1, KeptStream, Stutters
<1>4. ASSUME NEW t \in Thread, CloseMark(t) \/ CloseFree(t)
      PROVE  Stream!Close \/ UNCHANGED Stream!vars
  <2>1. opened' = FALSE /\ UNCHANGED <<op, arg, ret>>
    BY <1>4 DEF CloseMark, CloseFree
  <2> QED BY <1>0, <2>1, ClosedStep DEF TypeOK
<1>5. ASSUME NEW t \in Thread, Call(t) PROVE Stream!Request(t)
  <2>1. op[t] = "none"
    BY <1>0, <1>5 DEF Call, PhaseInv
  <2>2. Kept
    BY <1>5, KeptStream DEF Call, flags
  <2> QED BY <1>5, <2>1, <2>2, Zenon
          DEF Call, Kept, StreamState, StreamLossy, StreamContent, Stream!Request,
              NoResult, Stream!NoResult
<1>6. ASSUME NEW t \in Thread, op[t] # "none", Kept,
             NEW code \in -5 .. 0, Return(t, code, <<>>)
      PROVE  Stream!Refuse(t)
  BY <1>6, Zenon
     DEF Return, Kept, StreamState, StreamLossy, StreamContent, Stream!Refuse,
         Stream!Return, Stream!Result
<1>7. ASSUME NEW t \in Thread, NotOpened(t) \/ ReadNothing(t) \/ WriteNothing(t)
      PROVE  Stream!Refuse(t)
  <2>1. op[t] # "none"
    BY <1>0, <1>7 DEF NotOpened, ReadNothing, WriteNothing, Holds, PhaseInv
  <2>2. \E code \in -5 .. 0 : Return(t, code, <<>>)
    BY <1>7 DEF NotOpened, ReadNothing, WriteNothing, LeaveWith, ERR_NOT_OPENED,
                ERR_WRITE_STOPPED, ERR_READ_STOPPED, ERR_SYNC_TIMEOUT
  <2>3. UNCHANGED <<flags, ring>>
    BY <1>7 DEF NotOpened, ReadNothing, WriteNothing, LeaveWith
  <2>4. Kept
    BY <2>3, KeptStream DEF flags
  <2> QED BY <1>6, <2>1, <2>2, <2>4
<1>8. ASSUME NEW t \in Thread, ReadData(t) \/ WriteData(t)
      PROVE  /\ opened = TRUE /\ opened' = TRUE
             /\ StreamContent = Content /\ StreamContent' = Content'
             /\ StreamState' = StreamState /\ StreamLossy' = StreamLossy
  <2>1. opened /\ UNCHANGED flags
    BY <1>0, <1>8 DEF ReadData, WriteData, LeaveWith, Holds, PhaseInv
  <2>2. opened = TRUE /\ opened' = TRUE /\ loop_overwrite' = loop_overwrite
    BY <1>0, <2>1 DEF flags, TypeOK
  <2>3. StreamLossy' = StreamLossy
    BY <2>2, Zenon DEF StreamLossy, Overwriting
  <2> QED BY <2>2, <2>3 DEF StreamState, StreamContent
<1>9. ASSUME NEW t \in Thread, ReadData(t) PROVE Stream!Read(t)
  <2>1. PICK n \in 0 .. bytes :
           /\ n <= arg[t].size
           /\ LeaveWith(t, n, SubSeq(Content, 1, n))
           /\ Content' = IF op[t] = "peek" THEN Content ELSE SubSeq(Content, n + 1, bytes)
    BY <1>0, <1>9, ReadContent
  <2>2. op[t] \in {"read", "peek"}
    BY <1>9 DEF ReadData, Holds
  <2>3. Len(StreamContent) = bytes /\ StreamContent = Content /\ StreamContent' = Content'
    BY <1>0, <1>8, <1>9, ContentIsSeq
  <2>4. Stream!Return(t, Stream!Result(n, SubSeq(StreamContent, 1, n)))
    BY <2>1, <2>3, Zenon DEF LeaveWith, Return, Stream!Return, Stream!Result
  <2>5. StreamContent' = IF op[t] = "peek" THEN StreamContent
                         ELSE SubSeq(StreamContent, n + 1, Len(StreamContent))
    BY <2>1, <2>3
  <2>6. n \in 0 .. Len(StreamContent) /\ n <= arg[t].size
    BY <2>1, <2>3
  <2>7. StreamState' = StreamState /\ StreamLossy' = StreamLossy
    BY <1>8, <1>9
  <2> QED BY <2>2, <2>4, <2>5, <2>6, <2>7, Zenon
          DEF StreamState, StreamLossy, StreamContent, Stream!Read
<1>10. ASSUME NEW t \in Thread, WriteData(t) PROVE Stream!Write(t)
  <2> DEFINE d == arg[t]
             n == IF StreamLossy \/ Len(d) <= Size - Len(StreamContent)
                  THEN Len(d) ELSE Size - Len(StreamContent)
  <2>1. Len(StreamContent) = bytes /\ StreamContent = Content /\ StreamContent' = Content'
    BY <1>0, <1>8, <1>10, ContentIsSeq
  <2>2. StreamLossy <=> Overwriting
    BY <1>8, <1>10, Zenon DEF StreamLossy
  <2>3. n = IF Overwriting \/ Len(d) <= Size - bytes THEN Len(d) ELSE Size - bytes
    BY <2>1, <2>2
  <2> HIDE DEF n
  <2>4. /\ n \in 1 .. Len(d) /\ LeaveWith(t, n, <<>>)
        /\ Content' = Stream!Newest(Content \o SubSeq(d, 1, n), Size)
    BY <1>0, <1>10, <2>3, WriteContent
  <2>5. n > 0 /\ op[t] = "write"
    BY <1>10, <2>4 DEF WriteData, Holds
  <2>6. Stream!Return(t, Stream!Result(n, <<>>))
    BY <2>4, Zenon DEF LeaveWith, Return, Stream!Return, Stream!Result
  <2>7. StreamContent' = Stream!Newest(StreamContent \o SubSeq(d, 1, n), Size)
    BY <2>1, <2>4
  <2>8. StreamState' = StreamState /\ StreamLossy' = StreamLossy
    BY <1>8, <1>10
  <2> QED BY <2>5, <2>6, <2>7, <2>8, Zenon
          DEF n, StreamState, StreamLossy, StreamContent, Stream!Write
<1>11. CASE Set
  <2>1. opened = TRUE /\ opened' = TRUE /\ UNCHANGED <<ring, op, arg, ret>>
    BY <1>0, <1>11 DEF Set, TypeOK
  <2>2. StreamState = "open" /\ StreamState' = "open" /\ StreamContent' = StreamContent
    BY <2>1 DEF StreamState, StreamContent, ring, Content
  <2>3. StreamLossy' \in BOOLEAN
    BY Zenon DEF StreamLossy
  <2>4. Stream!SetLossy
    BY <2>1, <2>2, <2>3, Zenon DEF StreamState, StreamLossy, StreamContent, Stream!SetLossy
  <2> QED BY <2>4 DEF Stream!Next
<1>12. CASE UNCHANGED vars
  BY <1>12, KeptStream, Stutters DEF vars, flags
<1> QED BY <1>1, <1>2, <1>3, <1>4, <1>5, <1>7, <1>9, <1>10, <1>11, <1>12
        DEF Next, CloseStep, Leave, Stream!Next

\* The ring, its mutex and its flags implement the bounded stream of bytes
\* of PipeStream: first in, first out, the oldest bytes dropped only
\* to make room in overwrite mode (pipe.c:336).
THEOREM StreamImplemented == Disciplined => (Spec => RefinesStream)
<1> SUFFICES ASSUME Disciplined PROVE Spec => RefinesStream
  OBVIOUS
<1>1. Init => Stream!Init
  <2> SUFFICES ASSUME Init PROVE Stream!Init
    OBVIOUS
  <2>1. opened = FALSE
    BY DEF Init
  <2>2. StreamState = "closed" /\ StreamContent = <<>>
    BY <2>1 DEF StreamState, StreamContent
  <2>3. StreamLossy = FALSE
    BY <2>1, Zenon DEF StreamLossy
  <2> QED BY <2>2, <2>3, Zenon
          DEF Init, StreamState, StreamLossy, StreamContent, Stream!Init,
              NoResult, Stream!NoResult
<1>2. IInv /\ [Next]_vars => [Stream!Next]_(Stream!vars)
  BY StreamNext
<1>3. Spec => []IInv
  BY Inductive
<1> QED BY <1>1, <1>2, <1>3, PTL DEF Spec, RefinesStream, Stream!Spec
=============================================================================
