--------------------------- MODULE LogPartsProofs ---------------------------
(***************************************************************************)
(* The parts of the log library that MCLogParts puts together.             *)
(*                                                                         *)
(* The ring of log files, for any number and size of files: whatever the   *)
(* sn file holds, and wherever a crash stops a turn, the service writes    *)
(* and truncates only files of the ring, and the newest units are kept.    *)
(*                                                                         *)
(* The dated log files, for any number of files and dates: what the list   *)
(* of names is - the one place that needs induction -, that the oldest log *)
(* goes first for want of room, and that no unit vanishes while the date   *)
(* stays the same during a turn or a compression.                          *)
(*                                                                         *)
(* The start of a service, for a cache of any size: with one thread that   *)
(* logs, every record but those the cache had no room for is kept.         *)
(***************************************************************************)
EXTENDS MCLogParts, SequenceTheorems, FiniteSetTheorems, WellFoundedInduction, TLAPS

\* A number outside the ring counts as the first file.
LEMMA InRangeIsFile == \A n \in Int : InRange(n) \in FileSn
BY NumberAssumption DEF InRange, FileSn

LEMMA InitTypeOK == Init => TypeOK
<1> SUFFICES ASSUME Init PROVE TypeOK
  OBVIOUS
<1>1. file \in [FileSn -> Seq(1 .. MaxUnit)]
  BY EmptySeq DEF Init
<1>2. file_sn \in FileSn /\ sn \in 0 .. Number
  BY NumberAssumption DEF Init, FileSn
<1> QED BY <1>1, <1>2, BoundAssumption DEF Init, TypeOK

LEMMA NextTypeOK == TypeOK /\ [Next]_vars => TypeOK'
<1> SUFFICES ASSUME TypeOK, [Next]_vars PROVE TypeOK'
  OBVIOUS
<1>a. sn \in 0 .. Number
  BY DEF TypeOK
<1>b. next \in 1 .. MaxUnit + 1
  BY DEF TypeOK
<1>c. crashes \in 0 .. MaxCrash
  BY DEF TypeOK
<1>d. file_sn \in FileSn
  BY DEF TypeOK
<1>0. /\ sn \in 0 .. Number /\ file_sn \in FileSn /\ crashes \in 0 .. MaxCrash
      /\ next \in 1 .. MaxUnit + 1 /\ file \in [FileSn -> Seq(1 .. MaxUnit)]
      /\ pc \in {"idle", "write sn", "truncate", "open", "append"}
  BY <1>a, <1>b, <1>c, <1>d DEF TypeOK
<1>1. CASE Look
  <2>1. sn \in Int
    BY <1>a, NumberAssumption
  <2>2. InRange(sn) \in FileSn
    BY <2>1, InRangeIsFile
  <2>3. InRange(sn) + 1 \in Int
    BY <2>2, NumberAssumption DEF FileSn
  <2>4. InRange(InRange(sn) + 1) \in FileSn
    BY <2>3, InRangeIsFile
  <2> QED BY <1>0, <1>1, <2>2, <2>4 DEF Look, TypeOK, disk
<1>2. CASE WriteSn
  <2>1. file_sn \in 0 .. Number
    BY <1>d, NumberAssumption DEF FileSn
  <2> QED BY <1>0, <1>2, <2>1 DEF WriteSn, TypeOK
<1>3. CASE Truncate
  <2>1. file' \in [FileSn -> Seq(1 .. MaxUnit)]
    BY <1>0, <1>3, EmptySeq DEF Truncate
  <2> QED BY <1>0, <1>3, <2>1 DEF Truncate, TypeOK
<1>4. CASE Open \/ Drained
  BY <1>0, <1>4 DEF Open, Drained, TypeOK, disk
<1>5. CASE AppendUnit
  <2>1. next <= MaxUnit /\ next' = next + 1
    BY <1>5 DEF AppendUnit
  <2>2. next \in 1 .. MaxUnit /\ next' \in 1 .. MaxUnit + 1
    BY <1>b, <2>1, BoundAssumption
  <2>3. Append(file[file_sn], next) \in Seq(1 .. MaxUnit)
    BY <1>0, <2>2, AppendProperties
  <2>4. file' \in [FileSn -> Seq(1 .. MaxUnit)]
    BY <1>0, <1>5, <2>3 DEF AppendUnit
  <2> QED BY <1>0, <1>5, <2>2, <2>4 DEF AppendUnit, TypeOK
<1>6. CASE Crash
  <2>1. crashes < MaxCrash /\ crashes' = crashes + 1
    BY <1>6 DEF Crash
  <2>2. crashes' \in 0 .. MaxCrash /\ 0 \in FileSn
    BY <1>c, <2>1, BoundAssumption, NumberAssumption DEF FileSn
  <2> QED BY <1>0, <1>6, <2>2 DEF Crash, TypeOK, disk
<1>7. CASE UNCHANGED vars
  BY <1>7 DEF vars, disk, TypeOK
<1> QED BY <1>1, <1>2, <1>3, <1>4, <1>5, <1>6, <1>7 DEF Next

\* The types of the turn and of the files (log_file.c:256-275).
THEOREM TypeCorrect == Spec => []TypeOK
BY InitTypeOK, NextTypeOK, PTL DEF Spec

-----------------------------------------------------------------------------
(* What the files hold.                                                     *)

\* The units of the current file, up to the size at which it is left.
Filled == IF Len(file[Current]) < MaxSize THEN Len(file[Current]) ELSE MaxSize

\* Between the sn file and the truncation the current file is the oldest one.
Stale == pc = "truncate"

\* A turn looks at the current file and goes to the one after it.
TurnInv ==
  /\ pc = "write sn" => file_sn = InRange(Current + 1) /\ TooBig(Current)
  /\ pc \in {"truncate", "open", "append"} => file_sn = Current

\* The units of a file are older than those of the full files after it, of
\* which each crash may have made one useless, and of the current one.
AgeInv ==
  \A k \in FileSn : \A u \in ToSet(file[k]) :
    /\ u < next
    /\ k # Current => u + (Age(k) - 1 - crashes) * MaxSize + (IF Stale THEN 0 ELSE Filled) < next
    /\ k = Current /\ Stale => u + (Number - 1 - crashes) * MaxSize < next

LostInv ==
  \A u \in 1 .. next - 1 : u \notin Kept => u + (Number - 1 - crashes) * MaxSize < next

SortedInv ==
  /\ \A k \in FileSn : \A i, j \in DOMAIN file[k] : i < j => file[k][i] < file[k][j]
  /\ crashes = 0 =>
       \A a, b \in FileSn : Age(a) > Age(b) /\ ~(Stale /\ b = Current) =>
         \A u \in ToSet(file[a]), v \in ToSet(file[b]) : u < v

RingInv == TypeOK /\ TurnInv /\ AgeInv /\ LostInv /\ SortedInv

LEMMA Multiples ==
  /\ \A x \in Int : x * MaxSize \in Int /\ (x - 1) * MaxSize = x * MaxSize - MaxSize
  /\ \A x \in Nat : x * MaxSize >= 0 /\ (0 - x) * MaxSize = 0 - x * MaxSize
BY SizeAssumption

\* Ages are different, and go up by one when the next file is the current one.
LEMMA Ages ==
  ASSUME TypeOK
  PROVE  /\ Current \in FileSn /\ Age(Current) = 0
         /\ \A k \in FileSn : Age(k) \in 0 .. Number - 1 /\ (k # Current => Age(k) > 0)
         /\ crashes \in Nat /\ next \in Nat \ {0}
<1>1. Current \in FileSn
  <2>1. sn \in 0 .. Number
    BY DEF TypeOK
  <2>2. sn \in Int
    BY <2>1, NumberAssumption
  <2> QED BY <2>2, InRangeIsFile DEF Current
<1>2. crashes \in Nat /\ next \in Nat \ {0}
  <2>1. next \in 1 .. MaxUnit + 1 /\ crashes \in 0 .. MaxCrash
    BY DEF TypeOK
  <2> QED BY <2>1, BoundAssumption
<1>3. PICK c \in FileSn : c = Current
  BY <1>1
<1>4. \A k : Age(k) = IF k <= c THEN c - k ELSE c - k + Number
  BY <1>3 DEF Age
<1>5. \A k \in FileSn : Age(k) \in 0 .. Number - 1 /\ (k # c => Age(k) > 0)
  BY <1>4, NumberAssumption DEF FileSn
<1>6. Age(c) = 0
  BY <1>4, NumberAssumption DEF FileSn
<1> QED BY <1>2, <1>3, <1>5, <1>6

LEMMA AgesNext ==
  ASSUME TypeOK, sn' = InRange(Current + 1)
  PROVE  /\ Current' = InRange(Current + 1) /\ Current' # Current /\ Age(Current) = 0
         /\ \A k \in FileSn : k # Current' => Age(k)' = Age(k) + 1
         /\ \A k \in FileSn : k = Current' => Age(k)' = 0 /\ Age(k) = Number - 1
<1>1. PICK c \in FileSn : c = Current
  BY Ages
<1>2. PICK d \in FileSn : d = InRange(c + 1) /\ d = IF c = Number - 1 THEN 0 ELSE c + 1
  BY NumberAssumption DEF InRange, FileSn
<1>3. Current' = d
  BY <1>1, <1>2, NumberAssumption DEF Current, InRange, FileSn
<1>4. d # c
  BY <1>2, NumberAssumption DEF FileSn
<1>5. \A k : Age(k) = IF k <= c THEN c - k ELSE c - k + Number
  BY <1>1 DEF Age
<1>6. \A k : Age(k)' = IF k <= d THEN d - k ELSE d - k + Number
  BY <1>3 DEF Age
<1>7. \A k \in FileSn : k # d => Age(k)' = Age(k) + 1
  BY <1>2, <1>5, <1>6, NumberAssumption DEF FileSn
<1>8. Age(d)' = 0 /\ Age(d) = Number - 1 /\ Age(c) = 0
  BY <1>2, <1>5, <1>6, NumberAssumption DEF FileSn
<1> QED BY <1>1, <1>2, <1>3, <1>4, <1>7, <1>8

LEMMA InitRing == Init => RingInv
<1> SUFFICES ASSUME Init PROVE RingInv
  OBVIOUS
<1>1. \A k \in FileSn : file[k] = <<>> /\ ToSet(file[k]) = {} /\ DOMAIN file[k] = {}
  BY DEF Init, ToSet
<1>2. next = 1 /\ pc = "idle"
  BY DEF Init
<1>3. TurnInv
  BY <1>2 DEF TurnInv
<1>4. AgeInv
  BY <1>1 DEF AgeInv
<1>5. LostInv
  BY <1>2 DEF LostInv
<1>6. SortedInv
  BY <1>1 DEF SortedInv
<1> QED BY <1>3, <1>4, <1>5, <1>6, InitTypeOK DEF RingInv

LEMMA KeptRing ==
  ASSUME RingInv, TypeOK', TurnInv', UNCHANGED <<disk, next, crashes>>, ~Stale, ~Stale'
  PROVE  RingInv'
<1>1. Current' = Current /\ \A k : Age(k)' = Age(k)
  BY DEF Current, Age, disk
<1>2. Filled' = Filled /\ Kept' = Kept
  BY <1>1 DEF Filled, Kept, disk
<1>3. AgeInv'
  BY <1>1, <1>2 DEF RingInv, AgeInv, disk
<1>4. LostInv'
  BY <1>2 DEF RingInv, LostInv
<1>5. SortedInv'
  BY <1>1 DEF RingInv, SortedInv, disk
<1> QED BY <1>3, <1>4, <1>5 DEF RingInv

LEMMA CrashRing ==
  ASSUME RingInv, TypeOK', Crash
  PROVE  RingInv'
<1>1. UNCHANGED <<disk, next>> /\ crashes' = crashes + 1 /\ pc' = "idle"
  BY DEF Crash
<1>2. Current' = Current /\ \A k : Age(k)' = Age(k)
  BY <1>1 DEF Current, Age, disk
<1>3. Filled' = Filled /\ Kept' = Kept
  BY <1>1, <1>2 DEF Filled, Kept, disk
<1>4. TypeOK
  BY DEF RingInv
<1>5. MaxSize \in Nat /\ Filled \in 0 .. MaxSize
  <2>1. file[Current] \in Seq(1 .. MaxUnit)
    BY <1>4, Ages DEF TypeOK
  <2>2. Len(file[Current]) \in Nat
    BY <2>1, LenProperties
  <2> QED BY <2>2, SizeAssumption DEF Filled
<1>6. \A x \in Int : x * MaxSize \in Int /\ (x - 1) * MaxSize = x * MaxSize - MaxSize
  BY Multiples
<1>7. AgeInv'
  <2> SUFFICES ASSUME NEW k \in FileSn, NEW u \in ToSet(file[k])
               PROVE  /\ u < next
                      /\ k # Current => u + (Age(k) - 1 - (crashes + 1)) * MaxSize + Filled < next
    BY <1>1, <1>2, <1>3 DEF AgeInv, Stale, disk
  <2>1. u < next /\ u \in Int
    <3>1. file[k] \in Seq(1 .. MaxUnit)
      BY <1>4 DEF TypeOK
    <3>2. u \in Int
      BY <3>1, BoundAssumption DEF ToSet
    <3> QED BY <3>2 DEF RingInv, AgeInv
  <2>2. ASSUME k # Current PROVE u + (Age(k) - 1 - (crashes + 1)) * MaxSize + Filled < next
    <3>1. PICK x \in Int : x = Age(k) - 1 - crashes
      BY <1>4, Ages
    <3>2. u + x * MaxSize + (IF Stale THEN 0 ELSE Filled) < next
      BY <2>2, <3>1 DEF RingInv, AgeInv
    <3>3. Age(k) - 1 - (crashes + 1) = x - 1
      BY <1>4, <3>1, Ages
    <3>4. PICK y \in Int : y = x * MaxSize
      BY <1>6
    <3>5. next \in Int
      BY <1>4, Ages
    <3>6. u + (y - MaxSize) + Filled < next
      BY <1>5, <2>1, <3>2, <3>4, <3>5
    <3> QED BY <1>6, <3>3, <3>4, <3>6
  <2> QED BY <2>1, <2>2
<1>8. LostInv'
  <2> SUFFICES ASSUME NEW u \in 1 .. next - 1, u \notin Kept
               PROVE  u + (Number - 1 - (crashes + 1)) * MaxSize < next
    BY <1>1, <1>3 DEF LostInv
  <2>1. PICK x \in Int : x = Number - 1 - crashes
    BY <1>4, Ages, NumberAssumption
  <2>2. u + x * MaxSize < next
    BY <2>1 DEF RingInv, LostInv
  <2>3. Number - 1 - (crashes + 1) = x - 1
    BY <1>4, <2>1, Ages, NumberAssumption
  <2>4. PICK y \in Int : y = x * MaxSize
    BY <1>6
  <2>5. next \in Int
    BY <1>4, Ages
  <2>6. u + (y - MaxSize) < next
    BY <1>5, <2>2, <2>4, <2>5
  <2> QED BY <1>6, <2>3, <2>4, <2>6
<1>9. SortedInv'
  <2>1. crashes' # 0
    BY <1>1, <1>4, Ages
  <2> QED BY <1>1, <2>1 DEF RingInv, SortedInv, disk
<1>10. TurnInv'
  BY <1>1 DEF TurnInv
<1> QED BY <1>7, <1>8, <1>9, <1>10 DEF RingInv

\* The next file is the current one: the oldest units are in it.
LEMMA WriteSnRing ==
  ASSUME ~SnFails, RingInv, TypeOK', WriteSn
  PROVE  RingInv'
<1>1. /\ pc = "write sn" /\ pc' = "truncate" /\ sn' = file_sn
      /\ UNCHANGED <<file, file_sn, next, crashes>>
  BY DEF WriteSn
<1>2. TypeOK /\ sn' = InRange(Current + 1) /\ TooBig(Current)
  BY <1>1 DEF RingInv, TurnInv
<1>3. /\ Current' = InRange(Current + 1) /\ Current' # Current /\ Age(Current) = 0
      /\ \A k \in FileSn : k # Current' => Age(k)' = Age(k) + 1
      /\ \A k \in FileSn : k = Current' => Age(k)' = 0 /\ Age(k) = Number - 1
  BY <1>2, AgesNext
<1>4. MaxSize \in Nat /\ Filled = MaxSize
  <2>1. file[Current] \in Seq(1 .. MaxUnit)
    BY <1>2, Ages DEF TypeOK
  <2>2. Len(file[Current]) \in Nat
    BY <2>1, LenProperties
  <2> QED BY <1>2, <2>2, SizeAssumption DEF Filled, TooBig
<1>5. AgeInv'
  <2> SUFFICES ASSUME NEW k \in FileSn, NEW u \in ToSet(file[k])
               PROVE  /\ u < next
                      /\ k # Current' => u + (Age(k)' - 1 - crashes) * MaxSize + 0 < next
                      /\ k = Current' => u + (Number - 1 - crashes) * MaxSize < next
    BY <1>1 DEF AgeInv, Stale
  <2>1. u < next /\ u \in Int /\ next \in Int /\ crashes \in Nat
    <3>1. file[k] \in Seq(1 .. MaxUnit)
      BY <1>2 DEF TypeOK
    <3>2. u \in Int
      BY <3>1, BoundAssumption DEF ToSet
    <3> QED BY <1>2, <3>2, Ages DEF RingInv, AgeInv
  <2>2. PICK x \in Int : x = Age(k) - crashes
    BY <1>2, <2>1, Ages
  <2>3. x * MaxSize \in Int /\ (x - 1) * MaxSize = x * MaxSize - MaxSize
    BY Multiples
  <2>4. k # Current => u + x * MaxSize < next
    <3>1. SUFFICES ASSUME k # Current PROVE u + x * MaxSize < next
      OBVIOUS
    <3>2. u + (Age(k) - 1 - crashes) * MaxSize + MaxSize < next
      BY <1>1, <1>4, <3>1 DEF RingInv, AgeInv, Stale
    <3>3. Age(k) - 1 - crashes = x - 1
      BY <1>2, <2>1, <2>2, Ages
    <3>4. PICK y \in Int : y = x * MaxSize
      BY <2>3
    <3>5. u + (y - MaxSize) + MaxSize < next
      BY <2>3, <3>2, <3>3, <3>4
    <3> QED BY <1>4, <2>1, <3>4, <3>5
  <2>5. k = Current => u + x * MaxSize < next
    <3>1. SUFFICES ASSUME k = Current PROVE u + x * MaxSize < next
      OBVIOUS
    <3>2. x = 0 - crashes
      BY <1>3, <2>1, <2>2, <3>1
    <3>3. crashes * MaxSize >= 0 /\ x * MaxSize = 0 - crashes * MaxSize /\ crashes * MaxSize \in Int
      BY <2>1, <3>2, Multiples
    <3>4. PICK y \in Int : y = crashes * MaxSize
      BY <3>3
    <3> QED BY <2>1, <3>3, <3>4
  <2>6. k # Current' => Age(k)' - 1 - crashes = x
    BY <1>2, <1>3, <2>1, <2>2, Ages
  <2>7. k = Current' => Number - 1 - crashes = x
    BY <1>3, <2>2
  <2>8. u + x * MaxSize < next
    BY <2>4, <2>5
  <2>9. u + x * MaxSize + 0 < next
    BY <2>1, <2>3, <2>8
  <2> QED BY <2>1, <2>6, <2>7, <2>8, <2>9
<1>6. Kept' = Kept
  BY <1>1 DEF Kept
<1>7. LostInv'
  BY <1>1, <1>6 DEF RingInv, LostInv
<1>8. SortedInv'
  <2>1. \A k \in FileSn : \A i, j \in DOMAIN file[k] : i < j => file[k][i] < file[k][j]
    BY DEF RingInv, SortedInv
  <2>2. ASSUME crashes = 0, NEW a \in FileSn, NEW b \in FileSn, Age(a)' > Age(b)', b # Current',
               NEW u \in ToSet(file[a]), NEW v \in ToSet(file[b])
        PROVE  u < v
    <3>1. Age(a) \in 0 .. Number - 1 /\ Age(b) \in 0 .. Number - 1
      BY <1>2, Ages
    <3>2. a # Current' /\ Age(b)' = Age(b) + 1
      BY <1>3, <2>2, <3>1, NumberAssumption
    <3>3. Age(a) > Age(b)
      BY <1>3, <2>2, <3>1, <3>2, NumberAssumption
    <3> QED BY <1>1, <2>2, <3>3 DEF RingInv, SortedInv, Stale
  <2> QED BY <1>1, <2>1, <2>2 DEF SortedInv, Stale
<1>9. TurnInv'
  BY <1>1, <1>2, <1>3 DEF TurnInv
<1> QED BY <1>5, <1>7, <1>8, <1>9 DEF RingInv

LEMMA TruncateRing ==
  ASSUME RingInv, TypeOK', Truncate
  PROVE  RingInv'
<1>1. /\ pc = "truncate" /\ pc' = "open" /\ file' = [file EXCEPT ![file_sn] = <<>>]
      /\ UNCHANGED <<sn, file_sn, next, crashes>>
  BY DEF Truncate
<1>2. TypeOK /\ file_sn = Current /\ Stale /\ ~Stale'
  BY <1>1 DEF RingInv, TurnInv, Stale
<1>3. PICK c \in FileSn : c = Current /\ c = Current'
  BY <1>1, <1>2, Ages DEF Current
<1>4. \A k \in FileSn : file'[k] = IF k = c THEN <<>> ELSE file[k]
  BY <1>1, <1>2, <1>3 DEF TypeOK
<1>5. \A k : Age(k)' = Age(k)
  BY <1>1 DEF Age, Current
<1>6. Filled' = 0
  BY <1>3, <1>4, SizeAssumption DEF Filled
<1>7. ToSet(file'[c]) = {}
  BY <1>4 DEF ToSet
<1>8. AgeInv'
  <2> SUFFICES ASSUME NEW k \in FileSn, NEW u \in ToSet(file[k]), k # c
               PROVE  u < next /\ u + (Age(k) - 1 - crashes) * MaxSize + 0 < next
    BY <1>1, <1>2, <1>3, <1>4, <1>5, <1>6, <1>7 DEF AgeInv
  <2> QED BY <1>2, <1>3 DEF RingInv, AgeInv
<1>9. LostInv'
  <2> SUFFICES ASSUME NEW u \in 1 .. next - 1, u \notin Kept'
               PROVE  u + (Number - 1 - crashes) * MaxSize < next
    BY <1>1 DEF LostInv
  <2>1. CASE u \in ToSet(file[c])
    BY <1>2, <1>3, <2>1 DEF RingInv, AgeInv
  <2>2. CASE u \notin ToSet(file[c])
    <3>1. \A k \in FileSn : u \notin ToSet(file'[k])
      BY DEF Kept
    <3>2. \A k \in FileSn : u \notin ToSet(file[k])
      BY <1>4, <2>2, <3>1
    <3>3. u \notin Kept
      BY <3>2 DEF Kept
    <3> QED BY <3>3 DEF RingInv, LostInv
  <2> QED BY <2>1, <2>2
<1>10. SortedInv'
  <2>1. ASSUME NEW k \in FileSn, NEW i \in DOMAIN file'[k], NEW j \in DOMAIN file'[k], i < j
        PROVE  file'[k][i] < file'[k][j]
    <3>1. k # c
      BY <1>4, <2>1
    <3> QED BY <1>4, <2>1, <3>1 DEF RingInv, SortedInv
  <2>2. ASSUME crashes = 0, NEW a \in FileSn, NEW b \in FileSn, Age(a) > Age(b),
               NEW u \in ToSet(file'[a]), NEW v \in ToSet(file'[b])
        PROVE  u < v
    <3>1. a # c /\ b # c
      BY <1>7, <2>2
    <3>2. u \in ToSet(file[a]) /\ v \in ToSet(file[b])
      BY <1>4, <2>2, <3>1
    <3> QED BY <1>3, <2>2, <3>1, <3>2 DEF RingInv, SortedInv
  <2> QED BY <1>1, <1>5, <2>1, <2>2 DEF SortedInv
<1>11. TurnInv'
  BY <1>1, <1>2, <1>3 DEF TurnInv
<1> QED BY <1>8, <1>9, <1>10, <1>11 DEF RingInv

\* The newest unit is appended to the current file.
LEMMA AppendRing ==
  ASSUME RingInv, TypeOK', AppendUnit
  PROVE  RingInv'
<1>1. /\ pc = "append" /\ file' = [file EXCEPT ![file_sn] = Append(@, next)]
      /\ next' = next + 1 /\ UNCHANGED <<sn, pc, file_sn, crashes>>
  BY DEF AppendUnit
<1>2. TypeOK /\ file_sn = Current /\ ~Stale /\ ~Stale'
  BY <1>1 DEF RingInv, TurnInv, Stale
<1>3. PICK c \in FileSn : c = Current /\ c = Current'
  BY <1>1, <1>2, Ages DEF Current
<1>4. PICK s \in Seq(1 .. MaxUnit) : s = file[c]
  BY <1>2 DEF TypeOK
<1>5. PICK n \in Nat : n = Len(s)
  BY LenProperties
<1>6. file'[c] = Append(s, next) /\ \A k \in FileSn : k # c => file'[k] = file[k]
  BY <1>1, <1>2, <1>3, <1>4 DEF TypeOK
<1>7. next \in Nat \ {0} /\ next' = next + 1
  BY <1>1, <1>2, Ages
<1>8. /\ Len(file'[c]) = n + 1 /\ DOMAIN file'[c] = 1 .. n + 1 /\ DOMAIN s = 1 .. n
      /\ \A i \in 1 .. n : file'[c][i] = s[i]
      /\ file'[c][n + 1] = next
  <2>1. s \in Seq(Nat) /\ next \in Nat
    BY <1>4, <1>7, BoundAssumption
  <2> QED BY <1>4, <1>5, <1>6, <2>1, AppendProperties, LenProperties
<1>9. \A u : u \in ToSet(file'[c]) <=> u \in ToSet(s) \/ u = next
  BY <1>5, <1>8 DEF ToSet
<1>10. \A k : Age(k)' = Age(k)
  BY <1>1 DEF Age, Current
<1>11. Filled' <= Filled + 1 /\ Filled \in Nat /\ Filled' \in Nat
  <2>1. Filled = IF n < MaxSize THEN n ELSE MaxSize
    BY <1>3, <1>4, <1>5 DEF Filled
  <2>2. Filled' = IF n + 1 < MaxSize THEN n + 1 ELSE MaxSize
    BY <1>3, <1>8 DEF Filled
  <2> QED BY <2>1, <2>2, SizeAssumption
<1>12. \A k \in FileSn : \A u \in ToSet(file[k]) : u < next /\ u \in Nat
  <2>1. ASSUME NEW k \in FileSn, NEW u \in ToSet(file[k]) PROVE u \in Nat
    <3>1. file[k] \in Seq(1 .. MaxUnit)
      BY <1>2 DEF TypeOK
    <3> QED BY <3>1, BoundAssumption DEF ToSet
  <2> QED BY <2>1 DEF RingInv, AgeInv
<1>13. AgeInv'
  <2>0. \A u \in ToSet(s) : u < next + 1
    <3>1. \A u \in ToSet(s) : u < next /\ u \in Nat
      BY <1>4, <1>12
    <3> QED BY <1>7, <3>1
  <2>1. \A u \in ToSet(file'[c]) : u < next + 1
    <3>1. next < next + 1
      BY <1>7
    <3> QED BY <1>9, <2>0, <3>1
  <2>2. ASSUME NEW k \in FileSn, NEW u \in ToSet(file[k]), k # c
        PROVE  u < next + 1 /\ u + (Age(k) - 1 - crashes) * MaxSize + Filled' < next + 1
    <3>1. PICK y \in Int : y = (Age(k) - 1 - crashes) * MaxSize
      <4>1. Age(k) - 1 - crashes \in Int
        BY <1>2, Ages
      <4>2. PICK x \in Int : x = Age(k) - 1 - crashes
        BY <4>1
      <4>3. x * MaxSize \in Int
        BY Multiples
      <4> QED BY <4>2, <4>3
    <3>2. u + y + Filled < next
      BY <1>2, <1>3, <2>2, <3>1 DEF RingInv, AgeInv
    <3>3. u \in Nat /\ u < next
      BY <1>12, <2>2
    <3>4. u + y + Filled' < next + 1
      <4>1. PICK f \in Nat : f = Filled
        BY <1>11
      <4>2. PICK g \in Nat : g = Filled' /\ g <= f + 1
        BY <1>11, <4>1
      <4>3. PICK n1 \in Nat : n1 = next
        BY <1>7
      <4>4. u + y + f < n1
        BY <3>2, <4>1, <4>3
      <4>5. u + y + g < n1 + 1
        <5>1. g <= f + 1
          BY <4>2
        <5>2. PICK z \in Int : z = u + y
          BY <3>3
        <5>3. z + f < n1
          BY <4>4, <5>2
        <5>4. z + g < n1 + 1
          BY <5>1, <5>3
        <5> QED BY <5>2, <5>4
      <4> QED BY <4>2, <4>3, <4>5
    <3>5. u < next + 1
      BY <1>7, <3>3
    <3> QED BY <3>1, <3>4, <3>5
  <2> QED BY <1>1, <1>2, <1>3, <1>6, <1>10, <2>1, <2>2 DEF AgeInv
<1>14. LostInv'
  <2> SUFFICES ASSUME NEW u \in 1 .. next, u \notin Kept'
               PROVE  u + (Number - 1 - crashes) * MaxSize < next + 1
    BY <1>1, <1>7 DEF LostInv
  <2>1. \A k \in FileSn : u \notin ToSet(file'[k])
    BY DEF Kept
  <2>2. u # next /\ \A k \in FileSn : u \notin ToSet(file[k])
    BY <1>3, <1>4, <1>6, <1>9, <2>1
  <2>3. u \in 1 .. next - 1 /\ u \notin Kept
    BY <1>7, <2>2 DEF Kept
  <2>4. PICK y \in Int : y = (Number - 1 - crashes) * MaxSize
    <3>1. PICK x \in Int : x = Number - 1 - crashes
      BY <1>2, Ages, NumberAssumption
    <3>2. x * MaxSize \in Int
      BY Multiples
    <3> QED BY <3>1, <3>2
  <2>5. u + y < next
    BY <2>3, <2>4 DEF RingInv, LostInv
  <2>6. u + y < next + 1
    BY <1>7, <2>5
  <2> QED BY <2>4, <2>6
<1>15. SortedInv'
  <2>1. ASSUME NEW i \in 1 .. n + 1, NEW j \in 1 .. n + 1, i < j PROVE file'[c][i] < file'[c][j]
    <3>1. i \in 1 .. n
      BY <1>5, <2>1
    <3>2. CASE j = n + 1
      <4>1. s[i] \in ToSet(s)
        BY <1>8, <3>1 DEF ToSet
      <4> QED BY <1>3, <1>4, <1>8, <1>12, <3>1, <3>2, <4>1
    <3>3. CASE j # n + 1
      <4>1. j \in 1 .. n
        BY <1>5, <3>3
      <4>2. s[i] < s[j]
        BY <1>3, <1>4, <1>8, <2>1, <3>1, <4>1 DEF RingInv, SortedInv
      <4> QED BY <1>8, <3>1, <4>1, <4>2
    <3> QED BY <3>2, <3>3
  <2>2. \A k \in FileSn : \A i, j \in DOMAIN file'[k] : i < j => file'[k][i] < file'[k][j]
    <3> SUFFICES ASSUME NEW k \in FileSn, NEW i \in DOMAIN file'[k], NEW j \in DOMAIN file'[k], i < j
                 PROVE  file'[k][i] < file'[k][j]
      OBVIOUS
    <3>1. CASE k = c
      BY <1>8, <2>1, <3>1
    <3>2. CASE k # c
      BY <1>6, <3>2 DEF RingInv, SortedInv
    <3> QED BY <3>1, <3>2
  <2>3. ASSUME crashes = 0, NEW a \in FileSn, NEW b \in FileSn, Age(a) > Age(b),
               NEW u \in ToSet(file'[a]), NEW v \in ToSet(file'[b])
        PROVE  u < v
    <3>1. a # c
      BY <1>2, <1>3, <2>3, Ages
    <3>2. u \in ToSet(file[a]) /\ u < next
      BY <1>6, <1>12, <2>3, <3>1
    <3>3. CASE v = next
      BY <3>2, <3>3
    <3>4. CASE v # next
      <4>1. v \in ToSet(file[b])
        BY <1>4, <1>6, <1>9, <2>3, <3>4
      <4> QED BY <1>2, <2>3, <3>2, <4>1 DEF RingInv, SortedInv
    <3> QED BY <3>3, <3>4
  <2> QED BY <1>1, <1>10, <2>2, <2>3 DEF SortedInv
<1>16. TurnInv'
  BY <1>1, <1>2, <1>3 DEF TurnInv
<1> QED BY <1>13, <1>14, <1>15, <1>16 DEF RingInv

LEMMA NextRing == ~SnFails => (RingInv /\ [Next]_vars => RingInv')
<1> SUFFICES ASSUME ~SnFails, RingInv, [Next]_vars PROVE RingInv'
  OBVIOUS
<1>1. TypeOK'
  BY NextTypeOK DEF RingInv
<1>2. CASE Look
  <2>1. Current' = Current /\ file' = file
    BY <1>2 DEF Look, Current, disk
  <2>2. CASE TooBig(Current)
    <3>1. file_sn' = InRange(Current + 1) /\ pc' = "write sn" /\ TooBig(Current)'
      BY <1>2, <2>1, <2>2 DEF Look, Current, TooBig
    <3> QED BY <1>1, <1>2, <2>1, <3>1, KeptRing DEF Look, TurnInv, Stale
  <2>3. CASE ~TooBig(Current)
    <3>1. file_sn' = Current /\ pc' = "open"
      BY <1>2, <2>3 DEF Look, Current
    <3> QED BY <1>1, <1>2, <2>1, <3>1, KeptRing DEF Look, TurnInv, Stale
  <2> QED BY <2>2, <2>3
<1>3. CASE WriteSn
  BY <1>1, <1>3, WriteSnRing
<1>4. CASE Truncate
  BY <1>1, <1>4, TruncateRing
<1>5. CASE Open \/ Drained
  <2>1. /\ pc \in {"open", "append"} /\ pc' \in {"append", "idle"} /\ file_sn' = file_sn
        /\ UNCHANGED <<disk, next, crashes>>
    BY <1>5 DEF Open, Drained
  <2>2. Current' = Current /\ file_sn = Current
    BY <2>1 DEF RingInv, TurnInv, Current, disk
  <2>3. TurnInv'
    BY <2>1, <2>2 DEF TurnInv
  <2> QED BY <1>1, <2>1, <2>3, KeptRing DEF Stale
<1>6. CASE AppendUnit
  BY <1>1, <1>6, AppendRing
<1>7. CASE Crash
  BY <1>1, <1>7, CrashRing
<1>8. CASE UNCHANGED vars
  BY <1>8 DEF vars, disk, RingInv, TypeOK, TurnInv, TooBig, AgeInv, Stale, Filled, LostInv, Kept,
              SortedInv, Age, Current
<1> QED BY <1>2, <1>3, <1>4, <1>5, <1>6, <1>7, <1>8 DEF Next

\* RingKept of the runs, for any number and size of files: the newest units are
\* on the disk whatever the order of the system calls and of the crashes
\* between them, and the files are in the order of the ring as long as none
\* comes, if the sn file can be written (log_file.c:256-275).
THEOREM NewestKept ==
  ASSUME ~SnFails
  PROVE  Spec => []RingKept
<1>1. RingInv => RingKept
  <2> SUFFICES ASSUME RingInv PROVE RingKept
    OBVIOUS
  <2>1. ASSUME NEW u \in 1 .. next - 1, u >= next - (Number - 1 - crashes) * MaxSize PROVE u \in Kept
    <3>1. Number - 1 - crashes \in Int /\ next \in Int
      BY Ages, NumberAssumption DEF RingInv
    <3>2. PICK y \in Int : y = (Number - 1 - crashes) * MaxSize
      <4>1. PICK x \in Int : x = Number - 1 - crashes
        BY <3>1
      <4>2. x * MaxSize \in Int
        BY Multiples
      <4> QED BY <4>1, <4>2
    <3>3. u \notin Kept => u + y < next
      BY <3>2 DEF RingInv, LostInv
    <3> QED BY <2>1, <3>1, <3>2, <3>3
  <2>2. SortedInv
    BY DEF RingInv
  <2> QED BY <2>1, <2>2 DEF RingKept, SortedInv, Stale
<1>2. RingInv /\ [Next]_vars => RingInv'
  BY NextRing
<1> QED BY <1>1, <1>2, InitRing, PTL DEF Spec

-----------------------------------------------------------------------------
\* A set of numbers has a least one; what follows uses it for induction.
LEMMA Least == ASSUME NEW T \in SUBSET Nat, T # {} PROVE \E n \in T : \A m \in T : n <= m
<1>1. PICK n \in T : \A m \in T : ~(<<m, n>> \in OpToRel(<, Nat))
  BY WFMin, NatLessThanWellFounded
<1>2. OpToRel(<, Nat) = {ss \in Nat \X Nat : ss[1] < ss[2]}
  BY Zenon DEF OpToRel
<1>3. ASSUME NEW m \in T PROVE n <= m
  <2>1. <<m, n>> \notin {ss \in Nat \X Nat : ss[1] < ss[2]}
    BY <1>1, <1>2
  <2>2. ~(m < n)
    BY <2>1
  <2> QED BY <2>2
<1> QED BY <1>3

MinOf(T, rank) == CHOOSE n \in T : \A m \in T : rank[n] <= rank[m]

LEMMA MinIsLeast ==
    ASSUME NEW S, NEW rank \in [S -> Nat], NEW T \in SUBSET S, T # {}
    PROVE  MinOf(T, rank) \in T /\ \A m \in T : rank[MinOf(T, rank)] <= rank[m]
<1> DEFINE R == {rank[n] : n \in T}
<1>1. R \in SUBSET Nat /\ R # {}
  OBVIOUS
<1>2. PICK r \in R : \A m \in R : r <= m
  BY <1>1, Least
<1>3. \E n \in T : \A m \in T : rank[n] <= rank[m]
  BY <1>2
<1> QED BY <1>3 DEF MinOf

\* f sorts the sets of D: Sorted is the choice of such a function.
Sorts(f, D, rank) ==
    f = [rest \in D |-> IF rest = {} THEN <<>>
                        ELSE <<MinOf(rest, rank)>> \o f[rest \ {MinOf(rest, rank)}]]
Small(names, k) == {T \in SUBSET names : Cardinality(T) <= k}

LEMMA LessOne ==
    ASSUME NEW names, IsFiniteSet(names), NEW rank \in [names -> Nat], NEW T \in SUBSET names, T # {},
           NEW n, n = MinOf(T, rank)
    PROVE  /\ n \in T /\ T \ {n} \in SUBSET names
           /\ Cardinality(T) \in Nat /\ Cardinality(T \ {n}) \in Nat
           /\ Cardinality(T \ {n}) = Cardinality(T) - 1
<1>1. n \in T
  BY MinIsLeast
<1>2. IsFiniteSet(T)
  BY FS_Subset
<1>3. IsFiniteSet(T \ {n}) /\ Cardinality(T \ {n}) = Cardinality(T) - 1
  BY <1>1, <1>2, FS_RemoveElement
<1>4. Cardinality(T) \in Nat /\ Cardinality(T \ {n}) \in Nat
  BY <1>2, <1>3, FS_CardinalityType
<1> QED BY <1>1, <1>3, <1>4

LEMMA SortsExists ==
    ASSUME NEW names, IsFiniteSet(names), NEW rank \in [names -> Nat]
    PROVE  \A k \in Nat : \E f : Sorts(f, Small(names, k), rank)
<1> DEFINE Bad == {k \in Nat : ~ \E f : Sorts(f, Small(names, k), rank)}
<1>1. SUFFICES ASSUME Bad # {} PROVE FALSE
  OBVIOUS
<1>2. Bad \in SUBSET Nat
  OBVIOUS
<1>3. PICK k \in Bad : \A m \in Bad : k <= m
  BY <1>1, <1>2, Least
<1>4. k \in Nat /\ ~ \E f : Sorts(f, Small(names, k), rank)
  OBVIOUS
<1>5. \A T \in SUBSET names : IsFiniteSet(T) /\ Cardinality(T) \in Nat /\ (Cardinality(T) = 0 => T = {})
  BY FS_Subset, FS_CardinalityType, FS_EmptySet
<1>6. CASE k = 0
  <2>1. \A T \in Small(names, k) : T = {}
    BY <1>5, <1>6 DEF Small
  <2>2. Sorts([T \in Small(names, k) |-> <<>>], Small(names, k), rank)
    BY <2>1 DEF Sorts
  <2> QED BY <1>4, <2>2
<1>7. CASE k # 0
  <2>1. k - 1 \in Nat /\ k - 1 \notin Bad
    BY <1>3, <1>4, <1>7
  <2>2. PICK f : Sorts(f, Small(names, k - 1), rank)
    BY <2>1
  <2> DEFINE First(T) == MinOf(T, rank)
             g == [T \in Small(names, k) |-> IF T = {} THEN <<>> ELSE <<First(T)>> \o f[T \ {First(T)}]]
  <2>3. ASSUME NEW T \in Small(names, k), T # {} PROVE T \ {First(T)} \in Small(names, k - 1)
    <3>1. T \in SUBSET names /\ Cardinality(T) <= k
      BY DEF Small
    <3>2. /\ T \ {First(T)} \in SUBSET names
          /\ Cardinality(T) \in Nat /\ Cardinality(T \ {First(T)}) \in Nat
          /\ Cardinality(T \ {First(T)}) = Cardinality(T) - 1
      BY <2>3, <3>1, LessOne
    <3>3. Cardinality(T \ {First(T)}) <= k - 1
      BY <1>4, <3>1, <3>2
    <3> QED BY <3>2, <3>3 DEF Small
  <2>4. Small(names, k - 1) \subseteq Small(names, k)
    <3>1. ASSUME NEW T \in SUBSET names, Cardinality(T) <= k - 1 PROVE Cardinality(T) <= k
      <4>1. Cardinality(T) \in Nat
        BY <1>5
      <4> QED BY <1>4, <3>1, <4>1
    <3> QED BY <3>1 DEF Small
  <2>5. ASSUME NEW T \in Small(names, k - 1) PROVE g[T] = f[T]
    <3>1. f[T] = IF T = {} THEN <<>> ELSE <<First(T)>> \o f[T \ {First(T)}]
      BY <2>2 DEF Sorts
    <3> QED BY <2>4, <3>1
  <2>6. g = [T \in Small(names, k) |-> IF T = {} THEN <<>> ELSE <<First(T)>> \o g[T \ {First(T)}]]
    <3>1. ASSUME NEW T \in Small(names, k), T # {} PROVE g[T \ {First(T)}] = f[T \ {First(T)}]
      BY <2>3, <2>5, <3>1
    <3> QED BY <3>1
  <2>7. Sorts(g, Small(names, k), rank)
    BY <2>6 DEF Sorts
  <2> QED BY <1>4, <2>7
<1> QED BY <1>6, <1>7

LEMMA SortedSorts ==
    ASSUME NEW names, IsFiniteSet(names), NEW rank \in [names -> Nat]
    PROVE  \E f : Dated!Sorted(names, rank) = f[names] /\ Sorts(f, SUBSET names, rank)
<1>1. Cardinality(names) \in Nat
  BY FS_CardinalityType
<1>2. Small(names, Cardinality(names)) = SUBSET names
  BY FS_Subset DEF Small
<1>3. \E f : Sorts(f, SUBSET names, rank)
  <2>1. \E f : Sorts(f, Small(names, Cardinality(names)), rank)
    BY <1>1, SortsExists
  <2> QED BY <1>2, <2>1
<1> DEFINE F == CHOOSE f : Sorts(f, SUBSET names, rank)
<1>4. Sorts(F, SUBSET names, rank)
  BY <1>3
<1>5. Dated!Sorted(names, rank) = F[names]
  BY DEF Dated!Sorted, Sorts, MinOf
<1> QED BY <1>4, <1>5

\* s has each member of T once, and by rank.
IsSorting(s, T, rank) ==
    /\ s \in Seq(T)
    /\ \A n \in T : \E i \in 1 .. Len(s) : s[i] = n
    /\ \A i, j \in 1 .. Len(s) : i < j => s[i] # s[j] /\ rank[s[i]] <= rank[s[j]]

LEMMA ConsSorting ==
    ASSUME NEW S, NEW rank \in [S -> Nat], NEW T \in SUBSET S, NEW n \in T,
           \A m \in T : rank[n] <= rank[m], NEW s, IsSorting(s, T \ {n}, rank)
    PROVE  IsSorting(<<n>> \o s, T, rank)
<1> DEFINE q == <<n>> \o s
<1>1. <<n>> \in Seq(T) /\ s \in Seq(T) /\ Len(<<n>>) = 1 /\ Len(s) \in Nat /\ <<n>>[1] = n
  BY DEF IsSorting
<1>2. q \in Seq(T) /\ Len(q) = 1 + Len(s)
  BY <1>1, ConcatProperties
<1>3. \A i \in 1 .. 1 + Len(s) : q[i] = IF i <= 1 THEN <<n>>[i] ELSE s[i - 1]
  BY <1>1, ConcatProperties
<1> HIDE DEF q
<1>4. q[1] = n
  BY <1>1, <1>3
<1>5. \A i \in 1 .. Len(s) : q[i + 1] = s[i] /\ s[i] \in T /\ s[i] # n
  <2> TAKE i \in 1 .. Len(s)
  <2>1. i + 1 \in 1 .. 1 + Len(s) /\ ~(i + 1 <= 1) /\ i + 1 - 1 = i
    BY <1>1
  <2>2. q[i + 1] = s[i]
    BY <1>3, <2>1
  <2>3. s[i] \in T \ {n}
    BY DEF IsSorting
  <2> QED BY <2>2, <2>3
<1>6. ASSUME NEW m \in T PROVE \E i \in 1 .. Len(q) : q[i] = m
  <2>1. CASE m = n
    BY <1>1, <1>2, <1>4, <2>1
  <2>2. CASE m # n
    <3>1. PICK i \in 1 .. Len(s) : s[i] = m
      BY <2>2 DEF IsSorting
    <3>2. i + 1 \in 1 .. Len(q)
      BY <1>1, <1>2
    <3> QED BY <1>5, <3>1, <3>2
  <2> QED BY <2>1, <2>2
<1>7. ASSUME NEW i \in 1 .. Len(q), NEW j \in 1 .. Len(q), i < j
      PROVE  q[i] # q[j] /\ rank[q[i]] <= rank[q[j]]
  <2>1. j - 1 \in 1 .. Len(s) /\ j - 1 + 1 = j
    BY <1>1, <1>2, <1>7
  <2>2. q[j] = s[j - 1] /\ s[j - 1] \in T /\ s[j - 1] # n
    BY <1>5, <2>1
  <2>3. CASE i = 1
    BY <1>4, <2>2, <2>3
  <2>4. CASE i # 1
    <3>1. i - 1 \in 1 .. Len(s) /\ i - 1 + 1 = i /\ i - 1 < j - 1
      BY <1>1, <1>2, <1>7, <2>1, <2>4
    <3>2. q[i] = s[i - 1]
      BY <1>5, <3>1
    <3> QED BY <2>1, <2>2, <3>1, <3>2 DEF IsSorting
  <2> QED BY <2>3, <2>4
<1> QED BY <1>2, <1>6, <1>7 DEF IsSorting, q

\* The list of names that scandir and the sorting by date make of a directory
\* (log_file.c:563, :614-620) has each file once, in the order of the ranks.
THEOREM SortedIsSorting ==
    ASSUME NEW names, IsFiniteSet(names), NEW rank \in [names -> Nat]
    PROVE  IsSorting(Dated!Sorted(names, rank), names, rank)
<1>1. PICK f : Dated!Sorted(names, rank) = f[names] /\ Sorts(f, SUBSET names, rank)
  BY SortedSorts
<1>2. \A T \in SUBSET names :
         f[T] = IF T = {} THEN <<>> ELSE <<MinOf(T, rank)>> \o f[T \ {MinOf(T, rank)}]
  BY <1>1 DEF Sorts
<1> DEFINE Bad == {k \in Nat : \E T \in SUBSET names : Cardinality(T) = k /\ ~IsSorting(f[T], T, rank)}
<1>3. Bad = {}
  <2> SUFFICES ASSUME Bad # {} PROVE FALSE
    OBVIOUS
  <2>1. Bad \in SUBSET Nat
    OBVIOUS
  <2>2. PICK k \in Bad : \A m \in Bad : k <= m
    BY <2>1, Least
  <2>3. PICK T \in SUBSET names : Cardinality(T) = k /\ ~IsSorting(f[T], T, rank)
    OBVIOUS
  <2>4. CASE T = {}
    <3>1. f[T] = <<>>
      BY <1>2, <2>4
    <3> QED BY <2>3, <2>4, <3>1 DEF IsSorting
  <2>5. CASE T # {}
    <3>1. PICK n : n = MinOf(T, rank)
      OBVIOUS
    <3>2. /\ n \in T /\ T \ {n} \in SUBSET names
          /\ Cardinality(T) \in Nat /\ Cardinality(T \ {n}) \in Nat
          /\ Cardinality(T \ {n}) = Cardinality(T) - 1
      BY <2>5, <3>1, LessOne
    <3>3. \A m \in T : rank[n] <= rank[m]
      BY <2>5, <3>1, MinIsLeast
    <3>4. Cardinality(T \ {n}) \notin Bad
      BY <2>2, <2>3, <3>2
    <3>5. IsSorting(f[T \ {n}], T \ {n}, rank)
      BY <3>2, <3>4
    <3>6. IsSorting(<<n>> \o f[T \ {n}], T, rank)
      BY <3>2, <3>3, <3>5, ConsSorting
    <3>7. f[T] = <<n>> \o f[T \ {n}]
      BY <1>2, <2>5, <3>1
    <3> QED BY <2>3, <3>6, <3>7
  <2> QED BY <2>4, <2>5
<1>4. Cardinality(names) \in Nat
  BY FS_CardinalityType
<1> QED BY <1>1, <1>3, <1>4

-----------------------------------------------------------------------------
Name == [date : Nat, kind : {"log", "tgz"}]
IsLog(n) == n \in Name /\ n.kind = "log"
IsTgz(n) == n \in Name /\ n.kind = "tgz"

DatedTypeOK ==
    /\ day \in Nat /\ last_ts \in Nat /\ cur_ts \in Nat /\ dated_next \in Nat
    /\ DOMAIN files \in SUBSET Name /\ IsFiniteSet(DOMAIN files)
    /\ dated_pc \in {"idle", "clean", "open", "append", "space"}
    /\ namelist \in Seq(Name)
    /\ jobs \in SUBSET [name : Name, stage : {"start", "tar", "remove"}]
    /\ mixed \in BOOLEAN

LEMMA LogIsName == \A d \in Nat : Dated!Log(d) \in Name /\ Dated!Log(d).kind = "log" /\ Dated!Log(d).date = d
BY DEF Dated!Log, Name

LEMMA ArchiveIsName ==
    \A n \in Name : /\ Dated!Archive(n) \in Name /\ Dated!Archive(n).kind = "tgz"
                    /\ Dated!Archive(n).date = n.date
                    /\ n.kind = "log" => Dated!Archive(n) # n
BY DEF Dated!Archive, Name

\* Two logs have two archives.
LEMMA ArchiveIsOwn ==
    \A m, n \in Name : m.kind = "log" /\ n.kind = "log" /\ Dated!Archive(m) = Dated!Archive(n) => m = n
<1> SUFFICES ASSUME NEW m \in Name, NEW n \in Name, m.kind = "log", n.kind = "log",
                    Dated!Archive(m) = Dated!Archive(n)
             PROVE  m = n
  OBVIOUS
<1>1. m.date = n.date
  BY ArchiveIsName
<1> QED BY <1>1 DEF Name

\* The lists of names.
LEMMA ByNameSorts ==
    ASSUME NEW names \in SUBSET Name, IsFiniteSet(names)
    PROVE  \E rank : IsSorting(Dated!ByName(names), names, rank)
<1> DEFINE rank == [n \in names |-> IF n.kind = "log" THEN 2 * n.date ELSE 2 * n.date + 1]
<1>1. rank \in [names -> Nat]
  <2>1. \A n \in names : n.date \in Nat
    BY DEF Name
  <2>2. \A d \in Nat : 2 * d \in Nat /\ 2 * d + 1 \in Nat
    OBVIOUS
  <2> QED BY <2>1, <2>2
<1>2. Dated!ByName(names) = Dated!Sorted(names, rank)
  BY DEF Dated!ByName
<1> HIDE DEF rank
<1>3. IsSorting(Dated!Sorted(names, rank), names, rank)
  BY <1>1, SortedIsSorting
<1> QED BY <1>2, <1>3

LEMMA ByDateSorts ==
    ASSUME NEW names \in SUBSET Name, IsFiniteSet(names)
    PROVE  IsSorting(Dated!ByDate(names), names, [n \in names |-> n.date])
<1> DEFINE rank == [n \in names |-> n.date]
<1>1. rank \in [names -> Nat]
  BY DEF Name
<1>2. Dated!ByDate(names) = Dated!Sorted(names, rank)
  BY DEF Dated!ByDate
<1> HIDE DEF rank
<1>3. IsSorting(Dated!Sorted(names, rank), names, rank)
  BY <1>1, SortedIsSorting
<1> QED BY <1>2, <1>3 DEF rank

\* What is done to the directory.
Directory(f) == DOMAIN f \in SUBSET Name /\ IsFiniteSet(DOMAIN f)

LEMMA WithoutDirectory ==
    ASSUME NEW n, Directory(files)
    PROVE  DOMAIN Dated!Without(n) = DOMAIN files \ {n} /\ Directory(Dated!Without(n))
<1>1. DOMAIN Dated!Without(n) = DOMAIN files \ {n}
  BY DEF Dated!Without
<1> QED BY <1>1, FS_RemoveElement DEF Directory

LEMMA WithDirectory ==
    ASSUME NEW n \in Name, NEW u, Directory(files)
    PROVE  DOMAIN Dated!With(n, u) = DOMAIN files \cup {n} /\ Directory(Dated!With(n, u))
<1>1. DOMAIN Dated!With(n, u) = DOMAIN files \cup {n}
  BY DEF Dated!With
<1> QED BY <1>1, FS_AddElement DEF Directory

LEMMA ReadsNames ==
    ASSUME DatedTypeOK, NEW j \in jobs
    PROVE  j \in [name : Name, stage : {"start", "tar", "remove"}] /\ Dated!Reads(j) \subseteq Name
BY DEF DatedTypeOK, Dated!Reads

LEMMA DatedInitTypeOK == Dated!Init => DatedTypeOK
<1> SUFFICES ASSUME Dated!Init PROVE DatedTypeOK
  OBVIOUS
<1>1. DOMAIN files = {Dated!Log(0)} /\ Dated!Log(0) \in Name
  BY LogIsName DEF Dated!Init, Dated!Undated
<1>2. IsFiniteSet({Dated!Log(0)})
  BY FS_Singleton
<1>3. namelist \in Seq(Name)
  BY EmptySeq DEF Dated!Init
<1> QED BY <1>1, <1>2, <1>3 DEF Dated!Init, DatedTypeOK

LEMMA DatedNextTypeOK == DatedTypeOK /\ [Dated!Next]_(Dated!vars) => DatedTypeOK'
<1> SUFFICES ASSUME DatedTypeOK, [Dated!Next]_(Dated!vars) PROVE DatedTypeOK'
  OBVIOUS
<1>0. Directory(files)
  BY DEF DatedTypeOK, Directory
<1>a. ASSUME Directory(files'), namelist' \in Seq(Name),
             jobs' \in SUBSET [name : Name, stage : {"start", "tar", "remove"}],
             dated_pc' \in {"idle", "clean", "open", "append", "space"}, mixed' \in BOOLEAN,
             day' \in Nat, last_ts' \in Nat, cur_ts' \in Nat, dated_next' \in Nat
      PROVE  DatedTypeOK'
  BY <1>a DEF DatedTypeOK, Directory
<1>1. CASE Dated!Turn
  <2>1. Dated!ByName(DOMAIN files) \in Seq(Name)
    BY <1>0, ByNameSorts DEF IsSorting, Directory
  <2> QED BY <1>0, <1>1, <1>a, <2>1 DEF DatedTypeOK, Dated!Turn
<1>2. CASE Dated!CheckSpace
  <2>1. Dated!ByDate(DOMAIN files) \in Seq(Name)
    BY <1>0, ByDateSorts DEF IsSorting, Directory
  <2> QED BY <1>0, <1>2, <1>a, <2>1 DEF DatedTypeOK, Dated!CheckSpace
<1>3. CASE Dated!HandleLogFile
  <2>1. Head(namelist) \in Name /\ namelist' \in Seq(Name)
    BY <1>3, HeadTailProperties DEF DatedTypeOK, Dated!HandleLogFile
  <2>2. Directory(files')
    BY <1>0, <1>3, WithoutDirectory DEF Dated!HandleLogFile, Dated!GiveUp
  <2>3. jobs' \in SUBSET [name : Name, stage : {"start", "tar", "remove"}]
    <3>1. jobs' = jobs \/ jobs' = jobs \cup {[name |-> Head(namelist), stage |-> "start"]}
      BY <1>3 DEF Dated!HandleLogFile
    <3> QED BY <2>1, <3>1 DEF DatedTypeOK
  <2> QED BY <1>3, <1>a, <2>1, <2>2, <2>3 DEF DatedTypeOK, Dated!HandleLogFile
<1>4. CASE Dated!DeleteOldest
  <2>1. namelist' \in Seq(Name)
    BY <1>4, HeadTailProperties DEF DatedTypeOK, Dated!DeleteOldest
  <2>2. Directory(files')
    BY <1>0, <1>4, WithoutDirectory DEF Dated!DeleteOldest, Dated!GiveUp
  <2> QED BY <1>4, <1>a, <2>1, <2>2 DEF DatedTypeOK, Dated!DeleteOldest
<1>5. CASE Dated!Open
  <2>1. Dated!Log(cur_ts) \in Name
    BY LogIsName DEF DatedTypeOK
  <2>2. Directory(files')
    BY <1>0, <1>5, <2>1, WithDirectory DEF Dated!Open
  <2> QED BY <1>5, <1>a, <2>2 DEF DatedTypeOK, Dated!Open
<1>6. CASE Dated!AppendUnit
  <2>1. DOMAIN files' = DOMAIN files
    BY <1>6 DEF Dated!AppendUnit
  <2> QED BY <1>0, <1>6, <1>a, <2>1 DEF DatedTypeOK, Dated!AppendUnit, Dated!service, Directory
<1>7. CASE Dated!Crash
  BY <1>0, <1>7, <1>a, EmptySeq DEF DatedTypeOK, Dated!Crash
<1>8. CASE Dated!Tick \/ Dated!Cleaned \/ Dated!Drained \/ Dated!Checked
  BY <1>0, <1>8, <1>a DEF DatedTypeOK, Dated!Tick, Dated!Cleaned, Dated!Drained, Dated!Checked,
     Dated!service
<1>9. ASSUME NEW j \in jobs, Dated!TarBegins(j) PROVE DatedTypeOK'
  <2>1. /\ Dated!Reads(j) \subseteq Name
        /\ \A n \in Name : Dated!Archive(n) \in Name
    BY ReadsNames, ArchiveIsName
  <2>2. Directory(files')
    BY <1>0, <1>9, <2>1, WithDirectory DEF Dated!TarBegins
  <2>3. jobs' \in SUBSET [name : Name, stage : {"start", "tar", "remove"}] /\ mixed' \in BOOLEAN
    <3>1. \/ \E n \in Dated!Reads(j) : jobs' = (jobs \ {j}) \cup {[name |-> n, stage |-> "tar"]}
          \/ jobs' = jobs \ {j}
      BY <1>9 DEF Dated!TarBegins, Dated!Ended
    <3>2. mixed' \in BOOLEAN
      BY <1>9 DEF Dated!TarBegins, DatedTypeOK
    <3> QED BY <2>1, <3>1, <3>2 DEF DatedTypeOK
  <2> QED BY <1>9, <1>a, <2>2, <2>3 DEF DatedTypeOK, Dated!TarBegins, Dated!service
<1>10. ASSUME NEW j \in jobs, Dated!TarEnds(j) PROVE DatedTypeOK'
  <2>1. j \in [name : Name, stage : {"start", "tar", "remove"}] /\ Dated!Archive(j.name) \in Name
    BY ReadsNames, ArchiveIsName
  <2>2. Directory(files')
    BY <1>0, <1>10, <2>1, WithDirectory DEF Dated!TarEnds
  <2>3. jobs' \in SUBSET [name : Name, stage : {"start", "tar", "remove"}]
    BY <1>10, <2>1 DEF DatedTypeOK, Dated!TarEnds, Dated!Ended, Dated!Compress
  <2> QED BY <1>10, <1>a, <2>2, <2>3 DEF DatedTypeOK, Dated!TarEnds, Dated!service
<1>11. ASSUME NEW j \in jobs, Dated!RemoveLog(j) PROVE DatedTypeOK'
  <2>1. Directory(files')
    BY <1>0, <1>11, WithoutDirectory DEF Dated!RemoveLog
  <2>2. jobs' \in SUBSET [name : Name, stage : {"start", "tar", "remove"}] /\ mixed' \in BOOLEAN
    BY <1>11 DEF DatedTypeOK, Dated!RemoveLog, Dated!Ended
  <2> QED BY <1>11, <1>a, <2>1, <2>2 DEF DatedTypeOK, Dated!RemoveLog, Dated!service
<1>12. CASE UNCHANGED Dated!vars
  BY <1>0, <1>12, <1>a DEF DatedTypeOK, Dated!vars, Dated!service
<1> QED
  BY <1>1, <1>2, <1>3, <1>4, <1>5, <1>6, <1>7, <1>8, <1>9, <1>10, <1>11, <1>12 DEF Dated!Next

-----------------------------------------------------------------------------
\* While the space is checked, the list has every log there is, by date.
SpaceInv ==
    dated_pc = "space" =>
        /\ \A m \in DOMAIN files : m.kind = "log" => \E i \in 1 .. Len(namelist) : namelist[i] = m
        /\ \A i, j \in 1 .. Len(namelist) : i < j => namelist[i].date <= namelist[j].date

LEMMA NextSpaceInv == DatedTypeOK /\ SpaceInv /\ [Dated!Next]_(Dated!vars) => SpaceInv'
<1> SUFFICES ASSUME DatedTypeOK, SpaceInv, [Dated!Next]_(Dated!vars), dated_pc' = "space" PROVE SpaceInv'
  BY DEF SpaceInv
<1>0. Directory(files)
  BY DEF DatedTypeOK, Directory
<1>1. CASE Dated!CheckSpace
  <2>1. IsSorting(namelist', DOMAIN files, [n \in DOMAIN files |-> n.date]) /\ files' = files
    BY <1>0, <1>1, ByDateSorts DEF Dated!CheckSpace, Directory
  <2>2. \A i \in 1 .. Len(namelist') : namelist'[i] \in DOMAIN files
    BY <2>1 DEF IsSorting
  <2> QED BY <2>1, <2>2 DEF SpaceInv, IsSorting
<1>2. CASE Dated!DeleteOldest
  <2>1. /\ Len(namelist) \in Nat /\ Len(namelist) > 0 /\ namelist[1] = Head(namelist)
        /\ Len(namelist') = Len(namelist) - 1
        /\ \A i \in 1 .. Len(namelist') : namelist'[i] = namelist[i + 1]
    BY <1>2, HeadTailProperties DEF DatedTypeOK, Dated!DeleteOldest
  <2>2. DOMAIN files' = DOMAIN files \ {namelist[1]}
    BY <1>0, <1>2, <2>1, WithoutDirectory DEF Dated!DeleteOldest, Dated!GiveUp
  <2>3. dated_pc = "space"
    BY <1>2 DEF Dated!DeleteOldest
  <2>4. ASSUME NEW m \in DOMAIN files', m.kind = "log" PROVE \E i \in 1 .. Len(namelist') : namelist'[i] = m
    <3>1. PICK i \in 1 .. Len(namelist) : namelist[i] = m
      BY <2>2, <2>3, <2>4 DEF SpaceInv
    <3>2. i # 1
      BY <2>2, <3>1
    <3>3. i - 1 \in 1 .. Len(namelist') /\ i - 1 + 1 = i
      BY <2>1, <3>2
    <3> QED BY <2>1, <3>1, <3>3
  <2>5. ASSUME NEW i \in 1 .. Len(namelist'), NEW j \in 1 .. Len(namelist'), i < j
        PROVE  namelist'[i].date <= namelist'[j].date
    <3>1. i + 1 \in 1 .. Len(namelist) /\ j + 1 \in 1 .. Len(namelist) /\ i + 1 < j + 1
      BY <2>1, <2>5
    <3>2. namelist[i + 1].date <= namelist[j + 1].date
      BY <2>3, <3>1 DEF SpaceInv
    <3> QED BY <2>1, <3>2
  <2> QED BY <2>4, <2>5 DEF SpaceInv
<1>3. ASSUME dated_pc = "space", namelist' = namelist,
             \A m \in DOMAIN files' : m.kind = "log" => m \in DOMAIN files
      PROVE  SpaceInv'
  BY <1>3 DEF SpaceInv
<1>4. ASSUME NEW j \in jobs, Dated!TarBegins(j) PROVE SpaceInv'
  <2>1. /\ Dated!Reads(j) \subseteq Name
        /\ \A n \in Name : Dated!Archive(n) \in Name /\ Dated!Archive(n).kind = "tgz"
    BY ReadsNames, ArchiveIsName
  <2>2. files' = files \/ \E n \in Name : files' = Dated!With(Dated!Archive(n), {})
    BY <1>4, <2>1 DEF Dated!TarBegins
  <2>3. files' = files \/ \E n \in Name : DOMAIN files' = DOMAIN files \cup {Dated!Archive(n)}
    <3>1. CASE files' = files
      BY <3>1
    <3>2. CASE \E n \in Name : files' = Dated!With(Dated!Archive(n), {})
      <4>1. PICK n \in Name : files' = Dated!With(Dated!Archive(n), {})
        BY <3>2
      <4>2. DOMAIN Dated!With(Dated!Archive(n), {}) = DOMAIN files \cup {Dated!Archive(n)}
        BY <1>0, <2>1, WithDirectory
      <4> QED BY <4>1, <4>2
    <3> QED BY <2>2, <3>1, <3>2
  <2>4. \A m \in DOMAIN files' : m.kind = "log" => m \in DOMAIN files
    BY <2>1, <2>3
  <2> QED BY <1>3, <1>4, <2>4 DEF Dated!TarBegins, Dated!service
<1>5. ASSUME NEW j \in jobs, Dated!TarEnds(j) PROVE SpaceInv'
  <2>1. Dated!Archive(j.name) \in Name /\ Dated!Archive(j.name).kind = "tgz"
    BY ReadsNames, ArchiveIsName
  <2>2. \A m \in DOMAIN files' : m.kind = "log" => m \in DOMAIN files
    BY <1>0, <1>5, <2>1, WithDirectory DEF Dated!TarEnds
  <2> QED BY <1>3, <1>5, <2>2 DEF Dated!TarEnds, Dated!service
<1>6. ASSUME NEW j \in jobs, Dated!RemoveLog(j) PROVE SpaceInv'
  <2>1. \A m \in DOMAIN files' : m.kind = "log" => m \in DOMAIN files
    BY <1>0, <1>6, WithoutDirectory DEF Dated!RemoveLog
  <2> QED BY <1>3, <1>6, <2>1 DEF Dated!RemoveLog, Dated!service
<1>7. CASE Dated!Tick \/ UNCHANGED Dated!vars
  BY <1>3, <1>7 DEF Dated!Tick, Dated!vars, Dated!service
<1>8. CASE \/ Dated!Turn \/ Dated!HandleLogFile \/ Dated!Cleaned \/ Dated!Open
           \/ Dated!AppendUnit \/ Dated!Drained \/ Dated!Checked \/ Dated!Crash
  BY <1>8 DEF Dated!Turn, Dated!HandleLogFile, Dated!Cleaned, Dated!Open, Dated!AppendUnit,
     Dated!Drained, Dated!Checked, Dated!Crash, Dated!service
<1> QED BY <1>1, <1>2, <1>4, <1>5, <1>6, <1>7, <1>8 DEF Dated!Next

\* The log that goes for want of room is the oldest.
LEMMA NextOldest ==
    ASSUME DatedTypeOK, SpaceInv, [Dated!Next]_(Dated!vars),
           dated_pc = "space", DOMAIN files' # DOMAIN files, given_up' # given_up
    PROVE  /\ Dated!Free < Required
           /\ \A n \in DOMAIN files \ DOMAIN files', m \in DOMAIN files :
                 m.kind = "log" => m.date >= n.date
<1>0. Directory(files)
  BY DEF DatedTypeOK, Directory
<1>1. Dated!DeleteOldest
  BY DEF Dated!Next, Dated!Tick, Dated!Turn, Dated!HandleLogFile, Dated!Cleaned, Dated!Open,
     Dated!AppendUnit, Dated!Drained, Dated!CheckSpace, Dated!Checked,
     Dated!Crash, Dated!TarBegins, Dated!TarEnds, Dated!RemoveLog, Dated!vars
<1>2. Len(namelist) \in Nat /\ Len(namelist) > 0 /\ namelist[1] = Head(namelist)
  BY <1>1 DEF DatedTypeOK, Dated!DeleteOldest
<1>3. DOMAIN files' = DOMAIN files \ {namelist[1]}
  BY <1>0, <1>1, <1>2, WithoutDirectory DEF Dated!DeleteOldest, Dated!GiveUp
<1>4. ASSUME NEW m \in DOMAIN files, m.kind = "log" PROVE m.date >= namelist[1].date
  <2>1. PICK i \in 1 .. Len(namelist) : namelist[i] = m
    BY <1>4 DEF SpaceInv
  <2>2. 1 \in 1 .. Len(namelist) /\ namelist[1] \in Name /\ m \in Name
    BY <1>0, <1>2 DEF DatedTypeOK, Directory
  <2>3. namelist[1].date \in Nat /\ m.date \in Nat
    BY <2>2 DEF Name
  <2>4. i = 1 \/ 1 < i
    BY <1>2
  <2>5. namelist[1].date <= m.date
    BY <2>1, <2>2, <2>3, <2>4 DEF SpaceInv
  <2> QED BY <2>3, <2>5
<1> QED BY <1>1, <1>3, <1>4 DEF Dated!DeleteOldest

\* The space check gives up a file only when no log of an older date is left, and
\* only while there is no room, for any number of files, dates and units
\* (log_file.c:613, "Will delete oldest log files").
THEOREM OldestFirstHolds == Dated!Spec => OldestFirst
<1>1. Dated!Init => DatedTypeOK /\ SpaceInv
  BY DatedInitTypeOK DEF Dated!Init, SpaceInv
<1>2. DatedTypeOK /\ SpaceInv /\ [Dated!Next]_(Dated!vars) => DatedTypeOK' /\ SpaceInv'
  BY DatedNextTypeOK, NextSpaceInv
<1>3. DatedTypeOK /\ SpaceInv /\ [Dated!Next]_(Dated!vars) =>
         [dated_pc = "space" /\ DOMAIN files' # DOMAIN files /\ given_up' # given_up =>
           /\ Dated!Free < Required
           /\ \A n \in DOMAIN files \ DOMAIN files', m \in DOMAIN files :
                 m.kind = "log" => m.date >= n.date]_(Dated!vars)
  BY NextOldest
<1> QED BY <1>1, <1>2, <1>3, PTL DEF Dated!Spec, OldestFirst, Dated!OldestFirst

-----------------------------------------------------------------------------
\* What was written is kept, when the date does not change during a turn or a
\* compression and no thread has read the name of another file.
In(f, n) == IF n \in DOMAIN f THEN f[n] ELSE {}

\* The names whose log may get an archive, which the archive holds no more than.
ToArchive(n) == \/ dated_pc = "clean" /\ \E i \in 1 .. Len(namelist) : namelist[i] = n
                \/ \E j \in jobs : j.name = n /\ j.stage # "remove"
                \/ Dated!Exists(n)

\* The compress threads are of dates before that of the turn.
DayInv ==
    /\ day > 0
    /\ dated_pc \in {"clean", "open", "append"} => cur_ts = day /\ last_ts = day
    /\ jobs # {} => last_ts = day
    /\ last_ts <= day
PastInv ==
    /\ \A j \in jobs : j.name.kind = "log" /\ j.name.date < day
    /\ \A n \in DOMAIN files : n.kind = "tgz" => n.date < day
    /\ dated_pc = "append" => Dated!Exists(Dated!Log(cur_ts))

\* A name has one thread, or is one that the scan has yet to look at.
OneThreadInv ==
    /\ \A j, k \in jobs : j.name = k.name => j = k
    /\ dated_pc = "clean" =>
          /\ \A a, b \in 1 .. Len(namelist) : a < b => namelist[a] # namelist[b]
          /\ \A a \in 1 .. Len(namelist), j \in jobs : namelist[a] # j.name

\* An archive that may be written again holds no more than its log; when the log
\* is to be removed the archive holds it all.
ArchiveInv ==
    \A n \in Name : n.kind = "log" /\ ToArchive(n) =>
       In(files, Dated!Archive(n)) \subseteq In(files, n) \cup given_up
RemoveInv ==
    \A j \in jobs : j.stage = "remove" =>
       In(files, j.name) \subseteq In(files, Dated!Archive(j.name)) \cup given_up
WrittenInv == \A x \in 0 .. dated_next - 1 : x \in given_up \/ \E n \in Name : x \in In(files, n)

KeepInv == PastInv /\ OneThreadInv /\ ArchiveInv /\ RemoveInv /\ WrittenInv

\* What the names hold after each change of the directory.
LEMMA InWithout ==
    \A n, m : In(Dated!Without(n), m) = IF m = n THEN {} ELSE In(files, m)
BY DEF In, Dated!Without

LEMMA InWith ==
    \A n, m, u : In(Dated!With(n, u), m) = IF m = n THEN u ELSE In(files, m)
BY DEF In, Dated!With

LEMMA InGiveUp ==
    ASSUME NEW n, Dated!GiveUp(n)
    PROVE  /\ \A m : In(files', m) = IF m = n THEN {} ELSE In(files, m)
           /\ DOMAIN files' = DOMAIN files \ {n}
           /\ given_up' = given_up \cup In(files, n)
<1>1. files' = Dated!Without(n) /\ given_up' = given_up \cup (IF Dated!Exists(n) THEN files[n] ELSE {})
  BY DEF Dated!GiveUp
<1>2. DOMAIN Dated!Without(n) = DOMAIN files \ {n}
  BY DEF Dated!Without
<1> QED BY <1>1, <1>2, InWithout DEF In, Dated!Exists

LEMMA InAppend ==
    ASSUME Dated!AppendUnit
    PROVE  /\ \A m : m # Dated!Log(cur_ts) => In(files', m) = In(files, m)
           /\ In(files, Dated!Log(cur_ts)) \subseteq In(files', Dated!Log(cur_ts))
           /\ Dated!Exists(Dated!Log(cur_ts)) => dated_next \in In(files', Dated!Log(cur_ts))
           /\ DOMAIN files' = DOMAIN files
BY DEF Dated!AppendUnit, In, Dated!Exists

\* A file that is opened or created.
LEMMA InOpen ==
    ASSUME Dated!Open
    PROVE  /\ \A m : In(files', m) = In(files, m)
           /\ \/ DOMAIN files' = DOMAIN files /\ dated_pc' = "idle"
              \/ DOMAIN files' = DOMAIN files \cup {Dated!Log(cur_ts)} /\ dated_pc' = "append"
<1>1. CASE files' = files /\ (dated_pc' = "idle" \/ (dated_pc' = "append" /\ Dated!Exists(Dated!Log(cur_ts))))
  <2>1. Dated!Exists(Dated!Log(cur_ts)) => DOMAIN files = DOMAIN files \cup {Dated!Log(cur_ts)}
    BY DEF Dated!Exists
  <2> QED BY <1>1, <2>1
<1>2. CASE /\ files' = Dated!With(Dated!Log(cur_ts), {}) /\ ~Dated!Exists(Dated!Log(cur_ts))
           /\ dated_pc' = "append"
  <2>1. DOMAIN Dated!With(Dated!Log(cur_ts), {}) = DOMAIN files \cup {Dated!Log(cur_ts)}
    BY DEF Dated!With
  <2>2. \A m : In(Dated!With(Dated!Log(cur_ts), {}), m) = IF m = Dated!Log(cur_ts) THEN {} ELSE In(files, m)
    BY InWith
  <2>3. In(files, Dated!Log(cur_ts)) = {}
    BY <1>2 DEF In, Dated!Exists
  <2> QED BY <1>2, <2>1, <2>2, <2>3
<1> QED BY <1>1, <1>2 DEF Dated!Open

\* The steps of a thread that has read its own name.
Advance(j, stage) ==
    \E k : k.name = j.name /\ k.stage = stage /\ jobs' = (jobs \ {j}) \cup {k}

LEMMA TarBeginsOwn ==
    ASSUME DatedTypeOK, NEW j \in jobs, Dated!TarBegins(j), ~mixed'
    PROVE  /\ ~mixed
           /\ j.stage = "start"
           /\ \/ jobs' = jobs \ {j} /\ files' = files
              \/ /\ Advance(j, "tar")
                 /\ DOMAIN files' = DOMAIN files \cup {Dated!Archive(j.name)}
                 /\ \A m : In(files', m) = IF m = Dated!Archive(j.name) THEN {} ELSE In(files, m)
           /\ UNCHANGED <<day, last_ts, dated_pc, cur_ts, namelist, dated_next, given_up>>
<1>1. /\ ~mixed /\ j.stage = "start"
      /\ \/ jobs' = jobs \ {j} /\ files' = files
         \/ /\ jobs' = (jobs \ {j}) \cup {[name |-> j.name, stage |-> "tar"]}
            /\ files' = Dated!With(Dated!Archive(j.name), {})
  BY DEF Dated!TarBegins, Dated!Ended, DatedTypeOK
<1>2. UNCHANGED <<day, last_ts, dated_pc, cur_ts, namelist, dated_next, given_up>>
  BY DEF Dated!TarBegins, Dated!service
<1>3. CASE /\ jobs' = (jobs \ {j}) \cup {[name |-> j.name, stage |-> "tar"]}
           /\ files' = Dated!With(Dated!Archive(j.name), {})
  <2>1. Advance(j, "tar")
    BY <1>3 DEF Advance
  <2>2. DOMAIN Dated!With(Dated!Archive(j.name), {}) = DOMAIN files \cup {Dated!Archive(j.name)}
    BY DEF Dated!With
  <2> QED BY <1>1, <1>2, <1>3, <2>1, <2>2, InWith
<1> QED BY <1>1, <1>2, <1>3

LEMMA TarEndsOwn ==
    ASSUME DatedTypeOK, NEW j \in jobs, Dated!TarEnds(j)
    PROVE  /\ j.stage = "tar"
           /\ \/ jobs' = jobs \ {j} /\ files' = files
              \/ /\ Advance(j, "remove")
                 /\ Dated!Exists(j.name)
                 /\ DOMAIN files' = DOMAIN files
                 /\ \A m : In(files', m) = IF m = Dated!Archive(j.name) THEN In(files, j.name)
                                            ELSE In(files, m)
           /\ UNCHANGED <<day, last_ts, dated_pc, cur_ts, namelist, dated_next, given_up, mixed>>
<1>1. /\ j.stage = "tar"
      /\ \/ jobs' = jobs \ {j} /\ files' = files
         \/ /\ Dated!Exists(j.name) /\ Dated!Exists(Dated!Archive(j.name)) /\ Dated!Compress(j, "remove")
            /\ files' = Dated!With(Dated!Archive(j.name), files[j.name])
  BY DEF Dated!TarEnds, Dated!Ended
<1>2. UNCHANGED <<day, last_ts, dated_pc, cur_ts, namelist, dated_next, given_up, mixed>>
  BY DEF Dated!TarEnds, Dated!service
<1>3. CASE /\ Dated!Exists(j.name) /\ Dated!Exists(Dated!Archive(j.name)) /\ Dated!Compress(j, "remove")
           /\ files' = Dated!With(Dated!Archive(j.name), files[j.name])
  <2>1. Advance(j, "remove")
    <3>1. jobs' = (jobs \ {j}) \cup {[j EXCEPT !.stage = "remove"]}
      BY <1>3 DEF Dated!Compress
    <3>2. [j EXCEPT !.stage = "remove"].name = j.name /\ [j EXCEPT !.stage = "remove"].stage = "remove"
      BY ReadsNames
    <3> QED BY <3>1, <3>2 DEF Advance
  <2>2. DOMAIN Dated!With(Dated!Archive(j.name), files[j.name]) = DOMAIN files
    BY <1>3 DEF Dated!With, Dated!Exists
  <2>3. In(files, j.name) = files[j.name]
    BY <1>3 DEF In, Dated!Exists
  <2>4. \A m : In(Dated!With(Dated!Archive(j.name), files[j.name]), m) =
                 IF m = Dated!Archive(j.name) THEN files[j.name] ELSE In(files, m)
    BY InWith
  <2> QED BY <1>1, <1>2, <1>3, <2>1, <2>2, <2>3, <2>4
<1> QED BY <1>1, <1>2, <1>3

LEMMA RemoveLogOwn ==
    ASSUME DatedTypeOK, NEW j \in jobs, Dated!RemoveLog(j), ~mixed'
    PROVE  /\ ~mixed
           /\ j.stage = "remove"
           /\ jobs' = jobs \ {j}
           /\ \/ files' = files
              \/ /\ DOMAIN files' = DOMAIN files \ {j.name}
                 /\ \A m : In(files', m) = IF m = j.name THEN {} ELSE In(files, m)
           /\ UNCHANGED <<day, last_ts, dated_pc, cur_ts, namelist, dated_next, given_up>>
<1>1. /\ ~mixed /\ j.stage = "remove" /\ jobs' = jobs \ {j}
      /\ files' = files \/ files' = Dated!Without(j.name)
  BY DEF Dated!RemoveLog, Dated!Ended, DatedTypeOK
<1>2. UNCHANGED <<day, last_ts, dated_pc, cur_ts, namelist, dated_next, given_up>>
  BY DEF Dated!RemoveLog, Dated!service
<1>3. DOMAIN Dated!Without(j.name) = DOMAIN files \ {j.name}
  BY DEF Dated!Without
<1> QED BY <1>1, <1>2, <1>3, InWithout

LEMMA InitKeepInv == Dated!Init => DayInv /\ KeepInv
<1> SUFFICES ASSUME Dated!Init PROVE DayInv /\ KeepInv
  OBVIOUS
<1>1. /\ Dated!Log(0) \in Name /\ Dated!Log(0).kind = "log"
      /\ DOMAIN files = {Dated!Log(0)} /\ files[Dated!Log(0)] = {0}
  BY LogIsName DEF Dated!Init, Dated!Undated
<1>2. jobs = {} /\ dated_pc = "idle" /\ dated_next = 1 /\ day = 1 /\ last_ts = 0
  BY DEF Dated!Init
<1>3. DayInv
  BY <1>2 DEF DayInv
<1>4. PastInv /\ OneThreadInv /\ RemoveInv
  BY <1>1, <1>2 DEF PastInv, OneThreadInv, RemoveInv
<1>5. ArchiveInv
  <2> SUFFICES ASSUME NEW n \in Name, n.kind = "log" PROVE In(files, Dated!Archive(n)) = {}
    BY DEF ArchiveInv
  <2>1. Dated!Archive(n).kind = "tgz"
    BY ArchiveIsName
  <2> QED BY <1>1, <2>1 DEF In
<1>6. WrittenInv
  <2>1. \A x \in 0 .. dated_next - 1 : x = 0
    BY <1>2
  <2>2. 0 \in In(files, Dated!Log(0))
    BY <1>1 DEF In
  <2> QED BY <1>1, <2>1, <2>2 DEF WrittenInv
<1> QED BY <1>3, <1>4, <1>5, <1>6 DEF KeepInv

LEMMA NextDayInv == ~BusyMidnight /\ DatedTypeOK /\ DayInv /\ [Dated!Next]_(Dated!vars) => DayInv'
<1> SUFFICES ASSUME ~BusyMidnight, DatedTypeOK, DayInv, [Dated!Next]_(Dated!vars) PROVE DayInv'
  OBVIOUS
<1>0. day \in Nat /\ last_ts \in Nat
  BY DEF DatedTypeOK
<1>1. CASE Dated!Tick
  BY <1>0, <1>1 DEF DayInv, Dated!Tick, Dated!service
<1>2. CASE Dated!Turn
  BY <1>0, <1>2 DEF DayInv, Dated!Turn
<1>3. CASE Dated!HandleLogFile
  BY <1>0, <1>3 DEF DayInv, Dated!HandleLogFile
<1>4. CASE \/ Dated!Cleaned \/ Dated!Open \/ Dated!Drained
           \/ Dated!CheckSpace \/ Dated!DeleteOldest \/ Dated!Checked \/ Dated!Crash
  BY <1>0, <1>4 DEF DayInv, Dated!Cleaned, Dated!Open, Dated!Drained, Dated!CheckSpace,
     Dated!DeleteOldest, Dated!Checked, Dated!Crash
<1>5. CASE Dated!AppendUnit \/ UNCHANGED Dated!vars
  BY <1>0, <1>5 DEF DayInv, Dated!AppendUnit, Dated!vars, Dated!service
<1>6. ASSUME NEW j \in jobs, Dated!TarBegins(j) \/ Dated!TarEnds(j) \/ Dated!RemoveLog(j) PROVE DayInv'
  BY <1>0, <1>6 DEF DayInv, Dated!TarBegins, Dated!TarEnds, Dated!RemoveLog, Dated!service
<1> QED BY <1>1, <1>2, <1>3, <1>4, <1>5, <1>6 DEF Dated!Next

\* A name that is looked at is in the list, and is then no more in it.
LEMMA HandlePops ==
    ASSUME DatedTypeOK, Dated!HandleLogFile
    PROVE  /\ Head(namelist) = namelist[1] /\ 1 \in 1 .. Len(namelist) /\ namelist[1] \in Name
           /\ Len(namelist) \in Nat /\ Len(namelist') = Len(namelist) - 1
           /\ \A i \in 1 .. Len(namelist') :
                 /\ i + 1 \in 1 .. Len(namelist) /\ 1 < i + 1
                 /\ namelist'[i] = namelist[i + 1]
<1>1. namelist \in Seq(Name) /\ namelist # <<>> /\ namelist' = Tail(namelist)
  BY DEF DatedTypeOK, Dated!HandleLogFile
<1>2. /\ Len(namelist) \in Nat /\ Len(namelist) > 0 /\ Head(namelist) = namelist[1]
      /\ Head(namelist) \in Name
      /\ Len(Tail(namelist)) = Len(namelist) - 1
      /\ \A i \in 1 .. Len(Tail(namelist)) : Tail(namelist)[i] = namelist[i + 1]
  BY <1>1, HeadTailProperties
<1> QED BY <1>1, <1>2

\* What handle_log_file does: it leaves the file, gives it up, or starts a thread.
LEMMA HandleCases ==
    ASSUME DatedTypeOK, Dated!HandleLogFile
    PROVE  /\ dated_pc = "clean"
           /\ \/ UNCHANGED <<files, jobs, given_up>>
              \/ Dated!GiveUp(Head(namelist)) /\ UNCHANGED jobs
              \/ /\ Head(namelist).kind = "log" /\ Head(namelist).date < day
                 /\ jobs' = jobs \cup {[name |-> Head(namelist), stage |-> "start"]}
                 /\ UNCHANGED <<files, given_up>>
           /\ UNCHANGED <<day, last_ts, dated_pc, cur_ts, dated_next, mixed>>
<1>1. Head(namelist).date \in Nat /\ day \in Nat
  BY HandlePops DEF Name, DatedTypeOK
<1>2. TRUE \in Dated!MoreDaysAgo(Head(namelist).date, 1) => Head(namelist).date < day
  <2> DEFINE P == day - Head(namelist).date > 1
             Q == day - Head(namelist).date >= 1
  <2>1. P \in BOOLEAN /\ Q \in BOOLEAN
    BY <1>1
  <2>2. Dated!MoreDaysAgo(Head(namelist).date, 1) = {P, Q}
    BY Zenon DEF Dated!MoreDaysAgo
  <2>3. P \/ Q => Head(namelist).date < day
    BY <1>1
  <2> HIDE DEF P, Q
  <2>4. TRUE \in {P, Q} => P \/ Q
    BY <2>1, Zenon
  <2> QED BY <2>2, <2>3, <2>4
<1> QED BY <1>2 DEF Dated!HandleLogFile

\* Only what a thread reads or does with another name mixes them.
LEMMA MixedStays == ASSUME DatedTypeOK, [Dated!Next]_(Dated!vars), ~mixed' PROVE ~mixed
BY DEF DatedTypeOK, Dated!Next, Dated!Tick, Dated!Turn, Dated!HandleLogFile, Dated!Cleaned,
   Dated!Open, Dated!AppendUnit, Dated!Drained, Dated!CheckSpace,
   Dated!DeleteOldest, Dated!Checked, Dated!Crash, Dated!TarBegins, Dated!TarEnds,
   Dated!RemoveLog, Dated!vars

LEMMA NextPastInv ==
    ASSUME DatedTypeOK, DayInv, PastInv, [Dated!Next]_(Dated!vars), ~mixed'
    PROVE  PastInv'
<1>0. /\ day \in Nat /\ cur_ts \in Nat /\ DOMAIN files \subseteq Name
      /\ \A j \in jobs : j.name \in Name
      /\ \A n \in Name : n.date \in Nat
  BY DEF DatedTypeOK, Name
<1>1. CASE Dated!Tick
  BY <1>0, <1>1 DEF DayInv, PastInv, Dated!Exists, Dated!Tick, Dated!service
<1>2. CASE Dated!HandleLogFile
  <2>1. DOMAIN files' \subseteq DOMAIN files
    BY <1>2, HandleCases, InGiveUp
  <2>2. \A j \in jobs' : j.name.kind = "log" /\ j.name.date < day
    BY <1>2, HandleCases DEF PastInv
  <2> QED BY <1>2, <2>1, <2>2, HandleCases DEF PastInv
<1>3. CASE Dated!Open
  <2>1. \/ DOMAIN files' = DOMAIN files /\ dated_pc' = "idle"
        \/ DOMAIN files' = DOMAIN files \cup {Dated!Log(cur_ts)}
    BY <1>3, InOpen
  <2>2. Dated!Log(cur_ts).kind = "log"
    BY <1>0, LogIsName
  <2> QED BY <1>3, <2>1, <2>2 DEF PastInv, Dated!Open, Dated!Exists
<1>4. CASE Dated!AppendUnit
  <2>1. DOMAIN files' = DOMAIN files
    BY <1>4, InAppend
  <2> QED BY <1>4, <2>1 DEF PastInv, Dated!AppendUnit, Dated!service, Dated!Exists
<1>5. CASE Dated!DeleteOldest
  <2>1. DOMAIN files' \subseteq DOMAIN files
    BY <1>5, InGiveUp DEF Dated!DeleteOldest
  <2> QED BY <1>5, <2>1 DEF PastInv, Dated!DeleteOldest
<1>6. CASE Dated!Turn \/ Dated!Cleaned \/ Dated!Drained \/ Dated!CheckSpace \/ Dated!Checked
  BY <1>6 DEF PastInv, Dated!Exists, Dated!Turn, Dated!Cleaned, Dated!Drained, Dated!CheckSpace,
     Dated!Checked
<1>7. CASE Dated!Crash \/ UNCHANGED Dated!vars
  BY <1>7 DEF PastInv, Dated!Exists, Dated!Crash, Dated!vars, Dated!service
<1>8. ASSUME NEW j \in jobs, Dated!TarBegins(j) PROVE PastInv'
  <2>1. Dated!Archive(j.name).date = j.name.date /\ Dated!Archive(j.name).kind = "tgz"
    BY <1>0, ArchiveIsName
  <2>2. DOMAIN files' = DOMAIN files \/ DOMAIN files' = DOMAIN files \cup {Dated!Archive(j.name)}
    BY <1>8, TarBeginsOwn
  <2>3. \A k \in jobs' : \E i \in jobs : k.name = i.name
    BY <1>8, TarBeginsOwn DEF Advance
  <2> QED BY <1>8, <2>1, <2>2, <2>3, TarBeginsOwn DEF PastInv, Dated!Exists
<1>9. ASSUME NEW j \in jobs, Dated!TarEnds(j) PROVE PastInv'
  <2>1. DOMAIN files' = DOMAIN files
    BY <1>9, TarEndsOwn
  <2>2. \A k \in jobs' : \E i \in jobs : k.name = i.name
    BY <1>9, TarEndsOwn DEF Advance
  <2> QED BY <1>9, <2>1, <2>2, TarEndsOwn DEF PastInv, Dated!Exists
<1>10. ASSUME NEW j \in jobs, Dated!RemoveLog(j) PROVE PastInv'
  <2>1. DOMAIN files' \subseteq DOMAIN files /\ DOMAIN files \subseteq DOMAIN files' \cup {j.name}
    BY <1>10, RemoveLogOwn
  <2>2. dated_pc = "append" => Dated!Log(cur_ts) # j.name
    BY <1>0, LogIsName DEF DayInv, PastInv
  <2>3. jobs' \subseteq jobs /\ UNCHANGED <<day, dated_pc, cur_ts>>
    BY <1>10, RemoveLogOwn
  <2> QED BY <2>1, <2>2, <2>3 DEF PastInv, Dated!Exists
<1> QED BY <1>1, <1>2, <1>3, <1>4, <1>5, <1>6, <1>7, <1>8, <1>9, <1>10 DEF Dated!Next

LEMMA NextOneThreadInv ==
    ASSUME DatedTypeOK, DayInv, OneThreadInv, [Dated!Next]_(Dated!vars), ~mixed'
    PROVE  OneThreadInv'
<1>1. CASE Dated!Turn
  <2>1. CASE dated_pc' = "clean"
    <3>1. namelist' = Dated!ByName(DOMAIN files) /\ jobs = {} /\ jobs' = {}
      BY <1>1, <2>1 DEF Dated!Turn, DayInv
    <3>2. \E rank : IsSorting(Dated!ByName(DOMAIN files), DOMAIN files, rank)
      BY ByNameSorts DEF DatedTypeOK
    <3> QED BY <3>1, <3>2 DEF OneThreadInv, IsSorting
  <2>2. CASE dated_pc' # "clean"
    BY <1>1, <2>2 DEF OneThreadInv, Dated!Turn
  <2> QED BY <2>1, <2>2
<1>2. CASE Dated!HandleLogFile
  <2>1. /\ Len(namelist) \in Nat /\ Len(namelist') = Len(namelist) - 1
        /\ Head(namelist) = namelist[1] /\ 1 \in 1 .. Len(namelist)
        /\ \A i \in 1 .. Len(namelist') :
              i + 1 \in 1 .. Len(namelist) /\ 1 < i + 1 /\ namelist'[i] = namelist[i + 1]
    BY <1>2, HandlePops
  <2>2. /\ dated_pc = "clean"
        /\ jobs' = jobs \/ jobs' = jobs \cup {[name |-> namelist[1], stage |-> "start"]}
    BY <1>2, <2>1, HandleCases
  <2>3. ASSUME NEW a \in 1 .. Len(namelist'), NEW b \in 1 .. Len(namelist'), a < b
        PROVE  namelist'[a] # namelist'[b]
    <3>1. a + 1 < b + 1
      BY <2>3
    <3> QED BY <2>1, <2>2, <3>1 DEF OneThreadInv
  <2>4. ASSUME NEW a \in 1 .. Len(namelist'), NEW j \in jobs' PROVE namelist'[a] # j.name
    <3>1. a + 1 \in 1 .. Len(namelist) /\ 1 < a + 1 /\ namelist'[a] = namelist[a + 1]
      BY <2>1
    <3>2. j \in jobs \/ j.name = namelist[1]
      BY <2>2
    <3> QED BY <2>1, <2>2, <3>1, <3>2 DEF OneThreadInv
  <2>5. \A j, k \in jobs' : j.name = k.name => j = k
    BY <2>1, <2>2 DEF OneThreadInv
  <2> QED BY <2>3, <2>4, <2>5 DEF OneThreadInv
<1>3. CASE \/ Dated!Cleaned \/ Dated!Open \/ Dated!Drained
           \/ Dated!CheckSpace \/ Dated!DeleteOldest \/ Dated!Checked \/ Dated!Crash
  BY <1>3 DEF OneThreadInv, Dated!Cleaned, Dated!Open, Dated!Drained, Dated!CheckSpace,
     Dated!DeleteOldest, Dated!Checked, Dated!Crash
<1>4. CASE Dated!Tick \/ Dated!AppendUnit \/ UNCHANGED Dated!vars
  BY <1>4 DEF OneThreadInv, Dated!Tick, Dated!AppendUnit, Dated!vars, Dated!service
<1>5. ASSUME NEW j \in jobs, Dated!TarBegins(j) \/ Dated!TarEnds(j) \/ Dated!RemoveLog(j) PROVE OneThreadInv'
  <2>1. jobs' = jobs \ {j} \/ \E k : k.name = j.name /\ jobs' = (jobs \ {j}) \cup {k}
    BY <1>5, TarBeginsOwn, TarEndsOwn, RemoveLogOwn DEF Advance
  <2>2. dated_pc' = dated_pc /\ namelist' = namelist
    BY <1>5, TarBeginsOwn, TarEndsOwn, RemoveLogOwn
  <2> QED BY <2>1, <2>2 DEF OneThreadInv
<1> QED BY <1>1, <1>2, <1>3, <1>4, <1>5 DEF Dated!Next

LEMMA NextArchiveInv ==
    ASSUME DatedTypeOK, DayInv, PastInv, OneThreadInv, ArchiveInv, [Dated!Next]_(Dated!vars), ~mixed'
    PROVE  ArchiveInv'
<1> SUFFICES ASSUME NEW n \in Name, n.kind = "log", ToArchive(n)'
             PROVE  In(files', Dated!Archive(n)) \subseteq In(files', n) \cup given_up'
  BY DEF ArchiveInv
<1>0. /\ Dated!Archive(n) \in Name /\ Dated!Archive(n).kind = "tgz"
      /\ Dated!Archive(n).date = n.date /\ Dated!Archive(n) # n
      /\ \A j \in jobs : j.name \in Name /\ j.name.kind = "log" /\ Dated!Archive(j.name) # n
      /\ \A j \in jobs : j.name # n => Dated!Archive(j.name) # Dated!Archive(n)
  <2>1. \A j \in jobs : j.name \in Name /\ j.name.kind = "log"
    BY DEF DatedTypeOK, PastInv
  <2>2. \A j \in jobs : Dated!Archive(j.name).kind = "tgz"
    BY <2>1, ArchiveIsName
  <2> QED BY <2>1, <2>2, ArchiveIsName, ArchiveIsOwn
<1>a. ToArchive(n) => In(files, Dated!Archive(n)) \subseteq In(files, n) \cup given_up
  BY DEF ArchiveInv
<1>1. CASE Dated!HandleLogFile
  <2>1. /\ Head(namelist) = namelist[1] /\ 1 \in 1 .. Len(namelist)
        /\ \A i \in 1 .. Len(namelist') :
              i + 1 \in 1 .. Len(namelist) /\ namelist'[i] = namelist[i + 1]
    BY <1>1, HandlePops
  <2>2. /\ dated_pc = "clean"
        /\ \A j \in jobs' : j \in jobs \/ j.name = namelist[1]
        /\ \/ UNCHANGED <<files, given_up>>
           \/ Dated!GiveUp(Head(namelist))
    BY <1>1, <2>1, HandleCases
  <2>3. DOMAIN files' \subseteq DOMAIN files
    BY <2>2, InGiveUp
  <2>4. ToArchive(n)
    BY <2>1, <2>2, <2>3 DEF ToArchive, Dated!Exists
  <2>5. CASE UNCHANGED <<files, given_up>>
    BY <1>a, <2>4, <2>5
  <2>6. CASE Dated!GiveUp(Head(namelist))
    <3>1. /\ \A m : In(files', m) = IF m = Head(namelist) THEN {} ELSE In(files, m)
          /\ given_up' = given_up \cup In(files, Head(namelist))
      BY <2>6, InGiveUp
    <3> QED BY <1>a, <2>4, <3>1
  <2> QED BY <2>2, <2>5, <2>6
<1>2. CASE Dated!DeleteOldest
  <2>1. Dated!GiveUp(Head(namelist)) /\ dated_pc = "space" /\ dated_pc' = dated_pc /\ jobs' = jobs
    BY <1>2 DEF Dated!DeleteOldest
  <2>2. /\ \A m : In(files', m) = IF m = Head(namelist) THEN {} ELSE In(files, m)
        /\ DOMAIN files' = DOMAIN files \ {Head(namelist)}
        /\ given_up' = given_up \cup In(files, Head(namelist))
    BY <2>1, InGiveUp
  <2>3. ToArchive(n)
    BY <2>1, <2>2 DEF ToArchive, Dated!Exists
  <2> QED BY <1>a, <2>2, <2>3
<1>3. CASE Dated!Turn
  <2>1. ToArchive(n)
    <3>1. CASE dated_pc' = "clean"
      <4>1. namelist' = Dated!ByName(DOMAIN files) /\ files' = files /\ jobs' = jobs
        BY <1>3, <3>1 DEF Dated!Turn
      <4>2. Dated!ByName(DOMAIN files) \in Seq(DOMAIN files)
        BY ByNameSorts DEF DatedTypeOK, IsSorting
      <4>3. \A i \in 1 .. Len(namelist') : Dated!Exists(namelist'[i])
        BY <4>1, <4>2 DEF Dated!Exists
      <4> QED BY <4>1, <4>3 DEF ToArchive, Dated!Exists
    <3>2. CASE dated_pc' # "clean"
      BY <1>3, <3>2 DEF Dated!Turn, ToArchive, Dated!Exists
    <3> QED BY <3>1, <3>2
  <2>2. files' = files /\ given_up' = given_up
    BY <1>3 DEF Dated!Turn
  <2> QED BY <1>a, <2>1, <2>2
<1>4. CASE Dated!Open
  <2>1. dated_pc = "open" /\ dated_pc' # "clean" /\ jobs' = jobs /\ given_up' = given_up
    BY <1>4 DEF Dated!Open
  <2>2. /\ \A m : In(files', m) = In(files, m)
        /\ DOMAIN files' = DOMAIN files \/ DOMAIN files' = DOMAIN files \cup {Dated!Log(cur_ts)}
    BY <1>4, InOpen
  <2>3. CASE ToArchive(n)
    BY <1>a, <2>1, <2>2, <2>3
  <2>4. CASE ~ToArchive(n)
    <3>1. n = Dated!Log(cur_ts)
      BY <2>1, <2>2, <2>4 DEF ToArchive, Dated!Exists
    <3>2. cur_ts = day /\ n.date = day /\ day \in Nat
      BY <2>1, <3>1, LogIsName DEF DayInv, DatedTypeOK
    <3>3. ~Dated!Exists(Dated!Archive(n))
      BY <1>0, <3>2 DEF PastInv, Dated!Exists
    <3>4. In(files, Dated!Archive(n)) = {}
      BY <3>3 DEF In, Dated!Exists
    <3> QED BY <2>2, <3>4
  <2> QED BY <2>3, <2>4
<1>5. CASE Dated!AppendUnit
  <2>1. UNCHANGED <<dated_pc, namelist, jobs, given_up>>
    BY <1>5 DEF Dated!AppendUnit, Dated!service
  <2>2. /\ \A m : m # Dated!Log(cur_ts) => In(files', m) = In(files, m)
        /\ In(files, Dated!Log(cur_ts)) \subseteq In(files', Dated!Log(cur_ts))
        /\ DOMAIN files' = DOMAIN files
    BY <1>5, InAppend
  <2>3. Dated!Archive(n) # Dated!Log(cur_ts)
    BY <1>0, LogIsName DEF DatedTypeOK
  <2>4. ToArchive(n)
    BY <2>1, <2>2 DEF ToArchive, Dated!Exists
  <2> QED BY <1>a, <2>1, <2>2, <2>3, <2>4
<1>6. CASE Dated!Cleaned \/ Dated!Drained \/ Dated!CheckSpace \/ Dated!Checked \/ Dated!Crash
  <2>1. ToArchive(n)
    BY <1>6 DEF ToArchive, Dated!Exists, Dated!Cleaned, Dated!Drained, Dated!CheckSpace,
       Dated!Checked, Dated!Crash
  <2>2. files' = files /\ given_up' = given_up
    BY <1>6 DEF Dated!Cleaned, Dated!Drained, Dated!CheckSpace, Dated!Checked, Dated!Crash
  <2> QED BY <1>a, <2>1, <2>2
<1>7. CASE Dated!Tick \/ UNCHANGED Dated!vars
  <2>1. UNCHANGED <<files, given_up, dated_pc, namelist, jobs>>
    BY <1>7 DEF Dated!Tick, Dated!vars, Dated!service
  <2> QED BY <1>a, <2>1 DEF ToArchive, Dated!Exists
<1>8. ASSUME NEW j \in jobs, Dated!TarBegins(j)
      PROVE  In(files', Dated!Archive(n)) \subseteq In(files', n) \cup given_up'
  <2>1. /\ j.stage = "start"
        /\ jobs' = jobs \ {j} \/ \E k : k.name = j.name /\ jobs' = (jobs \ {j}) \cup {k}
        /\ UNCHANGED <<dated_pc, namelist, given_up>>
    BY <1>8, TarBeginsOwn DEF Advance
  <2>2. \/ files' = files
        \/ /\ DOMAIN files' = DOMAIN files \cup {Dated!Archive(j.name)}
           /\ \A m : In(files', m) = IF m = Dated!Archive(j.name) THEN {} ELSE In(files, m)
    BY <1>8, TarBeginsOwn
  <2>3. ToArchive(n)
    BY <1>0, <2>1, <2>2 DEF ToArchive, Dated!Exists
  <2> QED BY <1>0, <1>a, <2>1, <2>2, <2>3
<1>9. ASSUME NEW j \in jobs, Dated!TarEnds(j)
      PROVE  In(files', Dated!Archive(n)) \subseteq In(files', n) \cup given_up'
  <2>1. /\ j.stage = "tar"
        /\ jobs' = jobs \ {j} \/ \E k : k.name = j.name /\ jobs' = (jobs \ {j}) \cup {k}
        /\ UNCHANGED <<dated_pc, namelist, given_up>>
    BY <1>9, TarEndsOwn DEF Advance
  <2>2. \/ files' = files
        \/ /\ DOMAIN files' = DOMAIN files
           /\ \A m : In(files', m) = IF m = Dated!Archive(j.name) THEN In(files, j.name)
                                      ELSE In(files, m)
    BY <1>9, TarEndsOwn
  <2>3. ToArchive(n)
    BY <1>0, <2>1, <2>2 DEF ToArchive, Dated!Exists
  <2> QED BY <1>0, <1>a, <2>1, <2>2, <2>3
<1>10. ASSUME NEW j \in jobs, Dated!RemoveLog(j)
       PROVE  In(files', Dated!Archive(n)) \subseteq In(files', n) \cup given_up'
  <2>1. /\ j.stage = "remove" /\ jobs' = jobs \ {j}
        /\ UNCHANGED <<dated_pc, namelist, given_up>>
    BY <1>10, RemoveLogOwn
  <2>2. \/ files' = files
        \/ /\ DOMAIN files' = DOMAIN files \ {j.name}
           /\ \A m : In(files', m) = IF m = j.name THEN {} ELSE In(files, m)
    BY <1>10, RemoveLogOwn
  <2>3. ToArchive(n)
    BY <2>1, <2>2 DEF ToArchive, Dated!Exists
  <2>4. CASE files' = files
    BY <1>a, <2>1, <2>3, <2>4
  <2>5. CASE /\ DOMAIN files' = DOMAIN files \ {j.name}
             /\ \A m : In(files', m) = IF m = j.name THEN {} ELSE In(files, m)
    <3>1. n # j.name
      BY <2>1, <2>5 DEF ToArchive, Dated!Exists, OneThreadInv
    <3>2. Dated!Archive(n) # j.name
      BY <1>0
    <3> QED BY <1>a, <2>1, <2>3, <2>5, <3>1, <3>2
  <2> QED BY <2>2, <2>4, <2>5
<1> QED BY <1>1, <1>2, <1>3, <1>4, <1>5, <1>6, <1>7, <1>8, <1>9, <1>10 DEF Dated!Next

LEMMA NextRemoveInv ==
    ASSUME DatedTypeOK, DayInv, PastInv, OneThreadInv, RemoveInv, [Dated!Next]_(Dated!vars), ~mixed'
    PROVE  RemoveInv'
<1>0. /\ \A k \in jobs : k.name \in Name /\ k.name.kind = "log" /\ Dated!Archive(k.name).kind = "tgz"
      /\ \A k, i \in jobs : k # i => k.name # i.name /\ Dated!Archive(k.name) # Dated!Archive(i.name)
      /\ \A k, i \in jobs : Dated!Archive(k.name) # i.name
  <2>1. \A k \in jobs : k.name \in Name /\ k.name.kind = "log"
    BY DEF DatedTypeOK, PastInv
  <2>2. \A k \in jobs : Dated!Archive(k.name).kind = "tgz"
    BY <2>1, ArchiveIsName
  <2>3. \A k, i \in jobs : k # i => k.name # i.name
    BY DEF OneThreadInv
  <2> QED BY <2>1, <2>2, <2>3, ArchiveIsOwn
<1>a. \A k \in jobs : k.stage = "remove" =>
         In(files, k.name) \subseteq In(files, Dated!Archive(k.name)) \cup given_up
  BY DEF RemoveInv
<1>b. ASSUME \A k \in jobs' : k.stage = "remove" =>
                In(files', k.name) \subseteq In(files', Dated!Archive(k.name)) \cup given_up'
      PROVE  RemoveInv'
  BY <1>b DEF RemoveInv
<1>1. CASE Dated!HandleLogFile
  <2>1. /\ \A k \in jobs' : k \in jobs \/ k.stage = "start"
        /\ UNCHANGED <<files, given_up>> \/ Dated!GiveUp(Head(namelist))
    BY <1>1, HandleCases
  <2>2. CASE UNCHANGED <<files, given_up>>
    BY <1>a, <1>b, <2>1, <2>2
  <2>3. CASE Dated!GiveUp(Head(namelist))
    <3>1. /\ \A m : In(files', m) = IF m = Head(namelist) THEN {} ELSE In(files, m)
          /\ given_up' = given_up \cup In(files, Head(namelist))
      BY <2>3, InGiveUp
    <3> QED BY <1>a, <1>b, <2>1, <3>1
  <2> QED BY <2>1, <2>2, <2>3
<1>2. CASE Dated!DeleteOldest
  <2>1. Dated!GiveUp(Head(namelist)) /\ jobs' = jobs
    BY <1>2 DEF Dated!DeleteOldest
  <2>2. /\ \A m : In(files', m) = IF m = Head(namelist) THEN {} ELSE In(files, m)
        /\ given_up' = given_up \cup In(files, Head(namelist))
    BY <2>1, InGiveUp
  <2> QED BY <1>a, <1>b, <2>1, <2>2
<1>3. CASE Dated!Open
  <2>1. jobs' = jobs /\ given_up' = given_up
    BY <1>3 DEF Dated!Open
  <2>2. \A m : In(files', m) = In(files, m)
    BY <1>3, InOpen
  <2> QED BY <1>a, <1>b, <2>1, <2>2
<1>4. CASE Dated!AppendUnit
  <2>1. jobs' = jobs /\ given_up' = given_up /\ dated_pc = "append"
    BY <1>4 DEF Dated!AppendUnit
  <2>2. \A m : m # Dated!Log(cur_ts) => In(files', m) = In(files, m)
    BY <1>4, InAppend
  <2>3. Dated!Log(cur_ts).date = day /\ Dated!Log(cur_ts).kind = "log" /\ day \in Nat
    BY <2>1, LogIsName DEF DayInv, DatedTypeOK
  <2>4. \A k \in jobs : k.name # Dated!Log(cur_ts) /\ Dated!Archive(k.name) # Dated!Log(cur_ts)
    BY <1>0, <2>3 DEF PastInv
  <2> QED BY <1>a, <1>b, <2>1, <2>2, <2>4
<1>5. CASE Dated!Turn \/ Dated!Cleaned \/ Dated!Drained \/ Dated!CheckSpace \/ Dated!Checked \/ Dated!Crash
  <2>1. UNCHANGED <<files, given_up>> /\ jobs' \subseteq jobs
    BY <1>5 DEF Dated!Turn, Dated!Cleaned, Dated!Drained, Dated!CheckSpace, Dated!Checked,
       Dated!Crash
  <2> QED BY <1>a, <1>b, <2>1
<1>6. CASE Dated!Tick \/ UNCHANGED Dated!vars
  <2>1. UNCHANGED <<files, given_up, jobs>>
    BY <1>6 DEF Dated!Tick, Dated!vars, Dated!service
  <2> QED BY <1>a, <1>b, <2>1
<1>7. ASSUME NEW j \in jobs, Dated!TarBegins(j) PROVE RemoveInv'
  <2>1. /\ \A k \in jobs' : (k \in jobs /\ k # j) \/ k.stage = "tar"
        /\ given_up' = given_up
        /\ files' = files \/ \A m : In(files', m) = IF m = Dated!Archive(j.name) THEN {} ELSE In(files, m)
    BY <1>7, TarBeginsOwn DEF Advance
  <2> QED BY <1>0, <1>a, <1>b, <2>1
<1>8. ASSUME NEW j \in jobs, Dated!TarEnds(j) PROVE RemoveInv'
  <2>1. /\ given_up' = given_up
        /\ \/ files' = files /\ jobs' \subseteq jobs
           \/ /\ \A m : In(files', m) = IF m = Dated!Archive(j.name) THEN In(files, j.name)
                                        ELSE In(files, m)
              /\ \A k \in jobs' : (k \in jobs /\ k # j) \/ k.name = j.name
    BY <1>8, TarEndsOwn DEF Advance
  <2>2. CASE files' = files /\ jobs' \subseteq jobs
    BY <1>a, <1>b, <2>1, <2>2
  <2>3. CASE /\ \A m : In(files', m) = IF m = Dated!Archive(j.name) THEN In(files, j.name)
                                       ELSE In(files, m)
             /\ \A k \in jobs' : (k \in jobs /\ k # j) \/ k.name = j.name
    <3>1. ASSUME NEW k \in jobs', k.stage = "remove"
          PROVE  In(files', k.name) \subseteq In(files', Dated!Archive(k.name)) \cup given_up'
      <4>1. CASE k.name = j.name
        BY <1>0, <2>3, <4>1
      <4>2. CASE k \in jobs /\ k # j
        BY <1>0, <1>a, <2>1, <2>3, <3>1, <4>2
      <4> QED BY <2>3, <4>1, <4>2
    <3> QED BY <1>b, <3>1
  <2> QED BY <2>1, <2>2, <2>3
<1>9. ASSUME NEW j \in jobs, Dated!RemoveLog(j) PROVE RemoveInv'
  <2>1. /\ jobs' = jobs \ {j} /\ given_up' = given_up
        /\ files' = files \/ \A m : In(files', m) = IF m = j.name THEN {} ELSE In(files, m)
    BY <1>9, RemoveLogOwn
  <2> QED BY <1>0, <1>a, <1>b, <2>1
<1> QED BY <1>1, <1>2, <1>3, <1>4, <1>5, <1>6, <1>7, <1>8, <1>9 DEF Dated!Next

LEMMA NextWrittenInv ==
    ASSUME DatedTypeOK, DayInv, KeepInv, [Dated!Next]_(Dated!vars), ~mixed'
    PROVE  WrittenInv'
<1> DEFINE Known(x) == x \in given_up \/ \E n \in Name : x \in In(files, n)
           KnownNext(x) == x \in given_up' \/ \E n \in Name : x \in In(files', n)
<1>0. dated_next \in Nat /\ \A x \in 0 .. dated_next - 1 : Known(x)
  BY DEF KeepInv, WrittenInv, DatedTypeOK
<1>a. ASSUME dated_next' = dated_next, \A x : Known(x) => KnownNext(x) PROVE WrittenInv'
  BY <1>0, <1>a DEF WrittenInv
<1>1. CASE Dated!HandleLogFile
  <2>1. dated_next' = dated_next /\ (UNCHANGED <<files, given_up>> \/ Dated!GiveUp(Head(namelist)))
    BY <1>1, HandleCases
  <2>2. CASE UNCHANGED <<files, given_up>>
    BY <1>a, <2>1, <2>2
  <2>3. CASE Dated!GiveUp(Head(namelist))
    <3>1. /\ \A m : In(files', m) = IF m = Head(namelist) THEN {} ELSE In(files, m)
          /\ given_up' = given_up \cup In(files, Head(namelist))
      BY <2>3, InGiveUp
    <3> QED BY <1>a, <2>1, <3>1
  <2> QED BY <2>1, <2>2, <2>3
<1>2. CASE Dated!DeleteOldest
  <2>1. Dated!GiveUp(Head(namelist)) /\ dated_next' = dated_next
    BY <1>2 DEF Dated!DeleteOldest
  <2>2. /\ \A m : In(files', m) = IF m = Head(namelist) THEN {} ELSE In(files, m)
        /\ given_up' = given_up \cup In(files, Head(namelist))
    BY <2>1, InGiveUp
  <2> QED BY <1>a, <2>1, <2>2
<1>3. CASE Dated!Open
  <2>1. dated_next' = dated_next /\ given_up' = given_up
    BY <1>3 DEF Dated!Open
  <2>2. \A m : In(files', m) = In(files, m)
    BY <1>3, InOpen
  <2> QED BY <1>a, <2>1, <2>2
<1>4. CASE Dated!AppendUnit
  <2>1. /\ given_up' = given_up /\ dated_next' = dated_next + 1
        /\ Dated!Exists(Dated!Log(cur_ts)) /\ Dated!Log(cur_ts) \in Name
    BY <1>4, LogIsName DEF Dated!AppendUnit, KeepInv, PastInv, DatedTypeOK
  <2>2. /\ \A m : In(files, m) \subseteq In(files', m)
        /\ dated_next \in In(files', Dated!Log(cur_ts))
    BY <1>4, <2>1, InAppend
  <2>3. \A x \in 0 .. dated_next' - 1 : x \in 0 .. dated_next - 1 \/ x = dated_next
    BY <1>0, <2>1
  <2>4. \A x \in 0 .. dated_next' - 1 : KnownNext(x)
    BY <1>0, <2>1, <2>2, <2>3
  <2> QED BY <2>4 DEF WrittenInv
<1>5. CASE Dated!Turn \/ Dated!Cleaned \/ Dated!Drained \/ Dated!CheckSpace \/ Dated!Checked \/ Dated!Crash
  <2>1. UNCHANGED <<files, given_up, dated_next>>
    BY <1>5 DEF Dated!Turn, Dated!Cleaned, Dated!Drained, Dated!CheckSpace, Dated!Checked,
       Dated!Crash
  <2> QED BY <1>a, <2>1
<1>6. CASE Dated!Tick \/ UNCHANGED Dated!vars
  <2>1. UNCHANGED <<files, given_up, dated_next>>
    BY <1>6 DEF Dated!Tick, Dated!vars, Dated!service
  <2> QED BY <1>a, <2>1
<1>7. ASSUME NEW j \in jobs PROVE j.name \in Name /\ j.name.kind = "log" /\ Dated!Archive(j.name) \in Name
  BY ArchiveIsName DEF DatedTypeOK, KeepInv, PastInv
<1>8. ASSUME NEW j \in jobs, j.stage # "remove"
      PROVE  In(files, Dated!Archive(j.name)) \subseteq In(files, j.name) \cup given_up
  BY <1>7, <1>8 DEF KeepInv, ArchiveInv, ToArchive
<1>9. ASSUME NEW j \in jobs, Dated!TarBegins(j) PROVE WrittenInv'
  <2>1. /\ dated_next' = dated_next /\ given_up' = given_up /\ j.stage # "remove"
        /\ files' = files \/ \A m : In(files', m) = IF m = Dated!Archive(j.name) THEN {} ELSE In(files, m)
    BY <1>9, TarBeginsOwn
  <2>2. Dated!Archive(j.name) # j.name
    BY <1>7, ArchiveIsName
  <2> QED BY <1>7, <1>8, <1>a, <2>1, <2>2
<1>10. ASSUME NEW j \in jobs, Dated!TarEnds(j) PROVE WrittenInv'
  <2>1. /\ dated_next' = dated_next /\ given_up' = given_up /\ j.stage # "remove"
        /\ \/ files' = files
           \/ \A m : In(files', m) = IF m = Dated!Archive(j.name) THEN In(files, j.name)
                                     ELSE In(files, m)
    BY <1>10, TarEndsOwn
  <2>2. Dated!Archive(j.name) # j.name
    BY <1>7, ArchiveIsName
  <2> QED BY <1>7, <1>8, <1>a, <2>1, <2>2
<1>11. ASSUME NEW j \in jobs, Dated!RemoveLog(j) PROVE WrittenInv'
  <2>1. /\ dated_next' = dated_next /\ given_up' = given_up /\ j.stage = "remove"
        /\ files' = files \/ \A m : In(files', m) = IF m = j.name THEN {} ELSE In(files, m)
    BY <1>11, RemoveLogOwn
  <2>2. In(files, j.name) \subseteq In(files, Dated!Archive(j.name)) \cup given_up
    BY <2>1 DEF KeepInv, RemoveInv
  <2>3. Dated!Archive(j.name) # j.name
    BY <1>7, ArchiveIsName
  <2> QED BY <1>7, <1>a, <2>1, <2>2, <2>3
<1> QED BY <1>1, <1>2, <1>3, <1>4, <1>5, <1>6, <1>9, <1>10, <1>11 DEF Dated!Next

LEMMA NextKeepInv ==
    DatedTypeOK /\ DayInv /\ (~mixed => KeepInv) /\ [Dated!Next]_(Dated!vars) => (~mixed => KeepInv)'
<1> SUFFICES ASSUME DatedTypeOK, DayInv, ~mixed => KeepInv, [Dated!Next]_(Dated!vars), ~mixed'
             PROVE  KeepInv'
  OBVIOUS
<1>1. KeepInv
  BY MixedStays
<1>2. PastInv /\ OneThreadInv /\ ArchiveInv /\ RemoveInv
  BY <1>1 DEF KeepInv
<1>3. PastInv' /\ OneThreadInv'
  BY <1>2, NextPastInv, NextOneThreadInv
<1>4. ArchiveInv' /\ RemoveInv'
  BY <1>2, NextArchiveInv, NextRemoveInv
<1>5. WrittenInv'
  BY <1>1, NextWrittenInv
<1> QED BY <1>3, <1>4, <1>5 DEF KeepInv

LEMMA KeepInvKept == DatedTypeOK /\ (~mixed => KeepInv) => NoUnitVanishes
<1> SUFFICES ASSUME KeepInv, NEW x \in 0 .. dated_next - 1 PROVE x \in Dated!Stored \cup given_up
  BY DEF NoUnitVanishes, Dated!NoUnitVanishes
<1>1. x \in given_up \/ \E n \in Name : x \in In(files, n)
  BY DEF KeepInv, WrittenInv
<1> QED BY <1>1 DEF In, Dated!Stored

\* A unit that was written is in a log or in a whole archive, unless it was
\* removed for its age or for the space, whatever the bounds, the crashes and the
\* tars that fail, as long as the date does not change during a turn or a
\* compression (log_file.c:475-478, :547, :613).
THEOREM NoUnitVanishesHolds == ASSUME ~BusyMidnight PROVE Dated!Spec => []NoUnitVanishes
<1>1. Dated!Init => DatedTypeOK /\ DayInv /\ (~mixed => KeepInv)
  BY DatedInitTypeOK, InitKeepInv
<1>2. DatedTypeOK /\ DayInv /\ (~mixed => KeepInv) /\ [Dated!Next]_(Dated!vars) =>
         (DatedTypeOK /\ DayInv /\ (~mixed => KeepInv))'
  BY DatedNextTypeOK, NextDayInv, NextKeepInv
<1>3. DatedTypeOK /\ DayInv /\ (~mixed => KeepInv) => NoUnitVanishes
  BY KeepInvKept
<1> QED BY <1>1, <1>2, <1>3, PTL DEF Dated!Spec

-----------------------------------------------------------------------------
\* One thread logs and one starts the service, and the cache has a size.
OneOfEach ==
    /\ \E l, s : l # s /\ Loggers = {l} /\ Starters = {s}
    /\ CacheSize \in Nat
Logger == CHOOSE l : Loggers = {l}
Starter == CHOOSE s : Starters = {s}

LEMMA Threads ==
    ASSUME OneOfEach
    PROVE  /\ Loggers = {Logger} /\ Starters = {Starter} /\ Logger # Starter
           /\ Early!Thread = {Logger, Starter} /\ CacheSize \in Nat
<1>1. PICK l, s : l # s /\ Loggers = {l} /\ Starters = {s}
  BY DEF OneOfEach
<1>2. Loggers = {Logger} /\ Starters = {Starter}
  BY <1>1 DEF Logger, Starter
<1> QED BY <1>1, <1>2 DEF Early!Thread, OneOfEach

Entry == (Early!Thread \X Nat) \cup {<<>>}
LogPc == {"test", "copy", "load", "store", "ready?", "direct"}
StartPc == {"called", "open", "made", "flush", "stop"}
Logging(t) == start_pc[t] \in LogPc
Counting(t) == start_pc[t] \in {"copy", "load", "store"}

StartTypeOK ==
    /\ called \in BOOLEAN /\ ready \in BOOLEAN /\ flushed \in BOOLEAN
    /\ pipe \in Seq(Entry) /\ cached_bytes \in Int /\ cache \in [Early!Slots -> Entry]
    /\ start_pc \in [Early!Thread -> {Early!Idle} \cup LogPc \cup StartPc]
    /\ loaded \in [Early!Thread -> Int] /\ count \in [Early!Thread -> Nat]

\* How far the start has come.
StartInv ==
    /\ start_pc[Logger] \in {Early!Idle} \cup LogPc
    /\ \A t \in Early!Thread : /\ start_pc[t] = "direct" => ready
                               /\ Logging(t) => count[t] > 0
    /\ start_pc[Starter] \in {"called", "open", "made"} => ~ready
    /\ ~called => ~ready /\ start_pc[Starter] \in {Early!Idle, "called"}
    /\ called /\ start_pc[Starter] = Early!Idle => flushed
    /\ start_pc[Starter] = "stop" => flushed
    /\ Logging(Starter) \/ start_pc[Starter] = "flush" => ready
    /\ flushed => ready /\ called /\ start_pc[Starter] \in {Early!Idle, "stop"}

\* The starter has not counted a record of its own.
Alone == ~flushed /\ start_pc[Starter] \notin {"ready?", "direct", "flush"}
Written(i) == cache[i] # <<>>

AloneInv ==
    Alone =>
      /\ cached_bytes \in 0 .. CacheSize /\ (cached_bytes = 0 \/ cached_bytes < CacheSize)
      /\ \A i \in 0 .. CacheSize : i < cached_bytes => Written(i)
      /\ Counting(Logger) => cached_bytes + 1 < CacheSize
      /\ start_pc[Logger] = "store" => loaded[Logger] = cached_bytes
      /\ start_pc[Logger] \in {"load", "store"} => Written(cached_bytes)
      /\ Counting(Starter) => CacheSize > 1
      /\ start_pc[Starter] = "store" => loaded[Starter] \in 0 .. cached_bytes

\* Where the logger's store will put the count.
Taken(i) == \/ i < cached_bytes
            \/ start_pc[Logger] = "load" /\ i <= cached_bytes
            \/ start_pc[Logger] = "store" /\ i <= loaded[Logger]

GapBounds ==
    /\ cached_bytes \in 0 .. CacheSize
    /\ Counting(Logger) => cached_bytes < CacheSize
    /\ start_pc[Logger] = "store" => loaded[Logger] \in 0 .. CacheSize - 1

\* Until the cache is written to the pipe, all but at most one of its bytes
\* were written.
GapInv ==
    ~flushed =>
      /\ GapBounds
      /\ \E g \in Int : \A i \in 0 .. CacheSize : i # g /\ Taken(i) => Written(i)

\* A record is in the cache at one place, and for good if it is counted.
CacheInv ==
    /\ \A i, j \in Early!Slots : cache[i] = cache[j] => i = j \/ cache[i] = <<>>
    /\ \A i \in Early!Slots, t \in Early!Thread, k \in Nat :
          cache[i] = <<t, k>> => k <= count[t] /\ (k = count[t] => start_pc[t] \notin {"test", "copy"})

Counted(r) ==
    \E i \in 0 .. CacheSize : /\ i < cached_bytes /\ cache[i] = r
                              /\ \A u \in Early!Thread : start_pc[u] = "store" => i < loaded[u]

\* What is logged before the pipe is ready stays in the cache.
EarlyInv ==
    ~ready => /\ pipe = <<>>
              /\ start_pc[Logger] \in {"load", "store"} => cache[cached_bytes] = Early!Record(Logger)
              /\ start_pc[Logger] = "ready?" =>
                    Early!Record(Logger) \in dropped \/ Counted(Early!Record(Logger))

InPipe(r) == \E i \in 1 .. Len(pipe) : pipe[i] = r
Done(t, k) == k # 0 /\ (k < count[t] \/ (k = count[t] /\ ~Logging(t)))
KeptInv ==
    \A t \in Early!Thread, k \in Nat :
        Done(t, k) => <<t, k>> \in dropped \/ InPipe(<<t, k>>) \/ (~flushed /\ Counted(<<t, k>>))

Once(r) == \A i, j \in 1 .. Len(pipe) : pipe[i] = r /\ pipe[j] = r => i = j
Twice(r) == r \in window /\ \E i, j \in 1 .. Len(pipe) :
                i # j /\ \A k \in 1 .. Len(pipe) : pipe[k] = r <=> k = i \/ k = j

\* A record in the pipe is in the window as long as it is also in the cache.
WindowInv ==
    /\ \A t \in Early!Thread : ready /\ ~flushed /\ Logging(t) => Early!Record(t) \in window
    /\ \A i \in 1 .. Len(pipe), t \in Early!Thread, k \in Nat :
          pipe[i] = <<t, k>> => /\ k <= count[t]
                                /\ ~flushed /\ Logging(t) => k # count[t]
                                /\ ~flushed => <<t, k>> \in window
    /\ \A i \in 1 .. Len(pipe) : ~flushed => pipe[i] # <<>>

\* What is in the pipe more than once was in the cache and in the window.
TimesInv ==
    /\ \A i \in 1 .. Len(pipe) : Once(pipe[i]) \/ (flushed /\ Twice(pipe[i]))
    /\ \A t \in Early!Thread :
          Logging(t) /\ InPipe(Early!Record(t)) => Once(Early!Record(t)) /\ Early!Record(t) \in window

StartIInv ==
    /\ StartTypeOK /\ StartInv /\ AloneInv /\ GapInv /\ CacheInv
    /\ EarlyInv /\ KeptInv /\ WindowInv /\ TimesInv

-----------------------------------------------------------------------------
LEMMA StartInit == ASSUME OneOfEach, Early!Init PROVE StartIInv
<1>0. /\ Loggers = {Logger} /\ Starters = {Starter} /\ Logger # Starter
      /\ Early!Thread = {Logger, Starter} /\ CacheSize \in Nat
  BY Threads
<1> USE DEF Early!Init, Early!Idle, LogPc, Logging, Counting
<1>1. StartTypeOK
  BY <1>0 DEF StartTypeOK, Early!Slots, Entry
<1>2. StartInv
  BY <1>0 DEF StartInv
<1>3. AloneInv
  BY <1>0 DEF AloneInv
<1>4. GapInv
  BY <1>0 DEF GapInv, GapBounds, Taken
<1>5. CacheInv
  BY <1>0 DEF CacheInv, Early!Slots
<1>6. EarlyInv /\ KeptInv
  BY <1>0 DEF EarlyInv, KeptInv, Done
<1>7. WindowInv /\ TimesInv
  BY <1>0 DEF WindowInv, TimesInv, InPipe, Once
<1> QED BY <1>1, <1>2, <1>3, <1>4, <1>5, <1>6, <1>7 DEF StartIInv

LEMMA StepTypeOK == ASSUME OneOfEach, StartIInv, NEW t \in Early!Thread, Early!Step(t) PROVE StartTypeOK'
<1>0. /\ Loggers = {Logger} /\ Starters = {Starter} /\ Logger # Starter
      /\ Early!Thread = {Logger, Starter} /\ CacheSize \in Nat /\ StartTypeOK
  BY Threads DEF StartIInv
<1>1. Early!Record(t) \in Entry
  BY <1>0 DEF StartTypeOK, Early!Record, Entry
<1>2. CASE Early!Flush(t)
  <2>1. cached_bytes \in 0 .. CacheSize
    BY <1>0, <1>2 DEF StartIInv, StartInv, GapInv, GapBounds, Early!Flush, Early!Idle, LogPc
  <2>2. [i \in 1 .. cached_bytes |-> cache[i - 1]] \in Seq(Entry)
    BY <1>0, <2>1 DEF StartTypeOK, Early!Slots
  <2>3. pipe' \in Seq(Entry)
    BY <1>0, <1>2, <2>2, ConcatProperties DEF StartTypeOK, Early!Flush
  <2> QED BY <1>0, <1>2, <2>3 DEF StartTypeOK, Early!Flush, Early!Go, LogPc, StartPc, Early!Idle,
     Early!service
<1>3. CASE Early!Direct(t)
  <2>1. pipe' \in Seq(Entry)
    BY <1>0, <1>1, <1>3, AppendProperties DEF StartTypeOK, Early!Direct
  <2> QED BY <1>0, <1>3, <2>1 DEF StartTypeOK, Early!Direct, Early!Go, LogPc, StartPc, Early!Idle,
     Early!service
<1>4. CASE Early!Open(t)
  BY <1>0, <1>4, EmptySeq DEF StartTypeOK, Early!Open, Early!Go, LogPc, StartPc, Early!Idle,
     Early!service
<1>5. CASE Early!Copy(t)
  BY <1>0, <1>1, <1>5 DEF StartTypeOK, Early!Copy, Early!Go, LogPc, StartPc, Early!Idle,
     Early!service
<1>6. CASE Early!Log(t)
  BY <1>0, <1>6 DEF StartTypeOK, Early!Log, Early!Go, LogPc, StartPc, Early!Idle, Early!service
<1>7. CASE Early!Ready(t)
  BY <1>0, <1>7 DEF StartTypeOK, Early!Ready, Early!Go, LogPc, StartPc, Early!Idle, Early!service
<1>8. CASE Early!Load(t)
  BY <1>0, <1>8 DEF StartTypeOK, Early!Load, Early!Go, LogPc, StartPc, Early!Idle, Early!service
<1>9. CASE Early!Store(t)
  BY <1>0, <1>9 DEF StartTypeOK, Early!Store, Early!Go, LogPc, StartPc, Early!Idle, Early!service
<1>10. CASE Early!Test(t) \/ Early!IsReady(t)
  BY <1>0, <1>10 DEF StartTypeOK, Early!Test, Early!IsReady, Early!Go, LogPc, StartPc, Early!Idle,
     Early!service
<1>11. CASE Early!Start(t)
  BY <1>0, <1>11 DEF StartTypeOK, Early!Start, Early!Go, LogPc, StartPc, Early!Idle, Early!service
<1>12. CASE Early!Called(t)
  BY <1>0, <1>12 DEF StartTypeOK, Early!Called, Early!Go, LogPc, StartPc, Early!Idle, Early!service
<1>13. CASE Early!Stop(t)
  BY <1>0, <1>13 DEF StartTypeOK, Early!Stop, Early!Go, LogPc, StartPc, Early!Idle, Early!service
<1> QED BY <1>2, <1>3, <1>4, <1>5, <1>6, <1>7, <1>8, <1>9, <1>10, <1>11, <1>12, <1>13 DEF Early!Step


LEMMA StepStart == ASSUME OneOfEach, StartIInv, NEW t \in Early!Thread, Early!Step(t) PROVE StartInv'
<1>0. /\ Loggers = {Logger} /\ Starters = {Starter} /\ Logger # Starter
      /\ Early!Thread = {Logger, Starter} /\ CacheSize \in Nat
      /\ StartTypeOK /\ StartTypeOK' /\ StartInv
  BY Threads, StepTypeOK DEF StartIInv
<1>1. CASE Early!Log(t)
  BY <1>0, <1>1 DEF StartInv, Early!Log, Early!Go, Early!Idle, LogPc, Logging, Counting,
     Early!service, StartTypeOK, Early!Slots
<1>2. CASE Early!Test(t)
  BY <1>0, <1>2 DEF StartInv, Early!Test, Early!Go, Early!Idle, LogPc, Logging, Counting,
     Early!service, StartTypeOK, Early!Slots
<1>3. CASE Early!Copy(t)
  BY <1>0, <1>3 DEF StartInv, Early!Copy, Early!Go, Early!Idle, LogPc, Logging, Counting,
     Early!service, StartTypeOK, Early!Slots
<1>4. CASE Early!Load(t)
  BY <1>0, <1>4 DEF StartInv, Early!Load, Early!Go, Early!Idle, LogPc, Logging, Counting,
     Early!service, StartTypeOK, Early!Slots
<1>5. CASE Early!Store(t)
  BY <1>0, <1>5 DEF StartInv, Early!Store, Early!Go, Early!Idle, LogPc, Logging, Counting,
     Early!service, StartTypeOK, Early!Slots
<1>6. CASE Early!IsReady(t)
  BY <1>0, <1>6 DEF StartInv, Early!IsReady, Early!Go, Early!Idle, LogPc, Logging, Counting,
     Early!service, StartTypeOK, Early!Slots
<1>7. CASE Early!Direct(t)
  BY <1>0, <1>7 DEF StartInv, Early!Direct, Early!Go, Early!Idle, LogPc, Logging, Counting,
     Early!service, StartTypeOK, Early!Slots
<1>8. CASE Early!Start(t)
  BY <1>0, <1>8 DEF StartInv, Early!Start, Early!Go, Early!Idle, LogPc, Logging, Counting,
     Early!service, StartTypeOK, Early!Slots
<1>9. CASE Early!Called(t)
  BY <1>0, <1>9 DEF StartInv, Early!Called, Early!Go, Early!Idle, LogPc, Logging, Counting,
     Early!service, StartTypeOK, Early!Slots
<1>10. CASE Early!Open(t)
  BY <1>0, <1>10 DEF StartInv, Early!Open, Early!Go, Early!Idle, LogPc, Logging, Counting,
     Early!service, StartTypeOK, Early!Slots
<1>11. CASE Early!Ready(t)
  BY <1>0, <1>11 DEF StartInv, Early!Ready, Early!Go, Early!Idle, LogPc, Logging, Counting,
     Early!service, StartTypeOK, Early!Slots
<1>12. CASE Early!Flush(t)
  BY <1>0, <1>12 DEF StartInv, Early!Flush, Early!Go, Early!Idle, LogPc, Logging, Counting,
     Early!service, StartTypeOK, Early!Slots
<1>13. CASE Early!Stop(t)
  BY <1>0, <1>13 DEF StartInv, Early!Stop, Early!Go, Early!Idle, LogPc, Logging, Counting,
     Early!service, StartTypeOK, Early!Slots
<1> QED BY <1>1, <1>2, <1>3, <1>4, <1>5, <1>6, <1>7, <1>8, <1>9, <1>10, <1>11, <1>12,
   <1>13 DEF Early!Step

LEMMA StepAlone == ASSUME OneOfEach, StartIInv, NEW t \in Early!Thread, Early!Step(t) PROVE AloneInv'
<1>0. /\ Loggers = {Logger} /\ Starters = {Starter} /\ Logger # Starter
      /\ Early!Thread = {Logger, Starter} /\ CacheSize \in Nat
      /\ StartTypeOK /\ StartTypeOK' /\ StartInv
  BY Threads, StepTypeOK DEF StartIInv
<1>1. CASE Early!Log(t)
  BY <1>0, <1>1 DEF StartIInv, StartInv, AloneInv, Alone, Written, Early!HasRoom, Early!Record,
     Early!Log, Early!Go, Early!Idle, LogPc, Logging, Counting, Early!service, StartTypeOK,
     Early!Slots
<1>2. CASE Early!Test(t)
  BY <1>0, <1>2 DEF StartIInv, StartInv, AloneInv, Alone, Written, Early!HasRoom, Early!Record,
     Early!Test, Early!Go, Early!Idle, LogPc, Logging, Counting, Early!service, StartTypeOK,
     Early!Slots
<1>3. CASE Early!Copy(t)
  BY <1>0, <1>3 DEF StartIInv, StartInv, AloneInv, Alone, Written, Early!HasRoom, Early!Record,
     Early!Copy, Early!Go, Early!Idle, LogPc, Logging, Counting, Early!service, StartTypeOK,
     Early!Slots
<1>4. CASE Early!Load(t)
  BY <1>0, <1>4 DEF StartIInv, StartInv, AloneInv, Alone, Written, Early!HasRoom, Early!Record,
     Early!Load, Early!Go, Early!Idle, LogPc, Logging, Counting, Early!service, StartTypeOK,
     Early!Slots
<1>5. CASE Early!Store(t)
  BY <1>0, <1>5 DEF StartIInv, StartInv, AloneInv, Alone, Written, Early!HasRoom, Early!Record,
     Early!Store, Early!Go, Early!Idle, LogPc, Logging, Counting, Early!service, StartTypeOK,
     Early!Slots
<1>6. CASE Early!IsReady(t)
  BY <1>0, <1>6 DEF StartIInv, StartInv, AloneInv, Alone, Written, Early!HasRoom, Early!Record,
     Early!IsReady, Early!Go, Early!Idle, LogPc, Logging, Counting, Early!service, StartTypeOK,
     Early!Slots
<1>7. CASE Early!Direct(t)
  BY <1>0, <1>7 DEF StartIInv, StartInv, AloneInv, Alone, Written, Early!HasRoom, Early!Record,
     Early!Direct, Early!Go, Early!Idle, LogPc, Logging, Counting, Early!service, StartTypeOK,
     Early!Slots
<1>8. CASE Early!Start(t)
  BY <1>0, <1>8 DEF StartIInv, StartInv, AloneInv, Alone, Written, Early!HasRoom, Early!Record,
     Early!Start, Early!Go, Early!Idle, LogPc, Logging, Counting, Early!service, StartTypeOK,
     Early!Slots
<1>9. CASE Early!Called(t)
  BY <1>0, <1>9 DEF StartIInv, StartInv, AloneInv, Alone, Written, Early!HasRoom, Early!Record,
     Early!Called, Early!Go, Early!Idle, LogPc, Logging, Counting, Early!service, StartTypeOK,
     Early!Slots
<1>10. CASE Early!Open(t)
  BY <1>0, <1>10 DEF StartIInv, StartInv, AloneInv, Alone, Written, Early!HasRoom, Early!Record,
     Early!Open, Early!Go, Early!Idle, LogPc, Logging, Counting, Early!service, StartTypeOK,
     Early!Slots
<1>11. CASE Early!Ready(t)
  BY <1>0, <1>11 DEF StartIInv, StartInv, AloneInv, Alone, Written, Early!HasRoom, Early!Record,
     Early!Ready, Early!Go, Early!Idle, LogPc, Logging, Counting, Early!service, StartTypeOK,
     Early!Slots
<1>12. CASE Early!Flush(t)
  BY <1>0, <1>12 DEF StartIInv, StartInv, AloneInv, Alone, Written, Early!HasRoom, Early!Record,
     Early!Flush, Early!Go, Early!Idle, LogPc, Logging, Counting, Early!service, StartTypeOK,
     Early!Slots
<1>13. CASE Early!Stop(t)
  BY <1>0, <1>13 DEF StartIInv, StartInv, AloneInv, Alone, Written, Early!HasRoom, Early!Record,
     Early!Stop, Early!Go, Early!Idle, LogPc, Logging, Counting, Early!service, StartTypeOK,
     Early!Slots
<1> QED BY <1>1, <1>2, <1>3, <1>4, <1>5, <1>6, <1>7, <1>8, <1>9, <1>10, <1>11, <1>12,
   <1>13 DEF Early!Step

LEMMA NoGapAlone == OneOfEach => (StartTypeOK /\ AloneInv /\ Alone => GapInv)
<1> SUFFICES ASSUME OneOfEach, StartTypeOK, AloneInv, Alone PROVE GapInv
  OBVIOUS
<1>0. Early!Thread = {Logger, Starter} /\ CacheSize \in Nat
  BY Threads
<1>1. \A i \in 0 .. CacheSize : Taken(i) => Written(i)
  BY <1>0 DEF AloneInv, Taken, Written, StartTypeOK
<1>2. GapBounds
  BY <1>0 DEF AloneInv, GapBounds, Counting, StartTypeOK
<1> QED BY <1>1, <1>2 DEF GapInv

LEMMA NoGapAloneNext == (OneOfEach => (StartTypeOK /\ AloneInv /\ Alone => GapInv))'
BY NoGapAlone, PTL

LEMMA StepGap == ASSUME OneOfEach, StartIInv, NEW t \in Early!Thread, Early!Step(t) PROVE GapInv'
<1>0. /\ Loggers = {Logger} /\ Starters = {Starter} /\ Logger # Starter
      /\ Early!Thread = {Logger, Starter} /\ CacheSize \in Nat
      /\ StartTypeOK /\ StartTypeOK' /\ StartInv
  BY Threads, StepTypeOK DEF StartIInv
<1>a. CASE Alone' \/ flushed'
  BY <1>0, <1>a, NoGapAloneNext, StepAlone DEF GapInv
<1>b. CASE ~Alone' /\ ~flushed'
  <2>0. SUFFICES ASSUME ~flushed
                 PROVE  /\ GapBounds'
                        /\ \E g \in Int : \A i \in 0 .. CacheSize :
                              i # g /\ Taken(i)' => Written(i)'
    BY <1>0, <1>b DEF GapInv, Early!Step, Early!Log, Early!Test, Early!Copy, Early!Load,
       Early!Store, Early!IsReady, Early!Direct, Early!Start, Early!Called, Early!Open,
       Early!Ready, Early!Flush, Early!Stop, Early!service
  <2>1. GapBounds /\ \E g \in Int : \A i \in 0 .. CacheSize : i # g /\ Taken(i) => Written(i)
    BY <2>0 DEF StartIInv, GapInv
  <2>2. PICK g \in Int : \A i \in 0 .. CacheSize : i # g /\ Taken(i) => Written(i)
    BY <2>1
  <2> DEFINE Same == /\ cache' = cache /\ cached_bytes' = cached_bytes
                     /\ start_pc'[Logger] = start_pc[Logger] \/ start_pc'[Logger] \notin {"copy", "load", "store"}
                     /\ loaded'[Logger] = loaded[Logger]
  <2>3. CASE Same
    BY <1>0, <2>1, <2>2, <2>3 DEF GapBounds, Taken, Written, Counting
  <2>4. CASE \/ Early!Log(t) \/ Early!IsReady(t) \/ Early!Direct(t) \/ Early!Start(t)
             \/ Early!Called(t) \/ Early!Open(t) \/ Early!Ready(t)
    <3>1. Same
      BY <1>0, <2>4 DEF Early!Log, Early!IsReady, Early!Direct, Early!Start, Early!Called,
         Early!Open, Early!Ready, Early!Go, Early!Idle, LogPc, Logging, Counting, Early!service,
         StartTypeOK, Early!Slots
    <3> QED BY <3>1, <2>3
  <2>5. CASE Early!Test(t)
    <3>0. CASE t = Starter
      <4>1. Same
        BY <1>0, <2>5, <3>0 DEF Early!Test, Early!Go, Early!service, StartTypeOK
      <4> QED BY <4>1, <2>3
    <3>1. CASE t = Logger
      <4>1. GapBounds'
        BY <1>0, <2>1, <2>5, <3>1 DEF GapBounds, Early!HasRoom, Early!Test, Early!Go, Early!Idle,
           LogPc, Logging, Counting, Early!service, StartTypeOK, Early!Slots
      <4>2. \A i \in 0 .. CacheSize : i # g /\ Taken(i)' => Written(i)'
        BY <1>0, <2>2, <2>5, <3>1 DEF Taken, Written, Early!Test, Early!Go, Early!Idle, LogPc,
           Logging, Counting, Early!service, StartTypeOK, Early!Slots
      <4> QED BY <4>1, <4>2
    <3> QED BY <1>0, <3>0, <3>1
  <2>6. CASE Early!Copy(t)
    <3>1. t = Logger
      BY <1>0, <1>b, <2>0, <2>6 DEF Early!Copy, Alone, Early!Go, Early!Idle, LogPc, Logging,
         Counting, Early!service, StartTypeOK, Early!Slots
    <3>2. GapBounds'
      BY <1>0, <2>1, <2>6, <3>1 DEF GapBounds, Early!Copy, Early!Go, Early!Idle, LogPc, Logging,
         Counting, Early!service, StartTypeOK, Early!Slots
    <3>3. cached_bytes \in 0 .. CacheSize
      BY <2>1 DEF GapBounds
    <3>4. cache' = [cache EXCEPT ![cached_bytes] = Early!Record(t)]
      BY <2>6 DEF Early!Copy
    <3>5. \A i \in 0 .. CacheSize : Written(i)' <=> (i = cached_bytes \/ Written(i))
      <4>1. cache \in [Early!Slots -> Entry] /\ 0 .. CacheSize \subseteq Early!Slots
        <5>1. cache \in [Early!Slots -> Entry]
          BY <1>0 DEF StartTypeOK
        <5>2. 0 .. CacheSize \subseteq Early!Slots
          BY DEF Early!Slots
        <5> QED BY <5>1, <5>2
      <4>2. \A i \in 0 .. CacheSize : cache'[i] = IF i = cached_bytes THEN Early!Record(t) ELSE cache[i]
        BY <3>3, <3>4, <4>1, Zenon
      <4>3. Early!Record(t) # <<>>
        BY DEF Early!Record
      <4> QED BY <4>2, <4>3, Zenon DEF Written
    <3>6. \A i \in 0 .. CacheSize : Taken(i)' => i < cached_bytes \/ i = cached_bytes
      BY <1>0, <2>6, <3>1, <3>3 DEF Taken, Early!Copy, Early!Go, Early!Idle, LogPc, Logging,
         Counting, Early!service, StartTypeOK, Early!Slots
    <3>7. \A i \in 0 .. CacheSize : i # g /\ Taken(i)' => Written(i)'
      BY <2>2, <3>5, <3>6 DEF Taken
    <3> QED BY <3>2, <3>7
  <2>7. CASE Early!Load(t)
    <3>1. t = Logger
      BY <1>0, <1>b, <2>0, <2>7 DEF Early!Load, Alone, Early!Go, Early!Idle, LogPc, Logging,
         Counting, Early!service, StartTypeOK, Early!Slots
    <3>2. GapBounds'
      BY <1>0, <2>1, <2>7, <3>1 DEF GapBounds, Early!Load, Early!Go, Early!Idle, LogPc, Logging,
         Counting, Early!service, StartTypeOK, Early!Slots
    <3>3. \A i \in 0 .. CacheSize : i # g /\ Taken(i)' => Written(i)'
      BY <1>0, <2>2, <2>7, <3>1 DEF Taken, Written, Early!Load, Early!Go, Early!Idle, LogPc,
         Logging, Counting, Early!service, StartTypeOK, Early!Slots
    <3> QED BY <3>2, <3>3
  <2>8. CASE Early!Store(t) /\ t = Logger
    <3>1. GapBounds'
      BY <1>0, <2>1, <2>8 DEF GapBounds, Early!Store, Early!Go, Early!Idle, LogPc, Logging,
         Counting, Early!service, StartTypeOK, Early!Slots
    <3>2. \A i \in 0 .. CacheSize : i # g /\ Taken(i)' => Written(i)'
      BY <1>0, <2>1, <2>2, <2>8 DEF GapBounds, Taken, Written, Early!Store, Early!Go, Early!Idle,
         LogPc, Logging, Counting, Early!service, StartTypeOK, Early!Slots
    <3> QED BY <3>1, <3>2
  <2>9. CASE Early!Store(t) /\ t = Starter
    <3>1. Alone
      BY <1>0, <2>0, <2>9 DEF Alone, Early!Store
    <3>2. /\ cached_bytes \in 0 .. CacheSize /\ (cached_bytes = 0 \/ cached_bytes < CacheSize)
          /\ \A i \in 0 .. CacheSize : i < cached_bytes => Written(i)
          /\ Counting(Logger) => cached_bytes + 1 < CacheSize
          /\ start_pc[Logger] = "store" => loaded[Logger] = cached_bytes
          /\ start_pc[Logger] \in {"load", "store"} => Written(cached_bytes)
          /\ CacheSize > 1 /\ loaded[Starter] \in 0 .. cached_bytes
      BY <1>0, <2>9, <3>1 DEF StartIInv, AloneInv, Early!Store, Counting
    <3>3. /\ cached_bytes' = loaded[Starter] + 1 /\ start_pc'[Logger] = start_pc[Logger]
          /\ loaded' = loaded /\ cache' = cache
      BY <1>0, <2>9 DEF Early!Store, Early!Go, StartTypeOK
    <3>4. GapBounds'
      BY <1>0, <3>2, <3>3 DEF GapBounds, Counting
    <3>5. CASE start_pc[Logger] \in {"load", "store"}
      <4>1. \A i \in 0 .. CacheSize : i # cached_bytes + 1 /\ Taken(i)' => Written(i)'
        BY <1>0, <3>2, <3>3, <3>5 DEF Taken, Written
      <4> QED BY <3>2, <3>4, <4>1
    <3>6. CASE start_pc[Logger] \notin {"load", "store"}
      <4>1. \A i \in 0 .. CacheSize : i # cached_bytes /\ Taken(i)' => Written(i)'
        BY <1>0, <3>2, <3>3, <3>6 DEF Taken, Written
      <4> QED BY <3>2, <3>4, <4>1
    <3> QED BY <3>5, <3>6
  <2>10. CASE Early!Flush(t) \/ Early!Stop(t)
    BY <1>0, <1>b, <2>0, <2>10 DEF StartInv, Early!Flush, Early!Stop, Early!Idle, LogPc
  <2> QED BY <1>0, <2>4, <2>5, <2>6, <2>7, <2>8, <2>9, <2>10 DEF Early!Step
<1> QED BY <1>a, <1>b

\* A thread that begins a record has a new count.
LEMMA StepCount ==
    ASSUME OneOfEach, StartIInv, NEW t \in Early!Thread, Early!Step(t), NEW u \in Early!Thread
    PROVE  /\ count[u] \in Nat /\ count'[u] \in Nat
           /\ \/ /\ count'[u] = count[u] /\ (Logging(u)' => Logging(u))
                 /\ start_pc'[u] \in {"test", "copy"} => start_pc[u] \in {"test", "copy"}
              \/ count'[u] = count[u] + 1 /\ u = t /\ (Early!Log(t) \/ Early!Ready(t))
<1>0. /\ Loggers = {Logger} /\ Starters = {Starter} /\ Logger # Starter
      /\ Early!Thread = {Logger, Starter} /\ CacheSize \in Nat
      /\ StartTypeOK /\ StartTypeOK' /\ StartInv
  BY Threads, StepTypeOK DEF StartIInv
<1>1. CASE Early!Log(t)
  BY <1>0, <1>1 DEF Early!Log, Early!Go, Early!Idle, LogPc, Logging, StartTypeOK
<1>2. CASE Early!Test(t)
  BY <1>0, <1>2 DEF Early!Test, Early!Go, Early!Idle, LogPc, Logging, StartTypeOK
<1>3. CASE Early!Copy(t)
  BY <1>0, <1>3 DEF Early!Copy, Early!Go, Early!Idle, LogPc, Logging, StartTypeOK
<1>4. CASE Early!Load(t)
  BY <1>0, <1>4 DEF Early!Load, Early!Go, Early!Idle, LogPc, Logging, StartTypeOK
<1>5. CASE Early!Store(t)
  BY <1>0, <1>5 DEF Early!Store, Early!Go, Early!Idle, LogPc, Logging, StartTypeOK
<1>6. CASE Early!IsReady(t)
  BY <1>0, <1>6 DEF Early!IsReady, Early!Go, Early!Idle, LogPc, Logging, StartTypeOK
<1>7. CASE Early!Direct(t)
  BY <1>0, <1>7 DEF Early!Direct, Early!Go, Early!Idle, LogPc, Logging, StartTypeOK
<1>8. CASE Early!Start(t)
  BY <1>0, <1>8 DEF Early!Start, Early!Go, Early!Idle, LogPc, Logging, StartTypeOK
<1>9. CASE Early!Called(t)
  BY <1>0, <1>9 DEF Early!Called, Early!Go, Early!Idle, LogPc, Logging, StartTypeOK
<1>10. CASE Early!Open(t)
  BY <1>0, <1>10 DEF Early!Open, Early!Go, Early!Idle, LogPc, Logging, StartTypeOK
<1>11. CASE Early!Ready(t)
  BY <1>0, <1>11 DEF Early!Ready, Early!Go, Early!Idle, LogPc, Logging, StartTypeOK
<1>12. CASE Early!Flush(t)
  BY <1>0, <1>12 DEF Early!Flush, Early!Go, Early!Idle, LogPc, Logging, StartTypeOK
<1>13. CASE Early!Stop(t)
  BY <1>0, <1>13 DEF Early!Stop, Early!Go, Early!Idle, LogPc, Logging, StartTypeOK
<1> QED BY <1>1, <1>2, <1>3, <1>4, <1>5, <1>6, <1>7, <1>8, <1>9, <1>10, <1>11, <1>12,
   <1>13 DEF Early!Step

LEMMA StepCache == ASSUME OneOfEach, StartIInv, NEW t \in Early!Thread, Early!Step(t) PROVE CacheInv'
<1>0. /\ Loggers = {Logger} /\ Starters = {Starter} /\ Logger # Starter
      /\ Early!Thread = {Logger, Starter} /\ CacheSize \in Nat
      /\ StartTypeOK /\ StartTypeOK' /\ StartInv
  BY Threads, StepTypeOK DEF StartIInv
<1>1. \A i \in Early!Slots, u \in Early!Thread, k \in Nat :
         cache[i] = <<u, k>> => k <= count[u] /\ (k = count[u] => start_pc[u] \notin {"test", "copy"})
  BY DEF StartIInv, CacheInv
<1>2. CASE Early!Copy(t)
  <2>1. /\ cache' = [cache EXCEPT ![cached_bytes] = Early!Record(t)]
        /\ Early!Record(t) = <<t, count[t]>> /\ count' = count
    BY <1>2 DEF Early!Copy, Early!Record
  <2>2. \A i \in Early!Slots : cache[i] # Early!Record(t)
    BY <1>0, <1>1, <1>2, <2>1 DEF Early!Copy, StartTypeOK
  <2>3. \A i, j \in Early!Slots : cache'[i] = cache'[j] => i = j \/ cache'[i] = <<>>
    BY <1>0, <2>1, <2>2 DEF StartIInv, CacheInv, StartTypeOK
  <2>4. \A i \in Early!Slots, u \in Early!Thread, k \in Nat :
           cache'[i] = <<u, k>> => k <= count'[u] /\ (k = count'[u] => start_pc'[u] \notin {"test", "copy"})
    <3> SUFFICES ASSUME NEW i \in Early!Slots, NEW u \in Early!Thread, NEW k \in Nat, cache'[i] = <<u, k>>
                 PROVE  k <= count'[u] /\ (k = count'[u] => start_pc'[u] \notin {"test", "copy"})
      OBVIOUS
    <3>1. start_pc' = [start_pc EXCEPT ![t] = "load"]
      BY <1>2 DEF Early!Copy, Early!Go
    <3>2. CASE cache[i] = <<u, k>>
      BY <1>0, <1>1, <2>1, <3>1, <3>2 DEF StartTypeOK
    <3>3. CASE cache[i] # <<u, k>>
      <4>1. <<u, k>> = <<t, count[t]>>
        BY <1>0, <2>1, <3>3 DEF StartTypeOK
      <4>2. u = t /\ k = count[t]
        BY <4>1
      <4> QED BY <1>0, <2>1, <3>1, <4>2 DEF StartTypeOK
    <3> QED BY <3>2, <3>3
  <2> QED BY <2>3, <2>4 DEF CacheInv
<1>3. CASE cache' = cache
  <2>1. \A i, j \in Early!Slots : cache'[i] = cache'[j] => i = j \/ cache'[i] = <<>>
    BY <1>3 DEF StartIInv, CacheInv
  <2>2. \A i \in Early!Slots, u \in Early!Thread, k \in Nat :
           cache'[i] = <<u, k>> => k <= count'[u] /\ (k = count'[u] => start_pc'[u] \notin {"test", "copy"})
    <3> SUFFICES ASSUME NEW i \in Early!Slots, NEW u \in Early!Thread, NEW k \in Nat, cache[i] = <<u, k>>
                 PROVE  k <= count'[u] /\ (k = count'[u] => start_pc'[u] \notin {"test", "copy"})
      BY <1>3
    <3>1. k <= count[u] /\ (k = count[u] => start_pc[u] \notin {"test", "copy"})
      BY <1>1
    <3>2. count[u] \in Nat /\ (count'[u] = count[u] \/ count'[u] = count[u] + 1)
      BY StepCount
    <3>3. CASE count'[u] = count[u] + 1
      BY <3>1, <3>2, <3>3
    <3>4. CASE count'[u] = count[u]
      <4>1. start_pc'[u] \in {"test", "copy"} => start_pc[u] \in {"test", "copy"} \/ count'[u] # count[u]
        BY <3>2, StepCount
      <4> QED BY <3>1, <3>4, <4>1
    <3> QED BY <3>2, <3>3, <3>4
  <2> QED BY <2>1, <2>2 DEF CacheInv
<1> QED BY <1>2, <1>3 DEF Early!Step, Early!Log, Early!Test, Early!Copy, Early!Load, Early!Store,
   Early!IsReady, Early!Direct, Early!Start, Early!Called, Early!Open, Early!Ready, Early!Flush,
   Early!Stop

LEMMA StepEarly == ASSUME OneOfEach, StartIInv, NEW t \in Early!Thread, Early!Step(t) PROVE EarlyInv'
<1>0. /\ Loggers = {Logger} /\ Starters = {Starter} /\ Logger # Starter
      /\ Early!Thread = {Logger, Starter} /\ CacheSize \in Nat
      /\ StartTypeOK /\ StartTypeOK' /\ StartInv
  BY Threads, StepTypeOK DEF StartIInv
<1>1. CASE Early!Log(t)
  BY <1>0, <1>1 DEF StartIInv, StartInv, AloneInv, Alone, EarlyInv, Counted, Early!HasRoom,
     Early!Record, Early!Log, Early!Go, Early!Idle, LogPc, Logging, Counting, Early!service,
     StartTypeOK, Early!Slots
<1>2. CASE Early!Test(t)
  BY <1>0, <1>2 DEF StartIInv, StartInv, AloneInv, Alone, EarlyInv, Counted, Early!HasRoom,
     Early!Record, Early!Test, Early!Go, Early!Idle, LogPc, Logging, Counting, Early!service,
     StartTypeOK, Early!Slots
<1>3. CASE Early!Copy(t)
  BY <1>0, <1>3 DEF StartIInv, StartInv, AloneInv, Alone, EarlyInv, Counted, Early!HasRoom,
     Early!Record, Early!Copy, Early!Go, Early!Idle, LogPc, Logging, Counting, Early!service,
     StartTypeOK, Early!Slots
<1>4. CASE Early!Load(t)
  BY <1>0, <1>4 DEF StartIInv, StartInv, AloneInv, Alone, EarlyInv, Counted, Early!HasRoom,
     Early!Record, Early!Load, Early!Go, Early!Idle, LogPc, Logging, Counting, Early!service,
     StartTypeOK, Early!Slots
<1>5. CASE Early!Store(t)
  BY <1>0, <1>5 DEF StartIInv, StartInv, AloneInv, Alone, EarlyInv, Counted, Early!HasRoom,
     Early!Record, Early!Store, Early!Go, Early!Idle, LogPc, Logging, Counting, Early!service,
     StartTypeOK, Early!Slots
<1>6. CASE Early!IsReady(t)
  BY <1>0, <1>6 DEF StartIInv, StartInv, AloneInv, Alone, EarlyInv, Counted, Early!HasRoom,
     Early!Record, Early!IsReady, Early!Go, Early!Idle, LogPc, Logging, Counting, Early!service,
     StartTypeOK, Early!Slots
<1>7. CASE Early!Direct(t)
  BY <1>0, <1>7 DEF StartIInv, StartInv, AloneInv, Alone, EarlyInv, Counted, Early!HasRoom,
     Early!Record, Early!Direct, Early!Go, Early!Idle, LogPc, Logging, Counting, Early!service,
     StartTypeOK, Early!Slots
<1>8. CASE Early!Start(t)
  BY <1>0, <1>8 DEF StartIInv, StartInv, AloneInv, Alone, EarlyInv, Counted, Early!HasRoom,
     Early!Record, Early!Start, Early!Go, Early!Idle, LogPc, Logging, Counting, Early!service,
     StartTypeOK, Early!Slots
<1>9. CASE Early!Called(t)
  BY <1>0, <1>9 DEF StartIInv, StartInv, AloneInv, Alone, EarlyInv, Counted, Early!HasRoom,
     Early!Record, Early!Called, Early!Go, Early!Idle, LogPc, Logging, Counting, Early!service,
     StartTypeOK, Early!Slots
<1>10. CASE Early!Open(t)
  BY <1>0, <1>10 DEF StartIInv, StartInv, AloneInv, Alone, EarlyInv, Counted, Early!HasRoom,
     Early!Record, Early!Open, Early!Go, Early!Idle, LogPc, Logging, Counting, Early!service,
     StartTypeOK, Early!Slots
<1>11. CASE Early!Ready(t)
  BY <1>0, <1>11 DEF StartIInv, StartInv, AloneInv, Alone, EarlyInv, Counted, Early!HasRoom,
     Early!Record, Early!Ready, Early!Go, Early!Idle, LogPc, Logging, Counting, Early!service,
     StartTypeOK, Early!Slots
<1>12. CASE Early!Flush(t)
  BY <1>0, <1>12 DEF StartIInv, StartInv, AloneInv, Alone, EarlyInv, Counted, Early!HasRoom,
     Early!Record, Early!Flush, Early!Go, Early!Idle, LogPc, Logging, Counting, Early!service,
     StartTypeOK, Early!Slots
<1>13. CASE Early!Stop(t)
  BY <1>0, <1>13 DEF StartIInv, StartInv, AloneInv, Alone, EarlyInv, Counted, Early!HasRoom,
     Early!Record, Early!Stop, Early!Go, Early!Idle, LogPc, Logging, Counting, Early!service,
     StartTypeOK, Early!Slots
<1> QED BY <1>1, <1>2, <1>3, <1>4, <1>5, <1>6, <1>7, <1>8, <1>9, <1>10, <1>11, <1>12,
   <1>13 DEF Early!Step

\* What is counted stays so until the cache is written to the pipe.
LEMMA StepCounted ==
    ASSUME OneOfEach, StartIInv, NEW t \in Early!Thread, Early!Step(t), ~flushed, ~flushed', NEW r, Counted(r)
    PROVE  Counted(r)'
<1>0. /\ Loggers = {Logger} /\ Starters = {Starter} /\ Logger # Starter
      /\ Early!Thread = {Logger, Starter} /\ CacheSize \in Nat
      /\ StartTypeOK /\ StartTypeOK' /\ StartInv
  BY Threads, StepTypeOK DEF StartIInv
<1>1. PICK i \in 0 .. CacheSize : /\ i < cached_bytes /\ cache[i] = r
                                /\ \A u \in Early!Thread : start_pc[u] = "store" => i < loaded[u]
  BY DEF Counted
<1>2. SUFFICES /\ i < cached_bytes' /\ cache'[i] = r
               /\ \A u \in Early!Thread : start_pc'[u] = "store" => i < loaded'[u]
  BY DEF Counted
<1>3. CASE Early!Copy(t)
  BY <1>0, <1>1, <1>3 DEF Early!Copy, Early!Go, StartTypeOK, Early!Slots
<1>4. CASE Early!Load(t)
  BY <1>0, <1>1, <1>4 DEF Early!Load, Early!Go, StartTypeOK
<1>5. CASE Early!Store(t)
  BY <1>0, <1>1, <1>5 DEF Early!Store, Early!Go, StartTypeOK
<1>6. CASE \/ Early!Log(t) \/ Early!Test(t) \/ Early!IsReady(t) \/ Early!Direct(t)
           \/ Early!Start(t) \/ Early!Called(t) \/ Early!Open(t) \/ Early!Ready(t)
  BY <1>0, <1>1, <1>6 DEF Early!Log, Early!Test, Early!IsReady, Early!Direct, Early!Start,
     Early!Called, Early!Open, Early!Ready, Early!Go, Early!Idle, StartTypeOK
<1>7. CASE Early!Flush(t) \/ Early!Stop(t)
  BY <1>0, <1>7 DEF StartInv, Early!Flush, Early!Stop, Early!Idle, LogPc
<1> QED BY <1>3, <1>4, <1>5, <1>6, <1>7 DEF Early!Step

\* What the pipe holds when the cache has been written to it.
LEMMA FlushedPipe ==
    ASSUME OneOfEach, StartIInv, NEW t \in Early!Thread, Early!Flush(t)
    PROVE  /\ cached_bytes \in 0 .. CacheSize /\ Len(pipe) \in Nat
           /\ Len(pipe') = Len(pipe) + cached_bytes
           /\ \A i \in 1 .. Len(pipe) : i \in 1 .. Len(pipe') /\ pipe'[i] = pipe[i]
           /\ \A i \in 1 .. Len(pipe') : i \notin 1 .. Len(pipe) =>
                 i - Len(pipe) - 1 \in 0 .. cached_bytes - 1 /\ pipe'[i] = cache[i - Len(pipe) - 1]
           /\ \A k \in 0 .. cached_bytes - 1 :
                 Len(pipe) + k + 1 \in 1 .. Len(pipe') /\ pipe'[Len(pipe) + k + 1] = cache[k]
<1>0. /\ Early!Thread = {Logger, Starter} /\ CacheSize \in Nat /\ StartTypeOK /\ StartInv
  BY Threads DEF StartIInv
<1>1. cached_bytes \in 0 .. CacheSize
  BY <1>0 DEF StartIInv, StartInv, GapInv, GapBounds, Early!Flush, Early!Idle, LogPc
<1> DEFINE tail == [k \in 1 .. cached_bytes |-> cache[k - 1]]
<1>2. tail \in Seq(Entry) /\ Len(tail) = cached_bytes /\ \A k \in 1 .. cached_bytes : tail[k] = cache[k - 1]
  BY <1>0, <1>1 DEF StartTypeOK, Early!Slots
<1>3. pipe' = pipe \o tail /\ pipe \in Seq(Entry)
  BY <1>0 DEF Early!Flush, StartTypeOK
<1> HIDE DEF tail
<1>4. Len(pipe) \in Nat /\ Len(pipe') = Len(pipe) + cached_bytes
  BY <1>2, <1>3, ConcatProperties, LenProperties
<1>5. \A i \in 1 .. Len(pipe) : i \in 1 .. Len(pipe') /\ pipe'[i] = pipe[i]
  BY <1>1, <1>2, <1>3
<1>6. \A k \in 0 .. cached_bytes - 1 :
         Len(pipe) + k + 1 \in 1 .. Len(pipe') /\ pipe'[Len(pipe) + k + 1] = cache[k]
  <2> SUFFICES ASSUME NEW k \in 0 .. cached_bytes - 1
               PROVE  Len(pipe) + k + 1 \in 1 .. Len(pipe') /\ pipe'[Len(pipe) + k + 1] = cache[k]
    OBVIOUS
  <2>1. k + 1 \in 1 .. cached_bytes /\ k + 1 - 1 = k
    BY <1>0, <1>1
  <2>2. /\ Len(pipe) + k + 1 = Len(pipe) + (k + 1)
        /\ Len(pipe) + (k + 1) \in Len(pipe) + 1 .. Len(pipe) + Len(tail)
    BY <1>0, <1>1, <1>2, <1>4, <2>1
  <2>3. pipe'[Len(pipe) + (k + 1)] = tail[k + 1]
    BY <1>2, <1>3, <1>4, <2>1, <2>2, ConcatProperties
  <2>4. tail[k + 1] = cache[k]
    BY <1>2, <2>1
  <2>5. Len(pipe) + k + 1 \in 1 .. Len(pipe')
    BY <1>1, <1>4
  <2> QED BY <2>2, <2>3, <2>4, <2>5
<1>7. \A i \in 1 .. Len(pipe') : i \notin 1 .. Len(pipe) =>
         i - Len(pipe) - 1 \in 0 .. cached_bytes - 1 /\ pipe'[i] = cache[i - Len(pipe) - 1]
  <2> SUFFICES ASSUME NEW i \in 1 .. Len(pipe'), i \notin 1 .. Len(pipe)
               PROVE  i - Len(pipe) - 1 \in 0 .. cached_bytes - 1 /\ pipe'[i] = cache[i - Len(pipe) - 1]
    OBVIOUS
  <2>1. i - Len(pipe) - 1 \in 0 .. cached_bytes - 1 /\ i = Len(pipe) + (i - Len(pipe) - 1) + 1
    BY <1>1, <1>4
  <2> QED BY <1>6, <2>1
<1> QED BY <1>1, <1>4, <1>5, <1>6, <1>7

\* What is in the pipe stays there.
LEMMA StepInPipe ==
    ASSUME OneOfEach, StartIInv, NEW t \in Early!Thread, Early!Step(t), NEW r, InPipe(r)
    PROVE  InPipe(r)'
<1>0. /\ Loggers = {Logger} /\ Starters = {Starter} /\ Logger # Starter
      /\ Early!Thread = {Logger, Starter} /\ CacheSize \in Nat
      /\ StartTypeOK /\ StartTypeOK' /\ StartInv
  BY Threads, StepTypeOK DEF StartIInv
<1>1. PICK i \in 1 .. Len(pipe) : pipe[i] = r
  BY DEF InPipe
<1>2. CASE Early!Direct(t)
  BY <1>0, <1>1, <1>2 DEF InPipe, Early!Direct, StartTypeOK
<1>3. CASE Early!Flush(t)
  <2>1. i \in 1 .. Len(pipe') /\ pipe'[i] = pipe[i]
    BY <1>3, FlushedPipe
  <2> QED BY <1>1, <2>1 DEF InPipe
<1>4. CASE Early!Open(t)
  <2>1. pipe = <<>>
    BY <1>0, <1>4 DEF StartIInv, StartInv, EarlyInv, Early!Open, Early!Idle, LogPc
  <2> QED BY <1>1, <2>1
<1>5. CASE pipe' = pipe
  BY <1>1, <1>5 DEF InPipe
<1> QED BY <1>2, <1>3, <1>4, <1>5 DEF Early!Step, Early!Log, Early!Test, Early!Copy, Early!Load,
   Early!Store, Early!IsReady, Early!Start, Early!Called, Early!Ready, Early!Stop

LEMMA StepDone ==
    ASSUME OneOfEach, StartIInv, NEW t \in Early!Thread, Early!Step(t),
           NEW u \in Early!Thread, NEW k \in Nat, Done(u, k)', ~Done(u, k)
    PROVE  u = t /\ k = count[t] /\ (Early!Direct(t) \/ (Early!IsReady(t) /\ t = Logger /\ ~ready))
<1>0. /\ Loggers = {Logger} /\ Starters = {Starter} /\ Logger # Starter
      /\ Early!Thread = {Logger, Starter} /\ CacheSize \in Nat
      /\ StartTypeOK /\ StartTypeOK' /\ StartInv
  BY Threads, StepTypeOK DEF StartIInv
<1>1. CASE Early!Log(t)
  BY <1>0, <1>1 DEF Done, StartInv, Early!Log, Early!Go, Early!Idle, LogPc, StartPc, Logging,
     StartTypeOK
<1>2. CASE Early!Test(t)
  BY <1>0, <1>2 DEF Done, StartInv, Early!Test, Early!Go, Early!Idle, LogPc, StartPc, Logging,
     StartTypeOK
<1>3. CASE Early!Copy(t)
  BY <1>0, <1>3 DEF Done, StartInv, Early!Copy, Early!Go, Early!Idle, LogPc, StartPc, Logging,
     StartTypeOK
<1>4. CASE Early!Load(t)
  BY <1>0, <1>4 DEF Done, StartInv, Early!Load, Early!Go, Early!Idle, LogPc, StartPc, Logging,
     StartTypeOK
<1>5. CASE Early!Store(t)
  BY <1>0, <1>5 DEF Done, StartInv, Early!Store, Early!Go, Early!Idle, LogPc, StartPc, Logging,
     StartTypeOK
<1>6. CASE Early!IsReady(t)
  BY <1>0, <1>6 DEF Done, StartInv, Early!IsReady, Early!Go, Early!Idle, LogPc, StartPc, Logging,
     StartTypeOK
<1>7. CASE Early!Direct(t)
  BY <1>0, <1>7 DEF Done, StartInv, Early!Direct, Early!Go, Early!Idle, LogPc, StartPc, Logging,
     StartTypeOK
<1>8. CASE Early!Start(t)
  BY <1>0, <1>8 DEF Done, StartInv, Early!Start, Early!Go, Early!Idle, LogPc, StartPc, Logging,
     StartTypeOK
<1>9. CASE Early!Called(t)
  BY <1>0, <1>9 DEF Done, StartInv, Early!Called, Early!Go, Early!Idle, LogPc, StartPc, Logging,
     StartTypeOK
<1>10. CASE Early!Open(t)
  BY <1>0, <1>10 DEF Done, StartInv, Early!Open, Early!Go, Early!Idle, LogPc, StartPc, Logging,
     StartTypeOK
<1>11. CASE Early!Ready(t)
  BY <1>0, <1>11 DEF Done, StartInv, Early!Ready, Early!Go, Early!Idle, LogPc, StartPc, Logging,
     StartTypeOK
<1>12. CASE Early!Flush(t)
  BY <1>0, <1>12 DEF Done, StartInv, Early!Flush, Early!Go, Early!Idle, LogPc, StartPc, Logging,
     StartTypeOK
<1>13. CASE Early!Stop(t)
  BY <1>0, <1>13 DEF Done, StartInv, Early!Stop, Early!Go, Early!Idle, LogPc, StartPc, Logging,
     StartTypeOK
<1> QED BY <1>1, <1>2, <1>3, <1>4, <1>5, <1>6, <1>7, <1>8, <1>9, <1>10, <1>11, <1>12,
   <1>13 DEF Early!Step

LEMMA StepKept == ASSUME OneOfEach, StartIInv, NEW t \in Early!Thread, Early!Step(t) PROVE KeptInv'
<1>0. /\ Loggers = {Logger} /\ Starters = {Starter} /\ Logger # Starter
      /\ Early!Thread = {Logger, Starter} /\ CacheSize \in Nat
      /\ StartTypeOK /\ StartTypeOK' /\ StartInv
  BY Threads, StepTypeOK DEF StartIInv
<1> SUFFICES ASSUME NEW u \in Early!Thread, NEW k \in Nat, Done(u, k)'
             PROVE  <<u, k>> \in dropped' \/ InPipe(<<u, k>>)' \/ (~flushed' /\ Counted(<<u, k>>)')
  BY <1>0 DEF KeptInv, Early!Thread
<1>1. dropped \subseteq dropped'
  BY DEF Early!Step, Early!Log, Early!Test, Early!Copy, Early!Load, Early!Store, Early!IsReady,
     Early!Direct, Early!Start, Early!Called, Early!Open, Early!Ready, Early!Flush, Early!Stop
<1>2. ASSUME ~flushed, Counted(<<u, k>>)
      PROVE  InPipe(<<u, k>>)' \/ (~flushed' /\ Counted(<<u, k>>)')
  <2>1. CASE ~flushed'
    BY <1>2, <2>1, StepCounted
  <2>2. CASE flushed'
    <3>1. Early!Flush(t)
      BY <1>2, <2>2 DEF Early!Step, Early!Log, Early!Test, Early!Copy, Early!Load, Early!Store,
         Early!IsReady, Early!Direct, Early!Start, Early!Called, Early!Open, Early!Ready,
         Early!Flush, Early!Stop, Early!service
    <3>2. PICK i \in 0 .. CacheSize : i < cached_bytes /\ cache[i] = <<u, k>>
      BY <1>2 DEF Counted
    <3>3. cached_bytes \in 0 .. CacheSize
      BY <3>1, FlushedPipe
    <3>4. i \in 0 .. cached_bytes - 1
      BY <1>0, <3>2, <3>3
    <3>5. pipe'[Len(pipe) + i + 1] = <<u, k>> /\ Len(pipe) + i + 1 \in 1 .. Len(pipe')
      BY <3>1, <3>2, <3>4, FlushedPipe
    <3> QED BY <3>5 DEF InPipe
  <2> QED BY <2>1, <2>2
<1>3. CASE Done(u, k)
  BY <1>1, <1>2, <1>3, StepInPipe DEF StartIInv, KeptInv
<1>4. CASE ~Done(u, k)
  <2>1. u = t /\ k = count[t] /\ (Early!Direct(t) \/ (Early!IsReady(t) /\ t = Logger /\ ~ready))
    BY <1>4, StepDone
  <2>2. CASE Early!Direct(t)
    <3>1. pipe' = Append(pipe, <<u, k>>)
      BY <2>1, <2>2 DEF Early!Direct, Early!Record
    <3>2. pipe'[Len(pipe) + 1] = <<u, k>> /\ Len(pipe) + 1 \in 1 .. Len(pipe')
      BY <1>0, <3>1 DEF StartTypeOK
    <3> QED BY <3>2 DEF InPipe
  <2>3. CASE Early!IsReady(t) /\ t = Logger /\ ~ready
    <3>1. <<u, k>> \in dropped \/ Counted(<<u, k>>)
      BY <1>0, <2>1, <2>3 DEF StartIInv, EarlyInv, Early!IsReady, Early!Record
    <3>2. ~flushed
      BY <1>0, <2>3 DEF StartInv
    <3> QED BY <1>1, <1>2, <3>1, <3>2
  <2> QED BY <2>1, <2>2, <2>3
<1> QED BY <1>3, <1>4

LEMMA WindowGrows == ASSUME NEW t \in Early!Thread, Early!Step(t) PROVE window \subseteq window'
BY DEF Early!Step, Early!Log, Early!Test, Early!Copy, Early!Load, Early!Store, Early!IsReady,
   Early!Direct, Early!Start, Early!Called, Early!Open, Early!Ready, Early!Flush, Early!Stop

LEMMA StepWindow == ASSUME OneOfEach, StartIInv, NEW t \in Early!Thread, Early!Step(t) PROVE WindowInv'
<1>0. /\ Loggers = {Logger} /\ Starters = {Starter} /\ Logger # Starter
      /\ Early!Thread = {Logger, Starter} /\ CacheSize \in Nat
      /\ StartTypeOK /\ StartTypeOK' /\ StartInv
  BY Threads, StepTypeOK DEF StartIInv
<1>1. \A u \in Early!Thread : ready /\ ~flushed /\ Logging(u) => Early!Record(u) \in window
  BY DEF StartIInv, WindowInv
<1>2. \A i \in 1 .. Len(pipe), u \in Early!Thread, k \in Nat :
         pipe[i] = <<u, k>> => /\ k <= count[u]
                               /\ ~flushed /\ Logging(u) => k # count[u]
                               /\ ~flushed => <<u, k>> \in window
  BY DEF StartIInv, WindowInv
<1>3. \A i \in 1 .. Len(pipe) : ~flushed => pipe[i] # <<>>
  BY DEF StartIInv, WindowInv
<1>4. flushed => flushed'
  BY DEF Early!Step, Early!Log, Early!Test, Early!Copy, Early!Load, Early!Store, Early!IsReady,
     Early!Direct, Early!Start, Early!Called, Early!Open, Early!Ready, Early!Flush, Early!Stop,
     Early!service
<1>5. ASSUME NEW u \in Early!Thread, ready', ~flushed', Logging(u)' PROVE Early!Record(u)' \in window'
  <2>1. CASE ~ready
    <3>1. Early!Ready(t)
      BY <1>5, <2>1 DEF Early!Step, Early!Log, Early!Test, Early!Copy, Early!Load, Early!Store,
         Early!IsReady, Early!Direct, Early!Start, Early!Called, Early!Open, Early!Ready,
         Early!Flush, Early!Stop, Early!service
    <3>2. /\ t = Starter
          /\ window' = window \cup {<<v, count'[v]>> : v \in {v \in Loggers : start_pc[v] # Early!Idle} \cup {t}}
      BY <1>0, <3>1 DEF Early!Ready, StartInv, LogPc, Early!Idle
    <3>3. u = Starter \/ start_pc[u] # Early!Idle
      BY <1>0, <1>5, <3>1, <3>2 DEF Early!Ready, Early!Go, Logging, LogPc, Early!Idle, StartTypeOK
    <3> QED BY <1>0, <3>2, <3>3 DEF Early!Record
  <2>2. CASE ready /\ Early!Log(t) /\ u = t
    BY <1>4, <1>5, <2>2 DEF Early!Log, Early!Record
  <2>3. CASE ready /\ ~(Early!Log(t) /\ u = t)
    <3>1. Logging(u) /\ count'[u] = count[u]
      <4>1. ~Early!Ready(t)
        BY <1>0, <2>3 DEF StartInv, Early!Ready, LogPc, Early!Idle
      <4> QED BY <1>5, <2>3, <4>1, StepCount
    <3> QED BY <1>1, <1>4, <1>5, <2>3, <3>1, WindowGrows DEF Early!Record
  <2> QED BY <2>1, <2>2, <2>3
<1>6. ASSUME NEW u \in Early!Thread, NEW k \in Nat,
             \/ \E i \in 1 .. Len(pipe) : pipe[i] = <<u, k>>
             \/ Early!Direct(t) /\ <<u, k>> = Early!Record(t)
             \/ flushed' /\ \E i \in Early!Slots : cache[i] = <<u, k>>
      PROVE  /\ k <= count'[u]
             /\ ~flushed' /\ Logging(u)' => k # count'[u]
             /\ ~flushed' => <<u, k>> \in window'
  <2>1. /\ count[u] \in Nat
        /\ \/ count'[u] = count[u] /\ (Logging(u)' => Logging(u))
           \/ count'[u] = count[u] + 1
    BY StepCount
  <2>2. CASE \E i \in 1 .. Len(pipe) : pipe[i] = <<u, k>>
    BY <1>2, <1>4, <2>1, <2>2, WindowGrows
  <2>3. CASE Early!Direct(t) /\ <<u, k>> = Early!Record(t)
    <3>1. u = t /\ k = count[t] /\ count' = count /\ start_pc'[t] \in {"flush", Early!Idle} /\ flushed' = flushed
      BY <1>0, <2>3 DEF Early!Direct, Early!Go, Early!Record, StartTypeOK, Early!service
    <3>2. ready /\ Logging(t)
      BY <1>0, <2>3 DEF StartInv, Early!Direct, Logging, LogPc
    <3> QED BY <1>1, <2>1, <2>3, <3>1, <3>2, WindowGrows DEF Early!Record, Logging, LogPc,
       Early!Idle
  <2>4. CASE flushed' /\ \E i \in Early!Slots : cache[i] = <<u, k>>
    <3>1. k <= count[u]
      BY <2>4 DEF StartIInv, CacheInv
    <3> QED BY <2>1, <2>4, <3>1
  <2> QED BY <1>6, <2>2, <2>3, <2>4
<1>7. CASE Early!Direct(t)
  <2>1. Early!Record(t) # <<>>
    BY DEF Early!Record
  <2>2. pipe' = Append(pipe, Early!Record(t)) /\ Len(pipe') = Len(pipe) + 1 /\ Len(pipe) \in Nat
    BY <1>0, <1>7 DEF Early!Direct, StartTypeOK
  <2>3. \A i \in 1 .. Len(pipe') : pipe'[i] = IF i = Len(pipe) + 1 THEN Early!Record(t) ELSE pipe[i]
    BY <1>0, <2>2 DEF StartTypeOK
  <2>4. \A i \in 1 .. Len(pipe') : i \in 1 .. Len(pipe) \/ i = Len(pipe) + 1
    BY <2>2
  <2> QED BY <1>3, <1>4, <1>5, <1>6, <1>7, <2>1, <2>3, <2>4 DEF WindowInv
<1>8. CASE Early!Flush(t)
  <2>1. flushed'
    BY <1>8 DEF Early!Flush
  <2>2. \A i \in 1 .. Len(pipe') : \/ \E j \in 1 .. Len(pipe) : pipe'[i] = pipe[j]
                                  \/ \E j \in Early!Slots : pipe'[i] = cache[j]
    <3> SUFFICES ASSUME NEW i \in 1 .. Len(pipe')
                 PROVE  \/ \E j \in 1 .. Len(pipe) : pipe'[i] = pipe[j]
                        \/ \E j \in Early!Slots : pipe'[i] = cache[j]
      OBVIOUS
    <3>1. cached_bytes \in 0 .. CacheSize
      BY <1>8, FlushedPipe
    <3>2. CASE i \in 1 .. Len(pipe)
      BY <1>8, <3>2, FlushedPipe
    <3>3. CASE i \notin 1 .. Len(pipe)
      <4>1. PICK j \in 0 .. cached_bytes - 1 : pipe'[i] = cache[j]
        BY <1>8, <3>3, FlushedPipe
      <4>2. j \in Early!Slots
        BY <1>0, <3>1, <4>1 DEF Early!Slots
      <4> QED BY <4>1, <4>2
    <3> QED BY <3>2, <3>3
  <2>3. ASSUME NEW i \in 1 .. Len(pipe'), NEW u \in Early!Thread, NEW k \in Nat, pipe'[i] = <<u, k>>
        PROVE  k <= count'[u]
    BY <1>6, <2>1, <2>2, <2>3
  <2> QED BY <2>1, <2>3 DEF WindowInv
<1>9. CASE pipe' = pipe
  BY <1>3, <1>4, <1>5, <1>6, <1>9 DEF WindowInv
<1>10. CASE Early!Open(t)
  <2>1. pipe' = pipe
    BY <1>0, <1>10 DEF StartIInv, StartInv, EarlyInv, Early!Open, Early!Idle, LogPc
  <2> QED BY <2>1, <1>9
<1> QED BY <1>7, <1>8, <1>9, <1>10 DEF Early!Step, Early!Log, Early!Test, Early!Copy, Early!Load,
   Early!Store, Early!IsReady, Early!Start, Early!Called, Early!Ready, Early!Stop

\* A record is in the pipe twice when the cache is written to it if it was in
\* the pipe and in the cache.
LEMMA FlushTimes ==
    ASSUME OneOfEach, StartIInv, NEW t \in Early!Thread, Early!Flush(t), NEW r, Once(r),
           \A j, k \in 0 .. cached_bytes - 1 : cache[j] = r /\ cache[k] = r => j = k
    PROVE  \/ Once(r)'
           \/ InPipe(r) /\ \E i, j \in 1 .. Len(pipe') :
                 i # j /\ \A k \in 1 .. Len(pipe') : pipe'[k] = r <=> k = i \/ k = j
<1>1. /\ Len(pipe) \in Nat /\ cached_bytes \in Nat
      /\ \A i \in 1 .. Len(pipe) : i \in 1 .. Len(pipe') /\ pipe'[i] = pipe[i]
      /\ \A i \in 1 .. Len(pipe') : i \notin 1 .. Len(pipe) =>
            i - Len(pipe) - 1 \in 0 .. cached_bytes - 1 /\ pipe'[i] = cache[i - Len(pipe) - 1]
  <2>1. CacheSize \in Nat
    BY Threads
  <2> QED BY <2>1, FlushedPipe
<1>2. \A i, j \in 1 .. Len(pipe) : pipe'[i] = r /\ pipe'[j] = r => i = j
  BY <1>1 DEF Once
<1>3. \A i, j \in 1 .. Len(pipe') :
         /\ i \notin 1 .. Len(pipe) /\ j \notin 1 .. Len(pipe)
         /\ pipe'[i] = r /\ pipe'[j] = r
         => i = j
  <2> SUFFICES ASSUME NEW i \in 1 .. Len(pipe'), NEW j \in 1 .. Len(pipe'),
                      i \notin 1 .. Len(pipe), j \notin 1 .. Len(pipe), pipe'[i] = r, pipe'[j] = r
               PROVE  i = j
    OBVIOUS
  <2>1. i - Len(pipe) - 1 = j - Len(pipe) - 1
    BY <1>1
  <2> QED BY <1>1, <2>1
<1>4. CASE \E i \in 1 .. Len(pipe) : pipe'[i] = r
  <2>1. PICK i \in 1 .. Len(pipe) : pipe'[i] = r
    BY <1>4
  <2>2. CASE \E j \in 1 .. Len(pipe') : j \notin 1 .. Len(pipe) /\ pipe'[j] = r
    <3>1. PICK j \in 1 .. Len(pipe') : j \notin 1 .. Len(pipe) /\ pipe'[j] = r
      BY <2>2
    <3>2. \A k \in 1 .. Len(pipe') : pipe'[k] = r <=> k = i \/ k = j
      BY <1>2, <1>3, <2>1, <3>1
    <3>3. InPipe(r) /\ i \in 1 .. Len(pipe') /\ i # j
      BY <1>1, <2>1, <3>1 DEF InPipe
    <3> QED BY <3>2, <3>3
  <2>3. CASE ~ \E j \in 1 .. Len(pipe') : j \notin 1 .. Len(pipe) /\ pipe'[j] = r
    BY <1>2, <2>3 DEF Once
  <2> QED BY <2>2, <2>3
<1>5. CASE ~ \E i \in 1 .. Len(pipe) : pipe'[i] = r
  BY <1>3, <1>5 DEF Once
<1> QED BY <1>4, <1>5

LEMMA StepTimes == ASSUME OneOfEach, StartIInv, NEW t \in Early!Thread, Early!Step(t) PROVE TimesInv'
<1>0. /\ Loggers = {Logger} /\ Starters = {Starter} /\ Logger # Starter
      /\ Early!Thread = {Logger, Starter} /\ CacheSize \in Nat
      /\ StartTypeOK /\ StartTypeOK' /\ StartInv
  BY Threads, StepTypeOK DEF StartIInv
<1>1. \A i \in 1 .. Len(pipe) : Once(pipe[i]) \/ (flushed /\ Twice(pipe[i]))
  BY DEF StartIInv, TimesInv
<1>2. \A u \in Early!Thread :
         Logging(u) /\ InPipe(Early!Record(u)) => Once(Early!Record(u)) /\ Early!Record(u) \in window
  BY DEF StartIInv, TimesInv
<1>3. \A u \in Early!Thread, k \in Nat :
         InPipe(<<u, k>>) => /\ k <= count[u]
                             /\ ~flushed /\ Logging(u) => k # count[u]
                             /\ ~flushed => <<u, k>> \in window
  BY DEF StartIInv, WindowInv, InPipe
<1>4. flushed => flushed'
  BY DEF Early!Step, Early!Log, Early!Test, Early!Copy, Early!Load, Early!Store, Early!IsReady,
     Early!Direct, Early!Start, Early!Called, Early!Open, Early!Ready, Early!Flush, Early!Stop,
     Early!service
<1>5. ASSUME NEW u \in Early!Thread, Logging(u)', InPipe(<<u, count'[u]>>)
      PROVE  /\ Logging(u) /\ Early!Record(u)' = Early!Record(u)
             /\ Once(Early!Record(u)) /\ Early!Record(u) \in window'
  <2>1. /\ count[u] \in Nat /\ count'[u] \in Nat
        /\ (count'[u] = count[u] /\ Logging(u)) \/ count'[u] = count[u] + 1
    BY <1>5, StepCount
  <2>2. count'[u] <= count[u]
    BY <1>3, <1>5, <2>1
  <2>3. count'[u] = count[u] /\ Logging(u)
    BY <2>1, <2>2
  <2> QED BY <1>2, <1>5, <2>3, WindowGrows DEF Early!Record
<1>6. CASE pipe' = pipe
  <2>1. ASSUME NEW i \in 1 .. Len(pipe) PROVE Once(pipe[i])' \/ (flushed' /\ Twice(pipe[i])')
    <3>1. CASE Once(pipe[i])
      BY <1>6, <3>1 DEF Once
    <3>2. CASE flushed /\ Twice(pipe[i])
      BY <1>4, <1>6, <3>2, WindowGrows DEF Twice
    <3> QED BY <1>1, <3>1, <3>2
  <2>2. ASSUME NEW u \in Early!Thread, Logging(u)', InPipe(Early!Record(u))'
        PROVE  Once(Early!Record(u))' /\ Early!Record(u)' \in window'
    <3>1. InPipe(<<u, count'[u]>>)
      BY <1>6, <2>2 DEF InPipe, Early!Record
    <3> QED BY <1>5, <1>6, <2>2, <3>1 DEF Once
  <2> QED BY <1>6, <2>1, <2>2 DEF TimesInv
<1>7. CASE Early!Direct(t)
  <2> DEFINE n == Len(pipe) + 1
  <2>1. pipe' = Append(pipe, Early!Record(t)) /\ Len(pipe') = n /\ Len(pipe) \in Nat
    BY <1>0, <1>7 DEF Early!Direct, StartTypeOK
  <2>2. \A i \in 1 .. n : pipe'[i] = IF i = n THEN Early!Record(t) ELSE pipe[i]
    BY <1>0, <2>1 DEF StartTypeOK
  <2>3. \A i \in 1 .. n : i \in 1 .. Len(pipe) \/ i = n
    BY <2>1
  <2>4. \A i \in 1 .. Len(pipe) : i \in 1 .. n /\ i # n
    BY <2>1
  <2>5. Logging(t) /\ ~Logging(t)' /\ count' = count
    BY <1>0, <1>7 DEF Early!Direct, Early!Go, Logging, LogPc, Early!Idle, StartTypeOK
  <2> HIDE DEF n
  <2>6. ASSUME NEW r, r # Early!Record(t), Once(r) PROVE Once(r)'
    BY <2>1, <2>2, <2>3, <2>6 DEF Once
  <2>7. ASSUME NEW r, r # Early!Record(t), Twice(r) PROVE Twice(r)'
    <3>1. PICK i, j \in 1 .. Len(pipe) : i # j /\ \A k \in 1 .. Len(pipe) : pipe[k] = r <=> k = i \/ k = j
      BY <2>7 DEF Twice
    <3>2. i \in 1 .. n /\ j \in 1 .. n /\ \A k \in 1 .. n : pipe'[k] = r <=> k = i \/ k = j
      BY <2>2, <2>3, <2>4, <2>7, <3>1
    <3> QED BY <2>1, <2>7, <3>1, <3>2, WindowGrows DEF Twice
  <2> PICK r0 : r0 = Early!Record(t) /\ r0 = Early!Record(t)'
    BY <2>5 DEF Early!Record
  <2>8. ~InPipe(r0) => Once(r0)'
    BY <2>1, <2>2, <2>3 DEF InPipe, Once
  <2>9. ASSUME InPipe(r0) PROVE flushed' /\ Twice(r0)'
    <3>1. Once(r0) /\ r0 \in window
      BY <1>2, <2>5, <2>9
    <3>2. flushed
      BY <1>0, <1>3, <2>5, <2>9 DEF Early!Record, StartTypeOK
    <3>3. PICK i \in 1 .. Len(pipe) : pipe[i] = r0
      BY <2>9 DEF InPipe
    <3>4. i \in 1 .. n /\ n \in 1 .. n /\ i # n /\ \A k \in 1 .. n : pipe'[k] = r0 <=> k = i \/ k = n
      BY <2>1, <2>2, <2>3, <2>4, <3>1, <3>3 DEF Once, n
    <3>5. r0 \in window' /\ flushed'
      BY <1>4, <3>1, <3>2, WindowGrows
    <3>6. \E a, b \in 1 .. Len(pipe') :
             a # b /\ \A k \in 1 .. Len(pipe') : pipe'[k] = r0 <=> k = a \/ k = b
      <4>1. Len(pipe') = n
        BY <2>1
      <4> QED BY <3>4, <4>1, Zenon
    <3>7. Twice(r0)'
      BY <3>5, <3>6, Zenon DEF Twice
    <3> QED BY <3>5, <3>7
  <2>10. ASSUME NEW r, r = Early!Record(t) \/ Once(r) \/ (flushed /\ Twice(r))
         PROVE  Once(r)' \/ (flushed' /\ Twice(r)')
    <3>1. CASE r # Early!Record(t)
      BY <1>4, <2>6, <2>7, <2>10, <3>1
    <3>2. CASE r = Early!Record(t)
      BY <2>8, <2>9, <3>2
    <3> QED BY <3>1, <3>2
  <2>11. ASSUME NEW i \in 1 .. n PROVE Once(pipe[i])' \/ (flushed' /\ Twice(pipe[i])')
    <3>1. PICK r : r = pipe'[i]
      OBVIOUS
    <3>2. r = Early!Record(t) \/ Once(r) \/ (flushed /\ Twice(r))
      BY <1>1, <2>2, <2>3, <3>1
    <3>3. Once(r)' \/ (flushed' /\ Twice(r)')
      BY <2>10, <3>2
    <3> QED BY <3>1, <3>3 DEF Once, Twice
  <2>12. ASSUME NEW u \in Early!Thread, Logging(u)', InPipe(Early!Record(u))'
         PROVE  Once(Early!Record(u))' /\ Early!Record(u)' \in window'
    <3>1. u # t /\ Early!Record(u)' = <<u, count[u]>> /\ Early!Record(u) = <<u, count[u]>>
      BY <2>5, <2>12 DEF Early!Record
    <3>2. Early!Record(u) # Early!Record(t)
      BY <3>1 DEF Early!Record
    <3>3. InPipe(<<u, count'[u]>>)
      BY <2>1, <2>2, <2>3, <2>5, <2>12, <3>1, <3>2 DEF InPipe
    <3>4. Once(Early!Record(u)) /\ Early!Record(u)' \in window'
      BY <1>5, <2>12, <3>3
    <3>5. PICK r : r = <<u, count[u]>>
      OBVIOUS
    <3>6. Once(r)'
      BY <2>6, <3>1, <3>2, <3>4, <3>5
    <3> QED BY <3>1, <3>4, <3>5, <3>6 DEF Once
  <2> QED BY <2>1, <2>11, <2>12 DEF TimesInv
<1>8. CASE Early!Flush(t)
  <2>1. ~flushed /\ ready /\ flushed' /\ count' = count /\ window' = window /\ t = Starter
        /\ start_pc' = [start_pc EXCEPT ![t] = "stop"]
    BY <1>0, <1>8 DEF Early!Flush, Early!Go, StartInv, LogPc, Early!Idle
  <2>2. cached_bytes \in 0 .. CacheSize /\ 0 .. cached_bytes - 1 \subseteq Early!Slots
    BY <1>0, <1>8, FlushedPipe DEF Early!Slots
  <2>3. \A i, j \in 0 .. cached_bytes - 1 : cache[i] = cache[j] => i = j \/ cache[i] = <<>>
    BY <2>2 DEF StartIInv, CacheInv
  <2>4. \A i, j \in 0 .. cached_bytes - 1 : cache[i] = <<>> /\ cache[j] = <<>> => i = j
    <3>1. PICK g \in Int : \A i \in 0 .. CacheSize : i # g /\ Taken(i) => Written(i)
      BY <2>1 DEF StartIInv, GapInv
    <3>2. \A i \in 0 .. cached_bytes - 1 : i \in 0 .. CacheSize /\ Taken(i)
      BY <1>0, <2>2 DEF Taken
    <3> QED BY <3>1, <3>2 DEF Written
  <2>5. ASSUME NEW r PROVE \A i, j \in 0 .. cached_bytes - 1 : cache[i] = r /\ cache[j] = r => i = j
    BY <2>3, <2>4
  <2>6. ASSUME NEW r PROVE Once(r)
    BY <1>1, <2>1 DEF Once
  <2>7. ASSUME NEW i \in 1 .. Len(pipe') PROVE Once(pipe[i])' \/ (flushed' /\ Twice(pipe[i])')
    <3>1. PICK r : r = pipe'[i]
      OBVIOUS
    <3>2. CASE Once(r)'
      BY <3>1, <3>2 DEF Once
    <3>3. CASE ~Once(r)'
      <4>1. InPipe(r) /\ \E k, j \in 1 .. Len(pipe') :
               k # j /\ \A m \in 1 .. Len(pipe') : pipe'[m] = r <=> m = k \/ m = j
        <5>1. Once(r)
          BY <2>6
        <5>2. \A a, b \in 0 .. cached_bytes - 1 : cache[a] = r /\ cache[b] = r => a = b
          BY <2>5
        <5> QED BY <1>8, <3>3, <5>1, <5>2, FlushTimes
      <4>2. r \in Entry /\ r # <<>>
        BY <1>0, <2>1, <4>1 DEF StartIInv, WindowInv, InPipe, StartTypeOK
      <4>3. PICK u \in Early!Thread, k \in Nat : r = <<u, k>>
        BY <4>2 DEF Entry
      <4>4. r \in window'
        BY <1>3, <2>1, <4>1, <4>3
      <4>5. Twice(r)'
        BY <4>1, <4>4 DEF Twice
      <4> QED BY <2>1, <3>1, <4>5 DEF Twice
    <3> QED BY <3>2, <3>3
  <2>8. ASSUME NEW u \in Early!Thread, Logging(u)', InPipe(Early!Record(u))'
        PROVE  Once(Early!Record(u))' /\ Early!Record(u)' \in window'
    <3>1. u # t /\ Logging(u)
      BY <1>0, <2>1, <2>8 DEF Logging, LogPc, StartTypeOK
    <3>2. PICK r : r = Early!Record(u) /\ r = Early!Record(u)'
      BY <2>1 DEF Early!Record
    <3>3. r = <<u, count[u]>> /\ count[u] \in Nat
      BY <1>0, <3>2 DEF Early!Record, StartTypeOK
    <3>4. ~InPipe(r)
      BY <1>3, <2>1, <3>1, <3>3
    <3>5. Once(r)'
      BY <1>8, <2>5, <2>6, <3>4, FlushTimes
    <3>6. r \in window'
      BY <2>1, <3>1, <3>2 DEF StartIInv, WindowInv
    <3> QED BY <3>2, <3>5, <3>6 DEF Once
  <2> QED BY <2>7, <2>8 DEF TimesInv
<1>9. CASE Early!Open(t)
  <2>1. pipe' = pipe
    BY <1>0, <1>9 DEF StartIInv, StartInv, EarlyInv, Early!Open, Early!Idle, LogPc
  <2> QED BY <2>1, <1>6
<1> QED BY <1>6, <1>7, <1>8, <1>9 DEF Early!Step, Early!Log, Early!Test, Early!Copy, Early!Load,
   Early!Store, Early!IsReady, Early!Start, Early!Called, Early!Ready, Early!Stop


LEMMA StartNext == ASSUME OneOfEach, StartIInv, [Early!Next]_(Early!vars) PROVE StartIInv'
<1>1. ASSUME NEW t \in Early!Thread, Early!Step(t) PROVE StartIInv'
  BY <1>1, StepTypeOK, StepStart, StepAlone, StepGap, StepCache, StepEarly, StepKept, StepWindow,
     StepTimes DEF StartIInv
<1>2. CASE UNCHANGED Early!vars
  <2> USE <1>2 DEF Early!vars, Early!service, Early!Record, Logging, Counting
  <2>1. StartTypeOK' /\ StartInv'
    BY DEF StartIInv, StartTypeOK, StartInv
  <2>2. AloneInv' /\ GapInv' /\ CacheInv'
    BY DEF StartIInv, AloneInv, Alone, GapInv, GapBounds, Taken, Written, CacheInv
  <2>3. EarlyInv'
    BY DEF StartIInv, EarlyInv, Counted
  <2>4. ASSUME NEW u \in Early!Thread, NEW k \in Nat, Done(u, k)
        PROVE  <<u, k>> \in dropped' \/ InPipe(<<u, k>>)' \/ (~flushed' /\ Counted(<<u, k>>)')
    BY <2>4 DEF StartIInv, KeptInv, InPipe, Counted
  <2>5. KeptInv'
    BY <2>4 DEF KeptInv, Done
  <2>6. WindowInv'
    BY DEF StartIInv, WindowInv
  <2>7. ASSUME NEW i \in 1 .. Len(pipe) PROVE Once(pipe[i])' \/ (flushed' /\ Twice(pipe[i])')
    BY DEF StartIInv, TimesInv, Once, Twice
  <2>8. ASSUME NEW u \in Early!Thread, Logging(u), InPipe(Early!Record(u))
        PROVE  Once(Early!Record(u))' /\ Early!Record(u)' \in window'
    BY <2>8 DEF StartIInv, TimesInv, Once
  <2>9. TimesInv'
    BY <2>7, <2>8 DEF TimesInv, InPipe
  <2> QED BY <2>1, <2>2, <2>3, <2>5, <2>6, <2>9 DEF StartIInv
<1> QED BY <1>1, <1>2 DEF Early!Next

-----------------------------------------------------------------------------
\* The instance has its own copies of the library's operators.
LEMMA EarlyCardinality == \A X : Early!Cardinality(X) = Cardinality(X)
BY DEF Early!Cardinality, Cardinality

LEMMA EarlyToSet == \A p : Early!ToSet(p) = ToSet(p)
BY DEF Early!ToSet, ToSet

LEMMA OnceIsOne ==
    ASSUME pipe \in Seq(Entry), NEW r, InPipe(r), Once(r)
    PROVE  Early!Times(r) = 1
<1>1. PICK i \in 1 .. Len(pipe) : pipe[i] = r
  BY DEF InPipe
<1>2. DOMAIN pipe = 1 .. Len(pipe)
  OBVIOUS
<1>3. {k \in DOMAIN pipe : pipe[k] = r} = {i}
  BY <1>1, <1>2 DEF Once
<1> QED BY <1>3, FS_Singleton, EarlyCardinality DEF Early!Times

LEMMA TwiceIsTwo ==
    ASSUME pipe \in Seq(Entry), NEW r, Twice(r)
    PROVE  Early!Times(r) = 2
<1>1. PICK i, j \in 1 .. Len(pipe) :
         i # j /\ \A k \in 1 .. Len(pipe) : pipe[k] = r <=> k = i \/ k = j
  BY DEF Twice
<1>2. DOMAIN pipe = 1 .. Len(pipe)
  OBVIOUS
<1>3. {k \in DOMAIN pipe : pipe[k] = r} = {i} \cup {j}
  BY <1>1, <1>2
<1>4. IsFiniteSet({i}) /\ Cardinality({i}) = 1 /\ j \notin {i}
  BY <1>1, FS_Singleton
<1>5. Cardinality({i} \cup {j}) = 1 + 1
  BY <1>4, FS_AddElement, Zenon
<1>6. Early!Times(r) = Cardinality({i} \cup {j})
  BY <1>3, EarlyCardinality DEF Early!Times
<1>7. 1 + 1 = 2
  OBVIOUS
<1> QED BY <1>5, <1>6, <1>7, Zenon

LEMMA StartIInvKept == ASSUME OneOfEach, StartIInv PROVE EarlyKept
<1>0. pipe \in Seq(Entry) /\ CacheSize \in Nat /\ cached_bytes \in Int /\ count \in [Early!Thread -> Nat]
  BY Threads DEF StartIInv, StartTypeOK
<1>1. ToSet(pipe) = {pipe[i] : i \in 1 .. Len(pipe)}
  BY <1>0 DEF ToSet
<1>2. ASSUME NEW r \in Early!Logged \ dropped PROVE r \in ToSet(pipe) \/ (~flushed /\ r \in Early!Cached)
  <2>1. PICK t \in Early!Thread, k \in 1 .. MaxLogged :
           r = <<t, k>> /\ (k < count[t] \/ (k = count[t] /\ start_pc[t] = Early!Idle))
    BY <1>2 DEF Early!Logged
  <2>2. k \in Nat /\ Done(t, k)
    BY <2>1 DEF Done, Logging, LogPc, Early!Idle
  <2>3. CASE InPipe(r)
    BY <1>1, <2>3 DEF InPipe
  <2>6. CASE ~flushed /\ Counted(r)
    <3>1. PICK i \in 0 .. CacheSize : i < cached_bytes /\ cache[i] = r
      BY <2>6 DEF Counted
    <3>2. i \in 0 .. cached_bytes - 1
      BY <1>0, <3>1
    <3> QED BY <2>6, <3>1, <3>2 DEF Early!Cached
  <2> QED BY <1>2, <2>1, <2>2, <2>3, <2>6 DEF StartIInv, KeptInv
<1>3. ASSUME NEW r \in ToSet(pipe) PROVE Early!Times(r) = 1 \/ (Early!Times(r) = 2 /\ r \in window)
  <2>1. PICK i \in 1 .. Len(pipe) : r = pipe[i]
    BY <1>1, <1>3
  <2>2. InPipe(r) /\ (Once(r) \/ Twice(r))
    BY <2>1 DEF StartIInv, TimesInv, InPipe
  <2>3. CASE Once(r)
    BY <1>0, <2>2, <2>3, OnceIsOne
  <2>6. CASE Twice(r)
    <3>1. Early!Times(r) = 2
      BY <1>0, <2>6, TwiceIsTwo
    <3> QED BY <2>6, <3>1 DEF Twice
  <2> QED BY <2>2, <2>3, <2>6
<1> QED BY <1>2, <1>3, EarlyToSet DEF EarlyKept, Early!EarlyKept

\* With one thread that logs and one that starts the service, for a cache of any
\* size: every record reaches the pipe, or waits for it in the cache, unless there
\* was no room for it, and only one that is logged while the cache is flushed gets
\* there twice (log_file.c:162-165, :175-186).
THEOREM EarlyKeptHolds == ASSUME OneOfEach PROVE Early!Spec => []EarlyKept
<1>1. Early!Init => StartIInv
  BY StartInit
<1>2. StartIInv /\ [Early!Next]_(Early!vars) => StartIInv'
  BY StartNext
<1>3. StartIInv => EarlyKept
  BY StartIInvKept
<1> QED BY <1>1, <1>2, <1>3, PTL DEF Early!Spec
=============================================================================
