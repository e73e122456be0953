---------------------------- MODULE LogFileProofs ----------------------------
(***************************************************************************)
(* Theorems about the log-file service, for any number of logging threads, *)
(* any pipe and any chunk: its types, the order of the records, that none  *)
(* disappears, that what must be written has its write asked for, and what *)
(* log_safely_quit leaves unwritten.                                       *)
(*                                                                         *)
(* Most of the work is about sequences: what Put and Drain keep is a       *)
(* matter of which pieces a sequence has and in what order, so the lemmas  *)
(* that come first say it once for First, After and \o.                    *)
(***************************************************************************)
EXTENDS LogFile, SequenceTheorems, TLAPS

Sorted(s) == \A i, j \in DOMAIN s : i < j => Before(s[i], s[j])
Precede(s, t) == \A p \in ToSet(s), q \in ToSet(t) : Before(p, q)

\* The first n elements of a sequence.
LEMMA FirstElements ==
  ASSUME NEW S, NEW s \in Seq(S), NEW n \in Nat
  PROVE  /\ First(s, n) \in Seq(S)
         /\ Len(First(s, n)) = IF n <= Len(s) THEN n ELSE Len(s)
         /\ \A i \in 1 .. Len(First(s, n)) : i <= Len(s) /\ First(s, n)[i] = s[i]
<1> DEFINE m == IF n <= Len(s) THEN n ELSE Len(s)
<1>1. m \in 0 .. Len(s)
  OBVIOUS
<1>2. \A i \in 1 .. m : s[i] \in S
  BY <1>1, ElementOfSeq
<1> HIDE DEF m
<1>3. SubSeq(s, 1, m) \in Seq(S) /\ Len(SubSeq(s, 1, m)) = m
  BY <1>1, <1>2, SubSeqProperties
<1>4. \A i \in 1 .. m : SubSeq(s, 1, m)[i] = s[i]
  BY <1>1
<1> QED BY <1>1, <1>3, <1>4 DEF First, m

\* The elements after the first n.
LEMMA AfterElements ==
  ASSUME NEW S, NEW s \in Seq(S), NEW n \in Nat
  PROVE  /\ After(s, n) \in Seq(S)
         /\ Len(After(s, n)) = IF n <= Len(s) THEN Len(s) - n ELSE 0
         /\ \A i \in 1 .. Len(After(s, n)) :
              n + i <= Len(s) /\ After(s, n)[i] = s[n + i]
<1>1. \A i \in n + 1 .. Len(s) : s[i] \in S
  BY ElementOfSeq
<1>2. /\ SubSeq(s, n + 1, Len(s)) \in Seq(S)
      /\ Len(SubSeq(s, n + 1, Len(s))) = IF n + 1 <= Len(s) THEN Len(s) - n ELSE 0
  BY <1>1, SubSeqProperties
<1>3. \A i \in 1 .. Len(s) - n : SubSeq(s, n + 1, Len(s))[i] = s[n + i]
  OBVIOUS
<1> QED BY <1>2, <1>3 DEF After

\* A sequence has the elements of its two parts, and they are as sorted as it.
LEMMA SplitSorted ==
  ASSUME NEW S, NEW s \in Seq(S), NEW n \in Nat
  PROVE  /\ ToSet(s) = ToSet(First(s, n)) \cup ToSet(After(s, n))
         /\ Sorted(s) => /\ Sorted(First(s, n)) /\ Sorted(After(s, n))
                         /\ Precede(First(s, n), After(s, n))
<1> DEFINE f == First(s, n)
           a == After(s, n)
<1>1. /\ f \in Seq(S) /\ Len(f) = IF n <= Len(s) THEN n ELSE Len(s)
      /\ \A i \in 1 .. Len(f) : i <= Len(s) /\ f[i] = s[i]
  BY FirstElements
<1>2. /\ a \in Seq(S) /\ Len(a) = IF n <= Len(s) THEN Len(s) - n ELSE 0
      /\ \A i \in 1 .. Len(a) : n + i <= Len(s) /\ a[i] = s[n + i]
  BY AfterElements
<1> HIDE DEF f, a
<1>3. Len(a) > 0 => n = Len(f)
  BY <1>1, <1>2
<1>4. ToSet(s) \subseteq ToSet(f) \cup ToSet(a)
  <2> SUFFICES ASSUME NEW i \in 1 .. Len(s) PROVE s[i] \in ToSet(f) \cup ToSet(a)
    BY DEF ToSet
  <2>1. CASE i <= n
    <3>1. i \in 1 .. Len(f) /\ f[i] = s[i]
      BY <1>1, <2>1
    <3> QED BY <1>1, <3>1 DEF ToSet
  <2>2. CASE i > n
    <3>1. i - n \in 1 .. Len(a) /\ n + (i - n) = i
      BY <1>2, <2>2
    <3>2. a[i - n] = s[i]
      BY <1>2, <3>1
    <3> QED BY <1>2, <3>1, <3>2 DEF ToSet
  <2> QED BY <2>1, <2>2
<1>5. ToSet(f) \subseteq ToSet(s) /\ ToSet(a) \subseteq ToSet(s)
  <2>1. \A i \in 1 .. Len(f) : f[i] \in ToSet(s)
    BY <1>1 DEF ToSet
  <2>2. \A i \in 1 .. Len(a) : a[i] \in ToSet(s)
    <3> SUFFICES ASSUME NEW i \in 1 .. Len(a) PROVE a[i] \in ToSet(s)
      OBVIOUS
    <3>1. n + i \in DOMAIN s /\ a[i] = s[n + i]
      BY <1>2
    <3> QED BY <3>1 DEF ToSet
  <2>3. DOMAIN f = 1 .. Len(f) /\ DOMAIN a = 1 .. Len(a)
    BY <1>1, <1>2
  <2>4. ToSet(f) = {f[i] : i \in 1 .. Len(f)} /\ ToSet(a) = {a[i] : i \in 1 .. Len(a)}
    BY <2>3 DEF ToSet
  <2> QED BY <2>1, <2>2, <2>4
<1>6. ASSUME Sorted(s) PROVE Sorted(f) /\ Sorted(a) /\ Precede(f, a)
  <2>1. Sorted(f)
    BY <1>1, <1>6 DEF Sorted
  <2>2. Sorted(a)
    <3>0. DOMAIN a = 1 .. Len(a)
      BY <1>2
    <3> SUFFICES ASSUME NEW i \in 1 .. Len(a), NEW j \in 1 .. Len(a), i < j
                 PROVE  Before(a[i], a[j])
      BY <3>0 DEF Sorted
    <3>1. /\ a[i] = s[n + i] /\ n + i \in DOMAIN s
          /\ a[j] = s[n + j] /\ n + j \in DOMAIN s /\ n + i < n + j
      BY <1>2
    <3> QED BY <1>6, <3>1 DEF Sorted
  <2>3. Precede(f, a)
    <3>1. DOMAIN f = 1 .. Len(f) /\ DOMAIN a = 1 .. Len(a)
      BY <1>1, <1>2
    <3> SUFFICES ASSUME NEW x \in ToSet(f), NEW y \in ToSet(a) PROVE Before(x, y)
      BY Zenon DEF Precede
    <3>2. PICK i \in 1 .. Len(f) : x = f[i]
      BY <3>1 DEF ToSet
    <3>3. PICK j \in 1 .. Len(a) : y = a[j]
      BY <3>1 DEF ToSet
    <3>4. f[i] = s[i] /\ a[j] = s[n + j] /\ i \in DOMAIN s /\ n + j \in DOMAIN s /\ i < n + j
      BY <1>1, <1>2
    <3> QED BY <1>6, <3>2, <3>3, <3>4 DEF Sorted
  <2> QED BY <2>1, <2>2, <2>3
<1> QED BY <1>4, <1>5, <1>6 DEF f, a

\* The same for two sequences put together.
LEMMA JoinSorted ==
  ASSUME NEW S, NEW s \in Seq(S), NEW t \in Seq(S)
  PROVE  /\ s \o t \in Seq(S) /\ Len(s \o t) = Len(s) + Len(t)
         /\ ToSet(s \o t) = ToSet(s) \cup ToSet(t)
         /\ Sorted(s \o t) <=> Sorted(s) /\ Sorted(t) /\ Precede(s, t)
<1> DEFINE u == s \o t
<1>1. /\ u \in Seq(S) /\ Len(u) = Len(s) + Len(t)
      /\ \A i \in 1 .. Len(s) : i \in DOMAIN u /\ u[i] = s[i]
      /\ \A i \in 1 .. Len(t) : Len(s) + i \in DOMAIN u /\ u[Len(s) + i] = t[i]
      /\ \A i \in DOMAIN u : \/ i \in DOMAIN s /\ u[i] = s[i]
                             \/ i - Len(s) \in DOMAIN t /\ u[i] = t[i - Len(s)]
                                                        /\ i > Len(s)
  BY ConcatProperties
<1> HIDE DEF u
<1>2. ToSet(u) = ToSet(s) \cup ToSet(t)
  <2>1. \A i \in DOMAIN s : s[i] \in ToSet(u)
    BY <1>1 DEF ToSet
  <2>2. \A i \in DOMAIN t : t[i] \in ToSet(u)
    <3> SUFFICES ASSUME NEW i \in 1 .. Len(t) PROVE t[i] \in ToSet(u)
      OBVIOUS
    <3>1. Len(s) + i \in DOMAIN u /\ u[Len(s) + i] = t[i]
      BY <1>1
    <3> QED BY <3>1 DEF ToSet
  <2>3. \A i \in DOMAIN u : u[i] \in ToSet(s) \cup ToSet(t)
    <3> SUFFICES ASSUME NEW i \in DOMAIN u PROVE u[i] \in ToSet(s) \cup ToSet(t)
      OBVIOUS
    <3>1. CASE i \in DOMAIN s /\ u[i] = s[i]
      BY <3>1 DEF ToSet
    <3>2. CASE i - Len(s) \in DOMAIN t /\ u[i] = t[i - Len(s)]
      BY <3>2 DEF ToSet
    <3> QED BY <1>1, <3>1, <3>2
  <2> QED BY <2>1, <2>2, <2>3 DEF ToSet
<1>3. ASSUME Sorted(u) PROVE Sorted(s) /\ Sorted(t) /\ Precede(s, t)
  <2>1. Sorted(s)
    <3>0. DOMAIN s = 1 .. Len(s)
      OBVIOUS
    <3> SUFFICES ASSUME NEW i \in 1 .. Len(s), NEW j \in 1 .. Len(s), i < j
                 PROVE  Before(s[i], s[j])
      BY <3>0 DEF Sorted
    <3>1. s[i] = u[i] /\ i \in DOMAIN u /\ s[j] = u[j] /\ j \in DOMAIN u
      BY <1>1
    <3> QED BY <1>3, <3>1 DEF Sorted
  <2>2. Sorted(t)
    <3>0. DOMAIN t = 1 .. Len(t)
      OBVIOUS
    <3> SUFFICES ASSUME NEW i \in 1 .. Len(t), NEW j \in 1 .. Len(t), i < j
                 PROVE  Before(t[i], t[j])
      BY <3>0 DEF Sorted
    <3>1. /\ t[i] = u[Len(s) + i] /\ Len(s) + i \in DOMAIN u
          /\ t[j] = u[Len(s) + j] /\ Len(s) + j \in DOMAIN u
          /\ Len(s) + i < Len(s) + j
      BY <1>1
    <3> QED BY <1>3, <3>1 DEF Sorted
  <2>3. Precede(s, t)
    <3> SUFFICES ASSUME NEW i \in 1 .. Len(s), NEW j \in 1 .. Len(t)
                 PROVE  Before(s[i], t[j])
      BY DEF Precede, ToSet
    <3>1. /\ s[i] = u[i] /\ i \in DOMAIN u
          /\ t[j] = u[Len(s) + j] /\ Len(s) + j \in DOMAIN u
          /\ i < Len(s) + j
      BY <1>1
    <3> QED BY <1>3, <3>1 DEF Sorted
  <2> QED BY <2>1, <2>2, <2>3
<1>4. ASSUME Sorted(s), Sorted(t), Precede(s, t) PROVE Sorted(u)
  <2> SUFFICES ASSUME NEW i \in DOMAIN u, NEW j \in DOMAIN u, i < j
               PROVE  Before(u[i], u[j])
    BY DEF Sorted
  <2>0. i \in Nat /\ j \in Nat
    BY <1>1
  <2>1. CASE i \in DOMAIN s /\ j \in DOMAIN s
    <3>1. u[i] = s[i] /\ u[j] = s[j]
      BY <1>1, <2>1
    <3> QED BY <1>4, <2>1, <3>1 DEF Sorted
  <2>2. CASE i \in DOMAIN s /\ j \notin DOMAIN s
    <3>1. u[i] \in ToSet(s) /\ u[j] \in ToSet(t)
      BY <1>1, <2>2 DEF ToSet
    <3> QED BY <1>4, <3>1 DEF Precede
  <2>3. CASE i \notin DOMAIN s
    <3>1. i > Len(s) /\ j > Len(s)
      BY <2>0, <2>3, <1>1
    <3>2. /\ i - Len(s) \in DOMAIN t /\ u[i] = t[i - Len(s)]
          /\ j - Len(s) \in DOMAIN t /\ u[j] = t[j - Len(s)]
      BY <1>1, <3>1
    <3>3. i - Len(s) < j - Len(s)
      BY <2>0
    <3> QED BY <1>4, <3>2, <3>3 DEF Sorted
  <2> QED BY <2>1, <2>2, <2>3
<1> QED BY <1>1, <1>2, <1>3, <1>4 DEF u
-----------------------------------------------------------------------------
\* What Put does: the stream of the pipe goes on with s, and what does not fit
\* is lost at its old end.
LEMMA PutKeeps ==
  ASSUME TypeOK, NEW s \in Seq(Piece), Put(s)
  PROVE  /\ pipe' \in Seq(Piece) /\ Len(pipe') <= Capacity /\ lost' \subseteq Piece
         /\ ToSet(pipe') \subseteq ToSet(pipe) \cup ToSet(s)
         /\ ToSet(pipe') \cup lost' = ToSet(pipe) \cup ToSet(s) \cup lost
         /\ Sorted(pipe \o s) => Sorted(pipe')
<1> DEFINE all == pipe \o s
           over == IF Len(all) > Capacity THEN Len(all) - Capacity ELSE 0
<1>0. pipe \in Seq(Piece)
  BY DEF TypeOK
<1>1. all \in Seq(Piece) /\ Len(all) \in Nat /\ ToSet(all) = ToSet(pipe) \cup ToSet(s)
  BY <1>0, JoinSorted
<1> HIDE DEF all
<1>2. over \in Nat /\ Len(all) - over <= Capacity /\ over <= Len(all)
  BY <1>1, SizeAssumption
<1>3. pipe' = After(all, over) /\ lost' = lost \cup ToSet(First(all, over))
  BY DEF Put, all
<1> HIDE DEF over
<1>4. pipe' \in Seq(Piece) /\ Len(pipe') <= Capacity
  BY <1>1, <1>2, <1>3, AfterElements
<1>5. /\ ToSet(all) = ToSet(First(all, over)) \cup ToSet(pipe')
      /\ Sorted(all) => Sorted(pipe')
  BY <1>1, <1>2, <1>3, SplitSorted
<1>6. ToSet(all) \subseteq Piece
  BY <1>1, ElementOfSeq DEF ToSet
<1>7. lost' \subseteq Piece
  BY <1>3, <1>5, <1>6 DEF TypeOK
<1> QED BY <1>1, <1>3, <1>4, <1>5, <1>7 DEF all

\* What a turn of the drain does: a chunk of the stream goes from the pipe to
\* the file or, when the disk fails, is lost; a short chunk was all of it.
LEMMA DrainKeeps ==
  ASSUME TypeOK, NEW from, NEW to, Drain(from, to)
  PROVE  /\ pipe' \in Seq(Piece) /\ Len(pipe') <= Capacity
         /\ file' \in Seq(Piece) /\ lost' \subseteq Piece
         /\ ToSet(pipe') \subseteq ToSet(pipe)
         /\ ToSet(file') \cup ToSet(pipe') \subseteq ToSet(file) \cup ToSet(pipe)
         /\ ToSet(file) \cup ToSet(pipe) \cup lost
              = ToSet(file') \cup ToSet(pipe') \cup lost'
         /\ InOrder => InOrder'
         /\ spc' = from \/ (spc' = to /\ pipe' = <<>>)
<1> DEFINE f == First(pipe, Chunk)
<1>0. pipe \in Seq(Piece) /\ file \in Seq(Piece) /\ lost \subseteq Piece /\ Chunk \in Nat
      /\ pipe' = After(pipe, Chunk)
  <2>1. pipe \in Seq(Piece) /\ file \in Seq(Piece) /\ lost \subseteq Piece
    BY DEF TypeOK
  <2>2. pipe' = After(pipe, Chunk)
    BY DEF Drain
  <2>3. Chunk \in Nat
    BY SizeAssumption
  <2> QED BY <2>1, <2>2, <2>3
<1>1. /\ pipe' \in Seq(Piece) /\ Len(pipe') <= Capacity
      /\ Len(pipe') = IF Chunk <= Len(pipe) THEN Len(pipe) - Chunk ELSE 0
  <2>1. /\ pipe' \in Seq(Piece)
        /\ Len(pipe') = IF Chunk <= Len(pipe) THEN Len(pipe) - Chunk ELSE 0
    BY <1>0, AfterElements
  <2>2. Len(pipe) \in Nat /\ Len(pipe) <= Capacity /\ Capacity \in Nat
    <3>1. Len(pipe) <= Capacity
      BY DEF TypeOK
    <3> QED BY <1>0, <3>1, SizeAssumption
  <2> QED BY <1>0, <2>1, <2>2
<1>2. /\ ToSet(pipe) = ToSet(f) \cup ToSet(pipe')
      /\ Sorted(pipe) => Sorted(f) /\ Sorted(pipe') /\ Precede(f, pipe')
  BY <1>0, SplitSorted
<1>3. f \in Seq(Piece)
  BY <1>0, FirstElements
<1>4. ToSet(f) \subseteq Piece
  BY <1>3, ElementOfSeq DEF ToSet
<1>5. \/ file' = file \o f /\ lost' = lost
      \/ file' = file /\ lost' = lost \cup ToSet(f)
  BY DEF Drain
<1> HIDE DEF f
<1>6. InOrder <=> Sorted(file) /\ Sorted(pipe) /\ Precede(file, pipe)
  BY <1>0, JoinSorted DEF InOrder, Sorted
<1>7. file \o f \in Seq(Piece) /\ ToSet(file \o f) = ToSet(file) \cup ToSet(f)
      /\ (Sorted(file \o f) <=> Sorted(file) /\ Sorted(f) /\ Precede(file, f))
  BY <1>0, <1>3, JoinSorted
<1>8. file' \in Seq(Piece)
  BY <1>0, <1>5, <1>7
<1>9. InOrder' <=> Sorted(file') /\ Sorted(pipe') /\ Precede(file', pipe')
  BY <1>1, <1>8, JoinSorted DEF InOrder, Sorted
<1>10. ASSUME InOrder PROVE InOrder'
  <2>1. CASE file' = file
    BY <1>2, <1>6, <1>9, <1>10, <2>1 DEF Precede
  <2>2. CASE file' = file \o f
    BY <1>2, <1>6, <1>7, <1>9, <1>10, <2>2 DEF Precede
  <2> QED BY <1>5, <2>1, <2>2
<1>11. spc' = from \/ (spc' = to /\ Len(pipe) < Chunk)
  <2>1. spc' = IF Len(pipe) < Chunk THEN to ELSE from
    BY DEF Drain, ServiceGoto
  <2> QED BY <2>1
<1>12. Len(pipe) < Chunk => pipe' = <<>>
  BY <1>0, <1>1, SizeAssumption, EmptySeq
<1> QED BY <1>0, <1>1, <1>2, <1>4, <1>5, <1>7, <1>8, <1>10, <1>11, <1>12
-----------------------------------------------------------------------------
\* The pieces that have not disappeared.
Stored == ToSet(file) \cup ToSet(pipe) \cup lost

Active(i) == ipc[i] # "idle"

\* One thread at a time is in log_file_inject past its lock, and what it logs
\* is the newest record.
MutexInv == \A i \in Injector : Active(i) <=> mutex = i
RecordInv == \A i \in Injector : Active(i) => record[i] \in Record /\ record[i].id = next - 1

\* So what it puts into the pipe next comes after all that is there.
NewInv ==
  \A p \in ToSet(file) \cup ToSet(pipe) :
    /\ p.id < next
    /\ \A i \in Injector : Active(i) =>
         \/ p.id < record[i].id
         \/ ipc[i] = "prefix" /\ p.part = "prefix"
         \/ ipc[i] = "text"

\* The pieces that are nowhere yet are those the thread has still to put.
VanishInv ==
  \A id \in 1 .. next - 1, part \in {"prefix", "text"} :
    \/ \E p \in Stored : p.id = id /\ p.part = part
    \/ \E i \in Injector : /\ Active(i) /\ record[i].id = id
                           /\ ipc[i] = "locked" \/ (ipc[i] = "prefix" /\ part = "text")

ExitInv == spc \in {"last open", "last drain", "done"} => exit_flag

\* The type invariant in parts, for the provers' sake.
StreamsOK == /\ pipe \in Seq(Piece) /\ Len(pipe) <= Capacity
             /\ file \in Seq(Piece) /\ lost \subseteq Piece
FlagsOK == /\ need_write \in BOOLEAN /\ pause_flag \in BOOLEAN /\ open_failed \in BOOLEAN
           /\ pause_exists \in BOOLEAN /\ exit_flag \in BOOLEAN
PlacesOK ==
  /\ spc \in {"top", "look", "open", "drain", "sleep", "last open", "last drain", "done"}
  /\ qpc \in {"none", "synced", "flagged", "joined"}
  /\ pauses \in 0 .. MaxPause /\ owed \subseteq Piece
InjectionOK ==
  /\ mutex \in Injector \cup {NoInjector}
  /\ ipc \in [Injector -> {"idle", "locked", "prefix", "text"}]
  /\ record \in [Injector -> Record \cup {NoRecord}]
  /\ next \in 1 .. MaxRecord + 1

LEMMA TypeParts == TypeOK <=> StreamsOK /\ FlagsOK /\ PlacesOK /\ InjectionOK
BY Zenon DEF TypeOK, StreamsOK, FlagsOK, PlacesOK, InjectionOK

\* What is there to say about the records and the streams, and the whole.
RecordsInv == /\ StreamsOK /\ InjectionOK /\ MutexInv /\ RecordInv /\ NewInv
              /\ InOrder /\ VanishInv
IInv == TypeOK /\ RecordsInv /\ ExitInv

\* A piece put by the thread i of its record.
LEMMA PieceIsPiece ==
  ASSUME NEW r \in Record, NEW part \in {"prefix", "text"}
  PROVE  /\ PieceOf(r, part) \in Piece /\ PieceOf(r, part).id = r.id
         /\ PieceOf(r, part).part = part /\ PieceOf(r, part).urgent = r.urgent
BY DEF Record, Piece, PieceOf

\* A sequence of one piece.
LEMMA OnePiece ==
  ASSUME NEW p \in Piece
  PROVE  <<p>> \in Seq(Piece) /\ ToSet(<<p>>) = {p} /\ Sorted(<<p>>)
BY DEF ToSet, Sorted

\* Nothing happens yet, and everything is where it should be.
LEMMA InitIInv == Init => IInv
<1> SUFFICES ASSUME Init PROVE IInv
  OBVIOUS
<1> USE DEF Init
<1>1. ToSet(<<>>) = {} /\ <<>> \in Seq(Piece) /\ Len(<<>>) = 0
  BY EmptySeq DEF ToSet
<1>2. StreamsOK
  BY <1>1, SizeAssumption DEF StreamsOK
<1>3. FlagsOK
  BY Zenon DEF FlagsOK
<1>4. PlacesOK
  BY BoundAssumption DEF PlacesOK
<1>5. InjectionOK
  BY BoundAssumption DEF InjectionOK
<1>6. MutexInv /\ RecordInv
  BY InjectorAssumption, Zenon DEF MutexInv, RecordInv, Active
<1>7. NewInv
  BY <1>1 DEF NewInv
<1>8. InOrder
  <2>1. <<>> \o <<>> = <<>>
    BY ConcatEmptySeq, <1>1
  <2> QED BY <2>1 DEF InOrder
<1>9. VanishInv
  BY DEF VanishInv
<1>10. ExitInv
  BY DEF ExitInv
<1> QED BY <1>2, <1>3, <1>4, <1>5, <1>6, <1>7, <1>8, <1>9, <1>10, TypeParts
        DEF IInv, RecordsInv

\* Steps that touch neither the records nor the streams.
LEMMA RecordsUnchanged ==
  ASSUME RecordsInv, UNCHANGED <<pipe, file, lost, injection>>
  PROVE  RecordsInv'
BY DEF RecordsInv, injection, StreamsOK, InjectionOK, MutexInv, RecordInv, NewInv, InOrder,
       VanishInv, Stored, Active

\* The drain.
LEMMA RecordsDrain ==
  ASSUME TypeOK, RecordsInv, NEW from, NEW to, Drain(from, to)
  PROVE  RecordsInv'
<1>1. UNCHANGED <<mutex, ipc, record, next>>
  BY DEF Drain, injection
<1>2. StreamsOK' /\ (InOrder => InOrder')
  BY DrainKeeps DEF StreamsOK
<1>3. (InjectionOK /\ MutexInv /\ RecordInv)'
  BY <1>1 DEF RecordsInv, InjectionOK, MutexInv, RecordInv, Active
<1>4. NewInv'
  <2>1. ToSet(file') \cup ToSet(pipe') \subseteq ToSet(file) \cup ToSet(pipe)
    BY DrainKeeps
  <2> QED BY <1>1, <2>1 DEF RecordsInv, NewInv, Active
<1>5. VanishInv'
  <2>1. Stored' = Stored
    BY DrainKeeps DEF Stored
  <2> QED BY <1>1, <2>1 DEF RecordsInv, VanishInv, Active
<1> QED BY <1>2, <1>3, <1>4, <1>5 DEF RecordsInv

\* Putting pieces that come after all that is there keeps the order.
LEMMA PutInOrder ==
  ASSUME TypeOK, InOrder, NEW s \in Seq(Piece), Sorted(s), Put(s), file' = file,
         \A p \in ToSet(file) \cup ToSet(pipe), q \in ToSet(s) : Before(p, q)
  PROVE  InOrder'
<1>1. pipe \in Seq(Piece) /\ file \in Seq(Piece)
  BY DEF TypeOK
<1>2. Sorted(file) /\ Sorted(pipe) /\ Precede(file, pipe)
  BY <1>1, JoinSorted DEF InOrder, Sorted
<1>3. Sorted(pipe \o s)
  BY <1>1, <1>2, JoinSorted DEF Precede
<1>4. /\ pipe' \in Seq(Piece) /\ Sorted(pipe')
      /\ ToSet(pipe') \subseteq ToSet(pipe) \cup ToSet(s)
  BY <1>3, PutKeeps
<1>5. Precede(file, pipe')
  BY <1>2, <1>4 DEF Precede
<1> QED BY <1>1, <1>2, <1>4, <1>5, JoinSorted DEF InOrder, Sorted

\* An injection begins: the new record is the newest.
LEMMA RecordsLock ==
  ASSUME TypeOK, RecordsInv, NEW i \in Injector, InjectLock(i)
  PROVE  RecordsInv'
<1>1. PICK u \in BOOLEAN : record' = [record EXCEPT ![i] = [id |-> next, urgent |-> u]]
  BY DEF InjectLock
<1>2. /\ UNCHANGED <<pipe, file, lost>> /\ next' = next + 1 /\ mutex' = i
      /\ ipc' = [ipc EXCEPT ![i] = "locked"]
      /\ ipc[i] = "idle" /\ mutex = NoInjector /\ next \in 1 .. MaxRecord /\ next \in Nat
  BY BoundAssumption DEF InjectLock, RecordsInv, InjectionOK
<1>3. [id |-> next, urgent |-> u] \in Record
  BY <1>2 DEF Record
<1>4. /\ ipc \in [Injector -> {"idle", "locked", "prefix", "text"}]
      /\ record \in [Injector -> Record \cup {NoRecord}]
  BY DEF RecordsInv, InjectionOK
<1>5. InjectionOK'
  <2>1. next' \in 1 .. MaxRecord + 1
    BY <1>2, BoundAssumption
  <2> QED BY <1>1, <1>2, <1>3, <1>4, <2>1 DEF InjectionOK
<1>6. /\ \A j \in Injector : Active(j)' <=> j = i
      /\ ipc'[i] = "locked" /\ record'[i] = [id |-> next, urgent |-> u]
      /\ \A j \in Injector : ~Active(j)
  BY <1>1, <1>2, <1>4, InjectorAssumption DEF Active, RecordsInv, MutexInv
<1>7. MutexInv' /\ RecordInv'
  <2>1. MutexInv'
    BY <1>2, <1>6 DEF MutexInv
  <2>2. record'[i] \in Record' /\ record'[i].id = next' - 1
    BY <1>2, <1>3, <1>6 DEF Record
  <2> QED BY <1>6, <2>1, <2>2 DEF RecordInv
<1>8. NewInv'
  <2> SUFFICES ASSUME NEW p \in ToSet(file) \cup ToSet(pipe)
               PROVE  p.id < next' /\ p.id < record'[i].id
    BY <1>2, <1>6 DEF NewInv
  <2>1. p.id < next
    BY DEF RecordsInv, NewInv
  <2>2. p \in Piece
    BY ElementOfSeq DEF RecordsInv, StreamsOK, ToSet
  <2>3. p.id \in Nat
    BY <2>2, BoundAssumption DEF Piece
  <2> QED BY <1>2, <1>6, <2>1, <2>3
<1>9. VanishInv'
  <2> SUFFICES ASSUME NEW id \in 1 .. next, NEW part \in {"prefix", "text"}
               PROVE  \/ \E p \in Stored : p.id = id /\ p.part = part
                      \/ id = record'[i].id
    BY <1>2, <1>6 DEF VanishInv, Stored
  <2>1. CASE id = next
    BY <1>6, <2>1
  <2>2. CASE id # next
    <3>1. id \in 1 .. next - 1
      BY <1>2, <2>2
    <3> QED BY <1>6, <3>1 DEF RecordsInv, VanishInv
  <2> QED BY <2>1, <2>2
<1>10. StreamsOK' /\ InOrder'
  BY <1>2 DEF RecordsInv, StreamsOK, InOrder
<1> QED BY <1>5, <1>7, <1>8, <1>9, <1>10 DEF RecordsInv

\* One of its two pieces goes in.
LEMMA RecordsPiece ==
  ASSUME TypeOK, RecordsInv, NEW i \in Injector, NEW from, NEW part, InjectPiece(i, from, part),
         \/ from = "locked" /\ part = "prefix"
         \/ from = "prefix" /\ part = "text"
  PROVE  RecordsInv'
<1> DEFINE q == PieceOf(record[i], part)
<1>1. /\ ipc[i] = from /\ Put(<<q>>) /\ ipc' = [ipc EXCEPT ![i] = part]
      /\ UNCHANGED <<mutex, record, next, file>>
  BY DEF InjectPiece
<1>2. /\ Active(i) /\ record[i] \in Record /\ record[i].id = next - 1
      /\ \A j \in Injector : Active(j) <=> j = i
  BY <1>1, InjectorAssumption DEF Active, RecordsInv, RecordInv, MutexInv
<1>3. q \in Piece /\ q.id = next - 1 /\ q.part = part
  BY <1>2, PieceIsPiece
<1> HIDE DEF q
<1>4. <<q>> \in Seq(Piece) /\ ToSet(<<q>>) = {q} /\ Sorted(<<q>>)
  BY <1>3, OnePiece
<1>5. /\ ipc \in [Injector -> {"idle", "locked", "prefix", "text"}]
      /\ next \in Nat /\ pipe \in Seq(Piece) /\ file \in Seq(Piece)
  BY BoundAssumption DEF RecordsInv, InjectionOK, StreamsOK
<1>6. /\ pipe' \in Seq(Piece) /\ Len(pipe') <= Capacity /\ lost' \subseteq Piece
      /\ ToSet(pipe') \subseteq ToSet(pipe) \cup {q}
      /\ ToSet(pipe') \cup lost' = ToSet(pipe) \cup {q} \cup lost
  BY <1>1, <1>4, PutKeeps
<1>7. StreamsOK' /\ InjectionOK'
  BY <1>1, <1>5, <1>6 DEF RecordsInv, StreamsOK, InjectionOK
<1>8. /\ ipc'[i] = part /\ Active(i)'
      /\ \A j \in Injector : Active(j)' <=> j = i
  BY <1>1, <1>2, <1>5 DEF Active
<1>9. MutexInv' /\ RecordInv'
  BY <1>1, <1>2, <1>8 DEF RecordsInv, MutexInv, RecordInv
<1>10. \A p \in ToSet(file) \cup ToSet(pipe) :
         /\ p \in Piece /\ p.id \in Nat /\ p.id < next
         /\ p.id < next - 1 \/ (part = "text" /\ p.part = "prefix")
  <2> SUFFICES ASSUME NEW p \in ToSet(file) \cup ToSet(pipe)
               PROVE  /\ p \in Piece /\ p.id \in Nat /\ p.id < next
                      /\ p.id < next - 1 \/ (part = "text" /\ p.part = "prefix")
    OBVIOUS
  <2>1. p \in Piece
    BY <1>5, ElementOfSeq DEF ToSet
  <2>2. p.id \in Nat
    BY <2>1, BoundAssumption DEF Piece
  <2>3. /\ p.id < next
        /\ p.id < record[i].id \/ (ipc[i] = "prefix" /\ p.part = "prefix") \/ ipc[i] = "text"
    BY <1>2 DEF RecordsInv, NewInv
  <2> QED BY <1>1, <1>2, <2>1, <2>2, <2>3
<1>11. NewInv'
  <2> SUFFICES ASSUME NEW p \in ToSet(file) \cup ToSet(pipe) \cup {q}
               PROVE  /\ p.id < next
                      /\ \/ p.id < record[i].id \/ part = "text"
                         \/ part = "prefix" /\ p.part = "prefix"
    BY <1>1, <1>6, <1>8 DEF NewInv
  <2>1. CASE p = q
    BY <1>3, <1>5, <2>1
  <2>2. CASE p # q
    BY <1>2, <1>10, <2>2
  <2> QED BY <2>1, <2>2
<1>12. InOrder'
  <2>1. \A p \in ToSet(file) \cup ToSet(pipe), r \in {q} : Before(p, r)
    <3> SUFFICES ASSUME NEW p \in ToSet(file) \cup ToSet(pipe) PROVE Before(p, q)
      OBVIOUS
    <3>1. /\ p.id \in Nat /\ p.id < next
          /\ p.id < next - 1 \/ (part = "text" /\ p.part = "prefix")
      BY <1>10
    <3>2. p.id < next - 1 \/ p.id = next - 1
      BY <1>5, <3>1
    <3> QED BY <1>3, <3>1, <3>2 DEF Before
  <2> QED BY <1>1, <1>4, <2>1, PutInOrder DEF RecordsInv
<1>13. VanishInv'
  <2>1. Stored' = Stored \cup {q}
    BY <1>1, <1>6 DEF Stored
  <2> SUFFICES ASSUME NEW id \in 1 .. next - 1, NEW k \in {"prefix", "text"}
               PROVE  \/ \E p \in Stored \cup {q} : p.id = id /\ p.part = k
                      \/ record[i].id = id /\ part = "prefix" /\ k = "text"
    BY <1>1, <1>8, <2>1 DEF VanishInv
  <2>2. CASE \E p \in Stored : p.id = id /\ p.part = k
    BY <2>2
  <2>3. CASE record[i].id = id /\ (ipc[i] = "locked" \/ (ipc[i] = "prefix" /\ k = "text"))
    BY <1>1, <1>2, <1>3, <2>3
  <2> QED BY <1>2, <2>2, <2>3 DEF RecordsInv, VanishInv
<1> QED BY <1>7, <1>9, <1>11, <1>12, <1>13 DEF RecordsInv

\* The injection ends.
LEMMA RecordsFlag ==
  ASSUME TypeOK, RecordsInv, NEW i \in Injector, InjectFlag(i)
  PROVE  RecordsInv'
<1>1. /\ ipc[i] = "text" /\ ipc' = [ipc EXCEPT ![i] = "idle"] /\ mutex' = NoInjector
      /\ UNCHANGED <<pipe, record, next, file, lost>>
  BY DEF InjectFlag
<1>2. ipc \in [Injector -> {"idle", "locked", "prefix", "text"}]
  BY DEF RecordsInv, InjectionOK
<1>3. /\ \A j \in Injector : ~Active(j)'
      /\ \A j \in Injector : Active(j) <=> j = i
  BY <1>1, <1>2, InjectorAssumption DEF Active, RecordsInv, MutexInv
<1>4. StreamsOK' /\ InjectionOK'
  BY <1>1, <1>2 DEF RecordsInv, StreamsOK, InjectionOK
<1>5. MutexInv' /\ RecordInv'
  BY <1>1, <1>3, InjectorAssumption DEF MutexInv, RecordInv
<1>6. NewInv' /\ InOrder'
  BY <1>1, <1>3 DEF RecordsInv, NewInv, InOrder
<1>7. VanishInv'
  BY <1>1, <1>3 DEF RecordsInv, VanishInv, Stored
<1> QED BY <1>4, <1>5, <1>6, <1>7 DEF RecordsInv

\* The record of the service thread itself, when the file cannot be opened.
LEMMA RecordsOpenFails ==
  ASSUME TypeOK, RecordsInv, NEW from, NEW to, OpenFails(from, to)
  PROVE  RecordsInv'
<1>1. CASE DateMode
  BY <1>1, RecordsUnchanged DEF OpenFails, injection
<1>2. CASE ~DateMode
  <2> DEFINE r == [id |-> next, urgent |-> TRUE]
             p == PieceOf(r, "prefix")
             t == PieceOf(r, "text")
  <2>1. /\ mutex = NoInjector /\ next <= MaxRecord /\ Put(<<p, t>>) /\ next' = next + 1
        /\ UNCHANGED <<mutex, ipc, record, file>>
    BY <1>2 DEF OpenFails
  <2>2. next \in 1 .. MaxRecord /\ next \in Nat
    BY <2>1, BoundAssumption DEF RecordsInv, InjectionOK
  <2>3. r \in Record /\ r.id = next
    BY <2>2 DEF Record
  <2>4. /\ p \in Piece /\ p.id = next /\ p.part = "prefix"
        /\ t \in Piece /\ t.id = next /\ t.part = "text"
    BY <2>3, PieceIsPiece
  <2> HIDE DEF p, t, r
  <2>5. <<p, t>> \in Seq(Piece) /\ ToSet(<<p, t>>) = {p, t} /\ Sorted(<<p, t>>)
    <3>1. <<p, t>> \in Seq(Piece) /\ ToSet(<<p, t>>) = {p, t}
      BY <2>4 DEF ToSet
    <3>2. Before(p, t)
      BY <2>4 DEF Before
    <3> QED BY <3>1, <3>2 DEF Sorted
  <2>6. /\ pipe' \in Seq(Piece) /\ Len(pipe') <= Capacity /\ lost' \subseteq Piece
        /\ ToSet(pipe') \subseteq ToSet(pipe) \cup {p, t}
        /\ ToSet(pipe') \cup lost' = ToSet(pipe) \cup {p, t} \cup lost
    BY <2>1, <2>5, PutKeeps
  <2>7. \A j \in Injector : ~Active(j) /\ ~Active(j)'
    BY <2>1, InjectorAssumption DEF Active, RecordsInv, MutexInv
  <2>8. StreamsOK' /\ InjectionOK'
    <3>1. next' \in 1 .. MaxRecord + 1
      BY <2>1, <2>2, BoundAssumption
    <3> QED BY <2>1, <2>6, <3>1 DEF RecordsInv, StreamsOK, InjectionOK
  <2>9. MutexInv' /\ RecordInv'
    BY <2>1, <2>7, InjectorAssumption DEF MutexInv, RecordInv
  <2>10. \A s \in ToSet(file) \cup ToSet(pipe) : s.id < next /\ s.id \in Nat
    <3> SUFFICES ASSUME NEW s \in ToSet(file) \cup ToSet(pipe) PROVE s.id < next /\ s.id \in Nat
      OBVIOUS
    <3>1. s \in Piece
      BY ElementOfSeq DEF RecordsInv, StreamsOK, ToSet
    <3> QED BY <3>1, BoundAssumption DEF Piece, RecordsInv, NewInv
  <2>11. NewInv'
    <3> SUFFICES ASSUME NEW s \in ToSet(file) \cup ToSet(pipe) \cup {p, t} PROVE s.id < next'
      BY <2>1, <2>6, <2>7 DEF NewInv
    <3> QED BY <2>1, <2>2, <2>4, <2>10
  <2>12. InOrder'
    <3>1. \A s \in ToSet(file) \cup ToSet(pipe), q \in {p, t} : Before(s, q)
      BY <2>4, <2>10 DEF Before
    <3> QED BY <2>1, <2>5, <3>1, PutInOrder DEF RecordsInv
  <2>13. VanishInv'
    <3>1. Stored' = Stored \cup {p, t}
      BY <2>1, <2>6 DEF Stored
    <3> SUFFICES ASSUME NEW id \in 1 .. next, NEW part \in {"prefix", "text"}
                 PROVE  \E s \in Stored \cup {p, t} : s.id = id /\ s.part = part
      BY <2>1, <2>2, <2>7, <3>1 DEF VanishInv
    <3>2. CASE id = next
      BY <2>4, <3>2
    <3>3. CASE id # next
      <4>1. id \in 1 .. next - 1
        BY <2>2, <3>3
      <4> QED BY <2>7, <4>1 DEF RecordsInv, VanishInv
    <3> QED BY <3>2, <3>3
  <2> QED BY <2>8, <2>9, <2>11, <2>12, <2>13 DEF RecordsInv
<1> QED BY <1>1, <1>2
-----------------------------------------------------------------------------
\* The flags and places of a step of each kind.  ExitInv goes with them: the
\* service thread is past its loop only after it saw the exit flag.
LEMMA FlagsNext == IInv /\ Next => FlagsOK'
<1> SUFFICES ASSUME FlagsOK, Next PROVE FlagsOK'
  BY TypeParts DEF IInv
<1> USE Zenon DEF FlagsOK, service, injection, outside, quit
<1>1. ASSUME NEW i \in Injector, Inject(i) PROVE FlagsOK'
  BY <1>1 DEF Inject, InjectLock, InjectPiece, InjectFlag
<1>2. ASSUME ServiceTop \/ ServiceIdle \/ ServiceSleep PROVE FlagsOK'
  BY <1>2 DEF ServiceTop, ServiceIdle, ServiceSleep
<1>3. ASSUME ServicePeriod \/ ServicePause \/ ServiceClear PROVE FlagsOK'
  BY <1>3 DEF ServicePeriod, ServicePause, ServiceClear
<1>4. ASSUME NEW from, NEW to, Opened(from, to) \/ OpenFails(from, to) PROVE FlagsOK'
  BY <1>4 DEF Opened, OpenFails
<1>5. ASSUME NEW from, NEW to, Drain(from, to) PROVE FlagsOK'
  BY <1>5 DEF Drain
<1>6. ASSUME PauseFile PROVE FlagsOK'
  BY <1>6 DEF PauseFile
<1>7. ASSUME Quit PROVE FlagsOK'
  BY <1>7 DEF Quit, QuitSync, QuitFlag, QuitJoin
<1> QED BY <1>1, <1>2, <1>3, <1>4, <1>5, <1>6, <1>7 DEF Next, Service

\* A count that may go up as long as its bound is not reached.
LEMMA CountedUp ==
  ASSUME NEW m \in Nat, NEW x \in 0 .. m, NEW y, y = x \/ (x < m /\ y = x + 1)
  PROVE  y \in 0 .. m
OBVIOUS

LEMMA PlacesNext == IInv /\ Next => PlacesOK' /\ ExitInv'
<1> SUFFICES ASSUME PlacesOK, ExitInv, Next PROVE PlacesOK' /\ ExitInv'
  BY TypeParts DEF IInv
<1> USE DEF PlacesOK, ExitInv, service, injection, outside, quit, ServiceGoto
<1>1. ASSUME NEW i \in Injector, Inject(i) PROVE PlacesOK' /\ ExitInv'
  BY <1>1 DEF Inject, InjectLock, InjectPiece, InjectFlag
<1>2. CASE ServiceTop
  BY <1>2 DEF ServiceTop, ExitDrain
<1>3. CASE ServiceIdle \/ ServiceSleep \/ ServicePeriod \/ ServicePause \/ ServiceClear
  BY <1>3 DEF ServiceIdle, ServiceSleep, ServicePeriod, ServicePause, ServiceClear
<1>4. CASE Opened("open", "drain") \/ Opened("last open", "last drain")
  BY <1>4 DEF Opened
<1>5. CASE OpenFails("open", "sleep") \/ OpenFails("last open", "done")
  BY <1>5 DEF OpenFails
<1>6. CASE Drain("drain", "sleep") \/ Drain("last drain", "done")
  BY <1>6 DEF Drain
<1>7. CASE PauseFile
  <2>1. UNCHANGED <<spc, qpc, exit_flag>> /\ owed' = {}
    BY <1>7 DEF PauseFile
  <2>2. pauses' = pauses \/ (pauses < MaxPause /\ pauses' = pauses + 1)
    <3>1. \/ pause_exists /\ pauses' = pauses
          \/ ~pause_exists /\ pauses < MaxPause /\ pauses' = pauses + 1
      BY <1>7 DEF PauseFile
    <3> QED BY <3>1
  <2>3. pauses' \in 0 .. MaxPause
    <3>1. pauses \in 0 .. MaxPause /\ MaxPause \in Nat
      BY BoundAssumption
    <3> HIDE DEF PlacesOK, ExitInv
    <3> QED BY <2>2, <3>1, CountedUp
  <2> QED BY <2>1, <2>3
<1>8. CASE Quit
  BY <1>8 DEF Quit, QuitSync, QuitFlag, QuitJoin, Finished
<1> QED BY <1>1, <1>2, <1>3, <1>4, <1>5, <1>6, <1>7, <1>8 DEF Next, Service

LEMMA RecordsNext == IInv /\ Next => RecordsInv'
<1> SUFFICES ASSUME TypeOK, RecordsInv, Next PROVE RecordsInv'
  BY DEF IInv
<1>1. ASSUME NEW i \in Injector, Inject(i) PROVE RecordsInv'
  BY <1>1, RecordsLock, RecordsPiece, RecordsFlag DEF Inject
<1>2. CASE UNCHANGED <<pipe, file, lost, injection>>
  BY <1>2, RecordsUnchanged
<1>3. ASSUME NEW from, NEW to, Drain(from, to) \/ OpenFails(from, to) PROVE RecordsInv'
  BY <1>3, RecordsDrain, RecordsOpenFails
<1>4. CASE ServiceTop \/ ServiceIdle \/ ServiceSleep \/ ServicePeriod \/ ServicePause
           \/ ServiceClear \/ PauseFile \/ Quit
  BY <1>2, <1>4 DEF ServiceTop, ServiceIdle, ServiceSleep, ServicePeriod, ServicePause,
       ServiceClear, PauseFile, Quit, QuitSync, QuitFlag, QuitJoin
<1>5. ASSUME NEW from, NEW to, Opened(from, to) PROVE RecordsInv'
  BY <1>2, <1>5 DEF Opened
<1> QED BY <1>1, <1>3, <1>4, <1>5 DEF Next, Service

\* Every step keeps the invariant.
LEMMA NextIInv == IInv /\ [Next]_vars => IInv'
<1> SUFFICES ASSUME IInv, [Next]_vars PROVE IInv'
  OBVIOUS
<1>1. CASE Next
  <2>1. TypeOK'
    <3>1. FlagsOK' /\ PlacesOK' /\ StreamsOK' /\ InjectionOK'
      BY <1>1, FlagsNext, PlacesNext, RecordsNext DEF RecordsInv
    <3>2. (StreamsOK /\ FlagsOK /\ PlacesOK /\ InjectionOK)' => TypeOK'
      BY TypeParts, PTL
    <3> QED BY <3>1, <3>2
  <2> QED BY <1>1, <2>1, PlacesNext, RecordsNext DEF IInv
<1>2. CASE UNCHANGED vars
  <2>1. RecordsInv'
    BY <1>2, RecordsUnchanged DEF vars, IInv
  <2>2. StreamsOK' /\ InjectionOK'
    BY <2>1 DEF RecordsInv
  <2>3. FlagsOK'
    BY <1>2, TypeParts, Zenon DEF vars, service, outside, quit, IInv, FlagsOK
  <2>4. PlacesOK'
    BY <1>2, TypeParts, Zenon DEF vars, service, outside, quit, IInv, PlacesOK
  <2>5. ExitInv'
    BY <1>2, Zenon DEF vars, service, quit, IInv, ExitInv
  <2>6. TypeOK'
    BY <2>2, <2>3, <2>4, TypeParts, PTL
  <2> QED BY <2>1, <2>5, <2>6 DEF IInv
<1> QED BY <1>1, <1>2

\* The invariant holds in every reachable state.
THEOREM Inductive == Spec => []IInv
BY InitIInv, NextIInv, PTL DEF Spec

\* The types of the service's state (log_file.c:60-83 and 194-275).
THEOREM TypeCorrect == Spec => []TypeOK
<1>1. IInv => TypeOK
  BY DEF IInv
<1> QED BY <1>1, Inductive, PTL

\* The files and the pipe are one stream in the order of the records, every
\* prefix before its own text (log_file.c:194).
THEOREM OrderCorrect == Spec => []InOrder
<1>1. IInv => InOrder
  BY DEF IInv, RecordsInv
<1> QED BY <1>1, Inductive, PTL

\* No piece disappears but by an overflow or a failed write.
THEOREM NoneVanishes == Spec => []NothingVanishes
<1>1. IInv => NothingVanishes
  <2> SUFFICES ASSUME IInv, NEW id \in 1 .. next - 1,
                      \A i \in Injector : ipc[i] # "idle" => record[i].id # id,
                      NEW part \in {"prefix", "text"}
               PROVE  \E p \in ToSet(file) \cup ToSet(pipe) \cup lost : p.id = id /\ p.part = part
    BY DEF NothingVanishes
  <2> QED BY DEF IInv, RecordsInv, VanishInv, Active, Stored
<1> QED BY <1>1, Inductive, PTL
-----------------------------------------------------------------------------
\* While a thread is in log_file_inject it will ask for the write itself when it
\* leaves; otherwise the request is there or its drain under way.
AskInv ==
  /\ Half(pipe) => need_write \/ Draining \/ mutex # NoInjector
  /\ \A p \in ToSet(pipe) :
       p.urgent => \/ need_write \/ Draining
                   \/ \E i \in Injector : Active(i) /\ record[i].urgent

\* A request may be forgotten only in two ways: a pipe so small that it is half
\* full when empty, or a file that cannot be opened without a log of it.
AskAssumption == Capacity >= 2 /\ (DiskFails => ~DateMode)

LEMMA AskNext == AskAssumption /\ IInv /\ AskInv /\ [Next]_vars => AskInv'
<1> SUFFICES ASSUME AskAssumption, IInv, AskInv, [Next]_vars PROVE AskInv'
  OBVIOUS
<1>0. /\ pipe \in Seq(Piece) /\ Capacity \in Nat /\ Capacity >= 2
      /\ \A i, j \in Injector : Active(i) /\ Active(j) => i = j
      /\ \A i \in Injector : Active(i) <=> mutex = i
  BY SizeAssumption, Zenon DEF AskAssumption, IInv, RecordsInv, StreamsOK, MutexInv
<1>1. ASSUME NEW i \in Injector, InjectLock(i) PROVE AskInv'
  <2>1. /\ UNCHANGED <<pipe, need_write, spc, exit_flag>> /\ mutex' = i /\ mutex = NoInjector
    BY <1>1 DEF InjectLock, service, quit
  <2>2. \A j \in Injector : ~Active(j)
    BY <1>0, <2>1, InjectorAssumption
  <2>3. \A p \in ToSet(pipe) : p.urgent => need_write \/ Draining
    BY <2>2 DEF AskInv
  <2>4. Draining' = Draining
    BY <2>1 DEF Draining
  <2> QED BY <2>1, <2>3, <2>4, InjectorAssumption DEF AskInv
<1>2. ASSUME NEW i \in Injector, NEW from, NEW part, InjectPiece(i, from, part),
             from \in {"locked", "prefix"}, part \in {"prefix", "text"}
      PROVE  AskInv'
  <2> DEFINE q == PieceOf(record[i], part)
  <2>1. /\ ipc[i] = from /\ Put(<<q>>) /\ ipc' = [ipc EXCEPT ![i] = part]
        /\ UNCHANGED <<mutex, record, need_write, spc, exit_flag>>
    BY <1>2 DEF InjectPiece, service, quit
  <2>2. Active(i) /\ mutex = i /\ record[i] \in Record
    BY <1>0, <1>2, <2>1 DEF Active, IInv, RecordsInv, RecordInv
  <2>3. Active(i)' /\ \A j \in Injector : Active(j) => Active(j)'
    BY <1>2, <2>1 DEF Active, IInv, RecordsInv, InjectionOK
  <2>4. q \in Piece /\ (q.urgent <=> record[i].urgent)
    BY <1>2, <2>2, PieceIsPiece
  <2> HIDE DEF q
  <2>5. ToSet(pipe') \subseteq ToSet(pipe) \cup {q}
    BY <2>1, <2>4, OnePiece, PutKeeps DEF IInv
  <2>6. Draining' = Draining
    BY <2>1 DEF Draining
  <2> QED BY <2>1, <2>2, <2>3, <2>4, <2>5, <2>6, InjectorAssumption DEF AskInv
<1>3. ASSUME NEW i \in Injector, InjectFlag(i) PROVE AskInv'
  <2>1. /\ ipc[i] = "text" /\ UNCHANGED <<pipe, spc, exit_flag>>
        /\ need_write' = (need_write \/ record[i].urgent \/ Half(pipe))
    BY <1>3 DEF InjectFlag, service, quit
  <2>2. \A j \in Injector : Active(j) => j = i
    BY <1>0, <2>1 DEF Active
  <2>3. Draining' = Draining
    BY <2>1 DEF Draining
  <2>4. Half(pipe') => need_write'
    BY <2>1
  <2>5. \A p \in ToSet(pipe') : p.urgent => need_write' \/ Draining'
    BY <2>1, <2>2, <2>3 DEF AskInv
  <2> QED BY <2>4, <2>5 DEF AskInv
\* The service thread clears the request only to drain, and leaves the drain
\* with an empty pipe.
<1>4. CASE /\ UNCHANGED <<pipe, mutex, ipc, record>>
           /\ need_write => need_write' \/ Draining'
           /\ Draining => Draining' \/ need_write'
  BY <1>4 DEF AskInv, Active
<1>5. ASSUME NEW from, NEW to, Drain(from, to), from \in {"drain", "last drain"} PROVE AskInv'
  <2>1. /\ UNCHANGED <<mutex, ipc, record, need_write, exit_flag>> /\ spc = from
        /\ ToSet(pipe') \subseteq ToSet(pipe)
        /\ spc' = from \/ pipe' = <<>>
    BY <1>5, DrainKeeps DEF Drain, injection, quit, IInv
  <2>2. CASE spc' = from
    <3>1. Draining'
      BY <1>5, <2>1, <2>2 DEF Draining, IInv, ExitInv
    <3> QED BY <3>1 DEF AskInv
  <2>3. CASE pipe' = <<>>
    <3>1. Len(pipe') = 0 /\ ToSet(pipe') = {}
      BY <2>3 DEF ToSet
    <3>2. Capacity \div 2 >= 1
      BY <1>0
    <3>3. ~Half(pipe')
      BY <1>0, <3>1, <3>2 DEF Half
    <3> QED BY <3>1, <3>3 DEF AskInv
  <2> QED BY <2>1, <2>2, <2>3
<1>6. ASSUME NEW from, NEW to, OpenFails(from, to) PROVE AskInv'
  <2>1. need_write'
    BY <1>6 DEF OpenFails, AskAssumption
  <2> QED BY <2>1 DEF AskInv
<1>7. CASE Next
  <2>1. ASSUME NEW i \in Injector, Inject(i) PROVE AskInv'
    BY <1>1, <1>2, <1>3, <2>1 DEF Inject
  <2>2. CASE ServiceTop \/ ServiceIdle \/ ServiceSleep \/ ServicePeriod \/ ServicePause
    <3>1. /\ UNCHANGED <<pipe, mutex, ipc, record, exit_flag>>
          /\ need_write => need_write'
          /\ spc \notin {"open", "drain"}
      BY <2>2 DEF ServiceTop, ServiceIdle, ServiceSleep, ServicePeriod, ServicePause,
                  injection, quit
    <3>2. Draining => Draining'
      BY <3>1 DEF Draining
    <3> QED BY <1>4, <3>1, <3>2
  <2>3. CASE ServiceClear
    <3>1. UNCHANGED <<pipe, mutex, ipc, record>> /\ Draining'
      BY <2>3 DEF ServiceClear, injection, ServiceGoto, Draining
    <3> QED BY <1>4, <3>1
  <2>4. CASE Opened("open", "drain") \/ Opened("last open", "last drain")
    <3>1. /\ UNCHANGED <<pipe, mutex, ipc, record, exit_flag, need_write>>
          /\ spc \in {"open", "drain"} => spc' \in {"open", "drain"}
      BY <2>4 DEF Opened, injection, quit, ServiceGoto
    <3>2. Draining => Draining'
      BY <3>1 DEF Draining
    <3> QED BY <1>4, <3>1, <3>2
  <2>5. CASE PauseFile \/ Quit
    <3>1. /\ UNCHANGED <<pipe, mutex, ipc, record, spc>>
          /\ need_write => need_write'
          /\ exit_flag => exit_flag'
      BY <2>5 DEF PauseFile, Quit, QuitSync, QuitFlag, QuitJoin, injection, service
    <3>2. Draining => Draining'
      BY <3>1 DEF Draining
    <3> QED BY <1>4, <3>1, <3>2
  <2> QED BY <1>5, <1>6, <1>7, <2>1, <2>2, <2>3, <2>4, <2>5 DEF Next, Service
<1>8. CASE UNCHANGED vars
  <2>1. UNCHANGED <<pipe, mutex, ipc, record, need_write, spc, exit_flag>>
    BY <1>8 DEF vars, injection, service, quit
  <2>2. Draining' = Draining
    BY <2>1 DEF Draining
  <2> QED BY <1>4, <2>1, <2>2
<1> QED BY <1>7, <1>8

\* Nobody injecting, an urgent record or a pipe half full has its write asked
\* for or under way (log_file.c:203-208).
THEOREM AskCorrect ==
  ASSUME AskAssumption
  PROVE  Spec => []WriteIsScheduled
<1>1. Init => AskInv
  <2> SUFFICES ASSUME Init PROVE AskInv
    OBVIOUS
  <2>1. Len(pipe) = 0 /\ ToSet(pipe) = {}
    BY DEF Init, ToSet
  <2>2. Capacity \in Nat /\ Capacity \div 2 >= 1
    BY SizeAssumption DEF AskAssumption
  <2>3. ~Half(pipe)
    BY <2>1, <2>2 DEF Half
  <2> QED BY <2>1, <2>3 DEF AskInv
<1>2. IInv /\ AskInv => WriteIsScheduled
  <2> SUFFICES ASSUME IInv, AskInv, mutex = NoInjector,
                      Half(pipe) \/ \E p \in ToSet(pipe) : p.urgent
               PROVE  need_write \/ Draining
    BY DEF WriteIsScheduled
  <2>1. \A i \in Injector : ~Active(i)
    BY InjectorAssumption DEF IInv, RecordsInv, MutexInv
  <2> QED BY <2>1 DEF AskInv
<1>3. IInv /\ AskInv /\ [Next]_vars => AskInv'
  BY AskNext
<1> QED BY <1>1, <1>2, <1>3, Inductive, PTL DEF Spec
-----------------------------------------------------------------------------
\* What has reached the files or was given up.
Settled == ToSet(file) \cup lost

\* No step takes back what is in the files or was given up, and none makes a
\* piece disappear.
LEMMA NothingTakenBack ==
  ASSUME IInv, [Next]_vars
  PROVE  Stored \subseteq Stored' /\ Settled \subseteq Settled'
<1> DEFINE Goal == Stored \subseteq Stored' /\ Settled \subseteq Settled'
<1>0. TypeOK /\ InjectionOK /\ RecordInv /\ MutexInv
  BY DEF IInv, RecordsInv
<1>1. ASSUME UNCHANGED <<pipe, file, lost>> PROVE Goal
  BY <1>1 DEF Stored, Settled
<1>2. ASSUME NEW s \in Seq(Piece), Put(s), UNCHANGED file PROVE Goal
  <2>1. ToSet(pipe') \cup lost' = ToSet(pipe) \cup ToSet(s) \cup lost
    BY <1>0, <1>2, PutKeeps
  <2>2. lost \subseteq lost'
    BY <1>2 DEF Put
  <2> QED BY <1>2, <2>1, <2>2 DEF Stored, Settled
<1>3. ASSUME NEW from, NEW to, Drain(from, to) PROVE Goal
  <2> DEFINE f == First(pipe, Chunk)
  <2>1. Stored = Stored'
    BY <1>0, <1>3, DrainKeeps DEF Stored
  <2>2. f \in Seq(Piece) /\ file \in Seq(Piece)
    BY <1>0, FirstElements, SizeAssumption DEF TypeOK
  <2>3. \/ file' = file \o f /\ lost' = lost
        \/ file' = file /\ lost' = lost \cup ToSet(f)
    BY <1>3 DEF Drain
  <2> HIDE DEF f
  <2>4. ToSet(file \o f) = ToSet(file) \cup ToSet(f)
    BY <2>2, JoinSorted
  <2>5. Settled \subseteq Settled'
    BY <2>3, <2>4 DEF Settled
  <2> QED BY <2>1, <2>5
<1> HIDE DEF Goal
<1>4. ASSUME NEW i \in Injector, Inject(i) PROVE Goal
  <2>1. CASE InjectLock(i) \/ InjectFlag(i)
    BY <1>1, <2>1 DEF InjectLock, InjectFlag
  <2>2. ASSUME NEW from \in {"locked", "prefix"}, NEW part \in {"prefix", "text"},
               InjectPiece(i, from, part)
        PROVE  Goal
    <3>1. ipc[i] = from /\ Put(<<PieceOf(record[i], part)>>) /\ UNCHANGED file
      BY <2>2 DEF InjectPiece
    <3>2. record[i] \in Record
      BY <1>0, <3>1 DEF RecordInv, Active
    <3>3. <<PieceOf(record[i], part)>> \in Seq(Piece)
      BY <3>2, PieceIsPiece, OnePiece
    <3> QED BY <1>2, <3>1, <3>3
  <2> QED BY <1>4, <2>1, <2>2 DEF Inject
<1>5. ASSUME NEW from, NEW to, OpenFails(from, to) PROVE Goal
  <2> DEFINE r == [id |-> next, urgent |-> TRUE]
             p == PieceOf(r, "prefix")
             t == PieceOf(r, "text")
  <2>1. CASE DateMode
    BY <1>1, <1>5, <2>1 DEF OpenFails
  <2>2. CASE ~DateMode
    <3>1. next <= MaxRecord /\ Put(<<p, t>>) /\ UNCHANGED file
      BY <1>5, <2>2 DEF OpenFails
    <3>2. r \in Record
      BY <1>0, <3>1, BoundAssumption DEF InjectionOK, Record
    <3>3. p \in Piece /\ t \in Piece
      BY <3>2, PieceIsPiece
    <3> HIDE DEF p, t
    <3>4. <<p, t>> \in Seq(Piece)
      BY <3>3
    <3> QED BY <1>2, <3>1, <3>4
  <2> QED BY <2>1, <2>2
<1>6. ASSUME \/ ServiceTop \/ ServicePeriod \/ ServiceIdle \/ ServicePause
             \/ ServiceClear \/ ServiceSleep
      PROVE  Goal
  BY <1>1, <1>6 DEF ServiceTop, ServicePeriod, ServiceIdle, ServicePause, ServiceClear,
                    ServiceSleep
<1>7. ASSUME NEW from, NEW to, Opened(from, to) PROVE Goal
  BY <1>1, <1>7 DEF Opened
<1>8. ASSUME PauseFile \/ Quit PROVE Goal
  BY <1>1, <1>8 DEF PauseFile, Quit, QuitSync, QuitFlag, QuitJoin
<1>9. ASSUME UNCHANGED vars PROVE Goal
  BY <1>1, <1>9 DEF vars
<1>10. Goal
  BY <1>3, <1>4, <1>5, <1>6, <1>7, <1>8, <1>9 DEF Next, Service
<1> QED BY <1>10 DEF Goal

\* What log_safely_quit owes is somewhere, and once the service thread has
\* ended it is in the files, unless the thread ended without its last drain.
\* The thread ends only after log_safely_quit has said what it owes.
QuitInv ==
  /\ owed \subseteq Stored
  /\ qpc \in {"none", "synced"} => ~exit_flag
  /\ qpc = "joined" => spc = "done"
  /\ spc = "done" /\ ~pause_flag /\ ~open_failed => owed \subseteq Settled

LEMMA QuitNext == IInv /\ QuitInv /\ [Next]_vars => QuitInv'
<1> SUFFICES ASSUME IInv, QuitInv, [Next]_vars PROVE QuitInv'
  OBVIOUS
<1>0. /\ Stored \subseteq Stored' /\ Settled \subseteq Settled'
      /\ spc = "done" => exit_flag
  BY NothingTakenBack DEF IInv, ExitInv
\* A step of a thread that logs, or of nobody: the service and the quit stay
\* where they are.
<1>1. ASSUME UNCHANGED <<service, quit>> PROVE QuitInv'
  BY <1>0, <1>1 DEF QuitInv, service, quit
\* A step of the service that does not end it: it was not at its end, either.
<1>2. ASSUME UNCHANGED quit, spc # "done", spc' # "done" PROVE QuitInv'
  BY <1>0, <1>2 DEF QuitInv, quit
<1>3. ASSUME NEW i \in Injector, Inject(i) PROVE QuitInv'
  BY <1>1, <1>3 DEF Inject, InjectLock, InjectPiece, InjectFlag
<1>4. CASE ServiceTop
  <2>1. /\ UNCHANGED quit /\ UNCHANGED pause_flag /\ spc = "top"
        /\ spc' = "done" => pause_flag
    BY <1>4 DEF ServiceTop, ServiceGoto, ExitDrain
  <2> QED BY <1>0, <2>1 DEF QuitInv, quit
<1>5. CASE ServicePeriod \/ ServiceIdle \/ ServicePause \/ ServiceClear \/ ServiceSleep
  <2>1. UNCHANGED quit /\ spc # "done" /\ spc' # "done"
    BY <1>5 DEF ServicePeriod, ServiceIdle, ServicePause, ServiceClear, ServiceSleep, ServiceGoto
  <2> QED BY <1>2, <2>1
<1>6. CASE Opened("open", "drain") \/ Opened("last open", "last drain")
  <2>1. UNCHANGED quit /\ spc # "done" /\ spc' # "done"
    BY <1>6 DEF Opened, ServiceGoto
  <2> QED BY <1>2, <2>1
\* The file cannot be opened: open_failed says so.
<1>7. CASE OpenFails("open", "sleep") \/ OpenFails("last open", "done")
  <2>1. UNCHANGED quit /\ open_failed' = TRUE /\ spc # "done"
    BY <1>7 DEF OpenFails
  <2> QED BY <1>0, <2>1 DEF QuitInv, quit
\* The last drain leaves the pipe empty, so all there is is settled.
<1>8. ASSUME NEW from, NEW to, Drain(from, to), from # "done" PROVE QuitInv'
  <2>1. UNCHANGED quit /\ spc = from /\ (spc' = from \/ pipe' = <<>>)
    BY <1>8, DrainKeeps DEF Drain, IInv
  <2>2. CASE spc' = from
    BY <1>2, <1>8, <2>1, <2>2
  <2>3. CASE pipe' = <<>>
    <3>1. Stored' = Settled'
      BY <2>3 DEF Stored, Settled, ToSet
    <3> QED BY <1>0, <1>8, <2>1, <3>1 DEF QuitInv, quit
  <2> QED BY <2>1, <2>2, <2>3
\* The pause file appears or goes: nothing is owed any more.
<1>9. CASE PauseFile
  <2>1. UNCHANGED <<service, exit_flag, qpc>> /\ owed' = {}
    BY <1>9 DEF PauseFile
  <2> QED BY <2>1 DEF QuitInv, service
\* The quit says what it owes before it sets the exit flag.
<1>10. CASE QuitSync
  <2>1. /\ qpc = "none" /\ qpc' = "synced" /\ owed' \subseteq Finished
        /\ UNCHANGED <<spc, exit_flag>>
    BY <1>10 DEF QuitSync, service
  <2>2. Finished \subseteq Stored
    BY DEF Finished, Stored
  <2> QED BY <1>0, <2>1, <2>2 DEF QuitInv
<1>11. CASE QuitFlag
  BY <1>0, <1>11 DEF QuitInv, QuitFlag, service
<1>12. CASE QuitJoin
  BY <1>0, <1>12 DEF QuitInv, QuitJoin, service
<1>13. CASE UNCHANGED vars
  BY <1>1, <1>13 DEF vars
<1> QED BY <1>3, <1>4, <1>5, <1>6, <1>7, <1>8, <1>9, <1>10, <1>11, <1>12, <1>13
        DEF Next, Service, Quit

\* After log_safely_quit every record whose call had returned before is in the
\* files, unless an overflow or the disk took it, or writing was paused and the
\* service thread has not noticed the end of the pause (logcat.c:593).
THEOREM QuitCorrect == Spec => []QuitStoresLogsNoticed
<1>1. Init => QuitInv
  BY DEF Init, QuitInv, Stored
<1>2. QuitInv => QuitStoresLogsNoticed
  BY DEF QuitInv, QuitStoresLogsNoticed, QuitStoresLogs, Settled
<1> QED BY <1>1, <1>2, QuitNext, Inductive, PTL DEF Spec
=============================================================================
