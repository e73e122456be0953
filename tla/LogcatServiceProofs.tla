------------------------- MODULE LogcatServiceProofs -------------------------
(***************************************************************************)
(* Theorems about the logcat service, for any number of clients, slots and *)
(* logging threads and any pipes: the types; and, as long as the service   *)
(* thread does not end (MayEnd = FALSE), that a slot belongs to one client *)
(* and none leaks, that nobody touches a pipe that is freed, and that a    *)
(* client is sent the records in order and without a gap.  With a service  *)
(* thread that ends the second is not true, for it frees the pipes of      *)
(* connected clients (log_service.c:80).                                   *)
(*                                                                         *)
(* The last part rests on Reached: how far the records have come into the  *)
(* main pipe and into the pipe of each slot while a thread, with the       *)
(* mutex, goes from one to the next.                                       *)
(***************************************************************************)
EXTENDS LogcatService, SequenceTheorems, TLAPS

Places == {"off", "new", "serving", "leaving", "unlinked"}

\* The invariant of the table says what SlotsMatchClients says, and that a pipe
\* is allocated exactly from the connection on until the client's own thread
\* has freed it.
TableOK == /\ slot \in [Slot -> Client \cup {NoOne}]
           /\ cpc \in [Client -> Places]
           /\ \A c \in Client : alive[c] <=> cpc[c] # "off"
           /\ DOMAIN alive = Client
           /\ svc # "ended"
IInv == TableOK /\ SlotsMatchClients

\* The table when no slot and no place changes.
LEMMA SameTable ==
  ASSUME IInv, UNCHANGED <<slot, cpc, alive>>, svc' # "ended"
  PROVE  IInv'
BY DEF IInv, TableOK, SlotsMatchClients, Linked

\* When only one client moves, and no slot changes.
LEMMA ClientMoves ==
  ASSUME IInv, NEW c \in Client, NEW l \in Places, UNCHANGED <<slot, svc>>,
         cpc' = [cpc EXCEPT ![c] = l],
         cpc[c] \in {"serving", "leaving"} <=> l \in {"serving", "leaving"},
         \/ alive' = alive /\ (cpc[c] # "off" <=> l # "off")
         \/ alive' = [alive EXCEPT ![c] = (l # "off")]
  PROVE  IInv'
<1>1. TableOK'
  BY DEF IInv, TableOK
<1>2. SlotsMatchClients'
  BY DEF IInv, TableOK, SlotsMatchClients, Linked
<1> QED BY <1>1, <1>2 DEF IInv

LEMMA InitIInv == Init => IInv
BY ClientAssumption DEF Init, IInv, TableOK, SlotsMatchClients, Linked, Places

\* A client takes a slot that nobody has.
LEMMA TakeSlotStep ==
  ASSUME IInv, NEW c \in Client, TakeSlot(c)
  PROVE  IInv'
<1>1. PICK k \in Slot : slot[k] = NoOne /\ slot' = [slot EXCEPT ![k] = c]
  BY DEF TakeSlot
<1>2. cpc[c] = "new" /\ cpc' = [cpc EXCEPT ![c] = "serving"] /\ UNCHANGED <<alive, svc>>
  BY DEF TakeSlot
<1>3. ~Linked(c) /\ slot \in [Slot -> Client \cup {NoOne}] /\ cpc \in [Client -> Places]
  BY <1>2 DEF IInv, TableOK, SlotsMatchClients
<1>4. TableOK'
  BY <1>1, <1>2, <1>3 DEF IInv, TableOK, Places
<1>5. ASSUME NEW d \in Client PROVE Linked(d)' <=> Linked(d) \/ d = c
  BY <1>1, <1>3, ClientAssumption DEF Linked
<1>6. \A d \in Client : Linked(d)' <=> cpc'[d] \in {"serving", "leaving"}
  BY <1>2, <1>3, <1>5 DEF IInv, TableOK, SlotsMatchClients
<1>7. \A i, j \in Slot : slot'[i] = slot'[j] /\ slot'[i] # NoOne => i = j
  BY <1>1, <1>3 DEF IInv, TableOK, SlotsMatchClients, Linked
<1> QED BY <1>4, <1>6, <1>7 DEF IInv, SlotsMatchClients

\* A client that leaves is taken out of the table.
LEMMA UnlinkStep ==
  ASSUME IInv, NEW c \in Client, Unlink(c)
  PROVE  IInv'
<1>1. cpc[c] = "leaving" /\ slot' = [k \in Slot |-> IF slot[k] = c THEN NoOne ELSE slot[k]]
      /\ UNCHANGED <<alive, svc>>
  BY DEF Unlink
<1>2. Linked(c)
  BY <1>1 DEF IInv, TableOK, SlotsMatchClients
<1>3. cpc' = [cpc EXCEPT ![c] = "unlinked"]
  BY <1>2 DEF Unlink
<1>4. slot \in [Slot -> Client \cup {NoOne}] /\ cpc \in [Client -> Places]
  BY DEF IInv, TableOK
<1>5. TableOK'
  BY <1>1, <1>3, <1>4 DEF IInv, TableOK, Places
<1>6. ASSUME NEW d \in Client PROVE Linked(d)' <=> Linked(d) /\ d # c
  BY <1>1, <1>4, ClientAssumption DEF Linked
<1>7. \A d \in Client : Linked(d)' <=> cpc'[d] \in {"serving", "leaving"}
  BY <1>3, <1>4, <1>6 DEF IInv, TableOK, SlotsMatchClients
<1>8. \A i, j \in Slot : slot'[i] = slot'[j] /\ slot'[i] # NoOne => i = j
  BY <1>1 DEF IInv, TableOK, SlotsMatchClients
<1> QED BY <1>5, <1>7, <1>8 DEF IInv, SlotsMatchClients

LEMMA ServeStep ==
  ASSUME IInv, NEW c \in Client, Serve(c)
  PROVE  IInv'
<1>1. CASE TakeSlot(c)
  BY <1>1, TakeSlotStep
<1>2. CASE TooManyClients(c) \/ Free(c)
  <2>1. /\ cpc[c] \in {"new", "unlinked"} /\ cpc' = [cpc EXCEPT ![c] = "off"]
        /\ alive' = [alive EXCEPT ![c] = FALSE] /\ UNCHANGED <<slot, svc>>
    BY <1>2 DEF TooManyClients, Free, Release
  <2> QED BY <2>1, ClientMoves DEF Places
<1>3. CASE Send(c)
  BY <1>3, SameTable DEF Send, IInv, TableOK
<1>4. CASE SendFails(c) \/ Leave(c)
  <2>1. PICK l \in {"serving", "leaving"} : cpc' = [cpc EXCEPT ![c] = l]
    BY <1>4 DEF SendFails, Leave
  <2>2. cpc[c] = "serving" /\ UNCHANGED <<slot, svc, alive>>
    BY <1>4 DEF SendFails, Leave
  <2> QED BY <2>1, <2>2, ClientMoves DEF Places
<1>5. CASE Unlink(c)
  BY <1>5, UnlinkStep
<1> QED BY <1>1, <1>2, <1>3, <1>4, <1>5 DEF Serve

\* Every step keeps the table right.
LEMMA NextIInv ==
  ASSUME ~MayEnd
  PROVE  IInv /\ [Next]_vars => IInv'
<1> SUFFICES ASSUME IInv, [Next]_vars PROVE IInv'
  OBVIOUS
<1>0. svc # "ended"
  BY DEF IInv, TableOK
<1>1. ASSUME NEW i \in Injector, Inject(i) PROVE IInv'
  BY <1>0, <1>1, SameTable DEF Inject, InjectLock, InjectMain, InjectSlot, client
<1>2. ASSUME NEW c \in Client, Accept(c) \/ ServiceStart(c) PROVE IInv'
  <2>1. /\ cpc[c] = "off" /\ cpc' = [cpc EXCEPT ![c] = "new"]
        /\ alive' = [alive EXCEPT ![c] = TRUE] /\ slot' = slot
    BY <1>2 DEF Accept, ServiceStart, Connecting
  <2>2. svc' # "ended"
    BY <1>0, <1>2 DEF Accept, ServiceStart
  <2>3. TableOK'
    BY <2>1, <2>2 DEF IInv, TableOK, Places
  <2>4. SlotsMatchClients'
    BY <2>1 DEF IInv, TableOK, SlotsMatchClients, Linked
  <2> QED BY <2>3, <2>4 DEF IInv
<1>3. ASSUME NEW c \in Client, Serve(c) PROVE IInv'
  BY <1>3, ServeStep
<1>4. CASE ServiceStop \/ SetExit
  BY <1>0, <1>4, SameTable DEF ServiceStop, SetExit, client
<1>5. CASE ServiceEnd
  BY <1>5 DEF ServiceEnd
<1>6. CASE Clear
  BY <1>0, <1>6, SameTable DEF Clear, ClearCall, ClearLock, ClearTurn, client
<1>7. CASE UNCHANGED vars
  BY <1>0, <1>7, SameTable DEF vars, client
<1> QED BY <1>1, <1>2, <1>3, <1>4, <1>5, <1>6, <1>7 DEF Next

\* The invariant holds in every reachable state.
THEOREM Inductive ==
  ASSUME ~MayEnd
  PROVE  Spec => []IInv
<1>1. IInv /\ [Next]_vars => IInv'
  BY NextIInv
<1> QED BY <1>1, InitIInv, PTL DEF Spec

\* A client is in one slot exactly while it is served or has not yet left: no
\* slot leaks and none is shared (log_service.c:104-113 and 132-141).
THEOREM SlotsCorrect ==
  ASSUME ~MayEnd
  PROVE  Spec => []SlotsMatchClients
<1>1. IInv => SlotsMatchClients
  BY DEF IInv
<1> QED BY <1>1, Inductive, PTL

\* Nobody touches a pipe that is freed (log_service.c:289).
THEOREM PipesCorrect ==
  ASSUME ~MayEnd
  PROVE  Spec => []NoUseAfterFree
<1>1. IInv => NoUseAfterFree
  BY DEF IInv, TableOK, SlotsMatchClients, NoUseAfterFree
<1> QED BY <1>1, Inductive, PTL
-----------------------------------------------------------------------------
\* What the pipes hold: records, and no more than fit.
Pipe(s) == s \in Seq(Ids) /\ Len(s) <= Capacity

LEMMA NewestIsPipe ==
  ASSUME NEW s \in Seq(Ids)
  PROVE  Pipe(Newest(s))
<1>1. Len(s) \in Nat /\ Capacity \in Nat /\ Capacity >= 1
  BY SizeAssumption
<1>2. CASE Len(s) > Capacity
  <2> DEFINE m == Len(s) - Capacity + 1
  <2>1. m \in Int /\ m \in 1 .. Len(s) /\ Len(s) - m + 1 = Capacity
    BY <1>1, <1>2
  <2>2. \A i \in m .. Len(s) : s[i] \in Ids
    BY <2>1, ElementOfSeq
  <2> HIDE DEF m
  <2>3. SubSeq(s, m, Len(s)) \in Seq(Ids) /\ Len(SubSeq(s, m, Len(s))) = Len(s) - m + 1
    BY <1>1, <2>1, <2>2, SubSeqProperties
  <2> QED BY <1>2, <2>1, <2>3 DEF Newest, Pipe, m
<1>3. CASE ~(Len(s) > Capacity)
  BY <1>1, <1>3 DEF Newest, Pipe
<1> QED BY <1>2, <1>3

\* One more record, for a pipe that some have been taken from.
LEMMA AppendIsPipe ==
  ASSUME NEW s \in Seq(Ids), NEW r \in Ids
  PROVE  Pipe(Newest(Append(s, r)))
BY AppendProperties, NewestIsPipe

LEMMA SuffixIsPipe ==
  ASSUME NEW s, Pipe(s), NEW n \in Nat
  PROVE  Pipe(SubSeq(s, n + 1, Len(s)))
<1>1. s \in Seq(Ids) /\ Len(s) \in Nat /\ Len(s) <= Capacity /\ Capacity \in Nat
  BY SizeAssumption DEF Pipe
<1>2. \A i \in n + 1 .. Len(s) : s[i] \in Ids
  BY <1>1, ElementOfSeq
<1>3. /\ SubSeq(s, n + 1, Len(s)) \in Seq(Ids)
      /\ Len(SubSeq(s, n + 1, Len(s))) = IF n + 1 <= Len(s) THEN Len(s) - (n + 1) + 1 ELSE 0
  BY <1>1, <1>2, SubSeqProperties
<1> QED BY <1>1, <1>3 DEF Pipe

LEMMA PrefixIsPipe ==
  ASSUME NEW s, Pipe(s), NEW n \in 0 .. Len(s)
  PROVE  SubSeq(s, 1, n) \in Seq(Ids) /\ Len(SubSeq(s, 1, n)) = n
<1>1. s \in Seq(Ids) /\ Len(s) \in Nat
  BY DEF Pipe
<1>2. \A i \in 1 .. n : s[i] \in Ids
  BY <1>1, ElementOfSeq
<1> QED BY <1>1, <1>2, SubSeqProperties

\* The types in parts: the pipes, the table, who runs, the rest, and what a
\* client was sent.
PipeTypes == /\ Pipe(main)
             /\ cpipe \in [Client -> Seq(Ids)] /\ \A c \in Client : Pipe(cpipe[c])
             /\ missed \in [Client -> SUBSET Ids]
TableTypes == /\ slot \in [Slot -> Client \cup {NoOne}]
              /\ alive \in [Client -> BOOLEAN]
              /\ cpc \in [Client -> Places]
InjectTypes == /\ mutex \in Injector \cup {Clearer, NoOne}
               /\ at \in [Injector -> 0 .. NR + 1] /\ record \in [Injector -> Ids]
               /\ next \in 1 .. MaxRecord + 1
ServiceTypes == /\ connects \in 0 .. MaxConnect /\ clears \in 0 .. MaxClear
                /\ svc \in {"down", "up", "ended"} /\ exit_flag \in BOOLEAN
                /\ clearing \in {"no", "lock", "loop"}

ClientTypes == /\ got \in [Client -> SUBSET Ids]
               /\ due \in [Client -> SUBSET (1 .. MaxRecord)]

LEMMA Parts ==
  /\ TypeOK <=> PipeTypes /\ TableTypes /\ InjectTypes /\ ServiceTypes /\ ClientTypes
  /\ PipeTypes' /\ TableTypes' /\ InjectTypes' /\ ServiceTypes' /\ ClientTypes' => TypeOK'
BY DEF TypeOK, PipeTypes, TableTypes, InjectTypes, ServiceTypes, ClientTypes, Pipe, Places

LEMMA EmptyIsPipe == Pipe(<<>>)
BY SizeAssumption DEF Pipe

\* A record that is put into some of the pipes.
LEMMA PutTypes ==
  ASSUME PipeTypes, NEW cs, NEW r \in Ids, Put(cs, r), Pipe(main')
  PROVE  PipeTypes'
<1>1. ASSUME NEW c \in Client
      PROVE  /\ cpipe'[c] = IF c \in cs THEN Newest(Append(cpipe[c], r)) ELSE cpipe[c]
             /\ cpipe[c] \in Seq(Ids) /\ Pipe(cpipe[c])
  BY DEF Put, PipeTypes
<1>2. ASSUME NEW c \in Client PROVE Pipe(cpipe'[c])
  BY <1>1, AppendIsPipe
<1>3. cpipe' \in [Client -> Seq(Ids)]
  BY <1>2 DEF Put, Pipe
<1>4. ASSUME NEW c \in Client, Len(cpipe[c]) = Capacity PROVE cpipe[c][1] \in Ids
  <2>1. 1 \in 1 .. Len(cpipe[c])
    BY <1>4, SizeAssumption
  <2> QED BY <1>1, <2>1, ElementOfSeq
<1>5. missed' \in [Client -> SUBSET Ids]
  BY <1>4 DEF Put, PipeTypes
<1> QED BY <1>2, <1>3, <1>5 DEF PipeTypes

\* A client's pipe that becomes another, and what it misses.
LEMMA OnePipe ==
  ASSUME PipeTypes, NEW c \in Client, NEW s, Pipe(s), NEW m \in SUBSET Ids,
         cpipe' = [cpipe EXCEPT ![c] = s], main' = main,
         missed' = missed \/ missed' = [missed EXCEPT ![c] = m]
  PROVE  PipeTypes'
BY DEF PipeTypes, Pipe

\* What a client reads, and what stays.
LEMMA TakenIsPipe ==
  ASSUME PipeTypes, NEW c \in Client
  PROVE  Pipe(Rest(c)) /\ ToSet(Taken(c)) \in SUBSET Ids
<1> DEFINE n == IF Chunk < Len(cpipe[c]) THEN Chunk ELSE Len(cpipe[c])
<1>1. Pipe(cpipe[c]) /\ Len(cpipe[c]) \in Nat
  BY DEF PipeTypes, Pipe
<1>2. n \in 0 .. Len(cpipe[c])
  BY <1>1, SizeAssumption
<1>3. Taken(c) = SubSeq(cpipe[c], 1, n)
  BY DEF Taken
<1> HIDE DEF n
<1>4. Taken(c) \in Seq(Ids) /\ Len(Taken(c)) = n
  BY <1>1, <1>2, <1>3, PrefixIsPipe
<1>5. Pipe(Rest(c))
  BY <1>1, <1>2, <1>4, SuffixIsPipe DEF Rest
<1>6. \A i \in DOMAIN Taken(c) : Taken(c)[i] \in Ids
  BY <1>4, ElementOfSeq
<1> QED BY <1>5, <1>6 DEF ToSet

LEMMA InitTypes == Init => TypeOK
<1> SUFFICES ASSUME Init PROVE TypeOK
  OBVIOUS
<1>1. PipeTypes
  BY EmptyIsPipe DEF Init, PipeTypes, Pipe
<1>2. TableTypes
  BY DEF Init, TableTypes, Places
<1>3. InjectTypes
  BY NRAssumption, BoundAssumption DEF Init, InjectTypes, Ids, Notice
<1>4. ServiceTypes
  <2>1. 0 \in 0 .. MaxConnect /\ 0 \in 0 .. MaxClear
    BY BoundAssumption
  <2>2. exit_flag \in BOOLEAN
    BY Zenon DEF Init
  <2> QED BY <2>1, <2>2 DEF Init, ServiceTypes
<1>5. ClientTypes
  BY BoundAssumption DEF Init, ClientTypes
<1> QED
  BY <1>1, <1>2, <1>3, <1>4, <1>5, Parts

\* An injector: its own record goes on, from pipe to pipe.
LEMMA InjectTypesKept ==
  ASSUME TypeOK, NEW i \in Injector, Inject(i)
  PROVE  TypeOK'
<1>0. PipeTypes /\ TableTypes /\ InjectTypes /\ ServiceTypes /\ ClientTypes
  BY Parts
<1>1. TableTypes' /\ ServiceTypes' /\ ClientTypes'
  BY <1>0 DEF Inject, InjectLock, InjectMain, InjectSlot, TableTypes, ServiceTypes, ClientTypes,
              client, clear
<1>2. record[i] \in Ids
  BY <1>0 DEF InjectTypes
<1>3. CASE InjectLock(i)
  <2>1. PipeTypes'
    BY <1>0, <1>3 DEF InjectLock, PipeTypes, client
  <2>2. next \in Ids /\ next + 1 \in 1 .. MaxRecord + 1 /\ 0 \in 0 .. NR + 1
    BY <1>0, <1>3, BoundAssumption, NRAssumption DEF InjectLock, InjectTypes, Ids, Notice
  <2>3. InjectTypes'
    BY <1>0, <1>3, <2>2 DEF InjectLock, InjectTypes
  <2> QED BY <1>1, <2>1, <2>3, Parts
<1>4. CASE InjectMain(i)
  <2>1. Pipe(main')
    BY <1>0, <1>2, <1>4, AppendIsPipe DEF InjectMain, PipeTypes, Pipe
  <2>2. PipeTypes'
    BY <1>0, <1>4, <2>1 DEF InjectMain, PipeTypes, client
  <2>3. 1 \in 0 .. NR + 1
    BY NRAssumption
  <2>4. InjectTypes'
    BY <1>0, <1>4, <2>3 DEF InjectMain, InjectTypes
  <2> QED BY <1>1, <2>2, <2>4, Parts
<1>5. CASE InjectSlot(i)
  <2>1. Put({slot[at[i]]} \ {NoOne}, record[i]) /\ main' = main
    BY <1>5 DEF InjectSlot
  <2>2. PipeTypes'
    BY <1>0, <1>2, <2>1, PutTypes DEF PipeTypes
  <2>3. at[i] + 1 \in 0 .. NR + 1
    BY <1>5, NRAssumption DEF InjectSlot, Slot
  <2>4. at' \in [Injector -> 0 .. NR + 1] /\ next' = next
    BY <1>0, <1>5, <2>3 DEF InjectSlot, InjectTypes
  <2>5. mutex' \in Injector \cup {Clearer, NoOne} /\ record' \in [Injector -> Ids]
    BY <1>0, <1>5, BoundAssumption DEF InjectSlot, InjectTypes, Ids, Notice
  <2> QED BY <1>0, <1>1, <2>2, <2>4, <2>5, Parts DEF InjectTypes
<1> QED BY <1>3, <1>4, <1>5 DEF Inject

\* A connection: an empty pipe.
LEMMA ConnectTypes ==
  ASSUME TypeOK, NEW c \in Client, Accept(c) \/ ServiceStart(c)
  PROVE  TypeOK'
<1>0. PipeTypes /\ TableTypes /\ InjectTypes /\ ServiceTypes /\ ClientTypes
  BY Parts
<1>1. Connecting(c) /\ UNCHANGED <<main, slot, mutex, at, record, next, exit_flag, clear>>
  BY DEF Accept, ServiceStart
<1>2. PipeTypes'
  <2>1. {} \in SUBSET Ids
    OBVIOUS
  <2> QED BY <1>0, <1>1, <2>1, EmptyIsPipe, OnePipe DEF Connecting
<1>3. TableTypes' /\ InjectTypes'
  BY <1>0, <1>1 DEF Connecting, TableTypes, InjectTypes, Places
<1>4. connects' \in 0 .. MaxConnect
  BY <1>0, <1>1, BoundAssumption DEF Connecting, ServiceTypes
<1>5. svc' \in {"down", "up", "ended"}
  BY <1>0 DEF Accept, ServiceStart, ServiceTypes
<1>6. ServiceTypes'
  BY <1>0, <1>1, <1>4, <1>5 DEF ServiceTypes, clear
<1>7. ClientTypes'
  BY <1>0, <1>1 DEF Accept, ServiceStart, Connecting, ClientTypes
<1> QED BY <1>2, <1>3, <1>6, <1>7, Parts

\* What a client reads it is sent, and it is due what its clone begins.
LEMMA ClientTypesKept ==
  ASSUME TypeOK, NEW c \in Client, Serve(c)
  PROVE  ClientTypes'
<1>0. PipeTypes /\ InjectTypes /\ ClientTypes
  BY Parts
<1>1. CASE TakeSlot(c)
  <2>1. main \in Seq(Ids)
    BY <1>0 DEF PipeTypes, Pipe
  <2>2. Numbered(main) \subseteq Ids
    BY <2>1, ElementOfSeq DEF Numbered, ToSet
  <2>3. ASSUME NEW r \in Numbered(main) \cup {next} PROVE r .. MaxRecord \subseteq 1 .. MaxRecord
    <3>1. Notice \notin Numbered(main)
      BY DEF Numbered
    <3>2. r \in Nat \ {0}
      BY <1>0, <2>2, <3>1, BoundAssumption DEF InjectTypes, Ids, Notice
    <3> QED BY <3>2
  <2>4. From(Numbered(main) \cup {next}) \subseteq 1 .. MaxRecord
    BY <2>3 DEF From
  <2>5. due' = [due EXCEPT ![c] = From(Numbered(main) \cup {next})] /\ got' = got
    BY <1>1 DEF TakeSlot
  <2> QED BY <1>0, <2>4, <2>5 DEF ClientTypes
<1>2. CASE Send(c)
  <2>1. Numbered(Taken(c)) \subseteq Ids
    BY <1>0, TakenIsPipe DEF Numbered
  <2>2. got' = [got EXCEPT ![c] = @ \cup Numbered(Taken(c))] /\ due' = due
    BY <1>2 DEF Send
  <2> QED BY <1>0, <2>1, <2>2 DEF ClientTypes
<1>3. CASE TooManyClients(c) \/ SendFails(c) \/ Leave(c) \/ Unlink(c) \/ Free(c)
  BY <1>0, <1>3 DEF TooManyClients, SendFails, Leave, Unlink, Free, ClientTypes
<1> QED BY <1>1, <1>2, <1>3 DEF Serve

\* The thread of a client: one pipe, one place, one slot.
LEMMA ServeTypes ==
  ASSUME TypeOK, NEW c \in Client, Serve(c)
  PROVE  TypeOK'
<1>0. PipeTypes /\ TableTypes /\ InjectTypes /\ ServiceTypes /\ ClientTypes
  BY Parts
<1>1. InjectTypes' /\ ServiceTypes' /\ ClientTypes'
  <2>1. InjectTypes' /\ ServiceTypes'
    BY <1>0 DEF Serve, TakeSlot, TooManyClients, Send, SendFails, Leave, Unlink, Free,
                InjectTypes, ServiceTypes, clear
  <2> QED BY <2>1, ClientTypesKept
<1>2. CASE TakeSlot(c)
  <2>1. PipeTypes'
    BY <1>0, <1>2, OnePipe DEF TakeSlot, PipeTypes
  <2>2. TableTypes'
    BY <1>0, <1>2 DEF TakeSlot, TableTypes, Places
  <2> QED BY <1>1, <2>1, <2>2, Parts
<1>3. CASE TooManyClients(c) \/ Free(c)
  <2>1. PipeTypes'
    BY <1>0, <1>3, EmptyIsPipe, OnePipe DEF TooManyClients, Free, Release
  <2>2. TableTypes'
    BY <1>0, <1>3 DEF TooManyClients, Free, Release, TableTypes, Places
  <2> QED BY <1>1, <2>1, <2>2, Parts
<1>4. CASE Send(c)
  <2>1. PipeTypes'
    BY <1>0, <1>4, TakenIsPipe, OnePipe DEF Send
  <2>2. TableTypes'
    BY <1>0, <1>4 DEF Send, TableTypes
  <2> QED BY <1>1, <2>1, <2>2, Parts
<1>5. CASE SendFails(c)
  <2>1. missed[c] \cup ToSet(Taken(c)) \in SUBSET Ids /\ Pipe(Rest(c))
    BY <1>0, TakenIsPipe DEF PipeTypes
  <2>2. PipeTypes'
    BY <1>0, <1>5, <2>1, OnePipe DEF SendFails
  <2>3. TableTypes'
    BY <1>0, <1>5 DEF SendFails, TableTypes, Places
  <2> QED BY <1>1, <2>2, <2>3, Parts
<1>6. CASE Leave(c) \/ Unlink(c)
  <2>1. PipeTypes'
    BY <1>0, <1>6 DEF Leave, Unlink, PipeTypes
  <2>2. TableTypes'
    BY <1>0, <1>6 DEF Leave, Unlink, TableTypes, Places
  <2> QED BY <1>1, <2>1, <2>2, Parts
<1> QED BY <1>2, <1>3, <1>4, <1>5, <1>6 DEF Serve

\* The service thread that ends empties the table.
LEMMA EndTypes == TypeOK /\ ServiceEnd => TypeOK'
<1> SUFFICES ASSUME TypeOK, ServiceEnd PROVE TypeOK'
  OBVIOUS
<1>0. PipeTypes /\ TableTypes /\ InjectTypes /\ ServiceTypes /\ ClientTypes
  BY Parts
<1>1. ASSUME NEW c \in Client PROVE Pipe(cpipe'[c])
  BY <1>0, EmptyIsPipe DEF ServiceEnd, PipeTypes
<1>2. PipeTypes'
  BY <1>0, <1>1 DEF ServiceEnd, PipeTypes, Pipe, client
<1>3. slot' \in [Slot -> Client \cup {NoOne}] /\ cpc' \in [Client -> Places]
  BY <1>0 DEF ServiceEnd, TableTypes, client
<1>4. alive' \in [Client -> BOOLEAN]
  BY Zenon DEF ServiceEnd
<1>5. TableTypes' /\ InjectTypes'
  BY <1>0, <1>3, <1>4 DEF ServiceEnd, TableTypes, InjectTypes
<1>6. ServiceTypes' /\ ClientTypes'
  BY <1>0 DEF ServiceEnd, ServiceTypes, ClientTypes, client, clear
<1> QED BY <1>2, <1>5, <1>6, Parts

\* log_logcat_clear: the main pipe is read and a notice goes into every pipe.
LEMMA ClearTypes == TypeOK /\ Clear => TypeOK'
<1> SUFFICES ASSUME TypeOK, Clear PROVE TypeOK'
  OBVIOUS
<1>0. PipeTypes /\ TableTypes /\ InjectTypes /\ ServiceTypes /\ ClientTypes
  BY Parts
<1>1. TableTypes' /\ ClientTypes'
  BY <1>0 DEF Clear, ClearCall, ClearLock, ClearTurn, TableTypes, ClientTypes, client
<1>2. CASE ClearCall \/ ClearLock
  <2>1. PipeTypes' /\ InjectTypes'
    BY <1>0, <1>2 DEF ClearCall, ClearLock, PipeTypes, InjectTypes, client
  <2>2. ServiceTypes'
    BY <1>0, <1>2, BoundAssumption DEF ClearCall, ClearLock, ServiceTypes, client
  <2> QED BY <1>1, <2>1, <2>2, Parts
<1>3. CASE ClearTurn
  <2> DEFINE n == IF Chunk < Len(main) THEN Chunk ELSE Len(main)
  <2>1. /\ main' = Newest(Append(SubSeq(main, n + 1, Len(main)), Notice))
        /\ clearing' = IF n = 0 THEN "no" ELSE "loop"
        /\ mutex' = IF n = 0 THEN NoOne ELSE mutex
        /\ Put({c \in Client : Linked(c)}, Notice)
    BY <1>3 DEF ClearTurn
  <2>2. Pipe(main) /\ n \in Nat
    BY <1>0, SizeAssumption DEF PipeTypes, Pipe
  <2>3. Notice \in Ids
    BY BoundAssumption DEF Ids, Notice
  <2>4. SubSeq(main, n + 1, Len(main)) \in Seq(Ids)
    BY <2>2, SuffixIsPipe DEF Pipe
  <2> HIDE DEF n
  <2>5. Pipe(main')
    BY <2>1, <2>3, <2>4, AppendIsPipe
  <2>6. PipeTypes'
    BY <1>0, <2>1, <2>3, <2>5, PutTypes
  <2>7. InjectTypes' /\ ServiceTypes'
    BY <1>0, <1>3, <2>1 DEF ClearTurn, InjectTypes, ServiceTypes
  <2> QED BY <1>1, <2>6, <2>7, Parts
<1> QED BY <1>2, <1>3 DEF Clear

\* The types of every variable, whether or not the service thread may end: a
\* pipe never holds more than fits (pipe.c, through PipeStream).
THEOREM TypeCorrect == Spec => []TypeOK
<1>1. TypeOK /\ [Next]_vars => TypeOK'
  <2> SUFFICES ASSUME TypeOK, [Next]_vars PROVE TypeOK'
    OBVIOUS
  <2>1. CASE ServiceStop \/ SetExit
    BY <2>1 DEF ServiceStop, SetExit, TypeOK, client, clear
  <2>2. CASE UNCHANGED vars
    BY <2>2 DEF vars, TypeOK, client, clear
  <2> QED BY <2>1, <2>2, InjectTypesKept, ConnectTypes, ServeTypes, EndTypes, ClearTypes DEF Next
<1> QED BY <1>1, InitTypes, PTL DEF Spec
-----------------------------------------------------------------------------
\* The records themselves: in what order they are in a pipe, and which of them.

LEMMA NumbersAreNat == Ids \subseteq Nat /\ Notice = 0
BY BoundAssumption DEF Ids, Notice

LEMMA NumbersOfPipe ==
  ASSUME NEW s \in Seq(Ids)
  PROVE  Numbered(s) \subseteq Nat \ {0}
<1>1. \A i \in DOMAIN s : s[i] \in Ids
  BY ElementOfSeq
<1> QED BY <1>1, NumbersAreNat DEF Numbered, ToSet

\* The two parts of a sequence have its elements, and the order holds within
\* and between them.
Older(s, n) == SubSeq(s, 1, n)
Newer(s, n) == SubSeq(s, n + 1, Len(s))

LEMMA SplitInOrder ==
  ASSUME NEW s \in Seq(Ids), NEW n \in 0 .. Len(s)
  PROVE  /\ ToSet(s) = ToSet(Older(s, n)) \cup ToSet(Newer(s, n))
         /\ InOrder(s) => /\ InOrder(Older(s, n)) /\ InOrder(Newer(s, n))
                          /\ \A x \in Numbered(Older(s, n)), y \in Numbered(Newer(s, n)) : x < y
<1> DEFINE f == SubSeq(s, 1, n)
           t == SubSeq(s, n + 1, Len(s))
<1>1. Len(s) \in Nat /\ n \in Nat /\ \A i \in 1 .. Len(s) : s[i] \in Ids
  BY ElementOfSeq
<1>2. f \in Seq(Ids) /\ Len(f) = n /\ \A i \in 1 .. n : f[i] = s[i]
  <2>1. \A i \in 1 .. n : s[i] \in Ids
    BY <1>1
  <2>2. f \in Seq(Ids) /\ Len(f) = n
    BY <1>1, <2>1, SubSeqProperties
  <2> QED BY <1>1, <2>2
<1>3. t \in Seq(Ids) /\ Len(t) = Len(s) - n /\ \A i \in 1 .. Len(s) - n : t[i] = s[n + i]
  <2>1. \A i \in n + 1 .. Len(s) : s[i] \in Ids
    BY <1>1
  <2>2. t \in Seq(Ids) /\ Len(t) = IF n + 1 <= Len(s) THEN Len(s) - (n + 1) + 1 ELSE 0
    BY <1>1, <2>1, SubSeqProperties
  <2>3. \A i \in 1 .. Len(s) - n : t[i] = s[n + i]
    BY <1>1
  <2> QED BY <1>1, <2>2, <2>3
<1> HIDE DEF f, t
<1>4. /\ ToSet(f) = {f[i] : i \in 1 .. n}
      /\ ToSet(t) = {t[i] : i \in 1 .. Len(s) - n}
      /\ ToSet(s) = {s[i] : i \in 1 .. Len(s)}
  <2>1. DOMAIN f = 1 .. n /\ DOMAIN t = 1 .. Len(s) - n /\ DOMAIN s = 1 .. Len(s)
    BY <1>1, <1>2, <1>3
  <2> QED BY <2>1 DEF ToSet
<1>5. ToSet(s) \subseteq ToSet(f) \cup ToSet(t)
  <2> SUFFICES ASSUME NEW i \in 1 .. Len(s) PROVE s[i] \in ToSet(f) \cup ToSet(t)
    BY <1>4
  <2>1. CASE i <= n
    BY <1>1, <1>2, <1>4, <2>1
  <2>2. CASE i > n
    <3>1. PICK j \in 1 .. Len(s) - n : i = n + j
      <4>1. i - n \in 1 .. Len(s) - n /\ i = n + (i - n)
        BY <1>1, <2>2
      <4> QED BY <4>1
    <3> QED BY <1>3, <1>4, <3>1
  <2> QED BY <1>1, <2>1, <2>2
<1>6. ToSet(f) \cup ToSet(t) \subseteq ToSet(s)
  <2>1. \A i \in 1 .. n : i \in 1 .. Len(s)
    BY <1>1
  <2>2. \A i \in 1 .. Len(s) - n : n + i \in 1 .. Len(s)
    BY <1>1
  <2>3. ToSet(f) \subseteq ToSet(s)
    BY <1>2, <1>4, <2>1
  <2>4. ToSet(t) \subseteq ToSet(s)
    BY <1>3, <1>4, <2>2
  <2> QED BY <2>3, <2>4
<1>7. ASSUME InOrder(s)
      PROVE  InOrder(f) /\ InOrder(t) /\ \A x \in Numbered(f), y \in Numbered(t) : x < y
  <2>1. DOMAIN f = 1 .. n /\ DOMAIN t = 1 .. Len(s) - n /\ DOMAIN s = 1 .. Len(s)
    BY <1>1, <1>2, <1>3
  <2>2. InOrder(f)
    <3> SUFFICES ASSUME NEW i \in 1 .. n, NEW j \in 1 .. n, i < j,
                        f[i] # Notice, f[j] # Notice
                 PROVE  f[i] < f[j]
      BY <2>1 DEF InOrder
    <3>1. f[i] = s[i] /\ f[j] = s[j] /\ i \in 1 .. Len(s) /\ j \in 1 .. Len(s)
      BY <1>1, <1>2
    <3> QED BY <1>7, <2>1, <3>1 DEF InOrder
  <2>3. InOrder(t)
    <3> SUFFICES ASSUME NEW i \in 1 .. Len(s) - n, NEW j \in 1 .. Len(s) - n, i < j,
                        t[i] # Notice, t[j] # Notice
                 PROVE  t[i] < t[j]
      BY <2>1 DEF InOrder
    <3>1. t[i] = s[n + i] /\ t[j] = s[n + j]
      BY <1>3
    <3>2. n + i \in 1 .. Len(s) /\ n + j \in 1 .. Len(s) /\ n + i < n + j
      BY <1>1
    <3> QED BY <1>7, <2>1, <3>1, <3>2 DEF InOrder
  <2>4. ASSUME NEW x \in Numbered(f), NEW y \in Numbered(t) PROVE x < y
    <3>1. x # Notice /\ y # Notice
      BY DEF Numbered
    <3>2. PICK i \in 1 .. n : x = f[i]
      BY <1>4 DEF Numbered
    <3>3. PICK j \in 1 .. Len(s) - n : y = t[j]
      BY <1>4 DEF Numbered
    <3>4. x = s[i] /\ y = s[n + j]
      BY <1>2, <1>3, <3>2, <3>3
    <3>5. i \in 1 .. Len(s) /\ n + j \in 1 .. Len(s) /\ i < n + j
      BY <1>1
    <3> QED BY <1>7, <2>1, <3>1, <3>4, <3>5 DEF InOrder
  <2> QED BY <2>2, <2>3, <2>4
<1> QED BY <1>5, <1>6, <1>7 DEF f, t, Older, Newer

\* What a sequence has in order from some record on, its end has, too.
Complete(s, n) == \A r \in Numbered(s) : r < n /\ r .. n - 1 \subseteq ToSet(s)

LEMMA SuffixComplete ==
  ASSUME NEW s \in Seq(Ids), NEW k \in 0 .. Len(s), NEW n \in Nat, InOrder(s), Complete(s, n)
  PROVE  Complete(Newer(s, k), n)
<1> DEFINE f == Older(s, k)
           t == Newer(s, k)
<1>1. /\ ToSet(s) = ToSet(f) \cup ToSet(t)
      /\ \A x \in Numbered(f), y \in Numbered(t) : x < y
  BY SplitInOrder
<1> HIDE DEF f, t
<1>2. Numbered(t) \subseteq Numbered(s)
  BY <1>1 DEF Numbered
<1>3. Numbered(s) \subseteq Nat \ {0}
  BY NumbersOfPipe
<1> SUFFICES ASSUME NEW r \in Numbered(t), NEW q \in r .. n - 1 PROVE q \in ToSet(t)
  BY <1>2 DEF Complete, t
<1>4. q \in ToSet(s)
  BY <1>2 DEF Complete
<1>5. r \in Nat \ {0} /\ q \in Nat /\ r <= q
  BY <1>2, <1>3
<1>6. CASE q \in ToSet(f)
  <2>1. q \in Numbered(f)
    BY <1>5, <1>6, NumbersAreNat DEF Numbered
  <2>2. q < r
    BY <1>1, <2>1
  <2> QED BY <1>5, <2>2
<1> QED BY <1>1, <1>4, <1>6

\* One more record at the end.
LEMMA AppendInOrder ==
  ASSUME NEW s \in Seq(Ids), NEW r \in Ids, NEW u, u = Append(s, r)
  PROVE  /\ u \in Seq(Ids) /\ ToSet(u) = ToSet(s) \cup {r}
         /\ InOrder(s) /\ (r = Notice \/ \A q \in Numbered(s) : q < r) => InOrder(u)
<1>1. /\ u \in Seq(Ids) /\ Len(u) = Len(s) + 1 /\ Len(s) \in Nat
      /\ u[Len(s) + 1] = r /\ \A i \in 1 .. Len(s) : u[i] = s[i]
  BY AppendProperties
<1>2. DOMAIN u = 1 .. Len(s) + 1 /\ DOMAIN s = 1 .. Len(s)
  BY <1>1
<1>3. ToSet(u) = ToSet(s) \cup {r}
  <2>1. \A i \in 1 .. Len(s) + 1 : i \in 1 .. Len(s) \/ i = Len(s) + 1
    BY <1>1
  <2>2. 1 .. Len(s) \subseteq 1 .. Len(s) + 1 /\ Len(s) + 1 \in 1 .. Len(s) + 1
    BY <1>1
  <2>3. ToSet(u) = {u[i] : i \in 1 .. Len(s) + 1} /\ ToSet(s) = {s[i] : i \in 1 .. Len(s)}
    BY <1>2 DEF ToSet
  <2> QED BY <1>1, <2>1, <2>2, <2>3
<1>4. ASSUME InOrder(s), r = Notice \/ \A q \in Numbered(s) : q < r PROVE InOrder(u)
  <2> SUFFICES ASSUME NEW i \in 1 .. Len(s) + 1, NEW j \in 1 .. Len(s) + 1, i < j,
                      u[i] # Notice, u[j] # Notice
               PROVE  u[i] < u[j]
    BY <1>2 DEF InOrder
  <2>1. i \in 1 .. Len(s) /\ u[i] = s[i]
    BY <1>1
  <2>2. CASE j = Len(s) + 1
    <3>1. s[i] \in Numbered(s)
      BY <1>2, <2>1 DEF Numbered, ToSet
    <3> QED BY <1>1, <1>4, <2>1, <2>2, <3>1
  <2>3. CASE j # Len(s) + 1
    <3>1. j \in 1 .. Len(s) /\ u[j] = s[j]
      BY <1>1, <2>3
    <3> QED BY <1>2, <1>4, <2>1, <3>1 DEF InOrder
  <2> QED BY <2>2, <2>3
<1> QED BY <1>1, <1>3, <1>4

\* A record put into a pipe: it is there, and at most the oldest is not.
LEMMA NewestKeeps ==
  ASSUME NEW s, Pipe(s), NEW r \in Ids, NEW t, t = Newest(Append(s, r))
  PROVE  /\ Pipe(t) /\ ToSet(t) \subseteq ToSet(s) \cup {r}
         /\ \A q \in ToSet(s) \cup {r} : q \in ToSet(t) \/ (Len(s) = Capacity /\ q = s[1])
         /\ InOrder(s) /\ (r = Notice \/ \A q \in Numbered(s) : q < r) => InOrder(t)
         /\ \A n \in Nat : /\ InOrder(s) /\ (r = Notice \/ \A q \in Numbered(s) : q < r)
                           /\ Complete(Append(s, r), n)
                           => Complete(t, n)
<1> DEFINE u == Append(s, r)
<1>1. /\ s \in Seq(Ids) /\ Len(s) \in Nat /\ Len(s) <= Capacity
      /\ Capacity \in Nat /\ Capacity >= 1
  BY SizeAssumption DEF Pipe
<1>2. /\ u \in Seq(Ids) /\ ToSet(u) = ToSet(s) \cup {r}
      /\ InOrder(s) /\ (r = Notice \/ \A q \in Numbered(s) : q < r) => InOrder(u)
  BY <1>1, AppendInOrder
<1>3. Len(u) = Len(s) + 1 /\ \A i \in 1 .. Len(s) : u[i] = s[i]
  BY <1>1, AppendProperties
<1>4. Pipe(t)
  BY <1>1, AppendIsPipe
<1>5. t = Newest(u)
  OBVIOUS
<1> HIDE DEF u
<1>6. CASE Len(s) < Capacity
  <2>1. t = u
    BY <1>1, <1>3, <1>5, <1>6 DEF Newest
  <2> QED BY <1>2, <1>4, <2>1 DEF u
<1>7. CASE Len(s) = Capacity
  <2>1. 1 \in 0 .. Len(u) /\ 1 \in 1 .. Len(s) /\ 1 \in 1 .. Len(u) /\ Len(u) \in Nat
    BY <1>1, <1>3, <1>7
  <2>2. t = Newer(u, 1)
    <3>1. Len(u) > Capacity /\ Len(u) - Capacity + 1 = 1 + 1
      BY <1>1, <1>3, <1>7
    <3>2. t = SubSeq(u, Len(u) - Capacity + 1, Len(u))
      BY <1>5, <3>1 DEF Newest
    <3> QED BY <3>1, <3>2 DEF Newer
  <2>3. ToSet(u) = ToSet(Older(u, 1)) \cup ToSet(t) /\ (InOrder(u) => InOrder(t))
    BY <1>2, <2>1, <2>2, SplitInOrder
  <2>4. ToSet(Older(u, 1)) = {s[1]}
    <3>1. u[1] = s[1] /\ u[1] \in Ids
      BY <1>2, <1>3, <2>1, ElementOfSeq
    <3>2. Len(Older(u, 1)) = 1 /\ Older(u, 1)[1] = u[1] /\ DOMAIN Older(u, 1) = {1}
      <4>1. \A i \in 1 .. 1 : u[i] \in Ids
        BY <3>1
      <4>2. Older(u, 1) \in Seq(Ids) /\ Len(Older(u, 1)) = 1
        BY <1>2, <2>1, <4>1, SubSeqProperties DEF Older
      <4>3. Older(u, 1)[1] = u[1]
        BY <2>1 DEF Older
      <4>4. DOMAIN Older(u, 1) = 1 .. 1
        BY <4>2
      <4> QED BY <4>2, <4>3, <4>4
    <3> QED BY <3>1, <3>2 DEF ToSet
  <2>5. \A n \in Nat : InOrder(u) /\ Complete(u, n) => Complete(t, n)
    BY <1>2, <2>1, <2>2, SuffixComplete
  <2> QED BY <1>2, <1>4, <1>7, <2>3, <2>4, <2>5 DEF u
<1> QED BY <1>1, <1>6, <1>7

\* A client reads the older part of its pipe.
LEMMA TakenAndRest ==
  ASSUME NEW c \in Client, Pipe(cpipe[c])
  PROVE  /\ ToSet(cpipe[c]) = ToSet(Taken(c)) \cup ToSet(Rest(c))
         /\ InOrder(cpipe[c]) =>
              /\ InOrder(Rest(c))
              /\ \A x \in Numbered(Taken(c)), y \in Numbered(Rest(c)) : x < y
<1> DEFINE s == cpipe[c]
           n == IF Chunk < Len(s) THEN Chunk ELSE Len(s)
<1>1. s \in Seq(Ids) /\ n \in 0 .. Len(s)
  BY SizeAssumption DEF Pipe
<1>2. Taken(c) = Older(s, n) /\ Len(Taken(c)) = n
  BY <1>1, PrefixIsPipe DEF Taken, Older
<1>3. Rest(c) = Newer(s, n)
  BY <1>2 DEF Rest, Newer
<1> HIDE DEF n
<1> QED BY <1>1, <1>2, <1>3, SplitInOrder
-----------------------------------------------------------------------------
\* How a client's pipe s, what it was sent g, is due d and misses m agree when
\* the records below n have been put into the pipe.
StreamOK(s, g, d, m, n) ==
  /\ InOrder(s)
  /\ \A r \in g : r < n
  /\ \A r \in Numbered(s) : r < n /\ \A q \in g : q < r
  /\ \A r \in d : r < n => r \in g \cup ToSet(s) \cup m

\* The clone of a main pipe that has all below n.
LEMMA CloneOK ==
  ASSUME NEW s \in Seq(Ids), NEW n \in 1 .. MaxRecord + 1, NEW m, InOrder(s), Complete(s, n)
  PROVE  StreamOK(s, {}, From(Numbered(s) \cup {n}), m, n)
<1>1. Numbered(s) \subseteq Nat /\ n \in Nat
  BY NumbersOfPipe, BoundAssumption
<1>2. ASSUME NEW r \in From(Numbered(s) \cup {n}), r < n PROVE r \in ToSet(s)
  <2>1. PICK q \in Numbered(s) \cup {n} : r \in q .. MaxRecord
    BY DEF From
  <2>2. q # n /\ r \in q .. n - 1
    BY <1>1, <1>2, <2>1, BoundAssumption
  <2> QED BY <2>1, <2>2 DEF Complete
<1> QED BY <1>2 DEF StreamOK, Complete

\* The next record is put, or a notice.
LEMMA PutOK ==
  ASSUME NEW s, Pipe(s), NEW r \in Ids, NEW g \in SUBSET Ids, NEW d, NEW m, NEW n \in Nat,
         StreamOK(s, g, d, m, n), d \subseteq 1 .. MaxRecord,
         NEW k, \/ r = Notice /\ k = n
                \/ r = n /\ k = n + 1 /\ n # 0,
         NEW t, t = Newest(Append(s, r)),
         NEW o, o = IF Len(s) = Capacity THEN m \cup {s[1]} ELSE m
  PROVE  StreamOK(t, g, d, o, k)
<1>1. /\ InOrder(s) /\ \A q \in g : q < n
      /\ \A q \in Numbered(s) : q < n /\ \A x \in g : x < q
      /\ \A q \in d : q < n => q \in g \cup ToSet(s) \cup m
  BY DEF StreamOK
<1>2. r = Notice \/ \A q \in Numbered(s) : q < r
  BY <1>1
<1>3. /\ Pipe(t) /\ ToSet(t) \subseteq ToSet(s) \cup {r} /\ InOrder(t)
      /\ \A q \in ToSet(s) \cup {r} : q \in ToSet(t) \/ (Len(s) = Capacity /\ q = s[1])
  BY <1>1, <1>2, NewestKeeps
<1>4. Numbered(s) \subseteq Nat /\ Numbered(t) \subseteq Nat
  BY <1>3, NumbersAreNat, ElementOfSeq DEF Numbered, ToSet, Pipe
<1>5. \A q \in Numbered(t) : q \in Numbered(s) \/ (q = n /\ k = n + 1)
  BY <1>3 DEF Numbered
<1>6. \A q \in Numbered(t) : q < k /\ \A x \in g : x < q
  BY <1>1, <1>4, <1>5
<1>7. ASSUME NEW q \in d, q < k PROVE q \in g \cup ToSet(t) \cup o
  <2>1. q \in Nat /\ (q < n \/ q = r)
    BY <1>7, BoundAssumption
  <2>2. m \subseteq o
    OBVIOUS
  <2>3. ASSUME q \in ToSet(s) \cup {r} PROVE q \in ToSet(t) \cup o
    BY <1>3, <2>3
  <2> QED BY <1>1, <2>1, <2>2, <2>3
<1>8. \A q \in g : q < k
  <2> SUFFICES ASSUME NEW q \in g PROVE q < k
    OBVIOUS
  <2>1. q \in Nat /\ q < n
    BY <1>1, NumbersAreNat
  <2> QED BY <2>1
<1> QED BY <1>3, <1>6, <1>7, <1>8 DEF StreamOK

LEMMA NoticeOK ==
  ASSUME NEW s, Pipe(s), NEW g \in SUBSET Ids, NEW d, NEW m, NEW n \in Nat,
         StreamOK(s, g, d, m, n), d \subseteq 1 .. MaxRecord,
         NEW t, t = Newest(Append(s, Notice)),
         NEW o, o = IF Len(s) = Capacity THEN m \cup {s[1]} ELSE m
  PROVE  StreamOK(t, g, d, o, n)
<1>1. Notice \in Ids
  BY BoundAssumption DEF Ids, Notice
<1> DEFINE r == Notice
<1>2. r \in Ids /\ r = Notice /\ t = Newest(Append(s, r))
  BY <1>1
<1> HIDE DEF r
<1> QED BY <1>2, PutOK

\* A client reads a chunk and sends it, or fails to.
LEMMA SendOK ==
  ASSUME NEW c \in Client, Pipe(cpipe[c]), NEW g \in SUBSET Ids, NEW d, d \subseteq 1 .. MaxRecord,
         NEW m, NEW n \in Nat, StreamOK(cpipe[c], g, d, m, n)
  PROVE  /\ StreamOK(Rest(c), g \cup Numbered(Taken(c)), d, m, n)
         /\ StreamOK(Rest(c), g, d, m \cup ToSet(Taken(c)), n)
<1> DEFINE s == cpipe[c]
           f == Taken(c)
           t == Rest(c)
<1>1. /\ InOrder(s) /\ \A q \in g : q < n
      /\ \A q \in Numbered(s) : q < n /\ \A x \in g : x < q
      /\ \A q \in d : q < n => q \in g \cup ToSet(s) \cup m
  BY DEF StreamOK
<1>2. /\ ToSet(s) = ToSet(f) \cup ToSet(t) /\ InOrder(t)
      /\ \A x \in Numbered(f), y \in Numbered(t) : x < y
  BY <1>1, TakenAndRest
<1> HIDE DEF s, f, t
<1>3. Numbered(s) = Numbered(f) \cup Numbered(t)
  BY <1>2 DEF Numbered
<1>4. Notice \notin d
  BY NumbersAreNat
<1>5. \A q \in d : q < n => q \in (g \cup Numbered(f)) \cup ToSet(t) \cup m
  BY <1>1, <1>2, <1>4 DEF Numbered
<1>6. StreamOK(t, g \cup Numbered(f), d, m, n)
  BY <1>1, <1>2, <1>3, <1>5 DEF StreamOK
<1>7. StreamOK(t, g, d, m \cup ToSet(f), n)
  BY <1>1, <1>2, <1>3 DEF StreamOK
<1> QED BY <1>6, <1>7 DEF t, f
-----------------------------------------------------------------------------
\* One thread at a time injects a record, the newest, and has put it into the
\* pipes before at.
OneInjector ==
  /\ \A i \in Injector : record[i] # 0 <=> mutex = i
  /\ \A i \in Injector : record[i] # 0 => record[i] = next - 1 /\ at[i] \in 0 .. NR
  /\ clearing = "loop" => mutex = Clearer

\* The records below this one have been put into pipe k: the main pipe, or that
\* of the client in slot k.
Reached(k) == IF \E i \in Injector : record[i] # 0 /\ at[i] <= k THEN next - 1 ELSE next

MainInv == InOrder(main) /\ Complete(main, Reached(0))
ClientOK(c, n) == StreamOK(cpipe[c], got[c], due[c], missed[c], n)
ServedInv ==
  /\ \A c \in Client : cpc[c] = "new" => got[c] = {}
  /\ \A k \in Slot : slot[k] # NoOne /\ cpc[slot[k]] = "serving" => ClientOK(slot[k], Reached(k))
StreamInv == OneInjector /\ MainInv /\ ServedInv

\* The mutex: what a step does to it, the injector's record and its place.
LEMMA OneInjectorNext ==
  ASSUME InjectTypes, OneInjector, [Next]_vars
  PROVE  OneInjector'
<1>0. /\ at \in [Injector -> 0 .. NR + 1] /\ record \in [Injector -> Ids]
      /\ next \in Nat \ {0} /\ NR \in Nat \ {0} /\ NoOne \notin Injector /\ Clearer \notin Injector
      /\ Ids \subseteq Nat
  BY NRAssumption, BoundAssumption, InjectorAssumption, NumbersAreNat DEF InjectTypes
<1>1. ASSUME NEW i \in Injector, InjectLock(i) PROVE OneInjector'
  <2>1. /\ mutex = NoOne /\ mutex' = i /\ record' = [record EXCEPT ![i] = next]
        /\ next' = next + 1 /\ at' = [at EXCEPT ![i] = 0] /\ clearing' = clearing
    BY <1>1 DEF InjectLock, clear
  <2>2. \A j \in Injector : record[j] = 0
    BY <1>0, <2>1 DEF OneInjector
  <2>3. clearing # "loop"
    BY <2>1 DEF OneInjector, Clearer, NoOne
  <2>4. \A j \in Injector : record'[j] = (IF j = i THEN next ELSE 0) /\ at'[i] = 0
    BY <1>0, <2>1, <2>2
  <2> QED BY <1>0, <2>1, <2>3, <2>4 DEF OneInjector
<1>2. ASSUME NEW i \in Injector, InjectMain(i) PROVE OneInjector'
  <2>1. /\ UNCHANGED <<mutex, record, next, clearing>> /\ record[i] # 0
        /\ at' = [at EXCEPT ![i] = 1]
    BY <1>2 DEF InjectMain, clear
  <2>2. \A j \in Injector : at'[j] = IF j = i THEN 1 ELSE at[j]
    BY <1>0, <2>1
  <2>3. 1 \in 0 .. NR
    BY <1>0
  <2> QED BY <2>1, <2>2, <2>3 DEF OneInjector
<1>3. ASSUME NEW i \in Injector, InjectSlot(i) PROVE OneInjector'
  <2>1. /\ UNCHANGED <<next, clearing>> /\ record[i] # 0 /\ at[i] \in 1 .. NR
        /\ at' = [at EXCEPT ![i] = at[i] + 1] /\ mutex = i
        /\ IF at[i] = NR THEN mutex' = NoOne /\ record' = [record EXCEPT ![i] = 0]
                         ELSE UNCHANGED <<mutex, record>>
    BY <1>3 DEF InjectSlot, clear, Slot, OneInjector
  <2>2. /\ \A j \in Injector : record[j] # 0 <=> j = i
        /\ clearing # "loop"
    BY <1>0, <2>1 DEF OneInjector
  <2>3. CASE at[i] = NR
    <3>1. \A j \in Injector : record'[j] = 0
      BY <1>0, <2>1, <2>2, <2>3
    <3> QED BY <1>0, <2>1, <2>2, <2>3, <3>1 DEF OneInjector
  <2>4. CASE at[i] # NR
    <3>1. at[i] + 1 \in 0 .. NR /\ at'[i] = at[i] + 1 /\ UNCHANGED <<mutex, record>>
      BY <1>0, <2>1, <2>4
    <3> QED BY <2>1, <2>2, <3>1 DEF OneInjector
  <2> QED BY <2>3, <2>4
<1>4. ASSUME UNCHANGED <<mutex, record, next, at, clearing>> PROVE OneInjector'
  BY <1>4 DEF OneInjector
<1>5. ASSUME NEW c \in Client, Accept(c) \/ ServiceStart(c) PROVE OneInjector'
  BY <1>4, <1>5 DEF Accept, ServiceStart, clear
<1>6. ASSUME NEW c \in Client, Serve(c) PROVE OneInjector'
  BY <1>4, <1>6 DEF Serve, TakeSlot, TooManyClients, Send, SendFails, Leave, Unlink, Free, clear
<1>7. CASE ServiceStop \/ ServiceEnd \/ SetExit
  BY <1>4, <1>7 DEF ServiceStop, ServiceEnd, SetExit, clear
<1>8. CASE ClearCall \/ ClearLock
  <2>1. \/ UNCHANGED mutex /\ clearing' = "lock"
        \/ mutex = NoOne /\ mutex' = Clearer
    BY <1>8 DEF ClearCall, ClearLock
  <2>2. UNCHANGED <<record, next, at>>
    BY <1>8 DEF ClearCall, ClearLock
  <2> QED BY <1>0, <2>1, <2>2 DEF OneInjector
<1>9. CASE ClearTurn
  <2>1. /\ mutex = Clearer /\ UNCHANGED <<record, next, at>>
        /\ \/ mutex' = NoOne /\ clearing' = "no"
           \/ mutex' = mutex
    BY <1>9 DEF ClearTurn, OneInjector
  <2> QED BY <1>0, <2>1 DEF OneInjector
<1>10. CASE UNCHANGED vars
  BY <1>4, <1>10 DEF vars, clear
<1> QED BY <1>1, <1>2, <1>3, <1>5, <1>6, <1>7, <1>8, <1>9, <1>10 DEF Next, Inject, Clear

\* When nobody injects, every pipe has what was logged.
LEMMA ReachedValue ==
  ASSUME InjectTypes, OneInjector, NEW k \in 0 .. NR
  PROVE  /\ Reached(k) \in Nat
         /\ mutex \notin Injector => Reached(k) = next
         /\ \A i \in Injector : mutex = i =>
              Reached(k) = IF at[i] <= k THEN next - 1 ELSE next
<1>1. next \in Nat \ {0}
  BY BoundAssumption DEF InjectTypes
<1> QED BY <1>1 DEF Reached, OneInjector

LEMMA ReachedNext ==
  ASSUME InjectTypes', OneInjector', NEW k \in 0 .. NR
  PROVE  /\ mutex' \notin Injector => Reached(k)' = next'
         /\ \A i \in Injector : mutex' = i =>
              Reached(k)' = IF at'[i] <= k THEN next' - 1 ELSE next'
BY DEF Reached, OneInjector

\* Steps that leave the records, the pipes and who is served alone.
LEMMA StreamsUnchanged ==
  ASSUME MainInv, ServedInv,
         UNCHANGED <<main, slot, cpipe, cpc, got, due, missed, record, at, next>>
  PROVE  MainInv' /\ ServedInv'
<1>1. \A k : Reached(k)' = Reached(k)
  BY DEF Reached
<1> QED BY <1>1 DEF MainInv, ServedInv, ClientOK

\* Steps of one client: the others and the main pipe stay as they are.
LEMMA OneClient ==
  ASSUME MainInv, ServedInv, NEW c \in Client, UNCHANGED <<main, record, at, next>>,
         \A d \in Client \ {c} :
           /\ cpipe'[d] = cpipe[d] /\ got'[d] = got[d] /\ due'[d] = due[d]
           /\ missed'[d] = missed[d] /\ cpc'[d] = cpc[d],
         slot' \in [Slot -> Client \cup {NoOne}],
         \A k \in Slot : slot'[k] # c /\ slot'[k] # NoOne => slot[k] = slot'[k],
         cpc'[c] = "new" => got'[c] = {},
         \A k \in Slot : slot'[k] = c /\ cpc'[c] = "serving" =>
           StreamOK(cpipe'[c], got'[c], due'[c], missed'[c], Reached(k))
  PROVE  MainInv' /\ ServedInv'
<1>1. \A k : Reached(k)' = Reached(k)
  BY DEF Reached
<1>2. MainInv'
  BY <1>1 DEF MainInv
<1>3. ASSUME NEW d \in Client, cpc'[d] = "new" PROVE got'[d] = {}
  BY <1>3 DEF ServedInv
<1>4. ASSUME NEW k \in Slot, slot'[k] # NoOne, cpc'[slot'[k]] = "serving"
      PROVE  ClientOK(slot[k], Reached(k))'
  <2>1. PICK d \in Client : slot'[k] = d
    BY <1>4
  <2>2. CASE d = c
    BY <1>1, <1>4, <2>1, <2>2 DEF ClientOK
  <2>3. CASE d # c
    <3>1. slot[k] = d /\ cpc[d] = "serving"
      BY <1>4, <2>1, <2>3
    <3>2. StreamOK(cpipe[d], got[d], due[d], missed[d], Reached(k))
      BY <1>4, <2>1, <3>1 DEF ServedInv, ClientOK
    <3>3. StreamOK(cpipe'[d], got'[d], due'[d], missed'[d], Reached(k)')
      BY <1>1, <2>3, <3>2
    <3> QED BY <2>1, <3>3 DEF ClientOK
  <2> QED BY <2>2, <2>3
<1>5. ServedInv'
  BY <1>3, <1>4 DEF ServedInv
<1> QED BY <1>2, <1>5

\* An injection begins: the new record has not been put anywhere.
LEMMA LockStream ==
  ASSUME TypeOK, StreamInv, NEW i \in Injector, InjectLock(i), InjectTypes', OneInjector'
  PROVE  MainInv' /\ ServedInv'
<1>1. /\ mutex = NoOne /\ mutex' = i /\ next' = next + 1 /\ at' = [at EXCEPT ![i] = 0]
      /\ UNCHANGED <<main, slot, cpipe, cpc, got, due, missed>>
  BY DEF InjectLock, client
<1>2. InjectTypes
  BY Parts
<1>3. next \in Nat /\ at'[i] = 0
  BY <1>1, <1>2, BoundAssumption DEF InjectTypes
<1>4. ASSUME NEW k \in 0 .. NR PROVE Reached(k)' = Reached(k)
  <2>1. Reached(k) = next
    BY <1>1, <1>2, ReachedValue, InjectorAssumption DEF StreamInv
  <2>2. Reached(k)' = next' - 1
    BY <1>1, <1>3, ReachedNext
  <2> QED BY <1>1, <1>3, <2>1, <2>2
<1>5. Slot \subseteq 0 .. NR /\ 0 \in 0 .. NR
  BY NRAssumption DEF Slot
<1>6. MainInv'
  BY <1>1, <1>4, <1>5 DEF StreamInv, MainInv
<1>7. ServedInv'
  BY <1>1, <1>4, <1>5 DEF StreamInv, ServedInv, ClientOK
<1> QED BY <1>6, <1>7

\* The record goes into the main pipe.
LEMMA MainStream ==
  ASSUME TypeOK, StreamInv, NEW i \in Injector, InjectMain(i), InjectTypes', OneInjector'
  PROVE  MainInv' /\ ServedInv'
<1> DEFINE r == record[i]
<1>1. /\ r # 0 /\ at[i] = 0 /\ main' = Newest(Append(main, r)) /\ at' = [at EXCEPT ![i] = 1]
      /\ UNCHANGED <<slot, cpipe, cpc, got, due, missed, mutex, record, next>>
  BY DEF InjectMain, client
<1>2. InjectTypes /\ Pipe(main)
  BY Parts DEF PipeTypes
<1>3. /\ next \in Nat /\ at'[i] = 1 /\ mutex = i /\ r = next - 1 /\ r \in Ids /\ NR \in Nat \ {0}
      /\ r \in Nat /\ next = r + 1 /\ main \in Seq(Ids)
  BY <1>1, <1>2, BoundAssumption, NRAssumption, NumbersAreNat
     DEF InjectTypes, StreamInv, OneInjector, Pipe
<1> HIDE DEF r
<1>4. Reached(0) = r /\ Reached(0)' = r + 1
  <2>1. Reached(0) = next - 1
    BY <1>1, <1>2, <1>3, ReachedValue DEF StreamInv
  <2>2. Reached(0)' = next'
    BY <1>1, <1>3, ReachedNext
  <2> QED BY <1>1, <1>3, <2>1, <2>2
<1>5. ASSUME NEW k \in Slot PROVE Reached(k)' = Reached(k)
  <2>1. k \in 0 .. NR /\ k >= 1
    BY <1>3 DEF Slot
  <2>2. Reached(k) = next - 1
    BY <1>1, <1>2, <1>3, <2>1, ReachedValue DEF StreamInv
  <2>3. Reached(k)' = next' - 1
    BY <1>1, <1>3, <2>1, ReachedNext
  <2> QED BY <1>1, <2>2, <2>3
<1>6. ServedInv'
  BY <1>1, <1>5 DEF StreamInv, ServedInv, ClientOK
<1>7. InOrder(main) /\ Complete(main, r)
  BY <1>4 DEF StreamInv, MainInv
<1>8. \A q \in Numbered(main) : q < r
  BY <1>7 DEF Complete
<1>9. Complete(Append(main, r), r + 1)
  <2>1. ToSet(Append(main, r)) = ToSet(main) \cup {r}
    BY <1>3, AppendInOrder
  <2>2. Numbered(main) \subseteq Nat
    BY <1>3, NumbersOfPipe
  <2> SUFFICES ASSUME NEW q \in Numbered(main) \cup {r}
               PROVE  q < r + 1 /\ q .. r \subseteq ToSet(main) \cup {r}
    BY <1>3, <2>1 DEF Complete, Numbered
  <2>3. CASE q = r
    BY <1>3, <2>3
  <2>4. CASE q \in Numbered(main)
    <3>1. q < r /\ q .. r - 1 \subseteq ToSet(main) /\ q \in Nat
      BY <1>7, <2>2, <2>4 DEF Complete
    <3>2. \A x \in q .. r : x \in q .. r - 1 \/ x = r
      BY <1>3, <3>1
    <3> QED BY <1>3, <3>1, <3>2
  <2> QED BY <2>3, <2>4
<1>10. InOrder(main') /\ Complete(main', r + 1)
  <2>1. r + 1 \in Nat
    BY <1>3
  <2> QED BY <1>1, <1>2, <1>3, <1>7, <1>8, <1>9, <2>1, NewestKeeps
<1>11. MainInv'
  BY <1>4, <1>10 DEF MainInv
<1> QED BY <1>6, <1>11

\* The record goes into the pipe of one slot.
LEMMA SlotStream ==
  ASSUME TypeOK, IInv, StreamInv, NEW i \in Injector, InjectSlot(i), InjectTypes', OneInjector'
  PROVE  MainInv' /\ ServedInv'
<1> DEFINE r == record[i]
<1>1. /\ r # 0 /\ at[i] \in 1 .. NR /\ Put({slot[at[i]]} \ {NoOne}, r)
      /\ at' = [at EXCEPT ![i] = at[i] + 1]
      /\ at[i] = NR => mutex' = NoOne
      /\ at[i] # NR => mutex' = mutex
      /\ UNCHANGED <<main, slot, cpc, got, due, next>>
  BY DEF InjectSlot, Slot
<1>2. PipeTypes /\ InjectTypes /\ ClientTypes /\ Slot = 1 .. NR /\ NR \in Nat \ {0}
  BY Parts, NRAssumption DEF Slot
<1>3. /\ next \in Nat /\ at'[i] = at[i] + 1 /\ mutex = i /\ r = next - 1 /\ r \in Ids
      /\ r \in Nat /\ next = r + 1 /\ mutex' \in {i, NoOne}
  BY <1>1, <1>2, BoundAssumption, NumbersAreNat DEF InjectTypes, StreamInv, OneInjector
<1> HIDE DEF r
<1>4. ASSUME NEW k \in 0 .. NR PROVE Reached(k)' = IF k = at[i] THEN r + 1 ELSE Reached(k)
  <2>1. Reached(k) = IF at[i] <= k THEN next - 1 ELSE next
    BY <1>2, <1>3, ReachedValue DEF StreamInv
  <2>2. CASE at[i] = NR
    <3>1. Reached(k)' = next'
      BY <1>1, <2>2, ReachedNext, InjectorAssumption
    <3> QED BY <1>1, <1>2, <1>3, <2>1, <2>2, <3>1
  <2>3. CASE at[i] # NR
    <3>1. Reached(k)' = IF at[i] + 1 <= k THEN next' - 1 ELSE next'
      BY <1>1, <1>3, <2>3, ReachedNext
    <3> QED BY <1>1, <1>2, <1>3, <2>1, <3>1
  <2> QED BY <2>2, <2>3
<1>5. MainInv'
  <2>1. Reached(0)' = Reached(0)
    BY <1>1, <1>2, <1>4
  <2> QED BY <1>1, <2>1 DEF StreamInv, MainInv
<1>6. ASSUME NEW k \in Slot, NEW c \in Client, slot[k] = c, cpc[c] = "serving"
      PROVE  StreamOK(cpipe'[c], got[c], due[c], missed'[c], Reached(k)')
  <2>1. StreamOK(cpipe[c], got[c], due[c], missed[c], Reached(k)) /\ c # NoOne
    BY <1>6, ClientAssumption DEF StreamInv, ServedInv, ClientOK
  <2>2. k \in 0 .. NR
    BY <1>2
  <2>3. CASE k = at[i]
    <3>1. Reached(k) = r /\ Reached(k)' = r + 1
      <4>1. Reached(k) = next - 1
        BY <1>2, <1>3, <2>2, <2>3, ReachedValue DEF StreamInv
      <4> QED BY <1>3, <1>4, <2>2, <2>3, <4>1
    <3>2. /\ cpipe'[c] = Newest(Append(cpipe[c], r))
          /\ missed'[c] = IF Len(cpipe[c]) = Capacity THEN missed[c] \cup {cpipe[c][1]}
                                                      ELSE missed[c]
      BY <1>1, <1>6, <2>1, <2>3 DEF Put
    <3>3. Pipe(cpipe[c]) /\ got[c] \in SUBSET Ids /\ due[c] \subseteq 1 .. MaxRecord
      BY <1>2 DEF PipeTypes, ClientTypes
    <3>4. StreamOK(cpipe[c], got[c], due[c], missed[c], r)
      BY <2>1, <3>1
    <3>5. StreamOK(cpipe'[c], got[c], due[c], missed'[c], r + 1)
      BY <1>1, <1>3, <3>2, <3>3, <3>4, PutOK
    <3> QED BY <3>1, <3>5
  <2>4. CASE k # at[i]
    <3>1. slot[at[i]] # c
      BY <1>1, <1>2, <1>6, <2>1, <2>4 DEF IInv, TableOK, SlotsMatchClients
    <3>2. cpipe'[c] = cpipe[c] /\ missed'[c] = missed[c]
      BY <1>1, <3>1 DEF Put
    <3> QED BY <1>4, <2>1, <2>2, <2>4, <3>2
  <2> QED BY <2>3, <2>4
<1>7. ServedInv'
  <2>1. \A k \in Slot : slot[k] \in Client \cup {NoOne}
    BY DEF IInv, TableOK
  <2>2. \A k \in Slot : slot'[k] # NoOne /\ cpc'[slot'[k]] = "serving" =>
          StreamOK(cpipe'[slot'[k]], got'[slot'[k]], due'[slot'[k]], missed'[slot'[k]], Reached(k)')
    BY <1>1, <1>6, <2>1
  <2>3. \A c \in Client : cpc'[c] = "new" => got'[c] = {}
    BY <1>1 DEF StreamInv, ServedInv
  <2> QED BY <2>2, <2>3 DEF ServedInv, ClientOK
<1> QED BY <1>5, <1>7

\* A client takes a slot, and the main pipe as it is when nobody injects.
LEMMA TakeSlotStream ==
  ASSUME TypeOK, IInv, StreamInv, NEW c \in Client, TakeSlot(c)
  PROVE  MainInv' /\ ServedInv'
<1>1. /\ cpc[c] = "new" /\ mutex = NoOne
      /\ cpipe' = [cpipe EXCEPT ![c] = main]
      /\ due' = [due EXCEPT ![c] = From(Numbered(main) \cup {next})]
      /\ cpc' = [cpc EXCEPT ![c] = "serving"]
      /\ UNCHANGED <<main, record, at, next, got, missed>>
  BY DEF TakeSlot
<1>2. PICK k \in Slot : slot[k] = NoOne /\ slot' = [slot EXCEPT ![k] = c]
  BY DEF TakeSlot
<1>3. PipeTypes /\ TableTypes /\ InjectTypes /\ ClientTypes
  BY Parts
<1>4. ASSUME NEW j \in 0 .. NR PROVE Reached(j) = next
  BY <1>1, <1>3, ReachedValue, InjectorAssumption DEF StreamInv
<1>5. Slot \subseteq 0 .. NR /\ 0 \in 0 .. NR
  BY NRAssumption DEF Slot
<1>6. StreamOK(main, {}, From(Numbered(main) \cup {next}), missed[c], next)
  <2>1. InOrder(main) /\ Complete(main, next) /\ main \in Seq(Ids) /\ next \in 1 .. MaxRecord + 1
    BY <1>3, <1>4, <1>5 DEF StreamInv, MainInv, PipeTypes, Pipe, InjectTypes
  <2> QED BY <2>1, CloneOK
<1>7. /\ got'[c] = {} /\ cpipe'[c] = main /\ missed'[c] = missed[c]
      /\ due'[c] = From(Numbered(main) \cup {next}) /\ cpc'[c] = "serving"
  <2>1. got[c] = {}
    BY <1>1 DEF StreamInv, ServedInv
  <2> QED BY <1>1, <1>3, <2>1 DEF PipeTypes, TableTypes, ClientTypes
<1>8. \A j \in Slot : slot'[j] = c /\ cpc'[c] = "serving" =>
        StreamOK(cpipe'[c], got'[c], due'[c], missed'[c], Reached(j))
  BY <1>4, <1>5, <1>6, <1>7
<1>9. \A d \in Client \ {c} :
        /\ cpipe'[d] = cpipe[d] /\ got'[d] = got[d] /\ due'[d] = due[d]
        /\ missed'[d] = missed[d] /\ cpc'[d] = cpc[d]
  BY <1>1
<1>10. /\ slot' \in [Slot -> Client \cup {NoOne}]
       /\ \A j \in Slot : slot'[j] # c /\ slot'[j] # NoOne => slot[j] = slot'[j]
  BY <1>2, <1>3 DEF TableTypes
<1> QED BY <1>1, <1>7, <1>8, <1>9, <1>10, OneClient DEF StreamInv

\* A client that comes, is sent something or not, leaves and goes.
LEMMA ClientStream ==
  ASSUME TypeOK, IInv, StreamInv, NEW c \in Client, Accept(c) \/ ServiceStart(c) \/ Serve(c)
  PROVE  MainInv' /\ ServedInv'
<1>0. /\ PipeTypes /\ InjectTypes /\ ClientTypes
      /\ slot \in [Slot -> Client \cup {NoOne}] /\ cpc \in [Client -> Places]
      /\ cpc[c] \in {"off", "new"} => \A k \in Slot : slot[k] # c
  BY Parts DEF TableTypes, IInv, TableOK, SlotsMatchClients, Linked
<1>1. CASE TakeSlot(c)
  BY <1>1, TakeSlotStream
\* Steps after which the client is not served.
<1>2. ASSUME UNCHANGED <<main, record, at, next>>, cpc'[c] # "serving",
             cpc'[c] = "new" => got'[c] = {},
             \A d \in Client \ {c} :
               /\ cpipe'[d] = cpipe[d] /\ got'[d] = got[d] /\ due'[d] = due[d]
               /\ missed'[d] = missed[d] /\ cpc'[d] = cpc[d],
             \/ slot' = slot
             \/ slot' = [k \in Slot |-> IF slot[k] = c THEN NoOne ELSE slot[k]]
      PROVE  MainInv' /\ ServedInv'
  <2>1. /\ slot' \in [Slot -> Client \cup {NoOne}]
        /\ \A k \in Slot : slot'[k] # c /\ slot'[k] # NoOne => slot[k] = slot'[k]
    BY <1>0, <1>2
  <2> QED BY <1>2, <2>1, OneClient DEF StreamInv
<1>3. CASE Accept(c) \/ ServiceStart(c)
  <2>1. /\ UNCHANGED <<main, slot, record, at, next, due>> /\ Connecting(c)
    BY <1>3 DEF Accept, ServiceStart
  <2>2. cpc'[c] = "new" /\ got'[c] = {}
    BY <1>0, <2>1 DEF Connecting, ClientTypes
  <2>3. \A d \in Client \ {c} :
          /\ cpipe'[d] = cpipe[d] /\ got'[d] = got[d] /\ due'[d] = due[d]
          /\ missed'[d] = missed[d] /\ cpc'[d] = cpc[d]
    BY <2>1 DEF Connecting
  <2> QED BY <1>2, <2>1, <2>2, <2>3
<1>4. CASE TooManyClients(c) \/ Free(c)
  <2>1. UNCHANGED <<main, slot, record, at, next, due, got, missed>> /\ Release(c)
    BY <1>4 DEF TooManyClients, Free
  <2>2. cpc'[c] = "off" /\ \A d \in Client \ {c} : cpipe'[d] = cpipe[d] /\ cpc'[d] = cpc[d]
    BY <1>0, <2>1 DEF Release
  <2> QED BY <1>2, <2>1, <2>2
<1>5. CASE Leave(c) \/ Unlink(c)
  <2>1. /\ UNCHANGED <<main, record, at, next, cpipe, due, got, missed>>
        /\ cpc'[c] \in {"leaving", "unlinked", "off"} /\ \A d \in Client \ {c} : cpc'[d] = cpc[d]
    BY <1>0, <1>5 DEF Leave, Unlink
  <2>2. \/ slot' = slot
        \/ slot' = [k \in Slot |-> IF slot[k] = c THEN NoOne ELSE slot[k]]
    BY <1>5 DEF Leave, Unlink
  <2> QED BY <1>2, <2>1, <2>2
<1>6. CASE Send(c) \/ SendFails(c)
  <2>1. /\ UNCHANGED <<main, record, at, next, due, slot>> /\ cpc[c] = "serving"
        /\ cpipe' = [cpipe EXCEPT ![c] = Rest(c)]
    BY <1>6 DEF Send, SendFails
  <2>2. \/ got' = [got EXCEPT ![c] = got[c] \cup Numbered(Taken(c))] /\ missed' = missed
        \/ got' = got /\ missed' = [missed EXCEPT ![c] = missed[c] \cup ToSet(Taken(c))]
    BY <1>6 DEF Send, SendFails
  <2>3. cpc'[c] # "new" /\ \A d \in Client \ {c} : cpc'[d] = cpc[d]
    BY <1>0, <1>6, <2>1 DEF Send, SendFails
  <2>4. \A d \in Client \ {c} :
          /\ cpipe'[d] = cpipe[d] /\ got'[d] = got[d] /\ due'[d] = due[d] /\ missed'[d] = missed[d]
    <3> SUFFICES ASSUME NEW d \in Client \ {c}
                 PROVE  /\ cpipe'[d] = cpipe[d] /\ got'[d] = got[d] /\ due'[d] = due[d]
                        /\ missed'[d] = missed[d]
      OBVIOUS
    <3>1. cpipe'[d] = cpipe[d] /\ due'[d] = due[d]
      BY <1>0, <2>1 DEF PipeTypes
    <3>2. got'[d] = got[d]
      BY <1>0, <2>2 DEF ClientTypes
    <3>3. missed'[d] = missed[d]
      BY <1>0, <2>2 DEF PipeTypes
    <3> QED BY <3>1, <3>2, <3>3
  <2>5. ASSUME NEW k \in Slot, slot'[k] = c
        PROVE  StreamOK(cpipe'[c], got'[c], due'[c], missed'[c], Reached(k))
    <3>1. StreamOK(cpipe[c], got[c], due[c], missed[c], Reached(k))
      BY <2>1, <2>5, ClientAssumption DEF StreamInv, ServedInv, ClientOK
    <3>2. /\ Pipe(cpipe[c]) /\ got[c] \in SUBSET Ids /\ due[c] \subseteq 1 .. MaxRecord
          /\ Reached(k) \in Nat
      <4>1. k \in 0 .. NR
        BY NRAssumption DEF Slot
      <4> QED BY <1>0, <4>1, ReachedValue DEF PipeTypes, ClientTypes, StreamInv
    <3>3. /\ StreamOK(Rest(c), got[c] \cup Numbered(Taken(c)), due[c], missed[c], Reached(k))
          /\ StreamOK(Rest(c), got[c], due[c], missed[c] \cup ToSet(Taken(c)), Reached(k))
      BY <3>1, <3>2, SendOK
    <3>4. cpipe'[c] = Rest(c) /\ due'[c] = due[c]
      BY <1>0, <2>1 DEF PipeTypes
    <3>5. \/ got'[c] = got[c] \cup Numbered(Taken(c)) /\ missed'[c] = missed[c]
          \/ got'[c] = got[c] /\ missed'[c] = missed[c] \cup ToSet(Taken(c))
      BY <1>0, <2>2 DEF PipeTypes, ClientTypes
    <3> QED BY <3>3, <3>4, <3>5
  <2>6. /\ slot' \in [Slot -> Client \cup {NoOne}]
        /\ \A k \in Slot : slot'[k] # c /\ slot'[k] # NoOne => slot[k] = slot'[k]
    BY <1>0, <2>1
  <2> QED BY <2>1, <2>3, <2>4, <2>5, <2>6, OneClient DEF StreamInv
<1> QED BY <1>1, <1>3, <1>4, <1>5, <1>6 DEF Serve

\* A turn of log_logcat_clear: a notice goes into every pipe, and the older part
\* of the main pipe is gone.
LEMMA TurnStream ==
  ASSUME TypeOK, IInv, StreamInv, ClearTurn
  PROVE  MainInv' /\ ServedInv'
<1> DEFINE n == IF Chunk < Len(main) THEN Chunk ELSE Len(main)
           m == Newer(main, n)
<1>1. /\ main' = Newest(Append(m, Notice)) /\ Put({c \in Client : Linked(c)}, Notice)
      /\ UNCHANGED <<slot, at, record, next, cpc, got, due>>
  BY DEF ClearTurn, Newer
<1>2. PipeTypes /\ InjectTypes /\ ClientTypes
  BY Parts
<1>3. Pipe(main) /\ main \in Seq(Ids) /\ n \in 0 .. Len(main) /\ n \in Nat
  BY <1>2, SizeAssumption DEF PipeTypes, Pipe
<1> HIDE DEF n
<1>4. Pipe(m) /\ m \in Seq(Ids)
  BY <1>3, SuffixIsPipe DEF Newer, Pipe
<1>5. \A k : Reached(k)' = Reached(k)
  BY <1>1 DEF Reached
<1>6. \A k \in 0 .. NR : Reached(k) \in Nat
  BY <1>2, ReachedValue DEF StreamInv
<1>7. 0 \in 0 .. NR /\ Slot \subseteq 0 .. NR
  BY NRAssumption DEF Slot
<1>8. Notice \in Ids
  BY BoundAssumption DEF Ids, Notice
<1>9. InOrder(m) /\ Complete(m, Reached(0))
  BY <1>3, <1>6, <1>7, SplitInOrder, SuffixComplete DEF StreamInv, MainInv
<1> HIDE DEF m
<1>10. Complete(Append(m, Notice), Reached(0))
  <2>1. ToSet(Append(m, Notice)) = ToSet(m) \cup {Notice}
    BY <1>4, <1>8, AppendInOrder
  <2>2. Numbered(Append(m, Notice)) = Numbered(m)
    BY <2>1 DEF Numbered
  <2> QED BY <1>9, <2>1, <2>2 DEF Complete
<1>11. InOrder(main') /\ Complete(main', Reached(0))
  BY <1>1, <1>4, <1>6, <1>7, <1>8, <1>9, <1>10, NewestKeeps
<1>12. MainInv'
  BY <1>5, <1>11 DEF MainInv
<1>13. ASSUME NEW k \in Slot, NEW c \in Client, slot[k] = c, cpc[c] = "serving"
       PROVE  StreamOK(cpipe'[c], got[c], due[c], missed'[c], Reached(k))
  <2>1. StreamOK(cpipe[c], got[c], due[c], missed[c], Reached(k)) /\ Reached(k) \in Nat
    BY <1>6, <1>7, <1>13, ClientAssumption DEF StreamInv, ServedInv, ClientOK
  <2>2. Linked(c)
    BY <1>13 DEF Linked
  <2>3. /\ cpipe'[c] = Newest(Append(cpipe[c], Notice))
        /\ missed'[c] = IF Len(cpipe[c]) = Capacity THEN missed[c] \cup {cpipe[c][1]}
                                                    ELSE missed[c]
    BY <1>1, <2>2 DEF Put
  <2>4. Pipe(cpipe[c]) /\ got[c] \in SUBSET Ids /\ due[c] \subseteq 1 .. MaxRecord
    BY <1>2 DEF PipeTypes, ClientTypes
  <2>5. PICK x \in Nat : x = Reached(k)
    BY <2>1
  <2>6. StreamOK(cpipe[c], got[c], due[c], missed[c], x)
    BY <2>1, <2>5
  <2>7. StreamOK(cpipe'[c], got[c], due[c], missed'[c], x)
    BY <2>3, <2>4, <2>6, NoticeOK
  <2> QED BY <2>5, <2>7
<1>14. ServedInv'
  <2>1. \A k \in Slot : slot[k] \in Client \cup {NoOne}
    BY DEF IInv, TableOK
  <2>2. \A k \in Slot : slot'[k] # NoOne /\ cpc'[slot'[k]] = "serving" =>
          StreamOK(cpipe'[slot'[k]], got'[slot'[k]], due'[slot'[k]], missed'[slot'[k]], Reached(k)')
    BY <1>1, <1>5, <1>13, <2>1
  <2>3. \A c \in Client : cpc'[c] = "new" => got'[c] = {}
    BY <1>1 DEF StreamInv, ServedInv
  <2> QED BY <2>2, <2>3 DEF ServedInv, ClientOK
<1> QED BY <1>12, <1>14

LEMMA WhoRuns == TypeOK => InjectTypes
BY Parts

\* Every step keeps what the pipes have.
LEMMA StreamNext ==
  ASSUME ~MayEnd
  PROVE  TypeOK /\ TypeOK' /\ IInv /\ StreamInv /\ [Next]_vars => StreamInv'
<1> SUFFICES ASSUME TypeOK, TypeOK', IInv, StreamInv, [Next]_vars PROVE StreamInv'
  OBVIOUS
<1>1. InjectTypes /\ InjectTypes'
  <2>1. (TypeOK => InjectTypes)'
    BY WhoRuns, PTL
  <2> QED BY <2>1, Parts
<1>2. OneInjector'
  BY <1>1, OneInjectorNext DEF StreamInv
<1>3. ASSUME NEW i \in Injector, Inject(i) PROVE MainInv' /\ ServedInv'
  BY <1>1, <1>2, <1>3, LockStream, MainStream, SlotStream DEF Inject
<1>4. ASSUME NEW c \in Client, Accept(c) \/ Serve(c) \/ ServiceStart(c)
      PROVE  MainInv' /\ ServedInv'
  BY <1>4, ClientStream
<1>5. CASE ServiceStop \/ SetExit \/ ClearCall \/ ClearLock
  <2>1. UNCHANGED <<main, slot, cpipe, cpc, got, due, missed, record, at, next>>
    BY <1>5 DEF ServiceStop, SetExit, ClearCall, ClearLock, client
  <2>2. MainInv' /\ ServedInv'
    BY <2>1, StreamsUnchanged DEF StreamInv
  <2> QED BY <1>2, <2>2 DEF StreamInv
<1>6. CASE UNCHANGED vars
  <2>1. UNCHANGED <<main, slot, cpipe, cpc, got, due, missed, record, at, next>>
    BY <1>6 DEF vars, client
  <2>2. MainInv' /\ ServedInv'
    BY <2>1, StreamsUnchanged DEF StreamInv
  <2> QED BY <1>2, <2>2 DEF StreamInv
<1>7. CASE ClearTurn
  <2>1. MainInv' /\ ServedInv'
    BY <1>7, TurnStream
  <2> QED BY <1>2, <2>1 DEF StreamInv
<1>8. ~ServiceEnd
  BY DEF ServiceEnd
<1>9. ASSUME MainInv', ServedInv' PROVE StreamInv'
  BY <1>2, <1>9 DEF StreamInv
<1> QED BY <1>3, <1>4, <1>5, <1>6, <1>7, <1>8, <1>9 DEF Next, Clear

\* The invariant of the streams holds in every reachable state.
LEMMA StreamInductive ==
  ASSUME ~MayEnd
  PROVE  Spec => []StreamInv
<1>1. Init => StreamInv
  <2> SUFFICES ASSUME Init PROVE StreamInv
    OBVIOUS
  <2>1. OneInjector
    BY InjectorAssumption DEF Init, OneInjector
  <2>2. ToSet(main) = {} /\ DOMAIN main = {}
    BY DEF Init, ToSet
  <2>3. MainInv
    BY <2>2 DEF MainInv, InOrder, Complete, Numbered
  <2>4. ServedInv
    BY DEF Init, ServedInv
  <2> QED BY <2>1, <2>3, <2>4 DEF StreamInv
<1>2. TypeOK /\ TypeOK' /\ IInv /\ StreamInv /\ [Next]_vars => StreamInv'
  BY StreamNext
<1>3. Spec => []IInv
  BY Inductive
<1> QED BY <1>1, <1>2, <1>3, TypeCorrect, PTL DEF Spec

\* A client that is served has a slot, and its pipe is as that slot's should be.
LEMMA ServedHasSlot ==
  ASSUME IInv, StreamInv, NEW c \in Client, cpc[c] = "serving"
  PROVE  \E k \in Slot : StreamOK(cpipe[c], got[c], due[c], missed[c], Reached(k))
<1>1. PICK k \in Slot : slot[k] = c
  BY DEF IInv, TableOK, SlotsMatchClients, Linked
<1>2. c # NoOne
  BY ClientAssumption
<1> QED BY <1>1, <1>2 DEF StreamInv, ServedInv, ClientOK

\* What a client was sent and what waits in its pipe are in the order logged,
\* nothing twice (log_service.c:108-109 against 193-198).
THEOREM OrderCorrect ==
  ASSUME ~MayEnd
  PROVE  Spec => []ClientInOrder
<1>1. IInv /\ StreamInv => ClientInOrder
  BY ServedHasSlot DEF ClientInOrder, StreamOK
<1>2. Spec => []IInv
  BY Inductive
<1>3. Spec => []StreamInv
  BY StreamInductive
<1> QED BY <1>1, <1>2, <1>3, PTL

\* From the oldest record of its clone on, a client misses none but those its
\* own pipe overwrote or its own socket refused (log_service.c:193-205).
THEOREM NothingMissed ==
  ASSUME ~MayEnd
  PROVE  Spec => []ClientMissesNothing
<1>1. TypeOK /\ IInv /\ StreamInv => ClientMissesNothing
  <2> SUFFICES ASSUME TypeOK, IInv, StreamInv, NEW c \in Client, cpc[c] = "serving",
                      mutex = NoOne
               PROVE  due[c] \cap (1 .. next - 1) \subseteq got[c] \cup ToSet(cpipe[c]) \cup missed[c]
    BY DEF ClientMissesNothing
  <2>1. PICK k \in Slot : StreamOK(cpipe[c], got[c], due[c], missed[c], Reached(k))
    BY ServedHasSlot
  <2>2. InjectTypes /\ k \in 0 .. NR
    BY Parts, NRAssumption DEF Slot
  <2>3. Reached(k) = next
    BY <2>2, ReachedValue, InjectorAssumption DEF StreamInv
  <2>4. next \in Nat
    BY <2>2, BoundAssumption DEF InjectTypes
  <2>5. \A r \in 1 .. next - 1 : r < next
    BY <2>4
  <2> QED BY <2>1, <2>3, <2>5 DEF StreamOK
<1>2. Spec => []IInv
  BY Inductive
<1>3. Spec => []StreamInv
  BY StreamInductive
<1> QED BY <1>1, <1>2, <1>3, TypeCorrect, PTL
=============================================================================
