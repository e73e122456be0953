---------------------------- MODULE LogcatService ----------------------------
(***************************************************************************)
(* The logcat service of src/linux-coding-c/log/src/log_service.c: every   *)
(* record goes, under logcat_service_mutex, into the main pipe and into    *)
(* the pipe of every connected client.  A client gets a slot and a clone   *)
(* of the main pipe, is served by a thread of its own, and gives the slot  *)
(* back.  The thread that forwards to the logall service is a client too.  *)
(*                                                                         *)
(* The pipes are used through what PipeStream promises.  A record is       *)
(* written to a pipe as a prefix and a text, both under the mutex, and is  *)
(* one element here.                                                       *)
(***************************************************************************)
EXTENDS Integers, SequencesExt

CONSTANTS
  Injector,      \* the threads that log
  Client,        \* connections of logcat clients, and the forwarders
  Forwarder,     \* those that are server_logcat_to_logall threads
  NR,            \* LOGCAT_CLIENTS_NR, the slots
  Capacity,      \* the records a pipe holds
  Chunk,         \* the records one read of a client returns at most
  MaxRecord,     \* bound: records logged
  MaxConnect,    \* bound: connections, forwarders included
  MaxClear,      \* bound: calls of log_logcat_clear
  MayEnd         \* TRUE: the service thread may end, because it cannot
                 \* listen again or accept fails after the exit flag

ASSUME NRAssumption == NR \in Nat \ {0}
ASSUME SizeAssumption == Capacity \in Nat \ {0} /\ Chunk \in Nat \ {0}
ASSUME BoundAssumption == {MaxRecord, MaxConnect, MaxClear} \subseteq Nat
ASSUME ForwarderAssumption == Forwarder \subseteq Client /\ MayEnd \in BOOLEAN

VARIABLES
  main,          \* the records in logcat_pipe, oldest first
  slot,          \* logcat_clients_pipe: whose pipe is in each slot, or NoOne
  cpipe,         \* the records in each client's pipe
  alive,         \* the client's pipe is allocated
  mutex,         \* who holds logcat_service_mutex, or NoOne
  at,            \* the next pipe each injector has to write: 0 is main
  record,        \* the record each injector is injecting, or 0
  next,          \* the number of the next record
  cpc,           \* where the thread of each client is
  got,           \* the records each client was sent on this connection
  due,           \* those it is to get: from the oldest of its clone on
  missed,        \* those it does not get: overwritten, or not sent
  connects,      \* how many connections there were
  svc,           \* the service thread: "down", "up", "ended"
  exit_flag,     \* log_get_exit_flag
  clearing,      \* log_logcat_clear: "no", "lock", "loop"
  clears         \* how many calls of it there were

client == <<cpc, got, due, missed, connects>>
clear == <<clearing, clears>>
vars == <<main, slot, cpipe, alive, mutex, at, record, next, client, svc, exit_flag, clear>>

NoOne == "none"
Clearer == "clearer"           \* the thread inside log_logcat_clear
ASSUME ClientAssumption == NoOne \notin Client
ASSUME InjectorAssumption == NoOne \notin Injector /\ Clearer \notin Injector
Notice == 0                    \* what log_logcat_clear logs itself
Slot == 1 .. NR

Newest(s) == IF Len(s) > Capacity THEN SubSeq(s, Len(s) - Capacity + 1, Len(s)) ELSE s
Numbered(s) == ToSet(s) \ {Notice}
From(S) == UNION {r .. MaxRecord : r \in S}
Linked(c) == \E k \in Slot : slot[k] = c

Init == /\ main = <<>>
        /\ slot = [k \in Slot |-> NoOne]
        /\ cpipe = [c \in Client |-> <<>>]
        /\ alive = [c \in Client |-> FALSE]
        /\ mutex = NoOne
        /\ at = [i \in Injector |-> 0] /\ record = [i \in Injector |-> 0]
        /\ next = 1
        /\ cpc = [c \in Client |-> "off"]
        /\ got = [c \in Client |-> {}]
        /\ due = [c \in Client |-> {}] /\ missed = [c \in Client |-> {}]
        /\ connects = 0
        /\ svc = "down" /\ exit_flag = FALSE
        /\ clearing = "no" /\ clears = 0
-----------------------------------------------------------------------------
\* inject_to_logcat_pipes: the mutex, the main pipe, then slot after slot.
InjectLock(i) ==
  /\ record[i] = 0 /\ mutex = NoOne /\ next <= MaxRecord
  /\ mutex' = i
  /\ record' = [record EXCEPT ![i] = next]
  /\ next' = next + 1
  /\ at' = [at EXCEPT ![i] = 0]
  /\ UNCHANGED <<main, slot, cpipe, alive, client, svc, exit_flag, clear>>

InjectMain(i) ==
  /\ record[i] # 0 /\ at[i] = 0
  /\ main' = Newest(Append(main, record[i]))
  /\ at' = [at EXCEPT ![i] = 1]
  /\ UNCHANGED <<slot, cpipe, alive, mutex, record, next, client, svc, exit_flag, clear>>

\* Record r goes into the pipes of the clients in cs.
Put(cs, r) ==
  /\ cpipe' = [c \in Client |-> IF c \in cs THEN Newest(Append(cpipe[c], r)) ELSE cpipe[c]]
  /\ missed' = [c \in Client |-> IF c \in cs /\ Len(cpipe[c]) = Capacity
                                 THEN missed[c] \cup {cpipe[c][1]} ELSE missed[c]]

InjectStopAtGap(i) ==                                           \* mutant
  /\ record[i] # 0 /\ at[i] \in Slot
  /\ Put({slot[at[i]]} \ {NoOne}, record[i])
  /\ at' = [at EXCEPT ![i] = @ + 1]
  /\ IF at[i] = NR \/ slot[at[i]] = NoOne
       THEN mutex' = NoOne /\ record' = [record EXCEPT ![i] = 0]
       ELSE UNCHANGED <<mutex, record>>
  /\ UNCHANGED <<main, slot, alive, next, cpc, got, due, connects, svc, exit_flag, clear>>
InjectKeepsMutex(i) ==                                          \* mutant
  /\ record[i] # 0 /\ at[i] \in Slot
  /\ Put({slot[at[i]]} \ {NoOne}, record[i])
  /\ at' = [at EXCEPT ![i] = @ + 1]
  /\ record' = IF at[i] = NR THEN [record EXCEPT ![i] = 0] ELSE record
  /\ UNCHANGED <<main, slot, mutex, alive, next, cpc, got, due, connects, svc, exit_flag, clear>>
InjectSlot(i) ==
  /\ record[i] # 0 /\ at[i] \in Slot
  /\ Put({slot[at[i]]} \ {NoOne}, record[i])
  /\ at' = [at EXCEPT ![i] = @ + 1]
  /\ IF at[i] = NR
       THEN mutex' = NoOne /\ record' = [record EXCEPT ![i] = 0]
       ELSE UNCHANGED <<mutex, record>>
  /\ UNCHANGED <<main, slot, alive, next, cpc, got, due, connects, svc, exit_flag, clear>>

Inject(i) == InjectLock(i) \/ InjectMain(i) \/ InjectSlot(i)
-----------------------------------------------------------------------------
\* logcat_clients_get_new_pipe: a pipe of the client's own; no memory for it
\* is a connection that ends at once.
Connecting(c) ==
  /\ cpc[c] = "off" /\ connects < MaxConnect
  /\ connects' = connects + 1
  /\ cpc' = [cpc EXCEPT ![c] = "new"]
  /\ alive' = [alive EXCEPT ![c] = TRUE]
  /\ cpipe' = [cpipe EXCEPT ![c] = <<>>]
  /\ got' = [got EXCEPT ![c] = {}]
  /\ missed' = [missed EXCEPT ![c] = {}]

Accept(c) ==
  /\ svc = "up" /\ c \notin Forwarder
  /\ Connecting(c)
  /\ UNCHANGED <<main, slot, mutex, at, record, next, due, svc, exit_flag, clear>>

\* The end of a client thread: the pipe is closed and freed.
Release(c) ==
  /\ cpc' = [cpc EXCEPT ![c] = "off"]
  /\ alive' = [alive EXCEPT ![c] = FALSE]
  /\ cpipe' = [cpipe EXCEPT ![c] = <<>>]

\* The first free slot and the clone of the main pipe, under the mutex.
TakeSlotUnlocked(c) ==                                          \* mutant
  /\ cpc[c] = "new"
  /\ \E k \in Slot : slot[k] = NoOne
  /\ slot' = [slot EXCEPT ![CHOOSE k \in Slot : slot[k] = NoOne] = c]
  /\ cpipe' = [cpipe EXCEPT ![c] = main]
  /\ due' = [due EXCEPT ![c] = From(Numbered(main) \cup {next})]
  /\ cpc' = [cpc EXCEPT ![c] = "serving"]
  /\ UNCHANGED <<main, alive, mutex, at, record, next, got, missed, connects, svc, exit_flag, clear>>
TakeSlot(c) ==
  /\ cpc[c] = "new" /\ mutex = NoOne
  /\ \E k \in Slot :
       /\ slot[k] = NoOne /\ \A j \in 1 .. k - 1 : slot[j] # NoOne
       /\ slot' = [slot EXCEPT ![k] = c]
  /\ cpipe' = [cpipe EXCEPT ![c] = main]
  /\ due' = [due EXCEPT ![c] = From(Numbered(main) \cup {next})]
  /\ cpc' = [cpc EXCEPT ![c] = "serving"]
  /\ UNCHANGED <<main, alive, mutex, at, record, next, got, missed, connects, svc, exit_flag, clear>>

TooManyClients(c) ==
  /\ cpc[c] = "new" /\ mutex = NoOne
  /\ \A k \in Slot : slot[k] # NoOne
  /\ Release(c)
  /\ UNCHANGED <<main, slot, mutex, at, record, next, got, due, missed,
                 connects, svc, exit_flag, clear>>

\* serve_logcat_client and server_logcat_to_logall: read a chunk, send it.
TakenWholeChunks(c) ==                                          \* mutant
  SubSeq(cpipe[c], 1, IF Chunk < Len(cpipe[c]) THEN Chunk ELSE 0)
Taken(c) == SubSeq(cpipe[c], 1, IF Chunk < Len(cpipe[c]) THEN Chunk ELSE Len(cpipe[c]))
Rest(c) == SubSeq(cpipe[c], Len(Taken(c)) + 1, Len(cpipe[c]))

Send(c) ==
  /\ cpc[c] = "serving" /\ alive[c] /\ cpipe[c] # <<>>
  /\ cpipe' = [cpipe EXCEPT ![c] = Rest(c)]
  /\ got' = [got EXCEPT ![c] = @ \cup Numbered(Taken(c))]
  /\ UNCHANGED <<main, slot, alive, mutex, at, record, next, cpc, due, missed,
                 connects, svc, exit_flag, clear>>

\* A failed send loses the chunk; a client's thread ends, a forwarder goes on.
SendFails(c) ==
  /\ cpc[c] = "serving" /\ alive[c] /\ cpipe[c] # <<>>
  /\ cpipe' = [cpipe EXCEPT ![c] = Rest(c)]
  /\ missed' = [missed EXCEPT ![c] = @ \cup ToSet(Taken(c))]
  /\ cpc' = [cpc EXCEPT ![c] = IF c \in Forwarder THEN "serving" ELSE "leaving"]
  /\ UNCHANGED <<main, slot, alive, mutex, at, record, next, got, due,
                 connects, svc, exit_flag, clear>>

\* The loop tests the exit flag before every read.
Leave(c) ==
  /\ cpc[c] = "serving" /\ exit_flag
  /\ cpc' = [cpc EXCEPT ![c] = "leaving"]
  /\ UNCHANGED <<main, slot, cpipe, alive, mutex, at, record, next, got, due,
                 missed, connects, svc, exit_flag, clear>>

\* logcat_clients_free_pipe: out of the table under the mutex, then freed.  A
\* pipe that is no longer in the table is left to whoever took it out.
UnlinkUnlocked(c) ==                                            \* mutant
  /\ cpc[c] = "leaving"
  /\ Release(c)
  /\ UNCHANGED <<main, slot, mutex, at, record, next, got, due, missed,
                 connects, svc, exit_flag, clear>>
UnlinkFirst(c) ==                                               \* mutant
  /\ cpc[c] = "leaving" /\ mutex = NoOne
  /\ slot' = [slot EXCEPT ![1] = NoOne]
  /\ cpc' = [cpc EXCEPT ![c] = IF Linked(c) THEN "unlinked" ELSE "off"]
  /\ UNCHANGED <<main, cpipe, alive, mutex, at, record, next, got, due, missed,
                 connects, svc, exit_flag, clear>>
Unlink(c) ==
  /\ cpc[c] = "leaving" /\ mutex = NoOne
  /\ slot' = [k \in Slot |-> IF slot[k] = c THEN NoOne ELSE slot[k]]
  /\ cpc' = [cpc EXCEPT ![c] = IF Linked(c) THEN "unlinked" ELSE "off"]
  /\ UNCHANGED <<main, cpipe, alive, mutex, at, record, next, got, due, missed,
                 connects, svc, exit_flag, clear>>

Free(c) ==
  /\ cpc[c] = "unlinked"
  /\ Release(c)
  /\ UNCHANGED <<main, slot, mutex, at, record, next, got, due, missed,
                 connects, svc, exit_flag, clear>>

Serve(c) == \/ TakeSlot(c) \/ TooManyClients(c)
            \/ Send(c) \/ SendFails(c) \/ Leave(c)
            \/ Unlink(c) \/ Free(c)
-----------------------------------------------------------------------------
\* do_logcat_service: each start creates a forwarder.
ServiceStart(f) ==
  /\ svc = "down" /\ ~exit_flag /\ f \in Forwarder
  /\ svc' = "up"
  /\ Connecting(f)
  /\ UNCHANGED <<main, slot, mutex, at, record, next, due, exit_flag, clear>>

\* accept failed, or there was no memory for a connection.
ServiceStop ==
  /\ svc = "up"
  /\ svc' = "down"
  /\ UNCHANGED <<main, slot, cpipe, alive, mutex, at, record, next, client, exit_flag, clear>>

\* log_set_exit_flag, by log_safely_quit.
SetExit ==
  /\ ~exit_flag
  /\ exit_flag' = TRUE
  /\ UNCHANGED <<main, slot, cpipe, alive, mutex, at, record, next, client, svc, clear>>

\* The service thread ends: logcat_clients_exit closes and frees the pipe of
\* every slot, under the mutex, whatever the client threads are doing.
ServiceEnd ==
  /\ MayEnd /\ svc = "down" /\ mutex = NoOne
  /\ svc' = "ended"
  /\ slot' = [k \in Slot |-> NoOne]
  /\ alive' = [c \in Client |-> alive[c] /\ ~Linked(c)]
  /\ cpipe' = [c \in Client |-> IF Linked(c) THEN <<>> ELSE cpipe[c]]
  /\ UNCHANGED <<main, mutex, at, record, next, client, exit_flag, clear>>
-----------------------------------------------------------------------------
\* log_logcat_clear: read the main pipe until a read returns nothing, with the
\* mutex.  Each turn logs what it read, and that record is injected, by the
\* same thread and under the same recursive mutex, into the pipe it reads.
ClearCall ==
  /\ clearing = "no" /\ clears < MaxClear
  /\ clearing' = "lock" /\ clears' = clears + 1
  /\ UNCHANGED <<main, slot, cpipe, alive, mutex, at, record, next, client, svc, exit_flag>>

ClearLock ==
  /\ clearing = "lock" /\ mutex = NoOne
  /\ mutex' = Clearer
  /\ clearing' = "loop"
  /\ UNCHANGED <<main, slot, cpipe, alive, at, record, next, client, svc, exit_flag, clears>>

ClearTurn ==
  /\ clearing = "loop"
  /\ LET n == IF Chunk < Len(main) THEN Chunk ELSE Len(main)
     IN  /\ main' = Newest(Append(SubSeq(main, n + 1, Len(main)), Notice))
         /\ clearing' = IF n = 0 THEN "no" ELSE "loop"
         /\ mutex' = IF n = 0 THEN NoOne ELSE mutex
  /\ Put({c \in Client : Linked(c)}, Notice)
  /\ UNCHANGED <<slot, alive, at, record, next, cpc, got, due, connects, svc, exit_flag, clears>>

Clear == ClearCall \/ ClearLock \/ ClearTurn

Next == \/ \E i \in Injector : Inject(i)
        \/ \E c \in Client : Accept(c) \/ Serve(c) \/ ServiceStart(c)
        \/ ServiceStop \/ ServiceEnd \/ SetExit
        \/ Clear

Spec == Init /\ [][Next]_vars

\* Every thread goes on with what it has begun, and gets the mutex if that is
\* free again and again.  A client that can be sent to is, in the end.
Fairness == /\ \A i \in Injector : WF_vars(InjectMain(i) \/ InjectSlot(i))
            /\ \A c \in Client : /\ SF_vars(TakeSlot(c) \/ TooManyClients(c))
                                 /\ WF_vars(Send(c) \/ SendFails(c) \/ Leave(c))
                                 /\ SF_vars(Unlink(c))
                                 /\ WF_vars(Free(c))
            /\ SF_vars(ClearLock) /\ WF_vars(ClearTurn)
FairSpec == Spec /\ Fairness
-----------------------------------------------------------------------------
Ids == Notice .. MaxRecord

TypeOK ==
  /\ main \in Seq(Ids) /\ Len(main) <= Capacity
  /\ slot \in [Slot -> Client \cup {NoOne}]
  /\ cpipe \in [Client -> Seq(Ids)] /\ \A c \in Client : Len(cpipe[c]) <= Capacity
  /\ alive \in [Client -> BOOLEAN]
  /\ mutex \in Injector \cup {Clearer, NoOne}
  /\ at \in [Injector -> 0 .. NR + 1] /\ record \in [Injector -> Ids]
  /\ next \in 1 .. MaxRecord + 1
  /\ cpc \in [Client -> {"off", "new", "serving", "leaving", "unlinked"}]
  /\ got \in [Client -> SUBSET Ids] /\ due \in [Client -> SUBSET (1 .. MaxRecord)]
  /\ missed \in [Client -> SUBSET Ids]
  /\ connects \in 0 .. MaxConnect /\ clears \in 0 .. MaxClear
  /\ svc \in {"down", "up", "ended"} /\ exit_flag \in BOOLEAN
  /\ clearing \in {"no", "lock", "loop"}

\* The table: a client is in at most one slot, and in one exactly while it is
\* served or has not yet left; so no slot leaks and none is shared
\* (log_service.c:104-113 and 132-141).
SlotsMatchClients ==
  svc # "ended" =>
    /\ \A j, k \in Slot : slot[j] = slot[k] /\ slot[j] # NoOne => j = k
    /\ \A c \in Client : Linked(c) <=> cpc[c] \in {"serving", "leaving"}

\* Nobody touches a pipe that is freed: not an injector that goes through the
\* table, nor the client's own thread (log_service.c:289, each client has a
\* thread that reads its pipe and sends it).
NoUseAfterFree ==
  \A c \in Client : Linked(c) \/ cpc[c] \in {"new", "serving"} => alive[c]

InOrder(s) ==
  \A i, j \in DOMAIN s : i < j /\ s[i] # Notice /\ s[j] # Notice => s[i] < s[j]

\* What a client was sent and what waits in its pipe are in the order logged,
\* nothing twice: neither the clone of the main pipe nor a record injected
\* while the client connects (log_service.c:108-109 against 193-198).
ClientInOrder ==
  \A c \in Client :
    cpc[c] = "serving" =>
      /\ InOrder(cpipe[c])
      /\ \A r \in got[c], q \in Numbered(cpipe[c]) : r < q

\* From the oldest record of the clone on, a client misses none but those that
\* its own pipe overwrote or its own socket refused.
ClientMissesNothing ==
  \A c \in Client :
    cpc[c] = "serving" /\ alive[c] /\ mutex = NoOne =>
      due[c] \cap (1 .. next - 1) \subseteq got[c] \cup ToSet(cpipe[c]) \cup missed[c]

\* A record in a client's pipe is sent or given up, or the client is gone.
Delivered ==
  \A c \in Client, r \in 1 .. MaxRecord :
    r \in ToSet(cpipe[c]) ~> r \notin ToSet(cpipe[c])

\* A client that leaves gives its slot back.
SlotGivenBack ==
  \A c \in Client : cpc[c] = "leaving" ~> ~Linked(c)

\* log_logcat_clear ends (log_service.c:229, it "reads and drops all the data
\* that is in the pipe").
ClearEnds == clearing = "lock" ~> clearing = "no"
=============================================================================
