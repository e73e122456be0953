--------------------------- MODULE ProgramsProofs ---------------------------
(***************************************************************************)
(* The programs that Programs puts side by side.                           *)
(*                                                                         *)
(* The light switch, for any delays: its types, one context while the      *)
(* light is on, and that it goes off in time and not before.               *)
(*                                                                         *)
(* The blocking queue and the command line: what SimpleQueueProofs and     *)
(* CliServerProofs prove holds of the instances here.                      *)
(*                                                                         *)
(* The allocation tracker, for any threads, addresses and number of blocks:*)
(* the lists say what is live, what was damaged and freed was reported, and*)
(* the report at the exit is exact.                                        *)
(***************************************************************************)
EXTENDS Programs, SequenceTheorems, FiniteSetTheorems, WellFoundedInduction, TLAPS

\* The mode of the light, and the time since which it is in it: the objects
\* that hold the times are static, and only the one of the current mode counts.
ModeInv ==
  current = "ON" =>
    /\ sub \in {"NORMAL", "DELAY"}
    /\ since = IF sub = "NORMAL" THEN last_activity_time ELSE delay_start_time

\* The inductive invariant.
IInv == TypeOK /\ OneContext /\ ModeInv /\ OffInTime

-----------------------------------------------------------------------------
\* The program starts with the light off and no context.
LEMMA InitIInv == Init => IInv
<1> SUFFICES ASSUME Init PROVE IInv
  OBVIOUS
<1> USE DelayAssumption, BoundAssumption DEF Init
<1>1. polled \in BOOLEAN /\ running \in BOOLEAN
  BY Zenon
<1>2. now = 0 /\ 0 \in 0 .. now /\ now \in 0 .. MaxTime
  OBVIOUS
<1>3. TypeOK
  BY <1>1, <1>2 DEF TypeOK
<1>4. OneContext /\ ModeInv /\ OffInTime
  BY DEF OneContext, ModeInv, OffInTime
<1> QED BY <1>3, <1>4 DEF IInv

\* What an event does to the light keeps the invariant, at the turn's time.
LEMMA TurnIInv == IInv /\ Turn => IInv'
<1> SUFFICES ASSUME IInv, Turn PROVE IInv'
  OBVIOUS
<1> USE DelayAssumption, BoundAssumption
        DEF IInv, TypeOK, OneContext, ModeInv, OffInTime
<1>1. PICK event \in {"TOGGLE", "IDLE"} : HandleEvent(event)
  BY DEF Turn, Event
<1>2. /\ running /\ running' /\ polled' /\ now' = now
      /\ since' = IF current' = current /\ sub' = sub THEN since ELSE now
  BY DEF Turn
<1>3. CASE current = "OFF"
  <2>1. OffEvent(event)
    BY <1>1, <1>3 DEF HandleEvent
  <2>2. CASE event = "TOGGLE"
    BY <1>2, <1>3, <2>1, <2>2 DEF OffEvent, EnterOn
  <2>3. CASE event # "TOGGLE"
    BY <1>2, <1>3, <2>1, <2>3 DEF OffEvent, Stay
  <2> QED BY <2>2, <2>3
<1>4. CASE current = "ON" /\ sub = "NORMAL"
  <2>1. NormalEvent(event)
    BY <1>1, <1>4 DEF HandleEvent
  <2>2. CASE event = "TOGGLE"
    BY <1>2, <1>4, <2>1, <2>2 DEF NormalEvent
  <2>3. CASE event # "TOGGLE" /\ now - last_activity_time > Long
    BY <1>2, <1>4, <2>1, <2>3 DEF NormalEvent, LeaveOn
  <2>4. CASE event # "TOGGLE" /\ ~(now - last_activity_time > Long)
    BY <1>2, <1>4, <2>1, <2>4 DEF NormalEvent, Stay
  <2> QED BY <2>2, <2>3, <2>4
<1>5. CASE current = "ON" /\ sub = "DELAY"
  <2>1. DelayEvent(event)
    BY <1>1, <1>5 DEF HandleEvent
  <2>2. CASE event = "TOGGLE"
    BY <1>2, <1>5, <2>1, <2>2 DEF DelayEvent
  <2>3. CASE event # "TOGGLE" /\ now - delay_start_time >= Short
    BY <1>2, <1>5, <2>1, <2>3 DEF DelayEvent, LeaveOn
  <2>4. CASE event # "TOGGLE" /\ ~(now - delay_start_time >= Short)
    BY <1>2, <1>5, <2>1, <2>4 DEF DelayEvent, Stay
  <2> QED BY <2>2, <2>3, <2>4
<1> QED BY <1>1, <1>3, <1>4, <1>5 DEF HandleEvent

\* Every step keeps it.
LEMMA NextIInv == IInv /\ [Next]_vars => IInv'
<1> SUFFICES ASSUME IInv, [Next]_vars PROVE IInv'
  OBVIOUS
<1> USE DelayAssumption, BoundAssumption
<1>1. CASE Turn
  BY <1>1, TurnIInv
<1>2. CASE Tick
  <2> USE <1>2 DEF Tick, on
  <2>1. polled' \in BOOLEAN /\ running' \in BOOLEAN
    BY Zenon DEF IInv, TypeOK
  <2>2. TypeOK'
    BY <2>1 DEF IInv, TypeOK
  <2>3. ~polled' /\ (OneContext /\ ModeInv)'
    BY DEF IInv, OneContext, ModeInv
  <2> QED BY <2>2, <2>3 DEF IInv, OffInTime
<1>3. CASE Exit
  <2> USE <1>3 DEF Exit
  <2>1. polled' \in BOOLEAN /\ running' \in BOOLEAN
    BY Zenon DEF IInv, TypeOK
  <2>2. TypeOK'
    BY <2>1 DEF IInv, TypeOK, OneContext
  <2>3. ~running' /\ (OneContext /\ ModeInv)'
    BY DEF IInv, TypeOK, OneContext, ModeInv
  <2> QED BY <2>2, <2>3 DEF IInv, OffInTime
<1>4. CASE UNCHANGED vars
  BY <1>4 DEF vars, on, IInv, TypeOK, OneContext, ModeInv, OffInTime
<1> QED BY <1>1, <1>2, <1>3, <1>4 DEF Next

\* The invariant holds in every reachable state.
THEOREM Inductive == Spec => []IInv
BY InitIInv, NextIInv, PTL DEF Spec

\* The types (state_on.c:25-110), and one CLOM context while the light is on.
THEOREM TypesAndContexts == Spec => [](TypeOK /\ OneContext)
<1>1. IInv => TypeOK /\ OneContext
  BY DEF IInv
<1> QED BY <1>1, Inductive, PTL

\* The light is never on for longer than the delay it is in.
THEOREM InTime == Spec => []OffInTime
<1>1. IInv => OffInTime
  BY DEF IInv
<1> QED BY <1>1, Inductive, PTL

\* Nor does it go off before.
THEOREM NotBefore == Spec => OffOnlyAfterDelay
<1> DEFINE Off == current = "ON" /\ current' = "OFF" =>
                    now - since >= (IF sub = "NORMAL" THEN Long + 1 ELSE Short)
<1>1. IInv /\ [Next]_vars => [Off]_vars
  <2> SUFFICES ASSUME IInv, Next, current = "ON", current' = "OFF"
               PROVE now - since >= (IF sub = "NORMAL" THEN Long + 1 ELSE Short)
    OBVIOUS
  <2> USE DelayAssumption DEF IInv, TypeOK, ModeInv
  <2>1. Turn
    BY DEF Next, Tick, Exit
  <2>2. PICK event \in {"TOGGLE", "IDLE"} : HandleEvent(event)
    BY <2>1 DEF Turn, Event
  <2>3. CASE sub = "NORMAL"
    BY <2>2, <2>3 DEF HandleEvent, NormalEvent, LeaveOn, Stay
  <2>4. CASE sub = "DELAY"
    BY <2>2, <2>4 DEF HandleEvent, DelayEvent, LeaveOn, Stay
  <2> QED BY <2>3, <2>4
<1> QED BY <1>1, Inductive, PTL DEF Spec, OffOnlyAfterDelay

-----------------------------------------------------------------------------
(* The blocking queue.  QP is the queue of Programs with its theorems.       *)

QP == INSTANCE SimpleQueueProofs WITH pc <- queue_pc, Length <- QueueLength

\* The two instances have the same state and the same steps.
LEMMA QueueInit == Q!Init => QP!Init
BY DEF Q!Init, QP!Init, Q!Cursor, QP!Cursor, Q!Thread, QP!Thread, Q!Garbage, QP!Garbage

LEMMA QueueToSet == \A s : Q!ToSet(s) = QP!ToSet(s)
BY DEF Q!ToSet, QP!ToSet

LEMMA QueueContent == Q!Content = QP!Content
BY DEF Q!Content, QP!Content, Q!Held, QP!Held

LEMMA QueueAfter == \A i : Q!After(i) = QP!After(i)
BY DEF Q!After, QP!After

LEMMA QueueNext == [Q!Next]_(Q!vars) => [QP!Next]_(QP!vars)
<1>1. ASSUME NEW p \in Producer, Q!Push(p) PROVE QP!Push(p)
  BY <1>1, QueueAfter DEF Q!Push, QP!Push, Q!Store, QP!Store, Q!Goto, QP!Goto
<1>2. ASSUME NEW p \in Producer, Q!PushAgain(p) PROVE QP!PushAgain(p)
  BY <1>2 DEF Q!PushAgain, QP!PushAgain, Q!Store, QP!Store, Q!Goto, QP!Goto, Q!local, QP!local
<1>3. ASSUME NEW c \in Consumer, Q!Pop(c) PROVE QP!Pop(c)
  BY <1>3, QueueAfter DEF Q!Pop, QP!Pop, Q!TakeOut, QP!TakeOut, Q!Goto, QP!Goto, Q!local, QP!local
<1>4. ASSUME NEW c \in Consumer, Q!PopAgain(c) PROVE QP!PopAgain(c)
  BY <1>4, QueueAfter DEF Q!PopAgain, QP!PopAgain, Q!TakeOut, QP!TakeOut, Q!Goto, QP!Goto, Q!local,
     QP!local
<1>5. ASSUME NEW t \in Q!Thread, Q!Signal(t) PROVE QP!Signal(t)
  BY <1>5 DEF Q!Signal, QP!Signal, Q!Goto, QP!Goto, Q!local, QP!local, Q!history, QP!history
<1>6. Q!Create => QP!Create
  BY DEF Q!Create, QP!Create, Q!local, QP!local, Q!history, QP!history, Q!Cursor, QP!Cursor,
     Q!Thread, QP!Thread, Q!Garbage, QP!Garbage
<1>7. Q!Destroy => QP!Destroy
  BY QueueToSet, QueueContent DEF Q!Destroy, QP!Destroy, Q!local, QP!local, Q!Thread, QP!Thread
<1>8. Q!SpuriousWakeup => QP!SpuriousWakeup
  BY DEF Q!SpuriousWakeup, QP!SpuriousWakeup, Q!local, QP!local, Q!history, QP!history
<1>9. UNCHANGED Q!vars => UNCHANGED QP!vars
  BY DEF Q!vars, QP!vars, Q!local, QP!local, Q!history, QP!history
<1> QED BY <1>1, <1>2, <1>3, <1>4, <1>5, <1>6, <1>7, <1>8, <1>9 DEF Q!Next, QP!Next, Q!Thread,
   QP!Thread

\* With one producer every message that was accepted is in the queue, popped or
\* freed, and in one of these places only (simple_queue.h:97 and
\* simple_queue.c:146-172).
THEOREM OwnersCorrect == ASSUME QP!QueueAssumption PROVE Q!Spec => []OneOwner
<1>1. QP!IInv => OneOwner
  BY QueueToSet, QueueContent
     DEF QP!IInv, QP!OwnInv, OneOwner, Q!NothingLost, Q!OneOwner, QP!NothingLost, QP!OneOwner
<1>2. Q!Init => QP!IInv
  BY QueueInit, QP!InitIInv
<1>3. QP!IInv /\ [Q!Next]_(Q!vars) => QP!IInv'
  BY QueueNext, QP!NextIInv
<1> QED BY <1>1, <1>2, <1>3, PTL DEF Q!Spec

\* With one producer the ring implements a FIFO of one message less than it has
\* slots.
THEOREM QueueIsFifo == ASSUME QP!QueueAssumption PROVE Q!Spec => RefinesFifo
<1>1. Q!Init => Q!Fifo!Init
  BY DEF Q!Init, Q!Fifo!Init
<1>2. QP!IInv /\ [Q!Next]_(Q!vars) => [Q!Fifo!Next]_(Q!Fifo!vars)
  <2>1. Q!Content = QP!Content /\ Q!Content' = QP!Content'
    BY DEF Q!Content, QP!Content, Q!Held, QP!Held
  <2>2. [QP!Fifo!Next]_(QP!Fifo!vars) => [Q!Fifo!Next]_(Q!Fifo!vars)
    BY <2>1 DEF QP!Fifo!Next, Q!Fifo!Next, QP!Fifo!vars, Q!Fifo!vars, QP!Fifo!Create, Q!Fifo!Create,
       QP!Fifo!Put, Q!Fifo!Put, QP!Fifo!Get, Q!Fifo!Get, QP!Fifo!Discard, Q!Fifo!Discard,
       QP!Message, Q!Message
  <2> QED BY <2>2, QueueNext, QP!NextIInv
<1>3. Q!Init => QP!IInv
  BY QueueInit, QP!InitIInv
<1>4. QP!IInv /\ [Q!Next]_(Q!vars) => QP!IInv'
  BY QueueNext, QP!NextIInv
<1> QED BY <1>1, <1>2, <1>3, <1>4, PTL DEF Q!Spec, RefinesFifo, Q!RefinesFifo, Q!Fifo!Spec

-----------------------------------------------------------------------------
(* The command line, in the same way.                                       *)

CP == INSTANCE CliServerProofs WITH
         running <- cli_running, client <- asking, Clients <- {Asking, Idle}, Mortal <- {Asking},
         MaxCommand <- [c \in {Asking, Idle} |-> IF c = Asking THEN MaxAsked ELSE 0]

\* Here, too, the two instances have the same state and the same steps.
LEMMA CliInit == Cli!Init => CP!Init
BY DEF Cli!Init, CP!Init, Cli!Conns, CP!Conns, Cli!NoCommand, CP!NoCommand, Cli!NotConnected,
   CP!NotConnected

LEMMA CliNext == [Cli!Next]_(Cli!vars) => [CP!Next]_(CP!vars)
<1>1. Cli!Listen => CP!Listen
  BY DEF Cli!Listen, CP!Listen, Cli!connections, CP!connections
<1>2. ASSUME NEW i \in Cli!Conns, Cli!Accept(i) PROVE CP!Accept(i)
  BY <1>2 DEF Cli!Accept, CP!Accept, Cli!Conns, CP!Conns, Cli!InUse, CP!InUse, Cli!Open, CP!Open
<1>3. Cli!LeaveLoop => CP!LeaveLoop
  BY DEF Cli!LeaveLoop, CP!LeaveLoop, Cli!connections, CP!connections
<1>4. Cli!Leave => CP!Leave
  BY DEF Cli!Leave, CP!Leave, Cli!Conns, CP!Conns, Cli!Open, CP!Open, Cli!ClientEnded,
     CP!ClientEnded, Cli!Farewell, CP!Farewell
<1>5. Cli!Join => CP!Join
  BY DEF Cli!Join, CP!Join, Cli!connections, CP!connections
<1>6. Cli!Done => CP!Done
  BY DEF Cli!Done, CP!Done, Cli!connections, CP!connections
<1>7. Cli!StopFlag => CP!StopFlag
  BY DEF Cli!StopFlag, CP!StopFlag, Cli!connections, CP!connections
<1>8. Cli!StopClose => CP!StopClose
  BY DEF Cli!StopClose, CP!StopClose, Cli!Conns, CP!Conns
<1>9. Cli!StopJoin => CP!StopJoin
  BY DEF Cli!StopJoin, CP!StopJoin, Cli!connections, CP!connections
<1>10. ASSUME NEW i \in Cli!Conns, Cli!TestRunning(i) PROVE CP!TestRunning(i)
  BY <1>10 DEF Cli!TestRunning, CP!TestRunning, Cli!Handle, CP!Handle
<1>11. ASSUME NEW i \in Cli!Conns, Cli!ReadCommand(i) PROVE CP!ReadCommand(i)
  BY <1>11 DEF Cli!ReadCommand, CP!ReadCommand, Cli!Handle, CP!Handle, Cli!ClientEnded,
     CP!ClientEnded
<1>12. ASSUME NEW i \in Cli!Conns, Cli!Execute(i) PROVE CP!Execute(i)
  BY <1>12 DEF Cli!Execute, CP!Execute, Cli!Handle, CP!Handle, Cli!Output, CP!Output,
     Cli!ClientEnded, CP!ClientEnded
<1>13. ASSUME NEW i \in Cli!Conns, Cli!EndAnswer(i) PROVE CP!EndAnswer(i)
  BY <1>13 DEF Cli!EndAnswer, CP!EndAnswer, Cli!Handle, CP!Handle, Cli!Output, CP!Output,
     Cli!ClientEnded, CP!ClientEnded, Cli!NoCommand, CP!NoCommand
<1>14. ASSUME NEW i \in Cli!Conns, Cli!CloseStreams(i) PROVE CP!CloseStreams(i)
  BY <1>14 DEF Cli!CloseStreams, CP!CloseStreams, Cli!Handle, CP!Handle
<1>15. ASSUME NEW i \in Cli!Conns, Cli!CloseAgain(i) PROVE CP!CloseAgain(i)
  BY <1>15 DEF Cli!CloseAgain, CP!CloseAgain, Cli!Handle, CP!Handle, Cli!Conns, CP!Conns, Cli!Open,
     CP!Open
<1>16. ASSUME NEW c \in {Asking, Idle}, Cli!Connect(c) PROVE CP!Connect(c)
  BY <1>16 DEF Cli!Connect, CP!Connect, Cli!Conns, CP!Conns, Cli!End, CP!End, Cli!NotConnected,
     CP!NotConnected
<1>17. ASSUME NEW c \in {Asking, Idle}, Cli!Prompt(c) PROVE CP!Prompt(c)
  BY <1>17 DEF Cli!Prompt, CP!Prompt, Cli!Client, CP!Client, Cli!PeerClosed, CP!PeerClosed,
     Cli!ServerEnded, CP!ServerEnded, Cli!Farewell, CP!Farewell, Cli!connections, CP!connections
<1>18. ASSUME NEW c \in {Asking, Idle}, Cli!Write(c) PROVE CP!Write(c)
  BY <1>18 DEF Cli!Write, CP!Write, Cli!ServerEnded, CP!ServerEnded, Cli!End, CP!End,
     Cli!NotConnected, CP!NotConnected
<1>19. ASSUME NEW c \in {Asking, Idle}, Cli!ReadLine(c) PROVE CP!ReadLine(c)
  BY <1>19 DEF Cli!ReadLine, CP!ReadLine, Cli!Farewell, CP!Farewell, Cli!End, CP!End,
     Cli!NotConnected, CP!NotConnected
<1>20. ASSUME NEW c \in {Asking, Idle}, Cli!ReadEnd(c) PROVE CP!ReadEnd(c)
  BY <1>20 DEF Cli!ReadEnd, CP!ReadEnd, Cli!ServerEnded, CP!ServerEnded, Cli!End, CP!End,
     Cli!NotConnected, CP!NotConnected, Cli!Client, CP!Client, Cli!connections, CP!connections
<1>21. ASSUME NEW c \in {Asking, Idle}, Cli!Ask(c) PROVE CP!Ask(c)
  BY <1>21 DEF Cli!Ask, CP!Ask, Cli!End, CP!End, Cli!NotConnected, CP!NotConnected,
     Cli!connections, CP!connections
<1>22. ASSUME NEW c \in {Asking, Idle}, Cli!Killed(c) PROVE CP!Killed(c)
  BY <1>22 DEF Cli!Killed, CP!Killed, Cli!End, CP!End, Cli!NotConnected, CP!NotConnected,
     Cli!connections, CP!connections
<1>23. Cli!Restart => CP!Restart
  BY DEF Cli!Restart, CP!Restart, Cli!Conns, CP!Conns, Cli!NoCommand, CP!NoCommand
<1>24. UNCHANGED Cli!vars => UNCHANGED CP!vars
  BY DEF Cli!vars, CP!vars, Cli!connections, CP!connections
<1> QED BY <1>1, <1>2, <1>3, <1>4, <1>5, <1>6, <1>7, <1>8, <1>9, <1>10, <1>11, <1>12, <1>13, <1>14,
   <1>15, <1>16, <1>17, <1>18, <1>19, <1>20, <1>21, <1>22, <1>23, <1>24
  DEF Cli!Next, CP!Next, Cli!Server, CP!Server, Cli!Stop, CP!Stop, Cli!Handler, CP!Handler,
     Cli!Conns, CP!Conns

\* A client reads the answer to the command it has sent (jsonconfig.c:2081-2111,
\* 2264-2342), and never what is left of an earlier one.
THEOREM AnswersCorrect == Cli!Spec => []AnswersMatch
<1>1. CP!IInv => AnswersMatch
  BY DEF CP!IInv, CP!AnswersMatch, AnswersMatch, Cli!AnswersMatch
<1>2. Cli!Init => CP!IInv
  BY CliInit, CP!InitIInv
<1>3. CP!IInv /\ [Cli!Next]_(Cli!vars) => CP!IInv'
  BY CliNext, CP!NextIInv
<1> QED BY <1>1, <1>2, <1>3, PTL DEF Cli!Spec

-----------------------------------------------------------------------------
\* The owner of a free address is no thread.
NoOwnerAssumption == NoOwner \notin Threads

\* A set of numbers has a least one; what follows uses it for induction.
LEMMA Least == ASSUME NEW T \in SUBSET Nat, T # {} PROVE \E n \in T : \A m \in T : n <= m
<1>1. PICK n \in T : \A m \in T : ~(<<m, n>> \in OpToRel(<, Nat))
  BY WFMin, NatLessThanWellFounded
<1>2. OpToRel(<, Nat) = {ss \in Nat \X Nat : ss[1] < ss[2]}
  BY Zenon DEF OpToRel
<1>3. ASSUME NEW m \in T PROVE n <= m
  <2>1. <<m, n>> \notin {ss \in Nat \X Nat : ss[1] < ss[2]}
    BY <1>1, <1>2
  <2>2. ~(m < n)
    BY <2>1
  <2> QED BY <2>2
<1> QED BY <1>3

Entry == [block : Nat, ptr : Addresses, freed : BOOLEAN]

\* The first entry of an address.
LEMMA FindFirst ==
    ASSUME NEW l \in Seq(Entry), NEW p \in Addresses, NEW n, n = Alloc!Find(l, p)
    PROVE  \/ n = 0 /\ \A i \in 1 .. Len(l) : l[i].ptr # p
           \/ /\ n \in 1 .. Len(l) /\ l[n].ptr = p
              /\ \A i \in 1 .. Len(l) : l[i].ptr = p => n <= i
<1> DEFINE I == {i \in 1 .. Len(l) : l[i].ptr = p}
<1>1. Alloc!Find(l, p) = IF I # {} THEN Alloc!Min(I) ELSE 0
  BY DEF Alloc!Find, Alloc!SelectInSeq
<1>2. CASE I = {}
  BY <1>1, <1>2
<1>3. CASE I # {}
  <2>1. I \in SUBSET Nat
    OBVIOUS
  <2>2. \E i \in I : \A j \in I : i <= j
    BY <1>3, <2>1, Least
  <2>3. n = CHOOSE i \in I : \A j \in I : i <= j
    BY <1>1, <1>3 DEF Alloc!Min
  <2>4. n \in I /\ \A j \in I : n <= j
    BY <2>2, <2>3
  <2> QED BY <2>4
<1> QED BY <1>2, <1>3

-----------------------------------------------------------------------------
\* The list of t says which addresses are those of its blocks: an address has
\* at most one entry that is not freed, the first.
Matches(l, t, own, blk) ==
    /\ \A i \in 1 .. Len(l) : ~l[i].freed => own[l[i].ptr] = t /\ blk[l[i].ptr] = l[i].block
    /\ \A i, j \in 1 .. Len(l) : i < j /\ l[i].ptr = l[j].ptr => l[j].freed
    /\ \A p \in Addresses : own[p] = t => \E i \in 1 .. Len(l) : l[i].ptr = p /\ ~l[i].freed

Owners == [Addresses -> Threads \cup {NoOwner}]
Numbers == [Addresses -> Nat]

\* The list with the new entry at its head.
LEMMA AddAllocList ==
    ASSUME NEW l \in Seq(Entry), NEW p \in Addresses, NEW b \in Nat, NEW r, r = Alloc!AddAlloc(l, b, p)
    PROVE  /\ r \in Seq(Entry) /\ Len(r) = 1 + Len(l) /\ Len(l) \in Nat
           /\ r[1] = [block |-> b, ptr |-> p, freed |-> FALSE]
           /\ \A i \in 1 .. Len(l) : r[1 + i] = l[i]
<1> DEFINE e == [block |-> b, ptr |-> p, freed |-> FALSE]
<1>1. e \in Entry
  BY DEF Entry
<1> HIDE DEF e
<1>2. <<e>> \in Seq(Entry) /\ Len(<<e>>) = 1 /\ <<e>>[1] = e /\ Len(l) \in Nat
  BY <1>1
<1>3. r = <<e>> \o l
  BY DEF Alloc!AddAlloc, e
<1>4. r \in Seq(Entry) /\ Len(r) = 1 + Len(l)
  BY <1>2, <1>3, ConcatProperties
<1>5. \A i \in 1 .. 1 + Len(l) : r[i] = IF i <= 1 THEN <<e>>[i] ELSE l[i - 1]
  BY <1>2, <1>3, ConcatProperties
<1>6. r[1] = e
  BY <1>2, <1>5
<1>7. ASSUME NEW i \in 1 .. Len(l) PROVE r[1 + i] = l[i]
  <2>1. 1 + i \in 1 .. 1 + Len(l) /\ ~(1 + i <= 1) /\ 1 + i - 1 = i
    BY <1>2
  <2> QED BY <1>5, <2>1
<1> QED BY <1>2, <1>4, <1>6, <1>7 DEF e

\* A block that is allocated gets an entry ...
LEMMA AddMatches ==
    ASSUME NoOwnerAssumption, NEW t \in Threads, NEW l \in Seq(Entry), NEW own \in Owners,
           NEW blk \in Numbers, Matches(l, t, own, blk),
           NEW p \in Addresses, own[p] = NoOwner, NEW b \in Nat
    PROVE  Matches(Alloc!AddAlloc(l, b, p), t, [own EXCEPT ![p] = t], [blk EXCEPT ![p] = b])
<1>1. PICK r : r = Alloc!AddAlloc(l, b, p)
  OBVIOUS
<1>2. /\ r \in Seq(Entry) /\ Len(r) = 1 + Len(l) /\ Len(l) \in Nat
      /\ r[1] = [block |-> b, ptr |-> p, freed |-> FALSE]
      /\ \A i \in 1 .. Len(l) : r[1 + i] = l[i]
  BY <1>1, AddAllocList
<1>3. /\ \A i \in 1 .. Len(r) : i = 1 \/ (i - 1 \in 1 .. Len(l) /\ r[i] = l[i - 1])
      /\ r[1].block = b /\ r[1].ptr = p /\ r[1].freed = FALSE
  <2>1. ASSUME NEW i \in 1 .. Len(r), i # 1 PROVE i - 1 \in 1 .. Len(l) /\ r[i] = l[i - 1]
    <3>1. i - 1 \in 1 .. Len(l) /\ 1 + (i - 1) = i
      BY <1>2, <2>1
    <3> QED BY <1>2, <3>1
  <2> QED BY <1>2, <2>1
<1>4. PICK o : o = [own EXCEPT ![p] = t]
  OBVIOUS
<1>5. PICK k : k = [blk EXCEPT ![p] = b]
  OBVIOUS
<1>6. /\ o[p] = t /\ k[p] = b
      /\ \A q \in Addresses : q # p => o[q] = own[q] /\ k[q] = blk[q]
  BY <1>4, <1>5 DEF Owners, Numbers
<1>7. \A i \in 1 .. Len(l) : l[i].ptr \in Addresses /\ (l[i].ptr = p => l[i].freed)
  <2> TAKE i \in 1 .. Len(l)
  <2>1. l[i] \in Entry
    OBVIOUS
  <2>2. ~l[i].freed => own[l[i].ptr] = t
    BY DEF Matches
  <2> QED BY <2>1, <2>2 DEF Entry, NoOwnerAssumption
<1>8. ASSUME NEW i \in 1 .. Len(r), ~r[i].freed PROVE o[r[i].ptr] = t /\ k[r[i].ptr] = r[i].block
  <2>1. CASE i = 1
    BY <1>3, <1>6, <2>1
  <2>2. CASE i # 1
    <3>1. i - 1 \in 1 .. Len(l) /\ r[i] = l[i - 1]
      BY <1>3, <2>2
    <3>2. own[l[i - 1].ptr] = t /\ blk[l[i - 1].ptr] = l[i - 1].block
      BY <1>8, <3>1 DEF Matches
    <3> QED BY <1>6, <1>7, <1>8, <3>1, <3>2
  <2> QED BY <2>1, <2>2
<1>9. ASSUME NEW i \in 1 .. Len(r), NEW j \in 1 .. Len(r), i < j, r[i].ptr = r[j].ptr PROVE r[j].freed
  <2>1. j # 1
    BY <1>2, <1>9
  <2>2. j - 1 \in 1 .. Len(l) /\ r[j] = l[j - 1]
    BY <1>3, <2>1
  <2>3. CASE i = 1
    BY <1>3, <1>7, <1>9, <2>2, <2>3
  <2>4. CASE i # 1
    <3>1. i - 1 \in 1 .. Len(l) /\ r[i] = l[i - 1]
      BY <1>3, <2>4
    <3>2. i - 1 < j - 1
      BY <1>2, <1>9
    <3>3. PICK a, c \in 1 .. Len(l) : a = i - 1 /\ c = j - 1
      BY <2>2, <3>1
    <3>4. a < c /\ l[a].ptr = l[c].ptr
      BY <1>9, <2>2, <3>1, <3>2, <3>3
    <3>5. l[c].freed
      BY <3>4 DEF Matches
    <3> QED BY <2>2, <3>3, <3>5
  <2> QED BY <2>3, <2>4
<1>10. ASSUME NEW q \in Addresses, o[q] = t PROVE \E i \in 1 .. Len(r) : r[i].ptr = q /\ ~r[i].freed
  <2>1. CASE q = p
    BY <1>2, <1>3, <2>1
  <2>2. CASE q # p
    <3>1. PICK i \in 1 .. Len(l) : l[i].ptr = q /\ ~l[i].freed
      BY <1>6, <1>10, <2>2 DEF Matches
    <3>2. 1 + i \in 1 .. Len(r) /\ r[1 + i] = l[i]
      BY <1>2
    <3> QED BY <3>1, <3>2
  <2> QED BY <2>1, <2>2
<1> QED BY <1>1, <1>4, <1>5, <1>8, <1>9, <1>10 DEF Matches

\* ... which the lists of the other threads need not know.
LEMMA AddMatchesOther ==
    ASSUME NoOwnerAssumption, NEW t \in Threads, NEW u \in Threads, u # t, NEW l \in Seq(Entry),
           NEW own \in Owners, NEW blk \in Numbers, Matches(l, u, own, blk),
           NEW p \in Addresses, own[p] = NoOwner, NEW b \in Nat
    PROVE  Matches(l, u, [own EXCEPT ![p] = t], [blk EXCEPT ![p] = b])
<1>1. PICK o : o = [own EXCEPT ![p] = t]
  OBVIOUS
<1>2. PICK k : k = [blk EXCEPT ![p] = b]
  OBVIOUS
<1>3. /\ o[p] = t
      /\ \A q \in Addresses : q # p => o[q] = own[q] /\ k[q] = blk[q]
  BY <1>1, <1>2 DEF Owners, Numbers
<1>4. \A i \in 1 .. Len(l) : l[i].ptr \in Addresses /\ (l[i].ptr = p => l[i].freed)
  <2> TAKE i \in 1 .. Len(l)
  <2>1. l[i] \in Entry
    OBVIOUS
  <2>2. ~l[i].freed => own[l[i].ptr] = u
    BY DEF Matches
  <2> QED BY <2>1, <2>2 DEF Entry, NoOwnerAssumption
<1>5. \A q \in Addresses : o[q] = u => own[q] = u
  BY <1>3
<1>6. Matches(l, u, o, k)
  BY <1>3, <1>4, <1>5 DEF Matches
<1> QED BY <1>1, <1>2, <1>6

\* The entry of a block that its thread frees is there and not freed.
LEMMA FreeMatches ==
    ASSUME NoOwnerAssumption, NEW t \in Threads, NEW l \in Seq(Entry), NEW own \in Owners, NEW blk,
           Matches(l, t, own, blk), NEW p \in Addresses, own[p] = t, NEW n, n = Alloc!Find(l, p)
    PROVE  /\ n \in 1 .. Len(l) /\ ~l[n].freed
           /\ Alloc!Freed(l, n) \in Seq(Entry)
           /\ Matches(Alloc!Freed(l, n), t, [own EXCEPT ![p] = NoOwner], blk)
<1>1. PICK i \in 1 .. Len(l) : l[i].ptr = p /\ ~l[i].freed
  BY DEF Matches
<1>2. /\ n \in 1 .. Len(l) /\ l[n].ptr = p
      /\ \A j \in 1 .. Len(l) : l[j].ptr = p => n <= j
  BY <1>1, FindFirst
<1>3. n = i
  <2>1. n <= i /\ ~(n < i)
    BY <1>1, <1>2 DEF Matches
  <2> QED BY <1>2, <2>1
<1>4. PICK r : r = Alloc!Freed(l, n)
  OBVIOUS
<1>5. /\ r \in Seq(Entry) /\ Len(r) = Len(l)
      /\ \A j \in 1 .. Len(l) : /\ r[j].ptr = l[j].ptr /\ r[j].block = l[j].block
                                /\ r[j].freed = (IF j = n THEN TRUE ELSE l[j].freed)
  <2>1. \A j \in 1 .. Len(l) : l[j] \in Entry
    OBVIOUS
  <2>2. r = [l EXCEPT ![n] = [l[n] EXCEPT !.freed = TRUE]]
    BY <1>4 DEF Alloc!Freed
  <2>3. PICK e : e = [l[n] EXCEPT !.freed = TRUE]
    OBVIOUS
  <2>4. e \in Entry /\ e.ptr = l[n].ptr /\ e.block = l[n].block /\ e.freed = TRUE
    BY <1>2, <2>1, <2>3 DEF Entry
  <2>5. r = [l EXCEPT ![n] = e]
    BY <2>2, <2>3
  <2>6. r \in Seq(Entry) /\ Len(r) = Len(l) /\ \A j \in 1 .. Len(l) : r[j] = IF j = n THEN e ELSE l[j]
    BY <1>2, <2>4, <2>5, ExceptSeq
  <2> QED BY <2>4, <2>6
<1>6. PICK o : o = [own EXCEPT ![p] = NoOwner]
  OBVIOUS
<1>7. o[p] = NoOwner /\ \A q \in Addresses : q # p => o[q] = own[q]
  BY <1>6 DEF Owners
<1>8. ASSUME NEW j \in 1 .. Len(r), ~r[j].freed PROVE o[r[j].ptr] = t /\ blk[r[j].ptr] = r[j].block
  <2>0. j \in 1 .. Len(l) /\ l[j] \in Entry /\ Len(l) \in Nat
    BY <1>5
  <2>1. j # n /\ ~l[j].freed /\ l[j].ptr \in Addresses
    BY <1>5, <1>8, <2>0 DEF Entry
  <2>2. l[j].ptr # p
    <3>1. CASE j < i
      BY <1>2, <1>3, <1>5, <3>1
    <3>2. CASE i < j
      BY <1>1, <1>5, <2>1, <3>2 DEF Matches
    <3> QED BY <1>1, <1>3, <2>0, <2>1, <3>1, <3>2
  <2>3. own[l[j].ptr] = t /\ blk[l[j].ptr] = l[j].block
    BY <2>0, <2>1 DEF Matches
  <2> QED BY <1>5, <1>7, <2>0, <2>1, <2>2, <2>3
<1>9. ASSUME NEW j \in 1 .. Len(r), NEW k \in 1 .. Len(r), j < k, r[j].ptr = r[k].ptr
      PROVE  r[k].freed
  <2>1. j \in 1 .. Len(l) /\ k \in 1 .. Len(l)
    BY <1>5
  <2>2. l[j].ptr = l[k].ptr
    BY <1>5, <1>9, <2>1
  <2>3. l[k].freed
    BY <1>9, <2>1, <2>2 DEF Matches
  <2>4. r[k].freed = (IF k = n THEN TRUE ELSE l[k].freed)
    BY <1>5, <2>1
  <2> QED BY <2>3, <2>4
<1>10. ASSUME NEW q \in Addresses, o[q] = t PROVE \E j \in 1 .. Len(r) : r[j].ptr = q /\ ~r[j].freed
  <2>1. q # p /\ own[q] = t
    BY <1>7, <1>10 DEF NoOwnerAssumption
  <2>2. PICK j \in 1 .. Len(l) : l[j].ptr = q /\ ~l[j].freed
    BY <2>1 DEF Matches
  <2>3. j # n
    BY <1>2, <2>1, <2>2
  <2> QED BY <1>5, <2>2, <2>3
<1>11. Matches(r, t, o, blk)
  BY <1>8, <1>9, <1>10 DEF Matches
<1> QED BY <1>1, <1>3, <1>4, <1>5, <1>6, <1>11

LEMMA FreeMatchesOther ==
    ASSUME NoOwnerAssumption, NEW t \in Threads, NEW u \in Threads, u # t, NEW l \in Seq(Entry),
           NEW own \in Owners, NEW blk, Matches(l, u, own, blk), NEW p \in Addresses, own[p] = t
    PROVE  Matches(l, u, [own EXCEPT ![p] = NoOwner], blk)
<1>1. PICK o : o = [own EXCEPT ![p] = NoOwner]
  OBVIOUS
<1>2. o[p] = NoOwner /\ \A q \in Addresses : q # p => o[q] = own[q]
  BY <1>1 DEF Owners
<1>3. \A i \in 1 .. Len(l) : l[i].ptr \in Addresses /\ (~l[i].freed => l[i].ptr # p)
  <2> TAKE i \in 1 .. Len(l)
  <2>1. l[i] \in Entry
    OBVIOUS
  <2>2. ~l[i].freed => own[l[i].ptr] = u
    BY DEF Matches
  <2> QED BY <2>1, <2>2 DEF Entry
<1>4. Matches(l, u, o, blk)
  BY <1>2, <1>3 DEF Matches, NoOwnerAssumption
<1> QED BY <1>1, <1>4

-----------------------------------------------------------------------------
\* What is reported of a list, by induction on how much of it was looked at.
Unfreed(l, n) == {i \in 1 .. n : ~l[i].freed}
Ptrs(l, n) == {l[i].ptr : i \in Unfreed(l, n)}
Collects(f, l, m) ==
    f = [n \in 0 .. m |-> IF n = 0 THEN <<>>
                          ELSE IF l[n].freed THEN f[n - 1] ELSE Append(f[n - 1], l[n].block)]

LEMMA CollectsExists == ASSUME NEW l PROVE \A m \in Nat : \E f : Collects(f, l, m)
<1> DEFINE Bad == {m \in Nat : ~ \E f : Collects(f, l, m)}
<1> SUFFICES ASSUME Bad # {} PROVE FALSE
  OBVIOUS
<1>1. Bad \in SUBSET Nat
  OBVIOUS
<1>2. PICK m \in Bad : \A k \in Bad : m <= k
  BY <1>1, Least
<1>3. m \in Nat /\ ~ \E f : Collects(f, l, m)
  OBVIOUS
<1>4. CASE m = 0
  <2>1. Collects([n \in 0 .. m |-> <<>>], l, m)
    BY <1>4 DEF Collects
  <2> QED BY <1>3, <2>1
<1>5. CASE m # 0
  <2>1. m - 1 \in Nat /\ m - 1 \notin Bad
    BY <1>2, <1>3, <1>5
  <2>2. PICK f : Collects(f, l, m - 1)
    BY <2>1
  <2> DEFINE Step(h, n) == IF l[n].freed THEN h[n - 1] ELSE Append(h[n - 1], l[n].block)
             g == [n \in 0 .. m |-> IF n = m THEN Step(f, n) ELSE f[n]]
  <2>3. \A n \in 0 .. m - 1 : f[n] = IF n = 0 THEN <<>> ELSE Step(f, n)
    BY <2>2 DEF Collects
  <2>4. \A n \in 0 .. m : n # 0 => n - 1 \in 0 .. m - 1 /\ n - 1 # m
    BY <1>3
  <2>5. \A n \in 0 .. m : n # 0 => g[n - 1] = f[n - 1]
    BY <1>3, <2>4
  <2> HIDE DEF Step
  <2>6. \A n \in 0 .. m : n # 0 => Step(g, n) = Step(f, n)
    BY <2>5 DEF Step
  <2>7. \A n \in 0 .. m : n # m => n \in 0 .. m - 1
    BY <1>3
  <2>8. g = [n \in 0 .. m |-> IF n = 0 THEN <<>> ELSE Step(g, n)]
    BY <1>5, <2>3, <2>6, <2>7
  <2>9. Collects(g, l, m)
    BY <2>8 DEF Collects, Step
  <2> QED BY <1>3, <2>9
<1> QED BY <1>4, <1>5

LEMMA LeaksCollects ==
    ASSUME NEW l \in Seq(Entry)
    PROVE  \E f : Collects(f, l, Len(l)) /\ Alloc!Leaks(l) = f[Len(l)]
<1>1. Len(l) \in Nat
  OBVIOUS
<1> DEFINE F == CHOOSE f : Collects(f, l, Len(l))
<1>2. Collects(F, l, Len(l))
  BY <1>1, CollectsExists
<1>3. Alloc!Leaks(l) = F[Len(l)]
  BY DEF Alloc!Leaks, Collects
<1> QED BY <1>2, <1>3

\* Of a list without two entries of an address that are not freed, the leaks are
\* the blocks of these entries, each once.
LeaksOf(s, l, n) ==
    /\ s \in Seq(Nat)
    /\ \A b : b \in Alloc!ToSet(s) <=> \E i \in Unfreed(l, n) : b = l[i].block
    /\ IsFiniteSet(Ptrs(l, n)) /\ Len(s) = Cardinality(Ptrs(l, n))

LEMMA LeaksStep ==
    ASSUME NEW l \in Seq(Entry), NEW n \in 1 .. Len(l), NEW s, LeaksOf(s, l, n - 1),
           \A i, j \in 1 .. Len(l) : i < j /\ l[i].ptr = l[j].ptr => l[j].freed
    PROVE  LeaksOf(IF l[n].freed THEN s ELSE Append(s, l[n].block), l, n)
<1>0. l[n] \in Entry /\ Len(l) \in Nat /\ n \in Nat /\ l[n].block \in Nat /\ l[n].freed \in BOOLEAN
  <2>1. l[n] \in Entry /\ Len(l) \in Nat /\ n \in Nat
    OBVIOUS
  <2> QED BY <2>1 DEF Entry
<1>1. \A i : i \in 1 .. n <=> i \in 1 .. n - 1 \/ i = n
  BY <1>0
<1>2. CASE l[n].freed
  <2>1. Unfreed(l, n) = Unfreed(l, n - 1)
    BY <1>1, <1>2 DEF Unfreed
  <2> QED BY <1>2, <2>1 DEF LeaksOf, Ptrs
<1>3. CASE ~l[n].freed
  <2>1. Unfreed(l, n) = Unfreed(l, n - 1) \cup {n}
    BY <1>1, <1>3 DEF Unfreed
  <2>2. Ptrs(l, n) = Ptrs(l, n - 1) \cup {l[n].ptr}
    BY <2>1 DEF Ptrs
  <2>3. l[n].ptr \notin Ptrs(l, n - 1)
    <3>1. \A i \in Unfreed(l, n - 1) : i \in 1 .. Len(l) /\ i < n
      BY <1>0 DEF Unfreed
    <3> QED BY <1>3, <3>1 DEF Ptrs
  <2>4. IsFiniteSet(Ptrs(l, n)) /\ Cardinality(Ptrs(l, n)) = Cardinality(Ptrs(l, n - 1)) + 1
    BY <2>2, <2>3, FS_AddElement DEF LeaksOf
  <2>5. PICK r : r = Append(s, l[n].block)
    OBVIOUS
  <2>6. s \in Seq(Nat)
    BY DEF LeaksOf
  <2>7. /\ r \in Seq(Nat) /\ Len(r) = Len(s) + 1 /\ Len(s) \in Nat
        /\ \A i \in 1 .. Len(s) : r[i] = s[i]
        /\ r[Len(s) + 1] = l[n].block
    BY <1>0, <2>5, <2>6, AppendProperties
  <2>8. \A b : b \in Alloc!ToSet(r) <=> b \in Alloc!ToSet(s) \/ b = l[n].block
    <3>1. \A b : b \in Alloc!ToSet(r) <=> \E i \in 1 .. Len(r) : r[i] = b
      <4>1. DOMAIN r = 1 .. Len(r)
        BY <2>7
      <4> QED BY <4>1, Zenon DEF Alloc!ToSet
    <3>2. \A b : b \in Alloc!ToSet(s) <=> \E i \in 1 .. Len(s) : s[i] = b
      <4>1. DOMAIN s = 1 .. Len(s)
        BY <2>6
      <4> QED BY <4>1, Zenon DEF Alloc!ToSet
    <3>3. \A i \in 1 .. Len(r) : i \in 1 .. Len(s) \/ i = Len(s) + 1
      BY <2>7
    <3>4. \A i \in 1 .. Len(s) : i \in 1 .. Len(r)
      BY <2>7
    <3>5. Len(s) + 1 \in 1 .. Len(r)
      BY <2>7
    <3> QED BY <2>7, <3>1, <3>2, <3>3, <3>4, <3>5
  <2>9. \A b : b \in Alloc!ToSet(r) <=> \E i \in Unfreed(l, n) : b = l[i].block
    BY <2>1, <2>8 DEF LeaksOf
  <2>10. Len(r) = Cardinality(Ptrs(l, n))
    BY <2>4, <2>7 DEF LeaksOf
  <2>11. LeaksOf(r, l, n)
    BY <2>4, <2>7, <2>9, <2>10 DEF LeaksOf
  <2> QED BY <1>3, <2>5, <2>11
<1> QED BY <1>0, <1>2, <1>3

LEMMA LeaksAre ==
    ASSUME NEW l \in Seq(Entry),
           \A i, j \in 1 .. Len(l) : i < j /\ l[i].ptr = l[j].ptr => l[j].freed
    PROVE  LeaksOf(Alloc!Leaks(l), l, Len(l))
<1>1. PICK f : Collects(f, l, Len(l)) /\ Alloc!Leaks(l) = f[Len(l)]
  BY LeaksCollects
<1>2. Len(l) \in Nat
  OBVIOUS
<1>3. \A n \in 0 .. Len(l) :
         f[n] = IF n = 0 THEN <<>>
                ELSE IF l[n].freed THEN f[n - 1] ELSE Append(f[n - 1], l[n].block)
  BY <1>1 DEF Collects
<1> DEFINE Bad == {n \in 0 .. Len(l) : ~LeaksOf(f[n], l, n)}
<1>4. Bad = {}
  <2> SUFFICES ASSUME Bad # {} PROVE FALSE
    OBVIOUS
  <2>1. Bad \in SUBSET Nat
    OBVIOUS
  <2>2. PICK n \in Bad : \A m \in Bad : n <= m
    BY <2>1, Least
  <2>3. n \in 0 .. Len(l) /\ ~LeaksOf(f[n], l, n)
    OBVIOUS
  <2>4. CASE n = 0
    <3>1. f[n] = <<>> /\ Unfreed(l, n) = {} /\ Ptrs(l, n) = {}
      BY <1>3, <2>3, <2>4 DEF Unfreed, Ptrs
    <3>2. Alloc!ToSet(<<>>) = {}
      BY DEF Alloc!ToSet
    <3>3. IsFiniteSet({}) /\ Cardinality({}) = 0
      BY FS_EmptySet
    <3> QED BY <2>3, <3>1, <3>2, <3>3 DEF LeaksOf
  <2>5. CASE n # 0
    <3>1. n \in 1 .. Len(l) /\ n - 1 \in 0 .. Len(l) /\ n - 1 \notin Bad
      BY <1>2, <2>2, <2>3, <2>5
    <3>2. LeaksOf(f[n - 1], l, n - 1)
      BY <3>1
    <3>3. LeaksOf(IF l[n].freed THEN f[n - 1] ELSE Append(f[n - 1], l[n].block), l, n)
      BY <3>1, <3>2, LeaksStep
    <3> QED BY <1>3, <2>3, <2>5, <3>3
  <2> QED BY <2>4, <2>5
<1> QED BY <1>1, <1>2, <1>4

LEMMA LeaksMatch ==
    ASSUME NEW t \in Threads, NEW l \in Seq(Entry), NEW own \in Owners, NEW blk, Matches(l, t, own, blk)
    PROVE  /\ Alloc!ToSet(Alloc!Leaks(l)) = {blk[p] : p \in {q \in Addresses : own[q] = t}}
           /\ Len(Alloc!Leaks(l)) = Cardinality({q \in Addresses : own[q] = t})
<1>1. LeaksOf(Alloc!Leaks(l), l, Len(l))
  BY LeaksAre DEF Matches
<1>2. ASSUME NEW i \in 1 .. Len(l), ~l[i].freed
      PROVE  l[i].ptr \in Addresses /\ own[l[i].ptr] = t /\ blk[l[i].ptr] = l[i].block
  <2>1. l[i] \in Entry
    OBVIOUS
  <2> QED BY <1>2, <2>1 DEF Matches, Entry
<1>3. ASSUME NEW p \in Addresses, own[p] = t
      PROVE  \E i \in Unfreed(l, Len(l)) : l[i].ptr = p /\ l[i].block = blk[p]
  <2>1. PICK i \in 1 .. Len(l) : l[i].ptr = p /\ ~l[i].freed
    BY <1>3 DEF Matches
  <2> QED BY <1>2, <2>1 DEF Unfreed
<1>4. Ptrs(l, Len(l)) = {q \in Addresses : own[q] = t}
  BY <1>2, <1>3 DEF Ptrs, Unfreed
<1>5. \A b : b \in Alloc!ToSet(Alloc!Leaks(l)) <=> \E p \in {q \in Addresses : own[q] = t} : b = blk[p]
  BY <1>1, <1>2, <1>3 DEF LeaksOf, Unfreed
<1> QED BY <1>1, <1>4, <1>5 DEF LeaksOf

-----------------------------------------------------------------------------
\* Live blocks have numbers of their own, and only live blocks are damaged.
BlocksOK(own, blk, n, hurt) ==
    /\ hurt \subseteq 1 .. n
    /\ \A p \in Addresses : own[p] # NoOwner => blk[p] \in 1 .. n
    /\ \A p, q \in Addresses : own[p] # NoOwner /\ own[q] # NoOwner /\ blk[p] = blk[q] => p = q

\* The damaged blocks that are not live.
Gone(own, blk, hurt) == {b \in hurt : \A p \in Addresses : own[p] # NoOwner => blk[p] # b}

Changes(f, g, p, v) == g[p] = v /\ \A q \in Addresses : q # p => g[q] = f[q]

LEMMA AddBlocks ==
    ASSUME NEW t, t # NoOwner, NEW own, NEW blk, NEW n \in Nat, NEW hurt,
           BlocksOK(own, blk, n, hurt), NEW p \in Addresses, own[p] = NoOwner,
           NEW o, Changes(own, o, p, t), NEW k, Changes(blk, k, p, n + 1)
    PROVE  BlocksOK(o, k, n + 1, hurt) /\ Gone(o, k, hurt) = Gone(own, blk, hurt)
<1>1. /\ o[p] = t /\ k[p] = n + 1
      /\ \A q \in Addresses : q # p => o[q] = own[q] /\ k[q] = blk[q]
  BY DEF Changes
<1>2. \A b \in 1 .. n : b \in 1 .. n + 1 /\ b # n + 1
  OBVIOUS
<1>3. n + 1 \in 1 .. n + 1
  OBVIOUS
<1>4. BlocksOK(o, k, n + 1, hurt)
  BY <1>1, <1>2, <1>3 DEF BlocksOK
<1>5. ASSUME NEW b \in hurt
      PROVE  (\A q \in Addresses : o[q] # NoOwner => k[q] # b)
                <=> (\A q \in Addresses : own[q] # NoOwner => blk[q] # b)
  <2>1. b # n + 1
    BY <1>2 DEF BlocksOK
  <2> QED BY <1>1, <2>1
<1> QED BY <1>4, <1>5 DEF Gone

LEMMA FreeBlocks ==
    ASSUME NEW own, NEW blk, NEW n, NEW hurt, BlocksOK(own, blk, n, hurt),
           NEW p \in Addresses, NEW o, Changes(own, o, p, NoOwner)
    PROVE  /\ BlocksOK(o, blk, n, hurt)
           /\ own[p] # NoOwner =>
                Gone(o, blk, hurt) =
                  IF blk[p] \in hurt THEN Gone(own, blk, hurt) \cup {blk[p]} ELSE Gone(own, blk, hurt)
<1>1. o[p] = NoOwner /\ \A q \in Addresses : q # p => o[q] = own[q]
  BY DEF Changes
<1>2. BlocksOK(o, blk, n, hurt)
  BY <1>1 DEF BlocksOK
<1>3. ASSUME own[p] # NoOwner, NEW b \in hurt
      PROVE  (\A q \in Addresses : o[q] # NoOwner => blk[q] # b)
                <=> b = blk[p] \/ (\A q \in Addresses : own[q] # NoOwner => blk[q] # b)
  <2>1. CASE b = blk[p]
    BY <1>1, <1>3, <2>1 DEF BlocksOK
  <2>2. CASE b # blk[p]
    BY <1>1, <2>2
  <2> QED BY <2>1, <2>2
<1> QED BY <1>2, <1>3 DEF Gone

-----------------------------------------------------------------------------
AllocTypeOK ==
    /\ list \in [Threads -> Seq(Entry)] /\ owner \in Owners /\ block \in Numbers
    /\ blocks \in Nat /\ clean \in BOOLEAN
    /\ alloc_pc \in {"run", "aborted", "exited"}
    /\ alloc_pc = "run" => records = <<[thread |-> Main, list |-> <<>>]>>

\* As long as the program keeps the rules, the lists are right and what is
\* damaged and gone was reported; at the exit, so were the leaks.
CleanInv ==
    clean =>
      /\ alloc_pc # "aborted"
      /\ \A t \in Threads : Matches(list[t], t, owner, block)
      /\ warned = Gone(owner, block, damaged)
ExitInv ==
    clean /\ alloc_pc = "exited" =>
      \E t \in Threads : /\ Alloc!ToSet(reported) = {block[p] : p \in Alloc!Live(t)}
                         /\ Len(reported) = Cardinality(Alloc!Live(t))

AllocIInv == AllocTypeOK /\ BlocksOK(owner, block, blocks, damaged) /\ CleanInv /\ ExitInv

LEMMA AllocInit == ASSUME NoOwnerAssumption, Alloc!Init PROVE AllocIInv
<1>1. AllocTypeOK
  <2>1. [t \in Threads |-> <<>>] \in [Threads -> Seq(Entry)]
    BY EmptySeq
  <2> QED BY <2>1 DEF Alloc!Init, AllocTypeOK, Owners, Numbers
<1>2. BlocksOK(owner, block, blocks, damaged)
  BY DEF Alloc!Init, BlocksOK
<1>3. \A t \in Threads : Matches(list[t], t, owner, block)
  BY DEF Alloc!Init, Matches, NoOwnerAssumption
<1>4. warned = Gone(owner, block, damaged)
  BY DEF Alloc!Init, Gone
<1>5. alloc_pc = "run"
  BY DEF Alloc!Init
<1> QED BY <1>1, <1>2, <1>3, <1>4, <1>5 DEF AllocIInv, CleanInv, ExitInv

LEMMA StepMalloc ==
    ASSUME NoOwnerAssumption, AllocIInv, NEW t \in Threads, Alloc!Malloc(t)
    PROVE  AllocIInv'
<1>0. /\ list \in [Threads -> Seq(Entry)] /\ owner \in Owners /\ block \in Numbers
      /\ blocks \in Nat /\ clean \in BOOLEAN /\ alloc_pc = "run"
      /\ BlocksOK(owner, block, blocks, damaged)
  BY DEF AllocIInv, AllocTypeOK, Alloc!Malloc, Alloc!Running
<1>a. PICK p \in Addresses : \E l \in Alloc!Listing(t, p) :
         /\ Alloc!Allocate(p)
         /\ owner' = [owner EXCEPT ![p] = t]
         /\ list' = [list EXCEPT ![t] = l]
         /\ clean' = (clean /\ l # list[t])
  BY DEF Alloc!Malloc
<1>1. PICK l \in Alloc!Listing(t, p) :
         /\ Alloc!Allocate(p)
         /\ owner' = [owner EXCEPT ![p] = t]
         /\ list' = [list EXCEPT ![t] = l]
         /\ clean' = (clean /\ l # list[t])
  BY <1>a
<1>2. /\ owner[p] = NoOwner /\ blocks' = blocks + 1 /\ block' = [block EXCEPT ![p] = blocks + 1]
      /\ UNCHANGED <<damaged, records, warned, reported, alloc_pc>>
  BY <1>1 DEF Alloc!Malloc, Alloc!Allocate
<1>3. list[t] \in Seq(Entry) /\ blocks + 1 \in Nat
  BY <1>0
<1>4. PICK r : r = Alloc!AddAlloc(list[t], blocks + 1, p)
  OBVIOUS
<1>5. r \in Seq(Entry) /\ l \in {r, list[t]}
  BY <1>3, <1>4, AddAllocList DEF Alloc!Listing
<1>6. AllocTypeOK'
  <2>1. list' \in [Threads -> Seq(Entry)] /\ owner' \in Owners /\ block' \in Numbers /\ blocks' \in Nat
    BY <1>0, <1>1, <1>2, <1>3, <1>5 DEF Owners, Numbers
  <2>2. clean' \in BOOLEAN
    BY <1>0, <1>1, Zenon
  <2> QED BY <1>0, <1>2, <2>1, <2>2 DEF AllocTypeOK, AllocIInv
<1>7. /\ BlocksOK(owner', block', blocks', damaged')
      /\ Gone(owner', block', damaged') = Gone(owner, block, damaged)
  <2>1. t # NoOwner
    BY DEF NoOwnerAssumption
  <2>2. Changes(owner, owner', p, t) /\ Changes(block, block', p, blocks + 1)
    BY <1>0, <1>1, <1>2 DEF Changes, Owners, Numbers
  <2>3. /\ BlocksOK(owner', block', blocks + 1, damaged)
        /\ Gone(owner', block', damaged) = Gone(owner, block, damaged)
    BY <1>0, <1>2, <2>1, <2>2, AddBlocks
  <2> QED BY <1>2, <2>3
<1>8. ASSUME clean' PROVE CleanInv'
  <2>1. clean /\ l = r
    BY <1>1, <1>5, <1>8
  <2>2. /\ \A u \in Threads : Matches(list[u], u, owner, block)
        /\ warned = Gone(owner, block, damaged)
    BY <2>1 DEF AllocIInv, CleanInv
  <2>3. Matches(r, t, owner', block')
    BY <1>0, <1>1, <1>2, <1>3, <1>4, <2>2, AddMatches
  <2>4. ASSUME NEW u \in Threads PROVE Matches(list'[u], u, owner', block')
    <3>1. CASE u = t
      BY <1>0, <1>1, <2>1, <2>3, <3>1
    <3>2. CASE u # t
      <4>1. list'[u] = list[u] /\ list[u] \in Seq(Entry)
        BY <1>0, <1>1, <3>2
      <4>2. Matches(list[u], u, [owner EXCEPT ![p] = t], [block EXCEPT ![p] = blocks + 1])
        BY <1>0, <1>2, <1>3, <2>2, <3>2, <4>1, AddMatchesOther
      <4> QED BY <1>1, <1>2, <4>1, <4>2
    <3> QED BY <3>1, <3>2
  <2>5. warned' = Gone(owner', block', damaged') /\ alloc_pc' = "run"
    BY <1>0, <1>2, <1>7, <2>2
  <2> QED BY <2>4, <2>5 DEF CleanInv
<1>9. alloc_pc' # "exited"
  BY <1>0, <1>2
<1> QED BY <1>6, <1>7, <1>8, <1>9 DEF AllocIInv, CleanInv, ExitInv

LEMMA StepFree ==
    ASSUME NoOwnerAssumption, AllocIInv, NEW t \in Threads, Alloc!Free(t)
    PROVE  AllocIInv'
<1>0. /\ list \in [Threads -> Seq(Entry)] /\ owner \in Owners /\ block \in Numbers
      /\ blocks \in Nat /\ clean \in BOOLEAN /\ alloc_pc = "run"
      /\ BlocksOK(owner, block, blocks, damaged)
  BY DEF AllocIInv, AllocTypeOK, Alloc!Free, Alloc!Running
<1>1. PICK p \in Addresses :
         /\ clean' = (clean /\ p \in Alloc!Live(t))
         /\ IF Alloc!Find(list[t], p) = 0 \/ list[t][Alloc!Find(list[t], p)].freed
            THEN alloc_pc' = "aborted" /\ UNCHANGED <<list, owner, warned>>
            ELSE /\ list' = [list EXCEPT ![t] = Alloc!Freed(list[t], Alloc!Find(list[t], p))]
                 /\ owner' = [owner EXCEPT ![p] = NoOwner]
                 /\ Alloc!Warn(block[p])
                 /\ UNCHANGED alloc_pc
  BY DEF Alloc!Free
<1>2. UNCHANGED <<block, damaged, records, blocks, reported>>
  BY DEF Alloc!Free
<1>3. list[t] \in Seq(Entry)
  BY <1>0
<1>4. PICK n : n = Alloc!Find(list[t], p)
  OBVIOUS
<1>5. clean' \in BOOLEAN
  BY <1>0, <1>1, Zenon
<1>6. CASE n = 0 \/ list[t][n].freed
  <2>1. alloc_pc' = "aborted" /\ UNCHANGED <<list, owner, warned>>
    BY <1>1, <1>4, <1>6
  <2>2. ~clean'
    <3> SUFFICES ASSUME clean, p \in Alloc!Live(t) PROVE FALSE
      BY <1>1
    <3>1. Matches(list[t], t, owner, block) /\ owner[p] = t
      BY DEF AllocIInv, CleanInv, Alloc!Live
    <3>2. n \in 1 .. Len(list[t]) /\ ~list[t][n].freed
      BY <1>0, <1>3, <1>4, <3>1, FreeMatches
    <3> QED BY <1>6, <3>2
  <2>3. AllocTypeOK'
    BY <1>0, <1>2, <1>5, <2>1 DEF AllocTypeOK
  <2> QED BY <1>0, <1>2, <2>1, <2>2, <2>3 DEF AllocIInv, CleanInv, ExitInv
<1>7. CASE ~(n = 0 \/ list[t][n].freed)
  <2>1. /\ list' = [list EXCEPT ![t] = Alloc!Freed(list[t], n)]
        /\ owner' = [owner EXCEPT ![p] = NoOwner]
        /\ warned' = IF block[p] \in damaged THEN warned \cup {block[p]} ELSE warned
        /\ alloc_pc' = alloc_pc
    BY <1>1, <1>4, <1>7 DEF Alloc!Warn
  <2>2. n \in 1 .. Len(list[t])
    BY <1>3, <1>4, <1>7, FindFirst
  <2>3. Alloc!Freed(list[t], n) \in Seq(Entry)
    <3>1. list[t][n] \in Entry
      BY <1>3, <2>2
    <3>2. [list[t][n] EXCEPT !.freed = TRUE] \in Entry
      BY <3>1 DEF Entry
    <3>3. Alloc!Freed(list[t], n) = [list[t] EXCEPT ![n] = [list[t][n] EXCEPT !.freed = TRUE]]
      BY DEF Alloc!Freed
    <3> QED BY <1>3, <2>2, <3>2, <3>3, ExceptSeq
  <2>4. AllocTypeOK'
    <3>1. list' \in [Threads -> Seq(Entry)] /\ owner' \in Owners
      BY <1>0, <2>1, <2>3 DEF Owners
    <3> QED BY <1>0, <1>2, <1>5, <2>1, <3>1 DEF AllocTypeOK, AllocIInv
  <2>5. /\ BlocksOK(owner', block, blocks, damaged)
        /\ owner[p] # NoOwner => Gone(owner', block, damaged) =
                                 IF block[p] \in damaged THEN Gone(owner, block, damaged) \cup {block[p]}
                                 ELSE Gone(owner, block, damaged)
    <3>1. Changes(owner, owner', p, NoOwner)
      BY <1>0, <2>1 DEF Changes, Owners
    <3> QED BY <1>0, <3>1, FreeBlocks
  <2>6. ASSUME clean' PROVE CleanInv'
    <3>1. clean /\ owner[p] = t /\ t # NoOwner
      BY <1>1, <2>6 DEF Alloc!Live, NoOwnerAssumption
    <3>2. /\ \A u \in Threads : Matches(list[u], u, owner, block)
          /\ warned = Gone(owner, block, damaged)
      BY <3>1 DEF AllocIInv, CleanInv
    <3>3. Matches(Alloc!Freed(list[t], n), t, owner', block)
      BY <1>0, <1>3, <1>4, <2>1, <3>1, <3>2, FreeMatches
    <3>4. ASSUME NEW u \in Threads PROVE Matches(list'[u], u, owner', block)
      <4>1. CASE u = t
        BY <1>0, <2>1, <3>3, <4>1
      <4>2. CASE u # t
        <5>1. list'[u] = list[u] /\ list[u] \in Seq(Entry)
          BY <1>0, <2>1, <4>2
        <5> QED BY <1>0, <2>1, <3>1, <3>2, <4>2, <5>1, FreeMatchesOther
      <4> QED BY <4>1, <4>2
    <3>5. warned' = Gone(owner', block, damaged)
      BY <2>1, <2>5, <3>1, <3>2
    <3> QED BY <1>0, <1>2, <2>1, <3>4, <3>5 DEF CleanInv
  <2> QED BY <1>0, <1>2, <2>1, <2>4, <2>5, <2>6 DEF AllocIInv, CleanInv, ExitInv
<1> QED BY <1>6, <1>7

\* What is the list with the new entry, or without it, still has an entry of each
\* address that it had.
LEMMA ListingFind ==
    ASSUME NEW l \in Seq(Entry), NEW p \in Addresses, NEW q \in Addresses, NEW b \in Nat,
           Alloc!Find(l, p) # 0
    PROVE  Alloc!Find(Alloc!AddAlloc(l, b, q), p) # 0
<1>1. PICK r : r = Alloc!AddAlloc(l, b, q)
  OBVIOUS
<1>2. /\ r \in Seq(Entry) /\ Len(r) = 1 + Len(l) /\ Len(l) \in Nat
      /\ r[1] = [block |-> b, ptr |-> q, freed |-> FALSE]
      /\ \A i \in 1 .. Len(l) : r[1 + i] = l[i]
  BY <1>1, AddAllocList
<1>3. PICK n : n = Alloc!Find(l, p)
  OBVIOUS
<1>4. n \in 1 .. Len(l) /\ l[n].ptr = p
  BY <1>3, FindFirst
<1>5. PICK m : m = Alloc!Find(r, p)
  OBVIOUS
<1>6. 1 + n \in 1 .. Len(r) /\ r[1 + n].ptr = p
  BY <1>2, <1>4
<1>7. \/ m = 0 /\ \A i \in 1 .. Len(r) : r[i].ptr # p
      \/ m \in 1 .. Len(r)
  BY <1>2, <1>5, FindFirst
<1> QED BY <1>1, <1>5, <1>6, <1>7

LEMMA FreedList ==
    ASSUME NEW l \in Seq(Entry), NEW n \in 1 .. Len(l)
    PROVE  Alloc!Freed(l, n) \in Seq(Entry)
<1>1. l[n] \in Entry
  OBVIOUS
<1>2. [l[n] EXCEPT !.freed = TRUE] \in Entry
  BY <1>1 DEF Entry
<1>3. Alloc!Freed(l, n) = [l EXCEPT ![n] = [l[n] EXCEPT !.freed = TRUE]]
  BY DEF Alloc!Freed
<1> QED BY <1>2, <1>3, ExceptSeq

LEMMA StepRealloc ==
    ASSUME NoOwnerAssumption, AllocIInv, NEW t \in Threads, Alloc!Realloc(t)
    PROVE  AllocIInv'
<1>0. /\ list \in [Threads -> Seq(Entry)] /\ owner \in Owners /\ block \in Numbers
      /\ blocks \in Nat /\ clean \in BOOLEAN /\ alloc_pc = "run"
      /\ BlocksOK(owner, block, blocks, damaged)
  BY DEF AllocIInv, AllocTypeOK, Alloc!Realloc, Alloc!Running
<1>a. PICK p \in Addresses : \E q \in Addresses : \E l \in Alloc!Listing(t, q) :
         /\ Alloc!Find(list[t], p) # 0
         /\ Alloc!Allocate(q)
         /\ clean' = (clean /\ p \in Alloc!Live(t) /\ l # list[t])
         /\ IF l[Alloc!Find(l, p)].freed
            THEN /\ alloc_pc' = "aborted"
                 /\ owner' = [owner EXCEPT ![q] = t]
                 /\ list' = [list EXCEPT ![t] = l]
                 /\ UNCHANGED warned
            ELSE /\ list' = [list EXCEPT ![t] = Alloc!Freed(l, Alloc!Find(l, p))]
                 /\ owner' = [owner EXCEPT ![q] = t, ![p] = NoOwner]
                 /\ Alloc!Warn(block'[p])
                 /\ UNCHANGED alloc_pc
  BY DEF Alloc!Realloc
<1>b. PICK q \in Addresses : \E l \in Alloc!Listing(t, q) :
         /\ Alloc!Find(list[t], p) # 0
         /\ Alloc!Allocate(q)
         /\ clean' = (clean /\ p \in Alloc!Live(t) /\ l # list[t])
         /\ IF l[Alloc!Find(l, p)].freed
            THEN /\ alloc_pc' = "aborted"
                 /\ owner' = [owner EXCEPT ![q] = t]
                 /\ list' = [list EXCEPT ![t] = l]
                 /\ UNCHANGED warned
            ELSE /\ list' = [list EXCEPT ![t] = Alloc!Freed(l, Alloc!Find(l, p))]
                 /\ owner' = [owner EXCEPT ![q] = t, ![p] = NoOwner]
                 /\ Alloc!Warn(block'[p])
                 /\ UNCHANGED alloc_pc
  BY <1>a
<1>1. PICK l \in Alloc!Listing(t, q) :
         /\ Alloc!Find(list[t], p) # 0
         /\ Alloc!Allocate(q)
         /\ clean' = (clean /\ p \in Alloc!Live(t) /\ l # list[t])
         /\ IF l[Alloc!Find(l, p)].freed
            THEN /\ alloc_pc' = "aborted"
                 /\ owner' = [owner EXCEPT ![q] = t]
                 /\ list' = [list EXCEPT ![t] = l]
                 /\ UNCHANGED warned
            ELSE /\ list' = [list EXCEPT ![t] = Alloc!Freed(l, Alloc!Find(l, p))]
                 /\ owner' = [owner EXCEPT ![q] = t, ![p] = NoOwner]
                 /\ Alloc!Warn(block'[p])
                 /\ UNCHANGED alloc_pc
  BY <1>b
<1>2. /\ owner[q] = NoOwner /\ blocks' = blocks + 1 /\ block' = [block EXCEPT ![q] = blocks + 1]
      /\ UNCHANGED <<damaged, records, reported>>
  BY <1>1 DEF Alloc!Realloc, Alloc!Allocate
<1>3. list[t] \in Seq(Entry) /\ blocks + 1 \in Nat
  BY <1>0
<1>4. PICK r : r = Alloc!AddAlloc(list[t], blocks + 1, q)
  OBVIOUS
<1>5. r \in Seq(Entry) /\ l \in {r, list[t]}
  BY <1>3, <1>4, AddAllocList DEF Alloc!Listing
<1>6. PICK n : n = Alloc!Find(l, p)
  OBVIOUS
<1>7. l \in Seq(Entry) /\ n \in 1 .. Len(l)
  <2>1. l \in Seq(Entry)
    BY <1>3, <1>5
  <2>2. n # 0
    BY <1>1, <1>3, <1>4, <1>5, <1>6, ListingFind
  <2> QED BY <1>6, <2>1, <2>2, FindFirst
<1>8. clean' \in BOOLEAN
  BY <1>0, <1>1, Zenon
<1>9. PICK o : o = [owner EXCEPT ![q] = t]
  OBVIOUS
<1>10. PICK k : k = [block EXCEPT ![q] = blocks + 1]
  OBVIOUS
<1>11. o \in Owners /\ k \in Numbers /\ o[q] = t /\ t # NoOwner /\ block' = k
  BY <1>0, <1>2, <1>3, <1>9, <1>10 DEF Owners, Numbers, NoOwnerAssumption
<1>12. BlocksOK(o, k, blocks + 1, damaged) /\ Gone(o, k, damaged) = Gone(owner, block, damaged)
  <2>1. Changes(owner, o, q, t) /\ Changes(block, k, q, blocks + 1)
    BY <1>0, <1>9, <1>10 DEF Changes, Owners, Numbers
  <2> QED BY <1>0, <1>2, <1>11, <2>1, AddBlocks
\* What a program that keeps the rules has found.
<1>13. ASSUME clean'
       PROVE  /\ p # q /\ o[p] = t /\ clean /\ l = r
              /\ warned = Gone(owner, block, damaged)
              /\ \A u \in Threads : Matches(list[u], u, owner, block)
              /\ Matches(l, t, o, k) /\ ~l[n].freed
  <2>1. clean /\ owner[p] = t /\ l = r
    BY <1>1, <1>5, <1>13 DEF Alloc!Live
  <2>2. p # q /\ o[p] = t
    BY <1>0, <1>2, <1>9, <1>11, <2>1 DEF Owners
  <2>3. /\ warned = Gone(owner, block, damaged)
        /\ \A u \in Threads : Matches(list[u], u, owner, block)
    BY <2>1 DEF AllocIInv, CleanInv
  <2>4. Matches(l, t, o, k)
    BY <1>0, <1>2, <1>3, <1>4, <1>9, <1>10, <2>1, <2>3, AddMatches
  <2>5. ~l[n].freed
    BY <1>6, <1>7, <1>11, <2>2, <2>4, FreeMatches
  <2> QED BY <2>1, <2>2, <2>3, <2>4, <2>5
<1>14. CASE l[n].freed
  <2>1. alloc_pc' = "aborted" /\ owner' = o /\ list' = [list EXCEPT ![t] = l]
    BY <1>1, <1>6, <1>9, <1>14
  <2>2. ~clean'
    BY <1>13, <1>14
  <2>3. AllocTypeOK'
    BY <1>0, <1>2, <1>3, <1>7, <1>8, <1>11, <2>1 DEF AllocTypeOK
  <2>4. BlocksOK(owner', block', blocks', damaged')
    BY <1>2, <1>11, <1>12, <2>1
  <2> QED BY <2>2, <2>3, <2>4 DEF AllocIInv, CleanInv, ExitInv
<1>15. CASE ~l[n].freed
  <2>1. /\ list' = [list EXCEPT ![t] = Alloc!Freed(l, n)]
        /\ owner' = [owner EXCEPT ![q] = t, ![p] = NoOwner]
        /\ warned' = IF k[p] \in damaged THEN warned \cup {k[p]} ELSE warned
        /\ alloc_pc' = alloc_pc
    BY <1>1, <1>6, <1>11, <1>15 DEF Alloc!Warn
  <2>2. owner' = [o EXCEPT ![p] = NoOwner]
    BY <1>0, <1>9, <2>1 DEF Owners
  <2>3. AllocTypeOK'
    <3>1. Alloc!Freed(l, n) \in Seq(Entry)
      BY <1>7, FreedList
    <3>2. list' \in [Threads -> Seq(Entry)] /\ owner' \in Owners
      BY <1>0, <1>11, <2>1, <2>2, <3>1 DEF Owners
    <3> QED BY <1>0, <1>2, <1>3, <1>8, <1>11, <2>1, <3>2 DEF AllocTypeOK, AllocIInv
  <2>4. /\ BlocksOK(owner', k, blocks + 1, damaged)
        /\ o[p] # NoOwner => Gone(owner', k, damaged) =
                            IF k[p] \in damaged THEN Gone(o, k, damaged) \cup {k[p]}
                            ELSE Gone(o, k, damaged)
    <3>1. Changes(o, owner', p, NoOwner)
      BY <1>11, <2>2 DEF Changes, Owners
    <3> QED BY <1>12, <3>1, FreeBlocks
  <2>5. ASSUME clean' PROVE CleanInv'
    <3>1. Matches(Alloc!Freed(l, n), t, owner', k)
      BY <1>6, <1>7, <1>11, <1>13, <2>2, <2>5, FreeMatches
    <3>2. ASSUME NEW u \in Threads PROVE Matches(list'[u], u, owner', block')
      <4>1. CASE u = t
        BY <1>0, <1>11, <2>1, <3>1, <4>1
      <4>2. CASE u # t
        <5>1. list'[u] = list[u] /\ list[u] \in Seq(Entry)
          BY <1>0, <2>1, <4>2
        <5>2. Matches(list[u], u, owner, block)
          BY <1>13, <2>5
        <5>3. Matches(list[u], u, o, k)
          BY <1>0, <1>2, <1>3, <1>9, <1>10, <4>2, <5>1, <5>2, AddMatchesOther
        <5>4. o[p] = t
          BY <1>13, <2>5
        <5> QED BY <1>11, <2>2, <4>2, <5>1, <5>3, <5>4, FreeMatchesOther
      <4> QED BY <4>1, <4>2
    <3>3. warned' = Gone(owner', k, damaged)
      BY <1>11, <1>12, <1>13, <2>1, <2>4, <2>5
    <3> QED BY <1>0, <1>2, <1>11, <2>1, <3>2, <3>3 DEF CleanInv
  <2> QED BY <1>0, <1>2, <1>11, <2>1, <2>3, <2>4, <2>5 DEF AllocIInv, CleanInv, ExitInv
<1> QED BY <1>14, <1>15

LEMMA StepOverrun == ASSUME NoOwnerAssumption, AllocIInv, Alloc!Overrun PROVE AllocIInv'
<1>1. PICK p \in Addresses : owner[p] # NoOwner /\ damaged' = damaged \cup {block[p]}
  BY DEF Alloc!Overrun
<1>2. /\ alloc_pc = "run"
      /\ UNCHANGED <<list, owner, block, records, blocks, warned, reported, clean, alloc_pc>>
  BY DEF Alloc!Overrun, Alloc!Running
<1>3. BlocksOK(owner, block, blocks, damaged)
  BY DEF AllocIInv
<1>4. BlocksOK(owner, block, blocks, damaged')
  BY <1>1, <1>3 DEF BlocksOK
<1>5. Gone(owner, block, damaged') = Gone(owner, block, damaged)
  BY <1>1 DEF Gone
<1>6. AllocTypeOK'
  BY <1>2 DEF AllocIInv, AllocTypeOK
<1>7. CleanInv'
  BY <1>2, <1>5 DEF AllocIInv, CleanInv
<1> QED BY <1>2, <1>4, <1>6, <1>7 DEF AllocIInv, ExitInv

\* The only list registered before the exit is the empty one of the constructor.
LEMMA RecordsEmpty ==
    ASSUME NEW rec, rec = <<[thread |-> Main, list |-> <<>>]>>
    PROVE  Alloc!FlattenSeq([i \in DOMAIN rec |-> rec[i].list]) = <<>>
<1>1. PICK seqs : seqs = [i \in DOMAIN rec |-> rec[i].list]
  OBVIOUS
<1>2. Len(seqs) = 1 /\ seqs[1] = <<>>
  <2>1. DOMAIN rec = 1 .. 1 /\ rec[1].list = <<>>
    OBVIOUS
  <2> QED BY <1>1, <2>1
<1> DEFINE Flat(f) == f = [i \in 1 .. Len(seqs) |-> IF i = 1 THEN seqs[i] ELSE f[i - 1] \o seqs[i]]
<1>3. Alloc!FlattenSeq(seqs) = (CHOOSE f : Flat(f))[Len(seqs)]
  BY <1>2 DEF Alloc!FlattenSeq
<1>4. Flat([i \in 1 .. 1 |-> <<>>])
  BY <1>2
<1>5. PICK g : g = CHOOSE f : Flat(f)
  OBVIOUS
<1>6. Flat(g)
  <2> HIDE DEF Flat
  <2> QED BY <1>4, <1>5
<1>7. g[1] = <<>>
  BY <1>2, <1>6
<1> QED BY <1>1, <1>2, <1>3, <1>5, <1>7

LEMMA StepExit ==
    ASSUME NoOwnerAssumption, AllocIInv, NEW t \in Threads, Alloc!Exit(t)
    PROVE  AllocIInv'
<1>1. /\ list \in [Threads -> Seq(Entry)] /\ owner \in Owners
      /\ alloc_pc = "run" /\ records = <<[thread |-> Main, list |-> <<>>]>>
  BY DEF AllocIInv, AllocTypeOK, Alloc!Exit, Alloc!Running
<1>2. /\ alloc_pc' = "exited"
      /\ reported' = Alloc!Leaks(list[t] \o Alloc!FlattenSeq([i \in DOMAIN records |-> records[i].list]))
      /\ UNCHANGED <<list, owner, block, damaged, blocks, warned, clean>>
  BY DEF Alloc!Exit
<1>3. reported' = Alloc!Leaks(list[t])
  <2>1. Alloc!FlattenSeq([i \in DOMAIN records |-> records[i].list]) = <<>>
    BY <1>1, RecordsEmpty
  <2>2. list[t] \o <<>> = list[t]
    BY <1>1
  <2> QED BY <1>2, <2>1, <2>2
<1>4. AllocTypeOK'
  BY <1>2 DEF AllocIInv, AllocTypeOK
<1>5. CleanInv'
  BY <1>1, <1>2 DEF AllocIInv, CleanInv
<1>6. ASSUME clean' PROVE ExitInv'
  <2>1. Matches(list[t], t, owner, block)
    BY <1>2, <1>6 DEF AllocIInv, CleanInv
  <2>2. /\ Alloc!ToSet(Alloc!Leaks(list[t])) = {block[p] : p \in {q \in Addresses : owner[q] = t}}
        /\ Len(Alloc!Leaks(list[t])) = Cardinality({q \in Addresses : owner[q] = t})
    BY <1>1, <2>1, LeaksMatch
  <2>3. /\ Alloc!ToSet(reported') = {block'[p] : p \in Alloc!Live(t)'}
        /\ Len(reported') = Cardinality(Alloc!Live(t)')
    BY <1>2, <1>3, <2>2 DEF Alloc!Live
  <2> QED BY <2>3 DEF ExitInv
<1> QED BY <1>2, <1>4, <1>5, <1>6 DEF AllocIInv, ExitInv

LEMMA AllocNext == ASSUME NoOwnerAssumption, AllocIInv, [Alloc!Next]_(Alloc!vars) PROVE AllocIInv'
<1>1. CASE Alloc!Overrun
  BY <1>1, StepOverrun
<1>2. ASSUME NEW t \in Threads, Alloc!Malloc(t) \/ Alloc!Free(t) \/ Alloc!Realloc(t) \/ Alloc!Exit(t)
      PROVE  AllocIInv'
  BY <1>2, StepMalloc, StepFree, StepRealloc, StepExit
<1>3. CASE UNCHANGED Alloc!vars
  <2>1. UNCHANGED <<list, owner, block, damaged, records, blocks, warned, reported, clean, alloc_pc>>
    BY <1>3 DEF Alloc!vars
  <2> QED BY <2>1 DEF AllocIInv, AllocTypeOK, CleanInv, ExitInv, Alloc!Live
<1> QED BY <1>1, <1>2, <1>3 DEF Alloc!Next

\* The instance has its own copy of the library's operator.
LEMMA AllocCardinality == \A X : Alloc!Cardinality(X) = Cardinality(X)
BY DEF Alloc!Cardinality, Cardinality

\* A program whose threads free only their own live blocks is never aborted by
\* the allocation tracker; each damaged block that was freed was reported, and
\* at the exit exactly the live blocks of the thread that exits are, each once.
THEOREM TrackerCorrect == ASSUME NoOwnerAssumption PROVE Alloc!Spec => []TrackerIsRight
<1>1. Alloc!Init => AllocIInv
  BY AllocInit
<1>2. AllocIInv /\ [Alloc!Next]_(Alloc!vars) => AllocIInv'
  BY AllocNext
<1>3. AllocIInv => TrackerIsRight
  BY AllocCardinality
     DEF AllocIInv, CleanInv, ExitInv, TrackerIsRight, Alloc!TrackerIsRight, Gone
<1> QED BY <1>1, <1>2, <1>3, PTL DEF Alloc!Spec
=============================================================================
