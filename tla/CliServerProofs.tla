---------------------------- MODULE CliServerProofs ----------------------------
(***************************************************************************)
(* The answers of the command line, for any clients, connections, commands,*)
(* stops, killed clients and ends of the server's program.                 *)
(***************************************************************************)
EXTENDS CliServer, SequenceTheorems, TLAPS

-----------------------------------------------------------------------------
(* What is on the way between a client and its handler.                     *)

Pcs == {"start", "connect", "prompt", "write", "await", "ask", "done"}
Commands == [number : Nat, quit : BOOLEAN]
Lines == [number : Nat, line : {"text", "END_OF_FILE", "LEAVE_OF_SERVER"}]

TypeOK ==
    /\ DOMAIN handler = Conns
    /\ client \in [Clients -> [pc : Pcs, conn : {0} \cup Conns, number : Nat, answer : Nat,
                               quit : BOOLEAN]]
    /\ command \in [Conns -> Commands]
    /\ toserver \in [Conns -> Seq(Commands)] /\ toclient \in [Conns -> Seq(Lines)]

\* A connection is that of one client, and nothing is on the way before it is made.
ConnInv ==
    /\ \A c, d \in Clients : client[c].conn = client[d].conn => c = d \/ client[c].conn = 0
    /\ \A c \in Clients : client[c].conn = 0 <=> client[c].pc \in {"start", "connect", "done"}
    /\ \A i \in Conns : handler[i] = "none" =>
          /\ toserver[i] = <<>> /\ toclient[i] = <<>>
          /\ \A c \in Clients : client[c].conn # i

Executes(i) == handler[i] \in {"exec", "end"}

\* What client c sends and gets on connection i has the number of its last command.
Numbered(c, i) ==
    /\ Executes(i) => command[i].number = client[c].number
    /\ \A p \in DOMAIN toserver[i] : toserver[i][p].number = client[c].number
    /\ \A p \in DOMAIN toclient[i] :
          toclient[i][p] = Farewell \/ toclient[i][p].number = client[c].number

\* That command is on the way, is executed, or is answered - once, and the
\* answer ends with its END_OF_FILE - as long as the server keeps the connection.
Answering(c, i) ==
    /\ toserver[i] # <<>> => Len(toserver[i]) = 1 /\ ~Executes(i)
    /\ toserver[i] # <<>> \/ Executes(i) =>
          /\ client[c].pc = "await"
          /\ \A p \in DOMAIN toclient[i] : toclient[i][p].line # "END_OF_FILE"
    /\ client[c].pc # "await" => \A p \in DOMAIN toclient[i] : toclient[i][p] = Farewell
    /\ \A p, q \in DOMAIN toclient[i] :
          p < q /\ toclient[i][p].line = "END_OF_FILE" => toclient[i][q] = Farewell

Matches(c, i) == Numbered(c, i) /\ (ServerEnded(i) \/ Answering(c, i))

MatchInv == \A c \in Clients, i \in Conns : client[c].conn = i => Matches(c, i)

IInv == TypeOK /\ ConnInv /\ MatchInv /\ AnswersMatch

-----------------------------------------------------------------------------
LEMMA Appended ==
  ASSUME NEW S, NEW s \in Seq(S), NEW x \in S, NEW t, t = Append(s, x)
  PROVE  /\ t \in Seq(S)
         /\ \A p \in DOMAIN t : \/ p \in DOMAIN s /\ t[p] = s[p]
                                \/ t[p] = x /\ \A q \in DOMAIN t : q <= p
<1>1. PICK n \in Nat : n = Len(s)
  OBVIOUS
<1>2. /\ t \in Seq(S) /\ Len(t) = n + 1 /\ t[n + 1] = x
      /\ \A p \in 1 .. n : t[p] = s[p]
  BY <1>1, AppendProperties
<1>3. DOMAIN s = 1 .. n /\ DOMAIN t = 1 .. n + 1
  BY <1>1, <1>2
<1>4. ASSUME NEW p \in 1 .. n + 1, p \notin 1 .. n PROVE p = n + 1 /\ \A q \in 1 .. n + 1 : q <= p
  BY <1>4
<1> QED BY <1>2, <1>3, <1>4

LEMMA Tailed ==
  ASSUME NEW S, NEW s \in Seq(S), s # <<>>, NEW t, t = Tail(s)
  PROVE  /\ t \in Seq(S) /\ Head(s) \in S /\ Head(s) = s[1] /\ 1 \in DOMAIN s
         /\ \A p \in DOMAIN t : /\ p + 1 \in DOMAIN s /\ t[p] = s[p + 1] /\ 1 < p + 1
                                /\ \A q \in DOMAIN t : p < q => p + 1 < q + 1
         /\ Len(s) = 1 => t = <<>>
<1>1. PICK n \in Nat : n = Len(s)
  OBVIOUS
<1>2. /\ t \in Seq(S) /\ Head(s) \in S /\ Head(s) = s[1] /\ n # 0 /\ Len(t) = n - 1
      /\ \A p \in 1 .. n - 1 : t[p] = s[p + 1]
  BY <1>1, HeadTailProperties, EmptySeq
<1>3. DOMAIN s = 1 .. n /\ DOMAIN t = 1 .. n - 1
  BY <1>1, <1>2
<1>4. ASSUME NEW p \in 1 .. n - 1
      PROVE  p + 1 \in 1 .. n /\ 1 < p + 1 /\ \A q \in 1 .. n - 1 : p < q => p + 1 < q + 1
  OBVIOUS
<1>5. n = 1 => t = <<>>
  BY <1>2, EmptySeq
<1> QED BY <1>1, <1>2, <1>3, <1>4, <1>5

LEMMA InitIInv == Init => IInv
<1> SUFFICES ASSUME Init PROVE IInv
  OBVIOUS
<1>1. \A c \in Clients : client[c] = NotConnected("start")
  BY DEF Init
<1>2. \A c \in Clients : client[c].conn = 0 /\ client[c].pc = "start"
                         /\ client[c].answer = client[c].number
  BY <1>1 DEF NotConnected
<1>3. TypeOK
  <2>1. client \in [Clients -> [pc : Pcs, conn : {0} \cup Conns, number : Nat, answer : Nat,
                                quit : BOOLEAN]]
    BY DEF Init, NotConnected, Pcs
  <2> QED BY <2>1, EmptySeq DEF Init, TypeOK, NoCommand, Commands
<1>4. \A i \in Conns : i # 0
  BY DEF Conns
<1>5. ConnInv
  BY <1>2, <1>4 DEF Init, ConnInv
<1>6. MatchInv
  BY <1>2, <1>4 DEF MatchInv
<1> QED BY <1>2, <1>3, <1>5, <1>6 DEF IInv, AnswersMatch

\* A connection and its client that are left as they are, but for stages of the
\* handler in which it does not execute.
LEMMA MatchKept ==
  ASSUME NEW c, NEW i, Matches(c, i),
         client'[c].number = client[c].number,
         client'[c].pc = "await" <=> client[c].pc = "await",
         toserver'[i] = toserver[i], toclient'[i] = toclient[i],
         Executes(i)' => Executes(i) /\ command'[i] = command[i],
         ServerEnded(i) => ServerEnded(i)'
  PROVE  Matches(c, i)'
<1>1. Numbered(c, i)'
  BY DEF Matches, Numbered
<1>2. Answering(c, i) => Answering(c, i)'
  BY DEF Answering
<1> QED BY <1>1, <1>2 DEF Matches

\* What the server has ended stays ended, but when its program starts again.
LEMMA EndedKept ==
  ASSUME NEW i, up' => up, shut \subseteq shut',
         handler[i] \in {"again", "gone"} => handler'[i] \in {"again", "gone"}
  PROVE  ServerEnded(i) => ServerEnded(i)'
BY DEF ServerEnded

\* A step that neither sends nor reads nor executes anything.
LEMMA QuietStep ==
  ASSUME IInv, UNCHANGED <<up, shut, command, toserver, toclient>>,
         DOMAIN handler' = Conns,
         \A i \in Conns : /\ handler'[i] = "none" <=> handler[i] = "none"
                          /\ Executes(i)' => Executes(i)
                          /\ handler[i] \in {"again", "gone"} => handler'[i] \in {"again", "gone"},
         client' \in [Clients -> [pc : Pcs, conn : {0} \cup Conns, number : Nat, answer : Nat,
                                  quit : BOOLEAN]],
         \A c \in Clients :
            \/ client'[c] = client[c]
            \/ client'[c].conn = 0 /\ client'[c].pc \in {"start", "connect", "done"}
               /\ client'[c].answer = client'[c].number
            \/ /\ client'[c].conn = client[c].conn /\ client[c].conn # 0
               /\ client'[c].number = client[c].number /\ client'[c].answer = client[c].answer
               /\ client[c].pc # "await" /\ client'[c].pc \in {"prompt", "write", "ask"}
  PROVE  IInv'
<1>1. TypeOK'
  BY DEF IInv, TypeOK
<1>2. \A c \in Clients : client'[c].conn = client[c].conn \/ client'[c].conn = 0
  OBVIOUS
<1>3. ConnInv'
  <2>1. ConnInv
    BY DEF IInv
  <2>2. \A c \in Clients : client'[c].conn = 0 <=> client'[c].pc \in {"start", "connect", "done"}
    BY <2>1 DEF ConnInv
  <2>3. \A i \in Conns : i # 0
    BY DEF Conns
  <2> QED BY <1>2, <2>1, <2>2, <2>3 DEF ConnInv
<1>4. ASSUME NEW c \in Clients, NEW i \in Conns, client'[c].conn = i PROVE Matches(c, i)'
  <2>1. i # 0
    BY DEF Conns
  <2>2. Matches(c, i)
    BY <1>2, <1>4, <2>1 DEF IInv, MatchInv
  <2>3. /\ client'[c].number = client[c].number
        /\ client'[c].pc = "await" <=> client[c].pc = "await"
    BY <1>4, <2>1
  <2>4. ServerEnded(i) => ServerEnded(i)'
    BY EndedKept
  <2> QED BY <2>2, <2>3, <2>4, MatchKept
<1>5. AnswersMatch'
  BY DEF IInv, AnswersMatch
<1> QED BY <1>1, <1>3, <1>4, <1>5 DEF IInv, MatchInv

\* A step on one connection, by its handler or its client.
LEMMA OneStep ==
  ASSUME IInv, TypeOK', NEW j \in Conns, handler[j] # "none", handler'[j] # "none",
         up' => up, shut \subseteq shut',
         \A i \in Conns \ {j} : /\ handler'[i] = handler[i] /\ command'[i] = command[i]
                                /\ toserver'[i] = toserver[i] /\ toclient'[i] = toclient[i],
         \A c \in Clients :
            \/ client'[c] = client[c]
            \/ /\ client[c].conn = j /\ client'[c].answer = client'[c].number
               /\ \/ client'[c].conn = 0 /\ client'[c].pc = "done"
                  \/ client'[c].conn = j /\ client'[c].pc \in {"prompt", "write", "await", "ask"},
         \A c \in Clients : client[c].conn = j /\ client'[c].conn = j => Matches(c, j)'
  PROVE  IInv'
<1>0. \A i \in Conns : i # 0
  BY DEF Conns
<1>1. \A c \in Clients : client'[c].conn = client[c].conn \/ client'[c].conn = 0
  BY <1>0
<1>2. ConnInv'
  <2>1. ConnInv
    BY DEF IInv
  <2>2. \A c \in Clients : client'[c].conn = 0 <=> client'[c].pc \in {"start", "connect", "done"}
    BY <1>0, <2>1 DEF ConnInv
  <2>3. \A c, d \in Clients : client'[c].conn = client'[d].conn => c = d \/ client'[c].conn = 0
    BY <1>1, <2>1 DEF ConnInv
  <2>4. ASSUME NEW i \in Conns, handler'[i] = "none"
        PROVE  /\ toserver'[i] = <<>> /\ toclient'[i] = <<>>
               /\ \A c \in Clients : client'[c].conn # i
    <3>1. i # j /\ handler[i] = "none"
      BY <2>4
    <3> QED BY <1>0, <1>1, <2>1, <3>1 DEF ConnInv
  <2> QED BY <2>2, <2>3, <2>4 DEF ConnInv
<1>3. ASSUME NEW c \in Clients, NEW i \in Conns, client'[c].conn = i PROVE Matches(c, i)'
  <2>1. client[c].conn = i
    BY <1>0, <1>1, <1>3
  <2>2. CASE i = j
    BY <1>3, <2>1, <2>2
  <2>3. CASE i # j
    <3>1. Matches(c, i) /\ client'[c] = client[c]
      BY <2>1, <2>3 DEF IInv, MatchInv
    <3>2. ServerEnded(i) => ServerEnded(i)'
      BY <2>3, EndedKept
    <3>3. Executes(i)' => Executes(i)
      BY <2>3 DEF Executes
    <3> QED BY <2>3, <3>1, <3>2, <3>3, MatchKept
  <2> QED BY <2>2, <2>3
<1>4. AnswersMatch'
  BY DEF IInv, AnswersMatch
<1> QED BY <1>2, <1>3, <1>4 DEF IInv, MatchInv

-----------------------------------------------------------------------------
(* The steps.                                                               *)

LEMMA ServerIInv == IInv /\ Server => IInv'
<1> SUFFICES ASSUME IInv, Server PROVE IInv'
  OBVIOUS
<1>0. TypeOK /\ DOMAIN handler = Conns
  BY DEF IInv, TypeOK
<1>1. ASSUME UNCHANGED <<up, connections, client>> PROVE IInv'
  BY <1>0, <1>1, QuietStep DEF connections, TypeOK, Executes
<1>2. CASE Listen \/ LeaveLoop \/ Join \/ Done
  BY <1>1, <1>2 DEF Listen, LeaveLoop, Join, Done
<1>3. ASSUME NEW i \in Conns, Accept(i) PROVE IInv'
  <2>1. /\ handler[i] = "backlog" /\ handler' = [handler EXCEPT ![i] = "test"]
        /\ UNCHANGED <<up, shut, command, toserver, toclient, client>>
    BY <1>3 DEF Accept
  <2> QED BY <1>0, <2>1, QuietStep DEF TypeOK, Executes
<1>4. CASE Leave
  <2>1. CASE UNCHANGED <<up, shut, toclient>>
    BY <1>1, <1>4, <2>1 DEF Leave, connections
  <2>2. CASE ~UNCHANGED <<up, shut, toclient>>
    <3>1. PICK j \in Conns : /\ handler[j] \in Open /\ shut' = shut \cup {j}
                             /\ toclient' = [toclient EXCEPT ![j] = Append(@, Farewell)]
      BY <1>4, <2>2 DEF Leave
    <3>2. up /\ UNCHANGED <<handler, command, toserver, client>>
      BY <1>4 DEF Leave
    <3>3. PICK s \in Seq(Lines) : s = toclient[j]
      BY <1>0 DEF TypeOK
    <3>4. PICK t : t = Append(s, Farewell)
      OBVIOUS
    <3>5. Farewell \in Lines
      BY DEF Farewell, Lines
    <3>6. t \in Seq(Lines) /\ \A p \in DOMAIN t : (p \in DOMAIN s /\ t[p] = s[p]) \/ t[p] = Farewell
      BY <3>4, <3>5, Appended
    <3>7. toclient' = [toclient EXCEPT ![j] = t]
      BY <1>0, <3>1, <3>3, <3>4 DEF TypeOK
    <3>8. toclient'[j] = t /\ \A i \in Conns \ {j} : toclient'[i] = toclient[i]
      BY <1>0, <3>7 DEF TypeOK
    <3>9. TypeOK'
      BY <1>0, <3>2, <3>6, <3>7 DEF TypeOK
    <3>10. ASSUME NEW c \in Clients, client[c].conn = j PROVE Matches(c, j)'
      <4>1. Numbered(c, j)
        BY <3>10 DEF IInv, MatchInv, Matches
      <4>2. Numbered(c, j)'
        BY <3>2, <3>3, <3>6, <3>8, <4>1 DEF Numbered, Executes
      <4>3. ServerEnded(j)'
        BY <3>1 DEF ServerEnded
      <4> QED BY <4>2, <4>3 DEF Matches
    <3>11. handler[j] # "none"
      BY <3>1 DEF Open
    <3>12. \A c \in Clients : client'[c].conn = j => Matches(c, j)'
      BY <3>2, <3>10
    <3> QED BY <3>1, <3>2, <3>8, <3>9, <3>11, <3>12, OneStep
  <2> QED BY <2>1, <2>2
<1> QED BY <1>2, <1>3, <1>4 DEF Server

LEMMA StopIInv == IInv /\ (StopFlag \/ Stop) => IInv'
<1> SUFFICES ASSUME IInv, StopFlag \/ Stop PROVE IInv'
  OBVIOUS
<1>0. TypeOK /\ DOMAIN handler = Conns
  BY DEF IInv, TypeOK
<1>1. CASE StopFlag \/ StopJoin
  <2>1. UNCHANGED <<up, connections, client>>
    BY <1>1 DEF StopFlag, StopJoin
  <2> QED BY <1>0, <2>1, QuietStep DEF connections, TypeOK, Executes
<1>2. CASE StopClose
  <2>1. /\ handler' = [i \in Conns |-> IF handler[i] = "backlog" /\ listening THEN "gone"
                                       ELSE handler[i]]
        /\ UNCHANGED <<up, shut, command, toserver, toclient, client>>
    BY <1>2 DEF StopClose
  <2> QED BY <1>0, <2>1, QuietStep DEF TypeOK, Executes
<1> QED BY <1>1, <1>2 DEF Stop

\* A command begins to be executed.
LEMMA ReadCommandIInv ==
  ASSUME IInv, NEW j \in Conns, ReadCommand(j)
  PROVE  IInv'
<1>0. TypeOK /\ DOMAIN handler = Conns
  BY DEF IInv, TypeOK
<1>1. CASE ~(j \notin deaf /\ toserver[j] # <<>>)
  <2>1. /\ handler[j] = "wait" /\ handler' = [handler EXCEPT ![j] = "close"]
        /\ UNCHANGED <<up, shut, command, toserver, toclient, client>>
    BY <1>1 DEF ReadCommand, Handle
  <2> QED BY <1>0, <2>1, QuietStep DEF TypeOK, Executes
<1>2. CASE j \notin deaf /\ toserver[j] # <<>>
  <2>1. /\ handler[j] = "wait" /\ toserver[j] # <<>>
        /\ command' = [command EXCEPT ![j] = Head(toserver[j])]
        /\ toserver' = [toserver EXCEPT ![j] = Tail(toserver[j])]
        /\ handler' = [handler EXCEPT ![j] = "exec"]
        /\ UNCHANGED <<up, shut, toclient, client>>
    BY <1>0, <1>2 DEF ReadCommand, Handle, TypeOK
  <2>2. PICK s \in Seq(Commands) : s = toserver[j]
    BY <1>0 DEF TypeOK
  <2>3. PICK t : t = Tail(s)
    OBVIOUS
  <2>4. /\ t \in Seq(Commands) /\ Head(s) \in Commands /\ Head(s) = s[1] /\ 1 \in DOMAIN s
        /\ \A p \in DOMAIN t : p + 1 \in DOMAIN s /\ t[p] = s[p + 1]
        /\ Len(s) = 1 => t = <<>>
    BY <2>1, <2>2, <2>3, Tailed
  <2>5. /\ command'[j] = s[1] /\ toserver'[j] = t /\ handler'[j] = "exec"
        /\ \A i \in Conns \ {j} : /\ command'[i] = command[i] /\ toserver'[i] = toserver[i]
                                  /\ handler'[i] = handler[i]
    BY <1>0, <2>1, <2>2, <2>3, <2>4 DEF TypeOK
  <2>6. TypeOK'
    BY <1>0, <2>1, <2>2, <2>3, <2>4 DEF TypeOK
  <2>7. ASSUME NEW c \in Clients, client[c].conn = j PROVE Matches(c, j)'
    <3>1. Matches(c, j)
      BY <2>7 DEF IInv, MatchInv
    <3>2. Numbered(c, j)'
      <4>1. Numbered(c, j)
        BY <3>1 DEF Matches
      <4>2. \A p \in DOMAIN s : s[p].number = client[c].number
        BY <2>2, <4>1 DEF Numbered
      <4>3. \A p \in DOMAIN t : t[p].number = client[c].number
        BY <2>4, <4>2
      <4>4. s[1].number = client[c].number
        BY <2>4, <4>2
      <4> QED BY <2>1, <2>5, <4>1, <4>3, <4>4 DEF Numbered
    <3>3. CASE ServerEnded(j)
      <4>1. ServerEnded(j)'
        BY <2>1, <2>5, <3>3 DEF ServerEnded
      <4> QED BY <3>2, <4>1 DEF Matches
    <3>4. CASE Answering(c, j)
      <4>1. t = <<>>
        BY <2>1, <2>2, <2>4, <3>4 DEF Answering
      <4>2. Answering(c, j)'
        BY <2>1, <2>5, <3>4, <4>1 DEF Answering
      <4> QED BY <3>2, <4>2 DEF Matches
    <3> QED BY <3>1, <3>3, <3>4 DEF Matches
  <2>8. \A c \in Clients : client'[c].conn = j => Matches(c, j)'
    BY <2>1, <2>7
  <2> QED BY <2>1, <2>5, <2>6, <2>8, OneStep
<1> QED BY <1>1, <1>2

\* A line of the answer.
LEMMA OutputIInv ==
  ASSUME IInv, NEW j \in Conns, Execute(j) \/ EndAnswer(j)
  PROVE  IInv'
<1>0. TypeOK /\ DOMAIN handler = Conns
  BY DEF IInv, TypeOK
<1>1. PICK line \in {"text", "END_OF_FILE"} :
         /\ Output(j, line)
         /\ line = "text" => handler'[j] = "end" /\ command' = command
         /\ line = "END_OF_FILE" => handler'[j] \in {"close", "test"}
  BY <1>0 DEF Execute, EndAnswer, Handle
<1>2. /\ up /\ Executes(j) /\ handler[j] # "none" /\ handler'[j] # "none"
      /\ DOMAIN handler' = Conns
      /\ command' \in [Conns -> Commands]
      /\ \A i \in Conns \ {j} : handler'[i] = handler[i] /\ command'[i] = command[i]
      /\ UNCHANGED <<shut, toserver, client>>
  <2>1. PICK pc \in {"end", "close", "test"} : handler' = [handler EXCEPT ![j] = pc]
    BY DEF Execute, EndAnswer, Handle
  <2>2. command' \in {command, [command EXCEPT ![j] = NoCommand]}
    BY DEF Execute, EndAnswer
  <2>3. NoCommand \in Commands /\ command \in [Conns -> Commands]
    BY <1>0 DEF NoCommand, Commands, TypeOK
  <2>4. /\ command' \in [Conns -> Commands]
        /\ \A i \in Conns \ {j} : command'[i] = command[i]
    BY <2>2, <2>3
  <2>5. /\ DOMAIN handler' = Conns /\ handler'[j] # "none"
        /\ \A i \in Conns \ {j} : handler'[i] = handler[i]
    BY <1>0, <2>1
  <2> QED BY <2>4, <2>5 DEF Execute, EndAnswer, Executes
<1>3. CASE toclient' = toclient /\ ~up'
  <2>1. TypeOK'
    BY <1>0, <1>2, <1>3 DEF TypeOK
  <2>2. ASSUME NEW c \in Clients, client[c].conn = j PROVE Matches(c, j)'
    <3>1. Numbered(c, j)
      BY <2>2 DEF IInv, MatchInv, Matches
    <3>2. Executes(j)' => command'[j] = command[j]
      BY <1>1, <1>2 DEF Executes
    <3>3. Numbered(c, j)'
      BY <1>2, <1>3, <3>1, <3>2 DEF Numbered
    <3>4. ServerEnded(j)'
      BY <1>3 DEF ServerEnded
    <3> QED BY <3>3, <3>4 DEF Matches
  <2> QED BY <1>2, <1>3, <2>1, <2>2, OneStep
<1>4. CASE up' = up /\ toclient' = [toclient EXCEPT ![j] = Append(@, [number |-> command[j].number, line |-> line])]
  <2>1. PICK s \in Seq(Lines) : s = toclient[j]
    BY <1>0 DEF TypeOK
  <2>2. PICK x \in Lines : x = [number |-> command[j].number, line |-> line]
    <3>1. command[j].number \in Nat
      BY <1>0 DEF TypeOK, Commands
    <3> QED BY <3>1 DEF Lines
  <2>3. PICK t : t = Append(s, x)
    OBVIOUS
  <2>4. /\ t \in Seq(Lines)
        /\ \A p \in DOMAIN t : \/ p \in DOMAIN s /\ t[p] = s[p]
                               \/ t[p] = x /\ \A q \in DOMAIN t : q <= p
    BY <2>3, Appended
  <2>5. toclient' = [toclient EXCEPT ![j] = t]
    BY <1>0, <1>4, <2>1, <2>2, <2>3 DEF TypeOK
  <2>6. toclient'[j] = t /\ \A i \in Conns \ {j} : toclient'[i] = toclient[i]
    BY <1>0, <2>5 DEF TypeOK
  <2>7. TypeOK'
    BY <1>0, <1>2, <2>4, <2>5 DEF TypeOK
  <2>8. ASSUME NEW c \in Clients, client[c].conn = j PROVE Matches(c, j)'
    <3>1. Matches(c, j)
      BY <2>8 DEF IInv, MatchInv
    <3>2. x.number = client[c].number /\ x.line = line
      BY <1>2, <2>2, <3>1 DEF Matches, Numbered
    <3>3. Executes(j)' => command'[j] = command[j]
      BY <1>1, <1>2 DEF Executes
    <3>4. Numbered(c, j)'
      <4>1. Numbered(c, j)
        BY <3>1 DEF Matches
      <4>2. \A p \in DOMAIN t : t[p] = Farewell \/ t[p].number = client[c].number
        BY <2>1, <2>4, <3>2, <4>1 DEF Numbered
      <4> QED BY <1>2, <2>6, <3>3, <4>1, <4>2 DEF Numbered
    <3>5. CASE ServerEnded(j)
      <4>1. ServerEnded(j)'
        BY <1>2, <1>4, <3>5 DEF ServerEnded, Executes
      <4> QED BY <3>4, <4>1 DEF Matches
    <3>6. CASE Answering(c, j)
      <4>1. /\ toserver[j] = <<>> /\ client[c].pc = "await"
            /\ \A p \in DOMAIN s : s[p].line # "END_OF_FILE"
        BY <1>2, <2>1, <3>6 DEF Answering
      <4>2. \A p \in DOMAIN t : t[p].line = "END_OF_FILE" => line = "END_OF_FILE" /\ \A q \in DOMAIN t : q <= p
        BY <2>4, <3>2, <4>1
      <4>3. \A p, q \in DOMAIN t : p < q => t[p].line # "END_OF_FILE"
        <5>1. \A p, q \in DOMAIN t : p \in Int /\ q \in Int
          BY <2>4
        <5> QED BY <4>2, <5>1
      <4>4. Executes(j)' => line = "text"
        BY <1>1 DEF Executes
      <4>5. Answering(c, j)'
        BY <1>2, <2>6, <4>1, <4>2, <4>3, <4>4 DEF Answering
      <4> QED BY <3>4, <4>5 DEF Matches
    <3> QED BY <3>1, <3>5, <3>6 DEF Matches
  <2> QED BY <1>2, <1>4, <2>6, <2>7, <2>8, OneStep
<1> QED BY <1>1, <1>3, <1>4 DEF Output

LEMMA HandlerIInv ==
  ASSUME IInv, NEW j \in Conns, Handler(j)
  PROVE  IInv'
<1>0. TypeOK /\ DOMAIN handler = Conns
  BY DEF IInv, TypeOK
<1>1. CASE TestRunning(j) \/ CloseStreams(j) \/ CloseAgain(j)
  <2>1. /\ UNCHANGED <<up, shut, command, toserver, toclient, client>>
        /\ \/ handler[j] = "test" /\ handler' = [handler EXCEPT ![j] = "wait"]
           \/ handler[j] = "test" /\ handler' = [handler EXCEPT ![j] = "close"]
           \/ handler[j] = "close" /\ handler' = [handler EXCEPT ![j] = "again"]
           \/ handler[j] = "again" /\ handler' = [handler EXCEPT ![j] = "gone"]
    BY <1>1 DEF TestRunning, CloseStreams, CloseAgain, Handle
  <2> QED BY <1>0, <2>1, QuietStep DEF TypeOK, Executes
<1> QED BY <1>1, ReadCommandIInv, OutputIInv DEF Handler

\* A client that ends, is killed or asks to be connected again.
LEMMA LeftIInv ==
  ASSUME IInv, NEW c \in Clients, NEW pc \in {"done", "connect"},
         client' = [client EXCEPT ![c] = NotConnected(pc)],
         UNCHANGED connections, UNCHANGED up
  PROVE  IInv'
<1>1. TypeOK /\ DOMAIN handler = Conns
  BY DEF IInv, TypeOK
<1>2. NotConnected(pc) \in [pc : Pcs, conn : {0} \cup Conns, number : Nat, answer : Nat,
                            quit : BOOLEAN]
  BY DEF NotConnected, Pcs
<1>3. client' \in [Clients -> [pc : Pcs, conn : {0} \cup Conns, number : Nat, answer : Nat,
                               quit : BOOLEAN]]
  BY <1>1, <1>2 DEF TypeOK
<1>4. /\ client'[c].conn = 0 /\ client'[c].pc = pc /\ client'[c].answer = client'[c].number
      /\ \A d \in Clients \ {c} : client'[d] = client[d]
  BY <1>1 DEF TypeOK, NotConnected
<1>5. UNCHANGED <<up, shut, command, toserver, toclient>> /\ handler' = handler
  BY DEF connections
<1>6. \A i \in Conns : Executes(i)' => Executes(i)
  BY <1>5 DEF Executes
<1> QED BY <1>1, <1>3, <1>4, <1>5, <1>6, QuietStep

\* A client's record but for its stage.
LEMMA StageSet ==
  ASSUME TypeOK, NEW c \in Clients, NEW pc \in Pcs, Client(c, pc)
  PROVE  /\ client' \in [Clients -> [pc : Pcs, conn : {0} \cup Conns, number : Nat, answer : Nat,
                                     quit : BOOLEAN]]
         /\ client'[c].pc = pc /\ client'[c].conn = client[c].conn
         /\ client'[c].number = client[c].number /\ client'[c].answer = client[c].answer
         /\ \A d \in Clients \ {c} : client'[d] = client[d]
<1>1. client \in [Clients -> [pc : Pcs, conn : {0} \cup Conns, number : Nat, answer : Nat,
                              quit : BOOLEAN]]
  BY DEF TypeOK
<1> QED BY <1>1 DEF Client

LEMMA PromptIInv ==
  ASSUME IInv, NEW c \in Clients, Prompt(c)
  PROVE  IInv'
<1>0. TypeOK /\ ConnInv /\ DOMAIN handler = Conns
  BY DEF IInv, TypeOK
<1>1. PICK pc \in {"ask", "write"} : Client(c, pc)
  BY DEF Prompt
<1>2. client[c].pc = "prompt" /\ UNCHANGED up /\ UNCHANGED connections
  BY DEF Prompt
<1>3. client[c].conn # 0
  BY <1>0, <1>2 DEF ConnInv
<1>4. pc \in Pcs
  BY DEF Pcs
<1>5. /\ client' \in [Clients -> [pc : Pcs, conn : {0} \cup Conns, number : Nat, answer : Nat,
                                  quit : BOOLEAN]]
      /\ client'[c].pc = pc /\ client'[c].conn = client[c].conn
      /\ client'[c].number = client[c].number /\ client'[c].answer = client[c].answer
      /\ \A d \in Clients \ {c} : client'[d] = client[d]
  BY <1>0, <1>1, <1>4, StageSet
<1>6. UNCHANGED <<up, shut, command, toserver, toclient>> /\ handler' = handler
  BY <1>2 DEF connections
<1>7. \A i \in Conns : Executes(i)' => Executes(i)
  BY <1>6 DEF Executes
<1> QED BY <1>0, <1>2, <1>3, <1>5, <1>6, <1>7, QuietStep

LEMMA RestartIInv == IInv /\ Restart => IInv'
<1> SUFFICES ASSUME IInv, Restart PROVE IInv'
  OBVIOUS
<1>0. TypeOK /\ ConnInv /\ MatchInv
  BY DEF IInv
<1>1. /\ handler' = [i \in Conns |-> IF handler[i] = "none" THEN "none" ELSE "gone"]
      /\ command' = [i \in Conns |-> NoCommand] /\ toserver' = [i \in Conns |-> <<>>]
      /\ UNCHANGED <<shut, toclient, client>>
  BY DEF Restart
<1>2. TypeOK'
  <2>1. <<>> \in Seq(Commands) /\ NoCommand \in Commands
    BY DEF NoCommand, Commands
  <2>2. command' \in [Conns -> Commands] /\ toserver' \in [Conns -> Seq(Commands)]
    BY <1>1, <2>1
  <2> QED BY <1>0, <1>1, <2>2 DEF TypeOK
<1>3. ConnInv'
  BY <1>0, <1>1 DEF ConnInv
<1>4. ASSUME NEW c \in Clients, NEW i \in Conns, client[c].conn = i PROVE Matches(c, i)'
  <2>1. handler'[i] = "gone"
    BY <1>0, <1>1, <1>4 DEF ConnInv
  <2>2. ServerEnded(i)'
    BY <2>1 DEF ServerEnded
  <2>3. Numbered(c, i)
    BY <1>0, <1>4 DEF MatchInv, Matches
  <2>4. toserver'[i] = <<>> /\ DOMAIN toserver'[i] = {}
    BY <1>1
  <2>5. Numbered(c, i)'
    BY <1>1, <2>1, <2>3, <2>4 DEF Numbered, Executes
  <2> QED BY <2>2, <2>5 DEF Matches
<1>5. MatchInv'
  BY <1>1, <1>4 DEF MatchInv
<1>6. AnswersMatch'
  BY <1>1 DEF IInv, AnswersMatch
<1> QED BY <1>2, <1>3, <1>5, <1>6 DEF IInv

LEMMA ConnectIInv ==
  ASSUME IInv, NEW c \in Clients, Connect(c)
  PROVE  IInv'
<1>0. TypeOK /\ ConnInv /\ MatchInv /\ AnswersMatch /\ DOMAIN handler = Conns
  BY DEF IInv, TypeOK
<1>1. CASE ~(up /\ listening)
  <2>1. End(c) /\ UNCHANGED up /\ UNCHANGED connections
    BY <1>1 DEF Connect, connections
  <2> QED BY <2>1, LeftIInv DEF End
<1>2. CASE up /\ listening
  <2>1. PICK i \in Conns : /\ handler[i] = "none"
                           /\ handler' = [handler EXCEPT ![i] = "backlog"]
                           /\ client' = [client EXCEPT ![c].pc = "prompt", ![c].conn = i]
    BY <1>2 DEF Connect
  <2>2. client[c].pc \in {"start", "connect"} /\ UNCHANGED <<up, shut, command, toserver, toclient>>
    BY DEF Connect
  <2>3. client \in [Clients -> [pc : Pcs, conn : {0} \cup Conns, number : Nat, answer : Nat,
                                quit : BOOLEAN]]
    BY <1>0 DEF TypeOK
  <2>4. /\ client' \in [Clients -> [pc : Pcs, conn : {0} \cup Conns, number : Nat, answer : Nat,
                                    quit : BOOLEAN]]
        /\ client'[c].pc = "prompt" /\ client'[c].conn = i
        /\ client'[c].number = client[c].number /\ client'[c].answer = client[c].answer
        /\ \A d \in Clients \ {c} : client'[d] = client[d]
    BY <2>1, <2>3 DEF Pcs
  <2>5. /\ handler'[i] = "backlog" /\ DOMAIN handler' = Conns
        /\ \A k \in Conns \ {i} : handler'[k] = handler[k]
    BY <1>0, <2>1
  <2>6. TypeOK'
    BY <1>0, <2>2, <2>4, <2>5 DEF TypeOK
  <2>7. /\ toserver[i] = <<>> /\ toclient[i] = <<>>
        /\ \A d \in Clients : client[d].conn # i
    BY <1>0, <2>1 DEF ConnInv
  <2>8. i # 0
    BY DEF Conns
  <2>9. ConnInv'
    <3>1. \A d, e \in Clients : client'[d].conn = client'[e].conn => d = e \/ client'[d].conn = 0
      BY <1>0, <2>4, <2>7 DEF ConnInv
    <3>2. \A d \in Clients : client'[d].conn = 0 <=> client'[d].pc \in {"start", "connect", "done"}
      BY <1>0, <2>4, <2>8 DEF ConnInv
    <3>3. ASSUME NEW k \in Conns, handler'[k] = "none"
          PROVE  /\ toserver'[k] = <<>> /\ toclient'[k] = <<>>
                 /\ \A d \in Clients : client'[d].conn # k
      <4>1. k # i /\ handler[k] = "none"
        BY <2>5, <3>3
      <4> QED BY <1>0, <2>2, <2>4, <4>1 DEF ConnInv
    <3> QED BY <3>1, <3>2, <3>3 DEF ConnInv
  <2>10. ASSUME NEW d \in Clients, NEW k \in Conns, client'[d].conn = k PROVE Matches(d, k)'
    <3>1. CASE d = c
      <4>1. k = i /\ DOMAIN toserver'[k] = {} /\ DOMAIN toclient'[k] = {} /\ toserver'[k] = <<>>
        BY <2>2, <2>4, <2>7, <2>10, <3>1
      <4>2. ~Executes(k)'
        BY <2>5, <4>1 DEF Executes
      <4>3. Numbered(d, k)'
        BY <4>1, <4>2 DEF Numbered
      <4>4. Answering(d, k)'
        BY <4>1, <4>2 DEF Answering
      <4> QED BY <4>3, <4>4 DEF Matches
    <3>2. CASE d # c
      <4>1. client'[d] = client[d] /\ k # i
        BY <2>4, <2>7, <2>10, <3>2
      <4>2. Matches(d, k)
        BY <1>0, <2>10, <4>1 DEF MatchInv
      <4>3. handler'[k] = handler[k]
        BY <2>5, <4>1
      <4>4. ServerEnded(k) => ServerEnded(k)'
        BY <2>2, <4>3, EndedKept
      <4>5. Executes(k)' => Executes(k) /\ command'[k] = command[k]
        BY <2>2, <4>3 DEF Executes
      <4> QED BY <2>2, <4>1, <4>2, <4>4, <4>5, MatchKept
    <3> QED BY <3>1, <3>2
  <2>11. AnswersMatch'
    BY <1>0, <2>4 DEF AnswersMatch
  <2> QED BY <2>6, <2>9, <2>10, <2>11 DEF IInv, MatchInv
<1> QED BY <1>1, <1>2

\* The next command goes out when the last one is answered.
LEMMA WriteIInv ==
  ASSUME IInv, NEW c \in Clients, Write(c)
  PROVE  IInv'
<1>0. TypeOK /\ ConnInv /\ MatchInv
  BY DEF IInv
<1>1. PICK j \in {0} \cup Conns : j = client[c].conn
  BY <1>0 DEF TypeOK
<1>2. /\ client[c].pc = "write" /\ j \in Conns /\ handler[j] # "none"
      /\ UNCHANGED <<up, handler, fd, deaf, shut, command, toclient>>
  BY <1>0, <1>1 DEF ConnInv, Write
<1>3. CASE ServerEnded(j)
  <2>1. End(c) /\ UNCHANGED up /\ UNCHANGED connections
    BY <1>1, <1>2, <1>3 DEF Write, connections
  <2> QED BY <2>1, LeftIInv DEF End
<1>4. CASE ~ServerEnded(j)
  <2>1. client \in [Clients -> [pc : Pcs, conn : {0} \cup Conns, number : Nat, answer : Nat,
                                quit : BOOLEAN]]
    BY <1>0 DEF TypeOK
  <2>2. PICK n \in Nat : n = client[c].number + 1
    BY <2>1
  <2>3. PICK quit \in BOOLEAN :
           /\ toserver' = [toserver EXCEPT ![j] = Append(@, [number |-> n, quit |-> quit])]
           /\ client' = [client EXCEPT ![c].pc = "await", ![c].number = n, ![c].answer = n,
                                       ![c].quit = quit]
    BY <1>1, <1>4, <2>2 DEF Write
  <2>4. /\ client' \in [Clients -> [pc : Pcs, conn : {0} \cup Conns, number : Nat, answer : Nat,
                                    quit : BOOLEAN]]
        /\ client'[c].pc = "await" /\ client'[c].conn = j
        /\ client'[c].number = n /\ client'[c].answer = n
        /\ \A d \in Clients \ {c} : client'[d] = client[d]
    <3>1. PICK r \in [pc : Pcs, conn : {0} \cup Conns, number : Nat, answer : Nat, quit : BOOLEAN] :
             r = client[c] /\ r.conn = j
      BY <1>1, <2>1
    <3>2. PICK m : m = [r EXCEPT !.pc = "await", !.number = n, !.answer = n, !.quit = quit]
      OBVIOUS
    <3>3. /\ m \in [pc : Pcs, conn : {0} \cup Conns, number : Nat, answer : Nat, quit : BOOLEAN]
          /\ m.pc = "await" /\ m.conn = j /\ m.number = n /\ m.answer = n
      BY <3>1, <3>2 DEF Pcs
    <3>4. client' = [client EXCEPT ![c] = m]
      BY <2>3, <3>1, <3>2
    <3> QED BY <2>1, <3>3, <3>4
  <2>5. Numbered(c, j) /\ Answering(c, j)
    BY <1>0, <1>1, <1>2, <1>4 DEF MatchInv, Matches
  <2>6. /\ toserver[j] = <<>> /\ ~Executes(j)
        /\ \A p \in DOMAIN toclient[j] : toclient[j][p] = Farewell
    BY <1>2, <2>5 DEF Answering
  <2>7. PICK x \in Commands : x = [number |-> n, quit |-> quit]
    BY DEF Commands
  <2>8. toserver'[j] = <<x>> /\ \A i \in Conns \ {j} : toserver'[i] = toserver[i]
    <3>1. Append(<<>>, x) = <<x>>
      OBVIOUS
    <3> QED BY <1>0, <1>2, <2>3, <2>6, <2>7, <3>1 DEF TypeOK
  <2>9. TypeOK'
    <3>1. toserver' = [toserver EXCEPT ![j] = <<x>>]
      BY <1>0, <1>2, <2>3, <2>8 DEF TypeOK
    <3>2. <<x>> \in Seq(Commands)
      BY <2>7
    <3>3. toserver' \in [Conns -> Seq(Commands)]
      BY <1>0, <3>1, <3>2 DEF TypeOK
    <3> QED BY <1>0, <1>2, <2>4, <3>3 DEF TypeOK
  <2>10. Matches(c, j)'
    <3>1. ~Executes(j)'
      BY <1>2, <2>6 DEF Executes
    <3>2. DOMAIN toserver'[j] = {1} /\ toserver'[j][1] = x /\ Len(toserver'[j]) = 1
      BY <2>7, <2>8
    <3>3. x.number = n
      BY <2>7
    <3>4. Farewell.line # "END_OF_FILE"
      BY DEF Farewell
    <3>5. Numbered(c, j)'
      BY <1>2, <2>4, <2>6, <3>1, <3>2, <3>3 DEF Numbered, Farewell
    <3>6. Answering(c, j)'
      BY <1>2, <2>4, <2>6, <3>1, <3>2, <3>4 DEF Answering, Farewell
    <3> QED BY <3>5, <3>6 DEF Matches
  <2>11. \A d \in Clients : client[d].conn = j => d = c
    BY <1>0, <1>1, <1>2 DEF ConnInv, Conns
  <2>12. \A d \in Clients : client[d].conn = j /\ client'[d].conn = j => Matches(d, j)'
    BY <2>10, <2>11
  <2>13. \A i \in Conns \ {j} : /\ handler'[i] = handler[i] /\ command'[i] = command[i]
                                /\ toserver'[i] = toserver[i] /\ toclient'[i] = toclient[i]
    BY <1>2, <2>8
  <2>14. \A d \in Clients :
            \/ client'[d] = client[d]
            \/ /\ client[d].conn = j /\ client'[d].answer = client'[d].number
               /\ client'[d].conn = j /\ client'[d].pc \in {"prompt", "write", "await", "ask"}
    BY <1>1, <2>4
  <2> QED BY <1>2, <2>9, <2>12, <2>13, <2>14, OneStep
<1> QED BY <1>3, <1>4

\* What is left of the answer when its first line is read.
LEMMA ReadLineIInv ==
  ASSUME IInv, NEW c \in Clients, ReadLine(c)
  PROVE  IInv'
<1>0. TypeOK /\ ConnInv /\ MatchInv /\ AnswersMatch
  BY DEF IInv
<1>1. PICK j \in {0} \cup Conns : j = client[c].conn
  BY <1>0 DEF TypeOK
<1>2. /\ client[c].pc = "await" /\ j \in Conns /\ handler[j] # "none" /\ toclient[j] # <<>>
      /\ UNCHANGED <<up, handler, shut, command, toserver>>
      /\ toclient' = [toclient EXCEPT ![j] = Tail(@)]
  BY <1>0, <1>1 DEF ConnInv, ReadLine
<1>3. PICK s \in Seq(Lines) : s = toclient[j]
  BY <1>0, <1>2 DEF TypeOK
<1>4. PICK t : t = Tail(s)
  OBVIOUS
<1>5. /\ t \in Seq(Lines) /\ Head(s) \in Lines /\ Head(s) = s[1] /\ 1 \in DOMAIN s
      /\ \A p \in DOMAIN t : /\ p + 1 \in DOMAIN s /\ t[p] = s[p + 1] /\ 1 < p + 1
                             /\ \A q \in DOMAIN t : p < q => p + 1 < q + 1
  BY <1>2, <1>3, <1>4, Tailed
<1>6. PICK x \in Lines : x = s[1]
  BY <1>5
<1>7. /\ toclient' = [toclient EXCEPT ![j] = t] /\ toclient'[j] = t
      /\ \A i \in Conns \ {j} : toclient'[i] = toclient[i]
  BY <1>0, <1>2, <1>3, <1>4 DEF TypeOK
<1>8. client \in [Clients -> [pc : Pcs, conn : {0} \cup Conns, number : Nat, answer : Nat,
                              quit : BOOLEAN]]
  BY <1>0 DEF TypeOK
<1>9. Matches(c, j)
  BY <1>0, <1>1, <1>2 DEF MatchInv
<1>10. x = Farewell \/ x.number = client[c].number
  BY <1>3, <1>5, <1>6, <1>9 DEF Matches, Numbered
<1>11. PICK pc \in {"await", "prompt", "done"} :
          /\ pc = "done" => client' = [client EXCEPT ![c] = NotConnected("done")]
          /\ pc # "done" => client' = [client EXCEPT ![c].pc = pc]
          /\ pc = "prompt" => x.line = "END_OF_FILE"
  <2>1. CASE x = Farewell
    BY <1>1, <1>2, <1>3, <1>5, <1>6, <1>8, <2>1 DEF ReadLine
  <2>2. CASE x # Farewell /\ x.line # "END_OF_FILE"
    <3>1. client' = [client EXCEPT ![c].answer = x.number]
      BY <1>1, <1>3, <1>5, <1>6, <2>2 DEF ReadLine
    <3>2. client[c].answer = x.number
      BY <1>0, <1>10, <2>2 DEF AnswersMatch
    <3>3. client' = client
      BY <1>8, <3>1, <3>2
    <3> QED BY <1>2, <1>8, <3>3
  <2>3. CASE x # Farewell /\ x.line = "END_OF_FILE"
    <3>1. \/ client' = [client EXCEPT ![c] = NotConnected("done")]
          \/ client' = [client EXCEPT ![c].answer = x.number, ![c].pc = "prompt"]
      BY <1>1, <1>3, <1>5, <1>6, <2>3 DEF ReadLine, End
    <3>2. client[c].answer = x.number
      BY <1>0, <1>10, <2>3 DEF AnswersMatch
    <3>3. [client EXCEPT ![c].answer = x.number, ![c].pc = "prompt"] = [client EXCEPT ![c].pc = "prompt"]
      BY <1>8, <3>2
    <3> QED BY <2>3, <3>1, <3>3
  <2> QED BY <2>1, <2>2, <2>3
<1>12. /\ client' \in [Clients -> [pc : Pcs, conn : {0} \cup Conns, number : Nat, answer : Nat,
                                   quit : BOOLEAN]]
       /\ client'[c].pc = pc /\ client'[c].answer = client'[c].number
       /\ pc = "done" => client'[c].conn = 0
       /\ pc # "done" => client'[c].conn = j /\ client'[c].number = client[c].number
       /\ \A d \in Clients \ {c} : client'[d] = client[d]
  <2>1. CASE pc = "done"
    <3>1. PICK m \in [pc : Pcs, conn : {0} \cup Conns, number : Nat, answer : Nat, quit : BOOLEAN] :
             m.pc = "done" /\ m.conn = 0 /\ m.answer = m.number /\ m = NotConnected("done")
      BY DEF NotConnected, Pcs
    <3>2. client' = [client EXCEPT ![c] = m]
      BY <1>11, <2>1, <3>1
    <3> QED BY <1>8, <2>1, <3>1, <3>2
  <2>2. CASE pc # "done"
    <3>1. client[c].answer = client[c].number
      BY <1>0 DEF AnswersMatch
    <3>2. pc \in Pcs
      BY DEF Pcs
    <3>3. Client(c, pc)
      BY <1>11, <2>2 DEF Client
    <3>4. /\ client' \in [Clients -> [pc : Pcs, conn : {0} \cup Conns, number : Nat, answer : Nat,
                                      quit : BOOLEAN]]
          /\ client'[c].pc = pc /\ client'[c].conn = client[c].conn
          /\ client'[c].number = client[c].number /\ client'[c].answer = client[c].answer
          /\ \A d \in Clients \ {c} : client'[d] = client[d]
      BY <1>0, <3>2, <3>3, StageSet
    <3> QED BY <1>1, <2>2, <3>1, <3>4
  <2> QED BY <2>1, <2>2
<1>13. TypeOK'
  BY <1>0, <1>2, <1>5, <1>7, <1>12 DEF TypeOK
<1>14. ASSUME pc # "done" PROVE Matches(c, j)'
  <2>1. Numbered(c, j)'
    <3>1. Numbered(c, j)
      BY <1>9 DEF Matches
    <3>2. \A p \in DOMAIN t : t[p] = Farewell \/ t[p].number = client[c].number
      BY <1>3, <1>5, <3>1 DEF Numbered
    <3> QED BY <1>2, <1>7, <1>12, <1>14, <3>1, <3>2 DEF Numbered, Executes, Farewell
  <2>2. CASE ServerEnded(j)
    <3>1. ServerEnded(j)'
      BY <1>2, <2>2 DEF ServerEnded
    <3> QED BY <2>1, <3>1 DEF Matches
  <2>3. CASE Answering(c, j)
    <3>1. toserver[j] # <<>> \/ Executes(j) => \A p \in DOMAIN s : s[p].line # "END_OF_FILE"
      BY <1>3, <2>3 DEF Answering
    <3>2. \A p, q \in DOMAIN s : p < q /\ s[p].line = "END_OF_FILE" => s[q] = Farewell
      BY <1>3, <2>3 DEF Answering
    <3>3. pc = "prompt" => toserver[j] = <<>> /\ ~Executes(j) /\ \A p \in DOMAIN t : t[p] = Farewell
      BY <1>5, <1>6, <1>11, <3>1, <3>2
    <3>4. \A p, q \in DOMAIN t : p < q /\ t[p].line = "END_OF_FILE" => t[q] = Farewell
      BY <1>5, <3>2
    <3>5. toserver[j] # <<>> \/ Executes(j) => \A p \in DOMAIN t : t[p].line # "END_OF_FILE"
      BY <1>5, <3>1
    <3>6. toserver[j] # <<>> => Len(toserver[j]) = 1 /\ ~Executes(j)
      BY <2>3 DEF Answering
    <3>7. pc # "await" => pc = "prompt"
      BY <1>14
    <3>8. Executes(j)' <=> Executes(j)
      BY <1>2 DEF Executes
    <3>9. toserver'[j] = toserver[j]
      BY <1>2
    <3>10. Answering(c, j)'
      BY <1>7, <1>12, <3>3, <3>4, <3>5, <3>6, <3>7, <3>8, <3>9 DEF Answering, Farewell
    <3> QED BY <2>1, <3>10 DEF Matches
  <2> QED BY <1>9, <2>2, <2>3 DEF Matches
<1>15. \A d \in Clients : client[d].conn = j => d = c
  BY <1>0, <1>1, <1>2 DEF ConnInv, Conns
<1>16. \A d \in Clients : client[d].conn = j /\ client'[d].conn = j => Matches(d, j)'
  <2>1. j # 0
    BY <1>2 DEF Conns
  <2> QED BY <1>12, <1>14, <1>15, <2>1
<1>17. \A i \in Conns \ {j} : /\ handler'[i] = handler[i] /\ command'[i] = command[i]
                              /\ toserver'[i] = toserver[i] /\ toclient'[i] = toclient[i]
  BY <1>2, <1>7
<1>18. \A d \in Clients :
          \/ client'[d] = client[d]
          \/ /\ client[d].conn = j /\ client'[d].answer = client'[d].number
             /\ \/ client'[d].conn = 0 /\ client'[d].pc = "done"
                \/ client'[d].conn = j /\ client'[d].pc \in {"prompt", "write", "await", "ask"}
  BY <1>1, <1>12
<1> QED BY <1>2, <1>13, <1>16, <1>17, <1>18, OneStep

LEMMA ReadEndIInv ==
  ASSUME IInv, NEW c \in Clients, ReadEnd(c)
  PROVE  IInv'
<1>0. TypeOK /\ ConnInv /\ MatchInv /\ AnswersMatch
  BY DEF IInv
<1>1. CASE client[c].quit
  <2>1. End(c) /\ UNCHANGED up /\ UNCHANGED connections
    BY <1>1 DEF ReadEnd
  <2> QED BY <2>1, LeftIInv DEF End
<1>2. CASE ~client[c].quit
  <2>1. PICK j \in {0} \cup Conns : j = client[c].conn
    BY <1>0 DEF TypeOK
  <2>2. /\ client[c].pc = "await" /\ ServerEnded(j) /\ Client(c, "prompt")
        /\ UNCHANGED <<up, handler, shut, command, toserver, toclient>>
    BY <1>2, <2>1 DEF ReadEnd, connections
  <2>3. j \in Conns /\ handler[j] # "none"
    BY <1>0, <2>1, <2>2 DEF ConnInv
  <2>4. /\ client' \in [Clients -> [pc : Pcs, conn : {0} \cup Conns, number : Nat, answer : Nat,
                                    quit : BOOLEAN]]
        /\ client'[c].pc = "prompt" /\ client'[c].conn = client[c].conn
        /\ client'[c].number = client[c].number /\ client'[c].answer = client[c].answer
        /\ \A d \in Clients \ {c} : client'[d] = client[d]
    <3>1. "prompt" \in Pcs
      BY DEF Pcs
    <3> QED BY <1>0, <2>2, <3>1, StageSet
  <2>5. TypeOK'
    BY <1>0, <2>2, <2>4 DEF TypeOK
  <2>6. Matches(c, j)'
    <3>1. Numbered(c, j)
      BY <1>0, <2>1, <2>3 DEF MatchInv, Matches
    <3>2. Numbered(c, j)'
      BY <2>2, <2>4, <3>1 DEF Numbered, Executes
    <3>3. ServerEnded(j)'
      BY <2>2 DEF ServerEnded
    <3> QED BY <3>2, <3>3 DEF Matches
  <2>7. \A d \in Clients : client[d].conn = j => d = c
    BY <1>0, <2>1, <2>3 DEF ConnInv, Conns
  <2>8. \A d \in Clients : client[d].conn = j /\ client'[d].conn = j => Matches(d, j)'
    BY <2>6, <2>7
  <2>9. \A d \in Clients :
           \/ client'[d] = client[d]
           \/ /\ client[d].conn = j /\ client'[d].answer = client'[d].number
              /\ client'[d].conn = j /\ client'[d].pc \in {"prompt", "write", "await", "ask"}
    BY <1>0, <2>1, <2>4 DEF AnswersMatch
  <2> QED BY <2>2, <2>3, <2>5, <2>8, <2>9, OneStep
<1> QED BY <1>1, <1>2

LEMMA ClientIInv ==
  ASSUME IInv, NEW c \in Clients,
         \/ Connect(c) \/ Prompt(c) \/ Write(c) \/ ReadLine(c) \/ ReadEnd(c)
         \/ Ask(c) \/ Killed(c)
  PROVE  IInv'
<1>1. CASE Ask(c)
  <2>1. PICK pc \in {"done", "connect"} : client' = [client EXCEPT ![c] = NotConnected(pc)]
    BY <1>1 DEF Ask, End
  <2>2. UNCHANGED up /\ UNCHANGED connections
    BY <1>1 DEF Ask
  <2> QED BY <2>1, <2>2, LeftIInv
<1>2. CASE Killed(c)
  BY <1>2, LeftIInv DEF Killed, End
<1> QED BY <1>1, <1>2, ConnectIInv, PromptIInv, WriteIInv, ReadLineIInv, ReadEndIInv

LEMMA NextIInv == IInv /\ [Next]_vars => IInv'
<1> SUFFICES ASSUME IInv, [Next]_vars PROVE IInv'
  OBVIOUS
<1>1. CASE UNCHANGED vars
  <2>1. UNCHANGED <<up, handler, shut, command, toserver, toclient, client>>
    BY <1>1 DEF vars, connections
  <2>2. TypeOK' /\ ConnInv' /\ AnswersMatch'
    BY <2>1 DEF IInv, TypeOK, ConnInv, AnswersMatch
  <2>3. ASSUME NEW c \in Clients, NEW i \in Conns, client'[c].conn = i PROVE Matches(c, i)'
    <3>1. Matches(c, i)
      BY <2>1, <2>3 DEF IInv, MatchInv
    <3>2. Executes(i)' => Executes(i)
      BY <2>1 DEF Executes
    <3>3. ServerEnded(i) => ServerEnded(i)'
      BY <2>1 DEF ServerEnded
    <3> QED BY <2>1, <3>1, <3>2, <3>3, MatchKept
  <2> QED BY <2>2, <2>3 DEF IInv, MatchInv
<1>2. ASSUME NEW i \in Conns, Handler(i) PROVE IInv'
  BY <1>2, HandlerIInv
<1>3. ASSUME NEW c \in Clients,
             \/ Connect(c) \/ Prompt(c) \/ Write(c) \/ ReadLine(c) \/ ReadEnd(c)
             \/ Ask(c) \/ Killed(c)
      PROVE  IInv'
  BY <1>3, ClientIInv
<1> QED BY <1>1, <1>2, <1>3, RestartIInv, ServerIInv, StopIInv DEF Next

\* cfg_cli_client_run (jsonconfig.c:2264-2342) reads the answer to the command
\* it has sent, of handle_client (jsonconfig.c:2081-2111), and never what is
\* left of an earlier one: for any clients and any commands, connections that
\* end with the server, the program or the client at any point included.
THEOREM AnswersCorrect == Spec => []AnswersMatch
<1>1. IInv => AnswersMatch
  BY DEF IInv
<1> QED BY InitIInv, NextIInv, <1>1, PTL DEF Spec
=============================================================================
