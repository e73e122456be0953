------------------------------ MODULE CliServer ------------------------------
(***************************************************************************)
(* The command line of the configuration library (config/lib/jsonconfig.c, *)
(* lines 272-330 and 2081-2344): a server thread that accepts connections, *)
(* a thread for each of them that executes one command after another, the  *)
(* stop of the server, and the clients, which connect again when it goes.  *)
(*                                                                         *)
(* What a command does is in ConfigStore; here it has a number, and its    *)
(* answer is some lines and a line END_OF_FILE.  Nothing ignores SIGPIPE:  *)
(* writing to a connection that the other side, or a shutdown, has ended   *)
(* ends the program that writes.                                           *)
(***************************************************************************)
EXTENDS Naturals, Sequences, FiniteSets

CONSTANTS
    Clients,     \* the programs that run cfg_cli_client_run
    Mortal,      \* those of them that may be killed at any point
    MaxConn,     \* bound: connections
    MaxCommand,  \* bound: the commands of each client
    Orderly      \* TRUE: the stop comes when the server listens, and nobody
                 \* connects between the two closes of a handler

Conns == 1 .. MaxConn

VARIABLES
    up,          \* the server's process runs
    running,     \* cfg_cli_listening_running
    listening,   \* listen_fd is open
    server,      \* the server thread: "begin", "accept", "leave", "join", "done"
    stop,        \* cfg_cli_server_stop: "no", "close", "join", "returned"
    threads,     \* the server's list of connections, the newest first
    handler,     \* the thread of each connection: "none", "backlog", "test",
                 \* "wait", "exec", "end", "close", "again", "gone"
    fd,          \* the number of its descriptor
    deaf,        \* connections whose descriptor another handler has closed
    shut,        \* connections that the server has shut down
    command,     \* what a handler executes: [number, quit]
    toserver, toclient, \* the bytes on their way, as commands and lines
    client       \* [pc, conn, number, answer, quit] of each client

connections == <<handler, fd, deaf, shut, command, toserver, toclient>>
vars == <<up, running, listening, server, stop, threads, connections, client>>

NoCommand == [number |-> 0, quit |-> FALSE]
Farewell == [number |-> 0, line |-> "LEAVE_OF_SERVER"]

NotConnected(pc) == [pc |-> pc, conn |-> 0, number |-> 0, answer |-> 0, quit |-> FALSE]

Init ==
    /\ up = TRUE /\ running = TRUE /\ listening = FALSE
    /\ server = "begin" /\ stop = "no" /\ threads = <<>>
    /\ handler = [i \in Conns |-> "none"] /\ fd = [i \in Conns |-> 0]
    /\ deaf = {} /\ shut = {}
    /\ command = [i \in Conns |-> NoCommand]
    /\ toserver = [i \in Conns |-> <<>>] /\ toclient = [i \in Conns |-> <<>>]
    /\ client = [c \in Clients |->
                   NotConnected("start")]

\* The stages of a handler in which its descriptor is open.
Open == {"test", "wait", "exec", "end", "close"}

\* What each side knows of the other's end of connection i.
ServerEnded(i) == ~up \/ i \in shut \/ handler[i] \in {"again", "gone"}
ClientEnded(i) == \A c \in Clients : client[c].conn # i

-----------------------------------------------------------------------------
(* The server thread, cfg_cli_server_run_loop.                              *)

\* Without a socket the thread ends.
Listen ==
    /\ up /\ server = "begin"
    /\ \/ listening' = TRUE /\ server' = "accept"
       \/ server' = "done" /\ UNCHANGED listening
    /\ UNCHANGED <<up, running, stop, threads, connections, client>>

\* Descriptors in use; the lowest free one is given out.
InUse == {fd[i] : i \in {j \in Conns : handler[j] \in Open}}

Accept(i) ==
    /\ up /\ server = "accept" /\ listening /\ handler[i] = "backlog"
    /\ Orderly => \A j \in Conns : handler[j] # "again"
    /\ handler' = [handler EXCEPT ![i] = "test"]
    /\ fd' = [fd EXCEPT ![i] = CHOOSE n \in Conns \ InUse : \A m \in Conns \ InUse : n <= m]
    /\ threads' = <<i>> \o threads
    /\ UNCHANGED <<up, running, listening, server, stop, deaf, shut, command, toserver, toclient, client>>

LeaveLoop ==
    /\ up /\ server = "accept" /\ ~running
    /\ server' = "leave"
    /\ UNCHANGED <<up, running, listening, stop, threads, connections, client>>

\* mutant: told, but not shut down
LeaveOpen ==
    /\ up /\ server = "leave" /\ threads # <<>>
    /\ server' = "join"
    /\ LET i == Head(threads)
       IN  IF handler[i] = "gone" \/ ClientEnded(i) THEN UNCHANGED toclient
           ELSE toclient' = [toclient EXCEPT ![i] = Append(@, Farewell)]
    /\ UNCHANGED <<up, running, listening, stop, threads, handler, fd, deaf, shut, command,
                   toserver, client>>

\* LEAVE_OF_SERVER to the next connection of the list, and its end.  The info
\* of a handler that has gone is freed: its descriptor may be any number, none
\* or that of another connection.
Leave ==
    /\ up /\ server = "leave" /\ threads # <<>>
    /\ server' = "join"
    /\ LET i == Head(threads)
           live == {j \in Conns : handler[j] \in Open} \ shut
       IN  \/ handler[i] = "gone" /\ UNCHANGED <<up, shut, toclient>>
           \/ \E j \in live :
                /\ j = i \/ handler[i] = "gone"
                /\ up' = ~ClientEnded(j)
                /\ shut' = shut \cup {j}
                /\ toclient' = [toclient EXCEPT ![j] = Append(@, Farewell)]
           \/ /\ handler[i] = "again" \/ i \in shut        \* no such descriptor
              /\ UNCHANGED <<up, shut, toclient>>
    /\ UNCHANGED <<running, listening, stop, threads, handler, fd, deaf, command, toserver, client>>

Join ==
    /\ up /\ server = "join" /\ handler[Head(threads)] = "gone"
    /\ threads' = Tail(threads)
    /\ server' = "leave"
    /\ UNCHANGED <<up, running, listening, stop, connections, client>>

Done ==
    /\ up /\ server = "leave" /\ threads = <<>>
    /\ server' = "done"
    /\ UNCHANGED <<up, running, listening, stop, threads, connections, client>>

Server == Listen \/ (\E i \in Conns : Accept(i)) \/ LeaveLoop \/ Leave \/ Join \/ Done

-----------------------------------------------------------------------------
(* cfg_cli_server_stop, by another thread of the program.                   *)

StopFlag ==
    /\ up /\ stop = "no" /\ (Orderly => server # "begin")
    /\ running' = FALSE /\ stop' = "close"
    /\ UNCHANGED <<up, listening, server, threads, connections, client>>

\* A connection that was not accepted ends with the socket.
StopClose ==
    /\ up /\ stop = "close"
    /\ stop' = "join" /\ listening' = FALSE
    /\ handler' = [i \in Conns |-> IF handler[i] = "backlog" /\ listening THEN "gone" ELSE handler[i]]
    /\ UNCHANGED <<up, running, server, threads, fd, deaf, shut, command, toserver, toclient, client>>

StopJoin ==
    /\ up /\ stop = "join" /\ server = "done"
    /\ stop' = "returned"
    /\ UNCHANGED <<up, running, listening, server, threads, connections, client>>

Stop == StopClose \/ StopJoin

-----------------------------------------------------------------------------
(* handle_client.                                                           *)

Handle(i, pc) == handler' = [handler EXCEPT ![i] = pc]

\* The flag is read before it waits for a command ...
TestRunning(i) ==
    /\ up /\ handler[i] = "test"
    /\ Handle(i, IF running THEN "wait" ELSE "close")
    /\ UNCHANGED <<up, running, listening, server, stop, threads, fd, deaf, shut, command,
                   toserver, toclient, client>>

\* ... for which only a command or the end of the connection is enough.
ReadCommand(i) ==
    /\ up /\ handler[i] = "wait"
    /\ IF i \notin deaf /\ toserver[i] # <<>>
       THEN /\ command' = [command EXCEPT ![i] = Head(toserver[i])]
            /\ toserver' = [toserver EXCEPT ![i] = Tail(@)]
            /\ Handle(i, "exec")
       ELSE /\ i \in deaf \/ i \in shut \/ ClientEnded(i)
            /\ Handle(i, "close")
            /\ UNCHANGED <<command, toserver>>
    /\ UNCHANGED <<up, running, listening, server, stop, threads, fd, deaf, shut, toclient, client>>

Output(i, line) ==
    IF ClientEnded(i) \/ i \in shut THEN up' = FALSE /\ UNCHANGED toclient
    ELSE /\ toclient' = [toclient EXCEPT ![i] = Append(@, [number |-> command[i].number, line |-> line])]
         /\ UNCHANGED up

\* cfg_exec_line and its output; then the end of the answer.
Execute(i) ==
    /\ up /\ handler[i] = "exec"
    /\ Handle(i, "end")
    /\ Output(i, "text")
    /\ UNCHANGED <<running, listening, server, stop, threads, fd, deaf, shut, command, toserver, client>>
EndAnswer(i) ==
    /\ up /\ handler[i] = "end"
    /\ Output(i, "END_OF_FILE")
    /\ Handle(i, IF command[i].quit THEN "close" ELSE "test")
    /\ command' = [command EXCEPT ![i] = NoCommand]
    /\ UNCHANGED <<running, listening, server, stop, threads, fd, deaf, shut, toserver, client>>

\* Both streams are closed, and with the first the descriptor ...
CloseStreams(i) ==
    /\ up /\ handler[i] = "close"
    /\ Handle(i, "again")
    /\ UNCHANGED <<up, running, listening, server, stop, threads, fd, deaf, shut, command,
                   toserver, toclient, client>>
\* ... which is closed again, whoever has it by now, unless the server has.
CloseAgain(i) ==
    /\ up /\ handler[i] = "again"
    /\ Handle(i, "gone")
    /\ deaf' = IF i \in shut THEN deaf
               ELSE deaf \cup {j \in Conns : /\ handler[j] \in Open
                                             /\ fd[j] = fd[i]}
    /\ UNCHANGED <<up, running, listening, server, stop, threads, fd, shut, command,
                   toserver, toclient, client>>

Handler(i) == TestRunning(i) \/ ReadCommand(i) \/ Execute(i) \/ EndAnswer(i) \/ CloseStreams(i) \/ CloseAgain(i)

-----------------------------------------------------------------------------
(* cfg_cli_client_run.                                                      *)

Client(c, pc) == client' = [client EXCEPT ![c].pc = pc]
End(c) == client' = [client EXCEPT ![c] = NotConnected("done")]

\* One try: the first that fails ends the program, one after the server has
\* gone is repeated.
Connect(c) ==
    /\ client[c].pc \in {"start", "connect"}
    /\ IF up /\ listening
       THEN \E i \in Conns :
              /\ handler[i] = "none" /\ \A j \in 1 .. i - 1 : handler[j] # "none"
              /\ handler' = [handler EXCEPT ![i] = "backlog"]
              /\ client' = [client EXCEPT ![c].pc = "prompt", ![c].conn = i]
       ELSE client[c].pc = "start" /\ End(c) /\ UNCHANGED handler
    /\ UNCHANGED <<up, running, listening, server, stop, threads, fd, deaf, shut, command,
                   toserver, toclient>>

\* try_peer_closed, after a line was entered: what is there to read, if
\* anything, begins with LEAVE_OF_SERVER, or the connection has ended.
PeerClosed(i) ==
    IF toclient[i] = <<>> THEN ServerEnded(i) ELSE Head(toclient[i]) = Farewell

Prompt(c) ==
    /\ client[c].pc = "prompt" /\ client[c].number < MaxCommand[c]
    /\ Client(c, IF PeerClosed(client[c].conn) THEN "ask" ELSE "write")
    /\ UNCHANGED <<up, running, listening, server, stop, threads, connections>>

Write(c) ==
    /\ client[c].pc = "write"
    /\ LET i == client[c].conn
       IN  IF ServerEnded(i) THEN End(c) /\ UNCHANGED toserver
           ELSE \E quit \in BOOLEAN :
                  LET new == [number |-> client[c].number + 1, quit |-> quit]
                  IN  /\ toserver' = [toserver EXCEPT ![i] = Append(@, new)]
                      /\ client' = [client EXCEPT ![c].pc = "await", ![c].number = new.number,
                                                  ![c].answer = new.number, ![c].quit = quit]
    /\ UNCHANGED <<up, running, listening, server, stop, threads, handler, fd, deaf, shut,
                   command, toclient>>

\* mutant: one line is the answer
ReadLineOnce(c) ==
    /\ client[c].pc = "await" /\ toclient[client[c].conn] # <<>>
    /\ LET i == client[c].conn line == Head(toclient[i])
       IN  /\ toclient' = [toclient EXCEPT ![i] = Tail(@)]
           /\ IF line = Farewell THEN Client(c, "prompt")
              ELSE client' = [client EXCEPT ![c].answer = line.number, ![c].pc = "prompt"]
    /\ UNCHANGED <<up, running, listening, server, stop, threads, handler, fd, deaf, shut,
                   command, toserver>>

\* The answer up to its END_OF_FILE, or to the end of the connection.
ReadLine(c) ==
    /\ client[c].pc = "await" /\ toclient[client[c].conn] # <<>>
    /\ LET i == client[c].conn line == Head(toclient[i])
       IN  /\ toclient' = [toclient EXCEPT ![i] = Tail(@)]
           /\ IF line = Farewell THEN UNCHANGED client
              ELSE IF line.line # "END_OF_FILE" THEN client' = [client EXCEPT ![c].answer = line.number]
              ELSE IF client[c].quit THEN End(c)
              ELSE client' = [client EXCEPT ![c].answer = line.number, ![c].pc = "prompt"]
    /\ UNCHANGED <<up, running, listening, server, stop, threads, handler, fd, deaf, shut,
                   command, toserver>>
ReadEnd(c) ==
    /\ client[c].pc = "await" /\ toclient[client[c].conn] = <<>> /\ ServerEnded(client[c].conn)
    /\ IF client[c].quit THEN End(c) ELSE Client(c, "prompt")
    /\ UNCHANGED <<up, running, listening, server, stop, threads, connections>>

\* "the server exited, continue(Y/y)?"
Ask(c) ==
    /\ client[c].pc = "ask"
    /\ End(c) \/ client' = [client EXCEPT ![c] = NotConnected("connect")]
    /\ UNCHANGED <<up, running, listening, server, stop, threads, connections>>

Killed(c) ==
    /\ c \in Mortal /\ client[c].pc # "done"
    /\ End(c)
    /\ UNCHANGED <<up, running, listening, server, stop, threads, connections>>

\* The program is started again, after it has ended.
Restart ==
    /\ ~up \/ stop = "returned"
    /\ up' = TRUE /\ running' = TRUE /\ listening' = FALSE
    /\ server' = "begin" /\ stop' = "no" /\ threads' = <<>>
    /\ handler' = [i \in Conns |-> IF handler[i] = "none" THEN "none" ELSE "gone"]
    /\ fd' = [i \in Conns |-> 0] /\ deaf' = {}
    /\ command' = [i \in Conns |-> NoCommand] /\ toserver' = [i \in Conns |-> <<>>]
    /\ UNCHANGED <<shut, toclient, client>>

Next ==
    \/ Restart \/ Server \/ StopFlag \/ Stop \/ (\E i \in Conns : Handler(i))
    \/ \E c \in Clients : \/ Connect(c) \/ Prompt(c) \/ Write(c) \/ ReadLine(c) \/ ReadEnd(c)
                          \/ Ask(c) \/ Killed(c)

\* The threads of the server go on, and a client that waits for an answer
\* reads what comes; nobody need connect, enter anything, or call for the stop.
Spec == /\ Init /\ [][Next]_vars
        /\ WF_vars(Server) /\ WF_vars(Stop)
        /\ \A i \in Conns : WF_vars(Handler(i))
        /\ \A c \in Clients : WF_vars(ReadLine(c) \/ ReadEnd(c))

-----------------------------------------------------------------------------
\* A client reads the lines of the answer to its last command and of no other,
\* over any number of connections, stops and clients that are killed.
AnswersMatch == \A c \in Clients : client[c].answer = client[c].number

\* The stop returns, though handlers wait for commands, execute them or have
\* gone, and no client waits for an answer for ever - unless a write to an
\* ended connection has ended the program, which ends the connections, too.
NobodyWaits ==
    /\ stop # "no" ~> stop = "returned" \/ ~up
    /\ \A c \in Clients : client[c].pc = "await" ~> client[c].pc # "await"
=============================================================================
