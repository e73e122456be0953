---------------------------- MODULE LogcatClient ----------------------------
(***************************************************************************)
(* The logcat client (src/linux-coding-c/log/src/logcat.c) and the byte    *)
(* stream it reads: each record is the mark of its level and its text, the *)
(* socket cuts the stream anywhere, and the client puts the lines together *)
(* again, gives each its level, and prints it.                             *)
(*                                                                         *)
(* A byte is [rec, kind]: the record it belongs to and "text", "newline",  *)
(* "nul", or a mark such as "<E>", which counts as one byte.               *)
(***************************************************************************)
EXTENDS Integers, SequencesExt, TLC

CONSTANTS
    Records,     \* what is logged: [request, text], request a set of bits of
                 \* Order, text a sequence of kinds that ends in "newline"
    Size,        \* the bytes cached_log holds
    ReadMax,     \* the bytes of one read
    ClearFirst,  \* logcat_clear_logs
    ReadTimes,   \* log_readout_once_time, 0 for reading on and on
    ClosedReads, \* reads of a closed socket before the client connects again: 10
    MaxRecord, MaxClose \* bounds: records, connections the service ends

VARIABLES
    conn,        \* "none", "clear" or "read": where do_logcat_client is
    closed,      \* the service has closed the connection
    wire,        \* the bytes on their way
    cnt,         \* its local
    cached,      \* cached_log
    loglevel,    \* the level the last mark set
    printed,     \* the lines printed, as [level, text]
    sent,        \* the levels of the records sent
    received,    \* history: what was read and is not cleared
    torn,        \* history: a connection began in the middle of a line or record
    closes, quit

state == <<cached, loglevel, printed>>
vars == <<conn, closed, wire, cnt, state, sent, received, torn, closes, quit>>

-----------------------------------------------------------------------------
\* log_get_extra_prefix: the first bit in this order decides.
Order == <<"EMERG", "ERR", "WARN", "INFO", "VERBOSE", "DEBUG", "DEBUG_V1", "DEBUG_V2",
           "DEBUG_VV", "DEVICE", "SYSTEM">>
First(request) ==
    LET set == {i \in DOMAIN Order : Order[i] \in request}
    IN  IF set = {} THEN "INFO" ELSE Order[CHOOSE i \in set : \A j \in set : i <= j]
Marks == [EMERG |-> "<X>", ERR |-> "<E>", WARN |-> "<W>", INFO |-> "<I>", VERBOSE |-> "<V>",
          DEBUG |-> "<D>", DEBUG_V1 |-> "<D1>", DEBUG_V2 |-> "<D2>", DEBUG_VV |-> "<DV>",
          DEVICE |-> "<SD>", SYSTEM |-> "<SS>"]
Mark(request) == Marks[First(request)]

\* get_loglevel_from_prefix: the level of a line that begins with a mark.
Levels == "<X>" :> "EMERG" @@ "<E>" :> "ERR" @@ "<W>" :> "WARN" @@ "<I>" :> "INFO"
          @@ "<V>" :> "VERBOSE" @@ "<D>" :> "DEBUG" @@ "<D1>" :> "DEBUG_V1"
          @@ "<D2>" :> "DEBUG_V2" @@ "<DV>" :> "DEBUG_VV" @@ "<SD>" :> "DEVICE"
          @@ "<SS>" :> "SYSTEM"
IsMarked(line) == line # <<>> /\ line[1].kind \in DOMAIN Levels

\* mutant: a line without a mark is plain information
PrintLineResets(st, line) ==
    LET marked == IsMarked(line)
        level == IF marked THEN Levels[line[1].kind] ELSE "INFO"
    IN  [cached |-> <<>>, level |-> level,
         printed |-> Append(st.printed, [level |-> level, text |-> IF marked THEN Tail(line) ELSE line])]

PrintLine(st, line) ==
    LET marked == IsMarked(line)
        level == IF marked THEN Levels[line[1].kind] ELSE st.level
    IN  [cached |-> <<>>, level |-> level,
         printed |-> Append(st.printed, [level |-> level, text |-> IF marked THEN Tail(line) ELSE line])]

\* logcat_parse_log: what fits is cached, whole lines are printed, and what
\* is left is forgotten when it fills the cache.
ParseLog(st, bytes) ==
    LET fits == Size - 1 - Len(st.cached)
        taken == IF Len(bytes) > fits THEN SubSeq(bytes, 1, fits) ELSE bytes
        Byte(s, b) == IF b.kind = "newline" THEN PrintLine(s, s.cached)
                      ELSE [s EXCEPT !.cached = Append(@, b)]
        parsed == FoldLeft(Byte, st, taken)
    IN  IF Len(parsed.cached) >= Size - 1 THEN [parsed EXCEPT !.cached = <<>>] ELSE parsed

\* The loop of do_logcat_client over what it has read: a NUL would end the
\* text, so it becomes "<nul>", parsed on its own.
Shown(b) == IF b.kind = "nul" THEN [b EXCEPT !.kind = "<nul>"] ELSE b
Pieces(bytes) ==
    LET Byte(p, b) == IF b.kind = "nul" THEN p \o <<<<Shown(b)>>, <<>>>>
                      ELSE [p EXCEPT ![Len(p)] = Append(@, b)]
    IN  SelectSeq(FoldLeft(Byte, <<<<>>>>, bytes), LAMBDA piece : piece # <<>>)
Parse(bytes) ==
    FoldLeft(ParseLog, [cached |-> cached, level |-> loglevel, printed |-> printed], Pieces(bytes))

-----------------------------------------------------------------------------
Init == /\ conn = "none" /\ closed = FALSE /\ wire = <<>> /\ cnt = 0
        /\ cached = <<>> /\ loglevel = "INFO" /\ printed = <<>>
        /\ sent = <<>> /\ received = <<>> /\ torn = FALSE /\ closes = 0 /\ quit = FALSE

Connect ==
    /\ conn = "none" /\ ~quit
    /\ conn' = IF ClearFirst THEN "clear" ELSE "read"
    /\ closed' = FALSE /\ wire' = <<>> /\ cnt' = 0
    /\ torn' = (torn \/ cached # <<>>)
    /\ UNCHANGED <<state, sent, received, closes, quit>>

\* The service sends a record, as inject_to_pipe wrote it, or closes.
Send ==
    /\ conn # "none" /\ ~closed /\ Len(sent) < MaxRecord
    /\ \E record \in Records :
          LET r == Len(sent) + 1
              text == record.text
          IN  /\ sent' = Append(sent, First(record.request))
              /\ wire' = wire \o <<[rec |-> r, kind |-> Mark(record.request)]>>
                              \o [i \in DOMAIN text |-> [rec |-> r, kind |-> text[i]]]
    /\ UNCHANGED <<conn, closed, cnt, state, received, torn, closes, quit>>
Close ==
    /\ conn # "none" /\ ~closed /\ closes < MaxClose
    /\ closed' = TRUE /\ closes' = closes + 1
    /\ \E n \in 0 .. Len(wire) : wire' = SubSeq(wire, 1, n)
    /\ UNCHANGED <<conn, cnt, state, sent, received, torn, quit>>

Taken(n) == SubSeq(wire, 1, n)
Sizes == 1 .. IF Len(wire) < ReadMax THEN Len(wire) ELSE ReadMax
Left(n) == wire' = SubSeq(wire, n + 1, Len(wire))

\* What is there in the first second is dropped.
Drop ==
    /\ conn = "clear"
    /\ \E n \in Sizes :
          /\ Left(n)
          /\ torn' = (torn \/ (n < Len(wire) /\ wire[n + 1].kind \notin DOMAIN Levels))
    /\ UNCHANGED <<conn, closed, cnt, state, sent, received, closes, quit>>
Cleared ==
    /\ conn = "clear"
    /\ conn' = "read"
    /\ UNCHANGED <<closed, wire, cnt, state, sent, received, torn, closes, quit>>

Read ==
    /\ conn = "read"
    /\ \E n \in Sizes :
          LET new == Parse(Taken(n))
          IN  /\ cached' = new.cached /\ loglevel' = new.level /\ printed' = new.printed
              /\ received' = received \o Taken(n)
              /\ Left(n)
    /\ cnt' = 0
    /\ UNCHANGED <<conn, closed, sent, torn, closes, quit>>

\* 100 ms without a byte.  The counter matters only up to the larger limit.
Silence ==
    /\ conn = "read" /\ wire = <<>> /\ ~closed
    /\ cnt' = IF cnt < ClosedReads + ReadTimes THEN cnt + 1 ELSE cnt
    /\ quit' = (ReadTimes > 0 /\ cnt' >= ReadTimes)
    /\ conn' = IF quit' THEN "none" ELSE conn
    /\ UNCHANGED <<closed, wire, state, sent, received, torn, closes>>

\* A closed connection reads as nothing, ten times, before it is given up.
ReadEnd ==
    /\ conn = "read" /\ wire = <<>> /\ closed
    /\ cnt' = IF cnt < ClosedReads + ReadTimes THEN cnt + 1 ELSE cnt
    /\ conn' = IF cnt' >= ClosedReads THEN "none" ELSE conn
    /\ UNCHANGED <<closed, wire, state, sent, received, torn, closes, quit>>

SelectFails ==
    /\ conn = "read" /\ closes < MaxClose
    /\ conn' = "none" /\ wire' = <<>> /\ closes' = closes + 1
    /\ UNCHANGED <<closed, cnt, state, sent, received, torn, quit>>

Next == Connect \/ Send \/ Close \/ Drop \/ Cleared \/ Read \/ Silence \/ ReadEnd \/ SelectFails

Spec == Init /\ [][Next]_vars

-----------------------------------------------------------------------------
\* The lines of the bytes read, and what follows the last of them.
Split == LET Byte(s, b) ==
                 IF b.kind = "newline" THEN [whole |-> Append(s.whole, s.rest), rest |-> <<>>]
                 ELSE [s EXCEPT !.rest = Append(@, Shown(b))]
         IN  FoldLeft(Byte, [whole |-> <<>>, rest |-> <<>>], received)
Text(line) == IF IsMarked(line) THEN Tail(line) ELSE line
Longest == Max({Len(Split.rest)} \cup {Len(line) : line \in ToSet(Split.whole)})

\* However the socket cuts the stream and wherever connections end, while no
\* line comes near the size of the cache every byte read is printed once, in
\* the line it was sent in, NUL bytes and lines without a mark included; and
\* while no connection begins in the middle of a record, each line of a
\* record has the level of its record (logcat.c:224-233, 437-453).
LinesKept ==
    /\ Longest + ReadMax < Size =>
          /\ cached = Split.rest
          /\ [i \in DOMAIN printed |-> printed[i].text] = [i \in DOMAIN Split.whole |-> Text(Split.whole[i])]
    /\ ~torn /\ Longest + ReadMax < Size =>
          \A i \in DOMAIN printed :
              printed[i].text # <<>> => printed[i].level = sent[printed[i].text[1].rec]
=============================================================================
