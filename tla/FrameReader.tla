----------------------------- MODULE FrameReader -----------------------------
(***************************************************************************)
(* The reader of a serial line, src/linux-coding-c/test-recv.c: it collects*)
(* bytes in a buffer, looks for the start of a frame, takes the length from*)
(* its head, compares the check byte, removes the escape characters in     *)
(* place and pushes a copy.  A frame is                                    *)
(*     sof, two bytes of length, id, sub_id, data, check byte              *)
(* and its length counts what follows the length.  The start characters    *)
(* and the escape character do not occur in the data as sent: they are     *)
(* replaced by the escape character and a code.  The file does not define  *)
(* the escape character; a char is unsigned, as on the A53 it is for.      *)
(*                                                                         *)
(* A byte is a number below 2^Width.                                       *)
(***************************************************************************)
EXTENDS Integers, SequencesExt, Bitwise

CONSTANTS
    Width,
    Sof, OtherSof, Escape,   \* 0x60 of the MCU, 0x80 of the A53, and 0xdb
    Code1, Code2, Code3,     \* 0xda, 0xdc and 0xdd, which stand for them
    BufferSize,              \* 512
    MaxPacket,               \* sizeof(uart_msgbuff), 258
    Messages,                \* [id, sub_id, data] of those that come
    NoMemory,                \* TRUE: malloc may fail
    MaxFrames                \* bound: frames that come

Base == 2 ^ Width
HeadSize == 5                   \* offset_of(data)

VARIABLES
    buffer, recv_len,  \* buffer[i], i from 0; what is beyond recv_len is stale
    line,              \* bytes that have come and are not read
    frames,            \* how many frames have come
    tidy,              \* each read brought at most one frame, cut only in its
                       \* head; see FrameEnds
    complete,          \* the messages whose last byte was read
    pushed,            \* the messages in ul_queue
    failed             \* malloc has failed

vars == <<buffer, recv_len, line, frames, tidy, complete, pushed, failed>>

\* get_crc: the exclusive or of bytes.
Crc(bytes) == FoldLeft(LAMBDA x, y : x ^^ y, 0, bytes)

\* The length of a frame in its two bytes, the high one first, and back.
Length(high, low) == high * Base + low

-----------------------------------------------------------------------------
(* The sender's side.                                                       *)

\* add_escape_char: the data as it is sent.
AddEscape(data) ==
    FlattenSeq([i \in DOMAIN data |->
        CASE data[i] = Sof -> <<Escape, Code1>>
          [] data[i] = OtherSof -> <<Escape, Code2>>
          [] data[i] = Escape -> <<Escape, Code3>>
          [] OTHER -> <<data[i]>>])

\* The frame of message m, without its check byte being escaped.
Frame(m) ==
    LET data == AddEscape(m.data)
        length == Len(data) + 3
        body == <<length \div Base, length % Base, m.id, m.sub_id>> \o data
    IN  <<Sof>> \o body \o <<Crc(body)>>

-----------------------------------------------------------------------------
(* The reader's.                                                            *)

\* find_index_of_sof: the index of the first, or -1.
FindSof(b, size) ==
    LET found == {i \in 0 .. size - 1 : b[i] = Sof}
    IN  IF found = {} THEN -1 ELSE CHOOSE i \in found : \A j \in found : i <= j

\* memmove to the start of the buffer: what is beyond the bytes moved stays.
Moved(b, from, size) == [i \in DOMAIN b |-> IF i < size THEN b[from + i] ELSE b[i]]

Codes == [c \in {Code1, Code2, Code3} |->
            CASE c = Code1 -> Sof [] c = Code2 -> OtherSof [] c = Code3 -> Escape]

\* remove_escape_char on the bytes of b from first to last, in place: the
\* buffer, where it writes next, whether the byte before was an escape
\* character, and what went wrong.
Unescape(b, first, last) ==
    FoldLeft(LAMBDA s, i :
               IF s.wrong THEN s
               ELSE IF s.escaped
               THEN IF s.b[i] \in DOMAIN Codes
                    THEN [b |-> [s.b EXCEPT ![i] = Codes[s.b[i]], ![s.new] = Codes[s.b[i]]],
                          new |-> s.new + 1, escaped |-> FALSE, wrong |-> FALSE]
                    ELSE [s EXCEPT !.wrong = TRUE]
               ELSE IF s.b[i] = Escape THEN [s EXCEPT !.escaped = TRUE]
               ELSE [s EXCEPT !.b[s.new] = s.b[i], !.new = s.new + 1],
             [b |-> b, new |-> first, escaped |-> FALSE, wrong |-> FALSE],
             [k \in 1 .. last - first + 1 |-> first + k - 1])

\* mutant: the last byte of the data is left out
LastUnescapedShort(length) == HeadSize + length - 5

\* It is told to go through as many bytes as the length says, from the data
\* on: the data, the check byte and the two bytes behind the frame.
LastUnescaped(length) == HeadSize + length - 1

\* The head's length as the host has it: the bytes are swapped in place.
Swapped(b) == [b EXCEPT ![1] = b[2], ![2] = b[1]]
\* The length after the head was swapped, and the frame's size.
HostLength(b) == Length(b[2], b[1])
SetLength(b, n) == [b EXCEPT ![1] = n % Base, ![2] = n \div Base]

Bytes(b, first, size) == [k \in 1 .. size |-> b[first + k - 1]]

\* A turn of rpmsg_recv_proc after it has read: the buffer b holds size bytes.
\* The result is the buffer, the bytes in it and what was pushed.
Result(b, size, out) == [buffer |-> b, recv_len |-> size, out |-> out]
Throw(b) == Result(b, 0, <<>>)

Push(b, size, allocated) ==
    LET length == HostLength(b)
        clean == Unescape(b, HeadSize, LastUnescaped(length))
        escapes == LastUnescaped(length) + 1 - clean.new
        pkg_len == length - escapes + 3
        done == SetLength(clean.b, length - escapes)
    IN  IF clean.wrong \/ clean.escaped THEN Throw(clean.b)
        ELSE IF ~allocated THEN Result(done, size - escapes, <<>>)
        ELSE Result(Moved(done, pkg_len, size - escapes - pkg_len), size - escapes - pkg_len,
                    <<Bytes(done, 0, pkg_len)>>)

Packet(b, size, allocated) ==
    LET host == Swapped(b)
        pkg_len == HostLength(host) + 3
    IN  IF pkg_len > MaxPacket \/ pkg_len <= HeadSize THEN Throw(host)
        ELSE IF pkg_len > size THEN Result(host, size, <<>>)
        ELSE IF Crc(Bytes(host, 1, pkg_len - 2)) # host[pkg_len - 1] THEN Throw(host)
        ELSE Push(host, size, allocated)

Handle(b, size, allocated) ==
    LET at == FindSof(b, size)
    IN  IF size < HeadSize THEN Result(b, size, <<>>)
        ELSE IF at = -1 THEN Throw(b)
        ELSE IF at = 0 THEN Packet(b, size, allocated)
        ELSE IF size - at < HeadSize THEN Result(Moved(b, at, size - at), size - at, <<>>)
        ELSE Packet(Moved(b, at, size - at), size - at, allocated)

-----------------------------------------------------------------------------
Init ==
    /\ buffer = [i \in 0 .. BufferSize - 1 |-> 0] /\ recv_len = 0
    /\ line = <<>> /\ frames = 0 /\ tidy = TRUE
    /\ complete = <<>> /\ pushed = <<>> /\ failed = FALSE

\* A frame comes while what came before has been read, or close behind it.
Come(m) ==
    /\ frames < MaxFrames /\ frames' = frames + 1
    /\ line' = line \o Frame(m)
    /\ complete' = Append(complete, m)
    /\ tidy' = (tidy /\ line = <<>> /\ recv_len = 0)
    /\ UNCHANGED <<buffer, recv_len, pushed, failed>>

\* The escape character is neither the check byte of the frame in b nor one of
\* the two bytes behind it.
FrameEnds(b, size) ==
    LET pkg_len == Length(b[1], b[2]) + 3
    IN  \A i \in pkg_len - 1 .. pkg_len + 1 : b[i] # Escape

\* read: all that is there, or a part of it, into the room that is left.
Read(n) ==
    /\ n \in 1 .. Len(line) /\ n <= BufferSize - recv_len
    /\ \E allocated \in IF NoMemory THEN BOOLEAN ELSE {TRUE} :
          LET b == [i \in DOMAIN buffer |->
                      IF i \in recv_len .. recv_len + n - 1 THEN line[i - recv_len + 1] ELSE buffer[i]]
              size == recv_len + n
              r == Handle(b, size, allocated)
          IN  /\ buffer' = r.buffer /\ recv_len' = r.recv_len
              /\ pushed' = pushed \o r.out
              /\ failed' = (failed \/ ~allocated)
              /\ tidy' = (tidy /\ (size < HeadSize \/ (n = Len(line) /\ FrameEnds(b, size))))
    /\ line' = SubSeq(line, n + 1, Len(line))
    /\ UNCHANGED <<frames, complete>>

Next == (\E m \in Messages : Come(m)) \/ \E n \in 1 .. Len(line) : Read(n)
Spec == Init /\ [][Next]_vars

-----------------------------------------------------------------------------
\* What is pushed for message m: the length in the host's order.
Pushed(m) ==
    LET n == Len(m.data) + 3
        body == <<n % Base, n \div Base, m.id, m.sub_id>> \o m.data
    IN  <<Sof>> \o body \o <<Crc(Tail(Frame(m)))>>

\* Frames that come one by one are pushed as they were sent, without the escape
\* characters; and however they come there is room for the next read, unless
\* there was no memory for a copy (test-recv.c:176-264).
FramesIntact ==
    /\ tidy /\ ~failed /\ line = <<>> =>
         /\ Len(pushed) = Len(complete)
         /\ \A i \in DOMAIN pushed :
              Front(pushed[i]) = Front(Pushed(complete[i]))
    /\ recv_len \in 0 .. BufferSize
    /\ ~failed => recv_len < BufferSize
=============================================================================
