------------------------------- MODULE CanTool -------------------------------
(***************************************************************************)
(* Where the bits of a signal are in the bytes of a CAN FD packet:         *)
(* test-canfd/src/can_tool.c.  A byte, or a number, is the set of the      *)
(* positions of its 1 bits, so a shift moves the positions and a mask is   *)
(* an intersection; the bytes that the code adds up do not overlap.        *)
(*                                                                         *)
(* The Motorola functions count their bytes from the last one of the data. *)
(* Their loop goes down to startByte with an index of type uint8_t, so it  *)
(* never ends for startByte = 0 (Terminates).  Sums of int width limit a   *)
(* signal to four bytes, a mask of 64 bits is undefined.                   *)
(***************************************************************************)
EXTENDS Integers, Sequences

CONSTANT W       \* the bits of a byte: 8

Bit == 0 .. W - 1
Byte(v) == v \cap Bit                    \* a number assigned to uint8_t
Left(v, n) == {b + n : b \in v}
Right(v, n) == {b - n : b \in {c \in v : c >= n}}
Mask(length) == 0 .. length - 1

\* The bytes a signal touches.
NumBytes(bit, length) == (bit + length - 1) \div W + 1
Touched(first, bit, length) == first .. first + NumBytes(bit, length) - 1

GetIntel(data, first, bit, length) ==
    Right(UNION {Left(data[i + 1], (i - first) * W) : i \in Touched(first, bit, length)}, bit)
      \cap Mask(length)

\* mutant: the bits of the old value stay
SetIntelOver(data, val, first, bit, length) ==
    LET put == Left(val \cap Mask(length), first * W + bit)
    IN  [j \in DOMAIN data |->
            IF j - 1 \in Touched(first, bit, length)
            THEN data[j] \cup Byte(Right(put, (j - 1) * W))
            ELSE data[j]]

SetIntel(data, val, first, bit, length) ==
    LET start == first * W + bit
        put   == Left(val \cap Mask(length), start)
        clear == Left(Mask(length), start)
    IN  [j \in DOMAIN data |->
            IF j - 1 \in Touched(first, bit, length)
            THEN (data[j] \ Right(clear, (j - 1) * W)) \cup Byte(Right(put, (j - 1) * W))
            ELSE data[j]]

Terminates(first) == first > 0

GetMotorola(data, first, bit, length) ==
    Right(UNION {Left(data[Len(data) - i], (i - first) * W)
                   : i \in Touched(first, bit % W, length)}, bit % W)
      \cap Mask(length)

\* Only the byte startByte gets its part of the value shifted to startBit; the
\* others get theirs as if the signal began at a whole byte.
SetMotorola(data, val, first, bit, length) ==
    LET put   == val \cap Mask(length)
        clear == Left(Mask(length), bit)
        part(i) == IF i = first THEN Left(put, bit % W) ELSE Right(put, (i - first) * W)
    IN  [j \in DOMAIN data |->
            LET i == Len(data) - j
            IN  IF i \in Touched(first, bit % W, length)
                THEN (data[j] \ Right(clear, i * W)) \cup Byte(part(i))
                ELSE data[j]]

\* The signals that SetMotorola stores wrongly: across a byte, not aligned.
Torn(bit, length) == bit % W # 0 /\ NumBytes(bit % W, length) > 1
=============================================================================
