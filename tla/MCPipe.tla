------------------------------- MODULE MCPipe -------------------------------
(***************************************************************************)
(* Small instances of Pipe: two threads, a ring of two or three bytes.     *)
(***************************************************************************)
EXTENDS Pipe, TLC

CONSTANTS a, b

\* Writes of nothing, of a part of the ring, and of a whole ring of either size.
MCData2 == {<<>>, <<a>>, <<b, a>>}
MCData3 == {<<>>, <<b>>, <<a, b>>, <<a, b, b>>}

Arg(size, least, bunch) == [size |-> size, least |-> least, bunch |-> bunch]

\* Reads as the log library makes them (least = bunch = 0), and in units of two.
MCReadArg == {Arg(1, 0, 0), Arg(2, 0, 0)}
MCBunchArg == {Arg(1, 0, 0), Arg(3, 0, 2)}

ThreadSymmetry == Permutations(Thread)
=============================================================================
