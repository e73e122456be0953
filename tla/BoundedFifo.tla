----------------------------- MODULE BoundedFifo -----------------------------
(***************************************************************************)
(* What a bounded queue of messages promises to one who puts messages in   *)
(* and takes them out: first in, first out, never more than its capacity,  *)
(* and nothing goes but by being taken, until the queue itself goes.       *)
(***************************************************************************)
EXTENDS Sequences, Naturals

CONSTANTS Message, Capacity

VARIABLES live,   \* the queue exists
          fifo    \* the messages in it, oldest first

vars == <<live, fifo>>

Init == live = FALSE /\ fifo = <<>>

Create == /\ ~live
          /\ live' = TRUE
          /\ fifo' = <<>>

Put == /\ live /\ Len(fifo) < Capacity
       /\ \E m \in Message : fifo' = Append(fifo, m)
       /\ UNCHANGED live

Get == /\ live /\ fifo # <<>>
       /\ fifo' = Tail(fifo)
       /\ UNCHANGED live

\* The queue is destroyed with whatever is left in it.
Discard == /\ live
           /\ live' = FALSE
           /\ fifo' = <<>>

Next == Create \/ Put \/ Get \/ Discard

Spec == Init /\ [][Next]_vars
=============================================================================
