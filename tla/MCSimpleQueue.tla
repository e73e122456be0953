---------------------------- MODULE MCSimpleQueue ----------------------------
(***************************************************************************)
(* Small instances of SimpleQueue: a ring of three slots, twice as many    *)
(* messages, two threads on one side.                                      *)
(***************************************************************************)
EXTENDS SimpleQueue
=============================================================================
