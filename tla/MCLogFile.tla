------------------------------ MODULE MCLogFile ------------------------------
(***************************************************************************)
(* Small instances of LogFile: two threads logging, two or three records,  *)
(* a pipe of three or four pieces read two at a time.                      *)
(***************************************************************************)
EXTENDS LogFile, TLC

InjectorSymmetry == Permutations(Injector)
=============================================================================
