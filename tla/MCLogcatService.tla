--------------------------- MODULE MCLogcatService ---------------------------
(***************************************************************************)
(* Small instances of LogcatService: one or two slots, one more connection *)
(* than slots, pipes of two records.                                       *)
(***************************************************************************)
EXTENDS LogcatService

InjectorSymmetry == Permutations(Injector)
=============================================================================
