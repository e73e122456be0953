--------------------------- MODULE MCConfigStore ---------------------------
(* Five items that differ in what the code tells apart: an integer by size  *)
(* with a validator and an on_change, a string that asks for a restart, a   *)
(* temporary float, a bool without default file, and one that is refused    *)
(* at registration because its storage is a buffer.                         *)
EXTENDS ConfigStore

CONSTANTS k1, k2, k3, k5, u, f1, f2, f3

MCKeys == {k1, k2, k3, k5}
An(type, size, range, valid, flags, hook, default, file) ==
    [type |-> type, size |-> size, range |-> range, valid |-> valid, flags |-> flags,
     on_change |-> hook, default |-> default, default_file |-> file]
MCItem == (k1 :> An("int_auto", 4, 0..2, 0..1, {"RUNTIME"}, TRUE, 0, f1))
       @@ (k2 :> An("string", 8, {0, Word}, {0, Word}, {"RUNTIME", "RESTART"}, FALSE, 0, f2))
       @@ (k3 :> An("double", 4, 0..1, 0..1, {"RUNTIME", "TEMPORARY"}, FALSE, 0, None))
       @@ (k5 :> An("string", 16, {0}, {0}, {"RUNTIME"}, FALSE, 0, None))
MCFiles == {f1, f2, f3}
MCOrder == <<f1, f2>>
In(type, n) == [type |-> type, v |-> n]
Nothing == [k \in MCKeys \cup {u} |-> Absent]
MCInitial == (f1 :> [Nothing EXCEPT ![k1] = In("int", 3), ![k3] = In("double", 1), ![u] = In("int", 1)])
          @@ (f2 :> Broken) @@ (f3 :> Broken)
=============================================================================
