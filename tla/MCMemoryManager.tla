--------------------------- MODULE MCMemoryManager ---------------------------
(* Small instances of the memory managers for TLC.                         *)
EXTENDS MemoryManager, TLC

CONSTANTS m1, m2, p1, p2

\* One replica both clients may name, and one only the first does.
SharedPaths == m1 :> {p1, p2} @@ m2 :> {p1}
=============================================================================
