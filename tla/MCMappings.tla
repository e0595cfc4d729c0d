----------------------------- MODULE MCMappings -----------------------------
(* A small address space for TLC.                                          *)
EXTENDS Mappings, TLC

CONSTANTS m1, m2, p1, p2

\* Every client has a replica of its own.
OwnPaths == m1 :> {p1} @@ m2 :> {p2}
=============================================================================
