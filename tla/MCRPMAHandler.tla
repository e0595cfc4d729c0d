---------------------------- MODULE MCRPMAHandler ----------------------------
(* Small instances of one server connection for TLC.                       *)
EXTENDS RPMAHandler, TLC

\* Addresses of ops and remote keys are interchangeable.
Symmetry == Permutations(Ops) \cup Permutations(Keys)
=============================================================================
