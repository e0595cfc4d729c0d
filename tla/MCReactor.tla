------------------------------ MODULE MCReactor ------------------------------
(* Small instances of the server process for TLC.                          *)
EXTENDS Reactor, TLC

\* Handler addresses and descriptor numbers are interchangeable.
Symmetry == Permutations(Handlers) \cup Permutations(Fds)
=============================================================================
