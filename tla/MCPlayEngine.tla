---------------------------- MODULE MCPlayEngine ----------------------------
(* A small instance of PlayEngine for TLC. *)
EXTENDS PlayEngine, TLC

\* The media are interchangeable.
Symmetry == Permutations(Mrls)
=============================================================================
