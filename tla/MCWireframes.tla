---------------------------- MODULE MCWireframes -----------------------------
(* Model-checking instances of Wireframes.                                 *)
EXTENDS Wireframes, TLC

\* Handlers and versions are interchangeable.
Symmetry == Permutations(Thread) \cup Permutations(Version)
=============================================================================
