--------------------------- MODULE MCVersionHistory ---------------------------
(* Model-checking instances of VersionHistory.                             *)
EXTENDS VersionHistory, TLC

\* Threads of one kind are interchangeable.
Symmetry == Permutations(Push) \cup Permutations(Callback)
=============================================================================
