------------------------ MODULE MCDescriptorLifecycle ------------------------
(* Model-checking instances of DescriptorLifecycle.                        *)
EXTENDS DescriptorLifecycle, TLC

\* Handlers and users are interchangeable.
Symmetry == Permutations(Request) \cup Permutations(User)
=============================================================================
