---------------------------- MODULE MCLivePolling ----------------------------
(* Model-checking instances of LivePolling.                                *)
EXTENDS LivePolling, TLC

CONSTANTS a1, a2

\* Two addresses with a credential.
TwoAddresses == {[addr |-> a1, community |-> TRUE],
                 [addr |-> a2, community |-> TRUE]}

\* A unit may also be provisioned without one.
WithAndWithout == TwoAddresses \cup {[addr |-> a2, community |-> FALSE]}

\* Walks and requests are interchangeable.
Symmetry == Permutations(Poll) \cup Permutations(Handler)
=============================================================================
