--------------------------- MODULE MCProvisioning ---------------------------
(* Model-checking instances of Provisioning: one hostname, what it becomes *)
(* when a serial number is appended, and when that happens again.          *)
EXTENDS Provisioning, Sequences, TLC

CONSTANTS s1, s2

Serials == {s1, s2}
Hostname == {<<>>}
Once == {<<s>> : s \in Serials}
Twice == {<<r, s>> : r, s \in Serials}
Labels == Hostname \cup Once
Keys == Labels \cup Twice
Appended == [k \in Labels |-> [s \in Serials |-> Append(k, s)]]

\* Calls, units, addresses and names are interchangeable.
Symmetry == Permutations(Thread) \cup Permutations(Serials)
              \cup Permutations(Ip) \cup Permutations(Name)
=============================================================================
