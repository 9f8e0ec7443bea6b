-------------------------- MODULE MCOperationGuard --------------------------
(* Model-checking instances of OperationGuard: three operations compete    *)
(* for two devices.                                                        *)
EXTENDS OperationGuard, TLC

\* Devices and operations are interchangeable.
Symmetry == Permutations(Device) \cup Permutations(Job)
=============================================================================
