----------------------------- MODULE DeviceLock -----------------------------
(***************************************************************************)
(* What the per-device operation guard of config-service promises, with    *)
(* every detail of markers, clocks and threads left out: each device has   *)
(* at most one owner, ownership is only ever taken when the device is      *)
(* free, and it ends either because the owner gives it up or because the   *)
(* service forgets it (expiry or restart), which may hit several devices   *)
(* at once.  OperationGuard implements this specification.                 *)
(***************************************************************************)
CONSTANTS Device, Job, NoJob

VARIABLE owner        \* owner[d]: the operation that owns device d, or NoJob

Init == owner = [d \in Device |-> NoJob]

\* A free device is taken by an operation.
Take(d, j) ==
  /\ owner[d] = NoJob
  /\ owner' = [owner EXCEPT ![d] = j]

\* The owner gives the device up.
GiveUp(d) ==
  /\ owner[d] # NoJob
  /\ owner' = [owner EXCEPT ![d] = NoJob]

\* The service forgets the owners of every device in S.
Forget(S) == owner' = [d \in Device |-> IF d \in S THEN NoJob ELSE owner[d]]

Next ==
  \/ \E d \in Device : GiveUp(d) \/ \E j \in Job : Take(d, j)
  \/ \E S \in SUBSET Device : Forget(S)

Spec == Init /\ [][Next]_owner
=============================================================================
