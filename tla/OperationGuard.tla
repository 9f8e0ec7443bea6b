--------------------------- MODULE OperationGuard ---------------------------
(***************************************************************************)
(* The per-device concurrency guard of config-service (OperationGuard.java)*)
(* together with the locking discipline of the three operations that use   *)
(* it: pushConfig, bulkPush and initiateRollback.                          *)
(*                                                                         *)
(* A marker lives in a ConcurrentHashMap.  acquire makes two separate      *)
(* atomic accesses to it -- drop the marker if it has expired, then        *)
(* compute -- and other threads may run between the two.  Expiry is lazy:  *)
(* a marker past its expiresAt stays in the map until somebody looks.      *)
(* A restart of the service loses the map and every thread.                *)
(***************************************************************************)
EXTENDS Integers

CONSTANTS Device,      \* device ids
          Job,         \* operation ids: one thread of the service each
          NoJob,
          MarkerTtl,   \* operation.guard.marker-ttl-seconds, in ticks
          MaxClock     \* bound on the clock, for model checking only

ASSUME GuardAssumption ==
  /\ NoJob \notin Job
  /\ MarkerTtl \in Nat
  /\ MaxClock \in Nat

OperationClass == {"CONFIG_CHANGE", "REBOOT", "FACTORY_RESET",
                   "FIRMWARE_UPGRADE", "FILE_TRANSFER",
                   "READ_ONLY_DIAGNOSTIC"}

IsExclusive(cls) == cls # "READ_ONLY_DIAGNOSTIC"

\* The operations and the classes each of them may acquire.  Diagnostics are
\* the client the guard is written for in OperationGuardTest.
Kind == {"push", "bulk", "rollback", "diagnostic"}

ClassesOf(kind) ==
  CASE kind = "push"       -> {"CONFIG_CHANGE", "FIRMWARE_UPGRADE"}
    [] kind = "bulk"       -> {"CONFIG_CHANGE"}
    [] kind = "rollback"   -> {"CONFIG_CHANGE"}
    [] kind = "diagnostic" -> {"READ_ONLY_DIAGNOSTIC"}

VARIABLES now,      \* the wall clock, Instant.now()
          marker,   \* marker[d]: the in-flight marker of d, or NoMarker
          call      \* call[j]: where the thread of operation j is

vars == <<now, marker, call>>

NoMarker == [job |-> NoJob, cls |-> "none", expiresAt |-> 0]

Marker == [job : Job, cls : OperationClass, expiresAt : Nat]

Phase == {"idle", "reconcile", "compute", "holding", "blocked", "released",
          "accepted"}

\* began: the time acquire was entered; until: the expiry of the marker the
\* call got; blockedUntil: the expiry of the marker that blocked it.
NoCall(d) == [pc |-> "idle", kind |-> "push", dev |-> d,
              cls |-> "CONFIG_CHANGE", began |-> 0, until |-> 0,
              blockedUntil |-> 0]

Call == [pc : Phase, kind : Kind, dev : Device, cls : OperationClass,
         began : Nat, until : Nat, blockedUntil : Nat]

TypeOK ==
  /\ now \in Nat
  /\ marker \in [Device -> Marker \cup {NoMarker}]
  /\ call \in [Job -> Call]

Init ==
  /\ now = 0
  /\ marker = [d \in Device |-> NoMarker]
  /\ \E d \in Device : call = [j \in Job |-> NoCall(d)]

-----------------------------------------------------------------------------
(* acquire *)

\* A thread starts an operation; bulkPush goes on to its next device after
\* the previous one was released or found blocked.
MayStart(j, kind) ==
  \/ call[j].pc = "idle"
  \/ call[j].pc \in {"blocked", "released"} /\ call[j].kind = "bulk"
                                            /\ kind = "bulk"

Acquire(j, d, kind, cls) ==
  /\ MayStart(j, kind)
  /\ cls \in ClassesOf(kind)
  /\ call' = [call EXCEPT ![j] =
       [pc |-> IF IsExclusive(cls) THEN "reconcile" ELSE "holding",
        kind |-> kind, dev |-> d, cls |-> cls, began |-> now,
        until |-> 0, blockedUntil |-> 0]]
  /\ UNCHANGED <<now, marker>>

\* Mutant: a marker counts as stale from the very second it expires.
ExpiredAtLimit(d) == marker[d] # NoMarker /\ now >= marker[d].expiresAt

Expired(d) == marker[d] # NoMarker /\ now > marker[d].expiresAt

\* Mutant: stale markers are left for somebody else to clean up.
KeepExpired(d) == marker

\* reconcileExpired: the marker map with d's marker dropped if it is stale.
DropExpired(d) ==
  IF Expired(d) THEN [marker EXCEPT ![d] = NoMarker] ELSE marker

Reconcile(j) ==
  /\ call[j].pc = "reconcile"
  /\ marker' = DropExpired(call[j].dev)
  /\ call' = [call EXCEPT ![j].pc = "compute"]
  /\ UNCHANGED now

\* Mutant: the expiry is computed on the wrong side of now.
ExpiryInThePast(j, d, cls) ==
  IF marker[d] = NoMarker
  THEN [job |-> j, cls |-> cls, expiresAt |-> now - MarkerTtl]
  ELSE marker[d]

\* Mutant: put instead of compute, the existing marker is overwritten.
OverwriteMarker(j, d, cls) ==
  [job |-> j, cls |-> cls, expiresAt |-> now + MarkerTtl]

\* markers.compute: what the map holds for d afterwards.
ComputeMarker(j, d, cls) ==
  IF marker[d] = NoMarker
  THEN [job |-> j, cls |-> cls, expiresAt |-> now + MarkerTtl]
  ELSE marker[d]

\* The idempotency key of the resulting marker is the caller's own.
OwnKey(m, j, cls) == m.job = j /\ m.cls = cls

Compute(j) ==
  /\ call[j].pc = "compute"
  /\ LET d == call[j].dev
         m == ComputeMarker(j, d, call[j].cls)
     IN /\ marker' = [marker EXCEPT ![d] = m]
        /\ call' = IF OwnKey(m, j, call[j].cls)
                   THEN [call EXCEPT ![j].pc = "holding",
                                     ![j].until = m.expiresAt]
                   ELSE [call EXCEPT ![j].pc = "blocked",
                                     ![j].blockedUntil = m.expiresAt]
  /\ UNCHANGED now

-----------------------------------------------------------------------------
(* release, and the other ways an operation ends *)

\* Mutant: release drops whatever marker the device has.
MayRemoveAny(j, d) == marker[d] # NoMarker

\* release: only the marker of the caller's own job is removed.
MayRemove(j, d) == marker[d].job = j

ReleaseMarker(j, d) ==
  IF MayRemove(j, d) THEN [marker EXCEPT ![d] = NoMarker] ELSE marker

\* pushConfig and bulkPush release in a finally block, initiateRollback in
\* its catch block; a diagnostic may release as well, to no effect.
Release(j) ==
  /\ call[j].pc = "holding"
  /\ marker' = ReleaseMarker(j, call[j].dev)
  /\ call' = [call EXCEPT ![j].pc = "released"]
  /\ UNCHANGED now

\* initiateRollback returns ACCEPTED without releasing.
AcceptRollback(j) ==
  /\ call[j].pc = "holding"
  /\ call[j].kind = "rollback"
  /\ call' = [call EXCEPT ![j].pc = "accepted"]
  /\ UNCHANGED <<now, marker>>

\* getCurrent drops a stale marker before it answers.
GetCurrent(d) ==
  /\ Expired(d)
  /\ marker' = DropExpired(d)
  /\ UNCHANGED <<now, call>>

-----------------------------------------------------------------------------
(* The environment *)

\* Bounded by MaxClock.
Tick ==
  /\ now < MaxClock
  /\ now' = now + 1
  /\ UNCHANGED <<marker, call>>

\* The map is in memory and the threads die with the service.  The ids of
\* the operations that ended are free again: new operations get new UUIDs.
Restart ==
  /\ marker' = [d \in Device |-> NoMarker]
  /\ \E d \in Device : call' = [j \in Job |-> NoCall(d)]
  /\ UNCHANGED now

Step(j) ==
  \/ \E d \in Device, kind \in Kind : \E cls \in ClassesOf(kind) :
        Acquire(j, d, kind, cls)
  \/ Reconcile(j)
  \/ Compute(j)
  \/ Release(j)
  \/ AcceptRollback(j)

Next ==
  \/ \E j \in Job : Step(j)
  \/ \E d \in Device : GetCurrent(d)
  \/ Tick
  \/ Restart

Spec == Init /\ [][Next]_vars

-----------------------------------------------------------------------------
(* Properties *)

\* Operation j is at work on device d in an exclusive class.
Working(j, d) ==
  /\ call[j].pc = "holding"
  /\ call[j].dev = d
  /\ IsExclusive(call[j].cls)

\* Two exclusive operations work on the same device at the same time only if
\* one of them has outlived the marker it was given: the TTL is the whole
\* price of the guard's crash tolerance (OperationGuard.acquire/release).
ExclusiveWithinTtl ==
  \A d \in Device : \A j, k \in Job :
    Working(j, d) /\ Working(k, d) /\ j # k
      => now > call[j].until \/ now > call[k].until

\* Nobody is turned away because of a marker that was already stale when the
\* call arrived, although expiry is lazy and other threads run between the
\* reconciliation and the compute (acquire lines 69-74).
BlockedOnlyByLive ==
  \A j \in Job :
    call[j].pc = "blocked" => call[j].blockedUntil >= call[j].began

\* A marker that is still valid leaves the map in two ways only: the thread
\* of its own job, which is then at work on that device, releases it, or the
\* whole map is lost.  A late release by an operation that lost its marker
\* to the TTL never frees its successor's (release lines 114-124).
LiveMarkerOnlyFreedByOwner ==
  [][\A d \in Device :
       marker[d] # NoMarker /\ now <= marker[d].expiresAt
         => \/ marker'[d] = marker[d]
            \/ marker[d].job \in Job /\ Working(marker[d].job, d)
               /\ call'[marker[d].job].pc = "released"
            \/ \A k \in Job : call'[k].pc = "idle"]_vars

\* The guard implements the abstract per-device lock.
Lock == INSTANCE DeviceLock WITH
          owner <- [d \in Device |-> marker[d].job]
ImplementsDeviceLock == Lock!Spec
=============================================================================
