----------------------- MODULE OperationGuard_proofs -----------------------
(***************************************************************************)
(* Proofs about OperationGuard for every set of devices and operations and *)
(* every marker TTL.                                                       *)
(*                                                                         *)
(* None of the three safety properties is inductive.  IInv adds why they   *)
(* hold: whoever works within its TTL is named in the marker map with the  *)
(* expiry it was told (HolderOwnsMarker), the job named in the map is the  *)
(* one at work on that device (OwnerAtWork), and between the two accesses  *)
(* acquire makes to the map no stale marker can reappear (ReconciledIsLive)*)
(***************************************************************************)
EXTENDS OperationGuard, TLAPS

HolderOwnsMarker ==
  \A d \in Device, j \in Job :
    Working(j, d) /\ now <= call[j].until
      => marker[d].job = j /\ marker[d].expiresAt = call[j].until

OwnerAtWork ==
  \A d \in Device, j \in Job :
    marker[d].job = j
      => /\ call[j].pc \in {"holding", "accepted"}
         /\ call[j].dev = d
         /\ IsExclusive(call[j].cls)

ReconciledIsLive ==
  \A j \in Job :
    /\ call[j].began <= now
    /\ call[j].pc = "compute"
         => \/ marker[call[j].dev] = NoMarker
            \/ marker[call[j].dev].expiresAt >= call[j].began

\* Only exclusive classes reach the marker map.
ComputesExclusive ==
  \A j \in Job :
    call[j].pc \in {"reconcile", "compute"} => IsExclusive(call[j].cls)

IInv == /\ TypeOK
        /\ ComputesExclusive
        /\ HolderOwnsMarker
        /\ OwnerAtWork
        /\ ReconciledIsLive
        /\ BlockedOnlyByLive

-----------------------------------------------------------------------------
\* The classes an operation acquires are operation classes.
LEMMA ClassesAreClasses ==
  ASSUME NEW kind \in Kind
  PROVE  ClassesOf(kind) \subseteq OperationClass
BY DEF Kind, ClassesOf, OperationClass

\* What the typed state says about a marker: the null marker is the one
\* without a job.
LEMMA MarkerCases ==
  ASSUME TypeOK, NEW d \in Device
  PROVE  /\ marker[d] = NoMarker <=> marker[d].job = NoJob
         /\ marker[d] # NoMarker => marker[d] \in Marker
         /\ marker[d].expiresAt \in Nat
BY GuardAssumption DEF TypeOK, Marker, NoMarker

\* Every step keeps the state well typed.
LEMMA TypeStep == TypeOK /\ [Next]_vars => TypeOK'
<1> SUFFICES ASSUME TypeOK, [Next]_vars PROVE TypeOK'
  OBVIOUS
<1> USE GuardAssumption DEF TypeOK
<1>1. ASSUME NEW j \in Job, NEW d \in Device, NEW kind \in Kind,
             NEW cls \in ClassesOf(kind), Acquire(j, d, kind, cls)
      PROVE  TypeOK'
  BY <1>1, ClassesAreClasses DEF Acquire, Call, Phase
<1>2. ASSUME NEW j \in Job, Reconcile(j) PROVE TypeOK'
  BY <1>2 DEF Reconcile, DropExpired, Call, Phase
<1>3. ASSUME NEW j \in Job, Compute(j) PROVE TypeOK'
  <2> DEFINE d == call[j].dev
             m == ComputeMarker(j, d, call[j].cls)
  <2>1. d \in Device /\ call[j].cls \in OperationClass
    BY DEF Call
  <2>2. m \in Marker \cup {NoMarker} /\ m.expiresAt \in Nat
    BY <2>1, MarkerCases DEF ComputeMarker, Marker
  <2>3. /\ marker' = [marker EXCEPT ![d] = m]
        /\ call' = [call EXCEPT ![j].pc = "holding", ![j].until = m.expiresAt]
           \/ call' = [call EXCEPT ![j].pc = "blocked",
                                  ![j].blockedUntil = m.expiresAt]
        /\ now' = now
    BY <1>3 DEF Compute
  <2> HIDE DEF m
  <2>4. marker' \in [Device -> Marker \cup {NoMarker}]
    BY <2>1, <2>2, <2>3
  <2>5. call' \in [Job -> Call]
    BY <2>2, <2>3 DEF Call, Phase
  <2> QED BY <2>3, <2>4, <2>5
<1>4. ASSUME NEW j \in Job, Release(j) PROVE TypeOK'
  BY <1>4 DEF Release, ReleaseMarker, Call, Phase
<1>5. ASSUME NEW j \in Job, AcceptRollback(j) PROVE TypeOK'
  BY <1>5 DEF AcceptRollback, Call, Phase
<1>6. ASSUME NEW d \in Device, GetCurrent(d) PROVE TypeOK'
  BY <1>6 DEF GetCurrent, DropExpired
<1>7. CASE Tick
  BY <1>7 DEF Tick
<1>8. CASE Restart
  BY <1>8 DEF Restart, Call, NoCall, Phase, Kind, OperationClass
<1>9. CASE UNCHANGED vars
  BY <1>9 DEF vars
<1> QED
  BY <1>1, <1>2, <1>3, <1>4, <1>5, <1>6, <1>7, <1>8, <1>9 DEF Next, Step

\* Type correctness: the invariant TypeOK of the guard's state.
THEOREM TypeCorrect == Spec => []TypeOK
<1>1. Init => TypeOK
  BY DEF Init, TypeOK, Call, NoCall, Phase, Kind, OperationClass
<1> QED BY <1>1, TypeStep, PTL DEF Spec

-----------------------------------------------------------------------------
\* The inductive invariant is preserved by every step.
LEMMA Inductive == IInv /\ [Next]_vars => IInv'
<1> SUFFICES ASSUME IInv, [Next]_vars, TypeOK' PROVE IInv'
  BY TypeStep DEF IInv
<1> USE GuardAssumption
<1>1. ASSUME NEW j \in Job, NEW d \in Device, NEW kind \in Kind,
             NEW cls \in ClassesOf(kind), Acquire(j, d, kind, cls)
      PROVE  IInv'
  <2>1. /\ now' = now /\ marker' = marker
        /\ \A k \in Job \ {j} : call'[k] = call[k]
        /\ call'[j].pc = IF IsExclusive(cls) THEN "reconcile" ELSE "holding"
        /\ call'[j].cls = cls /\ call'[j].began = now
        /\ call[j].pc \in {"idle", "blocked", "released"}
    BY <1>1 DEF Acquire, MayStart, IInv, TypeOK
  <2>2. HolderOwnsMarker'
    BY <2>1 DEF HolderOwnsMarker, Working, IInv
  <2>3. OwnerAtWork'
    BY <2>1 DEF OwnerAtWork, IInv
  <2>4. ReconciledIsLive'
    BY <2>1 DEF ReconciledIsLive, IInv, TypeOK
  <2>5. BlockedOnlyByLive'
    BY <2>1 DEF BlockedOnlyByLive, IInv
  <2>6. ComputesExclusive'
    BY <2>1 DEF ComputesExclusive, IInv
  <2> QED BY <2>2, <2>3, <2>4, <2>5, <2>6 DEF IInv
<1>2. ASSUME NEW j \in Job, Reconcile(j) PROVE IInv'
  <2> DEFINE d == call[j].dev
  <2>1. /\ d \in Device /\ now' = now /\ marker' = DropExpired(d)
        /\ call[j].pc = "reconcile"
        /\ call' = [call EXCEPT ![j].pc = "compute"]
    BY <1>2 DEF Reconcile, IInv, TypeOK, Call
  <2>2. /\ \A k \in Job \ {j} : call'[k] = call[k]
        /\ call'[j].pc = "compute" /\ call'[j].dev = d
        /\ call'[j].began = call[j].began
    BY <2>1 DEF IInv, TypeOK, Call
  <2>3. \A e \in Device :
           \/ marker'[e] = marker[e]
           \/ marker'[e] = NoMarker /\ now > marker[e].expiresAt
    BY <2>1 DEF DropExpired, Expired, IInv, TypeOK
  <2>4. HolderOwnsMarker'
    BY <2>1, <2>2, <2>3, MarkerCases
       DEF HolderOwnsMarker, Working, IInv, TypeOK, Call
  <2>5. OwnerAtWork'
    BY <2>1, <2>2, <2>3 DEF OwnerAtWork, IInv, NoMarker
  <2>6. ReconciledIsLive'
    <3>1. marker'[d] = NoMarker \/ marker'[d].expiresAt >= call[j].began
      BY <2>1, MarkerCases
         DEF DropExpired, Expired, ReconciledIsLive, IInv, TypeOK, Call
    <3> QED BY <2>1, <2>2, <2>3, <3>1 DEF ReconciledIsLive, IInv, TypeOK, Call
  <2>7. BlockedOnlyByLive'
    BY <2>1, <2>2 DEF BlockedOnlyByLive, IInv
  <2>8. ComputesExclusive'
    BY <2>1 DEF ComputesExclusive, IInv, TypeOK, Call
  <2> QED BY <2>4, <2>5, <2>6, <2>7, <2>8 DEF IInv
<1>3. ASSUME NEW j \in Job, Compute(j) PROVE IInv'
  <2> DEFINE d == call[j].dev
             m == ComputeMarker(j, d, call[j].cls)
  <2>1. /\ d \in Device /\ now' = now /\ call[j].pc = "compute"
        /\ marker' = [marker EXCEPT ![d] = m]
    BY <1>3 DEF Compute, IInv, TypeOK, Call
  <2>2. call' = IF OwnKey(m, j, call[j].cls)
                THEN [call EXCEPT ![j].pc = "holding",
                                  ![j].until = m.expiresAt]
                ELSE [call EXCEPT ![j].pc = "blocked",
                                  ![j].blockedUntil = m.expiresAt]
    BY <1>3 DEF Compute
  <2>3. ComputesExclusive'
    BY <2>1, <2>2 DEF ComputesExclusive, IInv, TypeOK, Call
  <2>4. CASE marker[d] = NoMarker
    <3>1. m = [job |-> j, cls |-> call[j].cls, expiresAt |-> now + MarkerTtl]
      BY <2>4 DEF ComputeMarker
    <3>2. OwnKey(m, j, call[j].cls)
      BY <3>1 DEF OwnKey
    <3>3. call' = [call EXCEPT ![j].pc = "holding",
                               ![j].until = m.expiresAt]
      BY <2>2, <3>2
    <3> HIDE DEF m
    <3>4. /\ \A k \in Job \ {j} : call'[k] = call[k]
          /\ call'[j].pc = "holding" /\ call'[j].dev = d
          /\ call'[j].began = call[j].began /\ call'[j].cls = call[j].cls
          /\ call'[j].until = m.expiresAt
          /\ marker'[d] = m
          /\ \A e \in Device \ {d} : marker'[e] = marker[e]
      BY <2>1, <3>3 DEF IInv, TypeOK, Call
    <3>5. \A k \in Job : Working(k, d) => now > call[k].until
      BY <2>1, <2>4 DEF IInv, HolderOwnsMarker, Working, NoMarker, TypeOK, Call
    <3>6. HolderOwnsMarker'
      BY <2>1, <3>1, <3>4, <3>5
         DEF HolderOwnsMarker, Working, IInv, TypeOK, Call
    <3>7. OwnerAtWork'
      <4>1. IsExclusive(call[j].cls)
        BY <2>1 DEF IInv, ComputesExclusive
      <4> QED BY <2>1, <3>1, <3>4, <4>1 DEF OwnerAtWork, IInv
    <3>8. ReconciledIsLive'
      BY <2>1, <3>1, <3>4 DEF ReconciledIsLive, IInv, TypeOK, Call
    <3>9. BlockedOnlyByLive'
      BY <2>1, <3>4 DEF BlockedOnlyByLive, IInv
    <3> QED BY <2>3, <3>6, <3>7, <3>8, <3>9 DEF IInv
  <2>5. CASE marker[d] # NoMarker
    <3>1. m = marker[d] /\ marker' = marker
      BY <2>1, <2>5 DEF ComputeMarker, IInv, TypeOK
    <3>2. m.job # j
      BY <2>1, <3>1 DEF IInv, OwnerAtWork
    <3>3. call' = [call EXCEPT ![j].pc = "blocked",
                               ![j].blockedUntil = m.expiresAt]
      BY <2>2, <3>2 DEF OwnKey
    <3> HIDE DEF m
    <3>4. /\ \A k \in Job \ {j} : call'[k] = call[k]
          /\ call'[j].pc = "blocked" /\ call'[j].began = call[j].began
          /\ call'[j].blockedUntil = m.expiresAt
      BY <2>1, <3>3 DEF IInv, TypeOK, Call
    <3>5. HolderOwnsMarker'
      BY <2>1, <3>1, <3>4 DEF HolderOwnsMarker, Working, IInv
    <3>6. OwnerAtWork'
      BY <2>1, <3>1, <3>2, <3>4 DEF OwnerAtWork, IInv
    <3>7. ReconciledIsLive'
      BY <2>1, <3>1, <3>4 DEF ReconciledIsLive, IInv
    <3>8. BlockedOnlyByLive'
      BY <2>1, <2>5, <3>1, <3>4 DEF BlockedOnlyByLive, ReconciledIsLive, IInv
    <3> QED BY <2>3, <3>5, <3>6, <3>7, <3>8 DEF IInv
  <2> QED BY <2>4, <2>5
<1>4. ASSUME NEW j \in Job, Release(j) PROVE IInv'
  <2> DEFINE d == call[j].dev
  <2>1. /\ d \in Device /\ now' = now /\ marker' = ReleaseMarker(j, d)
        /\ call[j].pc = "holding"
        /\ call' = [call EXCEPT ![j].pc = "released"]
    BY <1>4 DEF Release, IInv, TypeOK, Call
  <2>2. /\ \A k \in Job \ {j} : call'[k] = call[k]
        /\ call'[j].pc = "released" /\ call'[j].dev = d
        /\ call'[j].began = call[j].began
    BY <2>1 DEF IInv, TypeOK, Call
  <2>3. \A e \in Device :
           \/ marker'[e] = marker[e]
           \/ marker'[e] = NoMarker /\ marker[e].job = j
    BY <2>1 DEF ReleaseMarker, MayRemove, IInv, TypeOK
  <2>4. marker'[d].job # j
    BY <2>1 DEF ReleaseMarker, MayRemove, IInv, TypeOK, NoMarker
  <2>5. HolderOwnsMarker'
    BY <2>1, <2>2, <2>3 DEF HolderOwnsMarker, Working, IInv
  <2>6. OwnerAtWork'
    BY <2>1, <2>2, <2>3, <2>4 DEF OwnerAtWork, IInv, NoMarker
  <2>7. ReconciledIsLive'
    BY <2>1, <2>2, <2>3 DEF ReconciledIsLive, IInv, TypeOK, Call
  <2>8. BlockedOnlyByLive' /\ ComputesExclusive'
    BY <2>1, <2>2 DEF BlockedOnlyByLive, ComputesExclusive, IInv, TypeOK, Call
  <2> QED BY <2>5, <2>6, <2>7, <2>8 DEF IInv
<1>5. ASSUME NEW j \in Job, AcceptRollback(j) PROVE IInv'
  <2>1. /\ now' = now /\ marker' = marker /\ call[j].pc = "holding"
        /\ \A k \in Job \ {j} : call'[k] = call[k]
        /\ call'[j].pc = "accepted" /\ call'[j].dev = call[j].dev
        /\ call'[j].began = call[j].began /\ call'[j].cls = call[j].cls
    BY <1>5 DEF AcceptRollback, IInv, TypeOK, Call
  <2>2. HolderOwnsMarker' /\ OwnerAtWork'
    BY <2>1 DEF HolderOwnsMarker, OwnerAtWork, Working, IInv
  <2>3. ReconciledIsLive' /\ BlockedOnlyByLive' /\ ComputesExclusive'
    BY <2>1 DEF ReconciledIsLive, BlockedOnlyByLive, ComputesExclusive, IInv
  <2> QED BY <2>2, <2>3 DEF IInv
<1>6. ASSUME NEW d \in Device, GetCurrent(d) PROVE IInv'
  <2>1. now' = now /\ call' = call /\ marker' = DropExpired(d)
    BY <1>6 DEF GetCurrent
  <2>2. \A e \in Device :
           \/ marker'[e] = marker[e]
           \/ marker'[e] = NoMarker /\ now > marker[e].expiresAt
    BY <2>1 DEF DropExpired, Expired, IInv, TypeOK
  <2>3. HolderOwnsMarker'
    BY <2>1, <2>2, MarkerCases
       DEF HolderOwnsMarker, Working, IInv, TypeOK, Call
  <2>4. OwnerAtWork'
    BY <2>1, <2>2 DEF OwnerAtWork, IInv, NoMarker
  <2>5. ReconciledIsLive' /\ BlockedOnlyByLive' /\ ComputesExclusive'
    BY <2>1, <2>2
       DEF ReconciledIsLive, BlockedOnlyByLive, ComputesExclusive, IInv, TypeOK, Call
  <2> QED BY <2>3, <2>4, <2>5 DEF IInv
<1>7. CASE Tick
  <2>1. now' = now + 1 /\ marker' = marker /\ call' = call
    BY <1>7 DEF Tick
  <2>2. HolderOwnsMarker' /\ OwnerAtWork'
    BY <2>1 DEF HolderOwnsMarker, OwnerAtWork, Working, IInv, TypeOK, Call
  <2>3. ReconciledIsLive' /\ BlockedOnlyByLive' /\ ComputesExclusive'
    BY <2>1 DEF ReconciledIsLive, BlockedOnlyByLive, ComputesExclusive, IInv, TypeOK, Call
  <2> QED BY <2>2, <2>3 DEF IInv
<1>8. CASE Restart
  <2>1. /\ now' = now
        /\ \A d \in Device : marker'[d] = NoMarker
        /\ \A k \in Job : call'[k].pc = "idle" /\ call'[k].began = 0
    BY <1>8 DEF Restart, NoCall
  <2>2. HolderOwnsMarker' /\ OwnerAtWork'
    BY <2>1 DEF HolderOwnsMarker, OwnerAtWork, Working, NoMarker
  <2>3. ReconciledIsLive' /\ BlockedOnlyByLive' /\ ComputesExclusive'
    BY <2>1 DEF ReconciledIsLive, BlockedOnlyByLive, ComputesExclusive, IInv, TypeOK
  <2> QED BY <2>2, <2>3 DEF IInv
<1>9. CASE UNCHANGED vars
  BY <1>9 DEF vars, IInv, HolderOwnsMarker, OwnerAtWork, Working,
              ReconciledIsLive, BlockedOnlyByLive, ComputesExclusive
<1> QED
  BY <1>1, <1>2, <1>3, <1>4, <1>5, <1>6, <1>7, <1>8, <1>9 DEF Next, Step

LEMMA InitInductive == Init => IInv
BY GuardAssumption
   DEF Init, IInv, TypeOK, Call, NoCall, Phase, Kind, OperationClass, NoMarker,
       HolderOwnsMarker, OwnerAtWork, Working, ReconciledIsLive,
       BlockedOnlyByLive, ComputesExclusive

LEMMA Invariant == Spec => []IInv
BY InitInductive, Inductive, PTL DEF Spec

-----------------------------------------------------------------------------
\* Exclusive operations overlap on a device only past a TTL: any two
\* operations that are both within theirs would both be named by the one
\* marker of the device.
THEOREM Exclusion == Spec => []ExclusiveWithinTtl
<1>1. IInv => ExclusiveWithinTtl
  <2> SUFFICES ASSUME IInv, NEW d \in Device, NEW j \in Job, NEW k \in Job,
                      Working(j, d), Working(k, d), j # k
               PROVE  now > call[j].until \/ now > call[k].until
    BY DEF ExclusiveWithinTtl
  <2> QED BY DEF IInv, HolderOwnsMarker, TypeOK, Call
<1> QED BY <1>1, Invariant, PTL

\* A stale marker never blocks a call that arrives after it expired.
THEOREM NoStaleBlocking == Spec => []BlockedOnlyByLive
<1>1. IInv => BlockedOnlyByLive
  BY DEF IInv
<1> QED BY <1>1, Invariant, PTL

\* The marker of a device is freed while still valid only by the job it
\* names, at work on that device, or by a restart of the service.
THEOREM OnlyOwnerFrees == Spec => LiveMarkerOnlyFreedByOwner
<1> DEFINE Freed(d) ==
      marker[d] # NoMarker /\ now <= marker[d].expiresAt
        => \/ marker'[d] = marker[d]
           \/ marker[d].job \in Job /\ Working(marker[d].job, d)
              /\ call'[marker[d].job].pc = "released"
           \/ \A k \in Job : call'[k].pc = "idle"
<1>1. ASSUME IInv, [Next]_vars, NEW d \in Device,
             marker[d] # NoMarker, now <= marker[d].expiresAt
      PROVE  \/ marker'[d] = marker[d]
             \/ marker[d].job \in Job /\ Working(marker[d].job, d)
                /\ call'[marker[d].job].pc = "released"
             \/ \A k \in Job : call'[k].pc = "idle"
  <2> USE DEF IInv, TypeOK
  <2>1. ASSUME NEW j \in Job, NEW e \in Device, NEW kind \in Kind,
               NEW cls \in ClassesOf(kind), Acquire(j, e, kind, cls)
        PROVE  marker'[d] = marker[d]
    BY <2>1 DEF Acquire
  <2>2. ASSUME NEW j \in Job, Reconcile(j) PROVE marker'[d] = marker[d]
    BY <1>1, <2>2, MarkerCases DEF Reconcile, DropExpired, Expired
  <2>3. ASSUME NEW j \in Job, Compute(j) PROVE marker'[d] = marker[d]
    BY <1>1, <2>3 DEF Compute, ComputeMarker, Call
  <2>4. ASSUME NEW j \in Job, Release(j), marker'[d] # marker[d]
        PROVE  /\ marker[d].job = j /\ Working(j, d)
               /\ call'[j].pc = "released"
    <3>1. marker[d].job = j
      BY <2>4 DEF Release, ReleaseMarker, MayRemove
    <3>2. Working(j, d)
      BY <1>1, <2>4, <3>1 DEF Release, OwnerAtWork, Working
    <3> QED BY <1>1, <2>4, <3>1, <3>2 DEF Release
  <2>5. ASSUME NEW j \in Job, AcceptRollback(j) PROVE marker'[d] = marker[d]
    BY <2>5 DEF AcceptRollback
  <2>6. ASSUME NEW e \in Device, GetCurrent(e) PROVE marker'[d] = marker[d]
    BY <1>1, <2>6, MarkerCases DEF GetCurrent, DropExpired, Expired
  <2>7. CASE Tick
    BY <2>7 DEF Tick
  <2>8. CASE Restart
    BY <2>8 DEF Restart, NoCall
  <2>9. CASE UNCHANGED vars
    BY <2>9 DEF vars
  <2> QED
    BY <1>1, <2>1, <2>2, <2>3, <2>4, <2>5, <2>6, <2>7, <2>8, <2>9 DEF Next, Step
<1>2. IInv /\ [Next]_vars => [\A d \in Device : Freed(d)]_vars
  BY <1>1
<1> QED BY <1>2, Invariant, PTL DEF Spec, LiveMarkerOnlyFreedByOwner

-----------------------------------------------------------------------------
\* The marker map refines the abstract lock: acquire takes a free device,
\* release and expiry free it, a restart forgets every owner, and every other
\* step leaves the owners alone.
LEMMA LockStep ==
  ASSUME IInv, IInv', [Next]_vars
  PROVE  [Lock!Next]_([d \in Device |-> marker[d].job])
<1> DEFINE owner == [d \in Device |-> marker[d].job]
<1> USE GuardAssumption DEF IInv, TypeOK
<1>1. SUFFICES Lock!Next \/ UNCHANGED owner
  OBVIOUS
<1>2. ASSUME marker' = marker PROVE UNCHANGED owner
  BY <1>2
<1>3. ASSUME NEW d \in Device, marker' = [marker EXCEPT ![d] = NoMarker],
             marker[d] # NoMarker
      PROVE  Lock!Next
  <2>1. Lock!GiveUp(d)
    BY <1>3, MarkerCases DEF Lock!GiveUp, NoMarker
  <2> QED BY <2>1 DEF Lock!Next
<1>4. ASSUME NEW d \in Device, marker' = DropExpired(d)
      PROVE  Lock!Next \/ UNCHANGED owner
  <2>1. CASE Expired(d)
    BY <1>3, <1>4, <2>1 DEF DropExpired, Expired
  <2>2. CASE ~Expired(d)
    BY <1>2, <1>4, <2>2 DEF DropExpired
  <2> QED BY <2>1, <2>2
<1>5. ASSUME NEW j \in Job, Compute(j) PROVE Lock!Next \/ UNCHANGED owner
  <2> DEFINE d == call[j].dev
  <2>1. d \in Device /\ marker' = [marker EXCEPT
                                    ![d] = ComputeMarker(j, d, call[j].cls)]
    BY <1>5 DEF Compute, Call
  <2>2. CASE marker[d] = NoMarker
    <3>1. Lock!Take(d, j)
      BY <2>1, <2>2 DEF Lock!Take, ComputeMarker, NoMarker
    <3> QED BY <2>1, <3>1 DEF Lock!Next
  <2>3. CASE marker[d] # NoMarker
    BY <1>2, <2>1, <2>3 DEF ComputeMarker
  <2> QED BY <2>2, <2>3
<1>6. ASSUME NEW j \in Job, Release(j) PROVE Lock!Next \/ UNCHANGED owner
  <2> DEFINE d == call[j].dev
  <2>1. d \in Device /\ marker' = ReleaseMarker(j, d)
    BY <1>6 DEF Release, Call
  <2>2. CASE marker[d].job = j
    <3>1. marker' = [marker EXCEPT ![d] = NoMarker]
      BY <2>1, <2>2 DEF ReleaseMarker, MayRemove
    <3>2. marker[d] # NoMarker
      BY <2>1, <2>2 DEF NoMarker
    <3> QED BY <1>3, <2>1, <3>1, <3>2
  <2>3. CASE marker[d].job # j
    <3>1. marker' = marker
      BY <2>1, <2>3 DEF ReleaseMarker, MayRemove
    <3> QED BY <1>2, <3>1
  <2> QED BY <2>2, <2>3
<1>7. ASSUME NEW d \in Device, GetCurrent(d) PROVE Lock!Next \/ UNCHANGED owner
  BY <1>4, <1>7 DEF GetCurrent
<1>8. CASE Restart
  <2>1. Lock!Forget(Device)
    BY <1>8 DEF Restart, Lock!Forget, NoMarker
  <2> QED BY <2>1 DEF Lock!Next
<1>9. ASSUME NEW j \in Job, Reconcile(j) PROVE Lock!Next \/ UNCHANGED owner
  <2>1. call[j].dev \in Device /\ marker' = DropExpired(call[j].dev)
    BY <1>9 DEF Reconcile, Call
  <2>2. CASE Expired(call[j].dev)
    BY <1>3, <2>1, <2>2 DEF DropExpired, Expired
  <2>3. CASE ~Expired(call[j].dev)
    BY <1>2, <2>1, <2>3 DEF DropExpired
  <2> QED BY <2>2, <2>3
<1> QED
  BY <1>2, <1>5, <1>6, <1>7, <1>8, <1>9
     DEF Next, Step, Acquire, AcceptRollback, Tick, vars

\* OperationGuard implements DeviceLock.
THEOREM GuardImplementsLock == Spec => ImplementsDeviceLock
<1>1. Init => Lock!Init
  BY DEF Init, Lock!Init, NoMarker
<1>2. IInv /\ IInv' /\ [Next]_vars
        => [Lock!Next]_([d \in Device |-> marker[d].job])
  BY LockStep
<1> QED
  BY <1>1, <1>2, Invariant, PTL DEF Spec, ImplementsDeviceLock, Lock!Spec
=============================================================================
