------------------------ MODULE VersionHistory_proofs ------------------------
(***************************************************************************)
(* Theorems about VersionHistory, for any number of pushes, callbacks and  *)
(* rollbacks.                                                              *)
(***************************************************************************)
EXTENDS VersionHistory, FiniteSetTheorems, TLAPS

\* A thread has a document only from its own save on.
UnsavedIsAbsent ==
  /\ \A p \in Push : push[p].at \in {"idle", "locked", "counted", "blocked"}
                       => version[p] = NoVersion
  /\ \A c \in Callback : callback[c].at # "saved" => version[c] = NoVersion

\* A count that waits to be used may be stale, but never too big.
CountsAreOld ==
  /\ \A p \in Push : push[p].at = "counted" => push[p].count <= Count
  /\ \A c \in Callback : callback[c].at = "counted" => callback[c].count <= Count

\* Who never lost the guard has it.
HoldsGuard ==
  /\ \A p \in Push : Pushing(p) => owner[device] = p
  /\ \A r \in Rollback :
       rollback[r].at = "accepted" /\ r \notin overtaken => owner[device] = r

\* The count of a push that has the guard is not behind the number of any
\* other push that kept it: those recorded before this one counted.
CountsLaterPushes ==
  \A p, q \in Push :
    /\ p # q /\ Pushing(p) /\ push[p].at = "counted"
    /\ q \notin overtaken /\ version[q] # NoVersion
    => version[q].num <= push[p].count

EligibleWasApplied ==
  \A w \in Writer : version[w].eligible => version[w].status = "APPLIED"

\* A rollback has chosen what to restore.
Chose(r) == rollback[r].at \in {"chosen", "accepted", "thrown"}

\* A choice of documents that a rollback may act on.
Sound(v, w) == /\ v \in Recorded /\ w \in Recorded
               /\ version[v].status = "APPLIED" /\ version[w].status = "APPLIED"
               /\ version[w].num < version[v].num

ChoosesSoundly ==
  \A r \in Rollback :
    Chose(r) => Sound(rollback[r].failed, rollback[r].restore)

\* Who counts after the choice counts the failed version too, so that its own
\* version does not come before it.
LateCountsMore ==
  \A r \in Rollback : Chose(r) =>
    /\ \A p \in Push \ rollback[r].racing :
         push[p].at = "counted"
           => version[rollback[r].failed].num <= push[p].count
    /\ \A c \in Callback \ rollback[r].racing :
         callback[c].at = "counted"
           => version[rollback[r].failed].num <= callback[c].count

\* What was chosen stays the newest good one among all that it could see.
ChoosesNewest ==
  \A r \in Rollback : Chose(r) =>
    \A w \in GoodBefore(rollback[r].failed) \ rollback[r].racing :
      version[w].num <= version[rollback[r].restore].num

\* Evidence of a failure is never eligible (recordFailureEvidenceForDevice),
\* so every version that was ever rolled back had been applied.
RollsBackOnlyApplied ==
  \A r \in Rollback :
    Chose(r) => version[rollback[r].failed].status = "APPLIED"

NumberInv == /\ TypeOK
             /\ UnsavedIsAbsent
             /\ NumbersWithinHistory
             /\ CountsAreOld
             /\ HoldsGuard
             /\ CountsLaterPushes
             /\ PushNumbersDiffer

RestoreInv == /\ EligibleWasApplied
              /\ ChoosesSoundly
              /\ LateCountsMore
              /\ ChoosesNewest

-----------------------------------------------------------------------------

\* The absence of a document is not one.
LEMMA NoVersionIsNone == NoVersion \notin Version
BY DEF NoVersion, Version

\* A guard that is forgotten is nobody's.
LEMMA LockForget ==
  ASSUME TypeOK, Lock!Forget({device})
  PROVE  owner' = [e \in {device} |-> NoThread]
BY DEF Lock!Forget

\* The history is finite, so its count is a number.
LEMMA CountIsNat ==
  ASSUME TypeOK
  PROVE  IsFiniteSet(Recorded) /\ Count \in Nat
<1>1. Recorded \subseteq Writer /\ IsFiniteSet(Writer)
  BY HistoryAssumption DEF Recorded
<1> QED
  BY <1>1, FS_Subset, FS_CardinalityType DEF Count

\* Saving the first document of a thread makes the history longer by one.
LEMMA SaveAddsOne ==
  ASSUME TypeOK, NEW w \in Writer, version[w] = NoVersion,
         NEW v \in Version, version' = [version EXCEPT ![w] = v]
  PROVE  /\ Recorded' = Recorded \cup {w}
         /\ w \notin Recorded
         /\ Count' = Count + 1
         /\ version'[w] = v
         /\ \A u \in Writer : u # w => version'[u] = version[u]
<1>1. version'[w] = v /\ \A u \in Writer : u # w => version'[u] = version[u]
  BY DEF TypeOK
<1>2. Recorded' = Recorded \cup {w} /\ w \notin Recorded
  BY <1>1, NoVersionIsNone DEF Recorded
<1>3. Count' = Count + 1
  BY <1>2, CountIsNat, FS_AddElement DEF Count
<1> QED
  BY <1>1, <1>2, <1>3

\* Releasing is for the owner: another thread's guard stays (release
\* removes the marker of one job).
LEMMA OwnerStays ==
  ASSUME TypeOK, NEW t \in Push \cup Rollback, owner' = OwnerAfterRelease(t)
  PROVE  /\ owner' \in [{device} -> Push \cup Rollback \cup {NoThread}]
         /\ \A u \in Push \cup Rollback :
              u # t /\ owner[device] = u => owner'[device] = u
<1>1. owner \in [{device} -> Push \cup Rollback \cup {NoThread}]
  BY DEF TypeOK
<1>2. CASE owner[device] = t
  BY <1>1, <1>2 DEF OwnerAfterRelease
<1>3. CASE owner[device] # t
  BY <1>1, <1>3 DEF OwnerAfterRelease
<1> QED
  BY <1>2, <1>3

-----------------------------------------------------------------------------

\* The initial states satisfy both invariants.
LEMMA InitNumbers == Init => NumberInv /\ RestoreInv
<1> SUFFICES ASSUME Init PROVE NumberInv /\ RestoreInv
  OBVIOUS
<1>1. TypeOK
  BY DEF Init, TypeOK, Lock!Init, NewPush, NewCallback, NewRollback,
         PushState, CallbackState, RollbackState
<1>2. Recorded = {}
  BY DEF Init, Recorded
<1>3. UnsavedIsAbsent /\ EligibleWasApplied
  BY HistoryAssumption DEF Init, UnsavedIsAbsent, EligibleWasApplied, Writer,
     NoVersion
<1>4. NumbersWithinHistory /\ PushNumbersDiffer
  BY <1>2 DEF NumbersWithinHistory, PushNumbersDiffer, Init, Writer
<1>5. CountsAreOld /\ HoldsGuard /\ CountsLaterPushes
  BY DEF Init, CountsAreOld, HoldsGuard, CountsLaterPushes, Pushing, NewPush,
         NewCallback, NewRollback
<1>6. ChoosesSoundly /\ LateCountsMore /\ ChoosesNewest
  BY DEF Init, ChoosesSoundly, LateCountsMore, ChoosesNewest, Chose, NewRollback
<1> QED
  BY <1>1, <1>3, <1>4, <1>5, <1>6 DEF NumberInv, RestoreInv

\* One fact per action: the types are preserved.
LEMMA TypeStep == TypeOK /\ UnsavedIsAbsent /\ [Next]_vars => TypeOK'
<1> SUFFICES ASSUME TypeOK, UnsavedIsAbsent, [Next]_vars PROVE TypeOK'
  OBVIOUS
<1>0. Count \in Nat
  BY CountIsNat
<1>1. ASSUME NEW p \in Push, StartPush(p) PROVE TypeOK'
  BY <1>1 DEF StartPush, Free, TypeOK, PushState
<1>2. ASSUME NEW p \in Push, CountForPush(p) PROVE TypeOK'
  BY <1>0, <1>2 DEF CountForPush, TypeOK, PushState
<1>3. ASSUME NEW p \in Push, SaveForPush(p) PROVE TypeOK'
  <2>1. [num |-> NextNumber(push[p].count), status |-> "APPLIED",
         key |-> NoKey, eligible |-> FALSE] \in Version
    BY DEF TypeOK, PushState, Version, NextNumber
  <2> QED
    BY <2>1, <1>3 DEF SaveForPush, TypeOK, PushState, Writer
<1>4. ASSUME NEW p \in Push, EndPush(p) PROVE TypeOK'
  BY <1>4, OwnerStays DEF EndPush, TypeOK, PushState
<1>5. ASSUME NEW c \in Callback, CallbackStep(c) PROVE TypeOK'
  <2>1. ASSUME NEW k \in Key \cup {NoKey}, NEW result \in {"APPLIED", "FAILED"},
               CheckCallback(c, k, result)
        PROVE  TypeOK'
    BY <2>1 DEF CheckCallback, TypeOK, CallbackState
  <2>2. CASE CountForCallback(c)
    BY ZenonT(60), <1>0, <2>2 DEF CountForCallback, TypeOK, CallbackState
  <2>3. CASE SaveForCallback(c)
    <3>1. [num |-> NextNumber(callback[c].count), status |-> callback[c].result,
           key |-> callback[c].key, eligible |-> callback[c].result = "APPLIED"]
            \in Version
      BY DEF TypeOK, CallbackState, Version, NextNumber
    <3> QED
      BY <3>1, <2>3 DEF SaveForCallback, TypeOK, CallbackState, Writer
  <2> QED
    BY <1>5, <2>1, <2>2, <2>3 DEF CallbackStep
<1>6. ASSUME NEW r \in Rollback, NEW v \in Writer, ChooseRestore(r, v)
      PROVE  TypeOK'
  <2>1. NewestOf(GoodBefore(v)) \subseteq Writer /\ AboutToSave \subseteq Writer
    BY DEF NewestOf, GoodBefore, Recorded, AboutToSave, Writer
  <2>2. \A w \in NewestOf(GoodBefore(v)) :
          [at |-> "chosen", failed |-> v, restore |-> w,
           racing |-> AboutToSave] \in RollbackState
    BY <2>1 DEF RollbackState
  <2>3. [rollback[r] EXCEPT !.at = "refused"] \in RollbackState
    BY DEF TypeOK, RollbackState
  <2> HIDE DEF RollbackState
  <2>4. rollback' \in [Rollback -> RollbackState]
    BY <1>6, <2>2, <2>3 DEF ChooseRestore, TypeOK
  <2> QED
    BY <1>6, <2>4 DEF ChooseRestore, TypeOK
<1>7. ASSUME NEW r \in Rollback, AcceptRollback(r) PROVE TypeOK'
  BY <1>7 DEF AcceptRollback, Free, TypeOK, RollbackState
<1>8. ASSUME NEW r \in Rollback, RollbackThrows(r) PROVE TypeOK'
  BY <1>8, OwnerStays DEF RollbackThrows, TypeOK, RollbackState
<1>9. CASE LoseGuard
  BY <1>9, LockForget DEF LoseGuard, Free, TypeOK
<1>10. CASE Restart
  <2>1. owner' \in [{device} -> Push \cup Rollback \cup {NoThread}]
    BY <1>10, LockForget DEF Restart
  <2>2. push' \in [Push -> PushState]
    BY <1>10 DEF Restart, TypeOK, PushState
  <2>3. callback' \in [Callback -> CallbackState]
    BY <1>10 DEF Restart, TypeOK, CallbackState, NewCallback
  <2>4. rollback' \in [Rollback -> RollbackState]
    <3>1. ASSUME NEW s \in RollbackState
          PROVE  [s EXCEPT !.at = "thrown"] \in RollbackState
      BY DEF RollbackState
    <3>2. rollback \in [Rollback -> RollbackState]
      BY DEF TypeOK
    <3> HIDE DEF RollbackState
    <3> QED
      BY <1>10, <3>1, <3>2 DEF Restart
  <2> QED
    BY <1>10, <2>1, <2>2, <2>3, <2>4 DEF Restart, TypeOK
<1>11. CASE UNCHANGED vars
  BY <1>11 DEF vars, TypeOK
<1> QED
  BY <1>1, <1>2, <1>3, <1>4, <1>5, <1>6, <1>7, <1>8, <1>9, <1>10, <1>11
     DEF Next, PushStep, RollbackStep

\* What a step does to the documents: nothing, or one more of them.
LEMMA HistoryGrows ==
  ASSUME TypeOK, UnsavedIsAbsent, [Next]_vars
  PROVE  \/ version' = version
         \/ \E p \in Push : SaveForPush(p)
         \/ \E c \in Callback : SaveForCallback(c)
BY DEF Next, vars, PushStep, CallbackStep, RollbackStep, StartPush,
       CountForPush, EndPush, CheckCallback, CountForCallback, ChooseRestore,
       AcceptRollback, RollbackThrows, LoseGuard, Restart

\* A document is added under a thread that had none; the others stay.
LEMMA SaveShape ==
  ASSUME TypeOK, UnsavedIsAbsent
  PROVE  /\ \A p \in Push : SaveForPush(p) =>
              /\ Recorded' = Recorded \cup {p}
              /\ p \notin Recorded
              /\ Count' = Count + 1
              /\ version'[p].num = push[p].count + 1
              /\ version'[p].status = "APPLIED"
              /\ version'[p].eligible = FALSE
              /\ \A u \in Writer : u # p => version'[u] = version[u]
         /\ \A c \in Callback : SaveForCallback(c) =>
              /\ Recorded' = Recorded \cup {c}
              /\ c \notin Recorded
              /\ Count' = Count + 1
              /\ version'[c].num = callback[c].count + 1
              /\ version'[c].eligible => version'[c].status = "APPLIED"
              /\ \A u \in Writer : u # c => version'[u] = version[u]
<1>1. ASSUME NEW p \in Push, SaveForPush(p)
      PROVE  /\ Recorded' = Recorded \cup {p} /\ p \notin Recorded
             /\ Count' = Count + 1
             /\ version'[p].num = push[p].count + 1
             /\ version'[p].status = "APPLIED"
             /\ version'[p].eligible = FALSE
             /\ \A u \in Writer : u # p => version'[u] = version[u]
  <2> DEFINE doc == [num |-> NextNumber(push[p].count), status |-> "APPLIED",
                     key |-> NoKey, eligible |-> FALSE]
  <2>1. doc \in Version
    BY DEF TypeOK, PushState, Version, NextNumber
  <2>2. p \in Writer /\ version[p] = NoVersion
    BY <1>1 DEF SaveForPush, UnsavedIsAbsent, Writer
  <2>3. version' = [version EXCEPT ![p] = doc]
    BY <1>1 DEF SaveForPush
  <2>4. /\ Recorded' = Recorded \cup {p} /\ p \notin Recorded
        /\ Count' = Count + 1
        /\ version'[p] = doc
        /\ \A u \in Writer : u # p => version'[u] = version[u]
    <3> HIDE DEF doc
    <3> QED
      BY <2>1, <2>2, <2>3, SaveAddsOne
  <2> QED
    BY <2>4 DEF NextNumber
<1>2. ASSUME NEW c \in Callback, SaveForCallback(c)
      PROVE  /\ Recorded' = Recorded \cup {c} /\ c \notin Recorded
             /\ Count' = Count + 1
             /\ version'[c].num = callback[c].count + 1
             /\ version'[c].eligible => version'[c].status = "APPLIED"
             /\ \A u \in Writer : u # c => version'[u] = version[u]
  <2> DEFINE doc == [num |-> NextNumber(callback[c].count),
                     status |-> callback[c].result, key |-> callback[c].key,
                     eligible |-> callback[c].result = "APPLIED"]
  <2>1. doc \in Version
    BY DEF TypeOK, CallbackState, Version, NextNumber
  <2>2. c \in Writer /\ version[c] = NoVersion
    BY <1>2 DEF SaveForCallback, UnsavedIsAbsent, Writer
  <2>3. version' = [version EXCEPT ![c] = doc]
    BY <1>2 DEF SaveForCallback
  <2>4. /\ Recorded' = Recorded \cup {c} /\ c \notin Recorded
        /\ Count' = Count + 1
        /\ version'[c] = doc
        /\ \A u \in Writer : u # c => version'[u] = version[u]
    <3> HIDE DEF doc
    <3> QED
      BY <2>1, <2>2, <2>3, SaveAddsOne
  <2>5. doc.eligible => doc.status = "APPLIED"
    OBVIOUS
  <2>6. doc.num = callback[c].count + 1
    BY DEF NextNumber
  <2> HIDE DEF doc
  <2> QED
    BY <2>4, <2>5, <2>6
<1> QED
  BY <1>1, <1>2

\* What a step does to the thread of a push: it moves on by its own step, or
\* it ends.
LEMMA PushMoves ==
  ASSUME TypeOK, [Next]_vars, NEW q \in Push
  PROVE  \/ push'[q] = push[q]
         \/ StartPush(q)
         \/ CountForPush(q)
         \/ SaveForPush(q)
         \/ push'[q].at = "done"
<1>1. ASSUME NEW p \in Push, PushStep(p), p # q PROVE push'[q] = push[q]
  BY <1>1 DEF PushStep, StartPush, CountForPush, SaveForPush, EndPush, TypeOK
<1>2. CASE EndPush(q)
  BY <1>2 DEF EndPush, TypeOK, PushState
<1>3. CASE Restart
  BY <1>3 DEF Restart, TypeOK, PushState
<1>4. ASSUME NEW c \in Callback, CallbackStep(c) PROVE push' = push
  BY <1>4 DEF CallbackStep, CheckCallback, CountForCallback, SaveForCallback
<1>5. ASSUME NEW r \in Rollback, RollbackStep(r) PROVE push' = push
  BY <1>5 DEF RollbackStep, ChooseRestore, AcceptRollback, RollbackThrows
<1>6. CASE LoseGuard \/ UNCHANGED vars
  BY <1>6 DEF LoseGuard, vars
<1> QED
  BY <1>1, <1>2, <1>3, <1>4, <1>5, <1>6 DEF Next, PushStep

\* What a step does to a callback: it moves on by its own step, or a restart
\* makes it start again.
LEMMA CallbackMoves ==
  ASSUME TypeOK, [Next]_vars, NEW c \in Callback
  PROVE  \/ callback'[c] = callback[c]
         \/ \E k \in Key \cup {NoKey}, result \in {"APPLIED", "FAILED"} :
               CheckCallback(c, k, result)
         \/ CountForCallback(c)
         \/ SaveForCallback(c)
         \/ callback[c].at \in {"checked", "counted"} /\ callback'[c] = NewCallback
<1>1. ASSUME NEW e \in Callback, CallbackStep(e), e # c
      PROVE  callback'[c] = callback[c]
  BY <1>1 DEF CallbackStep, CheckCallback, CountForCallback, SaveForCallback,
     TypeOK
<1>2. CASE Restart
  BY <1>2 DEF Restart
<1>3. ASSUME NEW p \in Push, PushStep(p) PROVE callback' = callback
  BY <1>3 DEF PushStep, StartPush, CountForPush, SaveForPush, EndPush
<1>4. ASSUME NEW r \in Rollback, RollbackStep(r) PROVE callback' = callback
  BY <1>4 DEF RollbackStep, ChooseRestore, AcceptRollback, RollbackThrows
<1>5. CASE LoseGuard \/ UNCHANGED vars
  BY <1>5 DEF LoseGuard, vars
<1> QED
  BY <1>1, <1>2, <1>3, <1>4, <1>5 DEF Next, CallbackStep

\* A thread has a document only from its own save on: preserved.
LEMMA UnsavedStep == TypeOK /\ UnsavedIsAbsent /\ [Next]_vars => UnsavedIsAbsent'
<1> SUFFICES ASSUME TypeOK, UnsavedIsAbsent, [Next]_vars PROVE UnsavedIsAbsent'
  OBVIOUS
<1>1. ASSUME NEW p \in Push, SaveForPush(p) PROVE UnsavedIsAbsent'
  <2>1. push' = [push EXCEPT ![p].at = "saved"] /\ callback' = callback
    BY <1>1 DEF SaveForPush
  <2>2. \A q \in Push : q # p => push'[q] = push[q] /\ version'[q] = version[q]
    BY <1>1, <2>1, SaveShape DEF TypeOK, Writer
  <2>3. \A c \in Callback : version'[c] = version[c]
    BY <1>1, SaveShape, HistoryAssumption DEF Writer
  <2>4. push'[p].at = "saved"
    BY <2>1 DEF TypeOK, PushState
  <2> QED
    BY <2>1, <2>2, <2>3, <2>4 DEF UnsavedIsAbsent
<1>2. ASSUME NEW c \in Callback, SaveForCallback(c) PROVE UnsavedIsAbsent'
  <2>1. callback' = [callback EXCEPT ![c].at = "saved"] /\ push' = push
    BY <1>2 DEF SaveForCallback
  <2>2. \A e \in Callback : e # c => /\ callback'[e] = callback[e]
                                    /\ version'[e] = version[e]
    BY <1>2, <2>1, SaveShape DEF TypeOK, Writer
  <2>3. \A q \in Push : version'[q] = version[q]
    BY <1>2, SaveShape, HistoryAssumption DEF Writer
  <2>4. callback'[c].at = "saved"
    BY <2>1 DEF TypeOK, CallbackState
  <2> QED
    BY <2>1, <2>2, <2>3, <2>4 DEF UnsavedIsAbsent
<1>3. CASE version' = version
  <2>1. ASSUME NEW q \in Push,
               push'[q].at \in {"idle", "locked", "counted", "blocked"}
        PROVE  version[q] = NoVersion
    <3>1. ~SaveForPush(q)
      BY <2>1 DEF SaveForPush, TypeOK, PushState
    <3>2. push[q].at \in {"idle", "locked", "counted", "blocked"}
      BY <2>1, <3>1, PushMoves DEF StartPush, CountForPush
    <3> QED
      BY <3>2 DEF UnsavedIsAbsent
  <2>2. ASSUME NEW c \in Callback, callback'[c].at # "saved"
        PROVE  version[c] = NoVersion
    <3>1. ~SaveForCallback(c)
      BY <2>2 DEF SaveForCallback, TypeOK, CallbackState
    <3>2. callback[c].at # "saved"
      BY <2>2, <3>1, CallbackMoves DEF CheckCallback, CountForCallback
    <3> QED
      BY <3>2 DEF UnsavedIsAbsent
  <2> QED
    BY <1>3, <2>1, <2>2 DEF UnsavedIsAbsent
<1> QED
  BY <1>1, <1>2, <1>3, HistoryGrows

-----------------------------------------------------------------------------
(* The numbers *)

\* Documents are never changed nor removed.
LEMMA HistoryKept ==
  ASSUME TypeOK, UnsavedIsAbsent, [Next]_vars
  PROVE  /\ \A u \in Recorded : u \in Recorded' /\ version'[u] = version[u]
         /\ Count \in Nat /\ Count' \in Nat /\ Count <= Count'
<1>0. Count \in Nat
  BY CountIsNat
<1>1. CASE version' = version
  BY <1>0, <1>1 DEF Recorded, Count
<1>2. ASSUME NEW p \in Push, SaveForPush(p)
      PROVE  /\ \A u \in Recorded : u \in Recorded' /\ version'[u] = version[u]
             /\ Count' = Count + 1
  BY <1>2, SaveShape DEF Recorded
<1>3. ASSUME NEW c \in Callback, SaveForCallback(c)
      PROVE  /\ \A u \in Recorded : u \in Recorded' /\ version'[u] = version[u]
             /\ Count' = Count + 1
  BY <1>3, SaveShape DEF Recorded
<1> QED
  BY <1>0, <1>1, <1>2, <1>3, HistoryGrows

\* Numbers and pending counts stay within the history.
LEMMA BoundsStep ==
  ASSUME TypeOK, UnsavedIsAbsent, NumbersWithinHistory, CountsAreOld,
         [Next]_vars
  PROVE  NumbersWithinHistory' /\ CountsAreOld'
<1>0. Count \in Nat /\ Count' \in Nat /\ Count <= Count'
  BY HistoryKept
<1>1. NumbersWithinHistory'
  <2>1. CASE version' = version
    BY <2>1 DEF NumbersWithinHistory, Recorded, Count
  <2>2. ASSUME NEW p \in Push, SaveForPush(p) PROVE NumbersWithinHistory'
    <3>1. push[p].count \in Nat /\ push[p].count <= Count
      BY <2>2 DEF SaveForPush, CountsAreOld, TypeOK, PushState
    <3>2. version'[p].num = push[p].count + 1 /\ Count' = Count + 1
      BY <2>2, SaveShape
    <3>4. version'[p].num <= Count'
      BY <1>0, <3>1, <3>2
    <3>3. ASSUME NEW w \in Recorded PROVE version'[w].num <= Count'
      <4>1. version'[w] = version[w] /\ version[w].num <= Count
        BY HistoryKept DEF NumbersWithinHistory
      <4>2. version[w].num \in Int
        BY DEF Recorded, TypeOK, Version, NoVersion
      <4> QED
        BY <1>0, <4>1, <4>2
    <3> QED
      BY ZenonT(60), <2>2, <3>4, <3>3, SaveShape DEF NumbersWithinHistory
  <2>3. ASSUME NEW c \in Callback, SaveForCallback(c) PROVE NumbersWithinHistory'
    <3>1. callback[c].count \in Nat /\ callback[c].count <= Count
      BY <2>3 DEF SaveForCallback, CountsAreOld, TypeOK, CallbackState
    <3>2. version'[c].num = callback[c].count + 1 /\ Count' = Count + 1
      BY <2>3, SaveShape
    <3>4. version'[c].num <= Count'
      BY <1>0, <3>1, <3>2
    <3>3. ASSUME NEW w \in Recorded PROVE version'[w].num <= Count'
      <4>1. version'[w] = version[w] /\ version[w].num <= Count
        BY HistoryKept DEF NumbersWithinHistory
      <4>2. version[w].num \in Int
        BY DEF Recorded, TypeOK, Version, NoVersion
      <4> QED
        BY <1>0, <4>1, <4>2
    <3> QED
      BY <2>3, <3>4, <3>3, SaveShape DEF NumbersWithinHistory
  <2> QED
    BY <2>1, <2>2, <2>3, HistoryGrows
<1>2. ASSUME NEW p \in Push, push'[p].at = "counted"
      PROVE  push'[p].count <= Count'
  <2>1. CASE push'[p] = push[p]
    BY <1>0, <1>2, <2>1 DEF CountsAreOld, TypeOK, PushState
  <2>2. CASE CountForPush(p)
    BY <1>0, <2>2 DEF CountForPush, TypeOK
  <2>3. ~StartPush(p) /\ ~SaveForPush(p)
    BY <1>2 DEF StartPush, SaveForPush, TypeOK, PushState
  <2> QED
    BY <1>2, <2>1, <2>2, <2>3, PushMoves
<1>3. ASSUME NEW c \in Callback, callback'[c].at = "counted"
      PROVE  callback'[c].count <= Count'
  <2>1. CASE callback'[c] = callback[c]
    BY <1>0, <1>3, <2>1 DEF CountsAreOld, TypeOK, CallbackState
  <2>2. CASE CountForCallback(c)
    BY <1>0, <2>2 DEF CountForCallback, TypeOK, CallbackState
  <2>3. ~SaveForCallback(c)
    BY <1>3 DEF SaveForCallback, TypeOK, CallbackState
  <2>4. ASSUME NEW k \in Key \cup {NoKey}, NEW result \in {"APPLIED", "FAILED"},
               CheckCallback(c, k, result)
        PROVE  FALSE
    BY <1>3, <2>4 DEF CheckCallback, TypeOK
  <2>5. callback'[c] # NewCallback
    BY <1>3 DEF NewCallback
  <2> QED
    BY <2>1, <2>2, <2>3, <2>4, <2>5, CallbackMoves
<1> QED
  BY <1>1, <1>2, <1>3 DEF CountsAreOld

-----------------------------------------------------------------------------
(* The guard *)

\* A thread loses the guard by its own last step, to the TTL or to a restart.
LEMMA OwnerMoves ==
  ASSUME TypeOK, [Next]_vars, NEW t \in Push \cup Rollback, owner[device] = t
  PROVE  \/ owner'[device] = t
         \/ t \in Push /\ EndPush(t)
         \/ t \in Rollback /\ RollbackThrows(t)
         \/ t \in overtaken'
         \/ Restart
<1>0. ~Free
  BY HistoryAssumption DEF Free
<1>1. ASSUME NEW p \in Push, PushStep(p), p # t \/ ~EndPush(p)
      PROVE  owner'[device] = t
  <2>1. CASE EndPush(p)
    BY <1>1, <2>1, OwnerStays DEF EndPush
  <2> QED
    BY <1>0, <1>1, <2>1 DEF PushStep, StartPush, CountForPush, SaveForPush
<1>2. ASSUME NEW r \in Rollback, RollbackStep(r), r # t \/ ~RollbackThrows(r)
      PROVE  owner'[device] = t
  <2>1. CASE RollbackThrows(r)
    BY <1>2, <2>1, OwnerStays DEF RollbackThrows
  <2> QED
    BY <1>0, <1>2, <2>1 DEF RollbackStep, ChooseRestore, AcceptRollback
<1>3. ASSUME NEW c \in Callback, CallbackStep(c) PROVE owner' = owner
  BY <1>3 DEF CallbackStep, CheckCallback, CountForCallback, SaveForCallback
<1>4. CASE LoseGuard
  BY <1>4 DEF LoseGuard
<1>5. CASE UNCHANGED vars
  BY <1>5 DEF vars
<1> QED
  BY <1>1, <1>2, <1>3, <1>4, <1>5 DEF Next

\* Nobody is given the guard back.
LEMMA OvertakenGrows ==
  ASSUME [Next]_vars
  PROVE  overtaken \subseteq overtaken'
BY DEF Next, vars, PushStep, CallbackStep, RollbackStep, StartPush,
       CountForPush, SaveForPush, EndPush, CheckCallback, CountForCallback,
       SaveForCallback, ChooseRestore, AcceptRollback, RollbackThrows,
       LoseGuard, Restart

\* What a step does to the thread of a rollback.
LEMMA RollbackMoves ==
  ASSUME TypeOK, [Next]_vars, NEW r \in Rollback
  PROVE  \/ rollback'[r] = rollback[r]
         \/ \E v \in Writer : ChooseRestore(r, v)
         \/ AcceptRollback(r)
         \/ /\ rollback[r].at \in {"chosen", "accepted"}
            /\ rollback'[r] = [rollback[r] EXCEPT !.at = "thrown"]
<1>1. ASSUME NEW e \in Rollback, RollbackStep(e), e # r
      PROVE  rollback'[r] = rollback[r]
  BY <1>1 DEF RollbackStep, ChooseRestore, AcceptRollback, RollbackThrows,
     TypeOK
<1>2. CASE RollbackThrows(r)
  BY <1>2 DEF RollbackThrows, TypeOK, RollbackState
<1>3. CASE Restart
  BY <1>3 DEF Restart
<1>4. ASSUME NEW p \in Push, PushStep(p) PROVE rollback' = rollback
  BY <1>4 DEF PushStep, StartPush, CountForPush, SaveForPush, EndPush
<1>5. ASSUME NEW c \in Callback, CallbackStep(c) PROVE rollback' = rollback
  BY <1>5 DEF CallbackStep, CheckCallback, CountForCallback, SaveForCallback
<1>6. CASE LoseGuard \/ UNCHANGED vars
  BY <1>6 DEF LoseGuard, vars
<1> QED
  BY <1>1, <1>2, <1>3, <1>4, <1>5, <1>6 DEF Next, RollbackStep

\* Who never lost the guard has it: preserved.
LEMMA HoldsStep ==
  ASSUME TypeOK, HoldsGuard, [Next]_vars
  PROVE  HoldsGuard'
<1>1. ASSUME NEW p \in Push, Pushing(p)' PROVE owner'[device] = p
  <2>1. p \notin overtaken /\ p \notin overtaken'
    BY <1>1, OvertakenGrows DEF Pushing
  <2>2. push'[p].at \in {"locked", "counted", "saved"}
    BY <1>1 DEF Pushing
  <2>3. CASE push'[p] = push[p]
    <3>1. owner[device] = p
      BY <2>1, <2>2, <2>3 DEF Pushing, HoldsGuard
    <3>2. ~EndPush(p)
      BY <2>2 DEF EndPush, TypeOK, PushState
    <3>3. ~Restart
      BY <2>2, <2>3 DEF Restart, TypeOK, PushState
    <3> QED
      BY <2>1, <3>1, <3>2, <3>3, OwnerMoves, HistoryAssumption
  <2>4. CASE StartPush(p)
    BY <2>2, <2>4 DEF StartPush, TypeOK, PushState
  <2>5. CASE CountForPush(p)
    BY <2>1, <2>5 DEF CountForPush, Pushing, HoldsGuard
  <2>6. CASE SaveForPush(p)
    BY <2>1, <2>6 DEF SaveForPush, Pushing, HoldsGuard
  <2> QED
    BY <2>2, <2>3, <2>4, <2>5, <2>6, PushMoves
<1>2. ASSUME NEW r \in Rollback, rollback'[r].at = "accepted", r \notin overtaken'
      PROVE  owner'[device] = r
  <2>1. r \notin overtaken
    BY <1>2, OvertakenGrows
  <2>2. CASE rollback'[r] = rollback[r]
    <3>1. owner[device] = r
      BY <1>2, <2>1, <2>2 DEF HoldsGuard
    <3>2. ~RollbackThrows(r)
      BY <1>2 DEF RollbackThrows, TypeOK, RollbackState
    <3>3. ~Restart
      BY <1>2, <2>2 DEF Restart, TypeOK, RollbackState
    <3> QED
      BY <1>2, <3>1, <3>2, <3>3, OwnerMoves, HistoryAssumption
  <2>3. CASE AcceptRollback(r)
    BY <1>2, <2>3 DEF AcceptRollback, TypeOK, RollbackState
  <2>4. ASSUME NEW v \in Writer PROVE ~ChooseRestore(r, v)
    BY <1>2 DEF ChooseRestore, TypeOK, RollbackState
  <2>5. rollback'[r] # [rollback[r] EXCEPT !.at = "thrown"]
    BY <1>2 DEF TypeOK, RollbackState
  <2> QED
    BY <2>2, <2>3, <2>4, <2>5, RollbackMoves
<1> QED
  BY <1>1, <1>2 DEF HoldsGuard

-----------------------------------------------------------------------------
(* Numbers of pushes that kept the guard *)

\* The document of a push stays as it is, unless the push saves now.
LEMMA KeptOrSaved ==
  ASSUME TypeOK, UnsavedIsAbsent, [Next]_vars, NEW q \in Push
  PROVE  version'[q] = version[q] \/ SaveForPush(q)
<1>1. CASE version' = version
  BY <1>1
<1>2. ASSUME NEW p \in Push, SaveForPush(p), p # q PROVE version'[q] = version[q]
  BY <1>2, SaveShape DEF Writer
<1>3. ASSUME NEW c \in Callback, SaveForCallback(c) PROVE version'[q] = version[q]
  BY <1>3, SaveShape, HistoryAssumption DEF Writer
<1> QED
  BY <1>1, <1>2, <1>3, HistoryGrows

\* Two pushes that kept the guard do not save while the other has counted:
\* preserved.
LEMMA LaterStep ==
  ASSUME TypeOK, UnsavedIsAbsent, NumbersWithinHistory, HoldsGuard,
         CountsLaterPushes, [Next]_vars
  PROVE  CountsLaterPushes'
<1> SUFFICES ASSUME NEW p \in Push, NEW q \in Push, p # q, Pushing(p)',
                    push'[p].at = "counted", q \notin overtaken',
                    version'[q] # NoVersion
             PROVE  version'[q].num <= push'[p].count
  BY DEF CountsLaterPushes
<1>1. p \notin overtaken /\ q \notin overtaken
  BY OvertakenGrows DEF Pushing
<1>2. CASE push'[p] = push[p]
  <2>1. Pushing(p) /\ owner[device] = p
    BY <1>1, <1>2 DEF Pushing, HoldsGuard
  <2>2. ~SaveForPush(q)
    BY <1>1, <2>1 DEF SaveForPush, Pushing, HoldsGuard
  <2>3. version'[q] = version[q]
    BY <2>2, KeptOrSaved
  <2> QED
    BY <1>1, <1>2, <2>1, <2>3 DEF CountsLaterPushes
<1>3. CASE CountForPush(p)
  <2>1. version' = version /\ push'[p].count = Count
    BY <1>3 DEF CountForPush, TypeOK
  <2>2. q \in Recorded
    BY <2>1 DEF Recorded, Writer
  <2> QED
    BY <2>1, <2>2 DEF NumbersWithinHistory
<1>4. ~StartPush(p) /\ ~SaveForPush(p)
  BY DEF StartPush, SaveForPush, TypeOK, PushState
<1> QED
  BY <1>2, <1>3, <1>4, PushMoves

\* The number of a push that saves now is new among those that kept the guard.
LEMMA FreshNumber ==
  ASSUME TypeOK, UnsavedIsAbsent, HoldsGuard, CountsLaterPushes, [Next]_vars,
         NEW p \in Push, NEW q \in Push, p # q, p \notin overtaken,
         q \notin overtaken, SaveForPush(p), version'[q] # NoVersion
  PROVE  version'[q].num < version'[p].num
<1>1. Pushing(p) /\ push[p].at = "counted"
  BY DEF SaveForPush, Pushing
<1>2. version'[q] = version[q] /\ version'[p].num = push[p].count + 1
  BY SaveShape DEF Writer
<1>3. version[q].num <= push[p].count
  BY <1>1, <1>2 DEF CountsLaterPushes
<1>4. version[q].num \in Int /\ push[p].count \in Int
  BY DEF TypeOK, Version, NoVersion, PushState, Writer
<1> QED
  BY <1>2, <1>3, <1>4

\* Pushes that kept the guard have different numbers: preserved.
LEMMA DifferStep ==
  ASSUME TypeOK, UnsavedIsAbsent, HoldsGuard, CountsLaterPushes,
         PushNumbersDiffer, [Next]_vars
  PROVE  PushNumbersDiffer'
<1> SUFFICES ASSUME NEW p \in Push, NEW q \in Push, p \notin overtaken',
                    q \notin overtaken', p # q, version'[p] # NoVersion,
                    version'[q] # NoVersion
             PROVE  version'[p].num # version'[q].num
  BY DEF PushNumbersDiffer
<1>1. p \notin overtaken /\ q \notin overtaken
  BY OvertakenGrows
<1>2. \A u \in Push : version'[u] # NoVersion => version'[u].num \in Int
  BY TypeStep DEF TypeOK, Version, NoVersion, Writer
<1>3. CASE SaveForPush(p)
  BY <1>1, <1>2, <1>3, FreshNumber
<1>4. CASE SaveForPush(q)
  BY <1>1, <1>2, <1>4, FreshNumber
<1>5. CASE version'[p] = version[p] /\ version'[q] = version[q]
  BY <1>1, <1>5 DEF PushNumbersDiffer
<1> QED
  BY <1>3, <1>4, <1>5, KeptOrSaved

\* The invariant about numbers is inductive.
LEMMA NumberStep == NumberInv /\ [Next]_vars => NumberInv'
BY TypeStep, UnsavedStep, BoundsStep, HoldsStep, LaterStep, DifferStep
   DEF NumberInv

-----------------------------------------------------------------------------
(* What a rollback restores *)

\* Only applied versions are eligible: preserved.
LEMMA EligibleStep ==
  ASSUME TypeOK, UnsavedIsAbsent, EligibleWasApplied, [Next]_vars
  PROVE  EligibleWasApplied'
<1>1. CASE version' = version
  BY <1>1 DEF EligibleWasApplied
<1>2. ASSUME NEW p \in Push, SaveForPush(p) PROVE EligibleWasApplied'
  BY <1>2, SaveShape DEF EligibleWasApplied
<1>3. ASSUME NEW c \in Callback, SaveForCallback(c) PROVE EligibleWasApplied'
  BY <1>3, SaveShape DEF EligibleWasApplied
<1> QED
  BY <1>1, <1>2, <1>3, HistoryGrows

\* A rollback chooses once, from the documents and the writers of that moment.
LEMMA ChoiceMoves ==
  ASSUME TypeOK, [Next]_vars, NEW r \in Rollback, Chose(r)'
  PROVE  \/ /\ Chose(r)
            /\ rollback'[r].failed = rollback[r].failed
            /\ rollback'[r].restore = rollback[r].restore
            /\ rollback'[r].racing = rollback[r].racing
         \/ /\ rollback'[r].failed \in Recorded
            /\ version[rollback'[r].failed].eligible
            /\ rollback'[r].restore \in NewestOf(GoodBefore(rollback'[r].failed))
            /\ rollback'[r].racing = AboutToSave
            /\ UNCHANGED <<version, push, callback>>
<1>1. ASSUME NEW v \in Writer, ChooseRestore(r, v)
      PROVE  /\ rollback'[r].failed \in Recorded
             /\ version[rollback'[r].failed].eligible
             /\ rollback'[r].restore \in NewestOf(GoodBefore(rollback'[r].failed))
             /\ rollback'[r].racing = AboutToSave
             /\ UNCHANGED <<version, push, callback>>
  <2>1. rollback' # [rollback EXCEPT ![r].at = "refused"]
    BY DEF Chose, TypeOK, RollbackState
  <2>2. v \in Recorded /\ version[v].eligible
    BY <1>1, <2>1 DEF ChooseRestore
  <2>3. PICK w \in NewestOf(GoodBefore(v)) :
          rollback' = [rollback EXCEPT ![r] =
            [at |-> "chosen", failed |-> v, restore |-> w,
             racing |-> AboutToSave]]
    BY <1>1, <2>1 DEF ChooseRestore
  <2>4. /\ rollback'[r].failed = v /\ rollback'[r].restore = w
        /\ rollback'[r].racing = AboutToSave
    BY <2>3 DEF TypeOK
  <2> QED
    BY <1>1, <2>2, <2>3, <2>4 DEF ChooseRestore
<1> DEFINE Kept == /\ Chose(r)
                   /\ rollback'[r].failed = rollback[r].failed
                   /\ rollback'[r].restore = rollback[r].restore
                   /\ rollback'[r].racing = rollback[r].racing
<1>2. ASSUME rollback'[r] = rollback[r] PROVE Kept
  BY <1>2 DEF Chose
<1>3. ASSUME AcceptRollback(r) PROVE Kept
  BY <1>3 DEF AcceptRollback, Chose, TypeOK, RollbackState
<1>4. ASSUME rollback[r].at \in {"chosen", "accepted"},
             rollback'[r] = [rollback[r] EXCEPT !.at = "thrown"]
      PROVE  Kept
  BY <1>4 DEF Chose, TypeOK, RollbackState
<1> QED
  BY <1>1, <1>2, <1>3, <1>4, RollbackMoves

\* A sound choice stays sound, because documents are never changed.
LEMMA SoundStays ==
  ASSUME TypeOK, UnsavedIsAbsent, [Next]_vars, NEW v, NEW w, Sound(v, w)
  PROVE  Sound(v, w)' /\ version'[v] = version[v] /\ version'[w] = version[w]
<1>1. /\ v \in Recorded' /\ version'[v] = version[v]
      /\ w \in Recorded' /\ version'[w] = version[w]
  BY HistoryKept DEF Sound
<1> QED
  BY <1>1 DEF Sound

\* The numbers of the documents, and the counts that are about to be used.
LEMMA Numbers ==
  ASSUME TypeOK
  PROVE  /\ \A w \in Writer : version[w].num \in Nat
         /\ \A p \in Push : push[p].count \in Nat
         /\ \A c \in Callback : callback[c].count \in Nat
         /\ Count \in Nat
BY CountIsNat DEF TypeOK, Version, NoVersion, PushState, CallbackState

\* The choice of a rollback that has chosen is sound: preserved.
LEMMA SoundStep ==
  ASSUME TypeOK, UnsavedIsAbsent, RestoreInv, [Next]_vars
  PROVE  ChoosesSoundly'
<1>1. ASSUME NEW r \in Rollback, Chose(r)'
      PROVE  Sound(rollback[r].failed, rollback[r].restore)'
  <2>1. Sound(rollback'[r].failed, rollback'[r].restore)
    <3>1. CASE /\ Chose(r) /\ rollback'[r].failed = rollback[r].failed
               /\ rollback'[r].restore = rollback[r].restore
      BY <3>1 DEF RestoreInv, ChoosesSoundly
    <3>2. CASE /\ rollback'[r].failed \in Recorded
               /\ version[rollback'[r].failed].eligible
               /\ rollback'[r].restore \in NewestOf(GoodBefore(rollback'[r].failed))
      BY <3>2 DEF Sound, NewestOf, GoodBefore, RestoreInv, EligibleWasApplied,
                  Recorded
    <3> QED
      BY <1>1, <3>1, <3>2, ChoiceMoves
  <2>2. PICK v, w : v = rollback'[r].failed /\ w = rollback'[r].restore
                    /\ Sound(v, w)
    BY <2>1
  <2>3. Sound(v, w)'
    BY <2>2, SoundStays
  <2> QED
    BY <2>2, <2>3 DEF Sound
<1> QED
  BY <1>1 DEF ChoosesSoundly

\* Who counts after the choice counts the failed version: preserved.
LEMMA LateStep ==
  ASSUME NumberInv, RestoreInv, [Next]_vars
  PROVE  LateCountsMore'
<1> DEFINE failed(r) == rollback'[r].failed
<1>0. TypeOK /\ UnsavedIsAbsent
  BY DEF NumberInv
<1>1. ASSUME NEW r \in Rollback, Chose(r)'
      PROVE  /\ failed(r) \in Recorded /\ version'[failed(r)] = version[failed(r)]
             /\ version[failed(r)].num <= Count
  <2>1. failed(r) \in Recorded
    BY <1>0, <1>1, ChoiceMoves DEF RestoreInv, ChoosesSoundly, Sound
  <2> QED
    BY <1>0, <2>1, HistoryKept DEF NumberInv, NumbersWithinHistory
<1>2. ASSUME NEW r \in Rollback, Chose(r)', NEW p \in Push,
             p \notin rollback'[r].racing, push'[p].at = "counted"
      PROVE  version'[failed(r)].num <= push'[p].count
  <2>1. CASE CountForPush(p)
    <3>1. push'[p].count = Count
      BY <1>0, <2>1 DEF CountForPush, TypeOK
    <3> QED
      BY <1>1, <1>2, <3>1
  <2>2. CASE push'[p] = push[p]
    <3>1. p \in AboutToSave
      BY <1>2, <2>2 DEF AboutToSave
    <3>2. /\ Chose(r) /\ failed(r) = rollback[r].failed
          /\ rollback'[r].racing = rollback[r].racing
      BY <1>0, <1>2, <3>1, ChoiceMoves
    <3> QED
      BY <1>1, <1>2, <2>2, <3>2 DEF RestoreInv, LateCountsMore
  <2>3. ~StartPush(p) /\ ~SaveForPush(p)
    BY <1>0, <1>2 DEF StartPush, SaveForPush, TypeOK, PushState
  <2> QED
    BY <1>0, <1>2, <2>1, <2>2, <2>3, PushMoves
<1>3. ASSUME NEW r \in Rollback, Chose(r)', NEW c \in Callback,
             c \notin rollback'[r].racing, callback'[c].at = "counted"
      PROVE  version'[failed(r)].num <= callback'[c].count
  <2>1. CASE CountForCallback(c)
    <3>1. callback'[c].count = Count
      BY <1>0, <2>1 DEF CountForCallback, TypeOK, CallbackState
    <3> QED
      BY <1>1, <1>3, <3>1
  <2>2. CASE callback'[c] = callback[c]
    <3>1. c \in AboutToSave
      BY <1>3, <2>2 DEF AboutToSave
    <3>2. /\ Chose(r) /\ failed(r) = rollback[r].failed
          /\ rollback'[r].racing = rollback[r].racing
      BY <1>0, <1>3, <3>1, ChoiceMoves
    <3> QED
      BY <1>1, <1>3, <2>2, <3>2 DEF RestoreInv, LateCountsMore
  <2>3. ~SaveForCallback(c)
    BY <1>0, <1>3 DEF SaveForCallback, TypeOK, CallbackState
  <2>4. ASSUME NEW k \in Key \cup {NoKey}, NEW result \in {"APPLIED", "FAILED"},
               CheckCallback(c, k, result)
        PROVE  FALSE
    BY <1>0, <1>3, <2>4 DEF CheckCallback, TypeOK
  <2>5. callback'[c] # NewCallback
    BY <1>3 DEF NewCallback
  <2> QED
    BY <1>0, <1>3, <2>1, <2>2, <2>3, <2>4, <2>5, CallbackMoves
<1> QED
  BY <1>2, <1>3 DEF LateCountsMore

\* A document that is saved under a count past a number has a greater number.
LEMMA SavedAfter ==
  ASSUME TypeOK, UnsavedIsAbsent, [Next]_vars, NEW n \in Nat,
         NEW w \in Writer, version'[w] # version[w],
         w \in Push => (push[w].at = "counted" => n <= push[w].count),
         w \in Callback => (callback[w].at = "counted" => n <= callback[w].count)
  PROVE  ~(version'[w].num < n)
<1>1. ASSUME NEW p \in Push, SaveForPush(p)
      PROVE  ~(version'[w].num < n)
  <2>1. w = p /\ version'[w].num = push[p].count + 1
    BY <1>1, SaveShape
  <2>2. push[p].at = "counted" /\ push[p].count \in Nat
    BY <1>1, Numbers DEF SaveForPush
  <2> QED
    BY <2>1, <2>2
<1>2. ASSUME NEW c \in Callback, SaveForCallback(c)
      PROVE  ~(version'[w].num < n)
  <2>1. w = c /\ version'[w].num = callback[c].count + 1
    BY <1>2, SaveShape
  <2>2. callback[c].at = "counted" /\ callback[c].count \in Nat
    BY <1>2, Numbers DEF SaveForCallback
  <2> QED
    BY <2>1, <2>2
<1> QED
  BY <1>1, <1>2, HistoryGrows

\* What was chosen stays the newest: preserved.
LEMMA NewestStep ==
  ASSUME NumberInv, RestoreInv, [Next]_vars
  PROVE  ChoosesNewest'
<1> SUFFICES ASSUME NEW r \in Rollback, Chose(r)',
                    NEW w \in GoodBefore(rollback[r].failed)',
                    w \notin rollback'[r].racing
             PROVE  version'[w].num <= version'[rollback'[r].restore].num
  BY DEF ChoosesNewest
<1>0. TypeOK /\ UnsavedIsAbsent
  BY DEF NumberInv
<1> DEFINE v == rollback'[r].failed
           u == rollback'[r].restore
<1>1. w \in Writer /\ version'[w].num < version'[v].num
      /\ version'[w].status = "APPLIED" /\ w \in Recorded'
  BY DEF GoodBefore, Recorded
<1>2. CASE /\ Chose(r) /\ v = rollback[r].failed /\ u = rollback[r].restore
           /\ rollback'[r].racing = rollback[r].racing
  <2>1. version'[v] = version[v] /\ version'[u] = version[u]
        /\ v \in Recorded
    <3>1. Sound(v, u)
      BY <1>2 DEF RestoreInv, ChoosesSoundly
    <3> QED
      BY <1>0, <3>1, SoundStays DEF Sound
  <2>2. CASE version'[w] = version[w]
    <3>1. w \in GoodBefore(v)
      BY <1>1, <2>1, <2>2 DEF GoodBefore, Recorded
    <3> QED
      BY <1>2, <2>1, <2>2, <3>1 DEF RestoreInv, ChoosesNewest
  <2>3. CASE version'[w] # version[w]
    <3>1. version[v].num \in Nat
      BY <1>0, <2>1, Numbers DEF Recorded
    <3>2. w \in Push => (push[w].at = "counted"
                          => version[v].num <= push[w].count)
      BY <1>2 DEF RestoreInv, LateCountsMore
    <3>3. w \in Callback => (callback[w].at = "counted"
                              => version[v].num <= callback[w].count)
      BY <1>2 DEF RestoreInv, LateCountsMore
    <3>4. ~(version'[w].num < version[v].num)
      BY <1>0, <1>1, <2>3, <3>1, <3>2, <3>3, SavedAfter
    <3> QED
      BY <1>1, <2>1, <3>4
  <2> QED
    BY <2>2, <2>3
<1>3. CASE u \in NewestOf(GoodBefore(v)) /\ version' = version
  <2>1. w \in GoodBefore(v)
    BY <1>1, <1>3 DEF GoodBefore, Recorded
  <2> QED
    BY <1>3, <2>1 DEF NewestOf
<1> QED
  BY <1>0, <1>2, <1>3, ChoiceMoves

\* The invariant about choices is inductive.
LEMMA RestoreStep == NumberInv /\ RestoreInv /\ [Next]_vars => RestoreInv'
<1> SUFFICES ASSUME NumberInv, RestoreInv, [Next]_vars PROVE RestoreInv'
  OBVIOUS
<1>1. TypeOK /\ UnsavedIsAbsent /\ EligibleWasApplied
  BY DEF NumberInv, RestoreInv
<1>2. EligibleWasApplied'
  BY <1>1, EligibleStep
<1>3. ChoosesSoundly'
  BY <1>1, SoundStep
<1>4. LateCountsMore' /\ ChoosesNewest'
  BY LateStep, NewestStep
<1> QED
  BY <1>2, <1>3, <1>4 DEF RestoreInv

-----------------------------------------------------------------------------

\* Both invariants hold in every state.
LEMMA Invariants == Spec => [](NumberInv /\ RestoreInv)
BY InitNumbers, NumberStep, RestoreStep, PTL DEF Spec

\* The variables keep their types, for any number of threads.
THEOREM TypeCorrect == Spec => []TypeOK
BY Invariants, PTL DEF NumberInv

\* Two pushes that recorded a version without losing the guard have recorded
\* different numbers (pushConfig, recordVersion), whatever callbacks do.
THEOREM PushNumbers == Spec => []PushNumbersDiffer
BY Invariants, PTL DEF NumberInv

\* No number runs ahead of the count of the documents (count + 1 with a count
\* that may be stale).
THEOREM NumbersBounded == Spec => []NumbersWithinHistory
BY Invariants, PTL DEF NumberInv

\* An accepted rollback and a push that both kept the guard are never at work
\* on the device together.
THEOREM RollbackExcludesPushes == Spec => []NoPushDuringRollback
<1>1. NumberInv => NoPushDuringRollback
  <2> SUFFICES ASSUME NumberInv, NEW p \in Push, NEW r \in Rollback,
                      rollback[r].at = "accepted", r \notin overtaken, Pushing(p)
               PROVE  FALSE
    BY DEF NoPushDuringRollback
  <2>1. owner[device] = p /\ owner[device] = r
    BY DEF NumberInv, HoldsGuard
  <2> QED
    BY <2>1, HistoryAssumption
<1> QED
  BY <1>1, Invariants, PTL

\* What a rollback restores was applied before the version it rolls back, and
\* stays the newest such version but for writers that were about to save when
\* it read the history, although it had no guard then.
THEOREM RestoresGood == Spec => []RestoresWhatWasGood
<1>1. RestoreInv => RestoresWhatWasGood
  BY DEF RestoreInv, ChoosesSoundly, ChoosesNewest, Sound, Chose,
         RestoresWhatWasGood
<1> QED
  BY <1>1, Invariants, PTL

\* Only versions that were applied are ever rolled back: what was recorded as
\* the evidence of a failed delivery cannot be (rollbackEligible).
THEOREM OnlyAppliedIsRolledBack == Spec => []RollsBackOnlyApplied
<1>1. RestoreInv => RollsBackOnlyApplied
  BY DEF RestoreInv, ChoosesSoundly, Sound, RollsBackOnlyApplied
<1> QED
  BY <1>1, Invariants, PTL

\* The history is append-only: a document that was saved is never changed nor
\* removed, so that what a rollback has read about it stays true although it
\* holds no guard yet (recordVersion and the callbacks only insert).
THEOREM HistoryIsAppendOnly ==
  Spec => [][\A w \in Recorded : version'[w] = version[w]]_version
<1>1. NumberInv /\ [Next]_vars => \A w \in Recorded : version'[w] = version[w]
  BY HistoryKept DEF NumberInv
<1> QED
  BY <1>1, Invariants, PTL DEF Spec

\* The guard is taken, given up and forgotten in the ways of DeviceLock only:
\* pushes and rollbacks are one use of the guard that OperationGuard implements.
THEOREM GuardIsUsedAsPromised == Spec => Lock!Spec
<1>1. Init => Lock!Init
  BY DEF Init
<1>2. TypeOK /\ [Next]_vars => [Lock!Next]_owner
  <2> SUFFICES ASSUME TypeOK, [Next]_vars
               PROVE  [Lock!Next]_owner
    OBVIOUS
  <2>1. ASSUME NEW t \in Push \cup Rollback, owner' = OwnerAfterRelease(t)
        PROVE  Lock!GiveUp(device) \/ UNCHANGED owner
    BY <2>1, HistoryAssumption DEF OwnerAfterRelease, Lock!GiveUp
  <2>2. ASSUME NEW t \in Push \cup Rollback, Free,
               owner' = [owner EXCEPT ![device] = t]
        PROVE  Lock!Take(device, t)
    BY <2>2 DEF Free, Lock!Take
  <2>3. ASSUME NEW p \in Push, PushStep(p)
        PROVE  [Lock!Next]_owner
    BY <2>1, <2>2, <2>3
       DEF PushStep, StartPush, CountForPush, SaveForPush, EndPush, Lock!Next
  <2>4. ASSUME NEW c \in Callback, CallbackStep(c)
        PROVE  UNCHANGED owner
    BY <2>4 DEF CallbackStep, CheckCallback, CountForCallback, SaveForCallback
  <2>5. ASSUME NEW r \in Rollback, RollbackStep(r)
        PROVE  [Lock!Next]_owner
    BY <2>1, <2>2, <2>5
       DEF RollbackStep, ChooseRestore, AcceptRollback, RollbackThrows,
           Lock!Next
  <2>6. CASE LoseGuard \/ Restart
    BY <2>6 DEF LoseGuard, Restart, Lock!Next
  <2>7. CASE UNCHANGED vars
    BY <2>7 DEF vars
  <2> QED
    BY <2>3, <2>4, <2>5, <2>6, <2>7 DEF Next
<1> QED
  BY <1>1, <1>2, TypeCorrect, PTL DEF Spec, Lock!Spec
=============================================================================
