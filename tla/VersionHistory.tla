---------------------------- MODULE VersionHistory ----------------------------
(***************************************************************************)
(* The configuration history of one device: who writes version documents,  *)
(* which numbers they get, and what a rollback reads from them.            *)
(*                                                                         *)
(* Three kinds of threads meet.  pushConfig records a version while it     *)
(* holds the operation guard of the device.  The callbacks that report the *)
(* result of a job (recordVersionForDevice, recordFailureEvidenceForDevice)*)
(* take no guard.  initiateRollback reads the history first and takes the  *)
(* guard afterwards.  Every call of the repository is a step of its own.   *)
(* The guard is the abstract DeviceLock that OperationGuard implements.    *)
(***************************************************************************)
EXTENDS Integers, FiniteSets

CONSTANTS Push, Callback, Rollback,   \* the threads; a version document is
                                      \* named after the thread that wrote it
          NoThread,
          Key, NoKey                  \* idempotency keys, and their absence

Writer == Push \cup Callback

ASSUME HistoryAssumption ==
  /\ IsFiniteSet(Writer)
  /\ Push \cap Callback = {}
  /\ (Push \cup Callback) \cap Rollback = {}
  /\ NoThread \notin Push \cup Callback \cup Rollback
  /\ NoKey \notin Key

VARIABLES owner,     \* who holds the guard of the device
          version,   \* version[w]: the document that w saved, or NoVersion
          push,      \* push[p]: where the thread of pushConfig is
          callback,  \* callback[c]: where the callback is
          rollback,  \* rollback[r]: where the thread of initiateRollback is
          overtaken  \* the threads that lost the guard to its TTL (history)

vars == <<owner, version, push, callback, rollback, overtaken>>

device == "device"

Lock == INSTANCE DeviceLock WITH
          Device <- {device}, Job <- Push \cup Rollback, NoJob <- NoThread

NoVersion == [num |-> 0, status |-> "none", key |-> NoKey, eligible |-> FALSE]

Version == [num : Nat \ {0}, status : {"APPLIED", "FAILED"},
            key : Key \cup {NoKey}, eligible : BOOLEAN]

PushState == [at : {"idle", "locked", "counted", "saved", "done", "blocked"},
              count : Nat]

\* result: which of the two functions was called.
CallbackState == [at : {"idle", "checked", "counted", "saved", "existing",
                        "error"},
                  key : Key \cup {NoKey}, result : {"APPLIED", "FAILED"},
                  count : Nat]

\* racing: who was about to save when the history was read (history).
RollbackState == [at : {"idle", "chosen", "accepted", "thrown", "refused"},
                  failed : Writer \cup {NoThread},
                  restore : Writer \cup {NoThread},
                  racing : SUBSET Writer]

TypeOK ==
  /\ owner \in [{device} -> Push \cup Rollback \cup {NoThread}]
  /\ version \in [Writer -> Version \cup {NoVersion}]
  /\ push \in [Push -> PushState]
  /\ callback \in [Callback -> CallbackState]
  /\ rollback \in [Rollback -> RollbackState]
  /\ overtaken \in SUBSET (Push \cup Rollback)

NewPush == [at |-> "idle", count |-> 0]
NewCallback == [at |-> "idle", key |-> NoKey, result |-> "APPLIED", count |-> 0]
NewRollback == [at |-> "idle", failed |-> NoThread, restore |-> NoThread,
                racing |-> {}]

Init ==
  /\ Lock!Init
  /\ version = [w \in Writer |-> NoVersion]
  /\ push = [p \in Push |-> NewPush]
  /\ callback = [c \in Callback |-> NewCallback]
  /\ rollback = [r \in Rollback |-> NewRollback]
  /\ overtaken = {}

Recorded == {w \in Writer : version[w] # NoVersion}

\* countByDeviceId
Count == Cardinality(Recorded)

\* Mutant: the last number is used again.
SameNumber(n) == n

\* count + 1: the number of the next version.
NextNumber(n) == n + 1

-----------------------------------------------------------------------------
(* pushConfig, for a device that is online *)

\* Mutant: the guard is not asked.
AlwaysFree == TRUE

Free == owner[device] = NoThread

\* acquire: the guard is taken, or the push is turned away.
StartPush(p) ==
  /\ push[p].at = "idle"
  /\ \/ Free /\ owner' = [owner EXCEPT ![device] = p]
             /\ push' = [push EXCEPT ![p].at = "locked"]
     \/ ~Free /\ push' = [push EXCEPT ![p].at = "blocked"]
              /\ UNCHANGED owner
  /\ UNCHANGED <<version, callback, rollback, overtaken>>

\* recordVersion counts ...
CountForPush(p) ==
  /\ push[p].at = "locked"
  /\ push' = [push EXCEPT ![p] = [at |-> "counted", count |-> Count]]
  /\ UNCHANGED <<owner, version, callback, rollback, overtaken>>

\* ... and saves, without marking the version eligible for a rollback.
SaveForPush(p) ==
  /\ push[p].at = "counted"
  /\ version' = [version EXCEPT ![p] =
       [num |-> NextNumber(push[p].count), status |-> "APPLIED",
        key |-> NoKey, eligible |-> FALSE]]
  /\ push' = [push EXCEPT ![p].at = "saved"]
  /\ UNCHANGED <<owner, callback, rollback, overtaken>>

\* Mutant: the guard is given up for whoever holds it.
ReleaseForAnyone(t) == [owner EXCEPT ![device] = NoThread]

OwnerAfterRelease(t) ==
  IF owner[device] = t THEN [owner EXCEPT ![device] = NoThread] ELSE owner

\* The finally block, after the save, an exception or an offline device.
EndPush(p) ==
  /\ push[p].at \in {"locked", "counted", "saved"}
  /\ owner' = OwnerAfterRelease(p)
  /\ push' = [push EXCEPT ![p].at = "done"]
  /\ UNCHANGED <<version, callback, rollback, overtaken>>

-----------------------------------------------------------------------------
(* recordVersionForDevice and recordFailureEvidenceForDevice *)

WithKey(k) == {w \in Recorded : version[w].key = k}

\* findByDeviceIdAndIdempotencyKey: one record is the answer, and a finder
\* that may return one record throws when there are more.
CheckCallback(c, k, result) ==
  /\ callback[c].at = "idle"
  /\ \/ /\ k = NoKey \/ WithKey(k) = {}
        /\ callback' = [callback EXCEPT ![c] =
             [at |-> "checked", key |-> k, result |-> result, count |-> 0]]
     \/ /\ k # NoKey
        /\ WithKey(k) # {}
        /\ callback' = [callback EXCEPT ![c] =
             [at |-> IF Cardinality(WithKey(k)) = 1 THEN "existing" ELSE "error",
              key |-> k, result |-> result, count |-> 0]]
  /\ UNCHANGED <<owner, version, push, rollback, overtaken>>

CountForCallback(c) ==
  /\ callback[c].at = "checked"
  /\ callback' = [callback EXCEPT ![c].at = "counted", ![c].count = Count]
  /\ UNCHANGED <<owner, version, push, rollback, overtaken>>

\* Applied versions may be rolled back, evidence of a failure may not.
SaveForCallback(c) ==
  /\ callback[c].at = "counted"
  /\ version' = [version EXCEPT ![c] =
       [num |-> NextNumber(callback[c].count), status |-> callback[c].result,
        key |-> callback[c].key, eligible |-> callback[c].result = "APPLIED"]]
  /\ callback' = [callback EXCEPT ![c].at = "saved"]
  /\ UNCHANGED <<owner, push, rollback, overtaken>>

-----------------------------------------------------------------------------
(* initiateRollback *)

\* The writers that have counted and will save next.
AboutToSave == {p \in Push : push[p].at = "counted"}
                 \cup {c \in Callback : callback[c].at = "counted"}

GoodBefore(v) ==
  {w \in Recorded : /\ version[w].status = "APPLIED"
                    /\ version[w].num < version[v].num}

\* Mutant: the history is read in ascending order.
OldestOf(S) == {w \in S : \A u \in S : version[w].num <= version[u].num}

\* findPreviousGoodVersion: the first of them by descending number.
NewestOf(S) == {w \in S : \A u \in S : version[u].num <= version[w].num}

\* Steps 1 to 3: the version to roll back and the one to restore are read.  The
\* first read may come earlier: documents are never changed, so it is the
\* second that decides.  What the code calls the failed version is one that
\* was applied: evidence of a failure is never eligible.
ChooseRestore(r, v) ==
  /\ rollback[r].at = "idle"
  /\ v \in Recorded
  /\ \/ /\ ~version[v].eligible \/ GoodBefore(v) = {}
        /\ rollback' = [rollback EXCEPT ![r].at = "refused"]
     \/ /\ version[v].eligible
        /\ \E w \in NewestOf(GoodBefore(v)) :
             rollback' = [rollback EXCEPT ![r] =
               [at |-> "chosen", failed |-> v, restore |-> w,
                racing |-> AboutToSave]]
  /\ UNCHANGED <<owner, version, push, callback, overtaken>>

\* Step 4: the guard, and nothing is read again.
AcceptRollback(r) ==
  /\ rollback[r].at = "chosen"
  /\ \/ Free /\ owner' = [owner EXCEPT ![device] = r]
             /\ rollback' = [rollback EXCEPT ![r].at = "accepted"]
     \/ ~Free /\ rollback' = [rollback EXCEPT ![r].at = "refused"]
              /\ UNCHANGED owner
  /\ UNCHANGED <<version, push, callback, overtaken>>

\* Saving or routing the rollback job throws: the catch block releases.
RollbackThrows(r) ==
  /\ rollback[r].at = "accepted"
  /\ owner' = OwnerAfterRelease(r)
  /\ rollback' = [rollback EXCEPT ![r].at = "thrown"]
  /\ UNCHANGED <<version, push, callback, overtaken>>

-----------------------------------------------------------------------------
(* The environment *)

\* The marker's time to live lapses while its owner goes on.
LoseGuard ==
  /\ ~Free
  /\ overtaken' = overtaken \cup {owner[device]}
  /\ Lock!Forget({device})
  /\ UNCHANGED <<version, push, callback, rollback>>

\* A restart loses the guard and the threads.
Restart ==
  /\ Lock!Forget({device})
  /\ push' = [p \in Push |->
       IF push[p].at \in {"locked", "counted", "saved"}
       THEN [push[p] EXCEPT !.at = "done"] ELSE push[p]]
  /\ callback' = [c \in Callback |->
       IF callback[c].at \in {"checked", "counted"} THEN NewCallback
       ELSE callback[c]]
  /\ rollback' = [r \in Rollback |->
       IF rollback[r].at \in {"chosen", "accepted"}
       THEN [rollback[r] EXCEPT !.at = "thrown"] ELSE rollback[r]]
  /\ UNCHANGED <<version, overtaken>>

PushStep(p) == StartPush(p) \/ CountForPush(p) \/ SaveForPush(p) \/ EndPush(p)

CallbackStep(c) ==
  \/ \E k \in Key \cup {NoKey}, result \in {"APPLIED", "FAILED"} :
        CheckCallback(c, k, result)
  \/ CountForCallback(c)
  \/ SaveForCallback(c)

RollbackStep(r) ==
  \/ \E v \in Writer : ChooseRestore(r, v)
  \/ AcceptRollback(r)
  \/ RollbackThrows(r)

Next ==
  \/ \E p \in Push : PushStep(p)
  \/ \E c \in Callback : CallbackStep(c)
  \/ \E r \in Rollback : RollbackStep(r)
  \/ LoseGuard
  \/ Restart

Spec == Init /\ [][Next]_vars

-----------------------------------------------------------------------------
(* Properties *)

\* Thread p of pushConfig is between taking and giving up the guard, and the
\* guard has not been taken from it.
Pushing(p) == push[p].at \in {"locked", "counted", "saved"} /\ p \notin overtaken

\* Two pushes that recorded a version and never lost the guard have recorded
\* different numbers, whatever the callbacks, which take no guard, wrote in
\* between (pushConfig and recordVersion).
PushNumbersDiffer ==
  \A p, q \in Push \ overtaken :
    p # q /\ version[p] # NoVersion /\ version[q] # NoVersion
      => version[p].num # version[q].num

\* The numbers never run ahead of the history: the newest number is at most
\* the count of the documents, although counts are stale when they are used.
NumbersWithinHistory == \A w \in Recorded : version[w].num <= Count

\* While a rollback that was accepted holds the device no push is at work on
\* it, unless one of the two has lost the guard.
NoPushDuringRollback ==
  \A p \in Push, r \in Rollback :
    rollback[r].at = "accepted" /\ r \notin overtaken => ~Pushing(p)

\* What a rollback restores was applied before the version that is rolled back,
\* and it is still the newest such version whenever it is restored, although
\* the rollback read the history before it took the guard and callbacks take
\* none: only who was about to save when it was read may have put another one
\* in between (findPreviousGoodVersion; recordVersion and the callbacks).
RestoresWhatWasGood ==
  \A r \in Rollback :
    rollback[r].at \in {"chosen", "accepted", "thrown"} =>
      LET restored == version[rollback[r].restore]
          others   == GoodBefore(rollback[r].failed) \ rollback[r].racing
      IN  /\ restored.status = "APPLIED"
          /\ restored.num < version[rollback[r].failed].num
          /\ \A w \in others : version[w].num <= restored.num
=============================================================================
