-------------------------- MODULE ConfirmationGate --------------------------
(***************************************************************************)
(* The confirmation gate of config-service: a target preview is generated  *)
(* and cached in memory for a few minutes (TargetResolverService and       *)
(* PreviewStoreService), an operator confirms it and a job is created      *)
(* (ConfigService.confirmExecution), and the confirmed job is executed     *)
(* (ConfigService.executeConfirmedJob).                                    *)
(*                                                                         *)
(* Jobs are documents in MongoDB and survive a restart; previews and the   *)
(* threads that serve requests do not.  A confirmation reads the jobs,     *)
(* reads the preview, writes the job and drops the preview in four         *)
(* separate steps, and nothing keeps other requests out in between.        *)
(***************************************************************************)
EXTENDS Integers

CONSTANTS Preview,         \* preview ids, known to the service or not
          Request,         \* confirmation requests; a job takes its request's name
          Executor,        \* calls of executeConfirmedJob
          Key, NoKey,      \* idempotency keys, and their absence
          Count,           \* target counts
          Role,            \* roles of the callers
          CountTolerance,  \* config.confirmation.target-count-tolerance
          PreviewTtl,      \* config.preview.ttl-minutes, in ticks
          MaxClock         \* bound on the clock, for model checking only

ASSUME ConfirmationAssumption ==
  /\ NoKey \notin Key
  /\ Count \subseteq Nat
  /\ CountTolerance \in Nat
  /\ PreviewTtl \in Nat
  /\ MaxClock \in Nat

VARIABLES now,      \* the wall clock
          store,    \* store[p]: the cached preview p, or Absent
          issued,   \* the previews ever handed out (history)
          jobs,     \* jobs[r]: the job document request r created, or NoJob
          req,      \* req[r]: where the thread serving request r is
          exec      \* exec[e]: where the execution call e is

vars == <<now, store, issued, jobs, req, exec>>

Absent == [storedAt |-> 0, total |-> 0, cached |-> FALSE]
Cached == [storedAt : Nat, total : Nat, cached : {TRUE}]

NoJob == [preview |-> "none", key |-> NoKey, status |-> "none"]
Job   == [preview : Preview, key : Key \cup {NoKey},
          status : {"ACCEPTED", "RUNNING"}]

Outcome == {"ACCEPTED", "PREVIEW_NOT_FOUND", "PREVIEW_EXPIRED",
            "TARGET_COUNT_MISMATCH", "UNAUTHORIZED",
            "DUPLICATE_IDEMPOTENCY_KEY"}

\* at: the step the thread takes next, or how the request ended.
\* existing: the job a duplicate was answered with.
\* spent, known: at its arrival, had its preview already been answered
\* ACCEPTED to somebody; was there already a job with its key and preview.
RequestState ==
  [at : {"idle", "idempotency", "preview", "save", "invalidate", "lost"}
        \cup Outcome,
   preview : Preview \cup {"none"}, key : Key \cup {NoKey}, expected : Nat,
   role : Role \cup {"none"}, existing : Request, spent : BOOLEAN,
   known : BOOLEAN]

NoRequest(r) == [at |-> "idle", preview |-> "none", key |-> NoKey,
                 expected |-> 0, role |-> "none", existing |-> r,
                 spent |-> FALSE, known |-> FALSE]

ExecState == [at : {"idle", "preview", "start", "started", "WRONG_STATUS",
                    "PREVIEW_GONE", "lost"},
              job : Request]

TypeOK ==
  /\ now \in Nat
  /\ store \in [Preview -> Cached \cup {Absent}]
  /\ issued \in SUBSET Preview
  /\ jobs \in [Request -> Job \cup {NoJob}]
  /\ req \in [Request -> RequestState]
  /\ \A r \in Request : req[r].at # "idle" => req[r].preview \in Preview
  /\ exec \in [Executor -> ExecState]

Init ==
  /\ now = 0
  /\ store = [p \in Preview |-> Absent]
  /\ issued = {}
  /\ jobs = [r \in Request |-> NoJob]
  /\ req = [r \in Request |-> NoRequest(r)]
  /\ \E r \in Request : exec = [e \in Executor |-> [at |-> "idle", job |-> r]]

-----------------------------------------------------------------------------
(* The preview store *)

\* isExpired(CachedPreview): storedAt is before now - ttl.
Stale(p) == store[p] # Absent /\ now - store[p].storedAt > PreviewTtl

\* find: a stale entry is removed on lookup ...
StoreAfterFind(p) == IF Stale(p) THEN [store EXCEPT ![p] = Absent] ELSE store

\* ... and whatever is left is the answer.
Findable(p) == store[p] # Absent /\ ~Stale(p)

\* isExpired(previewId), asked after find came back empty: an id that is not
\* in the store counts as expired.
ExpiredId(p) == StoreAfterFind(p)[p] = Absent \/ Stale(p)

\* Mutant: the entry is dated back by its time to live.
BackdatedEntry(n) == [storedAt |-> now - PreviewTtl, total |-> n, cached |-> TRUE]

NewEntry(n) == [storedAt |-> now, total |-> n, cached |-> TRUE]

\* resolveTargets stores every preview it returns, under a fresh id.  The
\* bound leaves room for its whole life under MaxClock.
GeneratePreview(p, n) ==
  /\ p \notin issued
  /\ now + PreviewTtl < MaxClock
  /\ issued' = issued \cup {p}
  /\ store' = [store EXCEPT ![p] = NewEntry(n)]
  /\ UNCHANGED <<now, jobs, req, exec>>

\* Mutant: the sweep removes the entries that are not stale yet.
SweepFresh == [p \in Preview |-> IF Stale(p) THEN store[p] ELSE Absent]

StoreAfterSweep == [p \in Preview |-> IF Stale(p) THEN Absent ELSE store[p]]

\* expireStaleEntries, every five minutes.
ExpireStaleEntries ==
  /\ \E p \in Preview : Stale(p)
  /\ store' = StoreAfterSweep
  /\ UNCHANGED <<now, issued, jobs, req, exec>>

-----------------------------------------------------------------------------
(* confirmExecution *)

IsExecutionAuthorized(role) == role \in {"admin", "network_engineer"}

\* Mutant: the preview is left out of the duplicate check.
SameKeyOnly(j, k, p) == k # NoKey /\ jobs[j].key = k

\* An accepted job answers a confirmation if it has both its key and its
\* preview; a confirmation without a key has no duplicates.
SameConfirmation(j, k, p) == k # NoKey /\ jobs[j].key = k /\ jobs[j].preview = p

\* A request arrives.
Submit(r, p, k, n, role) ==
  /\ req[r].at = "idle"
  /\ req' = [req EXCEPT ![r] =
       [at |-> "idempotency", preview |-> p, key |-> k, expected |-> n,
        role |-> role, existing |-> r,
        spent |-> \E s \in Request : req[s].at = "ACCEPTED" /\ req[s].preview = p,
        known |-> \E j \in Request : SameConfirmation(j, k, p)]]
  /\ UNCHANGED <<now, store, issued, jobs, exec>>

\* Steps 1 and 2: authorization, then the idempotency check over all jobs.
CheckIdempotency(r) ==
  /\ req[r].at = "idempotency"
  /\ LET Matches == {j \in Request :
                       SameConfirmation(j, req[r].key, req[r].preview)}
     IN \/ /\ ~IsExecutionAuthorized(req[r].role)
           /\ req' = [req EXCEPT ![r].at = "UNAUTHORIZED"]
        \/ /\ IsExecutionAuthorized(req[r].role)
           /\ \E j \in Matches :
                req' = [req EXCEPT ![r].at = "DUPLICATE_IDEMPOTENCY_KEY",
                                   ![r].existing = j]
        \/ /\ IsExecutionAuthorized(req[r].role)
           /\ Matches = {}
           /\ req' = [req EXCEPT ![r].at = "preview"]
  /\ UNCHANGED <<now, store, issued, jobs, exec>>

CountDiffers(a, b) == a - b > CountTolerance \/ b - a > CountTolerance

\* Steps 3 and 4: the preview is looked up and its target count compared.
CheckPreview(r) ==
  /\ req[r].at = "preview"
  /\ LET p == req[r].preview
         Answer(at) == req' = [req EXCEPT ![r].at = at]
     IN /\ store' = StoreAfterFind(p)
        /\ \/ /\ ~Findable(p)
              /\ Answer(IF ExpiredId(p) THEN "PREVIEW_EXPIRED"
                                        ELSE "PREVIEW_NOT_FOUND")
           \/ /\ Findable(p)
              /\ CountDiffers(store[p].total, req[r].expected)
              /\ Answer("TARGET_COUNT_MISMATCH")
           \/ /\ Findable(p)
              /\ ~CountDiffers(store[p].total, req[r].expected)
              /\ Answer("save")
  /\ UNCHANGED <<now, issued, jobs, exec>>

\* Step 5: the accepted job is saved ...
SaveJob(r) ==
  /\ req[r].at = "save"
  /\ jobs' = [jobs EXCEPT ![r] = [preview |-> req[r].preview,
                                  key |-> req[r].key, status |-> "ACCEPTED"]]
  /\ req' = [req EXCEPT ![r].at = "invalidate"]
  /\ UNCHANGED <<now, store, issued, exec>>

\* Mutant: the preview stays in the cache.
StoreUntouched(p) == store

\* ... and the preview is dropped "so it cannot be replayed".
StoreAfterInvalidate(p) == [store EXCEPT ![p] = Absent]

Invalidate(r) ==
  /\ req[r].at = "invalidate"
  /\ store' = StoreAfterInvalidate(req[r].preview)
  /\ req' = [req EXCEPT ![r].at = "ACCEPTED"]
  /\ UNCHANGED <<now, issued, jobs, exec>>

-----------------------------------------------------------------------------
(* executeConfirmedJob *)

LoadJob(e, j) ==
  /\ exec[e].at = "idle"
  /\ jobs[j] # NoJob
  /\ exec' = [exec EXCEPT ![e] =
       [at |-> IF jobs[j].status = "ACCEPTED" THEN "preview"
               ELSE "WRONG_STATUS",
        job |-> j]]
  /\ UNCHANGED <<now, store, issued, jobs, req>>

LoadPreview(e) ==
  /\ exec[e].at = "preview"
  /\ LET p == jobs[exec[e].job].preview
     IN /\ store' = StoreAfterFind(p)
        /\ exec' = [exec EXCEPT ![e].at =
                      IF Findable(p) THEN "start" ELSE "PREVIEW_GONE"]
  /\ UNCHANGED <<now, issued, jobs, req>>

\* The job is saved as RUNNING and handed to the DeliveryRouter.
StartJob(e) ==
  /\ exec[e].at = "start"
  /\ jobs' = [jobs EXCEPT ![exec[e].job].status = "RUNNING"]
  /\ exec' = [exec EXCEPT ![e].at = "started"]
  /\ UNCHANGED <<now, store, issued, req>>

-----------------------------------------------------------------------------
(* The environment *)

\* Bounded by MaxClock.
Tick ==
  /\ now < MaxClock
  /\ now' = now + 1
  /\ UNCHANGED <<store, issued, jobs, req, exec>>

Serving == {"idempotency", "preview", "save", "invalidate"}

\* The cache and the threads are lost, the job documents are not.
Restart ==
  /\ store' = [p \in Preview |-> Absent]
  /\ req' = [r \in Request |->
               IF req[r].at \in Serving THEN [req[r] EXCEPT !.at = "lost"]
               ELSE req[r]]
  /\ exec' = [e \in Executor |->
               IF exec[e].at \in {"preview", "start"}
               THEN [exec[e] EXCEPT !.at = "lost"] ELSE exec[e]]
  /\ UNCHANGED <<now, issued, jobs>>

Next ==
  \/ \E p \in Preview, n \in Count : GeneratePreview(p, n)
  \/ ExpireStaleEntries
  \/ \E r \in Request :
       \/ \E p \in Preview, k \in Key \cup {NoKey}, n \in Count, role \in Role :
            Submit(r, p, k, n, role)
       \/ CheckIdempotency(r)
       \/ CheckPreview(r)
       \/ SaveJob(r)
       \/ Invalidate(r)
  \/ \E e \in Executor :
       \/ \E j \in Request : LoadJob(e, j)
       \/ LoadPreview(e)
       \/ StartJob(e)
  \/ Tick
  \/ Restart

Spec == Init /\ [][Next]_vars

\* The scheduler runs the cleanup at a fixed delay and time goes on.
FairSpec == Spec /\ WF_vars(Tick) /\ WF_vars(ExpireStaleEntries)

-----------------------------------------------------------------------------
(* Properties *)

\* A confirmation sent again with the key of one that already produced a job
\* for the same preview gets that job back, whatever happened in between:
\* the preview consumed, expired or lost in a restart, other confirmations
\* under way (confirmExecution, step 2 before step 3).
RetryGetsTheSameJob ==
  \A r \in Request :
    req[r].known /\ req[r].at \in Outcome \ {"UNAUTHORIZED"}
      => /\ req[r].at = "DUPLICATE_IDEMPOTENCY_KEY"
         /\ jobs[req[r].existing].key = req[r].key
         /\ jobs[req[r].existing].preview = req[r].preview

\* Once somebody has been told that a preview was accepted, no confirmation
\* that arrives later creates another job from it.  Confirmations that
\* overlap the accepted one are not covered: two that carry the same key may
\* each create a job, for the check and the save are separate.
NoReplayAfterAccept ==
  \A r \in Request : req[r].spent => jobs[r] = NoJob

\* Every cached preview leaves memory: consumed, found stale or swept
\* (expireStaleEntries prevents unbounded memory growth).
PreviewsLeaveMemory ==
  \A p \in Preview : store[p] # Absent ~> store[p] = Absent
=============================================================================
