---------------------- MODULE ConfirmationGate_proofs ----------------------
(***************************************************************************)
(* Proofs about ConfirmationGate for every set of previews, requests and   *)
(* executors, every tolerance and every preview lifetime.                  *)
(*                                                                         *)
(* The two safety properties speak of what a request knew when it arrived. *)
(* They become inductive once it is recorded why that knowledge cannot go  *)
(* stale: a preview answered ACCEPTED has left the cache and its id is     *)
(* never handed out again (AcceptedIsConsumed), and a job document keeps   *)
(* its key and preview for ever (DuplicatesAreReal).                       *)
(***************************************************************************)
EXTENDS ConfirmationGate, TLAPS

\* Only ids that were handed out are cached or confirmed.
KnownIds ==
  /\ \A p \in Preview : store[p] # Absent => p \in issued
  /\ \A r \in Request :
       req[r].at \in {"save", "invalidate", "ACCEPTED"}
         => req[r].preview \in issued

\* A request owns its job document only from its own save on.
NoJobYet ==
  \A r \in Request :
    req[r].at \in {"idle", "idempotency", "preview", "save"} => jobs[r] = NoJob

Consumed(p) == p \in issued /\ store[p] = Absent

AcceptedIsConsumed ==
  \A r \in Request : req[r].at = "ACCEPTED" => Consumed(req[r].preview)

Hopeless(r) == /\ Consumed(req[r].preview)
               /\ req[r].at \notin {"idle", "save", "invalidate", "ACCEPTED"}
               /\ jobs[r] = NoJob

SpentIsHopeless == \A r \in Request : req[r].spent => Hopeless(r)

\* The job with r's key and preview that r should be answered with.
Twin(j, r) == SameConfirmation(j, req[r].key, req[r].preview)

HasTwin(r) == \E j \in Request : Twin(j, r)

WellAnswered(r) ==
  /\ req[r].at = "DUPLICATE_IDEMPOTENCY_KEY" => Twin(req[r].existing, r)
  /\ req[r].known =>
       /\ req[r].at \in {"idempotency", "UNAUTHORIZED", "lost",
                         "DUPLICATE_IDEMPOTENCY_KEY"}
       /\ req[r].at = "idempotency" => HasTwin(r)

DuplicatesAreReal == \A r \in Request : WellAnswered(r)

\* Execution works on documents that exist.
ExecutesRealJobs ==
  \A e \in Executor :
    exec[e].at \in {"preview", "start"} => jobs[exec[e].job] # NoJob

IInv == /\ TypeOK
        /\ KnownIds
        /\ NoJobYet
        /\ AcceptedIsConsumed
        /\ SpentIsHopeless
        /\ DuplicatesAreReal
        /\ ExecutesRealJobs

-----------------------------------------------------------------------------
\* Looking a preview up yields a well-typed cache.
LEMMA StoreShapes ==
  ASSUME TypeOK, NEW p \in Preview
  PROVE  /\ StoreAfterFind(p) \in [Preview -> Cached \cup {Absent}]
         /\ StoreAfterSweep \in [Preview -> Cached \cup {Absent}]
         /\ StoreAfterInvalidate(p) \in [Preview -> Cached \cup {Absent}]
         /\ \A q \in Preview :
              /\ StoreAfterFind(p)[q] \in {store[q], Absent}
              /\ StoreAfterSweep[q] \in {store[q], Absent}
              /\ StoreAfterInvalidate(p)[q] \in {store[q], Absent}
         /\ StoreAfterInvalidate(p)[p] = Absent
BY DEF TypeOK, StoreAfterFind, StoreAfterSweep, StoreAfterInvalidate

\* A job document is told from no document by its status.
LEMMA JobIsNotNoJob == \A j \in Job : j # NoJob
BY DEF Job, NoJob

\* Every step keeps the state well typed.
LEMMA TypeStep ==
  TypeOK /\ ExecutesRealJobs /\ [Next]_vars => TypeOK'
<1> SUFFICES ASSUME TypeOK, ExecutesRealJobs, [Next]_vars PROVE TypeOK'
  OBVIOUS
<1> USE ConfirmationAssumption DEF TypeOK
<1>1. ASSUME NEW p \in Preview, NEW n \in Count, GeneratePreview(p, n)
      PROVE  TypeOK'
  <2>1. NewEntry(n) \in Cached
    BY DEF NewEntry, Cached
  <2> QED
    BY <1>1, <2>1 DEF GeneratePreview
<1>2. ASSUME ExpireStaleEntries PROVE TypeOK'
  BY <1>2, StoreShapes DEF ExpireStaleEntries
<1>3. ASSUME NEW r \in Request, NEW p \in Preview, NEW k \in Key \cup {NoKey},
             NEW n \in Count, NEW role \in Role, Submit(r, p, k, n, role)
      PROVE  TypeOK'
  <2>1. n \in Nat
    OBVIOUS
  <2> QED
    BY <1>3, <2>1 DEF Submit, RequestState
<1>4. ASSUME NEW r \in Request, CheckIdempotency(r) PROVE TypeOK'
  BY <1>4 DEF CheckIdempotency, RequestState, Outcome
<1>5. ASSUME NEW r \in Request, CheckPreview(r) PROVE TypeOK'
  <2>1. req[r].preview \in Preview
    BY <1>5 DEF CheckPreview
  <2>2. store' \in [Preview -> Cached \cup {Absent}]
    BY <1>5, <2>1, StoreShapes DEF CheckPreview
  <2>3. \E at \in {"PREVIEW_EXPIRED", "PREVIEW_NOT_FOUND",
                   "TARGET_COUNT_MISMATCH", "save"} :
          req' = [req EXCEPT ![r].at = at]
    BY <1>5 DEF CheckPreview
  <2>4. req' \in [Request -> RequestState]
    BY <2>3 DEF RequestState, Outcome
  <2>5. \A s \in Request : req'[s].at # "idle" => req'[s].preview \in Preview
    BY <2>1, <2>3 DEF RequestState
  <2> QED
    BY <1>5, <2>2, <2>4, <2>5 DEF CheckPreview
<1>6. ASSUME NEW r \in Request, SaveJob(r) PROVE TypeOK'
  BY <1>6 DEF SaveJob, RequestState, Job
<1>7. ASSUME NEW r \in Request, Invalidate(r) PROVE TypeOK'
  <2>1. req[r].preview \in Preview
    BY <1>7 DEF Invalidate
  <2>2. store' \in [Preview -> Cached \cup {Absent}]
    BY <1>7, <2>1, StoreShapes DEF Invalidate
  <2> QED
    BY <1>7, <2>1, <2>2 DEF Invalidate, RequestState, Outcome
<1>8. ASSUME NEW e \in Executor, NEW j \in Request, LoadJob(e, j)
      PROVE  TypeOK'
  BY <1>8 DEF LoadJob, ExecState
<1>9. ASSUME NEW e \in Executor, LoadPreview(e) PROVE TypeOK'
  <2>1. jobs[exec[e].job].preview \in Preview
    BY <1>9 DEF LoadPreview, ExecutesRealJobs, ExecState, Job
  <2>2. store' \in [Preview -> Cached \cup {Absent}]
    BY <1>9, <2>1, StoreShapes DEF LoadPreview
  <2> QED
    BY <1>9, <2>2 DEF LoadPreview, ExecState
<1>10. ASSUME NEW e \in Executor, StartJob(e) PROVE TypeOK'
  <2>1. exec[e].job \in Request /\ jobs[exec[e].job] \in Job
    BY <1>10 DEF StartJob, ExecutesRealJobs, ExecState
  <2>2. jobs' \in [Request -> Job \cup {NoJob}]
    BY <1>10, <2>1 DEF StartJob, Job
  <2> QED
    BY <1>10, <2>2 DEF StartJob, ExecState
<1>11. CASE Tick
  BY <1>11 DEF Tick
<1>12. CASE Restart
  <2>1. req' \in [Request -> RequestState]
    BY <1>12 DEF Restart, RequestState
  <2>2. exec' \in [Executor -> ExecState]
    BY <1>12 DEF Restart, ExecState
  <2>3. \A r \in Request : req'[r].at # "idle" => req'[r].preview \in Preview
    BY <1>12 DEF Restart, RequestState, Serving
  <2> QED
    BY <1>12, <2>1, <2>2, <2>3 DEF Restart
<1>13. CASE UNCHANGED vars
  BY <1>13 DEF vars
<1> QED
  BY <1>1, <1>2, <1>3, <1>4, <1>5, <1>6, <1>7, <1>8, <1>9, <1>10, <1>11,
     <1>12, <1>13 DEF Next

\* Initially nothing is cached, confirmed or executed.
LEMMA InitInductive == Init => IInv
<1> SUFFICES ASSUME Init PROVE IInv
  OBVIOUS
<1> USE ConfirmationAssumption DEF Init
<1>1. TypeOK
  BY DEF TypeOK, RequestState, NoRequest, ExecState
<1>2. KnownIds /\ NoJobYet /\ AcceptedIsConsumed /\ SpentIsHopeless
  BY DEF KnownIds, NoJobYet, AcceptedIsConsumed, SpentIsHopeless, NoRequest
<1>3. DuplicatesAreReal /\ ExecutesRealJobs
  BY DEF DuplicatesAreReal, WellAnswered, ExecutesRealJobs, NoRequest
<1> QED
  BY <1>1, <1>2, <1>3 DEF IInv

-----------------------------------------------------------------------------
(* What the steps leave alone *)

\* A step of a request's own thread.
ThreadStep(r) ==
  CheckIdempotency(r) \/ CheckPreview(r) \/ SaveJob(r) \/ Invalidate(r)

\* A step changes the record of one request only, and of that only where it
\* stands and the job it was answered with.
LEMMA ThreadFrame ==
  ASSUME TypeOK, NEW r \in Request, ThreadStep(r)
  PROVE  /\ req[r].at \in Serving
         /\ \A s \in Request \ {r} : req'[s] = req[s]
         /\ req'[r].preview = req[r].preview
         /\ req'[r].key = req[r].key
         /\ req'[r].spent = req[r].spent
         /\ req'[r].known = req[r].known
         /\ UNCHANGED <<now, issued, exec>>
<1> USE DEF TypeOK, RequestState
<1>1. CASE CheckIdempotency(r)
  BY <1>1 DEF CheckIdempotency, Serving
<1>2. CASE CheckPreview(r)
  BY <1>2 DEF CheckPreview, Serving
<1>3. CASE SaveJob(r)
  BY <1>3 DEF SaveJob, Serving
<1>4. CASE Invalidate(r)
  BY <1>4 DEF Invalidate, Serving
<1> QED
  BY <1>1, <1>2, <1>3, <1>4 DEF ThreadStep

\* Job documents are never removed and keep their key and preview.
LEMMA JobsPersist ==
  ASSUME TypeOK, NoJobYet, ExecutesRealJobs, [Next]_vars, NEW j \in Request
  PROVE  jobs[j] # NoJob => /\ jobs'[j] # NoJob
                            /\ jobs'[j].key = jobs[j].key
                            /\ jobs'[j].preview = jobs[j].preview
<1> USE DEF TypeOK
<1>1. ASSUME NEW r \in Request, SaveJob(r), jobs[j] # NoJob
      PROVE  jobs'[j] = jobs[j]
  BY <1>1 DEF SaveJob, NoJobYet
<1>2. ASSUME NEW e \in Executor, StartJob(e), jobs[j] # NoJob
      PROVE  /\ jobs'[j] \in Job
             /\ jobs'[j].key = jobs[j].key
             /\ jobs'[j].preview = jobs[j].preview
  <2>1. jobs[j] \in Job
    BY <1>2
  <2>2. exec[e].job \in Request
    BY <1>2 DEF ExecState
  <2>3. jobs'[j] \in {jobs[j], [jobs[j] EXCEPT !.status = "RUNNING"]}
    BY <1>2, <2>2 DEF StartJob
  <2> QED
    BY <2>1, <2>3 DEF Job
<1>3. ASSUME jobs' = jobs
      PROVE  jobs'[j] = jobs[j]
  BY <1>3
<1> QED
  BY <1>1, <1>2, <1>3, JobIsNotNoJob
     DEF Next, vars, GeneratePreview, ExpireStaleEntries, Submit,
         CheckIdempotency, CheckPreview, Invalidate, LoadJob, LoadPreview,
         Tick, Restart

\* A preview that was consumed stays consumed: its id is never issued again.
LEMMA ConsumedForever ==
  ASSUME TypeOK, KnownIds, ExecutesRealJobs, [Next]_vars,
         NEW p \in Preview, Consumed(p)
  PROVE  Consumed(p)'
<1> USE DEF TypeOK, Consumed
<1>1. ASSUME NEW q \in Preview, NEW n \in Count, GeneratePreview(q, n)
      PROVE  Consumed(p)'
  BY <1>1 DEF GeneratePreview
<1>2. CASE ExpireStaleEntries
  BY <1>2, StoreShapes DEF ExpireStaleEntries
<1>3. ASSUME NEW r \in Request, CheckPreview(r) PROVE Consumed(p)'
  BY <1>3 DEF CheckPreview, StoreAfterFind
<1>4. ASSUME NEW r \in Request, Invalidate(r) PROVE Consumed(p)'
  BY <1>4 DEF Invalidate, StoreAfterInvalidate
<1>5. ASSUME NEW e \in Executor, LoadPreview(e) PROVE Consumed(p)'
  BY <1>5 DEF LoadPreview, StoreAfterFind
<1>6. CASE Restart
  BY <1>6 DEF Restart
<1>7. ASSUME store' = store, issued' = issued PROVE Consumed(p)'
  BY <1>7
<1> QED
  BY <1>1, <1>2, <1>3, <1>4, <1>5, <1>6, <1>7
     DEF Next, vars, Submit, CheckIdempotency, SaveJob, LoadJob, StartJob, Tick

\* The steps, by what they do to the requests.
LEMMA StepKinds ==
  ASSUME [Next]_vars
  PROVE  \/ \E r \in Request, p \in Preview, k \in Key \cup {NoKey},
               n \in Count, role \in Role : Submit(r, p, k, n, role)
         \/ \E r \in Request : ThreadStep(r)
         \/ Restart
         \/ UNCHANGED req /\ ~Restart
BY DEF Next, vars, ThreadStep, GeneratePreview, ExpireStaleEntries, LoadJob,
       LoadPreview, StartJob, Tick

-----------------------------------------------------------------------------
(* The invariant is inductive *)

LEMMA KnownIdsStep == IInv /\ [Next]_vars => KnownIds'
<1> SUFFICES ASSUME IInv, [Next]_vars PROVE KnownIds'
  OBVIOUS
<1> USE DEF IInv
<1>1. issued \subseteq issued'
  BY DEF Next, vars, GeneratePreview, ExpireStaleEntries, Submit,
         CheckIdempotency, CheckPreview, SaveJob, Invalidate, LoadJob,
         LoadPreview, StartJob, Tick, Restart
<1>2. ASSUME NEW p \in Preview, store'[p] # Absent PROVE p \in issued'
  <2>1. CASE p \in issued
    BY <1>1, <2>1
  <2>2. CASE p \notin issued
    <3>1. store[p] = Absent
      BY <2>2 DEF KnownIds
    <3>2. ASSUME NEW q \in Preview, NEW n \in Count, GeneratePreview(q, n)
          PROVE  p \in issued'
      BY <1>2, <3>1, <3>2 DEF GeneratePreview, TypeOK
    <3>3. ASSUME ExpireStaleEntries PROVE FALSE
      BY <1>2, <3>1, <3>3, StoreShapes DEF ExpireStaleEntries
    <3>4. ASSUME NEW r \in Request, CheckPreview(r) PROVE FALSE
      BY <1>2, <3>1, <3>4 DEF CheckPreview, StoreAfterFind, TypeOK
    <3>5. ASSUME NEW r \in Request, Invalidate(r) PROVE FALSE
      BY <1>2, <3>1, <3>5 DEF Invalidate, StoreAfterInvalidate, TypeOK
    <3>6. ASSUME NEW e \in Executor, LoadPreview(e) PROVE FALSE
      BY <1>2, <3>1, <3>6 DEF LoadPreview, StoreAfterFind, TypeOK
    <3>7. ASSUME store' = store PROVE FALSE
      BY <1>2, <3>1, <3>7
    <3> QED
      BY <1>2, <3>2, <3>3, <3>4, <3>5, <3>6, <3>7
         DEF Next, vars, Submit, CheckIdempotency, SaveJob, LoadJob, StartJob,
             Tick, Restart
  <2> QED
    BY <2>1, <2>2
<1>3. ASSUME NEW r \in Request,
             req'[r].at \in {"save", "invalidate", "ACCEPTED"}
      PROVE  req'[r].preview \in issued'
  <2>1. ASSUME NEW t \in Request, ThreadStep(t) PROVE req'[r].preview \in issued
    <3>1. CASE t # r
      BY <1>3, <2>1, <3>1, ThreadFrame DEF KnownIds
    <3>2. CASE t = r /\ CheckPreview(r)
      BY <1>3, <3>2 DEF CheckPreview, Findable, KnownIds, TypeOK, RequestState
    <3>3. CASE t = r /\ (SaveJob(r) \/ Invalidate(r))
      BY <3>3 DEF SaveJob, Invalidate, KnownIds, TypeOK, RequestState
    <3>4. CASE t = r /\ CheckIdempotency(r)
      BY <1>3, <3>4 DEF CheckIdempotency, TypeOK, RequestState
    <3> QED
      BY <2>1, <3>1, <3>2, <3>3, <3>4 DEF ThreadStep
  <2>2. ASSUME NEW t \in Request, NEW p \in Preview, NEW k \in Key \cup {NoKey},
               NEW n \in Count, NEW role \in Role, Submit(t, p, k, n, role)
        PROVE  req'[r].preview \in issued
    BY <1>3, <2>2 DEF Submit, KnownIds, TypeOK
  <2>3. CASE Restart
    BY <1>3, <2>3 DEF Restart, KnownIds, TypeOK, RequestState
  <2>4. CASE UNCHANGED req
    BY <1>1, <1>3, <2>4 DEF KnownIds
  <2> QED
    BY <1>1, <2>1, <2>2, <2>3, <2>4, StepKinds
<1> QED
  BY <1>2, <1>3 DEF KnownIds

LEMMA NoJobYetStep == IInv /\ [Next]_vars => NoJobYet'
<1> SUFFICES ASSUME IInv, [Next]_vars, NEW r \in Request,
                    req'[r].at \in {"idle", "idempotency", "preview", "save"}
             PROVE  jobs'[r] = NoJob
  BY DEF NoJobYet
<1> USE DEF IInv
<1>1. req[r].at \in {"idle", "idempotency", "preview", "save"}
  <2>1. ASSUME NEW t \in Request, ThreadStep(t)
        PROVE  req[r].at \in {"idle", "idempotency", "preview", "save"}
    BY <2>1, ThreadFrame DEF ThreadStep, CheckIdempotency, CheckPreview, SaveJob,
                             Invalidate, TypeOK, RequestState
  <2>2. ASSUME NEW t \in Request, NEW p \in Preview, NEW k \in Key \cup {NoKey},
               NEW n \in Count, NEW role \in Role, Submit(t, p, k, n, role)
        PROVE  req[r].at \in {"idle", "idempotency", "preview", "save"}
    BY <2>2 DEF Submit, TypeOK
  <2>3. CASE Restart
    BY <2>3 DEF Restart, TypeOK, RequestState
  <2> QED
    BY <2>1, <2>2, <2>3, StepKinds
<1>2. jobs[r] = NoJob
  BY <1>1 DEF NoJobYet
<1>3. ASSUME NEW t \in Request, SaveJob(t) PROVE jobs'[r] = NoJob
  BY <1>2, <1>3 DEF SaveJob, TypeOK, RequestState
<1>4. ASSUME NEW e \in Executor, StartJob(e) PROVE jobs'[r] = NoJob
  BY <1>2, <1>4 DEF StartJob, TypeOK, ExecState, ExecutesRealJobs
<1>5. ASSUME jobs' = jobs PROVE jobs'[r] = NoJob
  BY <1>2, <1>5
<1> QED
  BY <1>3, <1>4, <1>5
     DEF Next, vars, GeneratePreview, ExpireStaleEntries, Submit,
         CheckIdempotency, CheckPreview, Invalidate, LoadJob, LoadPreview,
         Tick, Restart

LEMMA AcceptedIsConsumedStep == IInv /\ [Next]_vars => AcceptedIsConsumed'
<1> SUFFICES ASSUME IInv, [Next]_vars, NEW r \in Request,
                    req'[r].at = "ACCEPTED"
             PROVE  Consumed(req[r].preview)' /\ req'[r].preview = req[r].preview
  BY DEF AcceptedIsConsumed, Consumed
<1> USE DEF IInv
<1>1. CASE req[r].at = "ACCEPTED" /\ req'[r] = req[r]
  <2>1. req[r].preview \in Preview
    BY <1>1 DEF TypeOK
  <2> QED
    BY <1>1, <2>1, ConsumedForever DEF AcceptedIsConsumed, Consumed
<1>2. CASE Invalidate(r)
  <2>1. req[r].preview \in Preview /\ req[r].preview \in issued
    BY <1>2 DEF Invalidate, KnownIds, TypeOK
  <2> QED
    BY <1>2, <2>1, StoreShapes DEF Invalidate, Consumed, TypeOK, RequestState
<1>3. Invalidate(r) \/ (req[r].at = "ACCEPTED" /\ req'[r] = req[r])
  <2>1. ASSUME NEW t \in Request, ThreadStep(t), ~Invalidate(r)
        PROVE  req[r].at = "ACCEPTED" /\ req'[r] = req[r]
    BY <2>1, ThreadFrame DEF ThreadStep, CheckIdempotency, CheckPreview, SaveJob,
                             Serving, TypeOK, RequestState
  <2>2. ASSUME NEW t \in Request, NEW p \in Preview, NEW k \in Key \cup {NoKey},
               NEW n \in Count, NEW role \in Role, Submit(t, p, k, n, role)
        PROVE  req[r].at = "ACCEPTED" /\ req'[r] = req[r]
    BY <2>2 DEF Submit, TypeOK
  <2>3. CASE Restart
    BY <2>3 DEF Restart, TypeOK, RequestState
  <2> QED
    BY <2>1, <2>2, <2>3, StepKinds
<1> QED
  BY <1>1, <1>2, <1>3

LEMMA SpentIsHopelessStep == IInv /\ [Next]_vars => SpentIsHopeless'
<1> SUFFICES ASSUME IInv, [Next]_vars, NEW r \in Request, req'[r].spent
             PROVE  Hopeless(r)'
  BY DEF SpentIsHopeless
<1> USE DEF IInv
<1>1. req[r].spent => req[r].preview \in Preview /\ Hopeless(r)
  BY DEF SpentIsHopeless, Hopeless, TypeOK
<1>2. ASSUME Hopeless(r) PROVE jobs'[r] = NoJob
  <2>1. ASSUME NEW t \in Request, SaveJob(t) PROVE jobs'[r] = NoJob
    BY <1>2, <2>1 DEF SaveJob, TypeOK, Hopeless
  <2>2. ASSUME NEW e \in Executor, StartJob(e) PROVE jobs'[r] = NoJob
    BY <1>2, <2>2 DEF StartJob, TypeOK, ExecState, ExecutesRealJobs, Hopeless
  <2>3. ASSUME jobs' = jobs PROVE jobs'[r] = NoJob
    BY <1>2, <2>3 DEF Hopeless
  <2> QED
    BY <2>1, <2>2, <2>3
       DEF Next, vars, GeneratePreview, ExpireStaleEntries, Submit,
           CheckIdempotency, CheckPreview, Invalidate, LoadJob, LoadPreview,
           Tick, Restart
\* A spent request stays so unless its own step saves a job.
<1>3. ASSUME req[r].spent, req'[r].preview = req[r].preview,
             req'[r].at \notin {"idle", "save", "invalidate", "ACCEPTED"}
      PROVE  Hopeless(r)'
  <2>1. Hopeless(r)
    BY <1>1, <1>3
  <2>2. PICK p \in Preview : p = req[r].preview /\ Consumed(p)
    BY <1>1, <1>3 DEF Hopeless
  <2>3. Consumed(p)'
    BY <2>2, ConsumedForever
  <2>4. Consumed(req[r].preview)'
    BY <1>3, <2>2, <2>3 DEF Consumed
  <2> QED
    BY <1>2, <1>3, <2>1, <2>4 DEF Hopeless
<1>4. ASSUME NEW p \in Preview, NEW k \in Key \cup {NoKey},
             NEW n \in Count, NEW role \in Role, Submit(r, p, k, n, role)
      PROVE  Hopeless(r)'
  <2>1. PICK s \in Request : req[s].at = "ACCEPTED" /\ req[s].preview = p
    BY <1>4 DEF Submit, TypeOK
  <2>2. Consumed(p)
    BY <2>1 DEF AcceptedIsConsumed
  <2>3. jobs[r] = NoJob
    BY <1>4 DEF Submit, NoJobYet
  <2> QED
    BY <1>4, <2>2, <2>3 DEF Submit, Consumed, TypeOK, Hopeless
<1>5. ASSUME NEW t \in Request, ThreadStep(t) PROVE Hopeless(r)'
  <2>1. req[r].spent /\ req'[r].preview = req[r].preview
    BY <1>5, ThreadFrame
  <2>2. CASE t # r
    BY <1>1, <1>3, <1>5, <2>1, <2>2, ThreadFrame DEF Hopeless
  <2>3. CASE t = r /\ CheckIdempotency(r)
    <3>1. req'[r].at \in {"UNAUTHORIZED", "DUPLICATE_IDEMPOTENCY_KEY", "preview"}
      BY <2>3 DEF CheckIdempotency, TypeOK, RequestState
    <3> QED
      BY <1>3, <2>1, <3>1
  <2>4. CASE t = r /\ CheckPreview(r)
    <3>1. ~Findable(req[r].preview)
      BY <1>1, <2>1 DEF Consumed, Findable, Hopeless
    <3>2. req'[r].at \in {"PREVIEW_EXPIRED", "PREVIEW_NOT_FOUND"}
      BY <2>4, <3>1 DEF CheckPreview, TypeOK, RequestState
    <3> QED
      BY <1>3, <2>1, <3>2
  <2>5. CASE t = r /\ (SaveJob(r) \/ Invalidate(r))
    BY <1>1, <2>1, <2>5 DEF SaveJob, Invalidate, Hopeless
  <2> QED
    BY <1>5, <2>2, <2>3, <2>4, <2>5 DEF ThreadStep
<1>6. CASE req'[r] = req[r]
  BY <1>1, <1>3, <1>6 DEF Hopeless
<1>7. CASE Restart
  <2>1. \/ req'[r] = req[r]
        \/ req'[r] = [req[r] EXCEPT !.at = "lost"]
    BY <1>7 DEF Restart
  <2>2. req[r] \in RequestState
    BY DEF TypeOK
  <2>3. ASSUME req'[r] = [req[r] EXCEPT !.at = "lost"] PROVE Hopeless(r)'
    BY <1>3, <2>2, <2>3 DEF RequestState
  <2> QED
    BY <1>6, <2>1, <2>3
<1>8. ASSUME NEW t \in Request, NEW p \in Preview,
             NEW k \in Key \cup {NoKey}, NEW n \in Count, NEW role \in Role,
             Submit(t, p, k, n, role), t # r
      PROVE  req'[r] = req[r]
  BY <1>8 DEF Submit, TypeOK
<1> QED
  BY <1>4, <1>5, <1>6, <1>7, <1>8, StepKinds

LEMMA DuplicatesAreRealStep == IInv /\ [Next]_vars => DuplicatesAreReal'
<1> SUFFICES ASSUME IInv, [Next]_vars, NEW r \in Request
             PROVE  WellAnswered(r)'
  BY DEF DuplicatesAreReal
<1> USE DEF IInv
<1>1. WellAnswered(r)
  BY DEF DuplicatesAreReal
\* A twin of r stays one as long as r's own request stays the same.
<1>2. ASSUME NEW j \in Request, Twin(j, r),
             req'[r].key = req[r].key, req'[r].preview = req[r].preview
      PROVE  Twin(j, r)'
  <2>1. jobs[j] # NoJob
    BY <1>2 DEF Twin, SameConfirmation, NoJob
  <2>2. jobs'[j].key = jobs[j].key /\ jobs'[j].preview = jobs[j].preview
    BY <2>1, JobsPersist
  <2> QED
    BY <1>2, <2>2 DEF Twin, SameConfirmation
<1>3. ASSUME NEW p \in Preview, NEW k \in Key \cup {NoKey},
             NEW n \in Count, NEW role \in Role, Submit(r, p, k, n, role)
      PROVE  WellAnswered(r)'
  <2>1. /\ req'[r].at = "idempotency"
        /\ req'[r].key = k /\ req'[r].preview = p
        /\ req'[r].known => \E j \in Request : SameConfirmation(j, k, p)
        /\ jobs' = jobs
    BY <1>3 DEF Submit, TypeOK
  <2> QED
    BY <2>1 DEF WellAnswered, HasTwin, Twin, SameConfirmation
<1>4. CASE CheckIdempotency(r)
  <2>1. /\ req'[r].key = req[r].key /\ req'[r].preview = req[r].preview
        /\ req'[r].known = req[r].known
    BY <1>4, ThreadFrame DEF ThreadStep
  <2>2. req[r].known => HasTwin(r)
    BY <1>1, <1>4 DEF CheckIdempotency, WellAnswered
  <2>3. CASE req'[r].at = "UNAUTHORIZED"
    BY <2>3 DEF WellAnswered
  <2>4. CASE req'[r].at = "preview" /\ ~HasTwin(r)
    BY <2>1, <2>2, <2>4 DEF WellAnswered
  <2>5. ASSUME NEW j \in Request, Twin(j, r), req'[r].existing = j,
               req'[r].at = "DUPLICATE_IDEMPOTENCY_KEY"
        PROVE  WellAnswered(r)'
    <3>1. Twin(j, r)'
      BY <1>2, <2>1, <2>5
    <3> QED
      BY <2>5, <3>1 DEF WellAnswered, Twin
  <2> QED
    BY <1>4, <2>3, <2>4, <2>5
       DEF CheckIdempotency, HasTwin, Twin, TypeOK, RequestState
<1>5. ASSUME CheckPreview(r) \/ SaveJob(r) \/ Invalidate(r)
      PROVE  WellAnswered(r)'
  <2>1. req'[r].known = req[r].known
    BY <1>5, ThreadFrame DEF ThreadStep
  <2>2. ~req[r].known
    BY <1>1, <1>5 DEF CheckPreview, SaveJob, Invalidate, WellAnswered
  <2>3. req'[r].at # "DUPLICATE_IDEMPOTENCY_KEY"
    BY <1>5 DEF CheckPreview, SaveJob, Invalidate, TypeOK, RequestState
  <2> QED
    BY <2>1, <2>2, <2>3 DEF WellAnswered
<1>6. CASE req'[r] = req[r]
  <2>1. HasTwin(r) => HasTwin(r)'
    BY <1>2, <1>6 DEF HasTwin
  <2>2. PICK j \in Request : j = req[r].existing
    BY DEF TypeOK, RequestState
  <2>3. Twin(j, r) => Twin(j, r)'
    BY <1>2, <1>6
  <2>4. Twin(req[r].existing, r) => Twin(req[r].existing, r)'
    BY <1>6, <2>2, <2>3 DEF Twin
  <2> QED
    BY <1>1, <1>6, <2>1, <2>4 DEF WellAnswered
<1>7. CASE Restart
  <2>1. \/ req'[r] = req[r]
        \/ req'[r] = [req[r] EXCEPT !.at = "lost"]
    BY <1>7 DEF Restart
  <2>2. req[r] \in RequestState
    BY DEF TypeOK
  <2>3. ASSUME req'[r] = [req[r] EXCEPT !.at = "lost"] PROVE WellAnswered(r)'
    BY <2>2, <2>3 DEF RequestState, WellAnswered
  <2> QED
    BY <1>6, <2>1, <2>3
<1>8. ASSUME NEW t \in Request, t # r, ThreadStep(t) PROVE req'[r] = req[r]
  BY <1>8, ThreadFrame
<1>9. ASSUME NEW t \in Request, t # r, NEW p \in Preview,
             NEW k \in Key \cup {NoKey}, NEW n \in Count, NEW role \in Role,
             Submit(t, p, k, n, role)
      PROVE  req'[r] = req[r]
  BY <1>9 DEF Submit, TypeOK
<1>10. ASSUME ThreadStep(r) PROVE WellAnswered(r)'
  BY <1>4, <1>5, <1>10 DEF ThreadStep
<1> QED
  BY <1>3, <1>6, <1>7, <1>8, <1>9, <1>10, StepKinds

LEMMA ExecutesRealJobsStep == IInv /\ [Next]_vars => ExecutesRealJobs'
<1> SUFFICES ASSUME IInv, [Next]_vars, NEW e \in Executor,
                    exec'[e].at \in {"preview", "start"}
             PROVE  jobs'[exec'[e].job] # NoJob
  BY DEF ExecutesRealJobs
<1> USE DEF IInv
\* Either e had loaded that document before, or it loads it now.
<1>1. /\ exec'[e].job \in Request
      /\ jobs[exec'[e].job] # NoJob
  <2>1. exec[e] \in ExecState
    BY DEF TypeOK
  <2>2. ASSUME NEW f \in Executor, NEW j \in Request, LoadJob(f, j)
        PROVE  exec'[e].job \in Request /\ jobs[exec'[e].job] # NoJob
    BY <2>1, <2>2 DEF LoadJob, TypeOK, ExecutesRealJobs, ExecState
  <2>3. ASSUME NEW f \in Executor, LoadPreview(f)
        PROVE  exec'[e].job \in Request /\ jobs[exec'[e].job] # NoJob
    BY <2>1, <2>3 DEF LoadPreview, TypeOK, ExecutesRealJobs, ExecState
  <2>4. ASSUME NEW f \in Executor, StartJob(f)
        PROVE  exec'[e].job \in Request /\ jobs[exec'[e].job] # NoJob
    BY <2>1, <2>4 DEF StartJob, TypeOK, ExecutesRealJobs, ExecState
  <2>5. CASE Restart
    BY <2>1, <2>5 DEF Restart, TypeOK, ExecutesRealJobs, ExecState
  <2>6. CASE UNCHANGED exec
    BY <2>1, <2>6 DEF ExecutesRealJobs, ExecState
  <2> QED
    BY <2>2, <2>3, <2>4, <2>5, <2>6
       DEF Next, vars, GeneratePreview, ExpireStaleEntries, Submit,
           CheckIdempotency, CheckPreview, SaveJob, Invalidate, Tick
<1> QED
  BY <1>1, JobsPersist

\* A job document has the preview its request was sent with.
JobsNameTheirPreview ==
  \A r \in Request : jobs[r] # NoJob => jobs[r].preview = req[r].preview

LEMMA JobsNameTheirPreviewStep ==
  IInv /\ JobsNameTheirPreview /\ [Next]_vars => JobsNameTheirPreview'
<1> SUFFICES ASSUME IInv, JobsNameTheirPreview, [Next]_vars,
                    NEW r \in Request, jobs'[r] # NoJob
             PROVE  jobs'[r].preview = req'[r].preview
  BY DEF JobsNameTheirPreview
<1>1. TypeOK /\ NoJobYet /\ ExecutesRealJobs
  BY DEF IInv
<1>2. CASE jobs[r] = NoJob
  <2>1. SaveJob(r)
    <3>1. ASSUME NEW e \in Executor, StartJob(e) PROVE FALSE
      <4>1. exec[e].job \in Request /\ jobs[exec[e].job] # NoJob
        BY <1>1, <3>1 DEF StartJob, ExecutesRealJobs, TypeOK, ExecState
      <4>2. jobs'[r] = jobs[r]
        BY <1>1, <1>2, <3>1, <4>1 DEF StartJob, TypeOK
      <4> QED
        BY <1>2, <4>2
    <3>2. ASSUME NEW t \in Request, SaveJob(t) PROVE t = r
      BY <1>1, <1>2, <3>2 DEF SaveJob, TypeOK
    <3>3. jobs' # jobs
      BY <1>2
    <3> QED
      BY <3>1, <3>2, <3>3
         DEF Next, vars, GeneratePreview, ExpireStaleEntries, Submit,
             CheckIdempotency, CheckPreview, Invalidate, LoadJob, LoadPreview,
             Tick, Restart
  <2> QED
    BY <1>1, <2>1 DEF SaveJob, TypeOK, RequestState
<1>3. CASE jobs[r] # NoJob
  <2>1. jobs'[r].preview = req[r].preview
    BY <1>1, <1>3, JobsPersist DEF JobsNameTheirPreview
  <2>2. ASSUME NEW t \in Request, NEW p \in Preview, NEW k \in Key \cup {NoKey},
               NEW n \in Count, NEW role \in Role, Submit(t, p, k, n, role)
        PROVE  req'[r] = req[r]
    BY <1>1, <1>3, <2>2 DEF Submit, NoJobYet, TypeOK
  <2>3. ASSUME NEW t \in Request, ThreadStep(t)
        PROVE  req'[r].preview = req[r].preview
    <3>1. CASE t # r
      BY <1>1, <2>3, <3>1, ThreadFrame
    <3>2. CASE t = r
      BY <1>1, <2>3, <3>2, ThreadFrame
    <3> QED
      BY <3>1, <3>2
  <2>4. ASSUME Restart PROVE req'[r].preview = req[r].preview
    <3>1. req[r] \in RequestState
      BY <1>1 DEF TypeOK
    <3>2. req'[r] \in {req[r], [req[r] EXCEPT !.at = "lost"]}
      BY <2>4 DEF Restart
    <3> QED
      BY <3>1, <3>2 DEF RequestState
  <2> QED
    BY <2>1, <2>2, <2>3, <2>4, StepKinds
<1> QED
  BY <1>2, <1>3

\* The strengthened invariant holds in every reachable state.
LEMMA Invariant == Spec => []IInv
<1>1. Init => IInv
  BY InitInductive
<1>2. IInv /\ [Next]_vars => IInv'
  <2> SUFFICES ASSUME IInv, [Next]_vars PROVE IInv'
    OBVIOUS
  <2>1. TypeOK /\ ExecutesRealJobs
    BY DEF IInv
  <2> QED
    BY <2>1, TypeStep, KnownIdsStep, NoJobYetStep, AcceptedIsConsumedStep,
       SpentIsHopelessStep, DuplicatesAreRealStep, ExecutesRealJobsStep
       DEF IInv
<1> QED
  BY <1>1, <1>2, PTL DEF Spec

-----------------------------------------------------------------------------
(* Theorems *)

\* The state of the gate is always well typed: in particular a job document
\* always names the preview it was created from.
THEOREM TypeCorrect == Spec => []TypeOK
<1>1. IInv => TypeOK
  BY DEF IInv
<1> QED
  BY <1>1, Invariant, PTL

\* A confirmation sent again with the key and preview of an existing job is
\* answered with such a job, whatever happened to the preview since then
\* (confirmExecution checks idempotency before it looks for the preview).
THEOREM RetriesAreAnswered == Spec => []RetryGetsTheSameJob
<1>1. IInv => RetryGetsTheSameJob
  <2> SUFFICES ASSUME IInv, NEW r \in Request, req[r].known,
                      req[r].at \in Outcome \ {"UNAUTHORIZED"}
               PROVE  /\ req[r].at = "DUPLICATE_IDEMPOTENCY_KEY"
                      /\ jobs[req[r].existing].key = req[r].key
                      /\ jobs[req[r].existing].preview = req[r].preview
    BY DEF RetryGetsTheSameJob
  <2>1. WellAnswered(r)
    BY DEF IInv, DuplicatesAreReal
  <2> QED
    BY <2>1 DEF WellAnswered, Twin, SameConfirmation, Outcome
<1> QED
  BY <1>1, Invariant, PTL

\* Once a confirmation of a preview has been answered ACCEPTED, no later
\* confirmation creates a job from that preview (one-time use).
THEOREM NoReplay == Spec => []NoReplayAfterAccept
<1>1. IInv => NoReplayAfterAccept
  BY DEF IInv, NoReplayAfterAccept, SpentIsHopeless, Hopeless
<1> QED
  BY <1>1, Invariant, PTL

\* A preview that has left the store, consumed, expired or lost in a restart,
\* is never found again, so neither confirmations nor executions can use it
\* (ids are never issued twice).
THEOREM ConsumedIsGone ==
  Spec => [][\A p \in Preview : Consumed(p) => Consumed(p)']_vars
<1>1. IInv /\ [Next]_vars
        => [\A p \in Preview : Consumed(p) => Consumed(p)']_vars
  BY ConsumedForever DEF IInv
<1> QED
  BY <1>1, Invariant, PTL DEF Spec

\* No execution finds the preview of a job whose confirmation has been
\* answered ACCEPTED: executeConfirmedJob looks for what confirmExecution has
\* dropped.  Only an execution that looked before the answer goes on.
THEOREM AcceptedIsTooLate ==
  Spec => [][\A e \in Executor :
               exec[e].at = "preview" /\ exec'[e].at = "start"
                 => req[exec[e].job].at # "ACCEPTED"]_vars
<1>1. Init => JobsNameTheirPreview
  BY DEF Init, JobsNameTheirPreview
<1>2. IInv /\ JobsNameTheirPreview /\ [Next]_vars
        => [\A e \in Executor :
              exec[e].at = "preview" /\ exec'[e].at = "start"
                => req[exec[e].job].at # "ACCEPTED"]_vars
  <2> SUFFICES ASSUME IInv, JobsNameTheirPreview, [Next]_vars,
                      NEW e \in Executor, exec[e].at = "preview",
                      exec'[e].at = "start",
                      req[exec[e].job].at = "ACCEPTED"
               PROVE  FALSE
    OBVIOUS
  <2>1. TypeOK /\ AcceptedIsConsumed /\ ExecutesRealJobs
    BY DEF IInv
  <2>2. LoadPreview(e)
    <3>1. ASSUME NEW x \in Executor, x # e,
                 LoadPreview(x) \/ StartJob(x) \/ \E j \in Request : LoadJob(x, j)
          PROVE  FALSE
      BY <2>1, <3>1 DEF LoadPreview, StartJob, LoadJob, TypeOK
    <3>2. ~StartJob(e) /\ \A j \in Request : ~LoadJob(e, j)
      BY DEF StartJob, LoadJob
    <3>3. ~Restart
      BY <2>1 DEF Restart, TypeOK, ExecState
    <3>4. exec' # exec
      OBVIOUS
    <3> QED
      BY <3>1, <3>2, <3>3, <3>4
         DEF Next, vars, GeneratePreview, ExpireStaleEntries, Submit,
             CheckIdempotency, CheckPreview, SaveJob, Invalidate, Tick
  <2>3. exec[e].job \in Request /\ jobs[exec[e].job] # NoJob
    BY <2>1 DEF ExecutesRealJobs, TypeOK, ExecState
  <2>4. store[jobs[exec[e].job].preview] = Absent
    BY <2>1, <2>3 DEF AcceptedIsConsumed, Consumed, JobsNameTheirPreview
  <2>5. Findable(jobs[exec[e].job].preview)
    BY <2>1, <2>2 DEF LoadPreview, TypeOK, ExecState
  <2> QED
    BY <2>4, <2>5 DEF Findable
<1> QED
  BY <1>1, <1>2, Invariant, JobsNameTheirPreviewStep, PTL DEF Spec
=============================================================================
