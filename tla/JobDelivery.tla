----------------------------- MODULE JobDelivery -----------------------------
(***************************************************************************)
(* One multi-device job on its way to the devices.  A thread of            *)
(* config-service routes the targets one after the other, for a bulk push  *)
(* (ConfigService.bulkPush) or a confirmed or rollback job                 *)
(* (DeliveryRouter.executeJob), and publishes push messages to Kafka;      *)
(* config-push-worker consumes them (main.py, worker.py) while the routing *)
(* is still going on.                                                      *)
(*                                                                         *)
(* Both sides write the job's document: the worker one field at a time,    *)
(* config-service only at the end and as a whole, from the copy it has had *)
(* in memory since the beginning.  Kafka hands a message out again if the  *)
(* worker dies before it has committed the offset.                         *)
(*                                                                         *)
(* Publishing is asynchronous: kafkaTemplate.send() returns when the       *)
(* message is in the producer's buffer, and nobody looks at the future it  *)
(* returns.  The message reaches the log later, or never.                  *)
(***************************************************************************)
EXTENDS PushConsumer, FiniteSets

CONSTANT MaxUnsupported  \* bound, for model checking only

\* The devices are the targets of the job.
ASSUME DeliveryAssumption == IsFiniteSet(Device) /\ MaxUnsupported \in Nat

VARIABLES kind,      \* "bulk" or "routed"
          lossy,     \* may sends fail, at once or later
          total,     \* totalDevices, fixed when the job is created
          doc,       \* the job document in MongoDB
          mem,       \* the copy of the thread that routes the job
          todo,      \* the targets it has still to route
          routing,   \* is that thread still at work
          queued,    \* the targets with a pending command
          inFlight,  \* the targets whose message is in the producer's buffer
          lost       \* those whose message was dropped there (history)

jobVars == <<kind, lossy, total, doc, mem, todo, routing, topic, queued,
             inFlight, lost, pos, committed, worker, pushes, crashes, aborts>>

\* perDeviceStatus, as the service and as the worker write it.
RouteState == {"BLOCKED", "WITHHELD", "PUBLISHED", "QUEUED", "FAILED",
               "UNSUPPORTED"}
WorkerResult == {"SUCCESS", "FAILURE", "TIMEOUT"}

JobDoc == [status : {"RUNNING", "RUNNING_QUEUED", "PARTIAL", "COMPLETED"},
           perDevice : [Device -> RouteState \cup WorkerResult
                                  \cup {"none", "PENDING"}],
           delivery : [Device -> RouteState \cup {"none"}],
           success : Nat, failure : Nat, queued : Nat]

\* A confirmed job lists its targets as pending (a rollback job its one as
\* ROLLBACK_PENDING), a bulk job lists none.
NewJob(k) ==
  [status |-> "RUNNING",
   perDevice |-> [d \in Device |-> IF k = "bulk" THEN "none" ELSE "PENDING"],
   delivery |-> [d \in Device |-> "none"],
   success |-> 0, failure |-> 0, queued |-> 0]

\* Legacy messages carry no protocolOrder and get one protocol, routed ones
\* carry two.
Protocols(k) == IF k = "bulk" THEN 1 ELSE 2

\* protocols: how many are left to try; result: what is to be recorded.
PushState == [at : {"idle", "pushing", "recording", "committing"},
              dev : Device, protocols : 0..2, result : WorkerResult]

NoPush(d) == [at |-> "idle", dev |-> d, protocols |-> 0, result |-> "FAILURE"]

\* A bulk job counts its list.  A confirmed one counts all that the preview
\* found, and of these the devices that do not support the operation are no
\* targets (resolveTargets).
Totals(k) ==
  LET targets == Cardinality(Device)
  IN  IF k = "bulk" THEN {targets} ELSE targets .. targets + MaxUnsupported

JobTypeOK ==
  /\ kind \in {"bulk", "routed"}
  /\ lossy \in BOOLEAN
  /\ total \in Totals(kind)
  /\ doc \in JobDoc
  /\ mem \in JobDoc
  /\ todo \in SUBSET Device
  /\ routing \in BOOLEAN
  /\ topic \in Seq(Device)
  /\ queued \in SUBSET Device
  /\ inFlight \in SUBSET Device
  /\ lost \in SUBSET Device
  /\ ConsumerTypeOK
  /\ worker \in PushState
  /\ worker.at # "idle" => worker.protocols \in 1..Protocols(kind)
  /\ pushes \in [Device -> Nat]

\* The job was saved as RUNNING, with nothing routed yet.
JobInit ==
  /\ kind \in {"bulk", "routed"}
  /\ lossy \in BOOLEAN
  /\ total \in Totals(kind)
  /\ doc = NewJob(kind)
  /\ mem = NewJob(kind)
  /\ todo = Device
  /\ routing = TRUE
  /\ ConsumerInit
  /\ queued = {}
  /\ inFlight = {}
  /\ lost = {}
  /\ \E d \in Device : worker = NoPush(d)
  /\ pushes = [d \in Device |-> 0]

-----------------------------------------------------------------------------
(* config-service: routing *)

\* How a target may be routed: the guard and the onboarding gate only stand
\* in the way of bulk pushes, channels are only classified for previews.
RoutesOf(k) ==
  IF k = "bulk" THEN {"BLOCKED", "WITHHELD", "PUBLISHED", "QUEUED"}
                ELSE {"UNSUPPORTED", "PUBLISHED", "FAILED", "QUEUED"}

CountsAsFailure(route) == route \in {"BLOCKED", "FAILED", "UNSUPPORTED"}

CountRoute(job, d, route) ==
  [job EXCEPT
     !.perDevice[d] = route,
     !.delivery[d] = IF kind = "routed" THEN route ELSE @,
     !.success = IF route = "PUBLISHED" THEN @ + 1 ELSE @,
     !.failure = IF CountsAsFailure(route) THEN @ + 1 ELSE @,
     !.queued = IF kind = "routed" /\ route = "QUEUED" THEN @ + 1 ELSE @]

\* publishRoutedConfigPush reports a producer that throws, publishConfigPush
\* only logs it.
RouteOnSendError(route) ==
  IF kind = "bulk" THEN route = "PUBLISHED" ELSE route = "FAILED"

QueueAfter(d, route) == IF route = "QUEUED" THEN queued \cup {d} ELSE queued

\* The next target.  It is PUBLISHED as soon as the producer has taken the
\* message.
Route(d, route, sent) ==
  /\ routing
  /\ d \in todo
  /\ route \in RoutesOf(kind)
  /\ \/ sent /\ route = "PUBLISHED"
     \/ ~sent /\ route \notin {"PUBLISHED", "FAILED"}
     \/ ~sent /\ lossy /\ route \in {"PUBLISHED", "FAILED"}
              /\ RouteOnSendError(route)
  /\ inFlight' = IF sent THEN inFlight \cup {d} ELSE inFlight
  /\ queued' = QueueAfter(d, route)
  /\ mem' = CountRoute(mem, d, route)
  /\ todo' = todo \ {d}
  /\ UNCHANGED <<kind, lossy, total, doc, routing, topic, lost, pos, committed,
                 worker, pushes, crashes, aborts>>

\* bulkPush compares the successes with the list it was given.
BulkStatus(job) ==
  IF job.success = Cardinality(Device) THEN "COMPLETED" ELSE "PARTIAL"

\* Mutant: what is queued counts as done.
AllRouted(job) == job.success + job.failure + job.queued = total

\* executeJob compares with totalDevices, which may exceed its targets: then
\* this never holds, and the job stays RUNNING or RUNNING_QUEUED.
AllDone(job) == job.success + job.failure = total

RoutedStatus(job) ==
  CASE AllDone(job) /\ job.failure = 0  -> "COMPLETED"
    [] AllDone(job) /\ job.failure > 0  -> "PARTIAL"
    [] ~AllDone(job) /\ job.queued > 0  -> "RUNNING_QUEUED"
    [] ~AllDone(job) /\ job.queued = 0  -> "RUNNING"

FinalStatus(job) == IF kind = "bulk" THEN BulkStatus(job) ELSE RoutedStatus(job)

\* The last save replaces the whole document.
FinishRouting ==
  /\ routing
  /\ todo = {}
  /\ mem' = [mem EXCEPT !.status = FinalStatus(mem)]
  /\ doc' = mem'
  /\ routing' = FALSE
  /\ UNCHANGED <<kind, lossy, total, todo, topic, queued, inFlight, lost, pos,
                 committed, worker, pushes, crashes, aborts>>

-----------------------------------------------------------------------------
(* The producer of config-service *)

\* The broker has a message that was in the buffer.
Deliver(d) ==
  /\ d \in inFlight
  /\ inFlight' = inFlight \ {d}
  /\ topic' = Append(topic, d)
  /\ UNCHANGED <<kind, lossy, total, doc, mem, todo, routing, queued, lost, pos,
                 committed, worker, pushes, crashes, aborts>>

\* The producer gives a message up.  The job is not told.
SendFails(d) ==
  /\ lossy
  /\ d \in inFlight
  /\ inFlight' = inFlight \ {d}
  /\ lost' = lost \cup {d}
  /\ UNCHANGED <<kind, lossy, total, doc, mem, todo, routing, topic, queued,
                 pos, committed, worker, pushes, crashes, aborts>>

-----------------------------------------------------------------------------
(* config-push-worker *)

\* What belongs to config-service alone.
jobSide == <<kind, lossy, total, mem, todo, routing, queued, inFlight, lost>>

BeginPush ==
  /\ Receive
  /\ worker' = [at |-> "pushing", dev |-> topic[pos + 1],
                protocols |-> Protocols(kind), result |-> "FAILURE"]
  /\ UNCHANGED <<jobSide, doc, pushes>>

\* The template or the device is gone: reported, but not to the job.
NotFound ==
  /\ worker.at = "pushing"
  /\ worker.protocols = Protocols(kind)
  /\ worker' = [worker EXCEPT !.at = "committing"]
  /\ UNCHANGED <<jobSide, doc, topic, pos, committed, pushes, crashes,
                 aborts>>

\* Mutant: the loop over the protocols goes on after a success.
TryNextAnyway ==
  IF worker.protocols > 1
  THEN [worker EXCEPT !.protocols = @ - 1]
  ELSE [worker EXCEPT !.at = "recording", !.result = "SUCCESS"]

AfterSuccess == [worker EXCEPT !.at = "recording", !.result = "SUCCESS"]

\* One protocol, with its retries, succeeds: no other is tried.
PushSucceeds ==
  /\ worker.at = "pushing"
  /\ pushes' = [pushes EXCEPT ![worker.dev] = @ + 1]
  /\ worker' = AfterSuccess
  /\ UNCHANGED <<jobSide, doc, topic, pos, committed, crashes, aborts>>

\* What is recorded when the last protocol has failed: only the legacy path
\* tells a timeout from another failure.
FinalFailure(timeout) ==
  IF kind = "bulk" /\ timeout THEN "TIMEOUT" ELSE "FAILURE"

\* The except clauses: on to the next protocol, if there is one.
AfterFailure(timeout) ==
  IF worker.protocols > 1
  THEN [worker EXCEPT !.at = "pushing", !.protocols = @ - 1]
  ELSE [worker EXCEPT !.at = "recording", !.result = FinalFailure(timeout)]

PushFails(timeout) ==
  /\ worker.at = "pushing"
  /\ worker' = AfterFailure(timeout)
  /\ UNCHANGED <<jobSide, doc, topic, pos, committed, pushes, crashes,
                 aborts>>

\* _update_job sets the device's entry of perDeviceStatus and nothing else.
UpdateJob ==
  /\ worker.at = "recording"
  /\ doc' = [doc EXCEPT !.perDevice[worker.dev] = worker.result]
  /\ worker' = [worker EXCEPT !.at = "committing"]
  /\ UNCHANGED <<jobSide, topic, pos, committed, pushes, crashes, aborts>>

\* _update_job raises.  After a successful push that happens inside the try
\* of the push itself, whose except clauses take it for a failed push.
UpdateFails ==
  /\ worker.at = "recording"
  /\ worker.result = "SUCCESS"
  /\ CallFails
  /\ worker' = AfterFailure(FALSE)
  /\ UNCHANGED <<jobSide, doc, pushes>>

EndPush ==
  /\ worker.at = "committing"
  /\ Commit
  /\ worker' = NoPush(worker.dev)
  /\ UNCHANGED <<jobSide, doc, pushes>>

-----------------------------------------------------------------------------
(* The environment *)

\* The worker dies, with whatever it had in hand.
WorkerDies ==
  /\ Die
  /\ worker' = NoPush(worker.dev)
  /\ UNCHANGED <<jobSide, doc, pushes>>

\* config-service dies, and the buffer of its producer with it; nobody resumes
\* the routing of the job.
RouterDies ==
  /\ routing' = FALSE
  /\ inFlight' = {}
  /\ lost' = lost \cup inFlight
  /\ UNCHANGED <<kind, lossy, total, doc, mem, todo, topic, queued, pos,
                 committed, worker, pushes, crashes, aborts>>

\* Any other exception of MongoDB or Kafka gets out of the handler.
PushRaises ==
  /\ \/ worker.at = "pushing" /\ worker.protocols = Protocols(kind)
     \/ worker.at = "recording" /\ worker.result # "SUCCESS"
     \/ worker.at = "committing"
  /\ CallFails
  /\ worker' = NoPush(worker.dev)
  /\ UNCHANGED <<jobSide, doc, pushes>>

\* The consumer has handled a check-in.
CommitCheckIn ==
  /\ CommitElsewhere
  /\ UNCHANGED <<jobSide, doc>>

Work ==
  \/ BeginPush
  \/ NotFound
  \/ PushSucceeds
  \/ \E timeout \in BOOLEAN : PushFails(timeout)
  \/ UpdateJob
  \/ EndPush

JobNext ==
  \/ \E d \in Device, route \in RouteState, sent \in BOOLEAN :
        Route(d, route, sent)
  \/ FinishRouting
  \/ \E d \in Device : Deliver(d) \/ SendFails(d)
  \/ Work
  \/ UpdateFails
  \/ PushRaises
  \/ CommitCheckIn
  \/ WorkerDies
  \/ RouterDies

JobSpec == JobInit /\ [][JobNext]_jobVars

\* The consumer loop goes on whenever the worker is up.
FairJobSpec == JobSpec /\ WF_jobVars(Work)

-----------------------------------------------------------------------------
(* Properties *)

Sent(d) == \E i \in 1..Len(topic) : topic[i] = d

\* The producer was given a message for the target.
HandedOver(d) == Sent(d) \/ d \in inFlight \cup lost

\* The job was saved after its routing, with a delivery for every target.
Reported == \A d \in Device : doc.delivery[d] # "none"

\* What a job reports after its routing (executeJob): every target is in
\* exactly one of the counts; queued counts the pending commands and success
\* the messages handed to the producer, whether they have reached the log, are
\* on their way or were dropped; and the job is COMPLETED if and only if the
\* preview had no unsupported device and every target was handed over.
RoutedCountsMatch ==
  kind = "routed" /\ Reported =>
    /\ doc.success = Cardinality({d \in Device : HandedOver(d)})
    /\ doc.queued = Cardinality(queued)
    /\ doc.success + doc.queued + doc.failure = Cardinality(Device)
    /\ doc.status = "COMPLETED" <=>
         total = Cardinality(Device) /\ \A d \in Device : HandedOver(d)

\* How often a device is pushed to: once for its message, and once more at
\* most for every crash that made Kafka hand the message out again and for
\* every success that could not be recorded.
PushesNeedDeliveries == \A d \in Device : pushes[d] <= 1 + crashes + aborts

\* Every message is processed to its end and committed, through any finite
\* number of crashes (main.py commits after processing only), unless a call of
\* MongoDB or the commit itself fails.
SentIsCommitted ==
  \A i \in 1..Cardinality(Device) :
    Len(topic) >= i ~> committed >= i \/ aborts > 0
=============================================================================
