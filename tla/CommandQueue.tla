---------------------------- MODULE CommandQueue ----------------------------
(***************************************************************************)
(* Commands for offline devices.  config-service queues them in MongoDB    *)
(* (ConfigService.queueCommand, DeliveryRouter.routeUbrTarget) and sweeps  *)
(* out the ones that are too old (expireStaleCommands); config-push-worker *)
(* drains a device's commands when it checks in (main.py,                  *)
(* drain_pending_commands).                                                *)
(*                                                                         *)
(* The two services share nothing but the collection.  The sweep reads the *)
(* stale commands first and then writes them back one whole document at a  *)
(* time; the worker reads the pending commands once and then, for each,    *)
(* checks its age, pushes it to the device and updates its status.  Every  *)
(* await of the worker and every call of the repository is a point where   *)
(* the other side may run, or where either process may die.                *)
(***************************************************************************)
EXTENDS PushConsumer

CONSTANTS Command,
          Nothing,       \* no command in hand
          CommandTtl,    \* config.pending-command.ttl-hours, in ticks
          MaxClock,      \* bounds, for model checking only
          MaxCheckIns

ASSUME QueueAssumption ==
  /\ Nothing \notin Command
  /\ CommandTtl \in Nat
  /\ {MaxClock, MaxCheckIns} \subseteq Nat

VARIABLES tzAware,   \* the driver option of MONGO_URI, fixed at deployment: are
                     \* dates read from MongoDB time-zone aware
          now,       \* the wall clock
          cmds,      \* cmds[c]: the document of command c
          sweep,     \* the stale commands expireStaleCommands has still to save
          cuts       \* cuts[c]: the pushes of c whose result was never recorded
                     \* (history)

vars == <<tzAware, now, cmds, sweep, topic, pos, committed, worker, pushes,
          cuts, crashes, aborts>>

Status == {"none", "PENDING", "DELIVERED", "FAILED", "EXPIRED"}

CommandDoc == [status : Status, dev : Device, createdAt : Nat, expiresAt : Nat]

CheckInMsg == [dev : Device, waiting : SUBSET Command]

\* rest: the documents of the cursor not handled yet; cur: the one in hand;
\* result: the status to record for it; done: did its push succeed.
WorkerState == [at : {"idle", "iterating", "pushing", "updating"},
                dev : Device, rest : SUBSET Command,
                cur : Command \cup {Nothing},
                result : {"DELIVERED", "FAILED"}, done : BOOLEAN]

TypeOK ==
  /\ tzAware \in BOOLEAN
  /\ now \in Nat
  /\ cmds \in [Command -> CommandDoc]
  /\ sweep \in SUBSET Command
  /\ topic \in Seq(CheckInMsg)
  /\ ConsumerTypeOK
  /\ worker \in WorkerState
  /\ worker.at \in {"pushing", "updating"} => worker.cur \in Command
  /\ pushes \in [Command -> Nat]
  /\ cuts \in [Command -> Nat]

IdleWorker(d) == [at |-> "idle", dev |-> d, rest |-> {}, cur |-> Nothing,
                  result |-> "FAILED", done |-> FALSE]

Init ==
  /\ tzAware \in BOOLEAN
  /\ now = 0
  /\ \E d \in Device :
       /\ cmds = [c \in Command |-> [status |-> "none", dev |-> d,
                                     createdAt |-> 0, expiresAt |-> 0]]
       /\ worker = IdleWorker(d)
  /\ sweep = {}
  /\ ConsumerInit
  /\ pushes = [c \in Command |-> 0]
  /\ cuts = [c \in Command |-> 0]

-----------------------------------------------------------------------------
(* config-service: queueing and the scheduled sweep *)

\* queueCommand, and the insert of routeUbrTarget.  pushConfig, bulkPush and
\* initiateRollback hold the operation guard of the device meanwhile, so the
\* reading of the clock and the insert are one step as far as other commands
\* of the device are concerned.  executeConfirmedJob, which routes without the
\* guard, has no caller outside the tests; it could insert a command after a
\* younger one.  The bound leaves room for the command's whole life under
\* MaxClock.
Queue(c, d) ==
  /\ cmds[c].status = "none"
  /\ now + CommandTtl < MaxClock
  /\ cmds' = [cmds EXCEPT ![c] = [status |-> "PENDING", dev |-> d,
                                  createdAt |-> now,
                                  expiresAt |-> now + CommandTtl]]
  /\ UNCHANGED <<tzAware, now, sweep, topic, pos, committed, worker, pushes,
                 cuts, crashes, aborts>>

\* Mutant: the expiry is compared with the command's own creation.
NeverStale ==
  {c \in Command : /\ cmds[c].status = "PENDING"
                   /\ cmds[c].expiresAt < cmds[c].createdAt}

\* findByStatusAndExpiresAtBefore("PENDING", now)
StaleCommands ==
  {c \in Command : cmds[c].status = "PENDING" /\ cmds[c].expiresAt < now}

\* expireStaleCommands reads the stale commands ...
SweepRead ==
  /\ sweep = {}
  /\ StaleCommands # {}
  /\ sweep' = StaleCommands
  /\ UNCHANGED <<tzAware, now, cmds, topic, pos, committed, worker, pushes,
                 cuts, crashes, aborts>>

\* ... and saves them one by one, whatever their status is by now.
SweepSave(c) ==
  /\ c \in sweep
  /\ cmds' = [cmds EXCEPT ![c].status = "EXPIRED"]
  /\ sweep' = sweep \ {c}
  /\ UNCHANGED <<tzAware, now, topic, pos, committed, worker, pushes, cuts,
                 crashes, aborts>>

-----------------------------------------------------------------------------
(* config-push-worker: the consumer loop and the drain *)

\* A device checks in: a message on the discovery topic.  waiting records
\* what was queued for it at that moment.
CheckIn(d) ==
  /\ Len(topic) < MaxCheckIns
  /\ topic' = Append(topic,
       [dev |-> d, waiting |-> {c \in Command : cmds[c].dev = d
                                                /\ cmds[c].status = "PENDING"}])
  /\ UNCHANGED <<tzAware, now, cmds, sweep, pos, committed, worker, pushes,
                 cuts, crashes, aborts>>

\* Mutant: the query is limited to one page of one.
FirstOfDevice(d) ==
  {c \in Command : /\ cmds[c].dev = d
                   /\ cmds[c].status = "PENDING"
                   /\ \A e \in Command :
                        cmds[e].dev = d /\ cmds[e].status = "PENDING"
                          => cmds[c].createdAt <= cmds[e].createdAt}

\* The cursor of drain_pending_commands.
Drainable(d) ==
  {c \in Command : cmds[c].dev = d /\ cmds[c].status = "PENDING"}

\* The consumer is handed the next message and the drain opens its cursor.
BeginDrain ==
  /\ Receive
  /\ worker' = [IdleWorker(topic[pos + 1].dev) EXCEPT
                  !.at = "iterating", !.rest = Drainable(topic[pos + 1].dev)]
  /\ UNCHANGED <<tzAware, now, cmds, sweep, pushes, cuts>>

\* Mutant: the cursor is not sorted.
InAnyOrder(S) == S

\* .sort("createdAt", 1): what the cursor may yield next.
Oldest(S) == {c \in S : \A e \in S : cmds[c].createdAt <= cmds[e].createdAt}

\* The worker's own check of the TTL, on the document the cursor yielded.
TooOld(c) == cmds[c].expiresAt < now

\* Comparing the naive date of an untuned driver with an aware one raises.
CanCompareDates == tzAware

TakeCommand(c) ==
  /\ worker.at = "iterating"
  /\ c \in Oldest(worker.rest)
  /\ CanCompareDates
  /\ \/ /\ TooOld(c)
        /\ cmds' = [cmds EXCEPT ![c].status = "EXPIRED"]
        /\ worker' = [worker EXCEPT !.rest = @ \ {c}]
     \/ /\ ~TooOld(c)
        /\ worker' = [worker EXCEPT !.at = "pushing", !.cur = c,
                                    !.rest = @ \ {c}]
        /\ UNCHANGED cmds
  /\ UNCHANGED <<tzAware, now, sweep, topic, pos, committed, pushes, cuts,
                 crashes, aborts>>

\* Mutant: a failed push is recorded as delivered too.
AlwaysDelivered(ok) == "DELIVERED"

ResultStatus(ok) == IF ok THEN "DELIVERED" ELSE "FAILED"

\* handle_push_event, with its retries, comes back.
Push(ok) ==
  /\ worker.at = "pushing"
  /\ worker' = [worker EXCEPT !.at = "updating", !.result = ResultStatus(ok),
                              !.done = ok]
  /\ pushes' = IF ok THEN [pushes EXCEPT ![worker.cur] = @ + 1] ELSE pushes
  /\ UNCHANGED <<tzAware, now, cmds, sweep, topic, pos, committed, cuts,
                 crashes, aborts>>

\* The push succeeds, but recording it on the command's job raises inside the
\* same try: handle_push_event comes back with a failure.
PushUnreported ==
  /\ worker.at = "pushing"
  /\ CallFails
  /\ worker' = [worker EXCEPT !.at = "updating", !.result = ResultStatus(FALSE),
                              !.done = TRUE]
  /\ pushes' = [pushes EXCEPT ![worker.cur] = @ + 1]
  /\ UNCHANGED <<tzAware, now, cmds, sweep, cuts>>

RecordResult ==
  /\ worker.at = "updating"
  /\ cmds' = [cmds EXCEPT ![worker.cur].status = worker.result]
  /\ worker' = [worker EXCEPT !.at = "iterating", !.cur = Nothing,
                              !.done = FALSE]
  /\ UNCHANGED <<tzAware, now, sweep, topic, pos, committed, pushes, cuts,
                 crashes, aborts>>

\* The drain is over and the offset is committed.
FinishDrain ==
  /\ worker.at = "iterating"
  /\ worker.rest = {}
  /\ Commit
  /\ worker' = IdleWorker(worker.dev)
  /\ UNCHANGED <<tzAware, now, cmds, sweep, pushes, cuts>>

\* The result of a push is lost when the drain ends before recording it.
CutsAfterLoss ==
  IF worker.at = "updating" /\ worker.done
  THEN [cuts EXCEPT ![worker.cur] = @ + 1] ELSE cuts

\* The comparison of the dates raises: the loop of main.py logs it and goes
\* on with the next message, without a commit.
DateError ==
  /\ worker.at = "iterating"
  /\ worker.rest # {}
  /\ ~CanCompareDates
  /\ worker' = IdleWorker(worker.dev)
  /\ UNCHANGED <<tzAware, now, cmds, sweep, topic, pos, committed, pushes,
                 cuts, crashes, aborts>>

\* So does any other exception, of MongoDB or of the commit.
Abort ==
  /\ worker.at # "idle"
  /\ CallFails
  /\ cuts' = CutsAfterLoss
  /\ worker' = IdleWorker(worker.dev)
  /\ UNCHANGED <<tzAware, now, cmds, sweep, pushes>>

-----------------------------------------------------------------------------
(* The environment *)

\* The worker dies, with whatever it had in hand.
WorkerCrash ==
  /\ Die
  /\ cuts' = CutsAfterLoss
  /\ worker' = IdleWorker(worker.dev)
  /\ UNCHANGED <<tzAware, now, cmds, sweep, pushes>>

\* config-service dies.  Between two sweeps it loses nothing, and there the
\* crash is not counted.
ServiceCrash ==
  /\ \/ sweep = {} /\ UNCHANGED crashes
     \/ crashes < MaxCrashes /\ crashes' = crashes + 1
  /\ sweep' = {}
  /\ UNCHANGED <<tzAware, now, cmds, topic, pos, committed, worker, pushes,
                 cuts, aborts>>

Tick ==
  /\ now < MaxClock
  /\ now' = now + 1
  /\ UNCHANGED <<tzAware, cmds, sweep, topic, pos, committed, worker, pushes,
                 cuts, crashes, aborts>>

\* The consumer has handled a push message.
CommitPushMessage ==
  /\ CommitElsewhere
  /\ UNCHANGED <<tzAware, now, cmds, sweep, cuts>>

Sweep == SweepRead \/ \E c \in Command : SweepSave(c)

Drain ==
  \/ BeginDrain
  \/ \E c \in Command : TakeCommand(c)
  \/ \E ok \in BOOLEAN : Push(ok)
  \/ RecordResult
  \/ FinishDrain
  \/ DateError

Next ==
  \/ \E c \in Command, d \in Device : Queue(c, d)
  \/ Sweep
  \/ \E d \in Device : CheckIn(d)
  \/ Drain
  \/ PushUnreported
  \/ Abort
  \/ CommitPushMessage
  \/ WorkerCrash
  \/ ServiceCrash
  \/ Tick

Spec == Init /\ [][Next]_vars

\* The scheduler runs the sweep at a fixed delay, time goes on, and the
\* consumer loop keeps running whenever the worker is up.
FairSpec ==
  /\ Spec
  /\ WF_vars(Tick)
  /\ WF_vars(Sweep)
  /\ WF_vars(Drain)

-----------------------------------------------------------------------------
(* Properties *)

\* A push of c has succeeded and its result is still to be recorded.
Unrecorded(c) == worker.at = "updating" /\ worker.cur = c /\ worker.done

\* Commands reach a device in the order they were queued: while one is being
\* pushed nothing older is pending for the same device, across interrupted
\* drains, sweeps and commands queued meanwhile (the sorted cursor of
\* drain_pending_commands).
FifoPerDevice ==
  worker.at = "pushing" =>
    \A c \in Command :
      /\ cmds[c].dev = worker.dev
      /\ cmds[c].createdAt < cmds[worker.cur].createdAt
      => cmds[c].status # "PENDING"

\* The status tells what happened to the device: DELIVERED only after a
\* successful push, and PENDING only if every successful push so far is
\* either about to be recorded or was interrupted.
StatusIsHonest ==
  \A c \in Command :
    /\ cmds[c].status = "DELIVERED" => pushes[c] > 0
    /\ cmds[c].status \in {"none", "PENDING"} /\ ~Unrecorded(c)
         => pushes[c] = cuts[c]

\* Once the worker is done with a check-in, nothing that was waiting for
\* the device when it checked in is pending any more, through crashes of
\* either process.  Needs a driver that reads aware dates and no failing call
\* of MongoDB.
CheckInServed ==
  tzAware /\ aborts = 0 /\ worker.at = "idle" =>
    \A i \in 1..pos : \A c \in topic[i].waiting : cmds[c].status # "PENDING"

\* No command stays pending for ever, with or without a worker or check-ins
\* (expireStaleCommands).
CommandsSettle ==
  \A c \in Command : cmds[c].status = "PENDING" ~> cmds[c].status # "PENDING"

\* Every check-in is eventually processed to its end and committed, through
\* any finite number of crashes of the worker (main.py commits after the
\* drain only), unless a call of MongoDB fails or its dates cannot be compared.
CheckInsAreCommitted ==
  \A i \in 1..MaxCheckIns :
    Len(topic) >= i ~> committed >= i \/ aborts > 0 \/ ~tzAware
=============================================================================
