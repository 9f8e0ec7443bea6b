-------------------------- MODULE PushWorker_proofs --------------------------
(***************************************************************************)
(* Theorems about the two models of the config-push-worker: CommandQueue,  *)
(* for any devices, commands and time to live, and JobDelivery, for any    *)
(* targets, crashes and failing calls.  The two share the consumer; the    *)
(* theorems of one say nothing of the variables of the other.              *)
(***************************************************************************)
EXTENDS CommandQueue, JobDelivery, FiniteSetTheorems, TLAPS

\* Commands have been queued, and for the device they are drained for; the
\* clock is past their creation.  What is in hand belongs to the device that
\* has checked in.
QueuedInv ==
  /\ \A c \in Command : cmds[c].createdAt <= now
  /\ \A c \in sweep \cup worker.rest : cmds[c].status # "none"
  /\ worker.at \in {"pushing", "updating"} => cmds[worker.cur].status # "none"
  /\ worker.at \in {"idle", "iterating"} => worker.cur = Nothing
  /\ worker.at = "idle" => worker.rest = {}
  /\ \A c \in worker.rest : cmds[c].dev = worker.dev

\* What the worker has read and not handled yet.
InHand == worker.rest \cup {worker.cur}

\* The cursor has everything that is older than what it still has to yield,
\* and what is being pushed is the oldest.
OrderInv ==
  /\ \A e \in worker.rest, c \in Command :
       cmds[c].dev = worker.dev /\ cmds[c].status = "PENDING"
         /\ cmds[c].createdAt < cmds[e].createdAt
       => c \in InHand
  /\ worker.at \in {"pushing", "updating"} =>
       \A e \in worker.rest : cmds[worker.cur].createdAt <= cmds[e].createdAt
  /\ FifoPerDevice

\* A push that is still to be recorded is one more than those that were cut,
\* and only what was pushed is recorded as delivered.
HonestInv ==
  /\ \A c \in Command :
       Unrecorded(c) /\ cmds[c].status \in {"none", "PENDING"}
         => pushes[c] = cuts[c] + 1
  /\ worker.at = "updating" /\ worker.result = "DELIVERED"
       => pushes[worker.cur] > 0
  /\ StatusIsHonest

\* Whoever was waiting when a device checked in has been handled once the
\* message is, and is in the hands of the worker until then.
ServedInv ==
  /\ worker.at # "idle" => committed < pos /\ worker.dev = topic[pos].dev
  /\ \A i \in 1..Len(topic) : \A c \in topic[i].waiting :
       cmds[c].status # "none" /\ cmds[c].dev = topic[i].dev
  /\ tzAware /\ aborts = 0 =>
       \A i \in 1..pos : \A c \in topic[i].waiting :
         cmds[c].status = "PENDING"
           => i = pos /\ worker.at # "idle" /\ c \in InHand

\* The commands the worker is going to push, unless it is interrupted.
ToPush == worker.rest \cup (IF worker.at = "pushing" THEN {worker.cur} ELSE {})

\* A command is pushed once, and once more at most for every push whose result
\* was lost, each of them to a crash or to a failing call.
PushedOnce ==
  \A c \in Command : pushes[c] <= 1 + cuts[c] /\ cuts[c] <= crashes + aborts

\* What is to be pushed has not been, as far as anybody could know, and what
\* was pushed and is to be recorded has been pushed once.
BalanceInv ==
  /\ worker.cur \notin worker.rest
  /\ \A c \in ToPush : pushes[c] = cuts[c]
  /\ \A c \in Command : Unrecorded(c) => pushes[c] = cuts[c] + 1
  /\ PushedOnce

-----------------------------------------------------------------------------
(* What the steps do *)

\* Setting the status of a command changes nothing else.
LEMMA SetStatus ==
  ASSUME TypeOK, NEW c \in Command, NEW s \in Status,
         cmds' = [cmds EXCEPT ![c].status = s]
  PROVE  /\ cmds' \in [Command -> CommandDoc]
         /\ \A e \in Command :
              /\ cmds'[e].dev = cmds[e].dev
              /\ cmds'[e].createdAt = cmds[e].createdAt
              /\ cmds'[e].status = IF e = c THEN s ELSE cmds[e].status
<1>1. cmds' = [cmds EXCEPT ![c] = [cmds[c] EXCEPT !.status = s]]
  BY DEF TypeOK, ConsumerTypeOK
<1>2. cmds \in [Command -> CommandDoc] /\ cmds[c] \in CommandDoc
  BY DEF TypeOK, ConsumerTypeOK
<1>3. /\ [cmds[c] EXCEPT !.status = s] \in CommandDoc
      /\ [cmds[c] EXCEPT !.status = s].status = s
      /\ [cmds[c] EXCEPT !.status = s].dev = cmds[c].dev
      /\ [cmds[c] EXCEPT !.status = s].createdAt = cmds[c].createdAt
  BY <1>2 DEF CommandDoc
<1> QED
  BY <1>1, <1>2, <1>3

\* A command that is queued is the newest.
LEMMA QueuedOne ==
  ASSUME TypeOK, NEW c \in Command, NEW d \in Device, Queue(c, d)
  PROVE  /\ cmds[c].status = "none"
         /\ cmds'[c].status = "PENDING" /\ cmds'[c].createdAt = now
         /\ \A e \in Command \ {c} : cmds'[e] = cmds[e]
         /\ UNCHANGED <<tzAware, now, sweep, topic, pos, committed, worker,
                        pushes, cuts, aborts>>
BY DEF TypeOK, ConsumerTypeOK, Queue

\* The worker is handed the next message and takes all that is pending.
LEMMA HandedOut ==
  ASSUME TypeOK, BeginDrain
  PROVE  /\ worker.at = "idle"
         /\ pos' = pos + 1 /\ pos' \in 1..Len(topic)
         /\ topic[pos'] \in CheckInMsg
         /\ worker' \in WorkerState
         /\ worker'.at = "iterating" /\ worker'.cur = Nothing
         /\ worker'.dev = topic[pos'].dev
         /\ worker'.rest = {c \in Command : cmds[c].dev = topic[pos'].dev
                                            /\ cmds[c].status = "PENDING"}
         /\ UNCHANGED <<tzAware, now, cmds, sweep, topic, committed, pushes,
                        cuts, aborts>>
<1>1. worker.at = "idle" /\ pos' = pos + 1 /\ pos' \in 1..Len(topic)
  BY DEF TypeOK, ConsumerTypeOK, BeginDrain, Receive
<1>2. topic[pos'] \in CheckInMsg
  BY <1>1 DEF TypeOK, ConsumerTypeOK
<1>3. worker' = [at |-> "iterating", dev |-> topic[pos'].dev,
                 rest |-> Drainable(topic[pos'].dev), cur |-> Nothing,
                 result |-> "FAILED", done |-> FALSE]
  BY <1>1 DEF BeginDrain, Receive, IdleWorker
<1>4. worker' \in WorkerState
  BY <1>2, <1>3 DEF WorkerState, CheckInMsg, Drainable
<1>5. UNCHANGED <<tzAware, now, cmds, sweep, topic, committed, pushes, cuts,
                  aborts>>
  BY DEF BeginDrain, Receive
<1>6. worker'.rest = {c \in Command : cmds[c].dev = topic[pos'].dev
                                      /\ cmds[c].status = "PENDING"}
  BY <1>3 DEF Drainable
<1> QED
  BY <1>1, <1>2, <1>3, <1>4, <1>5, <1>6

\* The worker takes an oldest command, and pushes it unless it is too old.
LEMMA TakenOne ==
  ASSUME TypeOK, NEW c \in Command, TakeCommand(c)
  PROVE  /\ worker.at = "iterating" /\ c \in worker.rest
         /\ \A e \in worker.rest : cmds[c].createdAt <= cmds[e].createdAt
         /\ worker' \in WorkerState
         /\ worker'.dev = worker.dev /\ worker'.rest = worker.rest \ {c}
         /\ cmds' \in [Command -> CommandDoc]
         /\ \A e \in Command : /\ cmds'[e].dev = cmds[e].dev
                               /\ cmds'[e].createdAt = cmds[e].createdAt
                               /\ e # c => cmds'[e].status = cmds[e].status
         /\ \/ /\ worker'.at = "iterating" /\ worker'.cur = worker.cur
               /\ cmds'[c].status = "EXPIRED"
            \/ worker'.at = "pushing" /\ worker'.cur = c /\ cmds' = cmds
         /\ UNCHANGED <<tzAware, now, sweep, topic, pos, committed, pushes,
                        cuts, aborts>>
<1> USE DEF WorkerState
<1>1. worker \in WorkerState /\ cmds \in [Command -> CommandDoc]
  BY DEF TypeOK, ConsumerTypeOK
<1>2. CASE TooOld(c) /\ cmds' = [cmds EXCEPT ![c].status = "EXPIRED"]
           /\ worker' = [worker EXCEPT !.rest = @ \ {c}]
  <2>1. "EXPIRED" \in Status
    BY DEF Status
  <2>2. /\ cmds' \in [Command -> CommandDoc]
        /\ \A e \in Command :
             /\ cmds'[e].dev = cmds[e].dev
             /\ cmds'[e].createdAt = cmds[e].createdAt
             /\ cmds'[e].status = IF e = c THEN "EXPIRED" ELSE cmds[e].status
    BY ZenonT(60), <1>2, <2>1, SetStatus
  <2> QED
    BY <1>1, <1>2, <2>2 DEF TakeCommand, Oldest
<1>3. CASE worker' = [worker EXCEPT !.at = "pushing", !.cur = c,
                                    !.rest = @ \ {c}] /\ cmds' = cmds
  BY <1>1, <1>3 DEF TakeCommand, Oldest
<1> QED
  BY <1>2, <1>3 DEF TakeCommand

\* A push that comes back.
LEMMA Pushed ==
  ASSUME TypeOK, NEW ok \in BOOLEAN, Push(ok)
  PROVE  /\ worker.at = "pushing" /\ worker.cur \in Command
         /\ worker' \in WorkerState
         /\ worker'.at = "updating" /\ worker'.done = ok
         /\ worker'.cur = worker.cur /\ worker'.rest = worker.rest
         /\ worker'.dev = worker.dev
         /\ worker'.result = IF ok THEN "DELIVERED" ELSE "FAILED"
         /\ pushes' \in [Command -> Nat]
         /\ \A c \in Command :
              pushes'[c] = IF ok /\ c = worker.cur THEN pushes[c] + 1
                           ELSE pushes[c]
         /\ UNCHANGED <<tzAware, now, cmds, sweep, topic, pos, committed, cuts,
                        aborts>>
<1>1. /\ worker \in WorkerState /\ worker.cur \in Command
      /\ pushes \in [Command -> Nat]
  BY DEF TypeOK, ConsumerTypeOK, Push
<1>2. worker' = [worker EXCEPT !.at = "updating", !.result = ResultStatus(ok),
                               !.done = ok]
  BY DEF Push
<1>3. ResultStatus(ok) \in {"DELIVERED", "FAILED"}
  BY DEF ResultStatus
<1>4. /\ worker' \in WorkerState
      /\ worker'.at = "updating" /\ worker'.done = ok
      /\ worker'.cur = worker.cur /\ worker'.rest = worker.rest
      /\ worker'.dev = worker.dev /\ worker'.result = ResultStatus(ok)
  BY <1>1, <1>2, <1>3 DEF WorkerState
<1>5. /\ pushes' \in [Command -> Nat]
      /\ \A c \in Command :
           pushes'[c] = IF ok /\ c = worker.cur THEN pushes[c] + 1
                        ELSE pushes[c]
  <2>1. CASE ok
    BY <1>1, <2>1 DEF Push
  <2>2. CASE ~ok
    BY <1>1, <2>2 DEF Push
  <2> QED
    BY <2>1, <2>2
<1>6. /\ worker.at = "pushing"
      /\ UNCHANGED <<tzAware, now, cmds, sweep, topic, pos, committed, cuts,
                     aborts>>
  BY DEF Push
<1> QED
  BY <1>1, <1>4, <1>5, <1>6 DEF ResultStatus

\* A push that succeeded and comes back as a failure.
LEMMA PushedUnreported ==
  ASSUME TypeOK, PushUnreported
  PROVE  /\ worker.at = "pushing" /\ worker.cur \in Command
         /\ worker' \in WorkerState
         /\ worker'.at = "updating" /\ worker'.done = TRUE
         /\ worker'.cur = worker.cur /\ worker'.rest = worker.rest
         /\ worker'.dev = worker.dev /\ worker'.result = "FAILED"
         /\ pushes' \in [Command -> Nat]
         /\ \A c \in Command :
              pushes'[c] = IF c = worker.cur THEN pushes[c] + 1 ELSE pushes[c]
         /\ aborts' = aborts + 1
         /\ UNCHANGED <<tzAware, now, cmds, sweep, topic, pos, committed, cuts>>
<1>1. /\ worker \in WorkerState /\ worker.cur \in Command
      /\ pushes \in [Command -> Nat]
  BY DEF TypeOK, ConsumerTypeOK, PushUnreported, CallFails
<1>2. worker' = [worker EXCEPT !.at = "updating", !.result = "FAILED",
                               !.done = TRUE]
  BY DEF PushUnreported, CallFails, ResultStatus
<1>3. /\ worker' \in WorkerState
      /\ worker'.at = "updating" /\ worker'.done = TRUE
      /\ worker'.cur = worker.cur /\ worker'.rest = worker.rest
      /\ worker'.dev = worker.dev /\ worker'.result = "FAILED"
  BY <1>1, <1>2 DEF WorkerState
<1>4. /\ pushes' \in [Command -> Nat]
      /\ \A c \in Command :
           pushes'[c] = IF c = worker.cur THEN pushes[c] + 1 ELSE pushes[c]
  BY <1>1 DEF PushUnreported, CallFails
<1> QED
  BY <1>1, <1>3, <1>4 DEF PushUnreported, CallFails

\* The result is recorded and the command is out of hand.
LEMMA Recorded ==
  ASSUME TypeOK, RecordResult
  PROVE  /\ worker.at = "updating" /\ worker.cur \in Command
         /\ worker.result \in {"DELIVERED", "FAILED"}
         /\ worker' \in WorkerState
         /\ worker'.at = "iterating" /\ worker'.cur = Nothing
         /\ worker'.rest = worker.rest /\ worker'.dev = worker.dev
         /\ cmds' \in [Command -> CommandDoc]
         /\ \A e \in Command :
              /\ cmds'[e].dev = cmds[e].dev
              /\ cmds'[e].createdAt = cmds[e].createdAt
              /\ cmds'[e].status = IF e = worker.cur THEN worker.result
                                   ELSE cmds[e].status
         /\ UNCHANGED <<tzAware, now, sweep, topic, pos, committed, pushes,
                        cuts, aborts>>
<1>1. /\ worker \in WorkerState /\ worker.cur \in Command
      /\ worker.result \in {"DELIVERED", "FAILED"}
  BY DEF TypeOK, ConsumerTypeOK, RecordResult, WorkerState
<1>2. worker.result \in Status
  BY <1>1 DEF Status
<1>3. /\ cmds' \in [Command -> CommandDoc]
      /\ \A e \in Command :
           /\ cmds'[e].dev = cmds[e].dev
           /\ cmds'[e].createdAt = cmds[e].createdAt
           /\ cmds'[e].status = IF e = worker.cur THEN worker.result
                                ELSE cmds[e].status
  BY <1>1, <1>2, SetStatus DEF RecordResult
<1>4. worker' = [worker EXCEPT !.at = "iterating", !.cur = Nothing,
                               !.done = FALSE]
  BY DEF RecordResult
<1>5. /\ worker' \in WorkerState
      /\ worker'.at = "iterating" /\ worker'.cur = Nothing
      /\ worker'.rest = worker.rest /\ worker'.dev = worker.dev
  BY <1>1, <1>4 DEF WorkerState
<1> QED
  BY <1>1, <1>3, <1>5 DEF RecordResult

\* However it ends, the worker has nothing in hand then.
LEMMA IdleAfterwards ==
  ASSUME TypeOK, worker' = IdleWorker(worker.dev)
  PROVE  /\ worker' \in WorkerState
         /\ worker'.at = "idle" /\ worker'.rest = {} /\ worker'.cur = Nothing
         /\ worker'.dev = worker.dev /\ worker'.done = FALSE
BY DEF TypeOK, ConsumerTypeOK, WorkerState, IdleWorker

-----------------------------------------------------------------------------
(* Steps of the queue *)

\* Every step keeps the types.
LEMMA TypeStep ==
  ASSUME TypeOK, [Next]_vars
  PROVE  TypeOK'
<1> USE QueueAssumption DEF TypeOK, ConsumerTypeOK, CommandDoc, CheckInMsg,
                            WorkerState, Status
<1>1. ASSUME NEW c \in Command, NEW d \in Device, Queue(c, d)
      PROVE  TypeOK'
  <2>1. now \in Nat /\ now + CommandTtl \in Nat
    BY SMTT(30), QueueAssumption DEF TypeOK, ConsumerTypeOK
  <2>2. [status |-> "PENDING", dev |-> d, createdAt |-> now,
         expiresAt |-> now + CommandTtl] \in CommandDoc
    BY <2>1
  <2> HIDE DEF CommandDoc
  <2>3. cmds' \in [Command -> CommandDoc]
    BY <1>1, <2>2 DEF Queue
  <2> QED
    BY <1>1, <2>3 DEF Queue
<1>2. ASSUME SweepRead
      PROVE  TypeOK'
  BY <1>2 DEF SweepRead, StaleCommands
<1>3. ASSUME NEW c \in Command, SweepSave(c)
      PROVE  TypeOK'
  <2>1. "EXPIRED" \in Status /\ c \in Command
    OBVIOUS
  <2>2. cmds' \in [Command -> CommandDoc]
    BY <1>3, <2>1, SetStatus DEF SweepSave
  <2> QED
    BY <1>3, <2>2 DEF SweepSave
<1>4. ASSUME NEW d \in Device, CheckIn(d)
      PROVE  TypeOK'
  BY <1>4 DEF CheckIn
<1>5. ASSUME BeginDrain
      PROVE  TypeOK'
  <2>1. worker' \in WorkerState /\ worker'.at = "iterating"
    BY HandedOut, <1>5
  <2>2. pos' = pos + 1 /\ pos' \in 1..Len(topic) /\ topic' = topic
        /\ committed' = committed
    BY HandedOut, <1>5
  <2>3. pos' \in 0..Len(topic') /\ committed' \in 0..pos'
    BY <2>2
  <2> QED
    BY <1>5, <2>1, <2>3 DEF BeginDrain, Receive
<1>6. ASSUME NEW c \in Command, TakeCommand(c)
      PROVE  TypeOK'
  <2>1. worker' \in WorkerState /\ cmds' \in [Command -> CommandDoc]
    BY TakenOne, <1>6
  <2>2. worker'.at \in {"iterating", "pushing"}
        /\ (worker'.at = "pushing" => worker'.cur = c)
    BY TakenOne, <1>6
  <2> QED
    BY <1>6, <2>1, <2>2 DEF TakeCommand
<1>7. ASSUME NEW ok \in BOOLEAN, Push(ok)
      PROVE  TypeOK'
  <2>1. worker' \in WorkerState /\ pushes' \in [Command -> Nat]
        /\ worker'.cur = worker.cur
    BY Pushed, <1>7
  <2> QED
    BY <1>7, <2>1 DEF Push
<1>8. ASSUME RecordResult
      PROVE  TypeOK'
  <2>1. worker' \in WorkerState /\ worker'.at = "iterating"
        /\ cmds' \in [Command -> CommandDoc]
    BY Recorded, <1>8
  <2> QED
    BY <1>8, <2>1 DEF RecordResult
<1>9. ASSUME FinishDrain
      PROVE  TypeOK'
  BY <1>9 DEF FinishDrain, Commit, OffsetAfterMessage, IdleWorker
<1>10. ASSUME DateError
      PROVE  TypeOK'
  BY <1>10 DEF DateError, IdleWorker
<1>11. ASSUME PushUnreported
      PROVE  TypeOK'
  <2>1. worker' \in WorkerState /\ pushes' \in [Command -> Nat]
        /\ worker'.cur = worker.cur
    BY PushedUnreported, <1>11
  <2>2. aborts' \in Nat
    BY SMTT(30), <1>11 DEF PushUnreported, CallFails
  <2> QED
    BY <1>11, <2>1, <2>2 DEF PushUnreported, CallFails
<1>12. ASSUME Abort
      PROVE  TypeOK'
  BY SMTT(30), <1>12 DEF Abort, CallFails, CutsAfterLoss, IdleWorker
<1>13. ASSUME WorkerCrash
      PROVE  TypeOK'
  BY SMTT(30), <1>13 DEF WorkerCrash, Die, CutsAfterLoss, IdleWorker
<1>14. ASSUME ServiceCrash
      PROVE  TypeOK'
  BY SMTT(30), <1>14 DEF ServiceCrash
<1>15. ASSUME Tick
      PROVE  TypeOK'
  BY <1>15 DEF Tick
<1>16. ASSUME CommitPushMessage
      PROVE  TypeOK'
  BY <1>16 DEF CommitPushMessage, CommitElsewhere, Commit, OffsetAfterMessage
<1>17. CASE UNCHANGED vars
  BY <1>17 DEF vars
<1> QED
  BY <1>1, <1>2, <1>3, <1>4, <1>5, <1>6, <1>7, <1>8, <1>9, <1>10, <1>11,
     <1>12, <1>13, <1>14, <1>15, <1>16, <1>17 DEF Next, Sweep, Drain

\* Commands never become unqueued, and what the worker holds has been queued
\* for the device it is serving.
LEMMA QueuedStep ==
  ASSUME TypeOK, QueuedInv, [Next]_vars
  PROVE  QueuedInv'
<1> USE QueueAssumption
    DEF TypeOK, ConsumerTypeOK, CommandDoc, CheckInMsg, WorkerState, Status,
        QueuedInv
<1>1. ASSUME NEW c \in Command, NEW d \in Device, Queue(c, d)
      PROVE  QueuedInv'
  BY <1>1 DEF Queue
<1>2. ASSUME SweepRead
      PROVE  QueuedInv'
  BY <1>2 DEF SweepRead, StaleCommands
<1>3. ASSUME NEW c \in Command, SweepSave(c)
      PROVE  QueuedInv'
  <2>1. "EXPIRED" \in Status
    BY DEF Status
  <2>2. \A e \in Command :
          /\ cmds'[e].dev = cmds[e].dev
          /\ cmds'[e].createdAt = cmds[e].createdAt
          /\ cmds'[e].status = IF e = c THEN "EXPIRED" ELSE cmds[e].status
    <3> HIDE DEF TypeOK, ConsumerTypeOK, CommandDoc, CheckInMsg, WorkerState,
                 Status
    <3> QED
      BY <1>3, <2>1, SetStatus DEF SweepSave
  <2>3. UNCHANGED <<now, worker>> /\ sweep' = sweep \ {c}
    BY <1>3 DEF SweepSave
  <2> QED
    BY ZenonT(60), <2>2, <2>3
<1>4. ASSUME NEW d \in Device, CheckIn(d)
      PROVE  QueuedInv'
  BY <1>4 DEF CheckIn
<1>5. ASSUME BeginDrain
      PROVE  QueuedInv'
  BY <1>5 DEF BeginDrain, Receive, Drainable, IdleWorker
<1>6. ASSUME NEW c \in Command, TakeCommand(c)
      PROVE  QueuedInv'
  <2>1. cmds[c].status # "none" /\ c \in worker.rest
    BY <1>6, TakenOne
  <2>2. \A e \in Command : cmds'[e].status = "none" => cmds[e].status = "none"
    BY <1>6, TakenOne
  <2>3. /\ worker.at = "iterating" /\ worker.cur = Nothing
        /\ worker'.dev = worker.dev /\ worker'.rest = worker.rest \ {c}
        /\ \/ worker'.at = "iterating" /\ worker'.cur = Nothing
           \/ worker'.at = "pushing" /\ worker'.cur = c
        /\ UNCHANGED <<now, sweep>>
    BY <1>6, TakenOne
  <2>4. \A e \in Command : /\ cmds'[e].dev = cmds[e].dev
                           /\ cmds'[e].createdAt = cmds[e].createdAt
    BY <1>6, TakenOne
  <2> QED
    BY SMTT(30), <2>1, <2>2, <2>3, <2>4
<1>7. ASSUME NEW ok \in BOOLEAN, Push(ok)
      PROVE  QueuedInv'
  BY <1>7 DEF Push, ResultStatus
<1>8. ASSUME RecordResult
      PROVE  QueuedInv'
  BY <1>8 DEF RecordResult
<1>9. ASSUME FinishDrain
      PROVE  QueuedInv'
  BY <1>9 DEF FinishDrain, Commit, OffsetAfterMessage, IdleWorker
<1>10. ASSUME DateError
      PROVE  QueuedInv'
  BY <1>10 DEF DateError, IdleWorker
<1>11. ASSUME PushUnreported
      PROVE  QueuedInv'
  BY <1>11 DEF PushUnreported, CallFails, ResultStatus
<1>12. ASSUME Abort
      PROVE  QueuedInv'
  BY <1>12 DEF Abort, CallFails, CutsAfterLoss, IdleWorker
<1>13. ASSUME WorkerCrash
      PROVE  QueuedInv'
  BY <1>13 DEF WorkerCrash, Die, CutsAfterLoss, IdleWorker
<1>14. ASSUME ServiceCrash
      PROVE  QueuedInv'
  BY <1>14 DEF ServiceCrash
<1>15. ASSUME Tick
      PROVE  QueuedInv'
  BY <1>15 DEF Tick
<1>16. ASSUME CommitPushMessage
      PROVE  QueuedInv'
  BY <1>16 DEF CommitPushMessage, CommitElsewhere, Commit, OffsetAfterMessage
<1>17. CASE UNCHANGED vars
  BY <1>17 DEF vars
<1> QED
  BY <1>1, <1>2, <1>3, <1>4, <1>5, <1>6, <1>7, <1>8, <1>9, <1>10, <1>11,
     <1>12, <1>13, <1>14, <1>15, <1>16, <1>17 DEF Next, Sweep, Drain

\* What is older than a command in hand has been handled or is in hand too.
LEMMA OrderStep ==
  ASSUME TypeOK, QueuedInv, OrderInv, [Next]_vars
  PROVE  OrderInv'
<1> USE QueueAssumption
    DEF TypeOK, ConsumerTypeOK, CommandDoc, CheckInMsg, WorkerState, Status,
        QueuedInv, OrderInv, InHand, FifoPerDevice
<1>1. ASSUME NEW c \in Command, NEW d \in Device, Queue(c, d)
      PROVE  OrderInv'
  <2>1. /\ \A e \in Command \ {c} : cmds'[e] = cmds[e]
        /\ cmds'[c].createdAt = now
        /\ cmds[c].status = "none" /\ worker' = worker
    BY <1>1, QueuedOne
  <2>2. c \notin worker.rest
        /\ (worker.at \in {"pushing", "updating"} => worker.cur # c)
    BY <2>1
  <2>3. \A e \in worker.rest : cmds'[e] = cmds[e] /\ cmds[e].createdAt <= now
    BY <2>1, <2>2
  <2>4. worker.at \in {"pushing", "updating"} =>
          /\ cmds'[worker.cur] = cmds[worker.cur]
          /\ cmds[worker.cur].createdAt <= now
    BY <2>1, <2>2
  <2>5. now \in Nat /\ \A e \in Command : cmds[e].createdAt \in Nat
    OBVIOUS
  <2>6. \A e \in worker.rest, f \in Command :
          cmds'[f].dev = worker.dev /\ cmds'[f].status = "PENDING"
            /\ cmds'[f].createdAt < cmds'[e].createdAt
          => f \in InHand
    <3>1. SUFFICES ASSUME NEW e \in worker.rest, NEW f \in Command,
                          cmds'[f].dev = worker.dev,
                          cmds'[f].status = "PENDING",
                          cmds'[f].createdAt < cmds'[e].createdAt
                   PROVE  f \in InHand
      OBVIOUS
    <3>2. e \in Command /\ cmds[e].createdAt <= now
          /\ cmds'[f].createdAt < cmds[e].createdAt
      BY <2>3, <3>1
    <3>3. f # c
      BY SMTT(30), <2>1, <2>5, <3>2
    <3> QED
      BY <2>1, <3>1, <3>2, <3>3
  <2>7. worker.at = "pushing" => \A f \in Command :
          cmds'[f].dev = worker.dev
            /\ cmds'[f].createdAt < cmds'[worker.cur].createdAt
          => cmds'[f].status # "PENDING"
    <3>1. SUFFICES ASSUME worker.at = "pushing", NEW f \in Command,
                          cmds'[f].dev = worker.dev,
                          cmds'[f].createdAt < cmds'[worker.cur].createdAt
                   PROVE  cmds'[f].status # "PENDING"
      OBVIOUS
    <3>2. worker.cur \in Command /\ cmds[worker.cur].createdAt <= now
          /\ cmds'[f].createdAt < cmds[worker.cur].createdAt
      BY <2>4, <3>1
    <3>3. f # c
      BY <2>1, <2>5, <3>2
    <3> QED
      BY <2>1, <3>1, <3>2, <3>3
  <2> QED
    BY <2>1, <2>3, <2>4, <2>6, <2>7
<1>2. ASSUME SweepRead
      PROVE  OrderInv'
  BY <1>2 DEF SweepRead, StaleCommands
<1>3. ASSUME NEW c \in Command, SweepSave(c)
      PROVE  OrderInv'
  <2>1. "EXPIRED" \in Status
    BY DEF Status
  <2>2. \A e \in Command :
          /\ cmds'[e].dev = cmds[e].dev
          /\ cmds'[e].createdAt = cmds[e].createdAt
          /\ cmds'[e].status = IF e = c THEN "EXPIRED" ELSE cmds[e].status
    <3> HIDE DEF TypeOK, ConsumerTypeOK, CommandDoc, CheckInMsg, WorkerState,
                 Status
    <3> QED
      BY ZenonT(60), <1>3, <2>1, SetStatus DEF SweepSave
  <2>3. UNCHANGED worker
    BY <1>3 DEF SweepSave
  <2> QED
    BY ZenonT(60), <2>2, <2>3
<1>4. ASSUME NEW d \in Device, CheckIn(d)
      PROVE  OrderInv'
  BY <1>4 DEF CheckIn
<1>5. ASSUME BeginDrain
      PROVE  OrderInv'
  BY <1>5 DEF BeginDrain, Receive, Drainable, IdleWorker
<1>6. ASSUME NEW c \in Command, TakeCommand(c)
      PROVE  OrderInv'
  <2>1. /\ c \in worker.rest /\ worker.cur = Nothing
        /\ \A e \in worker.rest : cmds[c].createdAt <= cmds[e].createdAt
        /\ worker'.rest = worker.rest \ {c} /\ worker'.dev = worker.dev
        /\ \A e \in Command :
             /\ cmds'[e].dev = cmds[e].dev
             /\ cmds'[e].createdAt = cmds[e].createdAt
             /\ cmds'[e].status = "PENDING" => cmds[e].status = "PENDING"
    BY <1>6, TakenOne
  <2>2. CASE worker'.at = "iterating" /\ worker'.cur = worker.cur
             /\ cmds'[c].status = "EXPIRED"
    BY <2>1, <2>2
  <2>3. CASE worker'.at = "pushing" /\ worker'.cur = c /\ cmds' = cmds
    <3>1. \A e \in worker'.rest, f \in Command :
            cmds'[f].dev = worker'.dev /\ cmds'[f].status = "PENDING"
              /\ cmds'[f].createdAt < cmds'[e].createdAt
            => f \in worker'.rest \cup {worker'.cur}
      BY <2>1, <2>3
    <3>2. \A e \in worker'.rest : cmds'[worker'.cur].createdAt
                                    <= cmds'[e].createdAt
      BY <2>1, <2>3
    <3>3. ASSUME NEW f \in Command, cmds[f].dev = worker.dev,
                 cmds[f].createdAt < cmds[c].createdAt,
                 cmds[f].status = "PENDING"
          PROVE  FALSE
      <4>1. f \in worker.rest
        BY <2>1, <3>3
      <4>2. cmds[c].createdAt \in Nat /\ cmds[f].createdAt \in Nat
        OBVIOUS
      <4> QED
        BY <2>1, <3>3, <4>1, <4>2
    <3> QED
      BY <2>1, <2>3, <3>1, <3>2, <3>3
  <2> QED
    BY <1>6, <2>2, <2>3, TakenOne
<1>7. ASSUME NEW ok \in BOOLEAN, Push(ok)
      PROVE  OrderInv'
  BY <1>7 DEF Push, ResultStatus
<1>8. ASSUME RecordResult
      PROVE  OrderInv'
  <2>1. /\ worker.at = "updating" /\ worker.cur \in Command
        /\ worker.result \in {"DELIVERED", "FAILED"}
        /\ worker'.at = "iterating" /\ worker'.rest = worker.rest
        /\ worker'.dev = worker.dev
    BY <1>8, Recorded
  <2>2. \A e \in Command :
          /\ cmds'[e].dev = cmds[e].dev
          /\ cmds'[e].createdAt = cmds[e].createdAt
          /\ cmds'[e].status = "PENDING"
               => e # worker.cur /\ cmds[e].status = "PENDING"
    BY <1>8, <2>1, Recorded
  <2> QED
    BY SMTT(30), <2>1, <2>2
<1>9. ASSUME FinishDrain
      PROVE  OrderInv'
  BY <1>9 DEF FinishDrain, Commit, OffsetAfterMessage, IdleWorker
<1>10. ASSUME DateError
      PROVE  OrderInv'
  BY <1>10 DEF DateError, IdleWorker
<1>11. ASSUME PushUnreported
      PROVE  OrderInv'
  BY <1>11 DEF PushUnreported, CallFails, ResultStatus
<1>12. ASSUME Abort
      PROVE  OrderInv'
  BY <1>12 DEF Abort, CallFails, CutsAfterLoss, IdleWorker
<1>13. ASSUME WorkerCrash
      PROVE  OrderInv'
  BY <1>13 DEF WorkerCrash, Die, CutsAfterLoss, IdleWorker
<1>14. ASSUME ServiceCrash
      PROVE  OrderInv'
  BY <1>14 DEF ServiceCrash
<1>15. ASSUME Tick
      PROVE  OrderInv'
  BY <1>15 DEF Tick
<1>16. ASSUME CommitPushMessage
      PROVE  OrderInv'
  BY <1>16 DEF CommitPushMessage, CommitElsewhere, Commit, OffsetAfterMessage
<1>17. CASE UNCHANGED vars
  BY <1>17 DEF vars
<1> QED
  BY <1>1, <1>2, <1>3, <1>4, <1>5, <1>6, <1>7, <1>8, <1>9, <1>10, <1>11,
     <1>12, <1>13, <1>14, <1>15, <1>16, <1>17 DEF Next, Sweep, Drain

\* Pushes, what was recorded of them and what was lost stay in balance.
LEMMA HonestStep ==
  ASSUME TypeOK, HonestInv, [Next]_vars
  PROVE  HonestInv'
<1> USE QueueAssumption
    DEF TypeOK, ConsumerTypeOK, CommandDoc, CheckInMsg, WorkerState, Status,
        HonestInv, StatusIsHonest, Unrecorded
<1>1. ASSUME NEW c \in Command, NEW d \in Device, Queue(c, d)
      PROVE  HonestInv'
  BY SMTT(30), <1>1 DEF Queue
<1>2. ASSUME SweepRead
      PROVE  HonestInv'
  BY <1>2 DEF SweepRead, StaleCommands
<1>3. ASSUME NEW c \in Command, SweepSave(c)
      PROVE  HonestInv'
  BY ZenonT(60), <1>3 DEF SweepSave
<1>4. ASSUME NEW d \in Device, CheckIn(d)
      PROVE  HonestInv'
  BY <1>4 DEF CheckIn
<1>5. ASSUME BeginDrain
      PROVE  HonestInv'
  BY <1>5 DEF BeginDrain, Receive, Drainable, IdleWorker
<1>6. ASSUME NEW c \in Command, TakeCommand(c)
      PROVE  HonestInv'
  <2>1. /\ worker.at = "iterating" /\ worker'.at # "updating"
        /\ UNCHANGED <<pushes, cuts>>
    BY <1>6, TakenOne
  <2>2. \A e \in Command :
          \/ cmds'[e].status = cmds[e].status
          \/ cmds'[e].status = "EXPIRED"
    BY <1>6, TakenOne
  <2> QED
    BY <2>1, <2>2
<1>7. ASSUME NEW ok \in BOOLEAN, Push(ok)
      PROVE  HonestInv'
  <2>1. /\ worker.at = "pushing" /\ worker.cur \in Command
        /\ worker'.at = "updating" /\ worker'.done = ok
        /\ worker'.cur = worker.cur
        /\ UNCHANGED <<cmds, cuts>>
    BY <1>7, Pushed
  <2>2. CASE ok
    <3>1. \A c \in Command :
            pushes'[c] = IF c = worker.cur THEN pushes[c] + 1 ELSE pushes[c]
      BY <1>7, <2>2, Pushed
    <3> QED
      BY <2>1, <2>2, <3>1
  <2>3. CASE ~ok
    <3>1. /\ \A c \in Command : pushes'[c] = pushes[c]
          /\ worker'.result = "FAILED"
      BY <1>7, <2>3, Pushed
    <3> QED
      BY <2>1, <2>3, <3>1
  <2> QED
    BY <2>2, <2>3
<1>8. ASSUME RecordResult
      PROVE  HonestInv'
  BY <1>8 DEF RecordResult
<1>9. ASSUME FinishDrain
      PROVE  HonestInv'
  BY <1>9 DEF FinishDrain, Commit, OffsetAfterMessage, IdleWorker
<1>10. ASSUME DateError
      PROVE  HonestInv'
  BY <1>10 DEF DateError, IdleWorker
<1>11. ASSUME PushUnreported
      PROVE  HonestInv'
  <2>1. /\ worker.at = "pushing" /\ worker.cur \in Command
        /\ worker'.at = "updating" /\ worker'.done = TRUE
        /\ worker'.cur = worker.cur /\ worker'.result = "FAILED"
        /\ UNCHANGED <<cmds, cuts>>
    BY <1>11, PushedUnreported
  <2>2. \A c \in Command :
          pushes'[c] = IF c = worker.cur THEN pushes[c] + 1 ELSE pushes[c]
    BY <1>11, PushedUnreported
  <2> QED
    BY SMTT(30), <2>1, <2>2
<1>12. ASSUME Abort
      PROVE  HonestInv'
  BY SMTT(30), <1>12 DEF Abort, CallFails, CutsAfterLoss, IdleWorker
<1>13. ASSUME WorkerCrash
      PROVE  HonestInv'
  BY SMTT(30), <1>13 DEF WorkerCrash, Die, CutsAfterLoss, IdleWorker
<1>14. ASSUME ServiceCrash
      PROVE  HonestInv'
  BY <1>14 DEF ServiceCrash
<1>15. ASSUME Tick
      PROVE  HonestInv'
  BY <1>15 DEF Tick
<1>16. ASSUME CommitPushMessage
      PROVE  HonestInv'
  BY <1>16 DEF CommitPushMessage, CommitElsewhere, Commit, OffsetAfterMessage
<1>17. CASE UNCHANGED vars
  BY <1>17 DEF vars
<1> QED
  BY <1>1, <1>2, <1>3, <1>4, <1>5, <1>6, <1>7, <1>8, <1>9, <1>10, <1>11,
     <1>12, <1>13, <1>14, <1>15, <1>16, <1>17 DEF Next, Sweep, Drain

\* A step that neither pushes nor loses a result keeps the balance, unless it
\* puts more in the worker's hands.
LEMMA BalanceKept ==
  ASSUME BalanceInv, UNCHANGED <<pushes, cuts, aborts>>,
         crashes' \in {crashes, crashes + 1}, crashes \in Nat, aborts \in Nat,
         cuts \in [Command -> Nat],
         worker'.cur \notin worker'.rest, ToPush' \subseteq ToPush,
         \A c \in Command : Unrecorded(c)' => Unrecorded(c)
  PROVE  BalanceInv'
<1>1. PushedOnce'
  BY DEF BalanceInv, PushedOnce
<1> QED
  BY <1>1 DEF BalanceInv

\* No step pushes a command again whose push was not cut.
LEMMA BalanceStep ==
  ASSUME TypeOK, QueuedInv, StatusIsHonest, BalanceInv, [Next]_vars
  PROVE  BalanceInv'
<1>1. /\ worker \in WorkerState /\ crashes \in Nat /\ aborts \in Nat
      /\ cuts \in [Command -> Nat] /\ pushes \in [Command -> Nat]
  BY DEF TypeOK, ConsumerTypeOK
<1>2. ASSUME UNCHANGED <<worker, pushes, cuts, aborts>>,
             crashes' \in {crashes, crashes + 1}
      PROVE  BalanceInv'
  BY <1>1, <1>2, BalanceKept DEF BalanceInv, ToPush, Unrecorded
<1>3. ASSUME NEW c \in Command, NEW d \in Device,
             Queue(c, d)
      PROVE  BalanceInv'
  BY <1>2, <1>3 DEF Queue
<1>4. ASSUME NEW c \in Command, SweepSave(c)
      PROVE  BalanceInv'
  BY <1>2, <1>4 DEF SweepSave
<1>5. ASSUME NEW d \in Device, CheckIn(d)
      PROVE  BalanceInv'
  BY <1>2, <1>5 DEF CheckIn
<1>6. ASSUME SweepRead \/ CommitPushMessage \/ ServiceCrash \/ Tick
               \/ UNCHANGED vars
      PROVE  BalanceInv'
  BY <1>1, <1>2, <1>6
     DEF SweepRead, CommitPushMessage, CommitElsewhere, Commit, ServiceCrash,
         Tick, vars
<1>7. ASSUME BeginDrain
      PROVE  BalanceInv'
  <2>1. /\ worker.at = "idle" /\ worker'.at = "iterating"
        /\ worker'.cur = Nothing /\ worker'.rest \subseteq Command
        /\ \A c \in worker'.rest : cmds[c].status = "PENDING"
        /\ UNCHANGED <<pushes, cuts, aborts>>
    BY <1>7, HandedOut
  <2>2. crashes' = crashes
    BY <1>7 DEF BeginDrain, Receive
  <2>3. \A c \in worker'.rest : pushes[c] = cuts[c]
    BY <2>1 DEF StatusIsHonest, Unrecorded
  <2>4. worker'.cur \notin worker'.rest
    BY <2>1, QueueAssumption
  <2> QED
    BY <2>1, <2>2, <2>3, <2>4 DEF BalanceInv, ToPush, Unrecorded, PushedOnce
<1>8. ASSUME NEW c \in Command, TakeCommand(c)
      PROVE  BalanceInv'
  <2>1. /\ worker.at = "iterating" /\ c \in worker.rest
        /\ worker'.rest = worker.rest \ {c}
        /\ \/ worker'.at = "iterating" /\ worker'.cur = worker.cur
           \/ worker'.at = "pushing" /\ worker'.cur = c
        /\ UNCHANGED <<pushes, cuts, aborts>>
    BY <1>8, TakenOne
  <2>2. crashes' = crashes
    BY <1>8 DEF TakeCommand
  <2>3. worker'.cur \notin worker'.rest
    BY <2>1 DEF BalanceInv
  <2>4. ToPush' \subseteq ToPush
    BY <2>1 DEF ToPush
  <2>5. \A e \in Command : ~Unrecorded(e)'
    BY <2>1 DEF Unrecorded
  <2> QED
    BY <1>1, <2>1, <2>2, <2>3, <2>4, <2>5, BalanceKept
<1>9. ASSUME worker.at = "pushing", worker.cur \in Command,
             worker'.at = "updating", worker'.cur = worker.cur,
             worker'.rest = worker.rest, worker'.done \in BOOLEAN,
             \A c \in Command :
               pushes'[c] = IF worker'.done /\ c = worker.cur
                            THEN pushes[c] + 1 ELSE pushes[c],
             UNCHANGED <<cuts, crashes>>, aborts' \in {aborts, aborts + 1}
      PROVE  BalanceInv'
  <2>1. pushes[worker.cur] = cuts[worker.cur]
    BY <1>9 DEF BalanceInv, ToPush
  <2>2. \A c \in worker.rest :
          c \in Command /\ pushes'[c] = pushes[c] /\ pushes[c] = cuts[c]
    BY <1>1, <1>9 DEF BalanceInv, ToPush, WorkerState
  <2>3. \A c \in Command : Unrecorded(c)' => pushes'[c] = cuts'[c] + 1
    BY <1>9, <2>1 DEF Unrecorded
  <2>4. ASSUME NEW c \in Command
        PROVE  pushes'[c] <= 1 + cuts'[c] /\ cuts'[c] <= crashes' + aborts'
    <3>1. /\ cuts[c] \in Nat /\ pushes[c] \in Nat
          /\ pushes[c] <= 1 + cuts[c] /\ cuts[c] <= crashes + aborts
      BY <1>1 DEF BalanceInv, PushedOnce
    <3>2. cuts'[c] = cuts[c] /\ cuts[c] <= crashes' + aborts'
      BY <1>1, <1>9, <3>1
    <3>3. pushes'[c] <= 1 + cuts[c]
      BY <1>9, <2>1, <3>1
    <3> QED
      BY <3>2, <3>3
  <2> QED
    BY <1>9, <2>2, <2>3, <2>4 DEF BalanceInv, ToPush, PushedOnce
<1>10. ASSUME NEW ok \in BOOLEAN, Push(ok)
       PROVE  BalanceInv'
  <2>1. /\ worker.at = "pushing" /\ worker.cur \in Command
        /\ worker'.at = "updating" /\ worker'.cur = worker.cur
        /\ worker'.rest = worker.rest /\ worker'.done = ok
        /\ \A c \in Command :
             pushes'[c] = IF ok /\ c = worker.cur THEN pushes[c] + 1
                          ELSE pushes[c]
        /\ UNCHANGED <<cuts, aborts>>
    BY <1>10, Pushed
  <2>2. crashes' = crashes
    BY <1>10 DEF Push
  <2> QED
    BY <1>9, <2>1, <2>2
<1>11. ASSUME PushUnreported
       PROVE  BalanceInv'
  <2>1. /\ worker.at = "pushing" /\ worker.cur \in Command
        /\ worker'.at = "updating" /\ worker'.cur = worker.cur
        /\ worker'.rest = worker.rest /\ worker'.done = TRUE
        /\ \A c \in Command :
             pushes'[c] = IF c = worker.cur THEN pushes[c] + 1 ELSE pushes[c]
        /\ cuts' = cuts /\ aborts' = aborts + 1
    BY <1>11, PushedUnreported
  <2>2. crashes' = crashes
    BY <1>11 DEF PushUnreported, CallFails
  <2> QED
    BY <1>9, <2>1, <2>2
<1>12. ASSUME RecordResult
       PROVE  BalanceInv'
  <2>1. /\ worker'.at = "iterating" /\ worker'.cur = Nothing
        /\ worker'.rest = worker.rest /\ UNCHANGED <<pushes, cuts, aborts>>
    BY <1>12, Recorded
  <2>2. crashes' = crashes
    BY <1>12 DEF RecordResult
  <2>3. worker'.cur \notin worker'.rest
    BY <1>1, <2>1, QueueAssumption DEF WorkerState
  <2>4. ToPush' \subseteq ToPush /\ \A e \in Command : ~Unrecorded(e)'
    BY <2>1 DEF ToPush, Unrecorded
  <2> QED
    BY <1>1, <2>1, <2>2, <2>3, <2>4, BalanceKept
<1>13. ASSUME FinishDrain \/ DateError
       PROVE  BalanceInv'
  <2>1. /\ UNCHANGED <<pushes, cuts, aborts, crashes>>
        /\ worker' = IdleWorker(worker.dev)
    BY <1>13 DEF FinishDrain, DateError, Commit
  <2>2. /\ worker'.cur \notin worker'.rest /\ ToPush' \subseteq ToPush
        /\ \A e \in Command : ~Unrecorded(e)'
    BY <2>1, IdleAfterwards DEF ToPush, Unrecorded
  <2> QED
    BY <1>1, <2>1, <2>2, BalanceKept
<1>14. ASSUME Abort \/ WorkerCrash
       PROVE  BalanceInv'
  <2>1. /\ pushes' = pushes /\ cuts' = CutsAfterLoss
        /\ worker' = IdleWorker(worker.dev)
        /\ \/ crashes' = crashes /\ aborts' = aborts + 1
           \/ crashes' = crashes + 1 /\ aborts' = aborts
    BY <1>14 DEF Abort, WorkerCrash, CallFails, Die
  <2>2. /\ worker'.cur \notin worker'.rest /\ ToPush' = {}
        /\ \A e \in Command : ~Unrecorded(e)'
    BY <2>1, IdleAfterwards DEF ToPush, Unrecorded
  <2>3. ASSUME NEW c \in Command
        PROVE  pushes'[c] <= 1 + cuts'[c] /\ cuts'[c] <= crashes' + aborts'
    <3>1. /\ cuts[c] \in Nat /\ pushes[c] \in Nat
          /\ pushes[c] <= 1 + cuts[c] /\ cuts[c] <= crashes + aborts
      BY <1>1 DEF BalanceInv, PushedOnce
    <3>2. cuts'[c] \in {cuts[c], cuts[c] + 1}
      BY <1>1, <2>1 DEF CutsAfterLoss
    <3>3. crashes' + aborts' = crashes + aborts + 1
      BY <1>1, <2>1
    <3> QED
      BY ONLY <1>1, <2>1, <3>1, <3>2, <3>3
  <2> QED
    BY <2>2, <2>3 DEF BalanceInv, PushedOnce
<1> QED
  BY <1>3, <1>4, <1>5, <1>6, <1>7, <1>8, <1>10, <1>11, <1>12, <1>13, <1>14
     DEF Next, Sweep, Drain

\* Commands wait in messages that are on the topic.
LEMMA Waiting ==
  ASSUME TypeOK
  PROVE  /\ \A i \in 1..Len(topic) : topic[i].waiting \subseteq Command
         /\ pos \in 0..Len(topic) /\ \A i \in 1..pos : i \in 1..Len(topic)
<1>1. /\ \A i \in 1..Len(topic) : topic[i] \in CheckInMsg
      /\ pos \in 0..Len(topic) /\ Len(topic) \in Nat
  BY DEF TypeOK, ConsumerTypeOK
<1> QED
  BY <1>1 DEF CheckInMsg

\* A check-in stays in hand until nothing it waited for is pending.
LEMMA ServedStep ==
  ASSUME TypeOK, QueuedInv, ServedInv, [Next]_vars
  PROVE  ServedInv'
<1> USE QueueAssumption
    DEF TypeOK, ConsumerTypeOK, CommandDoc, CheckInMsg, WorkerState, Status,
        QueuedInv, ServedInv, InHand
<1>1. ASSUME NEW c \in Command, NEW d \in Device, Queue(c, d)
      PROVE  ServedInv'
  <2>1. /\ \A e \in Command \ {c} : cmds'[e] = cmds[e]
        /\ cmds[c].status = "none"
        /\ UNCHANGED <<tzAware, topic, pos, committed, worker, aborts>>
    BY <1>1, QueuedOne
  <2> HIDE DEF TypeOK, ConsumerTypeOK, CommandDoc, CheckInMsg, WorkerState,
               Status
  <2>2. \A i \in 1..Len(topic) :
          /\ topic[i].waiting \subseteq Command
          /\ c \notin topic[i].waiting
    BY <2>1, Waiting
  <2>3. \A i \in 1..Len(topic) : \A e \in topic[i].waiting : cmds'[e] = cmds[e]
    BY <2>1, <2>2
  <2>4. \A i \in 1..pos : i \in 1..Len(topic)
    BY Waiting
  <2> QED
    BY <2>1, <2>3, <2>4
<1>2. ASSUME SweepRead
      PROVE  ServedInv'
  BY <1>2 DEF SweepRead, StaleCommands
<1>3. ASSUME NEW c \in Command, SweepSave(c)
      PROVE  ServedInv'
  BY SMTT(30), <1>3 DEF SweepSave
<1>4. ASSUME NEW d \in Device, CheckIn(d)
      PROVE  ServedInv'
  BY <1>4 DEF CheckIn
<1>5. ASSUME BeginDrain
      PROVE  ServedInv'
  <2>1. /\ worker.at = "idle" /\ pos' = pos + 1 /\ pos' \in 1..Len(topic)
        /\ worker'.at = "iterating" /\ worker'.dev = topic[pos'].dev
        /\ worker'.rest = {c \in Command : cmds[c].dev = topic[pos'].dev
                                            /\ cmds[c].status = "PENDING"}
        /\ UNCHANGED <<tzAware, cmds, topic, committed, aborts>>
    BY <1>5, HandedOut
  <2>2. \A i \in 1..Len(topic) : topic[i].waiting \subseteq Command
    BY Waiting
  <2>3. \A c \in topic[pos'].waiting :
          cmds[c].status = "PENDING" => c \in worker'.rest
    BY <2>1, <2>2
  <2>4. committed' < pos'
    BY <2>1
  <2> QED
    BY <2>1, <2>3, <2>4
<1>6. ASSUME NEW c \in Command, TakeCommand(c)
      PROVE  ServedInv'
  <2>1. /\ worker.at = "iterating" /\ worker'.at # "idle"
        /\ worker.cur = Nothing
        /\ worker'.dev = worker.dev /\ worker'.rest = worker.rest \ {c}
        /\ UNCHANGED <<tzAware, topic, pos, committed, aborts>>
    BY <1>6, TakenOne
  <2>2. \A i \in 1..Len(topic) : topic[i].waiting \subseteq Command
    BY Waiting
  <2>3. /\ \A e \in Command : /\ cmds'[e].dev = cmds[e].dev
                              /\ e # c => cmds'[e].status = cmds[e].status
        /\ cmds'[c].status # "none"
        /\ cmds'[c].status = "PENDING" => worker'.cur = c
    <3>1. c \in worker.rest /\ cmds[c].status # "none"
      BY <1>6, TakenOne
    <3> HIDE DEF TypeOK, ConsumerTypeOK, CommandDoc, CheckInMsg, WorkerState,
                 Status, QueuedInv, ServedInv
    <3> QED
      BY <1>6, <3>1, TakenOne
  <2>4. \A i \in 1..pos : i \in 1..Len(topic)
    BY Waiting
  <2> HIDE DEF TypeOK, ConsumerTypeOK, CommandDoc, CheckInMsg, WorkerState,
               Status
  <2>5. c \in InHand' <=> worker'.cur = c
    BY <2>1
  <2>6. \A e \in Command \ {c} : e \in InHand => e \in InHand'
    BY <2>1, QueueAssumption
  <2>7. \A e \in Command :
          /\ cmds[e].status # "none" =>
               cmds'[e].status # "none" /\ cmds'[e].dev = cmds[e].dev
          /\ cmds'[e].status = "PENDING" =>
               /\ e # c => cmds[e].status = "PENDING"
               /\ e \in InHand \/ e = c => e \in InHand'
    BY <2>3, <2>5, <2>6
  <2>8. cmds[c].status = "PENDING" \/ cmds'[c].status # "PENDING"
    BY <1>6, TakenOne
  <2>9. \A i \in 1..Len(topic) : \A e \in topic[i].waiting :
          cmds'[e].status # "none" /\ cmds'[e].dev = topic[i].dev
    BY <2>2, <2>7
  <2>10. tzAware /\ aborts = 0 =>
           \A i \in 1..pos : \A e \in topic[i].waiting :
             cmds'[e].status = "PENDING" => i = pos /\ e \in InHand'
    BY <2>2, <2>4, <2>7, <2>8
  <2> QED
    BY <2>1, <2>9, <2>10
<1>7. ASSUME NEW ok \in BOOLEAN, Push(ok)
      PROVE  ServedInv'
  BY <1>7 DEF Push, ResultStatus
<1>8. ASSUME RecordResult
      PROVE  ServedInv'
  <2>1. /\ worker.at = "updating" /\ worker'.at = "iterating"
        /\ worker.result \in {"DELIVERED", "FAILED"}
        /\ worker'.dev = worker.dev /\ worker'.rest = worker.rest
        /\ UNCHANGED <<tzAware, topic, pos, committed, aborts>>
    BY <1>8, Recorded
  <2>2. \A i \in 1..Len(topic) : topic[i].waiting \subseteq Command
    BY Waiting
  <2>3. \A e \in Command :
          /\ cmds'[e].dev = cmds[e].dev
          /\ cmds'[e].status # cmds[e].status
               => e = worker.cur /\ cmds'[e].status = worker.result
          /\ e = worker.cur => cmds'[e].status = worker.result
    BY <1>8, Recorded
  <2>4. \A i \in 1..pos : i \in 1..Len(topic)
    BY Waiting
  <2> HIDE DEF TypeOK, ConsumerTypeOK, CommandDoc, CheckInMsg, WorkerState,
               Status
  <2>5. \A e \in Command : cmds'[e].status = "PENDING" =>
          /\ cmds[e].status = "PENDING"
          /\ e \in InHand => e \in InHand'
    BY <2>1, <2>3
  <2>6. \A e \in Command :
          cmds[e].status # "none" =>
            cmds'[e].status # "none" /\ cmds'[e].dev = cmds[e].dev
    BY <2>1, <2>3
  <2>7. \A i \in 1..Len(topic) : \A e \in topic[i].waiting :
          cmds'[e].status # "none" /\ cmds'[e].dev = topic[i].dev
    BY <2>2, <2>6
  <2>8. tzAware /\ aborts = 0 =>
          \A i \in 1..pos : \A e \in topic[i].waiting :
            cmds'[e].status = "PENDING" => i = pos /\ e \in InHand'
    BY <2>2, <2>4, <2>5
  <2> QED
    BY <2>1, <2>7, <2>8
<1>9. ASSUME FinishDrain
      PROVE  ServedInv'
  <2>1. /\ worker.at = "iterating" /\ worker.rest = {} /\ worker.cur = Nothing
        /\ UNCHANGED <<tzAware, cmds, topic, pos, aborts>>
    BY <1>9 DEF FinishDrain, Commit
  <2>2. worker'.at = "idle"
    BY <1>9, IdleAfterwards DEF FinishDrain, Commit
  <2>3. \A i \in 1..Len(topic) : topic[i].waiting \subseteq Command
    BY Waiting
  <2>4. Nothing \notin Command
    OBVIOUS
  <2>5. \A i \in 1..pos : i \in 1..Len(topic)
    BY Waiting
  <2>6. InHand \cap Command = {}
    BY <2>1, <2>4
  <2> QED
    BY <2>1, <2>2, <2>3, <2>5, <2>6
<1>10. ASSUME DateError
      PROVE  ServedInv'
  <2>1. ~tzAware' /\ UNCHANGED <<cmds, topic, pos, committed>>
    BY <1>10 DEF DateError, CanCompareDates
  <2>2. worker'.at = "idle"
    BY <1>10, IdleAfterwards DEF DateError
  <2> QED
    BY <2>1, <2>2
<1>11. ASSUME PushUnreported
      PROVE  ServedInv'
  BY <1>11 DEF PushUnreported, CallFails, ResultStatus
<1>12. ASSUME Abort
      PROVE  ServedInv'
  BY <1>12 DEF Abort, CallFails, CutsAfterLoss, IdleWorker
<1>13. ASSUME WorkerCrash
      PROVE  ServedInv'
  BY <1>13 DEF WorkerCrash, Die, CutsAfterLoss, IdleWorker
<1>14. ASSUME ServiceCrash
      PROVE  ServedInv'
  <2>1. UNCHANGED <<tzAware, cmds, topic, pos, committed, worker, aborts>>
    BY <1>14 DEF ServiceCrash
  <2> QED
    BY <2>1
<1>15. ASSUME Tick
      PROVE  ServedInv'
  BY <1>15 DEF Tick
<1>16. ASSUME CommitPushMessage
      PROVE  ServedInv'
  BY <1>16 DEF CommitPushMessage, CommitElsewhere, Commit, OffsetAfterMessage
<1>17. CASE UNCHANGED vars
  BY <1>17 DEF vars
<1> QED
  BY <1>1, <1>2, <1>3, <1>4, <1>5, <1>6, <1>7, <1>8, <1>9, <1>10, <1>11,
     <1>12, <1>13, <1>14, <1>15, <1>16, <1>17 DEF Next, Sweep, Drain

-----------------------------------------------------------------------------
(* Theorems of the queue *)

\* Type correctness of the documents, the log and the worker.
THEOREM TypeCorrect == Spec => []TypeOK
<1>1. Init => TypeOK
  BY QueueAssumption
     DEF Init, ConsumerInit, TypeOK, ConsumerTypeOK, CommandDoc, CheckInMsg,
         WorkerState, Status, IdleWorker
<1>2. TypeOK /\ [Next]_vars => TypeOK'
  BY TypeStep
<1> QED
  BY <1>1, <1>2, PTL DEF Spec

\* Commands reach a device in the order they were queued, through interrupted
\* drains, sweeps and commands queued meanwhile.
THEOREM CommandsInOrder == Spec => []FifoPerDevice
<1> DEFINE IInv == TypeOK /\ QueuedInv /\ OrderInv
<1>1. Init => IInv
  BY QueueAssumption
     DEF Init, ConsumerInit, TypeOK, ConsumerTypeOK, CommandDoc, CheckInMsg,
         WorkerState, Status, IdleWorker, QueuedInv, OrderInv, FifoPerDevice
<1>2. IInv /\ [Next]_vars => IInv'
  BY TypeStep, QueuedStep, OrderStep
<1>3. IInv => FifoPerDevice
  BY DEF OrderInv
<1> QED
  BY <1>1, <1>2, <1>3, PTL DEF Spec

\* DELIVERED means pushed, and a pending command was never pushed unless the
\* result was lost.
THEOREM HonestStatus == Spec => []StatusIsHonest
<1> DEFINE IInv == TypeOK /\ HonestInv
<1>1. Init => IInv
  BY QueueAssumption
     DEF Init, ConsumerInit, TypeOK, ConsumerTypeOK, CommandDoc, CheckInMsg,
         WorkerState, Status, IdleWorker, HonestInv, StatusIsHonest, Unrecorded
<1>2. IInv /\ [Next]_vars => IInv'
  BY TypeStep, HonestStep
<1>3. IInv => StatusIsHonest
  BY DEF HonestInv
<1> QED
  BY <1>1, <1>2, <1>3, PTL DEF Spec

\* A command is pushed to its device once, and once more at most for every push
\* whose result was lost to a crash or a failing call, whatever check-ins are
\* delivered again and whatever the sweep does meanwhile.
THEOREM CommandsArePushedOnce == Spec => []PushedOnce
<1> DEFINE IInv == TypeOK /\ QueuedInv /\ HonestInv /\ BalanceInv
<1>1. Init => IInv
  BY QueueAssumption
     DEF Init, ConsumerInit, TypeOK, ConsumerTypeOK, CommandDoc, CheckInMsg,
         WorkerState, Status, IdleWorker, QueuedInv, HonestInv, StatusIsHonest,
         Unrecorded, BalanceInv, PushedOnce, ToPush
<1>2. IInv /\ [Next]_vars => IInv'
  BY TypeStep, QueuedStep, HonestStep, BalanceStep DEF HonestInv
<1>3. IInv => PushedOnce
  BY DEF BalanceInv
<1> QED
  BY <1>1, <1>2, <1>3, PTL DEF Spec

\* When the worker is through with a check-in, nothing that was waiting for the
\* device then is still pending, through any number of crashes.
THEOREM CheckInsAreServed == Spec => []CheckInServed
<1> DEFINE IInv == TypeOK /\ QueuedInv /\ ServedInv
<1>1. Init => IInv
  BY QueueAssumption
     DEF Init, ConsumerInit, TypeOK, ConsumerTypeOK, CommandDoc, CheckInMsg,
         WorkerState, Status, IdleWorker, QueuedInv, ServedInv
<1>2. IInv /\ [Next]_vars => IInv'
  BY TypeStep, QueuedStep, ServedStep
<1>3. IInv => CheckInServed
  BY DEF ServedInv, CheckInServed
<1> QED
  BY <1>1, <1>2, <1>3, PTL DEF Spec

-----------------------------------------------------------------------------
(* The job *)

\* The document reports nothing until the routing has finished, what is still
\* to route has left no trace, and no target gets two messages.
RoutingInv ==
  /\ routing => \A d \in Device : doc.delivery[d] = "none"
  /\ \A d \in todo : ~HandedOver(d) /\ d \notin queued
  /\ \A d \in inFlight : ~Sent(d)
  /\ \A i, j \in 1..Len(topic) : topic[i] = topic[j] => i = j

\* The targets whose message was handed to the producer.
HandedTo == {d \in Device : HandedOver(d)}

\* The counts in memory agree with what was handed over and queued so far, and
\* become those of the document once nothing is left to route.
CountInv ==
  kind = "routed" =>
    /\ mem.success = Cardinality(HandedTo)
    /\ mem.queued = Cardinality(queued)
    /\ mem.success + mem.queued + mem.failure + Cardinality(todo)
         = Cardinality(Device)
    /\ \/ \A d \in Device : doc.delivery[d] = "none"
       \/ /\ ~routing /\ todo = {}
          /\ doc.success = mem.success
          /\ doc.queued = mem.queued
          /\ doc.failure = mem.failure
          /\ doc.status = RoutedStatus(doc)

\* A push pays with the message it was for; any further one, with a crash or
\* a call that failed.
DeliveryInv ==
  /\ worker.at \in {"pushing", "recording"}
       => pos > 0 /\ topic[pos] = worker.dev
  /\ PushesNeedDeliveries
  /\ \A d \in Device :
       \/ \A i \in 1..pos : topic[i] # d
       \/ worker.at = "pushing" /\ worker.dev = d
       => pushes[d] <= crashes + aborts

\* There are finitely many targets.
LEMMA TargetsAreFinite ==
  /\ IsFiniteSet(Device)
  /\ Cardinality({}) = 0 /\ Cardinality(Device) \in Nat
BY DeliveryAssumption, FS_EmptySet, FS_CardinalityType

\* What counting a routed target does to the document in memory.
LEMMA Counted ==
  ASSUME kind \in {"bulk", "routed"}, NEW job \in JobDoc,
         NEW d \in Device, NEW route \in RouteState
  PROVE  /\ CountRoute(job, d, route) \in JobDoc
         /\ CountRoute(job, d, route).status = job.status
         /\ CountRoute(job, d, route).success =
              IF route = "PUBLISHED" THEN job.success + 1 ELSE job.success
         /\ CountRoute(job, d, route).failure =
              IF CountsAsFailure(route) THEN job.failure + 1
              ELSE job.failure
         /\ CountRoute(job, d, route).queued =
              IF kind = "routed" /\ route = "QUEUED" THEN job.queued + 1
              ELSE job.queued
<1> DEFINE perDevice == [job.perDevice EXCEPT ![d] = route]
           delivery == [job.delivery EXCEPT ![d] =
                          IF kind = "routed" THEN route ELSE @]
           success == IF route = "PUBLISHED" THEN job.success + 1
                      ELSE job.success
           failure == IF CountsAsFailure(route) THEN job.failure + 1
                      ELSE job.failure
           waiting == IF kind = "routed" /\ route = "QUEUED"
                      THEN job.queued + 1 ELSE job.queued
<1>1. CountRoute(job, d, route) =
        [job EXCEPT !.perDevice = perDevice, !.delivery = delivery,
                    !.success = success, !.failure = failure,
                    !.queued = waiting]
  BY DEF CountRoute, JobDoc
<1>2. /\ perDevice \in [Device -> RouteState \cup WorkerResult
                                   \cup {"none", "PENDING"}]
      /\ delivery \in [Device -> RouteState \cup {"none"}]
      /\ success \in Nat /\ failure \in Nat /\ waiting \in Nat
  BY DEF JobDoc
<1> DEFINE half == [job EXCEPT !.perDevice = perDevice, !.delivery = delivery,
                               !.success = success]
<1> HIDE DEF perDevice, delivery, success, failure, waiting
<1>3. /\ half \in JobDoc /\ half.status = job.status
      /\ half.success = success
  BY <1>2 DEF JobDoc
<1>4. CountRoute(job, d, route) =
        [half EXCEPT !.failure = failure, !.queued = waiting]
  BY <1>1
<1> HIDE DEF half
<1> DEFINE Full(h, f, w) == [h EXCEPT !.failure = f, !.queued = w]
<1>5. \A h \in JobDoc, f, w \in Nat :
        /\ Full(h, f, w) \in JobDoc
        /\ Full(h, f, w).status = h.status
        /\ Full(h, f, w).success = h.success
        /\ Full(h, f, w).failure = f
        /\ Full(h, f, w).queued = w
  BY DEF JobDoc
<1>6. CountRoute(job, d, route) = Full(half, failure, waiting)
  BY <1>4
<1> HIDE DEF Full
<1>7. /\ CountRoute(job, d, route) \in JobDoc
      /\ CountRoute(job, d, route).status = half.status
      /\ CountRoute(job, d, route).success = half.success
      /\ CountRoute(job, d, route).failure = failure
      /\ CountRoute(job, d, route).queued = waiting
  <2> DEFINE full == Full(half, failure, waiting)
  <2>1. failure \in Nat /\ waiting \in Nat /\ half \in JobDoc
    BY <1>2, <1>3
  <2>2. full \in JobDoc
    BY <1>5, <2>1
  <2>3. full.status = half.status /\ full.success = half.success
    BY <1>5, <2>1
  <2>4. full.failure = failure
    BY <1>5, <2>1
  <2>5. full.queued = waiting
    BY <1>5, <2>1
  <2>6. CountRoute(job, d, route) = full
    BY <1>6
  <2> HIDE DEF full
  <2> QED
    BY <2>2, <2>3, <2>4, <2>5, <2>6
<1> QED
  BY <1>3, <1>7 DEF success, failure, waiting

\* Whatever becomes of the protocol in hand, the worker goes on with another
\* one or has a result.
LEMMA AfterProtocol ==
  ASSUME JobTypeOK, worker.at \in {"pushing", "recording"},
         NEW timeout \in BOOLEAN
  PROVE  /\ AfterFailure(timeout) \in PushState
         /\ AfterFailure(timeout).at \in {"pushing", "recording"}
         /\ AfterFailure(timeout).dev = worker.dev
         /\ AfterFailure(timeout).protocols \in 1..Protocols(kind)
         /\ AfterSuccess \in PushState
         /\ AfterSuccess.at = "recording"
         /\ AfterSuccess.dev = worker.dev
         /\ AfterSuccess.protocols \in 1..Protocols(kind)
<1>1. /\ worker \in PushState
      /\ worker.protocols \in 1..Protocols(kind)
      /\ worker.protocols \in Nat /\ Protocols(kind) \in 1..2
  BY DEF JobTypeOK, ConsumerTypeOK, PushState, Protocols
<1> HIDE DEF JobTypeOK, ConsumerTypeOK
<1>2. FinalFailure(timeout) \in WorkerResult
      /\ "SUCCESS" \in WorkerResult
  BY DEF FinalFailure, WorkerResult
<1>3. /\ AfterSuccess \in PushState
      /\ AfterSuccess.at = "recording"
      /\ AfterSuccess.dev = worker.dev
      /\ AfterSuccess.protocols = worker.protocols
  BY <1>1, <1>2 DEF AfterSuccess, PushState
<1>4. /\ AfterFailure(timeout) \in PushState
      /\ AfterFailure(timeout).at \in {"pushing", "recording"}
      /\ AfterFailure(timeout).dev = worker.dev
      /\ AfterFailure(timeout).protocols \in 1..Protocols(kind)
  <2>1. CASE worker.protocols > 1
    <3>1. AfterFailure(timeout) =
            [at |-> "pushing", dev |-> worker.dev,
             protocols |-> worker.protocols - 1, result |-> worker.result]
      BY <1>1, <2>1 DEF AfterFailure, PushState
    <3>2. /\ worker.dev \in Device /\ worker.result \in WorkerResult
          /\ worker.protocols - 1 \in 0..2
          /\ worker.protocols - 1 \in 1..Protocols(kind)
      BY <1>1, <2>1 DEF PushState
    <3>3. AfterFailure(timeout) \in PushState
      BY <3>1, <3>2 DEF PushState
    <3> QED
      BY <3>1, <3>2, <3>3
  <2>2. CASE ~(worker.protocols > 1)
    <3>1. AfterFailure(timeout) =
            [at |-> "recording", dev |-> worker.dev,
             protocols |-> worker.protocols,
             result |-> FinalFailure(timeout)]
      BY <1>1, <2>2 DEF AfterFailure, PushState
    <3>2. worker.dev \in Device /\ worker.protocols \in 0..2
      BY <1>1 DEF PushState
    <3>3. AfterFailure(timeout) \in PushState
      BY <1>2, <3>1, <3>2 DEF PushState
    <3> QED
      BY <1>1, <3>1, <3>3
  <2> QED
    BY <2>1, <2>2
<1> QED
  BY <1>1, <1>3, <1>4

\* Every step of a job keeps the types.
LEMMA JobTypeStep ==
  ASSUME JobTypeOK, [JobNext]_jobVars
  PROVE  JobTypeOK'
<1> USE DEF JobTypeOK, ConsumerTypeOK, jobSide
<1>1. ASSUME NEW d \in Device, NEW route \in RouteState, NEW sent \in BOOLEAN,
             Route(d, route, sent)
      PROVE  JobTypeOK'
  <2>1. mem' \in JobDoc
    BY <1>1, Counted DEF Route
  <2> QED
    BY <1>1, <2>1 DEF Route, QueueAfter
<1>2. ASSUME FinishRouting
      PROVE  JobTypeOK'
  <2>1. FinalStatus(mem)
          \in {"RUNNING", "RUNNING_QUEUED", "PARTIAL", "COMPLETED"}
    <3>1. mem.queued \in Nat /\ mem.failure \in Nat
      BY DEF JobDoc
    <3> HIDE DEF JobTypeOK, ConsumerTypeOK
    <3>2. mem.queued > 0 \/ mem.queued = 0
      BY <3>1
    <3>3. mem.failure > 0 \/ mem.failure = 0
      BY <3>1
    <3>4. RoutedStatus(mem)
            \in {"RUNNING", "RUNNING_QUEUED", "PARTIAL", "COMPLETED"}
      BY <3>2, <3>3 DEF RoutedStatus
    <3> QED
      BY <3>4 DEF FinalStatus, BulkStatus
  <2>2. mem' \in JobDoc
    BY <1>2, <2>1 DEF FinishRouting, JobDoc
  <2> QED
    BY <1>2, <2>2 DEF FinishRouting
<1>3. ASSUME BeginPush
      PROVE  JobTypeOK'
  BY <1>3 DEF BeginPush, Receive, PushState, WorkerResult, Protocols
<1>4. ASSUME NotFound
      PROVE  JobTypeOK'
  BY <1>4 DEF NotFound, PushState, WorkerResult, Protocols
<1>5. ASSUME PushSucceeds
      PROVE  JobTypeOK'
  <2>1. worker' = AfterSuccess /\ worker.at = "pushing"
    BY <1>5 DEF PushSucceeds
  <2>2. /\ worker' \in PushState
        /\ worker'.protocols \in 1..Protocols(kind)
    BY <2>1, AfterProtocol
  <2>3. pushes' \in [Device -> Nat]
    BY <1>5 DEF PushSucceeds, PushState
  <2> QED
    BY <1>5, <2>2, <2>3 DEF PushSucceeds
<1>6. ASSUME NEW timeout \in BOOLEAN, PushFails(timeout)
      PROVE  JobTypeOK'
  <2>1. worker' = AfterFailure(timeout) /\ worker.at = "pushing"
    BY <1>6 DEF PushFails
  <2>2. /\ worker' \in PushState
        /\ worker'.protocols \in 1..Protocols(kind)
    BY <2>1, AfterProtocol
  <2> QED
    BY <1>6, <2>2 DEF PushFails
<1>7. ASSUME UpdateJob
      PROVE  JobTypeOK'
  <2>1. doc' = [doc EXCEPT !.perDevice =
                  [doc.perDevice EXCEPT ![worker.dev] = worker.result]]
    BY <1>7 DEF UpdateJob, JobDoc
  <2>2. [doc.perDevice EXCEPT ![worker.dev] = worker.result]
          \in [Device -> RouteState \cup WorkerResult
                           \cup {"none", "PENDING"}]
    BY DEF JobDoc, PushState
  <2>3. doc' \in JobDoc
    BY <2>1, <2>2 DEF JobDoc
  <2> QED
    BY <1>7, <2>3 DEF UpdateJob, PushState
<1>8. ASSUME EndPush
      PROVE  JobTypeOK'
  BY <1>8 DEF EndPush, Commit, OffsetAfterMessage, NoPush, PushState,
              WorkerResult, Protocols
<1>9. ASSUME UpdateFails
      PROVE  JobTypeOK'
  <2>1. /\ worker' = AfterFailure(FALSE) /\ worker.at = "recording"
        /\ FALSE \in BOOLEAN
    BY <1>9 DEF UpdateFails, CallFails
  <2>2. /\ worker' \in PushState
        /\ worker'.protocols \in 1..Protocols(kind)
    BY <2>1, AfterProtocol
  <2>3. aborts' \in Nat
    BY <1>9 DEF UpdateFails, CallFails
  <2> QED
    BY <1>9, <2>2, <2>3 DEF UpdateFails, CallFails
<1>10. ASSUME PushRaises
      PROVE  JobTypeOK'
  BY <1>10 DEF PushRaises, CallFails, NoPush, PushState, WorkerResult,
               Protocols
<1>11. ASSUME WorkerDies
      PROVE  JobTypeOK'
  BY <1>11 DEF WorkerDies, Die, NoPush, PushState, WorkerResult, Protocols
<1>12. ASSUME RouterDies
      PROVE  JobTypeOK'
  BY <1>12 DEF RouterDies
<1>13. ASSUME CommitCheckIn
      PROVE  JobTypeOK'
  BY <1>13 DEF CommitCheckIn, CommitElsewhere, Commit, OffsetAfterMessage
<1>14. CASE UNCHANGED jobVars
  BY <1>14 DEF jobVars
<1>15. ASSUME NEW d \in Device, Deliver(d)
       PROVE  JobTypeOK'
  <2>1. topic' \in Seq(Device) /\ Len(topic') = Len(topic) + 1
    BY <1>15 DEF Deliver
  <2> QED
    BY <1>15, <2>1 DEF Deliver
<1>16. ASSUME NEW d \in Device, SendFails(d)
       PROVE  JobTypeOK'
  BY <1>16 DEF SendFails
<1> HIDE DEF JobTypeOK, ConsumerTypeOK, jobSide
<1> QED
  BY <1>1, <1>2, <1>3, <1>4, <1>5, <1>6, <1>7, <1>8, <1>9, <1>10,
     <1>11, <1>12, <1>13, <1>14, <1>15, <1>16 DEF JobNext, Work

\* Every step of a job routes a target at most once, and not after its end.
LEMMA RoutingStep ==
  ASSUME JobTypeOK, RoutingInv,
         [JobNext]_jobVars
  PROVE  RoutingInv'
<1> USE DEF JobTypeOK, ConsumerTypeOK, JobDoc, RoutingInv, Sent, HandedOver,
            jobSide
<1>1. ASSUME NEW d \in Device, NEW route \in RouteState, NEW sent \in BOOLEAN,
             Route(d, route, sent)
      PROVE  RoutingInv'
  <2>1. /\ UNCHANGED <<routing, doc, topic, lost>>
        /\ todo' = todo \ {d} /\ d \in todo
        /\ inFlight' \subseteq inFlight \cup {d}
        /\ queued' \subseteq queued \cup {d}
    BY <1>1 DEF Route, QueueAfter
  <2> HIDE DEF JobTypeOK, ConsumerTypeOK, JobDoc
  <2> QED
    BY <2>1
<1>2. ASSUME FinishRouting
      PROVE  RoutingInv'
  BY <1>2 DEF FinishRouting
<1>3. ASSUME BeginPush
      PROVE  RoutingInv'
  BY <1>3 DEF BeginPush, Receive
<1>4. ASSUME NotFound
      PROVE  RoutingInv'
  BY <1>4 DEF NotFound
<1>5. ASSUME PushSucceeds
      PROVE  RoutingInv'
  BY <1>5 DEF PushSucceeds, AfterSuccess
<1>6. ASSUME NEW timeout \in BOOLEAN, PushFails(timeout)
      PROVE  RoutingInv'
  BY <1>6 DEF PushFails, AfterFailure, FinalFailure
<1>7. ASSUME UpdateJob
      PROVE  RoutingInv'
  BY <1>7 DEF UpdateJob
<1>8. ASSUME EndPush
      PROVE  RoutingInv'
  BY <1>8 DEF EndPush, Commit, OffsetAfterMessage, NoPush
<1>9. ASSUME UpdateFails
      PROVE  RoutingInv'
  BY <1>9 DEF UpdateFails, CallFails, AfterFailure, FinalFailure
<1>10. ASSUME PushRaises
      PROVE  RoutingInv'
  BY <1>10 DEF PushRaises, CallFails, NoPush
<1>11. ASSUME WorkerDies
      PROVE  RoutingInv'
  BY <1>11 DEF WorkerDies, Die, NoPush
<1>12. ASSUME RouterDies
      PROVE  RoutingInv'
  BY <1>12 DEF RouterDies
<1>13. ASSUME CommitCheckIn
      PROVE  RoutingInv'
  BY <1>13 DEF CommitCheckIn, CommitElsewhere, Commit, OffsetAfterMessage
<1>14. CASE UNCHANGED jobVars
  BY <1>14 DEF jobVars
<1>15. ASSUME NEW d \in Device, Deliver(d)
       PROVE  RoutingInv'
  <2>1. /\ topic \in Seq(Device) /\ topic' = Append(topic, d)
        /\ inFlight' = inFlight \ {d} /\ d \in inFlight
        /\ UNCHANGED <<routing, doc, todo, queued, lost>>
    BY <1>15 DEF Deliver
  <2>2. /\ Len(topic) \in Nat /\ Len(topic') = Len(topic) + 1
        /\ topic'[Len(topic) + 1] = d
        /\ \A i \in 1..Len(topic) : topic'[i] = topic[i]
    BY <2>1
  <2>3. \A i \in 1..Len(topic) : topic[i] # d
    BY <2>1
  <2> HIDE DEF JobTypeOK, ConsumerTypeOK, JobDoc
  <2>4. \A e \in Device : Sent(e)' <=> Sent(e) \/ e = d
    BY <2>2
  <2>5. \A e \in todo' : ~HandedOver(e)' /\ e \notin queued'
    BY <2>1, <2>4 DEF JobTypeOK
  <2>6. \A i, j \in 1..Len(topic') : topic'[i] = topic'[j] => i = j
    BY <2>2, <2>3
  <2> QED
    BY <2>1, <2>4, <2>5, <2>6 DEF JobTypeOK
<1>16. ASSUME NEW d \in Device, SendFails(d)
       PROVE  RoutingInv'
  BY <1>16 DEF SendFails
<1> HIDE DEF JobTypeOK, ConsumerTypeOK, JobDoc, RoutingInv, Sent, HandedOver,
            jobSide
<1> QED
  BY <1>1, <1>2, <1>3, <1>4, <1>5, <1>6, <1>7, <1>8, <1>9, <1>10,
     <1>11, <1>12, <1>13, <1>14, <1>15, <1>16 DEF JobNext, Work

\* Steps that leave the routing and the document alone keep the counts,
\* whatever they do with what was handed over.
LEMMA CountRests ==
  ASSUME CountInv, HandedTo' = HandedTo,
         UNCHANGED <<kind, total, doc, mem, todo, queued>>,
         routing' = routing \/ ~routing'
  PROVE  CountInv'
<1>1. RoutedStatus(doc)' = RoutedStatus(doc)
  BY DEF RoutedStatus, AllDone
<1> QED
  BY <1>1 DEF CountInv

\* Every step of a job keeps its counts.
LEMMA CountStep ==
  ASSUME JobTypeOK, RoutingInv, CountInv,
         [JobNext]_jobVars
  PROVE  CountInv'
<1> USE DEF JobTypeOK, ConsumerTypeOK, RoutingInv, CountInv, HandedTo,
            HandedOver, Sent, jobSide
<1>1. ASSUME NEW d \in Device, NEW route \in RouteState, NEW sent \in BOOLEAN,
             Route(d, route, sent)
      PROVE  CountInv'
  <2> SUFFICES ASSUME kind = "routed"
               PROVE  CountInv'
    BY <1>1 DEF Route
  <2>1. /\ UNCHANGED <<routing, doc, kind, topic, lost>> /\ routing
        /\ todo' = todo \ {d} /\ d \in todo
        /\ inFlight' = IF sent THEN inFlight \cup {d} ELSE inFlight
        /\ queued' = IF route = "QUEUED" THEN queued \cup {d} ELSE queued
        /\ route \in {"UNSUPPORTED", "PUBLISHED", "FAILED", "QUEUED"}
        /\ sent <=> route = "PUBLISHED"
    BY <1>1 DEF Route, QueueAfter, RoutesOf, RouteOnSendError
  <2>2. /\ mem'.success = IF route = "PUBLISHED" THEN mem.success + 1
                          ELSE mem.success
        /\ mem'.failure = IF CountsAsFailure(route) THEN mem.failure + 1
                          ELSE mem.failure
        /\ mem'.queued = IF route = "QUEUED" THEN mem.queued + 1
                         ELSE mem.queued
    BY <1>1, Counted DEF Route
  <2>3. /\ IsFiniteSet(HandedTo) /\ IsFiniteSet(queued) /\ IsFiniteSet(todo)
    BY FS_Subset, TargetsAreFinite
  <2>4. HandedTo' = IF sent THEN HandedTo \cup {d} ELSE HandedTo
    BY <2>1
  <2>5. d \notin HandedTo /\ d \notin queued
    BY <2>1
  <2> HIDE DEF JobTypeOK, ConsumerTypeOK, RoutingInv, HandedTo, HandedOver,
           Sent
  <2>6. Cardinality(HandedTo') = IF sent THEN Cardinality(HandedTo) + 1
                               ELSE Cardinality(HandedTo)
    BY <2>3, <2>4, <2>5, FS_AddElement
  <2>7. Cardinality(queued') = IF route = "QUEUED" THEN Cardinality(queued) + 1
                               ELSE Cardinality(queued)
    BY <2>1, <2>3, <2>5, FS_AddElement
  <2>8. Cardinality(todo') = Cardinality(todo) - 1
    BY <2>1, <2>3, FS_RemoveElement
  <2>9. /\ Cardinality(todo) \in Nat /\ mem.success \in Nat
        /\ mem.failure \in Nat /\ mem.queued \in Nat
    BY <2>3, FS_CardinalityType DEF JobTypeOK, ConsumerTypeOK, JobDoc
  <2>10. \A e \in Device : doc.delivery[e] = "none"
    BY <2>1 DEF RoutingInv
  <2>11. /\ Cardinality(HandedTo) = mem.success
         /\ Cardinality(queued) = mem.queued
         /\ mem.success + mem.queued + mem.failure + Cardinality(todo)
              = Cardinality(Device)
    OBVIOUS
  <2>12. /\ mem'.success = Cardinality(HandedTo')
         /\ mem'.queued = Cardinality(queued')
    BY <2>1, <2>2, <2>6, <2>7, <2>11
  <2>13. mem'.success + mem'.queued + mem'.failure + Cardinality(todo')
           = mem.success + mem.queued + mem.failure + Cardinality(todo)
    <3>1. CASE route = "PUBLISHED"
      BY <2>2, <2>8, <2>9, <3>1 DEF CountsAsFailure
    <3>2. CASE route = "QUEUED"
      BY <2>2, <2>8, <2>9, <3>2 DEF CountsAsFailure
    <3>3. CASE route \in {"UNSUPPORTED", "FAILED"}
      <4>1. /\ mem'.success = mem.success /\ mem'.queued = mem.queued
            /\ mem'.failure = mem.failure + 1
        BY <2>2, <3>3 DEF CountsAsFailure
      <4> QED
        BY ONLY <2>8, <2>9, <4>1
    <3> QED
      BY <2>1, <3>1, <3>2, <3>3
  <2>14. kind' = "routed" /\ doc' = doc
    BY <2>1
  <2> QED
    BY <2>10, <2>11, <2>12, <2>13, <2>14
<1>2. ASSUME FinishRouting
      PROVE  CountInv'
  <2> SUFFICES ASSUME kind = "routed"
               PROVE  CountInv'
    BY <1>2 DEF FinishRouting
  <2>1. /\ mem'.success = mem.success /\ mem'.failure = mem.failure
        /\ mem'.queued = mem.queued
        /\ mem'.status = RoutedStatus(mem)
    BY <1>2 DEF FinishRouting, FinalStatus, JobDoc
  <2>2. /\ UNCHANGED <<kind, total, todo, topic, queued, inFlight, lost>>
        /\ doc' = mem' /\ ~routing' /\ todo = {}
    BY <1>2 DEF FinishRouting
  <2> HIDE DEF JobTypeOK, ConsumerTypeOK, RoutingInv
  <2>3. RoutedStatus(mem)' = RoutedStatus(mem)
    BY <2>1, <2>2 DEF RoutedStatus, AllDone
  <2>4. doc'.status = RoutedStatus(doc)'
    BY <2>1, <2>2, <2>3
  <2> QED
    BY <2>1, <2>2, <2>4
<1> DEFINE Rests == /\ HandedTo' = HandedTo
                    /\ UNCHANGED <<kind, total, doc, mem, todo, queued>>
                    /\ routing' = routing \/ ~routing'
<1>3. ASSUME BeginPush \/ NotFound \/ PushSucceeds
      PROVE  Rests
  BY <1>3 DEF BeginPush, Receive, NotFound, PushSucceeds
<1>4. ASSUME NEW timeout \in BOOLEAN, PushFails(timeout)
      PROVE  Rests
  BY <1>4 DEF PushFails
<1>5. ASSUME EndPush \/ UpdateFails \/ PushRaises \/ CommitCheckIn
      PROVE  Rests
  BY <1>5 DEF EndPush, UpdateFails, PushRaises, CommitCheckIn, CommitElsewhere,
              Commit, CallFails
<1>6. ASSUME WorkerDies \/ UNCHANGED jobVars
      PROVE  Rests
  BY <1>6 DEF WorkerDies, Die, jobVars
<1>7. ASSUME UpdateJob
      PROVE  CountInv'
  <2>1. /\ doc'.success = doc.success /\ doc'.failure = doc.failure
        /\ doc'.queued = doc.queued /\ doc'.status = doc.status
        /\ doc'.delivery = doc.delivery
    BY <1>7 DEF UpdateJob, JobDoc
  <2>2. UNCHANGED <<kind, total, mem, todo, routing, topic, queued, inFlight,
                    lost>>
    BY <1>7 DEF UpdateJob
  <2> HIDE DEF JobTypeOK, ConsumerTypeOK, RoutingInv, jobSide
  <2> QED
    BY <2>1, <2>2 DEF RoutedStatus, AllDone
<1>8. ASSUME RouterDies
      PROVE  Rests
  BY <1>8 DEF RouterDies
<1>9. ASSUME NEW d \in Device, Deliver(d)
      PROVE  Rests
  <2>1. /\ topic \in Seq(Device) /\ topic' = Append(topic, d)
        /\ inFlight' = inFlight \ {d} /\ d \in inFlight
    BY <1>9 DEF Deliver
  <2>2. \A e \in Device : Sent(e)' <=> Sent(e) \/ e = d
    BY <2>1
  <2>3. HandedTo' = HandedTo
    BY <1>9, <2>1, <2>2 DEF Deliver
  <2> QED
    BY <1>9, <2>3 DEF Deliver
<1>10. ASSUME NEW d \in Device, SendFails(d)
       PROVE  Rests
  BY <1>10 DEF SendFails
<1>11. Rests => CountInv'
  BY CountRests
<1> HIDE DEF Rests, JobTypeOK, ConsumerTypeOK, RoutingInv, CountInv, jobSide
<1> QED
  BY <1>1, <1>2, <1>3, <1>4, <1>5, <1>6, <1>7, <1>8, <1>9, <1>10, <1>11
     DEF JobNext, Work

\* No step of the worker pushes more often than it was given reason to.
LEMMA DeliveryStep ==
  ASSUME JobTypeOK, RoutingInv, DeliveryInv,
         [JobNext]_jobVars
  PROVE  DeliveryInv'
<1> USE DEF JobTypeOK, ConsumerTypeOK, PushState, RoutingInv, DeliveryInv,
            PushesNeedDeliveries, jobSide
<1>1. ASSUME NEW d \in Device, NEW route \in RouteState, NEW sent \in BOOLEAN,
             Route(d, route, sent)
      PROVE  DeliveryInv'
  <2>1. UNCHANGED <<worker, pos, pushes, crashes, aborts>>
    BY <1>1 DEF Route
  <2>2. pos \in Nat /\ \A i \in 1..pos : topic'[i] = topic[i]
    BY <1>1 DEF Route
  <2>3. PushesNeedDeliveries'
    BY <2>1
  <2> HIDE DEF JobTypeOK, ConsumerTypeOK, RoutingInv, PushState
  <2> QED
    BY <2>1, <2>2, <2>3
<1>2. ASSUME FinishRouting
      PROVE  DeliveryInv'
  BY <1>2 DEF FinishRouting
<1>3. ASSUME BeginPush
      PROVE  DeliveryInv'
  <2>1. /\ pos' = pos + 1 /\ pos' \in 1..Len(topic) /\ pos \in Nat
        /\ worker'.at = "pushing" /\ worker'.dev = topic[pos']
        /\ UNCHANGED <<topic, pushes, crashes, aborts>>
        /\ worker.at = "idle"
    BY <1>3 DEF BeginPush, Receive
  <2>2. Len(topic) \in Nat
    OBVIOUS
  <2> HIDE DEF JobTypeOK, ConsumerTypeOK, PushState
  <2>3. \A i \in 1..pos : i \in 1..Len(topic) /\ topic[i] # topic[pos']
    BY <2>1, <2>2
  <2> HIDE DEF RoutingInv
  <2>4. ASSUME NEW d \in Device,
               (\A i \in 1..pos' : topic[i] # d) \/ d = topic[pos']
        PROVE  pushes[d] <= crashes + aborts
    <3>1. \A i \in 1..pos : topic[i] # d
      BY <2>1, <2>3, <2>4
    <3> QED
      BY <3>1
  <2> QED
    BY <2>1, <2>4
<1>4. ASSUME NotFound
      PROVE  DeliveryInv'
  BY <1>4 DEF NotFound
<1>5. ASSUME PushSucceeds
      PROVE  DeliveryInv'
  <2>1. /\ worker.at = "pushing" /\ worker'.at = "recording"
        /\ worker'.dev = worker.dev /\ worker.dev \in Device
        /\ UNCHANGED <<topic, pos, crashes, aborts>>
    BY <1>5, AfterProtocol DEF PushSucceeds
  <2>2. \A d \in Device : pushes'[d] = IF d = worker.dev THEN pushes[d] + 1
                                       ELSE pushes[d]
    BY <1>5 DEF PushSucceeds
  <2>3. /\ crashes \in Nat /\ aborts \in Nat /\ pos \in Nat
        /\ \A d \in Device : pushes[d] \in Nat
    OBVIOUS
  <2> HIDE DEF JobTypeOK, ConsumerTypeOK, RoutingInv, PushState
  <2>4. \A d \in Device : pushes'[d] <= 1 + crashes + aborts
    BY <2>1, <2>2, <2>3
  <2>5. pos \in 1..pos /\ topic[pos] = worker.dev
    BY <2>1, <2>3
  <2>6. \A d \in Device :
          (\A i \in 1..pos : topic[i] # d) => pushes'[d] <= crashes + aborts
    BY <2>1, <2>2, <2>5
  <2> QED
    BY <2>1, <2>4, <2>5, <2>6
<1>6. ASSUME NEW timeout \in BOOLEAN, PushFails(timeout)
      PROVE  DeliveryInv'
  <2>1. /\ worker.at = "pushing" /\ worker'.at \in {"pushing", "recording"}
        /\ worker'.dev = worker.dev
        /\ UNCHANGED <<topic, pos, pushes, crashes, aborts>>
    BY <1>6, AfterProtocol DEF PushFails
  <2> HIDE DEF JobTypeOK, ConsumerTypeOK, RoutingInv, PushState
  <2> QED
    BY <2>1
<1>7. ASSUME UpdateJob
      PROVE  DeliveryInv'
  BY <1>7 DEF UpdateJob
<1>8. ASSUME EndPush
      PROVE  DeliveryInv'
  BY <1>8 DEF EndPush, Commit, OffsetAfterMessage, NoPush
<1>9. ASSUME UpdateFails
      PROVE  DeliveryInv'
  <2>1. worker.at = "recording" /\ worker' = AfterFailure(FALSE)
        /\ FALSE \in BOOLEAN
    BY <1>9 DEF UpdateFails, CallFails
  <2>2. /\ worker'.at \in {"pushing", "recording"} /\ worker'.dev = worker.dev
        /\ UNCHANGED <<topic, pos, pushes, crashes>> /\ aborts' = aborts + 1
    BY <1>9, <2>1, AfterProtocol DEF UpdateFails, CallFails
  <2>3. \A d \in Device : pushes[d] \in Nat /\ crashes \in Nat /\ aborts \in Nat
    OBVIOUS
  <2> HIDE DEF JobTypeOK, ConsumerTypeOK, RoutingInv, PushState
  <2>4. \A d \in Device : pushes'[d] <= crashes' + aborts'
    BY <2>2, <2>3
  <2>5. \A d \in Device : pushes'[d] <= 1 + crashes' + aborts'
    BY <2>2, <2>3
  <2> QED
    BY <2>1, <2>2, <2>4, <2>5
<1>10. ASSUME PushRaises
      PROVE  DeliveryInv'
  BY SMTT(30), <1>10 DEF PushRaises, CallFails, NoPush
<1>11. ASSUME WorkerDies
      PROVE  DeliveryInv'
  BY <1>11 DEF WorkerDies, Die, NoPush
<1>12. ASSUME RouterDies
      PROVE  DeliveryInv'
  BY <1>12 DEF RouterDies
<1>13. ASSUME CommitCheckIn
      PROVE  DeliveryInv'
  BY <1>13 DEF CommitCheckIn, CommitElsewhere, Commit, OffsetAfterMessage
<1>14. CASE UNCHANGED jobVars
  BY <1>14 DEF jobVars
<1>15. ASSUME NEW d \in Device, Deliver(d)
       PROVE  DeliveryInv'
  <2>1. UNCHANGED <<worker, pos, pushes, crashes, aborts>>
    BY <1>15 DEF Deliver
  <2>2. pos \in Nat /\ \A i \in 1..pos : topic'[i] = topic[i]
    BY <1>15 DEF Deliver
  <2>3. PushesNeedDeliveries'
    BY <2>1
  <2> HIDE DEF JobTypeOK, ConsumerTypeOK, RoutingInv, PushState
  <2> QED
    BY <2>1, <2>2, <2>3
<1>16. ASSUME NEW d \in Device, SendFails(d)
       PROVE  DeliveryInv'
  BY <1>16 DEF SendFails
<1> HIDE DEF JobTypeOK, ConsumerTypeOK, PushState, RoutingInv, DeliveryInv,
            PushesNeedDeliveries, jobSide
<1> QED
  BY <1>1, <1>2, <1>3, <1>4, <1>5, <1>6, <1>7, <1>8, <1>9, <1>10,
     <1>11, <1>12, <1>13, <1>14, <1>15, <1>16 DEF JobNext, Work

-----------------------------------------------------------------------------
(* Theorems of the job *)

\* Type correctness of the job's documents, its log and the worker.
THEOREM JobTypeCorrect ==
  JobSpec => []JobTypeOK
<1>1. JobInit => JobTypeOK
  BY DEF JobInit, ConsumerInit, JobTypeOK, ConsumerTypeOK, NewJob, JobDoc,
         PushState, NoPush, WorkerResult
<1>2. JobTypeOK /\ [JobNext]_jobVars => JobTypeOK'
  BY JobTypeStep
<1> QED
  BY <1>1, <1>2, PTL DEF JobSpec

\* The counts and the status of a job that finished routing say what was
\* handed to the producer and queued for its targets, however many there are
\* and however many devices of the preview are none; whether a message reaches
\* the log they do not say.
THEOREM CountsMatch ==
  JobSpec => []RoutedCountsMatch
<1> DEFINE IInv == JobTypeOK /\ RoutingInv /\ CountInv
<1>1. JobInit => IInv
  <2> SUFFICES ASSUME JobInit PROVE IInv
    OBVIOUS
  <2>1. JobTypeOK
    BY DEF JobInit, ConsumerInit, JobTypeOK, ConsumerTypeOK, NewJob, JobDoc,
           PushState, NoPush, WorkerResult
  <2>2. RoutingInv
    BY DEF JobInit, ConsumerInit, NewJob, RoutingInv, HandedOver, Sent
  <2>3. HandedTo = {} /\ queued = {} /\ todo = Device
    BY DEF JobInit, ConsumerInit, HandedTo, HandedOver, Sent
  <2>4. /\ mem.success = 0 /\ mem.queued = 0 /\ mem.failure = 0
        /\ \A d \in Device : doc.delivery[d] = "none"
    BY DEF JobInit, ConsumerInit, NewJob
  <2>5. CountInv
    BY <2>3, <2>4, TargetsAreFinite DEF CountInv
  <2> QED
    BY <2>1, <2>2, <2>5
<1>2. IInv /\ [JobNext]_jobVars => IInv'
  BY JobTypeStep, RoutingStep, CountStep
<1>3. IInv => RoutedCountsMatch
  <2> SUFFICES ASSUME IInv, kind = "routed", Reported
               PROVE  RoutedCountsMatch
    BY DEF RoutedCountsMatch
  <2>1. /\ todo = {}
        /\ doc.success = mem.success /\ doc.queued = mem.queued
        /\ doc.failure = mem.failure /\ doc.status = RoutedStatus(doc)
    <3>1. ~ \A d \in Device : doc.delivery[d] = "none"
      BY DEF JobTypeOK, PushState, Reported
    <3> QED
      BY <3>1 DEF CountInv
  <2>2. /\ doc.success \in Nat /\ doc.queued \in Nat /\ doc.failure \in Nat
    BY DEF JobTypeOK, JobDoc
  <2>3. /\ doc.success = Cardinality(HandedTo)
        /\ doc.queued = Cardinality(queued)
        /\ doc.success + doc.queued + doc.failure = Cardinality(Device)
    BY <2>1, <2>2, FS_EmptySet DEF CountInv
  <2>4. total \in Nat /\ Cardinality(Device) <= total
    BY TargetsAreFinite, DeliveryAssumption DEF JobTypeOK, Totals
  <2>5. doc.status = "COMPLETED"
          <=> total = Cardinality(Device) /\ doc.success = Cardinality(Device)
    <3>1. doc.status = "COMPLETED" <=> AllDone(doc) /\ doc.failure = 0
      BY <2>1, <2>2 DEF RoutedStatus
    <3> QED
      BY <2>2, <2>3, <2>4, <3>1, TargetsAreFinite DEF AllDone
  <2>6. doc.success = Cardinality(Device) <=> \A d \in Device : HandedOver(d)
    <3>1. HandedTo \subseteq Device
      BY DEF HandedTo
    <3>2. Cardinality(HandedTo) = Cardinality(Device) => HandedTo = Device
      BY <3>1, TargetsAreFinite, FS_Subset
    <3> QED
      BY <2>3, <3>2 DEF HandedTo
  <2> QED
    BY <2>3, <2>5, <2>6 DEF RoutedCountsMatch, HandedTo
<1> QED
  BY <1>1, <1>2, <1>3, PTL DEF JobSpec

\* No target is pushed to more often than once and once more per crash or
\* failing call, whatever the protocols, the timeouts and the redeliveries.
THEOREM PushesArePaidFor ==
  JobSpec => []PushesNeedDeliveries
<1> DEFINE IInv == JobTypeOK /\ RoutingInv /\ DeliveryInv
<1>1. JobInit => IInv
  <2> SUFFICES ASSUME JobInit PROVE IInv
    OBVIOUS
  <2>1. JobTypeOK
    BY DEF JobInit, ConsumerInit, JobTypeOK, ConsumerTypeOK, NewJob, JobDoc,
           PushState, NoPush, WorkerResult
  <2>2. RoutingInv
    BY DEF JobInit, ConsumerInit, NewJob, RoutingInv, HandedOver, Sent
  <2>3. DeliveryInv
    BY DEF JobInit, ConsumerInit, NoPush, DeliveryInv, PushesNeedDeliveries
  <2> QED
    BY <2>1, <2>2, <2>3
<1>2. IInv /\ [JobNext]_jobVars => IInv'
  BY JobTypeStep, RoutingStep, DeliveryStep
<1>3. IInv => PushesNeedDeliveries
  BY DEF DeliveryInv
<1> QED
  BY <1>1, <1>2, <1>3, PTL DEF JobSpec

-----------------------------------------------------------------------------
(* The consumer *)

\* A step that moves no message and leaves one in hand, or none, is no step
\* of the consumer.
LEMMA ConsumerRests ==
  ASSUME UNCHANGED <<topic, pos, committed>>,
         worker.at = "idle" <=> worker'.at = "idle"
  PROVE  UNCHANGED Consumer!vars
<1>1. (worker.at # "idle")' = (worker.at # "idle")
  OBVIOUS
<1> QED
  BY <1>1 DEF Consumer!vars

\* Each step of the queue is one of AtLeastOnce, or none.
LEMMA QueueConsumes ==
  ASSUME TypeOK, [Next]_vars
  PROVE  [Consumer!Next]_(Consumer!vars)
<1>1. ASSUME NEW c \in Command, NEW d \in Device, Queue(c, d)
      PROVE  UNCHANGED Consumer!vars
  BY <1>1, ConsumerRests DEF Queue
<1>2. ASSUME SweepRead
      PROVE  UNCHANGED Consumer!vars
  BY <1>2, ConsumerRests DEF SweepRead
<1>3. ASSUME NEW c \in Command, SweepSave(c)
      PROVE  UNCHANGED Consumer!vars
  BY <1>3, ConsumerRests DEF SweepSave
<1>4. ASSUME NEW d \in Device, CheckIn(d)
      PROVE  Consumer!Publish
  <2>1. Len(topic') = Len(topic) + 1
    BY <1>4 DEF CheckIn, TypeOK
  <2> QED
    BY <1>4, <2>1 DEF CheckIn, Consumer!Publish
<1>5. ASSUME BeginDrain
      PROVE  Consumer!HandOut
  <2>1. worker'.at # "idle"
    BY <1>5, HandedOut
  <2> QED
    BY <1>5, <2>1 DEF BeginDrain, Receive, Consumer!HandOut
<1>6. ASSUME NEW c \in Command, TakeCommand(c)
      PROVE  UNCHANGED Consumer!vars
  <2>1. worker.at # "idle" /\ worker'.at # "idle"
        /\ UNCHANGED <<topic, pos, committed>>
    BY <1>6, TakenOne
  <2> QED
    BY <2>1, ConsumerRests
<1>7. ASSUME NEW ok \in BOOLEAN, Push(ok)
      PROVE  UNCHANGED Consumer!vars
  <2>1. worker.at # "idle" /\ worker'.at # "idle"
        /\ UNCHANGED <<topic, pos, committed>>
    BY <1>7, Pushed
  <2> QED
    BY <2>1, ConsumerRests
<1>8. ASSUME RecordResult
      PROVE  UNCHANGED Consumer!vars
  <2>1. worker.at # "idle" /\ worker'.at # "idle"
        /\ UNCHANGED <<topic, pos, committed>>
    BY <1>8, Recorded
  <2> QED
    BY <2>1, ConsumerRests
<1>9. ASSUME FinishDrain
      PROVE  Consumer!Complete
  <2>1. worker'.at = "idle"
    BY <1>9, IdleAfterwards DEF FinishDrain
  <2> QED
    BY <1>9, <2>1
       DEF FinishDrain, Commit, OffsetAfterMessage, Consumer!Complete
<1>10. ASSUME DateError
       PROVE  Consumer!GiveUp
  <2>1. worker'.at = "idle"
    BY <1>10, IdleAfterwards DEF DateError
  <2> QED
    BY <1>10, <2>1 DEF DateError, Consumer!GiveUp
<1>11. ASSUME PushUnreported
       PROVE  UNCHANGED Consumer!vars
  <2>1. worker.at # "idle" /\ worker'.at # "idle"
        /\ UNCHANGED <<topic, pos, committed>>
    BY <1>11, PushedUnreported
  <2> QED
    BY <2>1, ConsumerRests
<1>12. ASSUME Abort
       PROVE  Consumer!GiveUp
  <2>1. worker'.at = "idle"
    BY <1>12, IdleAfterwards DEF Abort
  <2> QED
    BY <1>12, <2>1 DEF Abort, CallFails, Consumer!GiveUp
<1>13. ASSUME CommitPushMessage
       PROVE  Consumer!CommitAlong
  BY <1>13 DEF CommitPushMessage, CommitElsewhere, Commit, OffsetAfterMessage,
               Consumer!CommitAlong
<1>14. ASSUME WorkerCrash
       PROVE  Consumer!Crash
  <2>1. worker'.at = "idle"
    BY <1>14, IdleAfterwards DEF WorkerCrash
  <2> QED
    BY <1>14, <2>1 DEF WorkerCrash, Die, Consumer!Crash
<1>15. ASSUME ServiceCrash
       PROVE  UNCHANGED Consumer!vars
  BY <1>15, ConsumerRests DEF ServiceCrash
<1>16. ASSUME Tick
       PROVE  UNCHANGED Consumer!vars
  BY <1>16, ConsumerRests DEF Tick
<1>17. CASE UNCHANGED vars
  BY <1>17, ConsumerRests DEF vars
<1> QED
  BY <1>1, <1>2, <1>3, <1>4, <1>5, <1>6, <1>7, <1>8, <1>9, <1>10, <1>11,
     <1>12, <1>13, <1>14, <1>15, <1>16, <1>17
     DEF Next, Sweep, Drain, Consumer!Next

\* So is each step of a job.
LEMMA JobConsumes ==
  ASSUME JobTypeOK, [JobNext]_jobVars
  PROVE  [Consumer!Next]_(Consumer!vars)
<1>1. ASSUME NEW d \in Device, NEW route \in RouteState, NEW sent \in BOOLEAN,
             Route(d, route, sent)
      PROVE  UNCHANGED Consumer!vars
  BY <1>1, ConsumerRests DEF Route
<1>2. ASSUME FinishRouting
      PROVE  UNCHANGED Consumer!vars
  BY <1>2, ConsumerRests DEF FinishRouting
<1>3. ASSUME BeginPush
      PROVE  Consumer!HandOut
  BY <1>3 DEF BeginPush, Receive, Consumer!HandOut
<1>4. ASSUME NotFound
      PROVE  UNCHANGED Consumer!vars
  <2>1. worker.at # "idle" /\ worker'.at # "idle"
    BY <1>4 DEF NotFound, JobTypeOK, PushState
  <2> QED
    BY <1>4, <2>1, ConsumerRests DEF NotFound
<1>5. ASSUME PushSucceeds
      PROVE  UNCHANGED Consumer!vars
  <2>1. worker.at = "pushing" /\ worker' = AfterSuccess
    BY <1>5 DEF PushSucceeds
  <2>2. worker'.at = "recording"
    BY <2>1, AfterProtocol
  <2> QED
    BY <1>5, <2>1, <2>2, ConsumerRests DEF PushSucceeds
<1>6. ASSUME NEW timeout \in BOOLEAN, PushFails(timeout)
      PROVE  UNCHANGED Consumer!vars
  <2>1. worker.at = "pushing" /\ worker' = AfterFailure(timeout)
    BY <1>6 DEF PushFails
  <2>2. worker'.at \in {"pushing", "recording"}
    BY <2>1, AfterProtocol
  <2> QED
    BY <1>6, <2>1, <2>2, ConsumerRests DEF PushFails
<1>7. ASSUME UpdateJob
      PROVE  UNCHANGED Consumer!vars
  <2>1. worker.at # "idle" /\ worker'.at # "idle"
    BY <1>7 DEF UpdateJob, JobTypeOK, PushState
  <2> QED
    BY <1>7, <2>1, ConsumerRests DEF UpdateJob
<1>8. ASSUME UpdateFails
      PROVE  UNCHANGED Consumer!vars
  <2>1. worker.at = "recording" /\ worker' = AfterFailure(FALSE)
    BY <1>8 DEF UpdateFails
  <2>2. worker'.at \in {"pushing", "recording"}
    BY <2>1, AfterProtocol
  <2> QED
    BY <1>8, <2>1, <2>2, ConsumerRests DEF UpdateFails, CallFails
<1>9. ASSUME EndPush
      PROVE  Consumer!Complete
  BY <1>9 DEF EndPush, NoPush, Commit, OffsetAfterMessage, Consumer!Complete
<1>10. ASSUME PushRaises
       PROVE  Consumer!GiveUp
  BY <1>10 DEF PushRaises, NoPush, CallFails, Consumer!GiveUp
<1>11. ASSUME CommitCheckIn
       PROVE  Consumer!CommitAlong
  BY <1>11 DEF CommitCheckIn, CommitElsewhere, Commit, OffsetAfterMessage,
               Consumer!CommitAlong
<1>12. ASSUME WorkerDies
       PROVE  Consumer!Crash
  BY <1>12 DEF WorkerDies, NoPush, Die, Consumer!Crash
<1>13. ASSUME RouterDies
       PROVE  UNCHANGED Consumer!vars
  BY <1>13, ConsumerRests DEF RouterDies
<1>14. CASE UNCHANGED jobVars
  BY <1>14, ConsumerRests DEF jobVars
<1>15. ASSUME NEW d \in Device, Deliver(d)
       PROVE  Consumer!Publish
  <2>1. Len(topic') = Len(topic) + 1
    BY <1>15 DEF Deliver, JobTypeOK
  <2> QED
    BY <1>15, <2>1 DEF Deliver, Consumer!Publish
<1>16. ASSUME NEW d \in Device, SendFails(d)
       PROVE  UNCHANGED Consumer!vars
  BY <1>16, ConsumerRests DEF SendFails
<1> QED
  BY <1>1, <1>2, <1>3, <1>4, <1>5, <1>6, <1>7, <1>8, <1>9, <1>10, <1>11,
     <1>12, <1>13, <1>14, <1>15, <1>16 DEF JobNext, Work, Consumer!Next

\* The worker that drains commands consumes the check-ins as AtLeastOnce says:
\* in order, one at a time, and committed only when handled to the end.
THEOREM QueueImplementsConsumer == Spec => ImplementsConsumer
<1>1. Init => Consumer!Init
  BY DEF Init, ConsumerInit, IdleWorker, Consumer!Init
<1>2. TypeOK /\ [Next]_vars => [Consumer!Next]_(Consumer!vars)
  BY QueueConsumes
<1> QED
  BY <1>1, <1>2, TypeCorrect, PTL DEF Spec, ImplementsConsumer, Consumer!Spec

\* So does the worker that pushes jobs with the push messages, while they are
\* still being published.
THEOREM JobImplementsConsumer == JobSpec => ImplementsConsumer
<1>1. JobInit => Consumer!Init
  BY DEF JobInit, ConsumerInit, NoPush, Consumer!Init
<1>2. JobTypeOK /\ [JobNext]_jobVars => [Consumer!Next]_(Consumer!vars)
  BY JobConsumes
<1> QED
  BY <1>1, <1>2, JobTypeCorrect, PTL
     DEF JobSpec, ImplementsConsumer, Consumer!Spec

-----------------------------------------------------------------------------
(* What a crash brings back *)

\* If the worker died now, it would be handed the message in hand again, and
\* one more at most for every call that has failed: a message that was given
\* up is passed by the next commit (main.py).
RedeliversLittle ==
  pos - committed <= aborts + (IF worker.at = "idle" THEN 0 ELSE 1)

\* How the worker may become idle.
LetsGo(raises) ==
  worker'.at = "idle" =>
    worker.at = "idle" \/ committed' = pos' \/ aborts' = aborts + 1 \/ raises

\* Whatever the consumer does, it does not fall behind without a failing call.
LEMMA LagStep ==
  ASSUME ConsumerTypeOK, Len(topic) \in Nat, RedeliversLittle,
         [Consumer!Next]_(Consumer!vars),
         aborts' \in {aborts, aborts + 1}, LetsGo(FALSE)
  PROVE  RedeliversLittle'
<1>1. pos \in Nat /\ committed \in Nat /\ committed <= pos /\ aborts \in Nat
  BY DEF ConsumerTypeOK
<1>2. aborts' = aborts \/ aborts' = aborts + 1
  OBVIOUS
<1>3. pos - committed <= aborts + (IF worker.at = "idle" THEN 0 ELSE 1)
  BY DEF RedeliversLittle
<1>4. pos' - committed' <= aborts' + (IF worker'.at = "idle" THEN 0 ELSE 1)
  <2>1. CASE Consumer!Publish \/ UNCHANGED Consumer!vars
    <3>1. /\ UNCHANGED <<pos, committed>>
          /\ worker.at = "idle" <=> worker'.at = "idle"
      BY <2>1 DEF Consumer!Publish, Consumer!vars
    <3> QED
      BY ONLY <1>1, <1>2, <1>3, <3>1
  <2>2. CASE Consumer!HandOut
    <3>1. /\ worker.at = "idle" /\ worker'.at # "idle"
          /\ pos' = pos + 1 /\ committed' = committed
      BY <2>2 DEF Consumer!HandOut
    <3> QED
      BY ONLY <1>1, <1>2, <1>3, <3>1
  <2>3. CASE Consumer!Complete \/ Consumer!CommitAlong \/ Consumer!Crash
    <3>1. pos' = committed' /\ pos' \in Nat
      BY <1>1, <2>3 DEF Consumer!Complete, Consumer!CommitAlong,
                        Consumer!Crash
    <3> QED
      BY ONLY <1>1, <1>2, <3>1
  <2>4. CASE Consumer!GiveUp
    <3>1. /\ worker.at # "idle" /\ worker'.at = "idle"
          /\ UNCHANGED <<pos, committed>>
      BY <2>4 DEF Consumer!GiveUp
    <3>2. pos' = committed' \/ aborts' = aborts + 1
      BY <3>1 DEF LetsGo
    <3> QED
      BY ONLY <1>1, <1>2, <1>3, <3>1, <3>2
  <2> QED
    BY <2>1, <2>2, <2>3, <2>4 DEF Consumer!Next
<1> QED
  BY <1>4 DEF RedeliversLittle

\* The drain ends with a commit, a failing call or a date it cannot compare.
LEMMA QueueLetsGo ==
  ASSUME TypeOK, [Next]_vars
  PROVE  /\ tzAware' = tzAware
         /\ aborts' \in {aborts, aborts + 1}
         /\ LetsGo(~tzAware)
<1> DEFINE Ends == /\ tzAware' = tzAware
                   /\ aborts' \in {aborts, aborts + 1}
                   /\ LetsGo(~tzAware)
<1>1. ASSUME NEW c \in Command, TakeCommand(c)
      PROVE  Ends
  BY <1>1, TakenOne DEF TakeCommand, LetsGo
<1>2. ASSUME NEW ok \in BOOLEAN, Push(ok)
      PROVE  Ends
  BY <1>2, Pushed DEF Push, LetsGo
<1>3. ASSUME RecordResult
      PROVE  Ends
  BY <1>3, Recorded DEF RecordResult, LetsGo
<1>4. ASSUME PushUnreported
      PROVE  Ends
  BY <1>4, PushedUnreported DEF PushUnreported, CallFails, LetsGo
<1>5. ASSUME BeginDrain
      PROVE  Ends
  BY <1>5, HandedOut DEF LetsGo
<1>6. ASSUME FinishDrain \/ WorkerCrash \/ CommitPushMessage
      PROVE  Ends
  BY <1>6 DEF FinishDrain, WorkerCrash, CommitPushMessage, CommitElsewhere,
              Commit, OffsetAfterMessage, Die, LetsGo
<1>7. ASSUME Abort
      PROVE  Ends
  BY <1>7 DEF Abort, CallFails, LetsGo
<1>8. ASSUME DateError
      PROVE  Ends
  BY <1>8 DEF DateError, CanCompareDates, LetsGo
<1>9. ASSUME NEW c \in Command, NEW d \in Device, Queue(c, d)
      PROVE  Ends
  BY <1>9 DEF Queue, LetsGo
<1>10. ASSUME NEW c \in Command, SweepSave(c)
       PROVE  Ends
  BY <1>10 DEF SweepSave, LetsGo
<1>11. ASSUME NEW d \in Device, CheckIn(d)
       PROVE  Ends
  BY <1>11 DEF CheckIn, LetsGo
<1>12. ASSUME SweepRead \/ ServiceCrash \/ Tick \/ UNCHANGED vars
       PROVE  Ends
  BY <1>12 DEF SweepRead, ServiceCrash, Tick, vars, LetsGo
<1> HIDE DEF Ends
<1>13. Ends
  BY <1>1, <1>2, <1>3, <1>4, <1>5, <1>6, <1>7, <1>8, <1>9, <1>10, <1>11,
     <1>12 DEF Next, Sweep, Drain
<1> QED
  BY <1>13 DEF Ends

\* A push ends with a commit or a failing call.
LEMMA JobLetsGo ==
  ASSUME JobTypeOK, [JobNext]_jobVars
  PROVE  aborts' \in {aborts, aborts + 1} /\ LetsGo(FALSE)
<1>1. ASSUME PushSucceeds
      PROVE  worker'.at # "idle" /\ aborts' = aborts
  BY <1>1, AfterProtocol DEF PushSucceeds
<1>2. ASSUME NEW timeout \in BOOLEAN, PushFails(timeout)
      PROVE  worker'.at # "idle" /\ aborts' = aborts
  BY <1>2, AfterProtocol DEF PushFails
<1>3. ASSUME NotFound \/ UpdateJob
      PROVE  worker.at # "idle" /\ worker'.at # "idle" /\ aborts' = aborts
  BY <1>3 DEF NotFound, UpdateJob, JobTypeOK, PushState
<1>4. ASSUME UpdateFails \/ PushRaises
      PROVE  aborts' = aborts + 1
  BY <1>4 DEF UpdateFails, PushRaises, CallFails
<1>5. ASSUME EndPush \/ WorkerDies \/ CommitCheckIn
      PROVE  committed' = pos' /\ aborts' = aborts
  BY <1>5 DEF EndPush, WorkerDies, CommitCheckIn, CommitElsewhere, Commit,
              OffsetAfterMessage, Die
<1>6. ASSUME BeginPush
      PROVE  worker'.at # "idle" /\ aborts' = aborts
  BY <1>6 DEF BeginPush, Receive
<1>7. ASSUME NEW d \in Device, NEW route \in RouteState, NEW sent \in BOOLEAN,
             Route(d, route, sent)
      PROVE  UNCHANGED <<worker, aborts>>
  BY <1>7 DEF Route
<1>8. ASSUME FinishRouting \/ RouterDies \/ UNCHANGED jobVars
      PROVE  UNCHANGED <<worker, aborts>>
  BY <1>8 DEF FinishRouting, RouterDies, jobVars
<1>9. ASSUME NEW d \in Device, Deliver(d) \/ SendFails(d)
      PROVE  UNCHANGED <<worker, aborts>>
  BY <1>9 DEF Deliver, SendFails
<1> QED
  BY <1>1, <1>2, <1>3, <1>4, <1>5, <1>6, <1>7, <1>8, <1>9
     DEF LetsGo, JobNext, Work

\* A crash brings back the check-in in hand, and one more at most for every
\* failing call, if dates can be compared; if they cannot, every check-in that
\* finds commands is given up without a call having failed.
THEOREM FewCheckInsComeBack == Spec => [](tzAware => RedeliversLittle)
<1>1. Init => RedeliversLittle
  BY DEF Init, ConsumerInit, IdleWorker, RedeliversLittle
<1>2. TypeOK /\ (tzAware => RedeliversLittle) /\ [Next]_vars
        => (tzAware => RedeliversLittle)'
  <2> SUFFICES ASSUME TypeOK, tzAware => RedeliversLittle, [Next]_vars, tzAware'
               PROVE  RedeliversLittle'
    OBVIOUS
  <2>1. tzAware /\ aborts' \in {aborts, aborts + 1} /\ LetsGo(FALSE)
    BY QueueLetsGo DEF LetsGo
  <2> QED
    BY <2>1, QueueConsumes, LagStep DEF TypeOK, CheckInMsg
<1> QED
  BY <1>1, <1>2, TypeCorrect, PTL DEF Spec

\* The same for the push messages of a job.
THEOREM FewPushesComeBack == JobSpec => []RedeliversLittle
<1>1. JobInit => RedeliversLittle
  BY DEF JobInit, ConsumerInit, NoPush, RedeliversLittle
<1>2. JobTypeOK /\ RedeliversLittle /\ [JobNext]_jobVars => RedeliversLittle'
  <2> SUFFICES ASSUME JobTypeOK, RedeliversLittle, [JobNext]_jobVars
               PROVE  RedeliversLittle'
    OBVIOUS
  <2>1. ConsumerTypeOK /\ Len(topic) \in Nat
    BY DEF JobTypeOK
  <2> QED
    BY <2>1, JobLetsGo, JobConsumes, LagStep
<1> QED
  BY <1>1, <1>2, JobTypeCorrect, PTL DEF JobSpec
=============================================================================
