----------------------------- MODULE LivePolling -----------------------------
(***************************************************************************)
(* How the gateway keeps the stored values of ONE device record in step    *)
(* with the unit in the field (api-gateway: live/liveParameters.js, the    *)
(* live-status and parameters handlers of routes/nodeView.routes.js,       *)
(* provisionOne of routes/provision.stub.js, deprovision of                *)
(* routes/descriptors.routes.js).                                          *)
(*                                                                         *)
(* The stored document is keyed by the device's id.  Polls of one device   *)
(* share a walk; the scheduler, Node View pages, Apply, provisioning and   *)
(* deprovisioning read the record and the document, wait, and go on.       *)
(***************************************************************************)
EXTENDS SnmpGate

CONSTANTS Poll,       \* the walks (the executions of doRefresh)
          Cycle,      \* the cycles of the scheduler that may overlap
          Handler,    \* the requests that may be served at the same time
          Offer,      \* the records provisioning may write
          MaxMoves, MaxLost, MaxSets, MaxRequests, MaxCrashes   \* bounds

Thread == Cycle \cup Handler

ASSUME PollingAssumption ==
  /\ Op = Poll \cup Thread
  /\ Poll \cap Thread = {}
  /\ Cycle \cap Handler = {}
  /\ Offer \subseteq [addr : Address, community : BOOLEAN]
  /\ Offer # {}
  /\ {MaxMoves, MaxLost, MaxSets, MaxRequests, MaxCrashes} \subseteq Nat

VARIABLES record,    \* the device in the inventory, and whether provisioned
          active,
          unit,      \* the address at which the unit answers, if it does
          setting,   \* the settings it has, numbered
          defined,   \* is there an active product definition?
          doc,       \* device_parameter_values
          inflight,  \* the walk the next refresh joins
          poll,      \* the walks
          at, dev,   \* at[t]: what t does next, for the record it has read
          heard,     \* heard[t]: what its probe said, what it has read since
          joined,    \* joined[t]: the walk t waits for
          misses,    \* probeFailures
          lastProbe, \* lastProbe[a]: the last probe of a and its age
          quiet,     \* history: nothing was at work at the last provisioning
          moves, lost, requests, crashes   \* bounded

field == <<unit, setting, defined, moves>>
inventory == <<record, active>>
memory == <<inflight, poll, misses, lastProbe>>
threads == <<at, dev, heard, joined>>
vars == <<gateVars, inventory, field, doc, memory, threads, quiet, lost,
          requests, crashes>>

Status == {"none", "OK", "UNREACHABLE", "NOT_POLLED", "NO_CREDENTIALS"}
Device == [addr : Address, community : BOOLEAN]
ThreadStep == {"idle", "listed", "waits", "plan", "set", "probe", "sync",
               "mark", "reset", "drop", "refresh", "clear"}
NoDoc == [status |-> "none", addr |-> None, value |-> 0]
NoPoll == [at |-> "free", dev |-> None, value |-> 0]
Unknown == [age |-> "old", online |-> FALSE]

FlagTypeOK ==
  active \in BOOLEAN /\ defined \in BOOLEAN /\ quiet \in BOOLEAN

DataTypeOK ==
  /\ record \in Device
  /\ unit \in Address \cup {None}
  /\ setting \in Nat
  /\ doc \in [status : Status, addr : Address \cup {None}, value : Nat]
  /\ misses \in 0..2
  /\ lastProbe \in [Address -> [age : {"fresh", "recent", "old"},
                                online : BOOLEAN]]
  /\ moves \in Nat /\ lost \in Nat /\ requests \in Nat /\ crashes \in Nat

WalkTypeOK ==
  /\ inflight \in Poll \cup {None}
  /\ poll \in [Poll -> [at : {"free", "load", "walk", "store", "done"},
                        dev : Device \cup {None}, value : Nat]]
  /\ \A p \in Poll : poll[p].at # "free" => poll[p].dev \in Device

ThreadTypeOK ==
  /\ at \in [Thread -> ThreadStep]
  /\ dev \in [Thread -> Device \cup {None}]
  /\ heard \in [Thread -> [online : BOOLEAN, saw : Status]]
  /\ joined \in [Thread -> Poll \cup {None}]
  /\ \A t \in Thread : at[t] \notin {"idle", "clear"} => dev[t] \in Device

TypeOK ==
  GateTypeOK /\ FlagTypeOK /\ DataTypeOK /\ WalkTypeOK /\ ThreadTypeOK

Unheard == [online |-> FALSE, saw |-> "none"]

Init ==
  /\ GateInit
  /\ record \in Offer
  /\ active = TRUE
  /\ unit = record.addr
  /\ setting = 1
  /\ defined = TRUE
  /\ doc = NoDoc
  /\ inflight = None
  /\ poll = [p \in Poll |-> NoPoll]
  /\ at = [t \in Thread |-> "idle"]
  /\ dev = [t \in Thread |-> None]
  /\ heard = [t \in Thread |-> Unheard]
  /\ joined = [t \in Thread |-> None]
  /\ misses = 0
  /\ lastProbe = [a \in Address |-> Unknown]
  /\ quiet = TRUE
  /\ moves = 0 /\ lost = 0 /\ requests = 0 /\ crashes = 0

-----------------------------------------------------------------------------
(* One walk: refreshDevice and doRefresh *)

Goto(t, step) == at' = [at EXCEPT ![t] = step]

\* The handler, or the cycle, is through.
Finish(t) ==
  /\ at' = [at EXCEPT ![t] = "idle"]
  /\ dev' = [dev EXCEPT ![t] = None]

Start(p, d) ==
  /\ poll[p].at = "free"
  /\ gate[p] = "idle"
  /\ inflight' = p
  /\ poll' = [poll EXCEPT ![p] = [at |-> "load", dev |-> d, value |-> 0]]

\* Mutant: every call walks the device on its own.
RefreshAlone(d) == \E p \in Poll : Start(p, d)

\* A walk of this device that is under way is joined, whatever it was told
\* about the device.
Refresh(d) ==
  IF inflight # None THEN UNCHANGED <<inflight, poll>>
  ELSE \E p \in Poll : Start(p, d)

PollGoes(p, step) == poll' = [poll EXCEPT ![p].at = step]

\* Nothing to walk, or nothing to walk with; else the walk queues up.
LoadDefinition(p) ==
  /\ poll[p].at = "load"
  /\ IF defined /\ poll[p].dev.community
     THEN PollGoes(p, "walk") /\ Enter(p, poll[p].dev.addr) /\ UNCHANGED doc
     ELSE /\ doc' = [doc EXCEPT !.addr = poll[p].dev.addr,
                       !.status = IF defined THEN "NO_CREDENTIALS"
                                  ELSE "NOT_POLLED"]
          /\ PollGoes(p, "done")
          /\ UNCHANGED gateVars
  /\ UNCHANGED <<inventory, field, inflight, misses, lastProbe, threads,
                 quiet, lost, requests, crashes>>

\* The unit at the address answers with the settings it has, unless the
\* packets are lost once too often.
Walk(p) ==
  /\ poll[p].at = "walk"
  /\ Settle(p)
  /\ \/ /\ unit = poll[p].dev.addr
        /\ poll' = [poll EXCEPT ![p] =
                       [@ EXCEPT !.at = "store", !.value = setting]]
        /\ lost' = lost
     \/ /\ IF unit = poll[p].dev.addr
           THEN lost < MaxLost /\ lost' = lost + 1 ELSE lost' = lost
        /\ PollGoes(p, "store")
  /\ UNCHANGED <<inventory, field, doc, inflight, misses, lastProbe, threads,
                 quiet, requests, crashes>>

\* A failed walk keeps the values of the one before it.
Store(p) ==
  /\ poll[p].at = "store"
  /\ doc' = IF poll[p].value > 0
            THEN [status |-> "OK", addr |-> poll[p].dev.addr,
                  value |-> poll[p].value]
            ELSE [doc EXCEPT !.status = "UNREACHABLE",
                             !.addr = poll[p].dev.addr]
  /\ PollGoes(p, "done")
  /\ UNCHANGED <<gateVars, inventory, field, inflight, misses, lastProbe,
                 threads, quiet, lost, requests, crashes>>

\* Mutant: the entry of the walk is removed only if it reached the device.
EndPollSometimes(p) ==
  /\ poll[p].at = "done"
  /\ inflight' = IF poll[p].value > 0 THEN None ELSE inflight
  /\ poll' = [poll EXCEPT ![p] = NoPoll]
  /\ at' = [t \in Thread |-> IF joined[t] = p THEN "idle" ELSE at[t]]
  /\ dev' = [t \in Thread |-> IF joined[t] = p THEN None ELSE dev[t]]
  /\ joined' = [t \in Thread |-> IF joined[t] = p THEN None ELSE joined[t]]
  /\ UNCHANGED <<gateVars, inventory, field, doc, misses, lastProbe, heard,
                 quiet, lost, requests, crashes>>

\* Everybody who waits for the walk goes on.
EndPoll(p) ==
  /\ poll[p].at = "done"
  /\ inflight' = None
  /\ poll' = [poll EXCEPT ![p] = NoPoll]
  /\ at' = [t \in Thread |-> IF joined[t] = p THEN "idle" ELSE at[t]]
  /\ dev' = [t \in Thread |-> IF joined[t] = p THEN None ELSE dev[t]]
  /\ joined' = [t \in Thread |-> IF joined[t] = p THEN None ELSE joined[t]]
  /\ UNCHANGED <<gateVars, inventory, field, doc, misses, lastProbe, heard,
                 quiet, lost, requests, crashes>>

-----------------------------------------------------------------------------
(* The scheduler, and requests that want fresh values *)

\* A request is served; how many is bounded.
BeginRequest(t, step) ==
  /\ t \in Handler
  /\ at[t] = "idle"
  /\ requests < MaxRequests
  /\ requests' = requests + 1
  /\ Goto(t, step)

\* The cycle reads the devices it is going to poll.
ListDevices(t) ==
  /\ t \in Cycle
  /\ at[t] = "idle"
  /\ active /\ record.community
  /\ Goto(t, "listed")
  /\ dev' = [dev EXCEPT ![t] = record]
  /\ UNCHANGED <<gateVars, inventory, field, doc, memory, heard, joined,
                 quiet, lost, requests, crashes>>

\* getCurrent, with values that are too old; findDevice finds a device that
\* has been deprovisioned too.
ReadCurrent(t) ==
  /\ BeginRequest(t, "listed")
  /\ dev' = [dev EXCEPT ![t] = record]
  /\ UNCHANGED <<gateVars, inventory, field, doc, memory, heard, joined,
                 quiet, lost, crashes>>

\* The other devices of the cycle have had their turn.
AwaitRefresh(t) ==
  /\ at[t] = "listed"
  /\ Refresh(dev[t])
  /\ joined' = [joined EXCEPT ![t] = inflight']
  /\ Goto(t, "waits")
  /\ UNCHANGED <<gateVars, inventory, field, doc, misses, lastProbe, dev,
                 heard, quiet, lost, requests, crashes>>

\* PUT parameters: SET at the address the handler has read, then refresh.
BeginApply(t) ==
  /\ BeginRequest(t, "plan")
  /\ dev' = [dev EXCEPT ![t] = record]
  /\ UNCHANGED <<gateVars, inventory, field, doc, memory, heard, joined,
                 quiet, lost, crashes>>

PlanChanges(t) ==
  /\ at[t] = "plan"
  /\ IF defined
     THEN Goto(t, "set") /\ Enter(t, dev[t].addr) /\ UNCHANGED dev
     ELSE Finish(t) /\ UNCHANGED gateVars
  /\ UNCHANGED <<inventory, field, doc, memory, heard, joined, quiet, lost,
                 requests, crashes>>

\* The unit applies the SET, and its answer may be lost: then nothing is
\* refreshed, like after a refusal or when nobody answers.
Apply(t) ==
  /\ at[t] = "set"
  /\ Settle(t)
  /\ \/ /\ unit = dev[t].addr
        /\ setting < MaxSets
        /\ setting' = setting + 1
        /\ \/ Goto(t, "listed") /\ UNCHANGED <<dev, lost>>
           \/ Finish(t) /\ lost < MaxLost /\ lost' = lost + 1
     \/ Finish(t) /\ UNCHANGED <<setting, lost>>
  /\ UNCHANGED <<inventory, unit, defined, moves, doc, memory, heard, joined,
                 quiet, requests, crashes>>

-----------------------------------------------------------------------------
(* GET live-status and syncWithProbe *)

BeginLiveStatus(t) ==
  /\ BeginRequest(t, "probe")
  /\ dev' = [dev EXCEPT ![t] = record]
  /\ UNCHANGED <<gateVars, inventory, field, doc, memory, heard, joined,
                 quiet, lost, crashes>>

Hear(t, answer) == heard' = [heard EXCEPT ![t].online = answer]

\* The last answer does for another page, or while the agent is busy with us.
ReuseProbe(t) ==
  LET last == lastProbe[dev[t].addr] IN
  /\ at[t] = "probe"
  /\ last.age = "fresh" \/ (last.age = "recent" /\ IsBusy(dev[t].addr))
  /\ Hear(t, last.online)
  /\ Goto(t, "sync")
  /\ UNCHANGED <<gateVars, inventory, field, doc, memory, dev, joined,
                 quiet, lost, requests, crashes>>

Probe(t) ==
  LET a == dev[t].addr IN
  /\ at[t] = "probe"
  /\ lastProbe[a].age # "fresh"
  /\ lastProbe[a].age = "recent" => ~IsBusy(a)
  /\ \E online \in BOOLEAN :
       /\ online => unit = a
       /\ IF ~online /\ unit = a
          THEN lost < MaxLost /\ lost' = lost + 1 ELSE lost' = lost
       /\ lastProbe' = [lastProbe EXCEPT ![a] = [age |-> "fresh",
                                                 online |-> online]]
       /\ Hear(t, online)
  /\ Goto(t, "sync")
  /\ UNCHANGED <<gateVars, inventory, field, doc, inflight, poll, misses, dev,
                 joined, quiet, requests, crashes>>

\* syncWithProbe up to its findOne; then what it does with what it read.
ReadStatus(t) ==
  /\ at[t] = "sync"
  /\ heard' = [heard EXCEPT ![t].saw = doc.status]
  /\ Goto(t, "mark")
  /\ UNCHANGED <<gateVars, inventory, field, doc, memory, dev, joined,
                 quiet, lost, requests, crashes>>

SyncOnline(t) ==
  /\ at[t] = "mark"
  /\ heard[t].online
  /\ misses' = 0
  /\ IF heard[t].saw \in {"UNREACHABLE", "NO_CREDENTIALS"}
     THEN Refresh(dev[t]) ELSE UNCHANGED <<inflight, poll>>
  /\ Finish(t)
  /\ heard' = [heard EXCEPT ![t] = Unheard]
  /\ UNCHANGED <<gateVars, inventory, field, doc, lastProbe, joined, quiet,
                 lost, requests, crashes>>

\* The second miss marks the document the page has read as OK, whatever it
\* says by now.
SyncOffline(t) ==
  /\ at[t] = "mark"
  /\ ~heard[t].online
  /\ misses' = IF misses < 2 THEN misses + 1 ELSE misses
  /\ doc' = IF misses' = 2 /\ heard[t].saw = "OK" /\ doc.status # "none"
            THEN [doc EXCEPT !.status = "UNREACHABLE"] ELSE doc
  /\ Finish(t)
  /\ heard' = [heard EXCEPT ![t] = Unheard]
  /\ UNCHANGED <<gateVars, inventory, field, inflight, poll, lastProbe,
                 joined, quiet, lost, requests, crashes>>

-----------------------------------------------------------------------------
(* Provisioning and deprovisioning *)

AtRest == /\ \A t \in Thread : at[t] = "idle"
          /\ \A p \in Poll : poll[p].at = "free"

\* The record is replaced: the unit was found at an address.
Provision(t) ==
  /\ BeginRequest(t, "reset")
  /\ \E d \in Offer : record' = d /\ dev' = [dev EXCEPT ![t] = d]
  /\ active' = TRUE
  /\ quiet' = AtRest
  /\ UNCHANGED <<gateVars, field, doc, memory, heard, joined, lost,
                 crashes>>

\* Mutant: a document that says OK is not looked at more closely.
ReadStaleTrustsOK(t) ==
  /\ at[t] = "reset"
  /\ Goto(t, IF doc.status \in {"none", "OK"} THEN "refresh" ELSE "drop")
  /\ UNCHANGED <<gateVars, inventory, field, doc, memory, dev, heard, joined,
                 quiet, lost, requests, crashes>>

\* resetStaleLiveState: a healthy document of the same address stays.
ReadStale(t) ==
  /\ at[t] = "reset"
  /\ Goto(t, IF doc.status = "none"
                \/ (doc.status = "OK" /\ doc.addr = dev[t].addr)
             THEN "refresh" ELSE "drop")
  /\ UNCHANGED <<gateVars, inventory, field, doc, memory, dev, heard, joined,
                 quiet, lost, requests, crashes>>

DropStale(t) ==
  /\ at[t] = "drop"
  /\ doc' = NoDoc
  /\ Goto(t, "refresh")
  /\ UNCHANGED <<gateVars, inventory, field, memory, dev, heard, joined,
                 quiet, lost, requests, crashes>>

\* The first read, which nobody waits for, if a product definition was found
\* for the unit before the record was written.
FirstRead(t) ==
  /\ at[t] = "refresh"
  /\ Refresh(dev[t]) \/ UNCHANGED <<inflight, poll>>
  /\ Finish(t)
  /\ UNCHANGED <<gateVars, inventory, field, doc, misses, lastProbe, heard,
                 joined, quiet, lost, requests, crashes>>

Deprovision(t) ==
  /\ active
  /\ BeginRequest(t, "clear")
  /\ active' = FALSE
  /\ UNCHANGED <<gateVars, record, field, doc, memory, dev, heard, joined,
                 quiet, lost, crashes>>

ClearValues(t) ==
  /\ at[t] = "clear"
  /\ doc' = NoDoc
  /\ Goto(t, "idle")
  /\ UNCHANGED <<gateVars, inventory, field, memory, dev, heard, joined,
                 quiet, lost, requests, crashes>>

-----------------------------------------------------------------------------
(* The rest of the world *)

\* The unit is re-addressed, goes away or comes back; a definition is
\* activated or retired.
WorldChanges ==
  /\ moves < MaxMoves
  /\ moves' = moves + 1
  /\ \/ unit' \in (Address \cup {None}) \ {unit} /\ UNCHANGED defined
     \/ defined' = ~defined /\ UNCHANGED unit
  /\ UNCHANGED <<gateVars, inventory, setting, doc, memory, threads, quiet,
                 lost, requests, crashes>>

\* 4 and 60 seconds after the last probe of a.
ProbeAges(a) ==
  /\ lastProbe[a].age # "old"
  /\ lastProbe' = [lastProbe EXCEPT ![a] =
       IF @.age = "fresh" THEN [@ EXCEPT !.age = "recent"] ELSE Unknown]
  /\ UNCHANGED <<gateVars, inventory, field, doc, inflight, poll, misses,
                 threads, quiet, lost, requests, crashes>>

\* Everything the gateway has in memory is gone.
Restart ==
  /\ crashes < MaxCrashes
  /\ crashes' = crashes + 1
  /\ gate' = [o \in Op |-> "idle"]
  /\ target' = [o \in Op |-> None]
  /\ prev' = [o \in Op |-> None]
  /\ tails' = [a \in Address |-> None]
  /\ ahead' = [o \in Op |-> {}]
  /\ inflight' = None
  /\ poll' = [p \in Poll |-> NoPoll]
  /\ at' = [t \in Thread |-> "idle"]
  /\ dev' = [t \in Thread |-> None]
  /\ heard' = [t \in Thread |-> Unheard]
  /\ joined' = [t \in Thread |-> None]
  /\ misses' = 0
  /\ lastProbe' = [a \in Address |-> Unknown]
  /\ quiet' = FALSE
  /\ UNCHANGED <<inventory, field, doc, lost, requests>>

PollStep(p) == LoadDefinition(p) \/ Walk(p) \/ Store(p) \/ EndPoll(p)

ThreadGoesOn(t) ==
  \/ AwaitRefresh(t) \/ PlanChanges(t) \/ Apply(t) \/ ReuseProbe(t) \/ Probe(t)
  \/ ReadStatus(t) \/ SyncOnline(t) \/ SyncOffline(t)
  \/ ReadStale(t) \/ DropStale(t) \/ FirstRead(t) \/ ClearValues(t)

Request(t) ==
  \/ ReadCurrent(t) \/ BeginApply(t) \/ BeginLiveStatus(t) \/ Provision(t)
  \/ Deprovision(t)

Next ==
  \/ \E p \in Poll : PollStep(p)
  \/ \E t \in Thread : ListDevices(t) \/ ThreadGoesOn(t) \/ Request(t)
  \/ WorldChanges
  \/ \E a \in Address : ProbeAges(a)
  \/ Restart

\* Calls return, the agents' timeouts end every operation, the timer fires
\* and time passes.
Fairness ==
  /\ \A p \in Poll : WF_vars(PollStep(p))
  /\ \A t \in Thread : WF_vars(ThreadGoesOn(t))
  /\ \A t \in Cycle : WF_vars(ListDevices(t))

Spec == Init /\ [][Next]_vars /\ Fairness

-----------------------------------------------------------------------------
(* Properties *)

\* The stored values never go back to settings that an earlier walk had
\* already found replaced, however many callers ask for a walk.
ValuesNeverGoBack == [][doc'.value = 0 \/ doc'.value >= doc.value]_doc

Resetting == \E t \in Thread : at[t] \in {"reset", "drop"}

\* A device provisioned at a new address does not show what was found at its
\* old one, unless something was at work when it was provisioned.
ShowsOwnAddress ==
  quiet /\ ~Resetting => doc.addr \in {record.addr, None}

\* What the device should be shown as.
Truth ==
  [status |-> IF ~defined THEN "NOT_POLLED"
              ELSE IF unit = record.addr THEN "OK" ELSE "UNREACHABLE",
   addr |-> record.addr]

\* Whatever happened before - moves, lost packets, crossed provisionings,
\* stale marks, a restart - the cycles bring the document of a provisioned
\* device back in line with the unit, and keep it there.
Converges ==
  <>[](active /\ record.community
        => /\ doc.status = Truth.status
           /\ doc.addr = Truth.addr
           /\ doc.status = "OK" => doc.value = setting)
=============================================================================
