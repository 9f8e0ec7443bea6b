-------------------------- MODULE LivePolling_proofs --------------------------
(***************************************************************************)
(* Theorems about LivePolling and the gate below it, for any number of     *)
(* walks, cycles, requests and addresses.                                  *)
(***************************************************************************)
EXTENDS LivePolling, TLAPS

\* The promises of an address form a chain, from the operation that talks to
\* the agent to the one in tails.
GateInv ==
  /\ GateTypeOK
  /\ \A o \in Op :
       /\ gate[o] = "idle" <=> target[o] = None
       /\ gate[o] = "idle" => prev[o] = None
       /\ gate[o] # "idle" => (gate[o] = "running" <=> prev[o] = None)
       /\ prev[o] = None => ahead[o] = {}
       /\ prev[o] # None => /\ gate[prev[o]] # "idle"
                            /\ target[prev[o]] = target[o]
                            /\ ahead[o] = ahead[prev[o]] \cup {prev[o]}
  /\ \A o, x \in Op :
       gate[o] # "idle" /\ gate[x] # "idle" /\ target[o] = target[x] /\ o # x
         => o \in ahead[x] \/ x \in ahead[o]
  /\ \A a \in Address :
       IF tails[a] = None THEN Unfinished(a) = {}
       ELSE Unfinished(a) = ahead[tails[a]] \cup {tails[a]}

\* Whoever is not the last in the queue has somebody waiting for him, and who
\* waits for an address waits for somebody who talks to it.
MovingInv ==
  /\ \A o \in Op : gate[o] # "idle"
       => tails[target[o]] = o \/ \E x \in Op : prev[x] = o
  /\ \A a \in Address : Unfinished(a) # {}
       => \E o \in Unfinished(a) : gate[o] = "running"

\* At most one walk of the device is under way, it is the one that is joined,
\* and what it found is not older than what is stored.
WalkInv ==
  /\ \A p \in Poll : poll[p].at # "free" => inflight = p
  /\ doc.value <= setting
  /\ \A p \in Poll :
       /\ poll[p].value <= setting
       /\ poll[p].at \in {"load", "walk"} => poll[p].value = 0
       /\ poll[p].at = "store" /\ poll[p].value > 0 => poll[p].value >= doc.value

\* When nothing was at work at the last provisioning, everybody who knows the
\* device knows its new address, and a document of the old one is on its way
\* out.
AddressInv ==
  /\ doc.status = "none" => doc.addr = None
  /\ \A t \in Thread : joined[t] # None => at[t] = "waits"
  /\ quiet => /\ \A t \in Thread : at[t] \notin {"idle", "clear"}
                                   => dev[t].addr = record.addr
              /\ \A p \in Poll : poll[p].at # "free"
                                   => poll[p].dev.addr = record.addr
              /\ ShowsOwnAddress

-----------------------------------------------------------------------------
\* Queueing up keeps the chain.
LEMMA EnterKeepsChain ==
  ASSUME GateInv, NEW o \in Op, NEW a \in Address, Enter(o, a)
  PROVE  GateInv'
<1> USE GateAssumption DEF GateInv, GateTypeOK, GateState, Enter, Unfinished
<1>1. GateTypeOK'
  OBVIOUS
<1>2. \A x \in Op : x # o => /\ gate'[x] = gate[x] /\ target'[x] = target[x]
                             /\ prev'[x] = prev[x] /\ ahead'[x] = ahead[x]
  OBVIOUS
<1>3. /\ gate'[o] = (IF tails[a] = None THEN "running" ELSE "queued")
      /\ target'[o] = a /\ prev'[o] = tails[a]
      /\ ahead'[o] = Unfinished(a) /\ o \notin Unfinished(a)
  OBVIOUS
<1>4. tails[a] # None => tails[a] \in Op /\ tails[a] \in Unfinished(a)
  OBVIOUS
<1>5. \A x \in Op :
       /\ gate'[x] = "idle" <=> target'[x] = None
       /\ gate'[x] = "idle" => prev'[x] = None
       /\ gate'[x] # "idle" => (gate'[x] = "running" <=> prev'[x] = None)
       /\ prev'[x] = None => ahead'[x] = {}
  BY <1>2, <1>3
<1>6. \A x \in Op :
       prev'[x] # None => /\ gate'[prev'[x]] # "idle"
                          /\ target'[prev'[x]] = target'[x]
                          /\ ahead'[x] = ahead'[prev'[x]] \cup {prev'[x]}
  <2> TAKE x \in Op
  <2>1. CASE x = o
    BY <2>1, <1>2, <1>3, <1>4
  <2>2. CASE x # o
    BY <2>2, <1>2
  <2> QED
    BY <2>1, <2>2
<1>7. \A x, y \in Op :
       gate'[x] # "idle" /\ gate'[y] # "idle" /\ target'[x] = target'[y] /\ x # y
         => x \in ahead'[y] \/ y \in ahead'[x]
  BY <1>2, <1>3
<1>8. \A b \in Address :
       IF tails'[b] = None THEN Unfinished(b)' = {}
       ELSE Unfinished(b)' = ahead'[tails'[b]] \cup {tails'[b]}
  <2> TAKE b \in Address
  <2>1. CASE b = a
    <3>1. Unfinished(a)' = Unfinished(a) \cup {o}
      BY <1>2, <1>3
    <3>2. tails'[a] = o
      OBVIOUS
    <3> QED
      BY <2>1, <3>1, <3>2, <1>3
  <2>2. CASE b # a
    <3>1. Unfinished(b)' = Unfinished(b) /\ tails'[b] = tails[b]
      BY <2>2, <1>2, <1>3
    <3>2. tails[b] # None => tails[b] # o /\ tails[b] \in Op
      OBVIOUS
    <3> QED
      BY <3>1, <3>2, <1>2
  <2> QED
    BY <2>1, <2>2
<1> QED
  BY <1>1, <1>5, <1>6, <1>7, <1>8

\* So does the end of an operation.
LEMMA SettleKeepsChain ==
  ASSUME GateInv, NEW o \in Op, Settle(o)
  PROVE  GateInv'
<1> USE GateAssumption
    DEF GateInv, GateTypeOK, GateState, Settle, MayEnd, Forgotten, Unfinished
<1>1. GateTypeOK' /\ target[o] \in Address /\ ahead[o] = {}
  OBVIOUS
<1>2. \A x \in Op : /\ ahead'[x] = ahead[x] \ {o}
                    /\ x # o => target'[x] = target[x]
                    /\ prev'[x] = IF prev[x] = o THEN None ELSE prev[x]
                    /\ gate'[x] = IF x = o THEN "idle"
                                  ELSE IF prev[x] = o THEN "running" ELSE gate[x]
  OBVIOUS
<1>3. gate'[o] = "idle" /\ target'[o] = None /\ prev'[o] = None
  OBVIOUS
<1>4. \A x \in Op :
       /\ gate'[x] = "idle" <=> target'[x] = None
       /\ gate'[x] = "idle" => prev'[x] = None
       /\ gate'[x] # "idle" => (gate'[x] = "running" <=> prev'[x] = None)
  BY <1>2, <1>3
<1>5. \A x \in Op : prev'[x] = None => ahead'[x] = {}
  BY <1>1, <1>2
<1>6. \A x \in Op :
       prev'[x] # None => /\ gate'[prev'[x]] # "idle"
                          /\ target'[prev'[x]] = target'[x]
                          /\ ahead'[x] = ahead'[prev'[x]] \cup {prev'[x]}
  BY <1>2, <1>3
<1>7. \A x, y \in Op :
       gate'[x] # "idle" /\ gate'[y] # "idle" /\ target'[x] = target'[y] /\ x # y
         => x \in ahead'[y] \/ y \in ahead'[x]
  BY <1>2, <1>3
<1>8. \A b \in Address : Unfinished(b)' = Unfinished(b) \ {o}
  BY <1>2, <1>3
<1>9. \A b \in Address :
       IF tails'[b] = None THEN Unfinished(b)' = {}
       ELSE Unfinished(b)' = ahead'[tails'[b]] \cup {tails'[b]}
  <2> TAKE b \in Address
  <2>1. CASE tails[b] = o
    <3>1. Unfinished(b) = {o} /\ b = target[o]
      BY <2>1, <1>1
    <3> QED
      BY <2>1, <3>1, <1>8
  <2>2. CASE tails[b] # o
    <3>1. tails'[b] = tails[b]
      BY <2>2
    <3> QED
      BY <2>2, <3>1, <1>2, <1>8
  <2> QED
    BY <2>1, <2>2
<1> QED
  BY <1>1, <1>4, <1>5, <1>6, <1>7, <1>9

\* A new operation is waited for by nobody and talks to the agent if it is the
\* only one.
LEMMA EnterKeepsMoving ==
  ASSUME GateInv, MovingInv, NEW o \in Op, NEW a \in Address, Enter(o, a)
  PROVE  MovingInv'
<1> USE GateAssumption DEF GateInv, GateTypeOK, GateState, Enter, Unfinished
<1>1. \A x \in Op \ {o} : /\ gate'[x] = gate[x] /\ target'[x] = target[x]
                          /\ prev'[x] = prev[x]
  OBVIOUS
<1>2. /\ gate'[o] = (IF tails[a] = None THEN "running" ELSE "queued")
      /\ target'[o] = a /\ prev'[o] = tails[a] /\ tails'[a] = o
      /\ gate[o] = "idle" /\ prev[o] = None
  OBVIOUS
<1>3. ASSUME NEW y \in Op, gate'[y] # "idle", tails'[target'[y]] # y
      PROVE  \E x \in Op : prev'[x] = y
  <2>1. y # o /\ gate[y] # "idle" /\ target'[y] = target[y] /\ target[y] \in Address
    BY <1>1, <1>2, <1>3
  <2>2. CASE target[y] = a /\ tails[a] = y
    BY <1>2, <2>2
  <2>3. CASE tails[target[y]] = y /\ target[y] # a
    BY <1>3, <2>1, <2>3
  <2>4. CASE \E x \in Op : prev[x] = y
    BY <1>1, <1>2, <2>1, <2>4
  <2> QED
    BY <2>1, <2>2, <2>3, <2>4 DEF MovingInv
<1>4. ASSUME NEW b \in Address, Unfinished(b)' # {}
      PROVE  \E x \in Unfinished(b)' : gate'[x] = "running"
  <2>1. CASE Unfinished(b) # {}
    <3>1. PICK x \in Unfinished(b) : gate[x] = "running"
      BY <2>1 DEF MovingInv
    <3> QED
      BY <1>1, <1>2, <3>1
  <2>2. CASE Unfinished(b) = {}
    <3>1. b = a /\ tails[a] = None
      BY <1>1, <1>2, <1>4, <2>2
    <3> QED
      BY <1>2, <3>1
  <2> QED
    BY <2>1, <2>2
<1> QED
  BY <1>3, <1>4 DEF MovingInv

\* The end of an operation wakes up the next one, if there is one.
LEMMA SettleKeepsMoving ==
  ASSUME GateInv, MovingInv, NEW o \in Op, Settle(o)
  PROVE  MovingInv'
<1> USE GateAssumption DEF GateInv, GateTypeOK, GateState, Settle, MayEnd, Unfinished
<1>1. \A x \in Op : /\ x # o => target'[x] = target[x]
                    /\ prev'[x] = IF prev[x] = o THEN None ELSE prev[x]
                    /\ gate'[x] = IF x = o THEN "idle"
                                  ELSE IF prev[x] = o THEN "running" ELSE gate[x]
  OBVIOUS
<1>2. /\ gate'[o] = "idle" /\ target'[o] = None /\ target[o] \in Address
      /\ ahead[o] = {} /\ gate[o] = "running" /\ prev[o] # o
  OBVIOUS
<1>3. \A a \in Address : tails[a] # o => tails'[a] = tails[a]
  BY DEF Forgotten
<1>4. ASSUME NEW y \in Op, gate'[y] # "idle", tails'[target'[y]] # y
      PROVE  \E x \in Op : prev'[x] = y
  <2>1. /\ y # o /\ gate[y] # "idle" /\ target'[y] = target[y]
        /\ target[y] \in Address
    BY <1>1, <1>2, <1>4
  <2>2. tails[target[y]] # y
    BY <1>3, <1>4, <2>1
  <2> QED
    BY <1>1, <2>1, <2>2 DEF MovingInv
<1>5. ASSUME NEW b \in Address, Unfinished(b)' # {}
      PROVE  \E x \in Unfinished(b)' : gate'[x] = "running"
  <2>1. Unfinished(b)' = Unfinished(b) \ {o}
    BY <1>1, <1>2
  <2>2. CASE target[o] = b
    <3>1. PICK y \in Unfinished(b) : y # o
      BY <1>5, <2>1
    <3>2. tails[b] # o
      BY <1>2, <2>2, <3>1
    <3>3. PICK x \in Op : prev[x] = o
      BY <1>2, <2>2, <3>2 DEF MovingInv
    <3>4. x \in Unfinished(b) /\ x # o
      BY <1>2, <2>2, <3>3
    <3> QED
      BY <1>1, <2>1, <3>3, <3>4
  <2>3. CASE target[o] # b
    <3>1. PICK x \in Unfinished(b) : gate[x] = "running"
      BY <2>1, <1>5 DEF MovingInv
    <3> QED
      BY <1>1, <2>1, <2>3, <3>1
  <2> QED
    BY <2>2, <2>3
<1> QED
  BY <1>4, <1>5 DEF MovingInv

\* Nobody waits at first.
LEMMA EmptyGate == GateInit => GateInv /\ MovingInv
BY GateAssumption
   DEF GateInit, GateInv, MovingInv, GateTypeOK, GateState, Unfinished

\* The head of the chain is alone, and there is one.
LEMMA HeadIsAlone == GateInv /\ MovingInv => InTurn
<1>1. GateInv =>
        \A o \in Op : gate[o] = "running"
          => \A x \in Unfinished(target[o]) \ {o} : gate[x] = "queued"
                                                   /\ o \in ahead[x]
  BY GateAssumption DEF GateInv, GateTypeOK, GateState, Unfinished
<1> QED
  BY <1>1 DEF MovingInv, InTurn

\* Queueing up keeps the types of the gate.
LEMMA EnterTypes ==
  ASSUME GateTypeOK, NEW o \in Op, NEW a \in Address, Enter(o, a)
  PROVE  GateTypeOK'
BY GateAssumption DEF GateTypeOK, GateState, Enter, Unfinished

\* So does the end of an operation.
LEMMA SettleTypes ==
  ASSUME GateTypeOK, NEW o \in Op, Settle(o)
  PROVE  GateTypeOK'
<1>1. tails' \in [Address -> Op \cup {None}]
  BY DEF GateTypeOK, Settle, Forgotten
<1> QED
  BY <1>1, GateAssumption DEF GateTypeOK, GateState, Settle

\* A refresh starts a walk of the device it was called for, or none.
LEMMA RefreshTypes ==
  ASSUME WalkTypeOK, NEW d \in Device, Refresh(d)
  PROVE  WalkTypeOK'
<1>1. CASE UNCHANGED <<inflight, poll>>
  BY <1>1 DEF WalkTypeOK
<1>2. CASE \E p \in Poll : Start(p, d)
  <2>1. PICK p \in Poll : Start(p, d)
    BY <1>2
  <2>2. [at |-> "load", dev |-> d, value |-> 0]
          \in [at : {"free", "load", "walk", "store", "done"},
              dev : Device \cup {None}, value : Nat]
    OBVIOUS
  <2> QED
    BY <2>1, <2>2 DEF Start, WalkTypeOK
<1> QED
  BY <1>1, <1>2 DEF Refresh

\* A walk goes on with the device it was started for.
LEMMA PollGoesTypes ==
  ASSUME WalkTypeOK, NEW p \in Poll, poll[p].at # "free",
         NEW step \in {"walk", "store", "done"}, PollGoes(p, step),
         inflight' = inflight
  PROVE  WalkTypeOK'
<1>1. [poll[p] EXCEPT !.at = step]
        \in [at : {"free", "load", "walk", "store", "done"},
            dev : Device \cup {None}, value : Nat]
  BY DEF WalkTypeOK
<1>2. poll' = [poll EXCEPT ![p] = [poll[p] EXCEPT !.at = step]]
  BY DEF PollGoes
<1>3. /\ poll' \in [Poll -> [at : {"free", "load", "walk", "store", "done"},
                            dev : Device \cup {None}, value : Nat]]
      /\ \A q \in Poll : poll'[q].dev = poll[q].dev
                          /\ (poll'[q].at = poll[q].at \/ q = p)
  BY <1>1, <1>2 DEF WalkTypeOK
<1> QED
  BY <1>3 DEF WalkTypeOK

\* Every step keeps the types.
LEMMA TypeStep ==
  ASSUME TypeOK, [Next]_vars
  PROVE  TypeOK'
<1> USE GateAssumption, PollingAssumption
    DEF vars, gateVars, field, inventory, memory, threads, TypeOK,
        FlagTypeOK, DataTypeOK, WalkTypeOK, ThreadTypeOK, Device, Status,
        ThreadStep, NoDoc, NoPoll, Unknown, Unheard, Thread, GateTypeOK,
        GateState, Unfinished, Forgotten
<1>1. ASSUME NEW p \in Poll, LoadDefinition(p)
      PROVE  TypeOK'
  <2>1. GateTypeOK'
    <3>1. poll[p].dev.addr \in Address /\ p \in Op
      BY <1>1 DEF LoadDefinition
    <3> QED
      BY <1>1, <3>1, EnterTypes DEF LoadDefinition
  <2>2. FlagTypeOK'
    BY <1>1 DEF LoadDefinition, PollGoes, Enter
  <2>3. DataTypeOK'
    <3>1. poll[p].dev.addr \in Address
      BY <1>1 DEF LoadDefinition
    <3>2. \/ doc' = doc
          \/ \E s \in Status : doc' = [doc EXCEPT !.addr = poll[p].dev.addr,
                                             !.status = s]
      BY <1>1 DEF LoadDefinition
    <3>3. doc' \in [status : Status, addr : Address \cup {None}, value : Nat]
      BY ZenonT(60), <3>1, <3>2
    <3> QED
      BY <1>1, <3>3 DEF LoadDefinition
  <2>4. WalkTypeOK'
    BY <1>1, PollGoesTypes DEF LoadDefinition
  <2>5. ThreadTypeOK'
    BY <1>1 DEF LoadDefinition, PollGoes, Enter
  <2> QED
    BY <2>1, <2>2, <2>3, <2>4, <2>5
<1>2. ASSUME NEW p \in Poll, Walk(p)
      PROVE  TypeOK'
  <2>1. GateTypeOK'
    BY <1>2, SettleTypes DEF Walk
  <2>2. FlagTypeOK'
    BY <1>2 DEF Walk, PollGoes, Settle
  <2>3. DataTypeOK'
    BY <1>2 DEF Walk, PollGoes, Settle
  <2>4. WalkTypeOK'
    <3>1. CASE PollGoes(p, "store")
      BY <3>1, <1>2, PollGoesTypes DEF Walk
    <3>2. CASE poll' = [poll EXCEPT ![p] =
                          [@ EXCEPT !.at = "store", !.value = setting]]
      <4> DEFINE q == [poll[p] EXCEPT !.at = "store", !.value = setting]
      <4>4. poll[p] \in [at : {"free", "load", "walk", "store", "done"},
                         dev : Device \cup {None}, value : Nat]
        OBVIOUS
      <4>1. q \in [at : {"free", "load", "walk", "store", "done"},
                  dev : Device \cup {None}, value : Nat]
        BY <4>4
      <4>2. poll' = [poll EXCEPT ![p] = q]
        BY <3>2
      <4>3. /\ poll' \in [Poll -> [at : {"free", "load", "walk", "store", "done"},
                                  dev : Device \cup {None}, value : Nat]]
            /\ \A s \in Poll : s # p => poll'[s] = poll[s]
            /\ poll'[p].dev = poll[p].dev
        BY <4>1, <4>2
      <4> QED
        BY <4>3, <1>2 DEF Walk
    <3> QED
      BY <3>1, <3>2, <1>2 DEF Walk
  <2>5. ThreadTypeOK'
    BY <1>2 DEF Walk, PollGoes, Settle
  <2> QED
    BY <2>1, <2>2, <2>3, <2>4, <2>5
<1>3. ASSUME NEW p \in Poll, Store(p)
      PROVE  TypeOK'
  <2>1. GateTypeOK'
    BY <1>3 DEF Store, PollGoes
  <2>2. FlagTypeOK'
    BY <1>3 DEF Store, PollGoes
  <2>3. DataTypeOK'
    BY <1>3 DEF Store, PollGoes
  <2>4. WalkTypeOK'
    BY <1>3, PollGoesTypes DEF Store
  <2>5. ThreadTypeOK'
    BY <1>3 DEF Store, PollGoes
  <2> QED
    BY <2>1, <2>2, <2>3, <2>4, <2>5
<1>4. ASSUME NEW p \in Poll, EndPoll(p)
      PROVE  TypeOK'
  BY <1>4 DEF EndPoll
<1>5. ASSUME NEW t \in Thread, ListDevices(t)
      PROVE  TypeOK'
  BY <1>5 DEF ListDevices, Goto
<1>6. ASSUME NEW t \in Thread, AwaitRefresh(t)
      PROVE  TypeOK'
  <2>1. GateTypeOK'
    BY <1>6 DEF AwaitRefresh, Goto, Refresh, Start
  <2>2. FlagTypeOK'
    BY <1>6 DEF AwaitRefresh, Goto, Refresh, Start
  <2>3. DataTypeOK'
    BY <1>6 DEF AwaitRefresh, Goto, Refresh, Start
  <2>4. WalkTypeOK'
    <3>1. dev[t] \in Device
      BY <1>6 DEF AwaitRefresh
    <3> QED
      BY <1>6, <3>1, RefreshTypes DEF AwaitRefresh
  <2>5. ThreadTypeOK'
    BY <1>6 DEF AwaitRefresh, Goto, Refresh, Start
  <2> QED
    BY <2>1, <2>2, <2>3, <2>4, <2>5
<1>7. ASSUME NEW t \in Thread, PlanChanges(t)
      PROVE  TypeOK'
  <2>1. GateTypeOK'
    <3>1. dev[t].addr \in Address /\ t \in Op
      BY <1>7 DEF PlanChanges
    <3> QED
      BY <1>7, <3>1, EnterTypes DEF PlanChanges
  <2>2. FlagTypeOK'
    BY <1>7 DEF PlanChanges, Goto, Finish, Enter
  <2>3. DataTypeOK'
    BY <1>7 DEF PlanChanges, Goto, Finish, Enter
  <2>4. WalkTypeOK'
    BY <1>7 DEF PlanChanges, Goto, Finish, Enter
  <2>5. ThreadTypeOK'
    <3>1. CASE Goto(t, "set") /\ dev' = dev
      BY <3>1, <1>7 DEF PlanChanges, Goto
    <3>2. CASE Finish(t)
      BY <3>2, <1>7 DEF PlanChanges, Finish
    <3> QED
      BY <3>1, <3>2, <1>7 DEF PlanChanges
  <2> QED
    BY <2>1, <2>2, <2>3, <2>4, <2>5
<1>8. ASSUME NEW t \in Thread, Apply(t)
      PROVE  TypeOK'
  <2>1. GateTypeOK'
    BY <1>8, SettleTypes DEF Apply
  <2>2. FlagTypeOK'
    BY <1>8 DEF Apply, Goto, Finish, Settle
  <2>3. DataTypeOK'
    BY <1>8 DEF Apply, Goto, Finish, Settle
  <2>4. WalkTypeOK'
    BY <1>8 DEF Apply, Goto, Finish, Settle
  <2>5. ThreadTypeOK'
    <3>1. UNCHANGED <<heard, joined>>
      BY <1>8 DEF Apply
    <3>2. CASE Goto(t, "listed") /\ dev' = dev
      BY <3>1, <3>2, <1>8 DEF Apply, Goto
    <3>3. CASE Finish(t)
      BY <3>1, <3>3 DEF Finish
    <3> QED
      BY <3>2, <3>3, <1>8 DEF Apply
  <2> QED
    BY <2>1, <2>2, <2>3, <2>4, <2>5
<1>9. ASSUME NEW t \in Thread, ReuseProbe(t)
      PROVE  TypeOK'
  <2>1. GateTypeOK'
    BY <1>9 DEF ReuseProbe, Goto, Hear
  <2>2. FlagTypeOK'
    BY <1>9 DEF ReuseProbe, Goto, Hear
  <2>3. DataTypeOK'
    BY <1>9 DEF ReuseProbe, Goto, Hear
  <2>4. WalkTypeOK'
    BY <1>9 DEF ReuseProbe, Goto, Hear
  <2>5. ThreadTypeOK'
    <3>1. lastProbe[dev[t].addr].online \in BOOLEAN
      BY <1>9 DEF ReuseProbe
    <3> QED
      BY SMTT(30), <1>9, <3>1 DEF ReuseProbe, Goto, Hear
  <2> QED
    BY <2>1, <2>2, <2>3, <2>4, <2>5
<1>10. ASSUME NEW t \in Thread, Probe(t)
      PROVE  TypeOK'
  <2>1. GateTypeOK'
    BY <1>10 DEF Probe, Goto, Hear
  <2>2. FlagTypeOK'
    BY <1>10 DEF Probe, Goto, Hear
  <2>3. DataTypeOK'
    <3>1. PICK online \in BOOLEAN :
            lastProbe' = [lastProbe EXCEPT ![dev[t].addr] =
                            [age |-> "fresh", online |-> online]]
      BY <1>10 DEF Probe
    <3>2. [age |-> "fresh", online |-> online]
            \in [age : {"fresh", "recent", "old"}, online : BOOLEAN]
      OBVIOUS
    <3>3. lastProbe' \in [Address -> [age : {"fresh", "recent", "old"},
                                     online : BOOLEAN]]
      BY <3>1, <3>2
    <3>4. lost' \in Nat
      BY <1>10 DEF Probe
    <3> QED
      BY <1>10, <3>3, <3>4 DEF Probe
  <2>4. WalkTypeOK'
    BY <1>10 DEF Probe, Goto, Hear
  <2>5. ThreadTypeOK'
    BY <1>10 DEF Probe, Goto, Hear
  <2> QED
    BY <2>1, <2>2, <2>3, <2>4, <2>5
<1>11. ASSUME NEW t \in Thread, ReadStatus(t)
      PROVE  TypeOK'
  BY <1>11 DEF ReadStatus, Goto
<1>12. ASSUME NEW t \in Thread, SyncOnline(t)
      PROVE  TypeOK'
  <2>1. GateTypeOK'
    BY <1>12 DEF SyncOnline, Finish, Refresh, Start
  <2>2. FlagTypeOK'
    BY <1>12 DEF SyncOnline, Finish, Refresh, Start
  <2>3. DataTypeOK'
    BY <1>12 DEF SyncOnline, Finish, Refresh, Start
  <2>4. WalkTypeOK'
    <3>1. dev[t] \in Device
      BY <1>12 DEF SyncOnline
    <3> QED
      BY <1>12, <3>1, RefreshTypes DEF SyncOnline, WalkTypeOK
  <2>5. ThreadTypeOK'
    BY <1>12 DEF SyncOnline, Finish, Refresh, Start
  <2> QED
    BY <2>1, <2>2, <2>3, <2>4, <2>5
<1>13. ASSUME NEW t \in Thread, SyncOffline(t)
      PROVE  TypeOK'
  <2>1. GateTypeOK'
    BY <1>13 DEF SyncOffline, Finish
  <2>2. FlagTypeOK'
    BY <1>13 DEF SyncOffline, Finish
  <2>3. DataTypeOK'
    <3>1. doc' = doc \/ doc' = [doc EXCEPT !.status = "UNREACHABLE"]
      BY <1>13 DEF SyncOffline
    <3>2. doc' \in [status : Status, addr : Address \cup {None}, value : Nat]
      BY <3>1
    <3> QED
      BY <1>13, <3>2 DEF SyncOffline
  <2>4. WalkTypeOK'
    BY <1>13 DEF SyncOffline, Finish
  <2>5. ThreadTypeOK'
    BY <1>13 DEF SyncOffline, Finish
  <2> QED
    BY <2>1, <2>2, <2>3, <2>4, <2>5
<1>14. ASSUME NEW t \in Thread, ReadStale(t)
      PROVE  TypeOK'
  BY <1>14 DEF ReadStale, Goto
<1>15. ASSUME NEW t \in Thread, DropStale(t)
      PROVE  TypeOK'
  BY <1>15 DEF DropStale, Goto
<1>16. ASSUME NEW t \in Thread, FirstRead(t)
      PROVE  TypeOK'
  <2>1. GateTypeOK'
    BY <1>16 DEF FirstRead, Finish, Refresh, Start
  <2>2. FlagTypeOK'
    BY <1>16 DEF FirstRead, Finish, Refresh, Start
  <2>3. DataTypeOK'
    BY <1>16 DEF FirstRead, Finish, Refresh, Start
  <2>4. WalkTypeOK'
    <3>1. dev[t] \in Device
      BY <1>16 DEF FirstRead
    <3> QED
      BY <1>16, <3>1, RefreshTypes DEF FirstRead, WalkTypeOK
  <2>5. ThreadTypeOK'
    BY <1>16 DEF FirstRead, Finish, Refresh, Start
  <2> QED
    BY <2>1, <2>2, <2>3, <2>4, <2>5
<1>17. ASSUME NEW t \in Thread, ClearValues(t)
      PROVE  TypeOK'
  BY <1>17 DEF ClearValues, Goto
<1>18. ASSUME NEW t \in Thread, ReadCurrent(t)
      PROVE  TypeOK'
  BY <1>18 DEF ReadCurrent, BeginRequest, Goto
<1>19. ASSUME NEW t \in Thread, BeginApply(t)
      PROVE  TypeOK'
  BY <1>19 DEF BeginApply, BeginRequest, Goto
<1>20. ASSUME NEW t \in Thread, BeginLiveStatus(t)
      PROVE  TypeOK'
  BY <1>20 DEF BeginLiveStatus, BeginRequest, Goto
<1>21. ASSUME NEW t \in Thread, Provision(t)
      PROVE  TypeOK'
  BY <1>21 DEF Provision, BeginRequest, Goto, AtRest
<1>22. ASSUME NEW t \in Thread, Deprovision(t)
      PROVE  TypeOK'
  <2>1. GateTypeOK'
    BY <1>22 DEF Deprovision, BeginRequest, Goto
  <2>2. FlagTypeOK'
    BY <1>22 DEF Deprovision, BeginRequest, Goto
  <2>3. DataTypeOK'
    BY <1>22 DEF Deprovision, BeginRequest, Goto
  <2>4. WalkTypeOK'
    BY <1>22 DEF Deprovision, BeginRequest, Goto
  <2>5. ThreadTypeOK'
    BY <1>22 DEF Deprovision, BeginRequest, Goto
  <2> QED
    BY <2>1, <2>2, <2>3, <2>4, <2>5
<1>23. ASSUME WorldChanges
      PROVE  TypeOK'
  <2>1. GateTypeOK'
    BY <1>23 DEF WorldChanges
  <2>2. FlagTypeOK'
    BY <1>23 DEF WorldChanges
  <2>3. DataTypeOK'
    BY <1>23 DEF WorldChanges
  <2>4. WalkTypeOK'
    BY <1>23 DEF WorldChanges
  <2>5. ThreadTypeOK'
    BY <1>23 DEF WorldChanges
  <2> QED
    BY <2>1, <2>2, <2>3, <2>4, <2>5
<1>24. ASSUME NEW a \in Address, ProbeAges(a)
      PROVE  TypeOK'
  BY SMTT(30), <1>24 DEF ProbeAges
<1>25. ASSUME Restart
      PROVE  TypeOK'
  <2>1. GateTypeOK'
    BY <1>25 DEF Restart
  <2>2. FlagTypeOK'
    BY <1>25 DEF Restart
  <2>3. DataTypeOK'
    BY <1>25 DEF Restart
  <2>4. WalkTypeOK'
    BY <1>25 DEF Restart
  <2>5. ThreadTypeOK'
    BY <1>25 DEF Restart
  <2> QED
    BY <2>1, <2>2, <2>3, <2>4, <2>5
<1>26. CASE UNCHANGED vars
  BY <1>26
<1> QED
  BY <1>1, <1>2, <1>3, <1>4, <1>5, <1>6, <1>7, <1>8, <1>9, <1>10, <1>11,
     <1>12, <1>13, <1>14, <1>15, <1>16, <1>17, <1>18, <1>19, <1>20, <1>21,
     <1>22, <1>23, <1>24, <1>25, <1>26 DEF Next, PollStep, ThreadGoesOn,
     Request

\* What a step does with the gate: nothing, one operation queues up or ends,
\* or all are forgotten.
LEMMA GateMoves ==
  ASSUME TypeOK, [Next]_vars
  PROVE  \/ UNCHANGED gateVars
         \/ \E o \in Op, a \in Address : Enter(o, a)
         \/ \E o \in Op : Settle(o)
         \/ GateInit'
<1> DEFINE Moves == \/ UNCHANGED gateVars
                    \/ \E o \in Op, a \in Address : Enter(o, a)
                    \/ \E o \in Op : Settle(o)
                    \/ GateInit'
<1> SUFFICES Moves
  OBVIOUS
<1>1. ASSUME NEW p \in Poll, LoadDefinition(p)
      PROVE  Moves
  <2>1. CASE Enter(p, poll[p].dev.addr)
    <3>1. p \in Op /\ poll[p].dev.addr \in Address
      BY <1>1, PollingAssumption
      DEF LoadDefinition, TypeOK, WalkTypeOK, Device
    <3> QED
      BY <2>1, <3>1
  <2> QED
    BY <2>1, <1>1 DEF LoadDefinition
<1>2. ASSUME NEW p \in Poll, Walk(p)
      PROVE  Moves
  BY <1>2, PollingAssumption DEF Walk
<1>3. ASSUME NEW p \in Poll, Store(p)
      PROVE  Moves
  BY <1>3 DEF Store, gateVars
<1>4. ASSUME NEW p \in Poll, EndPoll(p)
      PROVE  Moves
  BY <1>4 DEF EndPoll, gateVars
<1>5. ASSUME NEW t \in Thread, ListDevices(t)
      PROVE  Moves
  BY <1>5 DEF ListDevices, gateVars
<1>6. ASSUME NEW t \in Thread, AwaitRefresh(t)
      PROVE  Moves
  BY <1>6 DEF AwaitRefresh, gateVars
<1>7. ASSUME NEW t \in Thread, PlanChanges(t)
      PROVE  Moves
  <2>1. CASE Enter(t, dev[t].addr)
    <3>1. t \in Op /\ dev[t].addr \in Address
      BY <1>7, PollingAssumption
      DEF PlanChanges, TypeOK, ThreadTypeOK, Device, Thread
    <3> QED
      BY <2>1, <3>1
  <2> QED
    BY <2>1, <1>7 DEF PlanChanges
<1>8. ASSUME NEW t \in Thread, Apply(t)
      PROVE  Moves
  BY <1>8, PollingAssumption DEF Apply, Thread
<1>9. ASSUME NEW t \in Thread, ReuseProbe(t)
      PROVE  Moves
  BY <1>9 DEF ReuseProbe, gateVars
<1>10. ASSUME NEW t \in Thread, Probe(t)
      PROVE  Moves
  BY <1>10 DEF Probe, gateVars
<1>11. ASSUME NEW t \in Thread, ReadStatus(t)
      PROVE  Moves
  BY <1>11 DEF ReadStatus, gateVars
<1>12. ASSUME NEW t \in Thread, SyncOnline(t)
      PROVE  Moves
  BY <1>12 DEF SyncOnline, gateVars
<1>13. ASSUME NEW t \in Thread, SyncOffline(t)
      PROVE  Moves
  BY <1>13 DEF SyncOffline, gateVars
<1>14. ASSUME NEW t \in Thread, ReadStale(t)
      PROVE  Moves
  BY <1>14 DEF ReadStale, gateVars
<1>15. ASSUME NEW t \in Thread, DropStale(t)
      PROVE  Moves
  BY <1>15 DEF DropStale, gateVars
<1>16. ASSUME NEW t \in Thread, FirstRead(t)
      PROVE  Moves
  BY <1>16 DEF FirstRead, gateVars
<1>17. ASSUME NEW t \in Thread, ClearValues(t)
      PROVE  Moves
  BY <1>17 DEF ClearValues, gateVars
<1>18. ASSUME NEW t \in Thread, ReadCurrent(t)
      PROVE  Moves
  BY <1>18 DEF ReadCurrent, gateVars
<1>19. ASSUME NEW t \in Thread, BeginApply(t)
      PROVE  Moves
  BY <1>19 DEF BeginApply, gateVars
<1>20. ASSUME NEW t \in Thread, BeginLiveStatus(t)
      PROVE  Moves
  BY <1>20 DEF BeginLiveStatus, gateVars
<1>21. ASSUME NEW t \in Thread, Provision(t)
      PROVE  Moves
  BY <1>21 DEF Provision, gateVars
<1>22. ASSUME NEW t \in Thread, Deprovision(t)
      PROVE  Moves
  BY <1>22 DEF Deprovision, gateVars
<1>23. ASSUME WorldChanges
      PROVE  Moves
  BY <1>23 DEF WorldChanges, gateVars
<1>24. ASSUME NEW a \in Address, ProbeAges(a)
      PROVE  Moves
  BY <1>24 DEF ProbeAges, gateVars
<1>25. ASSUME Restart
      PROVE  Moves
  BY <1>25 DEF Restart, GateInit
<1>26. CASE UNCHANGED vars
  BY <1>26 DEF vars
<1> QED
  BY <1>1, <1>2, <1>3, <1>4, <1>5, <1>6, <1>7, <1>8, <1>9, <1>10, <1>11,
     <1>12, <1>13, <1>14, <1>15, <1>16, <1>17, <1>18, <1>19, <1>20, <1>21,
     <1>22, <1>23, <1>24, <1>25, <1>26 DEF Next, PollStep, ThreadGoesOn,
     Request

\* No step breaks the chain or leaves an address without its turn.
LEMMA GateStep ==
  ASSUME TypeOK, GateInv, MovingInv, [Next]_vars
  PROVE  GateInv' /\ MovingInv'
<1>1. CASE UNCHANGED gateVars
  BY <1>1 DEF gateVars, GateInv, MovingInv, Unfinished, GateTypeOK
<1>2. ASSUME NEW o \in Op, NEW a \in Address, Enter(o, a)
      PROVE  GateInv' /\ MovingInv'
  BY <1>2, EnterKeepsChain, EnterKeepsMoving
<1>3. ASSUME NEW o \in Op, Settle(o)
      PROVE  GateInv' /\ MovingInv'
  BY <1>3, SettleKeepsChain, SettleKeepsMoving
<1>4. CASE GateInit'
  BY <1>4, GateAssumption
     DEF GateInit, GateInv, MovingInv, GateTypeOK, GateState, Unfinished
<1> QED
  BY <1>1, <1>2, <1>3, <1>4, GateMoves

\* No step makes a second walk or stores older values.
LEMMA WalkStep ==
  ASSUME TypeOK, WalkInv, [Next]_vars
  PROVE  WalkInv' /\ (doc'.value = 0 \/ doc'.value >= doc.value)
<1> USE GateAssumption, PollingAssumption
    DEF vars, gateVars, field, inventory, memory, threads, TypeOK,
        FlagTypeOK, DataTypeOK, WalkTypeOK, ThreadTypeOK, Device, Status,
        NoDoc, NoPoll, Thread, ThreadStep, WalkInv
<1>1. ASSUME NEW p \in Poll, LoadDefinition(p)
      PROVE  WalkInv' /\ (doc'.value = 0 \/ doc'.value >= doc.value)
  <2>1. doc'.value = doc.value /\ setting' = setting /\ inflight' = inflight
    BY ZenonT(60), <1>1 DEF LoadDefinition
  <2>2. \A q \in Poll :
          /\ poll'[q].value = poll[q].value
          /\ \/ poll'[q] = poll[q]
             \/ poll[q].at = "load" /\ poll'[q].at # "store"
          /\ poll'[q].at # "free" => poll[q].at # "free"
    <3>1. poll[p].at = "load"
      BY <1>1 DEF LoadDefinition
    <3>2. CASE PollGoes(p, "walk")
      BY <3>1, <3>2 DEF PollGoes
    <3>3. CASE PollGoes(p, "done")
      BY <3>1, <3>3 DEF PollGoes
    <3> QED
      BY <3>2, <3>3, <1>1 DEF LoadDefinition
  <2>3. \A q \in Poll : poll'[q].at # "free" => inflight' = q
    BY <2>1, <2>2
  <2>4. \A q \in Poll :
          /\ poll'[q].value <= setting'
          /\ poll'[q].at \in {"load", "walk"} => poll'[q].value = 0
    BY <2>1, <2>2
  <2>5. \A q \in Poll : poll'[q].at = "store" /\ poll'[q].value > 0
                       => poll'[q].value >= doc'.value
    BY <2>1, <2>2
  <2> QED
    BY <2>1, <2>3, <2>4, <2>5
<1>2. ASSUME NEW p \in Poll, Walk(p)
      PROVE  WalkInv' /\ (doc'.value = 0 \/ doc'.value >= doc.value)
  <2>1. doc' = doc /\ setting' = setting /\ inflight' = inflight
    BY <1>2 DEF Walk
  <2>2. \A q \in Poll :
          /\ poll'[q].at # "free" => poll[q].at # "free"
          /\ poll'[q].value \in {poll[q].value, setting}
          /\ poll'[q] = poll[q] \/ poll'[q].at = "store"
    <3>1. CASE poll' = [poll EXCEPT ![p] =
                          [@ EXCEPT !.at = "store", !.value = setting]]
      BY <3>1, <1>2 DEF Walk
    <3>2. CASE PollGoes(p, "store")
      BY <3>2, <1>2 DEF Walk, PollGoes
    <3> QED
      BY <3>1, <3>2, <1>2 DEF Walk
  <2>3. \A q \in Poll : poll'[q].at = "store" /\ poll'[q].value > 0
                       => poll'[q].value >= doc.value
    <3>1. CASE poll' = [poll EXCEPT ![p] =
                          [@ EXCEPT !.at = "store", !.value = setting]]
      BY <3>1
    <3>2. CASE PollGoes(p, "store")
      <4>1. \A q \in Poll : q # p => poll'[q] = poll[q]
        BY <3>2 DEF PollGoes
      <4>2. poll[p].value = 0
        BY <1>2 DEF Walk
      <4> QED
        BY <4>1, <4>2, <3>2 DEF PollGoes
    <3> QED
      BY <3>1, <3>2, <1>2 DEF Walk
  <2>4. \A q \in Poll : poll'[q].at # "free" => inflight' = q
    BY <2>1, <2>2
  <2>5. \A q \in Poll :
          /\ poll'[q].value <= setting'
          /\ poll'[q].at \in {"load", "walk"} => poll'[q].value = 0
    BY <2>1, <2>2
  <2> QED
    BY <2>1, <2>3, <2>4, <2>5
<1>3. ASSUME NEW p \in Poll, Store(p)
      PROVE  WalkInv' /\ (doc'.value = 0 \/ doc'.value >= doc.value)
  BY <1>3 DEF Store, PollGoes
<1>4. ASSUME NEW p \in Poll, EndPoll(p)
      PROVE  WalkInv' /\ (doc'.value = 0 \/ doc'.value >= doc.value)
  BY <1>4 DEF EndPoll
<1>5. ASSUME NEW t \in Thread, ListDevices(t)
      PROVE  WalkInv' /\ (doc'.value = 0 \/ doc'.value >= doc.value)
  BY <1>5 DEF ListDevices, Goto
<1>6. ASSUME NEW t \in Thread, AwaitRefresh(t)
      PROVE  WalkInv' /\ (doc'.value = 0 \/ doc'.value >= doc.value)
  BY <1>6 DEF AwaitRefresh, Goto, Refresh, Start
<1>7. ASSUME NEW t \in Thread, PlanChanges(t)
      PROVE  WalkInv' /\ (doc'.value = 0 \/ doc'.value >= doc.value)
  BY <1>7 DEF PlanChanges, Goto, Finish, Enter
<1>8. ASSUME NEW t \in Thread, Apply(t)
      PROVE  WalkInv' /\ (doc'.value = 0 \/ doc'.value >= doc.value)
  BY <1>8 DEF Apply, Goto, Finish, Settle
<1>9. ASSUME NEW t \in Thread, ReuseProbe(t)
      PROVE  WalkInv' /\ (doc'.value = 0 \/ doc'.value >= doc.value)
  BY <1>9 DEF ReuseProbe, Goto, Hear
<1>10. ASSUME NEW t \in Thread, Probe(t)
      PROVE  WalkInv' /\ (doc'.value = 0 \/ doc'.value >= doc.value)
  BY <1>10 DEF Probe, Goto, Hear
<1>11. ASSUME NEW t \in Thread, ReadStatus(t)
      PROVE  WalkInv' /\ (doc'.value = 0 \/ doc'.value >= doc.value)
  BY <1>11 DEF ReadStatus, Goto
<1>12. ASSUME NEW t \in Thread, SyncOnline(t)
      PROVE  WalkInv' /\ (doc'.value = 0 \/ doc'.value >= doc.value)
  BY <1>12 DEF SyncOnline, Finish, Refresh, Start
<1>13. ASSUME NEW t \in Thread, SyncOffline(t)
      PROVE  WalkInv' /\ (doc'.value = 0 \/ doc'.value >= doc.value)
  BY <1>13 DEF SyncOffline, Finish
<1>14. ASSUME NEW t \in Thread, ReadStale(t)
      PROVE  WalkInv' /\ (doc'.value = 0 \/ doc'.value >= doc.value)
  BY <1>14 DEF ReadStale, Goto
<1>15. ASSUME NEW t \in Thread, DropStale(t)
      PROVE  WalkInv' /\ (doc'.value = 0 \/ doc'.value >= doc.value)
  BY <1>15 DEF DropStale, Goto
<1>16. ASSUME NEW t \in Thread, FirstRead(t)
      PROVE  WalkInv' /\ (doc'.value = 0 \/ doc'.value >= doc.value)
  <2>1. CASE UNCHANGED <<inflight, poll>>
    BY <2>1, <1>16 DEF FirstRead
  <2>2. CASE Refresh(dev[t])
    BY SMTT(30), <2>2, <1>16 DEF FirstRead, Refresh, Start
  <2> QED
    BY <2>1, <2>2, <1>16 DEF FirstRead
<1>17. ASSUME NEW t \in Thread, ClearValues(t)
      PROVE  WalkInv' /\ (doc'.value = 0 \/ doc'.value >= doc.value)
  BY <1>17 DEF ClearValues, Goto
<1>18. ASSUME NEW t \in Thread, ReadCurrent(t)
      PROVE  WalkInv' /\ (doc'.value = 0 \/ doc'.value >= doc.value)
  BY <1>18 DEF ReadCurrent, BeginRequest, Goto
<1>19. ASSUME NEW t \in Thread, BeginApply(t)
      PROVE  WalkInv' /\ (doc'.value = 0 \/ doc'.value >= doc.value)
  BY <1>19 DEF BeginApply, BeginRequest, Goto
<1>20. ASSUME NEW t \in Thread, BeginLiveStatus(t)
      PROVE  WalkInv' /\ (doc'.value = 0 \/ doc'.value >= doc.value)
  BY <1>20 DEF BeginLiveStatus, BeginRequest, Goto
<1>21. ASSUME NEW t \in Thread, Provision(t)
      PROVE  WalkInv' /\ (doc'.value = 0 \/ doc'.value >= doc.value)
  BY <1>21 DEF Provision, BeginRequest, Goto, AtRest
<1>22. ASSUME NEW t \in Thread, Deprovision(t)
      PROVE  WalkInv' /\ (doc'.value = 0 \/ doc'.value >= doc.value)
  BY <1>22 DEF Deprovision, BeginRequest, Goto
<1>23. ASSUME WorldChanges
      PROVE  WalkInv' /\ (doc'.value = 0 \/ doc'.value >= doc.value)
  BY <1>23 DEF WorldChanges
<1>24. ASSUME NEW a \in Address, ProbeAges(a)
      PROVE  WalkInv' /\ (doc'.value = 0 \/ doc'.value >= doc.value)
  BY <1>24 DEF ProbeAges
<1>25. ASSUME Restart
      PROVE  WalkInv' /\ (doc'.value = 0 \/ doc'.value >= doc.value)
  BY <1>25 DEF Restart
<1>26. CASE UNCHANGED vars
  BY <1>26
<1> QED
  BY <1>1, <1>2, <1>3, <1>4, <1>5, <1>6, <1>7, <1>8, <1>9, <1>10, <1>11,
     <1>12, <1>13, <1>14, <1>15, <1>16, <1>17, <1>18, <1>19, <1>20, <1>21,
     <1>22, <1>23, <1>24, <1>25, <1>26 DEF Next, PollStep, ThreadGoesOn,
     Request

\* No step lets the old address in again.
LEMMA AddressStep ==
  ASSUME TypeOK, TypeOK', AddressInv, [Next]_vars
  PROVE  AddressInv'
<1> USE GateAssumption, PollingAssumption
    DEF vars, gateVars, field, inventory, memory, threads, TypeOK,
        FlagTypeOK, DataTypeOK, WalkTypeOK, ThreadTypeOK, Device, Status,
        NoDoc, NoPoll, Thread, ThreadStep,  AddressInv, ShowsOwnAddress,
        Resetting
<1>1. ASSUME NEW p \in Poll, LoadDefinition(p)
      PROVE  AddressInv'
  <2>1. (doc.status = "none" => doc.addr = None)'
    <3>1. CASE doc' = doc
      BY <3>1, <1>1 DEF LoadDefinition
    <3>2. CASE doc' = [doc EXCEPT !.addr = poll[p].dev.addr,
                         !.status = IF defined THEN "NO_CREDENTIALS"
                                    ELSE "NOT_POLLED"]
      <4>1. doc'.addr = poll[p].dev.addr /\ doc'.status # "none"
        BY <3>2
      <4> QED
        BY <4>1, <1>1 DEF LoadDefinition
    <3> QED
      BY <3>1, <3>2, <1>1 DEF LoadDefinition
  <2>2. (\A s \in Thread : joined[s] # None => at[s] = "waits")'
    BY <1>1 DEF LoadDefinition, PollGoes, Enter
  <2>3. (quiet => \A s \in Thread : at[s] \notin {"idle", "clear"}
                                 => dev[s].addr = record.addr)'
    BY <1>1 DEF LoadDefinition, PollGoes, Enter
  <2>4. (quiet => \A q \in Poll : poll[q].at # "free"
                              => poll[q].dev.addr = record.addr)'
    BY SMTT(30), <1>1 DEF LoadDefinition, PollGoes, Enter
  <2>5. (quiet => ShowsOwnAddress)'
    <3>1. CASE doc' = doc
      BY <3>1, <1>1 DEF LoadDefinition
    <3>2. CASE doc' = [doc EXCEPT !.addr = poll[p].dev.addr,
                         !.status = IF defined THEN "NO_CREDENTIALS"
                                    ELSE "NOT_POLLED"]
      <4>1. doc'.addr = poll[p].dev.addr /\ doc'.status # "none"
        BY <3>2
      <4> QED
        BY <4>1, <1>1 DEF LoadDefinition
    <3> QED
      BY <3>1, <3>2, <1>1 DEF LoadDefinition
  <2> QED
    BY <2>1, <2>2, <2>3, <2>4, <2>5
<1>2. ASSUME NEW p \in Poll, Walk(p)
      PROVE  AddressInv'
  <2>1. (doc.status = "none" => doc.addr = None)'
    BY <1>2 DEF Walk, PollGoes, Settle
  <2>2. (\A s \in Thread : joined[s] # None => at[s] = "waits")'
    BY <1>2 DEF Walk, PollGoes, Settle
  <2>3. (quiet => \A s \in Thread : at[s] \notin {"idle", "clear"}
                                 => dev[s].addr = record.addr)'
    BY <1>2 DEF Walk, PollGoes, Settle
  <2>4. (quiet => \A q \in Poll : poll[q].at # "free"
                              => poll[q].dev.addr = record.addr)'
    <3>1. \A q \in Poll : poll'[q].dev = poll[q].dev
                         /\ (poll'[q].at # "free" => poll[q].at # "free")
      <4>1. CASE poll' = [poll EXCEPT ![p] =
                            [@ EXCEPT !.at = "store", !.value = setting]]
        BY <4>1, <1>2 DEF Walk
      <4>2. CASE PollGoes(p, "store")
        BY <4>2, <1>2 DEF Walk, PollGoes
      <4> QED
        BY <4>1, <4>2, <1>2 DEF Walk
    <3> QED
      BY <3>1, <1>2 DEF Walk
  <2>5. (quiet => ShowsOwnAddress)'
    BY <1>2 DEF Walk, PollGoes, Settle
  <2> QED
    BY <2>1, <2>2, <2>3, <2>4, <2>5
<1>3. ASSUME NEW p \in Poll, Store(p)
      PROVE  AddressInv'
  BY <1>3 DEF Store, PollGoes
<1>4. ASSUME NEW p \in Poll, EndPoll(p)
      PROVE  AddressInv'
  <2>1. (doc.status = "none" => doc.addr = None)'
    BY <1>4 DEF EndPoll
  <2>2. (\A s \in Thread : joined[s] # None => at[s] = "waits")'
    BY <1>4 DEF EndPoll
  <2>3. (quiet => \A s \in Thread : at[s] \notin {"idle", "clear"}
                                 => dev[s].addr = record.addr)'
    BY <1>4 DEF EndPoll
  <2>4. (quiet => \A q \in Poll : poll[q].at # "free"
                              => poll[q].dev.addr = record.addr)'
    BY <1>4 DEF EndPoll
  <2>5. (quiet => ShowsOwnAddress)'
    BY <1>4 DEF EndPoll
  <2> QED
    BY <2>1, <2>2, <2>3, <2>4, <2>5
<1>5. ASSUME NEW t \in Thread, ListDevices(t)
      PROVE  AddressInv'
  BY <1>5 DEF ListDevices, Goto
<1>6. ASSUME NEW t \in Thread, AwaitRefresh(t)
      PROVE  AddressInv'
  <2>1. (doc.status = "none" => doc.addr = None)'
    BY <1>6 DEF AwaitRefresh, Goto, Refresh, Start
  <2>2. (\A s \in Thread : joined[s] # None => at[s] = "waits")'
    BY <1>6 DEF AwaitRefresh, Goto, Refresh, Start
  <2>3. (quiet => \A s \in Thread : at[s] \notin {"idle", "clear"}
                                 => dev[s].addr = record.addr)'
    BY <1>6 DEF AwaitRefresh, Goto, Refresh, Start
  <2>4. (quiet => \A q \in Poll : poll[q].at # "free"
                              => poll[q].dev.addr = record.addr)'
    BY <1>6 DEF AwaitRefresh, Goto, Refresh, Start
  <2>5. (quiet => ShowsOwnAddress)'
    BY <1>6 DEF AwaitRefresh, Goto, Refresh, Start
  <2> QED
    BY <2>1, <2>2, <2>3, <2>4, <2>5
<1>7. ASSUME NEW t \in Thread, PlanChanges(t)
      PROVE  AddressInv'
  <2>1. (doc.status = "none" => doc.addr = None)'
    BY <1>7 DEF PlanChanges, Goto, Finish, Enter
  <2>2. (\A s \in Thread : joined[s] # None => at[s] = "waits")'
    BY <1>7 DEF PlanChanges, Goto, Finish, Enter
  <2>3. (quiet => \A s \in Thread : at[s] \notin {"idle", "clear"}
                                 => dev[s].addr = record.addr)'
    BY <1>7 DEF PlanChanges, Goto, Finish, Enter
  <2>4. (quiet => \A q \in Poll : poll[q].at # "free"
                              => poll[q].dev.addr = record.addr)'
    BY <1>7 DEF PlanChanges, Goto, Finish, Enter
  <2>5. (quiet => ShowsOwnAddress)'
    BY <1>7 DEF PlanChanges, Goto, Finish, Enter
  <2> QED
    BY <2>1, <2>2, <2>3, <2>4, <2>5
<1>8. ASSUME NEW t \in Thread, Apply(t)
      PROVE  AddressInv'
  <2>1. (doc.status = "none" => doc.addr = None)'
    BY <1>8 DEF Apply, Goto, Finish, Settle
  <2>2. (\A s \in Thread : joined[s] # None => at[s] = "waits")'
    BY <1>8 DEF Apply, Goto, Finish, Settle
  <2>3. (quiet => \A s \in Thread : at[s] \notin {"idle", "clear"}
                                 => dev[s].addr = record.addr)'
    <3>1. CASE Goto(t, "listed") /\ dev' = dev
      BY <3>1, <1>8 DEF Apply, Goto
    <3>2. CASE Finish(t)
      BY <3>2, <1>8 DEF Apply, Finish
    <3> QED
      BY <3>1, <3>2, <1>8 DEF Apply
  <2>4. (quiet => \A q \in Poll : poll[q].at # "free"
                              => poll[q].dev.addr = record.addr)'
    BY <1>8 DEF Apply, Goto, Finish, Settle
  <2>5. (quiet => ShowsOwnAddress)'
    BY <1>8 DEF Apply, Goto, Finish, Settle
  <2> QED
    BY <2>1, <2>2, <2>3, <2>4, <2>5
<1>9. ASSUME NEW t \in Thread, ReuseProbe(t)
      PROVE  AddressInv'
  BY <1>9 DEF ReuseProbe, Goto, Hear
<1>10. ASSUME NEW t \in Thread, Probe(t)
      PROVE  AddressInv'
  BY <1>10 DEF Probe, Goto, Hear
<1>11. ASSUME NEW t \in Thread, ReadStatus(t)
      PROVE  AddressInv'
  BY <1>11 DEF ReadStatus, Goto
<1>12. ASSUME NEW t \in Thread, SyncOnline(t)
      PROVE  AddressInv'
  <2>1. (doc.status = "none" => doc.addr = None)'
    BY <1>12 DEF SyncOnline, Finish, Refresh, Start
  <2>2. (\A s \in Thread : joined[s] # None => at[s] = "waits")'
    BY <1>12 DEF SyncOnline, Finish, Refresh, Start
  <2>3. (quiet => \A s \in Thread : at[s] \notin {"idle", "clear"}
                                 => dev[s].addr = record.addr)'
    BY <1>12 DEF SyncOnline, Finish, Refresh, Start
  <2>4. (quiet => \A q \in Poll : poll[q].at # "free"
                              => poll[q].dev.addr = record.addr)'
    BY <1>12 DEF SyncOnline, Finish, Refresh, Start
  <2>5. (quiet => ShowsOwnAddress)'
    BY <1>12 DEF SyncOnline, Finish, Refresh, Start
  <2> QED
    BY <2>1, <2>2, <2>3, <2>4, <2>5
<1>13. ASSUME NEW t \in Thread, SyncOffline(t)
      PROVE  AddressInv'
  BY <1>13 DEF SyncOffline, Finish
<1>14. ASSUME NEW t \in Thread, ReadStale(t)
      PROVE  AddressInv'
  BY <1>14 DEF ReadStale, Goto
<1>15. ASSUME NEW t \in Thread, DropStale(t)
      PROVE  AddressInv'
  BY <1>15 DEF DropStale, Goto
<1>16. ASSUME NEW t \in Thread, FirstRead(t)
      PROVE  AddressInv'
  <2>1. (doc.status = "none" => doc.addr = None)'
    BY <1>16 DEF FirstRead, Finish, Refresh, Start
  <2>2. (\A s \in Thread : joined[s] # None => at[s] = "waits")'
    BY <1>16 DEF FirstRead, Finish, Refresh, Start
  <2>3. (quiet => \A s \in Thread : at[s] \notin {"idle", "clear"}
                                 => dev[s].addr = record.addr)'
    BY <1>16 DEF FirstRead, Finish, Refresh, Start
  <2>4. (quiet => \A q \in Poll : poll[q].at # "free"
                              => poll[q].dev.addr = record.addr)'
    <3>1. CASE UNCHANGED <<inflight, poll>>
      BY <3>1, <1>16 DEF FirstRead
    <3>2. CASE Refresh(dev[t])
      BY SMTT(30), <3>2, <1>16 DEF FirstRead, Refresh, Start
    <3> QED
      BY <3>1, <3>2, <1>16 DEF FirstRead
  <2>5. (quiet => ShowsOwnAddress)'
    BY <1>16 DEF FirstRead, Finish, Refresh, Start
  <2> QED
    BY <2>1, <2>2, <2>3, <2>4, <2>5
<1>17. ASSUME NEW t \in Thread, ClearValues(t)
      PROVE  AddressInv'
  BY <1>17 DEF ClearValues, Goto
<1>18. ASSUME NEW t \in Thread, ReadCurrent(t)
      PROVE  AddressInv'
  BY <1>18 DEF ReadCurrent, BeginRequest, Goto
<1>19. ASSUME NEW t \in Thread, BeginApply(t)
      PROVE  AddressInv'
  BY <1>19 DEF BeginApply, BeginRequest, Goto
<1>20. ASSUME NEW t \in Thread, BeginLiveStatus(t)
      PROVE  AddressInv'
  BY <1>20 DEF BeginLiveStatus, BeginRequest, Goto
<1>21. ASSUME NEW t \in Thread, Provision(t)
      PROVE  AddressInv'
  BY <1>21 DEF Provision, BeginRequest, Goto, AtRest
<1>22. ASSUME NEW t \in Thread, Deprovision(t)
      PROVE  AddressInv'
  BY <1>22 DEF Deprovision, BeginRequest, Goto
<1>23. ASSUME WorldChanges
      PROVE  AddressInv'
  BY <1>23 DEF WorldChanges
<1>24. ASSUME NEW a \in Address, ProbeAges(a)
      PROVE  AddressInv'
  BY <1>24 DEF ProbeAges
<1>25. ASSUME Restart
      PROVE  AddressInv'
  BY <1>25 DEF Restart
<1>26. CASE UNCHANGED vars
  BY <1>26
<1> QED
  BY <1>1, <1>2, <1>3, <1>4, <1>5, <1>6, <1>7, <1>8, <1>9, <1>10, <1>11,
     <1>12, <1>13, <1>14, <1>15, <1>16, <1>17, <1>18, <1>19, <1>20, <1>21,
     <1>22, <1>23, <1>24, <1>25, <1>26 DEF Next, PollStep, ThreadGoesOn,
     Request

-----------------------------------------------------------------------------

\* Type correctness of the document, the walks, the threads and the gate.
THEOREM TypeCorrect == Spec => []TypeOK
<1>1. Init => TypeOK
  BY GateAssumption, PollingAssumption
     DEF Init, GateInit, TypeOK, FlagTypeOK, DataTypeOK, WalkTypeOK, ThreadTypeOK,
         GateTypeOK, GateState, Device, Status,
         ThreadStep, NoDoc, NoPoll, Unknown, Unheard, Thread
<1>2. TypeOK /\ [Next]_vars => TypeOK'
  BY TypeStep
<1> QED
  BY <1>1, <1>2, PTL DEF Spec

\* The chain of promises is whole, and moving, in every state.
LEMMA GateInvariants == Spec => [](GateInv /\ MovingInv)
<1>1. Init => GateInv /\ MovingInv
  BY EmptyGate DEF Init
<1>2. TypeOK /\ (GateInv /\ MovingInv) /\ [Next]_vars => (GateInv /\ MovingInv)'
  BY GateStep
<1> QED
  BY <1>1, <1>2, TypeCorrect, PTL DEF Spec

\* Operations on one agent never overlap, begin in the order in which they were
\* asked for, and none waits for an agent that nobody talks to.
THEOREM AgentsAreServedInTurn == Spec => []InTurn
BY GateInvariants, HeadIsAlone, PTL

\* Each step of the gate is one of the queue of an agent, or none: who calls
\* stands behind all that are there, and only the first one leaves.
LEMMA QueueStep ==
  ASSUME TypeOK, GateInv, [Next]_vars
  PROVE  [Queue!Next]_(Queue!vars)
<1>1. CASE UNCHANGED gateVars
  BY <1>1 DEF gateVars, Queue!vars
<1>2. ASSUME NEW o \in Op, NEW a \in Address, Enter(o, a)
      PROVE  Queue!Join(o, a)
  <2>1. Unfinished(a) = {x \in Op : target[x] = a}
    BY GateAssumption DEF GateInv, Unfinished
  <2>2. target[o] = None
    BY <1>2 DEF GateInv, Enter
  <2> QED
    BY <1>2, <2>1, <2>2 DEF Enter, Queue!Join
<1>3. ASSUME NEW o \in Op, Settle(o)
      PROVE  Queue!Leave(o)
  <2>1. target[o] # None /\ ahead[o] = {}
    BY <1>3 DEF GateInv, Settle, MayEnd
  <2> QED
    BY <1>3, <2>1 DEF Settle, Queue!Leave
<1>4. CASE GateInit'
  BY <1>4 DEF GateInit, Queue!Restart, Queue!Next
<1> QED
  BY <1>1, <1>2, <1>3, <1>4, GateMoves DEF Queue!Next

\* The gate implements the queue of each agent, for any number of callers and
\* agents: nobody's operation ends before those that were called earlier have,
\* however they ended, unless a restart ends them all.
THEOREM GateIsAQueue == Spec => ImplementsQueue
<1>1. Init => Queue!Init
  BY DEF Init, GateInit, Queue!Init
<1>2. TypeOK /\ GateInv /\ [Next]_vars => [Queue!Next]_(Queue!vars)
  BY QueueStep
<1> QED
  BY <1>1, <1>2, TypeCorrect, GateInvariants, PTL
     DEF Spec, ImplementsQueue, Queue!Spec

\* Because the callers share one walk, the stored values never go back to
\* older settings.
THEOREM ValuesMoveForward == Spec => ValuesNeverGoBack
<1>1. Init => WalkInv
  BY DEF Init, WalkInv, NoDoc, NoPoll
<1>2. TypeOK /\ WalkInv /\ [Next]_vars
        => WalkInv' /\ [doc'.value = 0 \/ doc'.value >= doc.value]_doc
  BY WalkStep
<1> QED
  BY <1>1, <1>2, TypeCorrect, PTL DEF Spec, ValuesNeverGoBack

\* A device provisioned while nothing was at work shows its own address.
THEOREM OwnAddress == Spec => []ShowsOwnAddress
<1>1. Init => AddressInv
  BY DEF Init, AddressInv, ShowsOwnAddress, NoDoc, NoPoll
<1>2. TypeOK /\ TypeOK' /\ AddressInv /\ [Next]_vars => AddressInv'
  BY AddressStep
<1>3. AddressInv => ShowsOwnAddress
  BY DEF AddressInv, ShowsOwnAddress
<1> QED
  BY <1>1, <1>2, <1>3, TypeCorrect, PTL DEF Spec
=============================================================================
