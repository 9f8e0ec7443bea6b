------------------------------ MODULE SnmpGate ------------------------------
(***************************************************************************)
(* The gate in front of the SNMP agents (api-gateway, live/snmpGate.js): a *)
(* chain of promises per address lets one operation at a time through, in  *)
(* the order of the calls.  Nothing but the promise of the last operation  *)
(* is kept, and even that is forgotten when the address is idle.           *)
(***************************************************************************)
EXTENDS Naturals, FiniteSets

CONSTANTS Op,        \* whatever asks for the gate, one operation at a time
          Address,   \* host and port of an agent
          None

ASSUME GateAssumption == None \notin Op \cup Address

VARIABLES gate,      \* gate[o]: how far the operation of o has got
          target,    \* the address of its operation
          prev,      \* the unfinished operation its promise is chained to
          tails,     \* tails[a]: the last operation queued for a
          ahead      \* history: the unfinished operations that were called
                     \* earlier for the same address

gateVars == <<gate, target, prev, tails, ahead>>

GateState == {"idle", "queued", "running"}

GateTypeOK ==
  /\ gate \in [Op -> GateState]
  /\ target \in [Op -> Address \cup {None}]
  /\ prev \in [Op -> Op \cup {None}]
  /\ tails \in [Address -> Op \cup {None}]
  /\ ahead \in [Op -> SUBSET Op]

GateInit ==
  /\ gate = [o \in Op |-> "idle"]
  /\ target = [o \in Op |-> None]
  /\ prev = [o \in Op |-> None]
  /\ tails = [a \in Address |-> None]
  /\ ahead = [o \in Op |-> {}]

Unfinished(a) == {o \in Op : gate[o] # "idle" /\ target[o] = a}

IsBusy(a) == tails[a] # None

\* o calls runExclusive for a.  With nothing before it, it talks to the agent
\* at once.
Enter(o, a) ==
  /\ gate[o] = "idle"
  /\ gate' = [gate EXCEPT ![o] = IF tails[a] = None THEN "running"
                                ELSE "queued"]
  /\ target' = [target EXCEPT ![o] = a]
  /\ prev' = [prev EXCEPT ![o] = tails[a]]
  /\ tails' = [tails EXCEPT ![a] = o]
  /\ ahead' = [ahead EXCEPT ![o] = Unfinished(a)]

\* Mutant: the entry of the address goes whoever has queued up meanwhile.
ForgottenAlways(o) == [tails EXCEPT ![target[o]] = None]

\* The entry of the address goes if o is still the last one.
Forgotten(o) ==
  IF tails[target[o]] = o THEN [tails EXCEPT ![target[o]] = None] ELSE tails

\* Mutant: an operation gives up while it is still waiting.
EndsAnytime(o) == gate[o] # "idle"

\* An operation begins, and its timeouts with it, when its turn comes.
MayEnd(o) == gate[o] = "running"

\* The operation of o has succeeded, failed or timed out.  The callbacks on
\* its promise run before anything else: the next one talks to the agent.
Settle(o) ==
  /\ MayEnd(o)
  /\ gate' = [x \in Op |-> IF x = o THEN "idle"
                           ELSE IF prev[x] = o THEN "running" ELSE gate[x]]
  /\ target' = [target EXCEPT ![o] = None]
  /\ prev' = [x \in Op |-> IF prev[x] = o THEN None ELSE prev[x]]
  /\ tails' = Forgotten(o)
  /\ ahead' = [x \in Op |-> ahead[x] \ {o}]

\* Whoever talks to an agent through the gate talks to it alone, and nobody
\* who called earlier is still waiting; and while somebody waits for an agent,
\* somebody talks to it ("a failed predecessor never blocks the queue").
InTurn ==
  /\ \A o \in Op : gate[o] = "running"
       => \A x \in Unfinished(target[o]) \ {o} : gate[x] = "queued"
                                                /\ o \in ahead[x]
  /\ \A a \in Address : Unfinished(a) # {}
       => \E o \in Unfinished(a) : gate[o] = "running"

\* The chain of promises implements a queue for each agent, restarts of the
\* gateway included.
Queue == INSTANCE AgentQueue WITH at <- target, before <- ahead
ImplementsQueue == Queue!Spec
=============================================================================
