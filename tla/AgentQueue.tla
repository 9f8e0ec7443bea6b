----------------------------- MODULE AgentQueue -----------------------------
(***************************************************************************)
(* What snmpGate.js promises to those who talk to SNMP agents, with the    *)
(* promises, the map of them and the waking up left out: a queue for each  *)
(* agent.  Whoever calls stands behind all that are there, the first one   *)
(* is served, and nobody leaves before he was.  SnmpGate implements this   *)
(* specification.                                                          *)
(***************************************************************************)
CONSTANTS Op, Address, None

VARIABLES at,        \* at[o]: the agent o wants, or None
          before     \* before[o]: those who stand before o

vars == <<at, before>>

Init ==
  /\ at = [o \in Op |-> None]
  /\ before = [o \in Op |-> {}]

\* o joins the queue of a.
Join(o, a) ==
  /\ at[o] = None
  /\ at' = [at EXCEPT ![o] = a]
  /\ before' = [before EXCEPT ![o] = {x \in Op : at[x] = a}]

\* o, who is first, has been served.
Leave(o) ==
  /\ at[o] # None
  /\ before[o] = {}
  /\ at' = [at EXCEPT ![o] = None]
  /\ before' = [x \in Op |-> before[x] \ {o}]

\* A restart of the gateway leaves nobody.
Restart ==
  /\ at' = [o \in Op |-> None]
  /\ before' = [o \in Op |-> {}]

Next ==
  \/ \E o \in Op : Leave(o) \/ \E a \in Address : Join(o, a)
  \/ Restart

Spec == Init /\ [][Next]_vars
=============================================================================
