---------------------------- MODULE PushConsumer ----------------------------
(***************************************************************************)
(* The consumer loop of config-push-worker (main.py).  One consumer reads  *)
(* two topics, the push messages of JobDelivery and the check-ins of       *)
(* CommandQueue, and handles one message at a time.  Each of the two       *)
(* modules sees its own topic; what happens to the messages of the other   *)
(* one shows in the offsets alone, because commit() commits the positions  *)
(* of both.                                                                *)
(***************************************************************************)
EXTENDS Integers, Sequences

CONSTANTS Device,        \* the devices the messages are about
          MaxCrashes,    \* bounds, for model checking only
          MaxAborts

ASSUME ConsumerAssumption == {MaxCrashes, MaxAborts} \subseteq Nat

VARIABLES topic,     \* the messages of the topic, oldest first
          pos,       \* how many of them the consumer was handed
          committed, \* the committed offset
          worker,    \* what the worker is doing; worker.at is "idle" if it has
                     \* no message of this topic in hand
          pushes,    \* successful pushes, by what was pushed (history)
          crashes,   \* of the worker, and others that are counted
          aborts     \* calls that have failed

ConsumerTypeOK ==
  /\ pos \in 0..Len(topic)
  /\ committed \in 0..pos
  /\ crashes \in Nat
  /\ aborts \in Nat

ConsumerInit ==
  /\ topic = <<>>
  /\ pos = 0
  /\ committed = 0
  /\ crashes = 0
  /\ aborts = 0

\* "async for msg in consumer": the next message is handed out.
Receive ==
  /\ worker.at = "idle"
  /\ pos < Len(topic)
  /\ pos' = pos + 1
  /\ UNCHANGED <<topic, committed, crashes, aborts>>

\* Mutants: the offset is never committed; it is counted from one too many.
OffsetKept == committed
OffsetPastEnd == pos + 1

OffsetAfterMessage == pos

\* consumer.commit(), after the message in hand.
Commit ==
  /\ committed' = OffsetAfterMessage
  /\ UNCHANGED <<topic, pos, crashes, aborts>>

\* The same call, after a message of the other topic.
CommitElsewhere ==
  /\ worker.at = "idle"
  /\ Commit
  /\ UNCHANGED <<worker, pushes>>

\* A call fails.  If the exception gets out of the handler, the loop logs it
\* and goes on with the next message, without a commit.
CallFails ==
  /\ aborts < MaxAborts
  /\ aborts' = aborts + 1
  /\ UNCHANGED <<topic, pos, committed, crashes>>

\* The worker dies and starts again from the committed offset.
Die ==
  /\ crashes < MaxCrashes
  /\ crashes' = crashes + 1
  /\ pos' = committed
  /\ UNCHANGED <<topic, committed, aborts>>

\* The consumer, seen from one topic, implements AtLeastOnce.
Consumer == INSTANCE AtLeastOnce WITH
              sent <- Len(topic), handed <- pos, busy <- worker.at # "idle"
ImplementsConsumer == Consumer!Spec
=============================================================================
