---------------------------- MODULE AtLeastOnce -----------------------------
(***************************************************************************)
(* What the consumer loop of config-push-worker promises for each of its   *)
(* topics, with all that it does with a message left out: messages are     *)
(* handed out in the order of the log, one at a time; an offset is         *)
(* committed only when the message in hand has been handled to its end or  *)
(* none is in hand, and then it is the offset of what was handed out; an   *)
(* exception gives up the message in hand and goes on; a crash goes back   *)
(* to the committed offset.  CommandQueue and JobDelivery implement this   *)
(* specification.                                                          *)
(***************************************************************************)
EXTENDS Naturals

VARIABLES sent,        \* the length of the log
          handed,      \* how many messages were handed out
          committed,   \* the committed offset
          busy         \* is a message in hand

vars == <<sent, handed, committed, busy>>

Init == sent = 0 /\ handed = 0 /\ committed = 0 /\ busy = FALSE

\* A message is published.
Publish ==
  /\ sent' = sent + 1
  /\ UNCHANGED <<handed, committed, busy>>

\* The next message is handed out.
HandOut ==
  /\ ~busy
  /\ handed < sent
  /\ handed' = handed + 1
  /\ busy' = TRUE
  /\ UNCHANGED <<sent, committed>>

\* The message in hand has been handled to its end.
Complete ==
  /\ busy
  /\ committed' = handed
  /\ busy' = FALSE
  /\ UNCHANGED <<sent, handed>>

\* Handling it has failed, and the consumer goes on.
GiveUp ==
  /\ busy
  /\ busy' = FALSE
  /\ UNCHANGED <<sent, handed, committed>>

\* A message of another topic has been handled to its end.
CommitAlong ==
  /\ ~busy
  /\ committed' = handed
  /\ UNCHANGED <<sent, handed, busy>>

Crash ==
  /\ handed' = committed
  /\ busy' = FALSE
  /\ UNCHANGED <<sent, committed>>

Next == Publish \/ HandOut \/ Complete \/ GiveUp \/ CommitAlong \/ Crash

Spec == Init /\ [][Next]_vars
=============================================================================
