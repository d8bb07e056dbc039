-------------------------- MODULE ReliableDelivery --------------------------
(***************************************************************************)
(* What the outbox promises for a chat message once its transaction has    *)
(* committed (outbox_repo.py, class docstring: a stored message will be    *)
(* delivered): its event is offered to the event log, possibly several     *)
(* times, and the message is concluded only after that; or MaxRetry failed *)
(* attempts are counted and it is abandoned.                               *)
(*                                                                         *)
(* The one weakness the code has is visible here: Abandon is not limited   *)
(* to accepted messages.  OutboxDelivery implements this specification.    *)
(***************************************************************************)
EXTENDS Naturals

CONSTANTS Messages,   \* the messages that may be sent
          MaxRetry    \* failed attempts after which a message is abandoned

VARIABLES fate,       \* fate[m]: absent, accepted, concluded or abandoned
          offered,    \* the messages of which an event was put in the log
          failures    \* failures[m]: failed attempts counted so far

vars == <<fate, offered, failures>>

Init ==
  /\ fate = [m \in Messages |-> "absent"]
  /\ offered = {}
  /\ failures = [m \in Messages |-> 0]

Accept(m) ==
  /\ fate[m] = "absent"
  /\ fate' = [fate EXCEPT ![m] = "accepted"]
  /\ UNCHANGED <<offered, failures>>

Offer(m) ==
  /\ fate[m] # "absent"
  /\ offered' = offered \union {m}
  /\ UNCHANGED <<fate, failures>>

Conclude(m) ==
  /\ fate[m] # "absent"
  /\ m \in offered
  /\ fate' = [fate EXCEPT ![m] = "concluded"]
  /\ UNCHANGED <<offered, failures>>

\* A counted failure that leaves the message to be tried again.
Fail(m) ==
  /\ fate[m] = "accepted"
  /\ failures[m] + 1 < MaxRetry
  /\ failures' = [failures EXCEPT ![m] = @ + 1]
  /\ UNCHANGED <<fate, offered>>

\* The last counted failure.  The message may have been concluded meanwhile.
Abandon(m) ==
  /\ fate[m] \in {"accepted", "concluded"}
  /\ failures[m] + 1 = MaxRetry
  /\ failures' = [failures EXCEPT ![m] = @ + 1]
  /\ fate' = [fate EXCEPT ![m] = "abandoned"]
  /\ UNCHANGED offered

Next == \E m \in Messages :
          Accept(m) \/ Offer(m) \/ Conclude(m) \/ Fail(m) \/ Abandon(m)

\* An accepted message does not stay accepted for ever.
Progress(m) == fate[m] = "accepted" /\ (Conclude(m) \/ Fail(m) \/ Abandon(m))

SafeSpec == Init /\ [][Next]_vars
Spec == SafeSpec /\ \A m \in Messages : WF_vars(Progress(m))
=============================================================================
