--------------------------- MODULE MCEventStream ----------------------------
(***************************************************************************)
(* Instances of EventStream for TLC.                                       *)
(***************************************************************************)
EXTENDS EventStream

CONSTANTS u1, e0, e1, e2

OneUser == {u1}
TwoEvents == {e1, e2}
ThreeEvents == {e0, e1, e2}

AllToOne == [e \in TwoEvents |-> {u1}]
NothingYet == <<>>

\* When the server starts the list holds an event that is not for this user.
OthersEvent == <<e0>>
AllButFirst == [e \in ThreeEvents |-> IF e = e0 THEN {} ELSE {u1}]
=============================================================================
