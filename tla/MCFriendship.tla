--------------------------- MODULE MCFriendship -----------------------------
(***************************************************************************)
(* Instances of Friendship for TLC.                                        *)
(***************************************************************************)
EXTENDS Friendship

CONSTANTS t1, t2

TwoTasks == {t1, t2}
=============================================================================
