---------------------------- MODULE MCGroupChat -----------------------------
(***************************************************************************)
(* Instances of GroupChat, and with it of GroupRoom, for TLC: the tasks    *)
(* are model values, the users their ids.                                  *)
(***************************************************************************)
EXTENDS GroupChat, TLC

\* The two requests that add members are interchangeable.
AdderSymmetry == Permutations(Adders)

FourUsers == 1..4
=============================================================================
