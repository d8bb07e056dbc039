-------------------------- MODULE MCMessageMarks ----------------------------
(***************************************************************************)
(* Instances of MessageMarks for TLC: one user has two tabs, another one.  *)
(***************************************************************************)
EXTENDS MessageMarks

CONSTANTS u1, u2, t1, t2, t3

ThreeTabs == {t1, t2, t3}
TwoTabsAndOne == [t \in ThreeTabs |-> IF t = t3 THEN u2 ELSE u1]
=============================================================================
