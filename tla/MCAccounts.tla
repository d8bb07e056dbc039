----------------------------- MODULE MCAccounts -----------------------------
(***************************************************************************)
(* Instances of Accounts for TLC: three registrations, two of the same     *)
(* name, and three patches, two of the same field.                         *)
(***************************************************************************)
EXTENDS Accounts

CONSTANTS r1, r2, r3, p1, p2, p3

ThreeNames == [t \in {r1, r2, r3} |-> IF t = r3 THEN "bob" ELSE "alice"]
ThreePatches == [t \in {p1, p2, p3} |->
  CASE t = p1 -> [nickname |-> "a"]
    [] t = p2 -> [nickname |-> "b"]
    [] t = p3 -> [avatar_url |-> "c"]]
=============================================================================
