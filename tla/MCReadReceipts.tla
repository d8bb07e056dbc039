--------------------------- MODULE MCReadReceipts ---------------------------
(***************************************************************************)
(* Instances of ReadReceipts for TLC: a room of two, and another one of    *)
(* the first of them, whose other members use no web client.               *)
(***************************************************************************)
EXTENDS ReadReceipts

CONSTANTS u1, u2, r1, r2

BothAndOne == [r \in Rooms |-> IF r = r1 THEN {u1, u2} ELSE {u1}]
=============================================================================
