-------------------------- MODULE MCOutboxDelivery --------------------------
(***************************************************************************)
(* Instances of OutboxDelivery for TLC.                                    *)
(***************************************************************************)
EXTENDS OutboxDelivery

\* One message sent by the program.
OneMessage == {1}
\* Two messages, and rows of a former release: row 2 of a topic nobody
\* handles, row 3 of a deleted message.
TwoMessages == {1, 2}
WithLegacy == 1..3
LegacyUnknown == {2}
LegacyOrphans == {3}
NoRows == {}
=============================================================================
