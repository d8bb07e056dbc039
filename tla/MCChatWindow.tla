---------------------------- MODULE MCChatWindow ----------------------------
(***************************************************************************)
(* Instances of ChatWindow, and with it of RoomTimeline, for TLC.          *)
(***************************************************************************)
EXTENDS ChatWindow
=============================================================================
