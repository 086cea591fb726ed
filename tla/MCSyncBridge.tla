---------------------------- MODULE MCSyncBridge ----------------------------
(***************************************************************************)
(* The session with a reset of the 65C02 at any of its steps.  One that is *)
(* lost is followed until it is started again.                             *)
(***************************************************************************)
EXTENDS SyncBridge

SyncPrograms == {"savemem", "loadmem", "dir", "forthWrite", "forthRead", "other"}
NotLost == Lost => prog = "none"
=============================================================================
