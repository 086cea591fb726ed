----------------------------- MODULE MCSession -----------------------------
(***************************************************************************)
(* Session for TLC.  A base of 2 makes 3 the largest length that two       *)
(* length bytes carry and a file of 4 bytes one that LOADMEM cuts; a       *)
(* buffer of 2 is filled, flushed and refilled within a stream.            *)
(***************************************************************************)
EXTENDS Session

AllPrograms == {"savemem", "loadmem", "run", "dir", "catalog",
                "forthRead", "forthWrite", "other"}
=============================================================================
