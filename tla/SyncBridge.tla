----------------------------- MODULE SyncBridge -----------------------------
(***************************************************************************)
(* A 65C02 that starts again while the Pico, with power of its own, does   *)
(* not: the emulator's sync_bridge (6502emu.c) reads bytes until it meets  *)
(* the error status that a command 0 is answered with.  A dummy read that  *)
(* meets a read of the Pico gives both of them 0, as nobody drives the     *)
(* pulled-down bus; one that meets a write drains it.                      *)
(*                                                                         *)
(* Left out are the wait for CA1 before the first dummy read, which ESC     *)
(* ends, and the one for its release behind each, which goes on after ten  *)
(* milliseconds in any case.                                               *)
(*                                                                         *)
(* After the sync the 65C02 starts routines as in Session, whether it has  *)
(* found the marker or not.                                                *)
(***************************************************************************)
EXTENDS Session

CONSTANTS
    MaxTries,    \* 16: the dummy reads
    MaxResets    \* bound: how often the 65C02 starts again unless it is lost

SyncAssumption == MaxTries \in Nat /\ MaxResets \in Nat
ASSUME SyncAssumption

VARIABLES
    synced,      \* how the last sync went: "none" yet, "looking", "found", "skipped"
    tries, resets,
    marker,      \* what the byte taken for the marker was: its tag, "none" at first
    atRest       \* the Pico was waiting for a command at the last reset

syncVars == <<synced, tries, resets, marker, atRest>>
allVars == <<vars, syncVars>>

Syncing == {"sync", "mark1", "mark2"}
SyncTypeOK ==
    /\ hpc \notin Syncing => TypeOK
    /\ synced \in {"none", "looking", "found", "skipped"}
    /\ synced = "looking" <=> hpc \in Syncing
    /\ tries \in 0..MaxTries /\ resets \in 0..MaxResets /\ atRest \in BOOLEAN
    /\ marker \in {"none", "status", "lo", "hi", "data"}
-----------------------------------------------------------------------------
Free == [op |-> "idle", val |-> Nothing, st |-> "open"]
NotHost == UNCHANGED <<pico, picoVars, worldVars>>

\* The 65C02 has found no marker, or a byte that was none.
Lost == synced = "skipped" \/ marker \in {"lo", "hi", "data"}

\* The 65C02 forgets everything.  A byte it was just sending may get lost, or
\* reach the Pico as 0 when the bus is let go under the handshake.
HostReset ==
    /\ resets < MaxResets \/ Lost
    /\ resets' = AtMost(resets + 1, MaxResets)
    /\ host' = Free
    /\ \/ UNCHANGED pico
       \/ /\ host.op = "send" /\ Calling(host) /\ pico.op = "read" /\ Calling(pico)
          /\ pico' = [pico EXCEPT !.st = "met", !.val = Nothing]
    /\ hpc' = "sync" /\ prog' = "none" /\ cmd' = 0 /\ hout' = <<>> /\ data' = <<>>
    /\ got' = <<>> /\ status' = OK /\ cnt' = 0
    /\ synced' = "looking" /\ tries' = 0 /\ marker' = "none"
    /\ atRest' = (ppc = "cmd" /\ pico.op = "read" /\ pico'.st = "open")
    /\ UNCHANGED <<picoVars, worldVars>>

SyncRead ==
    /\ hpc \in Syncing /\ HostRead
    /\ UNCHANGED <<hostVars, picoVars, worldVars, syncVars>>

\* What the Pico does may take longer than the ten milliseconds a read waits.
Busy == ~Calling(pico) /\ ((ppc = "exec" /\ cmd_id # 0) \/ current_state # "IDLE")

SyncTimeout ==
    /\ hpc = "sync" /\ host.op = "read" /\ Calling(host) /\ Busy
    /\ host' = Free /\ hpc' = "idle" /\ synced' = "skipped"
    /\ UNCHANGED <<prog, cmd, hout, data, got, status, cnt, tries, resets, marker, atRest>>
    /\ NotHost

\* What a dummy read leads to.
Looked(found, tried) ==
    IF found THEN hpc' = "mark1" /\ marker' = host.val.tag /\ UNCHANGED <<synced, tries>>
    ELSE /\ tries' = tried /\ UNCHANGED marker
         /\ IF tried = MaxTries THEN hpc' = "idle" /\ synced' = "skipped"
            ELSE UNCHANGED <<hpc, synced>>
DummyReturns ==
    /\ hpc = "sync" /\ host.op = "read" /\ HostReturn
    /\ UNCHANGED <<prog, cmd, hout, data, got, status, cnt, picoVars, worldVars, resets, atRest>>

\* Mutant of SyncByte: the status looked for is the one the comment above
\* sync_bridge names.
SyncByteOne == DummyReturns /\ Looked(host.val.val = 1, tries + 1)
SyncByte == DummyReturns /\ Looked(host.val.val = ERR, tries + 1)

\* Mutant of MarkByte: one length byte is read, not two.
MarkByteOne ==
    /\ hpc = "mark1" /\ host.op = "read" /\ HostReturn
    /\ hpc' = "idle" /\ synced' = "found"
    /\ UNCHANGED <<prog, cmd, hout, data, got, status, cnt, tries, resets, marker, atRest>>
    /\ UNCHANGED <<picoVars, worldVars>>

\* The two length bytes behind the marker.
MarkByte ==
    /\ hpc \in {"mark1", "mark2"} /\ host.op = "read" /\ HostReturn
    /\ IF hpc = "mark1" THEN hpc' = "mark2" /\ UNCHANGED synced
                        ELSE hpc' = "idle" /\ synced' = "found"
    /\ UNCHANGED <<prog, cmd, hout, data, got, status, cnt, tries, resets, marker, atRest>>
    /\ UNCHANGED <<picoVars, worldVars>>
-----------------------------------------------------------------------------
SyncInit ==
    /\ Init
    /\ synced = "none" /\ tries = 0 /\ resets = 0 /\ atRest = FALSE
    /\ marker = "none"

SyncNext ==
    \/ (StartProgram \/ HostStep \/ PicoStep \/ Meet) /\ UNCHANGED syncVars
    \/ HostReset
    \/ SyncRead \/ SyncTimeout \/ SyncByte \/ MarkByte
SyncSpec == SyncInit /\ [][SyncNext]_allVars
-----------------------------------------------------------------------------
\* After a marker the Pico waits for a command, whatever it was in when the
\* 65C02 started again: in the arguments of a request, in a stream, in an
\* answer, or about to give an error of its own.  So if the marker was a status:
\* 255 may also be a byte of a stream or of a length.
MarkerMeansRest == synced = "found" /\ prog = "none" /\ marker = "status" => NothingLeftOver

\* A Pico that waits for a command is always found: the sync that gives up
\* has met one that was in the middle of something.
RestIsFound == synced = "skipped" => ~atRest
=============================================================================
