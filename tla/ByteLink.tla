------------------------------ MODULE ByteLink ------------------------------
(***************************************************************************)
(* What the parallel bus promises to the code that uses it, with the wires *)
(* abstracted away: the 6502 calls send_byte or read_byte (pico_lib.s),    *)
(* the Pico calls bus_read_byte or bus_write_byte (bus.c), and one call of *)
(* either side meets exactly one call of the other.  The wires carry no    *)
(* direction, so the two calls meet whatever they are:                     *)
(*                                                                         *)
(*     6502 send, Pico read    the byte goes to the Pico                   *)
(*     6502 read, Pico write   the byte goes to the 6502                   *)
(*     6502 read, Pico read    both get the value of the undriven bus      *)
(*     6502 send, Pico write   both calls succeed and both bytes are lost  *)
(*                                                                         *)
(* The last two rows are what a protocol above the link has to avoid.      *)
(***************************************************************************)
CONSTANTS
    Byte,      \* the values a data byte can have
    Zero       \* the value of the bus when nobody drives it (pull-downs)

VARIABLES
    host,      \* the call the 6502 is in
    pico       \* the call the Pico is in

linkVars == <<host, pico>>

Call(ops) == [op : ops \cup {"idle"}, val : Byte, st : {"open", "met"}]

LinkTypeOK ==
    /\ host \in Call({"send", "read"})
    /\ pico \in Call({"read", "write"})

LinkInit ==
    /\ \E v \in Byte : host = [op |-> "idle", val |-> v, st |-> "open"]
    /\ \E v \in Byte : pico = [op |-> "idle", val |-> v, st |-> "open"]
-----------------------------------------------------------------------------
HostSend(b) ==
    /\ host.op = "idle"
    /\ host' = [op |-> "send", val |-> b, st |-> "open"]
    /\ UNCHANGED pico

HostRead ==
    /\ host.op = "idle"
    /\ host' = [op |-> "read", val |-> Zero, st |-> "open"]
    /\ UNCHANGED pico

PicoRead ==
    /\ pico.op = "idle"
    /\ pico' = [op |-> "read", val |-> Zero, st |-> "open"]
    /\ UNCHANGED host

PicoWrite(b) ==
    /\ pico.op = "idle"
    /\ pico' = [op |-> "write", val |-> b, st |-> "open"]
    /\ UNCHANGED host

\* The handshake: both values change hands in one step.
Exchange ==
    /\ host.op # "idle" /\ host.st = "open"
    /\ pico.op # "idle" /\ pico.st = "open"
    /\ host' = [op |-> host.op, st |-> "met",
                val |-> IF host.op = "send" THEN host.val
                        ELSE IF pico.op = "write" THEN pico.val
                        ELSE Zero]
    /\ pico' = [op |-> pico.op, st |-> "met",
                val |-> IF pico.op = "write" THEN pico.val
                        ELSE IF host.op = "send" THEN host.val
                        ELSE Zero]

HostReturn ==
    /\ host.st = "met"
    /\ host' = [op |-> "idle", val |-> host.val, st |-> "open"]
    /\ UNCHANGED pico

PicoReturn ==
    /\ pico.st = "met"
    /\ pico' = [op |-> "idle", val |-> pico.val, st |-> "open"]
    /\ UNCHANGED host

LinkNext ==
    \/ \E b \in Byte : HostSend(b) \/ PicoWrite(b)
    \/ HostRead \/ PicoRead
    \/ Exchange
    \/ HostReturn \/ PicoReturn

LinkSpec == LinkInit /\ [][LinkNext]_linkVars
=============================================================================
