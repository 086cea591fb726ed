---------------------------- MODULE ViaHandshake ----------------------------
(***************************************************************************)
(* The byte handshake between the 6502 and the Pico W, at the level of VIA *)
(* registers, PIO instructions and SDK calls.  Four agents interleave:     *)
(*                                                                         *)
(*   the 6502 driver   send_byte and read_byte of pico_lib.s               *)
(*   the RX machine    via_handshake_rx, a PIO program                     *)
(*   the TX machine    via_handshake_tx, a PIO program                     *)
(*   the Pico CPU      bus_read_byte, bus_write_byte, bus_reset_handshake  *)
(*                                                                         *)
(* They share the wires CA1, CA2 and the data port.  The RX and TX machine *)
(* share one set of output latches and pin directions, and they keep their *)
(* program counter and FIFOs when the CPU disables them.                   *)
(*                                                                         *)
(* Time enters in one place, the step in which the 6502 raises CA2.        *)
(*   PioSettled       the PIO (10 MHz) has finished the previous cycle;    *)
(*                    send_byte and read_byte leave CA2 low for more than  *)
(*                    thirty 6502 cycles.                                  *)
(*   RxReleased       the CPU has left bus_read_byte's tail.  Nothing in   *)
(*                    the wires enforces it: an interrupt on the Pico can  *)
(*                    delay the tail.  PicoPrompt says whether to assume   *)
(*                    it.                                                  *)
(***************************************************************************)
EXTENDS Naturals, Sequences

CONSTANTS
    Byte,        \* the values a data byte can have
    Zero,        \* value of the undriven bus, and of the PIO's empty ISR
    PicoPrompt   \* TRUE: the CPU leaves bus_read_byte before the next CA2 rise

ASSUME ByteAssumption == Zero \in Byte
ASSUME PromptAssumption == PicoPrompt \in BOOLEAN

FifoDepth == 4   \* entries of a PIO FIFO that is not joined

VARIABLES
    \* 6502 and its VIA
    hpc,         \* where the driver is
    hop,         \* the routine it is in (or was in last)
    ora,         \* VIA output register A
    ddra,        \* TRUE: port A drives the data bus
    ca2,         \* TRUE: CA2 is high
    ifr,         \* the CA1 flag of the VIA
    hgot,        \* the last byte loaded from port A
    \* PIO
    rxPc, rxEn, rxq,     \* RX machine: next instruction, enabled, RX FIFO
    txPc, txEn, txq,     \* TX machine: next instruction, enabled, TX FIFO
    txTok,       \* completion tokens in the TX machine's RX FIFO
    ca1,         \* output latch of CA1, TRUE is high
    ca1Dir,      \* TRUE: CA1 is an output of the Pico
    dout,        \* output latches of the data pins
    dDir,        \* TRUE: the data pins are outputs of the Pico
    \* Pico CPU
    cpc,         \* where the bus function is
    cval         \* its argument, or the byte it got

hostVars == <<hpc, hop, ora, ddra, ca2, hgot>>
rxVars   == <<rxPc, rxEn, rxq>>
txVars   == <<txPc, txEn, txq, txTok>>
pinVars  == <<ca1, ca1Dir, dout, dDir>>
cpuVars  == <<cpc, cval>>
vars     == <<hostVars, ifr, rxVars, txVars, pinVars, cpuVars>>

HostPc == {"boot", "idle", "raise", "poll", "take", "drop", "clear"}
RxPc   == {"waitHigh", "in", "ackLow", "waitLow", "ackHigh", "push"}
TxPc   == {"pull", "waitHigh", "out", "strobe", "waitLow", "strobeEnd", "push"}
ReadPc == {"rdEnable", "rdData", "rdToken", "rdDisable", "rdHandover"}
WritePc == {"wrPut", "wrToken"}
CpuPc  == {"boot", "idle"} \cup ReadPc \cup WritePc

TypeOK ==
    /\ hpc \in HostPc /\ hop \in {"send", "read"}
    /\ ora \in Byte /\ hgot \in Byte
    /\ ddra \in BOOLEAN /\ ca2 \in BOOLEAN /\ ifr \in BOOLEAN
    /\ rxPc \in RxPc /\ rxEn \in BOOLEAN /\ rxq \in Seq(Byte)
    /\ txPc \in TxPc /\ txEn \in BOOLEAN /\ txq \in Seq(Byte) /\ txTok \in Nat
    /\ ca1 \in BOOLEAN /\ ca1Dir \in BOOLEAN
    /\ dout \in Byte /\ dDir \in BOOLEAN
    /\ cpc \in CpuPc /\ cval \in Byte
-----------------------------------------------------------------------------
(* The wires.                                                              *)

\* CA1 as the VIA sees it: the latch when it is driven, else the pull-up.
CA1Level(latch, dir) == dir => latch

\* A change of CA1's driver or latch; a falling edge sets the VIA's flag.
DriveCA1(latch, dir) ==
    /\ ca1' = latch
    /\ ca1Dir' = dir
    /\ ifr' = (ifr \/ (CA1Level(ca1, ca1Dir) /\ ~CA1Level(latch, dir)))

\* The data bus: the side that drives it, Zero when nobody does, anything
\* when both do and differ.
BusValues ==
    IF ddra /\ dDir THEN (IF ora = dout THEN {ora} ELSE Byte)
    ELSE IF ddra THEN {ora}
    ELSE IF dDir THEN {dout}
    ELSE {Zero}
-----------------------------------------------------------------------------
(* The 6502 driver.                                                        *)

PioSettled ==
    /\ rxEn => rxPc \notin {"waitLow", "ackHigh", "push"}
    /\ txEn => txPc \notin {"waitLow", "strobeEnd", "push"}

RxReleased == rxEn => rxq = <<>> /\ cpc = "rdData"

\* lda #$FF / sta VIA_DDRA and lda #$00 / sta VIA_DDRA between the bytes
TurnPort ==
    /\ hpc = "idle"
    /\ ddra' = ~ddra
    /\ UNCHANGED <<hpc, hop, ora, ca2, hgot, ifr, rxVars, txVars, pinVars, cpuVars>>

\* Mutant of StartSend: the store does not clear the CA1 flag.
StartSendKeepsFlag(b) ==
    /\ hpc \in {"boot", "idle"} /\ ddra
    /\ hpc' = "raise" /\ hop' = "send"
    /\ ora' = b
    /\ UNCHANGED <<ddra, ca2, hgot, ifr, rxVars, txVars, pinVars, cpuVars>>

\* send_byte: sta VIA_PORTA puts the byte out and clears the CA1 flag.  It
\* is the first thing the 6502 does on the bus after pico_init.
StartSend(b) ==
    /\ hpc \in {"boot", "idle"} /\ ddra
    /\ hpc' = "raise" /\ hop' = "send"
    /\ ora' = b /\ ifr' = FALSE
    /\ UNCHANGED <<ddra, ca2, hgot, rxVars, txVars, pinVars, cpuVars>>

StartRead ==
    /\ hpc = "idle" /\ ~ddra
    /\ hpc' = "raise" /\ hop' = "read"
    /\ UNCHANGED <<ora, ddra, ca2, hgot, ifr, rxVars, txVars, pinVars, cpuVars>>

\* sta VIA_PCR with CA2 high
RaiseCA2 ==
    /\ hpc = "raise"
    /\ PioSettled
    /\ PicoPrompt => RxReleased
    /\ hpc' = "poll" /\ ca2' = TRUE
    /\ UNCHANGED <<hop, ora, ddra, hgot, ifr, rxVars, txVars, pinVars, cpuVars>>

\* the loop on VIA_IFR ends
SeeAck ==
    /\ hpc = "poll" /\ ifr
    /\ hpc' = "take"
    /\ UNCHANGED <<hop, ora, ddra, ca2, hgot, ifr, rxVars, txVars, pinVars, cpuVars>>

\* lda VIA_PORTA: the byte of a read, a dummy in a send; clears the flag
TakeData ==
    /\ hpc = "take"
    /\ hgot' \in BusValues
    /\ hpc' = "drop" /\ ifr' = FALSE
    /\ UNCHANGED <<hop, ora, ddra, ca2, rxVars, txVars, pinVars, cpuVars>>

\* sta VIA_PCR with CA2 low
DropCA2 ==
    /\ hpc = "drop"
    /\ hpc' = "clear" /\ ca2' = FALSE
    /\ UNCHANGED <<hop, ora, ddra, hgot, ifr, rxVars, txVars, pinVars, cpuVars>>

\* the defensive lda VIA_PORTA, rts
ClearFlag ==
    /\ hpc = "clear"
    /\ hpc' = "idle" /\ ifr' = FALSE
    /\ UNCHANGED <<hop, ora, ddra, ca2, hgot, rxVars, txVars, pinVars, cpuVars>>
-----------------------------------------------------------------------------
(* The RX machine.                                                         *)

RxStep(from, to) ==
    /\ rxEn /\ rxPc = from /\ rxPc' = to
    /\ UNCHANGED <<hostVars, rxEn, txVars, dout, dDir, cpuVars>>

RxWaitHigh == RxStep("waitHigh", "in") /\ ca2 /\ UNCHANGED <<ifr, rxq, ca1, ca1Dir>>

\* in pins, 8 with autopush; stalls on a full FIFO
RxIn ==
    /\ RxStep("in", "ackLow")
    /\ Len(rxq) < FifoDepth
    /\ \E v \in BusValues : rxq' = Append(rxq, v)
    /\ UNCHANGED <<ifr, ca1, ca1Dir>>

\* Mutant of the RX machine: no acknowledge.
RxNoAck == RxStep("ackLow", "waitLow") /\ UNCHANGED <<ifr, rxq, ca1, ca1Dir>>

RxAckLow == RxStep("ackLow", "waitLow") /\ DriveCA1(FALSE, ca1Dir) /\ UNCHANGED rxq

RxWaitLow == RxStep("waitLow", "ackHigh") /\ ~ca2 /\ UNCHANGED <<ifr, rxq, ca1, ca1Dir>>

RxAckHigh == RxStep("ackHigh", "push") /\ DriveCA1(TRUE, ca1Dir) /\ UNCHANGED rxq

\* push block: the ISR is empty after the autopush, the token is Zero
RxPush ==
    /\ RxStep("push", "waitHigh")
    /\ Len(rxq) < FifoDepth
    /\ rxq' = Append(rxq, Zero)
    /\ UNCHANGED <<ifr, ca1, ca1Dir>>
-----------------------------------------------------------------------------
(* The TX machine.                                                         *)

TxStep(from, to) ==
    /\ txEn /\ txPc = from /\ txPc' = to
    /\ UNCHANGED <<hostVars, txEn, rxVars, dDir, cpuVars>>

\* pull block.  The word stays in the FIFO of the model until "out" uses it.
TxPull ==
    /\ TxStep("pull", "waitHigh") /\ txq # <<>>
    /\ UNCHANGED <<ifr, txq, txTok, ca1, ca1Dir, dout>>

TxWaitHigh ==
    /\ TxStep("waitHigh", "out") /\ ca2
    /\ UNCHANGED <<ifr, txq, txTok, ca1, ca1Dir, dout>>

TxOut ==
    /\ TxStep("out", "strobe")
    /\ dout' = Head(txq) /\ txq' = Tail(txq)
    /\ UNCHANGED <<ifr, txTok, ca1, ca1Dir>>

TxStrobe ==
    /\ TxStep("strobe", "waitLow")
    /\ DriveCA1(FALSE, ca1Dir)
    /\ UNCHANGED <<txq, txTok, dout>>

TxWaitLow ==
    /\ TxStep("waitLow", "strobeEnd") /\ ~ca2
    /\ UNCHANGED <<ifr, txq, txTok, ca1, ca1Dir, dout>>

TxStrobeEnd ==
    /\ TxStep("strobeEnd", "push")
    /\ DriveCA1(TRUE, ca1Dir)
    /\ UNCHANGED <<txq, txTok, dout>>

TxPush ==
    /\ TxStep("push", "pull")
    /\ txTok < FifoDepth /\ txTok' = txTok + 1
    /\ UNCHANGED <<ifr, txq, ca1, ca1Dir, dout>>
-----------------------------------------------------------------------------
(* The Pico CPU.                                                           *)

\* Mutant of ReadPrepare: the data pins stay outputs.
ReadPrepareDriving ==
    /\ cpc = "idle" /\ cpc' = "rdEnable"
    /\ txEn' = FALSE
    /\ DriveCA1(TRUE, TRUE)
    /\ UNCHANGED <<hostVars, rxVars, txPc, txq, txTok, dout, dDir, cval>>

\* bus_read_byte up to the enable: TX off, data pins in, CA1 high and driven
ReadPrepare ==
    /\ cpc = "idle" /\ cpc' = "rdEnable"
    /\ txEn' = FALSE /\ dDir' = FALSE
    /\ DriveCA1(TRUE, TRUE)
    /\ UNCHANGED <<hostVars, rxVars, txPc, txq, txTok, dout, cval>>

ReadEnable ==
    /\ cpc = "rdEnable" /\ cpc' = "rdData"
    /\ rxEn' = TRUE
    /\ UNCHANGED <<hostVars, ifr, rxPc, rxq, txVars, pinVars, cval>>

\* Mutant of ReadData: the completion token is not fetched.
ReadDataOnly ==
    /\ cpc = "rdData" /\ rxq # <<>>
    /\ cpc' = "rdDisable"
    /\ cval' = Head(rxq) /\ rxq' = Tail(rxq)
    /\ UNCHANGED <<hostVars, ifr, rxPc, rxEn, txVars, pinVars>>

\* the first pio_sm_get_blocking
ReadData ==
    /\ cpc = "rdData" /\ rxq # <<>>
    /\ cpc' = "rdToken"
    /\ cval' = Head(rxq) /\ rxq' = Tail(rxq)
    /\ UNCHANGED <<hostVars, ifr, rxPc, rxEn, txVars, pinVars>>

\* Mutant of ReadToken: the second word is returned instead of the first.
ReadTokenAsData ==
    /\ cpc = "rdToken" /\ rxq # <<>>
    /\ cpc' = "rdDisable"
    /\ cval' = Head(rxq) /\ rxq' = Tail(rxq)
    /\ UNCHANGED <<hostVars, ifr, rxPc, rxEn, txVars, pinVars>>

\* the second one: whatever is next in the FIFO is the completion token
ReadToken ==
    /\ cpc = "rdToken" /\ rxq # <<>>
    /\ cpc' = "rdDisable" /\ rxq' = Tail(rxq)
    /\ UNCHANGED <<hostVars, ifr, rxPc, rxEn, txVars, pinVars, cval>>

ReadDisable ==
    /\ cpc = "rdDisable" /\ cpc' = "rdHandover"
    /\ rxEn' = FALSE
    /\ UNCHANGED <<hostVars, ifr, rxPc, rxq, txVars, pinVars, cval>>

\* CA1 goes to the TX machine, high, and the TX machine is enabled
ReadHandover ==
    /\ cpc = "rdHandover" /\ cpc' = "idle"
    /\ DriveCA1(TRUE, TRUE)
    /\ txEn' = TRUE
    /\ UNCHANGED <<hostVars, rxVars, txPc, txq, txTok, dout, dDir, cval>>

\* bus_write_byte: RX off, CA1 high and driven, data pins out at once
WritePrepare(b) ==
    /\ cpc = "idle" /\ cpc' = "wrPut"
    /\ cval' = b
    /\ rxEn' = FALSE /\ dDir' = TRUE
    /\ DriveCA1(TRUE, TRUE)
    /\ UNCHANGED <<hostVars, rxPc, rxq, txVars, dout>>

WritePut ==
    /\ cpc = "wrPut" /\ cpc' = "wrToken"
    /\ txEn' = TRUE
    /\ Len(txq) < FifoDepth /\ txq' = Append(txq, cval)
    /\ UNCHANGED <<hostVars, ifr, rxVars, txPc, txTok, pinVars, cval>>

\* Mutant of WriteToken: it does not wait for the completion token.
WriteTokenNoWait ==
    /\ cpc = "wrToken"
    /\ cpc' = "idle" /\ txTok' = txTok - 1
    /\ UNCHANGED <<hostVars, ifr, rxVars, txPc, txEn, txq, pinVars, cval>>

\* the wait for completion; TX stays enabled and the last byte stays driven
WriteToken ==
    /\ cpc = "wrToken" /\ txTok > 0
    /\ cpc' = "idle" /\ txTok' = txTok - 1
    /\ UNCHANGED <<hostVars, ifr, rxVars, txPc, txEn, txq, pinVars, cval>>

\* bus_reset_handshake: both machines off, every pin an input
ResetHandshake ==
    /\ cpc \in {"boot", "idle"} /\ cpc' = "idle"
    /\ rxEn' = FALSE /\ txEn' = FALSE
    /\ dDir' = FALSE
    /\ DriveCA1(ca1, FALSE)
    /\ UNCHANGED <<hostVars, rxPc, rxq, txPc, txq, txTok, dout, cval>>
-----------------------------------------------------------------------------
\* After bus_init and pico_init, in either order: CA1 is driven low (busy),
\* and the flag its falling edge set may or may not have been cleared.
Init ==
    /\ hpc = "boot" /\ hop = "send" /\ ora \in Byte /\ hgot \in Byte
    /\ ddra = TRUE /\ ca2 = FALSE /\ ifr \in BOOLEAN
    /\ rxPc = "waitHigh" /\ rxEn = FALSE /\ rxq = <<>>
    /\ txPc = "pull" /\ txEn = FALSE /\ txq = <<>> /\ txTok = 0
    /\ ca1 = FALSE /\ ca1Dir = TRUE
    /\ dout = Zero /\ dDir = FALSE
    /\ cpc = "boot" /\ cval = Zero

HostStep == RaiseCA2 \/ SeeAck \/ TakeData \/ DropCA2 \/ ClearFlag
RxMachine == RxWaitHigh \/ RxIn \/ RxAckLow \/ RxWaitLow \/ RxAckHigh \/ RxPush
TxMachine == TxPull \/ TxWaitHigh \/ TxOut \/ TxStrobe \/ TxWaitLow \/ TxStrobeEnd \/ TxPush
CpuStep == \/ ReadEnable \/ ReadData \/ ReadToken \/ ReadDisable \/ ReadHandover
           \/ WritePut \/ WriteToken

Next ==
    \/ TurnPort \/ StartRead \/ \E b \in Byte : StartSend(b)
    \/ HostStep
    \/ RxMachine
    \/ TxMachine
    \/ ReadPrepare \/ ResetHandshake \/ \E b \in Byte : WritePrepare(b)
    \/ CpuStep

Spec == Init /\ [][Next]_vars

\* Each agent finishes the call it is in; nobody has to make a new one.
Fairness ==
    WF_vars(HostStep) /\ WF_vars(RxMachine) /\ WF_vars(TxMachine) /\ WF_vars(CpuStep)

FairSpec == Spec /\ Fairness
-----------------------------------------------------------------------------
(* Properties.                                                             *)

RxIdle == rxPc = "waitHigh" /\ rxq = <<>>
TxIdle == txPc = "pull" /\ txq = <<>> /\ txTok = 0

\* Neither machine is ever restarted and no FIFO is ever cleared, so a bus
\* function must leave both of them exactly where the next one expects them.
QuiescentBetweenCalls == cpc \in {"boot", "idle"} => RxIdle /\ TxIdle

\* The flag the driver polls belongs to the cycle it is in: it is down when
\* CA2 goes up, also after the edge of bus_init and the handovers of CA1, and
\* once up a machine is holding CA1 low, waiting for this very cycle's end.
NoStaleAck ==
    /\ hpc = "raise" => ~ifr
    /\ hpc \in {"poll", "take"} /\ (ifr \/ hpc = "take") =>
           \/ rxEn /\ rxPc = "waitLow"
           \/ txEn /\ txPc = "waitLow"

\* A byte is sampled only while the side it comes from drives the bus alone
\* and holds it: the RX machine samples inside a cycle of the 6502 with the
\* Pico's pins off; the 6502 loads with its port off, and what a bus_write_byte
\* drives by then is its argument.
CleanSample ==
    /\ rxEn /\ rxPc = "in" => hpc = "poll" /\ ~dDir
    /\ hpc = "take" /\ hop = "read" =>
           ~ddra /\ (dDir => cpc = "wrToken" /\ dout = cval)

\* CA1 falls only while the 6502 holds CA2 high: no handover of the pin
\* between the machines, the reset or the start-up makes a strobe.
StrobeOnlyWhenAsked ==
    [][CA1Level(ca1, ca1Dir) /\ ~CA1Level(ca1', ca1Dir') => ca2]_vars

(* The inductive invariant: which phases of the four agents go together.   *)

\* What the CPU has set up for the call it is in.
CpuPhase ==
    /\ rxEn <=> cpc \in {"rdData", "rdToken", "rdDisable"}
    /\ cpc \in ReadPc => ~txEn /\ ~dDir /\ ca1Dir
    /\ cpc \in WritePc => dDir /\ ca1Dir
    /\ cpc = "wrToken" => txEn
    /\ txEn => ca1Dir
    /\ cpc = "boot" => ca1Dir /\ ~ca1 /\ ~txEn /\ ~dDir

\* How far the RX machine is, by what the CPU has taken from its FIFO.
RxPhase ==
    /\ ~rxEn => RxIdle
    /\ cpc = "rdData" =>
           \/ rxq = <<>> /\ rxPc \in {"waitHigh", "in"}
           \/ Len(rxq) = 1 /\ rxPc \in {"ackLow", "waitLow", "ackHigh", "push"}
           \/ Len(rxq) = 2 /\ rxPc = "waitHigh" /\ ~ca2
    /\ cpc = "rdToken" =>
           \/ rxq = <<>> /\ rxPc \in {"ackLow", "waitLow", "ackHigh", "push"}
           \/ Len(rxq) = 1 /\ rxPc = "waitHigh" /\ ~ca2
    /\ cpc = "rdDisable" => RxIdle /\ ~ca2

\* How far the TX machine is with the word of the bus_write_byte in progress.
TxPhase ==
    /\ cpc # "wrToken" => TxIdle
    /\ cpc = "wrToken" =>
           \/ txTok = 0 /\ txq = <<cval>> /\ txPc \in {"pull", "waitHigh", "out"}
           \/ txTok = 0 /\ txq = <<>> /\ dout = cval
                /\ txPc \in {"strobe", "waitLow", "strobeEnd", "push"}
           \/ txTok = 1 /\ txq = <<>> /\ dout = cval /\ txPc = "pull"

\* What a machine's phase says about the 6502 and the other way round.
WirePhase ==
    /\ ca2 <=> hpc \in {"poll", "take", "drop"}
    /\ ifr => hpc \in {"boot", "poll", "take"}
    /\ rxPc \in {"in", "ackLow"} \/ txPc \in {"out", "strobe"} => hpc = "poll" /\ ~ifr
    /\ rxPc \in {"ackHigh", "push"} \/ txPc \in {"strobeEnd", "push"} => ~ca2
    /\ hpc \in {"take", "drop"} \/ (hpc = "poll" /\ ifr) =>
           rxPc = "waitLow" \/ txPc = "waitLow"
    /\ hpc = "poll" /\ ~ifr => rxPc # "waitLow" /\ txPc # "waitLow"
    /\ rxPc \in {"waitLow", "ackHigh"} \/ txPc \in {"waitLow", "strobeEnd"} => ~ca1
    /\ ca1Dir /\ ~ca1 => \/ cpc = "boot"
                         \/ rxPc \in {"waitLow", "ackHigh"}
                         \/ txPc \in {"waitLow", "strobeEnd"}
    /\ hpc = "boot" => ddra
    /\ hpc \notin {"boot", "idle"} => (ddra <=> hop = "send")

Interlock == CpuPhase /\ RxPhase /\ TxPhase /\ WirePhase

\* Refinement: one call of each side meets one call of the other (ByteLink).
InRead == cpc \in ReadPc
InWrite == cpc \in WritePc

HostMet ==
    \/ hpc \in {"take", "drop", "clear"}
    \/ hpc = "poll" /\ (rxPc \in {"ackLow", "waitLow"} \/ txPc \in {"strobe", "waitLow"})

PicoMet ==
    \/ cpc \in {"rdToken", "rdDisable", "rdHandover"}
    \/ cpc = "rdData" /\ rxq # <<>>
    \/ cpc = "wrToken" /\ (txPc \in {"strobe", "waitLow", "strobeEnd", "push"} \/ txTok > 0)

HostVal ==
    IF hop = "send" THEN ora
    ELSE IF hpc \in {"boot", "idle", "drop", "clear"} THEN hgot
    ELSE IF HostMet /\ InWrite THEN dout
    ELSE Zero

PicoVal ==
    IF cpc = "rdData" /\ rxq # <<>> THEN Head(rxq)
    ELSE IF cpc \in {"rdEnable", "rdData"} THEN Zero
    ELSE cval

hostCall == [op |-> IF hpc \in {"boot", "idle"} THEN "idle" ELSE hop,
             val |-> HostVal, st |-> IF HostMet THEN "met" ELSE "open"]
picoCall == [op |-> IF InRead THEN "read" ELSE IF InWrite THEN "write" ELSE "idle",
             val |-> PicoVal, st |-> IF PicoMet THEN "met" ELSE "open"]

Link == INSTANCE ByteLink WITH host <- hostCall, pico <- picoCall

\* Every behaviour of the wires is a behaviour of the abstract link.
ImplementsByteLink == Link!LinkSpec

\* Two calls that face each other both return, whatever the interleaving.
BothCalled ==
    /\ hostCall.op # "idle" /\ ~HostMet
    /\ picoCall.op # "idle" /\ ~PicoMet
CallsReturn ==
    /\ BothCalled ~> hpc = "idle"
    /\ BothCalled ~> cpc = "idle"

\* The 6502 is in the middle of a send, the Pico in the middle of the read
\* that should take it, and each waits for the other to move CA1 or CA2.
NoDeadlyEmbrace ==
    ~ /\ hpc = "poll" /\ hop = "send" /\ ~ifr
      /\ cpc = "rdToken" /\ rxEn /\ rxPc = "waitLow" /\ rxq = <<>>
=============================================================================
