------------------------- MODULE ViaHandshakeProofs -------------------------
(***************************************************************************)
(* Proofs about ViaHandshake for every set of byte values: its type        *)
(* invariant, what the bus carries, and that the wires implement ByteLink. *)
(* TypeCorrect holds with any timing of the Pico's CPU; the other theorems *)
(* assume PicoPrompt, and ViaInterrupted.cfg shows what happens without    *)
(* it.                                                                     *)
(***************************************************************************)
EXTENDS ViaHandshake, TLAPS

\* What a load from port A or an "in pins" can yield is a byte.
LEMMA BusValuesAreBytes ==
  ASSUME TypeOK
  PROVE  BusValues \subseteq Byte
BY ByteAssumption DEF TypeOK, BusValues

\* Driving CA1 leaves latch, direction and flag Boolean.
LEMMA DriveCA1Type ==
  ASSUME TypeOK, NEW latch \in BOOLEAN, NEW dir \in BOOLEAN, DriveCA1(latch, dir)
  PROVE  ca1' \in BOOLEAN /\ ca1Dir' \in BOOLEAN /\ ifr' \in BOOLEAN
BY DEF TypeOK, DriveCA1, CA1Level

-----------------------------------------------------------------------------
(* Type correctness.  TypeOK is not inductive: the TX machine takes a word *)
(* out of its FIFO two instructions after it has seen it there.            *)
TxHasWord == txPc \in {"waitHigh", "out"} => txq # <<>>

LEMMA HostKeepsType ==
  ASSUME TypeOK, TxHasWord,
         TurnPort \/ StartRead \/ (\E b \in Byte : StartSend(b)) \/ HostStep
  PROVE  TypeOK' /\ TxHasWord'
<1> USE DEF hostVars, rxVars, txVars, pinVars, cpuVars, TxHasWord, HostPc
<1>1. CASE TurnPort
  <2>1. ddra' \in BOOLEAN
    BY <1>1, Zenon DEF TurnPort, TypeOK
  <2> QED
    BY <1>1, <2>1 DEF TurnPort, TypeOK
<1>2. CASE StartRead
  BY <1>2 DEF StartRead, TypeOK
<1>3. CASE \E b \in Byte : StartSend(b)
  <2>1. ifr' \in BOOLEAN
    BY <1>3, Zenon DEF StartSend
  <2> QED
    BY <1>3, <2>1 DEF StartSend, TypeOK
<1>4. CASE RaiseCA2 \/ SeeAck
  BY <1>4 DEF RaiseCA2, SeeAck, TypeOK
<1>5. CASE TakeData
  <2>1. ifr' \in BOOLEAN
    BY <1>5, Zenon DEF TakeData
  <2> QED
    BY <1>5, <2>1, BusValuesAreBytes DEF TakeData, TypeOK
<1>6. CASE DropCA2
  <2>1. ca2' \in BOOLEAN
    BY <1>6, Zenon DEF DropCA2
  <2> QED
    BY <1>6, <2>1 DEF DropCA2, TypeOK
<1>7. CASE ClearFlag
  <2>1. ifr' \in BOOLEAN
    BY <1>7, Zenon DEF ClearFlag
  <2> QED
    BY <1>7, <2>1 DEF ClearFlag, TypeOK
<1> QED
  BY <1>1, <1>2, <1>3, <1>4, <1>5, <1>6, <1>7 DEF HostStep

LEMMA RxKeepsType ==
  ASSUME TypeOK, TxHasWord, RxMachine
  PROVE  TypeOK' /\ TxHasWord'
<1> USE DEF RxStep, hostVars, txVars, cpuVars, TxHasWord, RxPc
<1>1. CASE RxWaitHigh \/ RxWaitLow
  BY <1>1 DEF RxWaitHigh, RxWaitLow, TypeOK
<1>2. CASE RxIn \/ RxPush
  BY <1>2, ByteAssumption, BusValuesAreBytes DEF RxIn, RxPush, TypeOK
<1>3. CASE RxAckLow \/ RxAckHigh
  <2>1. ca1' \in BOOLEAN /\ ca1Dir' \in BOOLEAN /\ ifr' \in BOOLEAN
    BY <1>3, DriveCA1Type, Zenon DEF RxAckLow, RxAckHigh, TypeOK
  <2> QED
    BY <1>3, <2>1 DEF RxAckLow, RxAckHigh, TypeOK
<1> QED
  BY <1>1, <1>2, <1>3 DEF RxMachine

LEMMA TxKeepsType ==
  ASSUME TypeOK, TxHasWord, TxMachine
  PROVE  TypeOK' /\ TxHasWord'
<1> USE DEF TxStep, hostVars, rxVars, cpuVars, TxHasWord, TxPc
<1>1. CASE TxPull \/ TxWaitHigh \/ TxWaitLow
  BY <1>1 DEF TxPull, TxWaitHigh, TxWaitLow, TypeOK
<1>2. CASE TxOut
  BY <1>2 DEF TxOut, TypeOK
<1>3. CASE TxStrobe \/ TxStrobeEnd
  <2>1. ca1' \in BOOLEAN /\ ca1Dir' \in BOOLEAN /\ ifr' \in BOOLEAN
    BY <1>3, DriveCA1Type, Zenon DEF TxStrobe, TxStrobeEnd, TypeOK
  <2> QED
    BY <1>3, <2>1 DEF TxStrobe, TxStrobeEnd, TypeOK
<1>4. CASE TxPush
  BY <1>4 DEF TxPush, TypeOK
<1> QED
  BY <1>1, <1>2, <1>3, <1>4 DEF TxMachine

LEMMA CpuKeepsType ==
  ASSUME TypeOK, TxHasWord,
         ReadPrepare \/ ResetHandshake \/ (\E b \in Byte : WritePrepare(b)) \/ CpuStep
  PROVE  TypeOK' /\ TxHasWord'
<1> USE DEF hostVars, rxVars, txVars, pinVars, TxHasWord, CpuPc, ReadPc, WritePc
<1>1. CASE ReadPrepare \/ ResetHandshake \/ (\E b \in Byte : WritePrepare(b))
  <2>1. ca1' \in BOOLEAN /\ ca1Dir' \in BOOLEAN /\ ifr' \in BOOLEAN
    <3>1. \/ DriveCA1(TRUE, TRUE)
          \/ DriveCA1(ca1, FALSE)
      BY <1>1, Zenon DEF ReadPrepare, ResetHandshake, WritePrepare
    <3>2. ca1 \in BOOLEAN
      BY Zenon DEF TypeOK
    <3> QED
      BY <3>1, <3>2, DriveCA1Type, Zenon
  <2>2. rxEn' \in BOOLEAN /\ txEn' \in BOOLEAN /\ dDir' \in BOOLEAN
    BY <1>1, Zenon DEF ReadPrepare, ResetHandshake, WritePrepare, TypeOK
  <2> QED
    BY <1>1, <2>1, <2>2 DEF ReadPrepare, ResetHandshake, WritePrepare, TypeOK
<1>2. CASE ReadEnable \/ ReadData \/ ReadToken \/ WritePut \/ WriteToken
  <2>1. CASE ReadEnable
    BY <2>1 DEF ReadEnable, TypeOK
  <2>2. CASE ReadData
    BY <2>2 DEF ReadData, TypeOK
  <2>3. CASE ReadToken
    BY <2>3 DEF ReadToken, TypeOK
  <2>4. CASE WritePut
    BY <2>4 DEF WritePut, TypeOK
  <2>5. CASE WriteToken
    BY <2>5 DEF WriteToken, TypeOK
  <2> QED
    BY <1>2, <2>1, <2>2, <2>3, <2>4, <2>5
<1>3. CASE ReadDisable
  <2>1. rxEn' \in BOOLEAN
    BY <1>3, Zenon DEF ReadDisable
  <2> QED
    BY <1>3, <2>1 DEF ReadDisable, TypeOK
<1>4. CASE ReadHandover
  <2>1. ca1' \in BOOLEAN /\ ca1Dir' \in BOOLEAN /\ ifr' \in BOOLEAN
    BY <1>4, DriveCA1Type, Zenon DEF ReadHandover
  <2> QED
    BY <1>4, <2>1 DEF ReadHandover, TypeOK
<1> QED
  BY <1>1, <1>2, <1>3, <1>4 DEF CpuStep

\* Every variable keeps its type: no machine takes from an empty FIFO and no
\* completion is counted twice, with any timing of the Pico's CPU.
THEOREM TypeCorrect == Spec => []TypeOK
<1>1. Init => TypeOK /\ TxHasWord
  <2> SUFFICES ASSUME Init PROVE TypeOK /\ TxHasWord
    OBVIOUS
  <2>1. /\ ddra \in BOOLEAN /\ ca2 \in BOOLEAN /\ ifr \in BOOLEAN /\ rxEn \in BOOLEAN
        /\ txEn \in BOOLEAN /\ ca1 \in BOOLEAN /\ ca1Dir \in BOOLEAN /\ dDir \in BOOLEAN
    BY Zenon DEF Init
  <2> QED
    BY <2>1, ByteAssumption DEF Init, TypeOK, TxHasWord, HostPc, RxPc, TxPc, CpuPc
<1>2. TypeOK /\ TxHasWord /\ [Next]_vars => (TypeOK /\ TxHasWord)'
  <2>1. UNCHANGED vars /\ TypeOK /\ TxHasWord => (TypeOK /\ TxHasWord)'
    BY DEF vars, hostVars, rxVars, txVars, pinVars, cpuVars, TypeOK, TxHasWord
  <2> QED
    BY <2>1, HostKeepsType, RxKeepsType, TxKeepsType, CpuKeepsType DEF Next
<1> QED
  BY <1>1, <1>2, PTL DEF Spec
-----------------------------------------------------------------------------
(* The interlock: with a prompt Pico the four agents stay in phase.        *)

LEMMA HostKeepsInterlock ==
  ASSUME PicoPrompt, TypeOK, TypeOK', Interlock,
         TurnPort \/ StartRead \/ (\E b \in Byte : StartSend(b)) \/ HostStep
  PROVE  Interlock'
<1> USE DEF TypeOK, Interlock, CpuPhase, RxPhase, TxPhase, WirePhase, RxIdle, TxIdle,
            ReadPc, WritePc, rxVars, txVars, pinVars, cpuVars
<1>1. CASE TurnPort
  BY <1>1 DEF TurnPort
<1>2. CASE StartRead \/ (\E b \in Byte : StartSend(b))
  BY <1>2 DEF StartRead, StartSend
<1>3. CASE RaiseCA2   \* the one step that needs the timing assumptions
  BY <1>3 DEF RaiseCA2, PioSettled, RxReleased, RxPc, TxPc
<1>4. CASE SeeAck
  BY <1>4 DEF SeeAck
<1>5. CASE TakeData
  BY <1>5 DEF TakeData
<1>6. CASE DropCA2
  BY <1>6 DEF DropCA2
<1>7. CASE ClearFlag
  BY <1>7 DEF ClearFlag
<1> QED
  BY <1>1, <1>2, <1>3, <1>4, <1>5, <1>6, <1>7, Zenon DEF HostStep

LEMMA RxKeepsInterlock ==
  ASSUME TypeOK, TypeOK', Interlock, RxMachine
  PROVE  Interlock'
<1> USE DEF TypeOK, Interlock, CpuPhase, RxPhase, TxPhase, WirePhase, RxIdle, TxIdle,
            ReadPc, WritePc, RxStep, DriveCA1, CA1Level, hostVars, txVars, cpuVars
<1>1. CASE RxWaitHigh
  BY <1>1 DEF RxWaitHigh
<1>2. CASE RxIn
  BY <1>2 DEF RxIn
<1>3. CASE RxAckLow
  BY <1>3 DEF RxAckLow
<1>4. CASE RxWaitLow
  BY <1>4 DEF RxWaitLow
<1>5. CASE RxAckHigh
  BY <1>5 DEF RxAckHigh
<1>6. CASE RxPush
  BY <1>6, ByteAssumption DEF RxPush
<1> QED
  BY <1>1, <1>2, <1>3, <1>4, <1>5, <1>6, Zenon DEF RxMachine

LEMMA TxKeepsInterlock ==
  ASSUME TypeOK, TypeOK', Interlock, TxMachine
  PROVE  Interlock'
<1> USE DEF TypeOK, Interlock, CpuPhase, RxPhase, TxPhase, WirePhase, RxIdle, TxIdle,
            ReadPc, WritePc, TxStep, DriveCA1, CA1Level, hostVars, rxVars, cpuVars
<1>1. CASE TxPull
  BY <1>1 DEF TxPull
<1>2. CASE TxWaitHigh
  BY <1>2 DEF TxWaitHigh
<1>3. CASE TxOut
  BY <1>3 DEF TxOut
<1>4. CASE TxStrobe
  BY <1>4 DEF TxStrobe
<1>5. CASE TxWaitLow
  BY <1>5 DEF TxWaitLow
<1>6. CASE TxStrobeEnd
  BY <1>6 DEF TxStrobeEnd
<1>7. CASE TxPush
  BY <1>7 DEF TxPush
<1> QED
  BY <1>1, <1>2, <1>3, <1>4, <1>5, <1>6, <1>7, Zenon DEF TxMachine

LEMMA CpuKeepsInterlock ==
  ASSUME TypeOK, TypeOK', Interlock,
         ReadPrepare \/ ResetHandshake \/ (\E b \in Byte : WritePrepare(b)) \/ CpuStep
  PROVE  Interlock'
<1> USE DEF TypeOK, Interlock, CpuPhase, RxPhase, TxPhase, WirePhase, RxIdle, TxIdle,
            ReadPc, WritePc, DriveCA1, CA1Level, hostVars, rxVars, txVars, pinVars
<1>1. CASE ReadPrepare
  BY <1>1 DEF ReadPrepare
<1>2. CASE ReadEnable
  BY <1>2 DEF ReadEnable
<1>3. CASE ReadData
  BY <1>3 DEF ReadData
<1>4. CASE ReadToken
  BY <1>4 DEF ReadToken
<1>5. CASE ReadDisable
  BY <1>5 DEF ReadDisable
<1>6. CASE ReadHandover
  BY <1>6 DEF ReadHandover
<1>7. CASE ResetHandshake
  BY <1>7 DEF ResetHandshake
<1>8. CASE \E b \in Byte : WritePrepare(b)
  BY <1>8 DEF WritePrepare
<1>9. CASE WritePut
  BY <1>9 DEF WritePut
<1>10. CASE WriteToken
  BY <1>10 DEF WriteToken
<1> QED
  BY <1>1, <1>2, <1>3, <1>4, <1>5, <1>6, <1>7, <1>8, <1>9, <1>10, Zenon DEF CpuStep

\* The phases of the 6502, the two PIO machines and the CPU go together at all
\* times, for every byte and every interleaving, if the CPU is prompt.
THEOREM Interlocked ==
  ASSUME PicoPrompt
  PROVE  Spec => []Interlock
<1>1. Init => Interlock
  BY ByteAssumption DEF Init, Interlock, CpuPhase, RxPhase, TxPhase, WirePhase,
                        RxIdle, TxIdle, ReadPc, WritePc
<1>2. TypeOK /\ TypeOK' /\ Interlock /\ [Next]_vars => Interlock'
  <2>1. UNCHANGED vars /\ Interlock => Interlock'
    BY DEF vars, hostVars, rxVars, txVars, pinVars, cpuVars, Interlock, CpuPhase,
           RxPhase, TxPhase, WirePhase, RxIdle, TxIdle
  <2> QED
    BY <2>1, HostKeepsInterlock, RxKeepsInterlock, TxKeepsInterlock, CpuKeepsInterlock
    DEF Next
<1> QED
  BY <1>1, <1>2, TypeCorrect, PTL DEF Spec
-----------------------------------------------------------------------------
(* What follows from the interlock.                                        *)

\* A bus function returns with both PIO machines at their first instruction
\* and every FIFO empty, so they need no restart and no clearing.
THEOREM Quiescence ==
  ASSUME PicoPrompt
  PROVE  Spec => []QuiescentBetweenCalls
<1>1. Interlock => QuiescentBetweenCalls
  BY Zenon DEF Interlock, CpuPhase, RxPhase, TxPhase, QuiescentBetweenCalls
<1> QED
  BY <1>1, Interlocked, PTL

\* The driver never takes the flag of an earlier edge for its acknowledge.
THEOREM FreshAck ==
  ASSUME PicoPrompt
  PROVE  Spec => []NoStaleAck
<1>1. TypeOK /\ Interlock => NoStaleAck
  BY DEF TypeOK, Interlock, CpuPhase, RxPhase, TxPhase, WirePhase, RxIdle, TxIdle, NoStaleAck
<1> QED
  BY <1>1, TypeCorrect, Interlocked, PTL

\* Every byte that counts is sampled while one side drives the bus and holds it.
THEOREM CleanSamples ==
  ASSUME PicoPrompt
  PROVE  Spec => []CleanSample
<1>1. TypeOK /\ Interlock => CleanSample
  BY DEF TypeOK, Interlock, CpuPhase, RxPhase, TxPhase, WirePhase, RxIdle, TxIdle, CleanSample,
         ReadPc, WritePc
<1> QED
  BY <1>1, TypeCorrect, Interlocked, PTL

\* CA1 falls only while the 6502 holds CA2 high.
THEOREM NoFalseStrobe ==
  ASSUME PicoPrompt
  PROVE  Spec => StrobeOnlyWhenAsked
<1> DEFINE Strobe == CA1Level(ca1, ca1Dir) /\ ~CA1Level(ca1', ca1Dir')
<1>1. TypeOK /\ Interlock /\ [Next]_vars => [Strobe => ca2]_vars
  <2> SUFFICES ASSUME TypeOK, Interlock, Next, Strobe PROVE ca2
    BY Zenon DEF vars
  <2> USE DEF CA1Level, DriveCA1
  <2>1. CASE TurnPort \/ StartRead \/ (\E b \in Byte : StartSend(b)) \/ HostStep
    BY <2>1 DEF TurnPort, StartRead, StartSend, HostStep, RaiseCA2, SeeAck, TakeData,
                DropCA2, ClearFlag, pinVars
  <2>2. CASE RxMachine
    BY <2>2 DEF RxMachine, RxWaitHigh, RxIn, RxAckLow, RxWaitLow, RxAckHigh, RxPush, RxStep,
                Interlock, WirePhase
  <2>3. CASE TxMachine
    BY <2>3 DEF TxMachine, TxPull, TxWaitHigh, TxOut, TxStrobe, TxWaitLow, TxStrobeEnd,
                TxPush, TxStep, Interlock, WirePhase
  <2>4. CASE ReadPrepare \/ ResetHandshake \/ (\E b \in Byte : WritePrepare(b)) \/ CpuStep
    BY <2>4 DEF ReadPrepare, ResetHandshake, WritePrepare, CpuStep, ReadEnable, ReadData,
                ReadToken, ReadDisable, ReadHandover, WritePut, WriteToken, pinVars
  <2> QED
    BY <2>1, <2>2, <2>3, <2>4, Zenon DEF Next
<1> QED
  BY <1>1, TypeCorrect, Interlocked, PTL DEF Spec, StrobeOnlyWhenAsked

-----------------------------------------------------------------------------
(***************************************************************************)
(* The wires implement ByteLink: with a prompt Pico, RxIn and TxOut are    *)
(* the exchange, the start and the end of a driver or bus function are the *)
(* calls and returns, and every other step is a stutter.                   *)
(***************************************************************************)

InPhase == TypeOK /\ TypeOK' /\ Interlock /\ Interlock'

\* The call records stay as they are.
Stutter == hostCall' = hostCall /\ picoCall' = picoCall

LEMMA HostImplements ==
  ASSUME InPhase,
         TurnPort \/ StartRead \/ (\E b \in Byte : StartSend(b)) \/ HostStep
  PROVE  \/ Stutter
         \/ Link!HostRead \/ (\E b \in Byte : Link!HostSend(b)) \/ Link!HostReturn
<1> USE DEF InPhase, Stutter, TypeOK, Interlock, CpuPhase, RxPhase, TxPhase, WirePhase,
            RxIdle, TxIdle, ReadPc, WritePc, rxVars, txVars, pinVars, cpuVars
<1>1. picoCall' = picoCall
  BY DEF TurnPort, StartRead, StartSend, HostStep, RaiseCA2, SeeAck, TakeData, DropCA2,
         ClearFlag, picoCall, InRead, InWrite, PicoVal, PicoMet
<1>2. CASE TurnPort \/ SeeAck \/ RaiseCA2 \/ DropCA2
  BY <1>1, <1>2 DEF TurnPort, SeeAck, RaiseCA2, DropCA2, PioSettled, hostCall, HostVal,
                    HostMet, InWrite
<1>3. CASE TakeData
  <2>1. hop = "read" => hgot' = IF InWrite THEN dout ELSE Zero
    BY <1>3 DEF TakeData, BusValues, InWrite
  <2> QED
    BY <1>1, <1>3, <2>1 DEF TakeData, hostCall, HostVal, HostMet, InWrite
<1>4. CASE StartRead
  BY <1>1, <1>4 DEF StartRead, Link!HostRead, hostCall, HostVal, HostMet
<1>5. CASE \E b \in Byte : StartSend(b)
  BY <1>1, <1>5 DEF StartSend, Link!HostSend, hostCall, HostVal, HostMet
<1>6. CASE ClearFlag
  <2> DEFINE v == IF hop = "send" THEN ora ELSE hgot
  <2>1. hpc = "clear" /\ HostMet /\ ~HostMet'
    BY <1>6 DEF ClearFlag, HostMet
  <2>2. hostCall = [op |-> hop, val |-> v, st |-> "met"]
    BY <2>1 DEF hostCall, HostVal
  <2>3. hostCall' = [op |-> "idle", val |-> v, st |-> "open"]
    BY <1>6, <2>1 DEF ClearFlag, hostCall, HostVal
  <2> QED
    BY <1>1, <2>2, <2>3 DEF Link!HostReturn
<1> QED
  BY <1>2, <1>3, <1>4, <1>5, <1>6, Zenon DEF HostStep

LEMMA RxImplements ==
  ASSUME InPhase, RxMachine
  PROVE  Stutter \/ Link!Exchange
<1> USE DEF InPhase, Stutter, TypeOK, Interlock, CpuPhase, RxPhase, TxPhase, WirePhase,
            RxIdle, TxIdle, ReadPc, WritePc, RxStep, hostVars, txVars, cpuVars
<1>1. CASE RxWaitHigh \/ RxAckLow \/ RxWaitLow \/ RxAckHigh
  BY <1>1 DEF RxWaitHigh, RxAckLow, RxWaitLow, RxAckHigh, hostCall, HostVal, HostMet,
              picoCall, PicoVal, PicoMet, InRead, InWrite
<1>2. CASE RxPush
  <2>1. hostCall' = hostCall
    BY <1>2 DEF RxPush, hostCall, HostMet, HostVal, InWrite
  <2>2. PicoVal' = PicoVal /\ (PicoMet' <=> PicoMet)
    BY <1>2 DEF RxPush, PicoVal, PicoMet
  <2> QED
    BY <1>2, <2>1, <2>2 DEF RxPush, picoCall, InRead, InWrite, PicoMet
<1>3. CASE RxIn
  <2> DEFINE v == IF hop = "send" THEN ora ELSE Zero
  <2>1. cpc = "rdData" /\ rxq = <<>> /\ hpc = "poll" /\ ~dDir
    BY <1>3 DEF RxIn
  <2>2. BusValues = {v}
    BY <2>1 DEF BusValues
  <2>3. rxq' = <<v>>
    BY <1>3, <2>1, <2>2 DEF RxIn
  <2>4. ~HostMet /\ HostMet' /\ ~PicoMet /\ PicoMet'
    BY <1>3, <2>1, <2>3 DEF RxIn, HostMet, PicoMet
  <2>5. /\ hostCall = [op |-> hop, val |-> v, st |-> "open"]
        /\ hostCall' = [op |-> hop, val |-> v, st |-> "met"]
    BY <1>3, <2>1, <2>4 DEF RxIn, hostCall, HostVal, InWrite
  <2>6. /\ picoCall = [op |-> "read", val |-> Zero, st |-> "open"]
        /\ picoCall' = [op |-> "read", val |-> v, st |-> "met"]
    BY <1>3, <2>1, <2>3, <2>4 DEF RxIn, picoCall, PicoVal, InRead
  <2> QED
    BY <2>1, <2>5, <2>6 DEF Link!Exchange
<1> QED
  BY <1>1, <1>2, <1>3, Zenon DEF RxMachine

LEMMA TxImplements ==
  ASSUME InPhase, TxMachine
  PROVE  Stutter \/ Link!Exchange
<1> USE DEF InPhase, Stutter, TypeOK, Interlock, CpuPhase, RxPhase, TxPhase, WirePhase,
            RxIdle, TxIdle, ReadPc, WritePc, TxStep, hostVars, rxVars, cpuVars
<1>1. CASE TxPull \/ TxWaitHigh \/ TxStrobe \/ TxWaitLow \/ TxStrobeEnd
  BY <1>1 DEF TxPull, TxWaitHigh, TxStrobe, TxWaitLow, TxStrobeEnd, hostCall, HostVal,
              HostMet, picoCall, PicoVal, PicoMet, InRead, InWrite
<1>2. CASE TxPush
  <2>1. hostCall' = hostCall
    BY <1>2 DEF TxPush, hostCall, HostMet, HostVal, InWrite
  <2>2. PicoVal' = PicoVal /\ (PicoMet' <=> PicoMet)
    BY <1>2 DEF TxPush, PicoVal, PicoMet
  <2> QED
    BY <1>2, <2>1, <2>2 DEF TxPush, picoCall, InRead, InWrite, PicoMet
<1>3. CASE TxOut
  <2>1. /\ cpc = "wrToken" /\ txq = <<cval>> /\ txTok = 0
        /\ hpc = "poll" /\ dout' = cval
    BY <1>3 DEF TxOut
  <2>2. ~HostMet /\ HostMet' /\ ~PicoMet /\ PicoMet'
    BY <1>3, <2>1 DEF TxOut, HostMet, PicoMet
  <2>3. /\ hostCall = [op |-> hop, st |-> "open", val |-> IF hop = "send" THEN ora ELSE Zero]
        /\ hostCall' = [op |-> hop, st |-> "met", val |-> IF hop = "send" THEN ora ELSE cval]
    BY <1>3, <2>1, <2>2 DEF TxOut, hostCall, HostVal, InWrite
  <2>4. /\ picoCall = [op |-> "write", val |-> cval, st |-> "open"]
        /\ picoCall' = [op |-> "write", val |-> cval, st |-> "met"]
    BY <1>3, <2>1, <2>2 DEF TxOut, picoCall, PicoVal, InRead, InWrite
  <2> QED
    BY <2>1, <2>3, <2>4 DEF Link!Exchange
<1> QED
  BY <1>1, <1>2, <1>3, Zenon DEF TxMachine

LEMMA CpuImplements ==
  ASSUME InPhase,
         ReadPrepare \/ ResetHandshake \/ (\E b \in Byte : WritePrepare(b)) \/ CpuStep
  PROVE  \/ Stutter
         \/ Link!PicoRead \/ (\E b \in Byte : Link!PicoWrite(b)) \/ Link!PicoReturn
<1> USE DEF InPhase, Stutter, TypeOK, Interlock, CpuPhase, RxPhase, TxPhase, WirePhase,
            RxIdle, TxIdle, ReadPc, WritePc, hostVars, rxVars, txVars, pinVars
<1>1. hostCall' = hostCall
  <2> USE DEF hostCall, HostMet, HostVal, InWrite
  <2>1. CASE ReadPrepare \/ ResetHandshake
    BY <2>1 DEF ReadPrepare, ResetHandshake
  <2>2. CASE \E b \in Byte : WritePrepare(b)
    BY <2>2 DEF WritePrepare
  <2>3. CASE ReadEnable \/ ReadData
    BY <2>3 DEF ReadEnable, ReadData
  <2>4. CASE ReadToken \/ ReadDisable \/ ReadHandover
    BY <2>4 DEF ReadToken, ReadDisable, ReadHandover
  <2>5. CASE WritePut \/ WriteToken
    BY <2>5 DEF WritePut, WriteToken
  <2> QED
    BY <2>1, <2>2, <2>3, <2>4, <2>5, Zenon DEF CpuStep
<1>2. CASE ResetHandshake \/ ReadEnable \/ ReadData \/ ReadToken \/ ReadDisable \/ WritePut
  <2> USE DEF picoCall, PicoVal, PicoMet, InRead, InWrite
  <2>1. CASE ResetHandshake \/ ReadEnable
    BY <1>1, <2>1 DEF ResetHandshake, ReadEnable
  <2>2. CASE ReadData
    BY <1>1, <2>2 DEF ReadData
  <2>3. CASE ReadToken \/ ReadDisable
    BY <1>1, <2>3 DEF ReadToken, ReadDisable
  <2>4. CASE WritePut
    BY <1>1, <2>4 DEF WritePut
  <2> QED
    BY <1>2, <2>1, <2>2, <2>3, <2>4, Zenon
<1>3. CASE ReadPrepare
  BY <1>1, <1>3 DEF ReadPrepare, Link!PicoRead, picoCall, PicoVal, PicoMet, InRead, InWrite
<1>4. CASE \E b \in Byte : WritePrepare(b)
  BY <1>1, <1>4 DEF WritePrepare, Link!PicoWrite, picoCall, PicoVal, PicoMet, InRead, InWrite
<1>5. CASE ReadHandover \/ WriteToken
  <2>1. PicoMet /\ ~PicoMet'
    BY <1>5 DEF ReadHandover, WriteToken, PicoMet
  <2>2. \/ picoCall = [op |-> "read", val |-> cval, st |-> "met"]
        \/ picoCall = [op |-> "write", val |-> cval, st |-> "met"]
    BY <1>5, <2>1 DEF ReadHandover, WriteToken, picoCall, PicoVal, InRead, InWrite
  <2>3. picoCall' = [op |-> "idle", val |-> cval, st |-> "open"]
    BY <1>5, <2>1 DEF ReadHandover, WriteToken, picoCall, PicoVal, InRead, InWrite
  <2> QED
    BY <1>1, <2>2, <2>3 DEF Link!PicoReturn
<1> QED
  BY <1>2, <1>3, <1>4, <1>5, Zenon DEF CpuStep

\* One call of the 6502 meets one call of the Pico and the bytes that change
\* hands are the ones the two calls are about.
THEOREM WiresImplementLink ==
  ASSUME PicoPrompt
  PROVE  Spec => ImplementsByteLink
<1>1. Init => Link!LinkInit
  BY ByteAssumption DEF Init, Link!LinkInit, hostCall, picoCall, HostMet, PicoMet, HostVal,
                        PicoVal, InRead, InWrite, ReadPc, WritePc
<1>2. TypeOK /\ TypeOK' /\ Interlock /\ Interlock' /\ [Next]_vars
        => [Link!LinkNext]_(Link!linkVars)
  <2> SUFFICES ASSUME InPhase, [Next]_vars
               PROVE  Stutter \/ Link!LinkNext
    BY DEF InPhase, Stutter, Link!linkVars
  <2>1. CASE UNCHANGED vars
    BY <2>1 DEF vars, hostVars, rxVars, txVars, pinVars, cpuVars, Stutter, hostCall, picoCall,
                HostMet, PicoMet, HostVal, PicoVal, InRead, InWrite
  <2> QED
    BY <2>1, HostImplements, RxImplements, TxImplements, CpuImplements
    DEF Next, Link!LinkNext
<1> QED
  BY <1>1, <1>2, TypeCorrect, Interlocked, PTL DEF Spec, ImplementsByteLink, Link!LinkSpec
=============================================================================
