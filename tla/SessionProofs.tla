--------------------------- MODULE SessionProofs ---------------------------
(***************************************************************************)
(* Proofs about Session, for every length of a file, every size of the     *)
(* buffers, every cut of a stream into reads and writes and every order of *)
(* programs: the types, that no byte is taken for what it is not, and that *)
(* a stream the 65C02 is told is stored, or loaded, is.                    *)
(*                                                                         *)
(* The two sides never share a step except the meeting of two calls, so    *)
(* the invariant speaks of what is between them: the queue of bytes under  *)
(* way to each (ToPico, ToHost), which joins what one side has still to    *)
(* offer, what it offers and what the other has not yet looked at.  The    *)
(* link moves bytes within a queue; every other step takes its head or     *)
(* fills an empty one.  Phase then says, for each of the fourteen moments  *)
(* of a command, what is in the queues and what it is worth.               *)
(***************************************************************************)
EXTENDS Session, TLAPS

(****************************************************************************)
(* Types.                                                                   *)
(****************************************************************************)
\* The two sides of TypeOK and Bounds.
HostTyped ==
    /\ hpc \in {"idle", "request", "stream"} \cup DOMAIN HostReads
    /\ prog \in Programs \cup {"none"}
    /\ cmd \in Nat /\ hout \in Seq(Byte) /\ data \in Seq(Octet)
    /\ got \in Seq(Octet) /\ status \in Octet /\ cnt \in Nat
    /\ hpc \in {"payload", "load"} => cnt > 0

\* The Pico: the type of each variable, which state of the main loop goes with
\* which place in the code, and that the stream it reads from holds the bytes
\* still to be sent.
PicoTyped ==
    /\ ppc \in {"top", "exec", "send", "forthLoop"} \cup DOMAIN PicoReads
    /\ current_state \in {"IDLE", "SAVEMEM", "LOADMEM", "FORTH"}
    /\ cmd_id \in Octet /\ arg_len \in Octet /\ args \in Seq(Octet)
    /\ out \in Seq(Byte) /\ after \in {"top", "forthLoop"}
    /\ buf \in Seq(Octet) /\ remaining \in 0..StreamCap
    /\ stream_file_is_open \in BOOLEAN
    /\ file \in {"closed", "read", "write"} /\ fileName \in Names
    /\ fileData \in Seq(Octet)
    /\ dir \subseteq Names /\ disk \in [Names -> Seq(Octet)]
    /\ ppc \in {"cmd", "len", "args", "exec"} => current_state = "IDLE"
    /\ ppc = "save" => current_state = "SAVEMEM"
    /\ ppc \in {"forth", "forthLoop"} \/ (ppc = "send" /\ after = "forthLoop") =>
          current_state \in {"IDLE", "FORTH"}
    /\ ppc \in {"save", "forth"} => remaining > 0
    /\ current_state = "SAVEMEM" => remaining > 0
    /\ current_state = "LOADMEM" => remaining <= Len(buf) + Len(fileData)

\* What neither side changes in a command.
WorldTyped == fs_mounted \in BOOLEAN /\ listing \in 1..MaxListing

\* The Pico writes only where it sends.
WriteCall == pico.op = "write" => ppc = "send"

\* TypeOK with what it needs to be inductive.
Typed == LinkTypeOK /\ HostTyped /\ PicoTyped /\ WorldTyped /\ WriteCall

\* The types proved here include the ones TLC checks.
LEMMA TypedIsTypeOK == Typed => TypeOK
BY Zenon DEF Typed, HostTyped, PicoTyped, WorldTyped, TypeOK

\* A step of the 65C02 leaves the types of the Pico alone.
LEMMA PicoStill ==
  ASSUME Typed, UNCHANGED picoVars, UNCHANGED worldVars
  PROVE  PicoTyped' /\ WorldTyped'
BY Zenon DEF Typed, PicoTyped, WorldTyped, picoVars, requestVars, streamVars, diskVars, worldVars

\* A step of the Pico leaves the types of the 65C02 alone.
LEMMA HostStill ==
  ASSUME Typed, UNCHANGED hostVars, UNCHANGED worldVars
  PROVE  HostTyped' /\ WorldTyped'
BY Zenon DEF Typed, HostTyped, WorldTyped, hostVars, worldVars

\* Tagging a sequence keeps its length and gives each byte the tag.
LEMMA TaggedType ==
  ASSUME NEW t \in {"none", "cmd", "len", "arg", "status", "lo", "hi", "data"}, NEW s \in Seq(Octet)
  PROVE  /\ Tagged(t, s) \in Seq(Byte)
         /\ Len(Tagged(t, s)) = Len(s)
         /\ \A i \in 1..Len(s) : Tagged(t, s)[i] = [tag |-> t, val |-> s[i]]
BY DEF Tagged, Byte

\* A length up to the capacity travels in two bytes.
LEMMA LengthBytes ==
  ASSUME NEW n \in 0..StreamCap
  PROVE  n % Base \in Octet /\ n \div Base \in Octet
BY SessionAssumption DEF StreamCap, SessionAssumption, Octet

\* The two bytes of a length give it back.
LEMMA LengthDecoded ==
  ASSUME NEW n \in 0..StreamCap
  PROVE  (n % Base) + (Base * (n \div Base)) = n
BY SessionAssumption DEF StreamCap, SessionAssumption

\* The capacity is a natural number.
LEMMA StreamCapType == StreamCap \in Nat
BY SessionAssumption DEF StreamCap, SessionAssumption

\* The length the 65C02 adds up is a natural number.
LEMMA SumType ==
  ASSUME NEW c \in Nat, NEW v \in Octet
  PROVE  c + Base * v \in Nat
BY SessionAssumption DEF SessionAssumption, Octet

\* A single tagged byte.
LEMMA OneByte ==
  ASSUME NEW t \in {"none", "cmd", "len", "arg", "status", "lo", "hi", "data"}, NEW v \in Octet
  PROVE  /\ Tagged(t, <<v>>) = <<[tag |-> t, val |-> v]>>
         /\ [tag |-> t, val |-> v] \in Byte
         /\ Tagged(t, <<v>>) \in Seq(Byte)
BY DEF Tagged, Byte

\* A length is a sequence of bytes.
LEMMA LengthType ==
  ASSUME NEW n \in 0..StreamCap
  PROVE  Length(n) \in Seq(Byte)
<1>1. Tagged("lo", <<n % Base>>) \in Seq(Byte) /\ Tagged("hi", <<n \div Base>>) \in Seq(Byte)
  BY LengthBytes, OneByte
<1> QED
  BY <1>1 DEF Length

\* An answer is a sequence of bytes.
LEMMA ResponseType ==
  ASSUME NEW s \in Octet, NEW n \in 0..StreamCap
  PROVE  Response(s, n) \in Seq(Byte)
<1>1. Tagged("status", <<s>>) \in Seq(Byte)
  BY OneByte
<1>2. Length(n) \in Seq(Byte)
  BY LengthType
<1> QED
  BY <1>1, <1>2 DEF Response

\* A request is a sequence of bytes.
LEMMA RequestType ==
  ASSUME NEW c \in Octet, NEW bs \in Seq(Octet), Len(bs) <= 255
  PROVE  Request(c, bs) \in Seq(Byte)
<1>1. Len(bs) \in Octet
  BY DEF Octet
<1>2. Tagged("cmd", <<c>>) \in Seq(Byte)
  BY OneByte
<1>3. Tagged("len", <<Len(bs)>>) \in Seq(Byte)
  BY <1>1, OneByte
<1>4. Tagged("arg", bs) \in Seq(Byte)
  BY TaggedType
<1> QED
  BY <1>2, <1>3, <1>4 DEF Request

\* The codes of statuses and commands fit a byte.
LEMMA ConstantTypes ==
  /\ OK \in Octet /\ ERR \in Octet /\ NO_FILE \in Octet /\ SomeName \in Octet
  /\ Nothing \in Byte
  /\ Commands.list \in Octet /\ Commands.stat \in Octet /\ Commands.savemem \in Octet
  /\ Commands.loadmem \in Octet /\ Commands.listSize \in Octet
  /\ Commands.forthRead \in Octet /\ Commands.forthWrite \in Octet /\ Commands.other \in Octet
BY DEF OK, ERR, NO_FILE, SomeName, Nothing, Byte, Commands, Octet

\* Every call, meeting and return on the bus keeps the types of the link.
LEMMA CallsType ==
  ASSUME LinkTypeOK
  PROVE  /\ \A b \in Byte : HostSend(b) \/ PicoWrite(b) => LinkTypeOK'
         /\ HostRead \/ PicoRead \/ HostReturn \/ PicoReturn \/ Exchange => LinkTypeOK'
         /\ host.val \in Byte /\ pico.val \in Byte /\ host.val.val \in Octet /\ pico.val.val \in Octet
<1>1. Nothing \in Byte
  BY ConstantTypes
<1>2. \A v \in Byte : v.val \in Octet
  BY DEF Byte
<1> HIDE DEF Byte
<1> QED
  BY <1>1, <1>2 DEF LinkTypeOK, Call, HostSend, PicoWrite, HostRead, PicoRead, HostReturn, PicoReturn, Exchange

\* Starting a program keeps the types.
LEMMA StartKeepsType ==
  ASSUME Typed, StartProgram
  PROVE  Typed'
<1>1. ASSUME NEW p, NEW c \in Octet, NEW bs \in Seq(Octet), NEW d \in Seq(Octet), Len(bs) <= 255,
             Start(p, c, bs, d)
      PROVE  Typed'
  <2>1. hout' \in Seq(Byte)
    BY <1>1, RequestType DEF Start, Ask
  <2>2. hpc' = "request" /\ cmd' \in Nat /\ prog' \in Programs /\ data' \in Seq(Octet)
        /\ got' \in Seq(Octet)
    BY <1>1 DEF Start, Ask, Octet
  <2>3. UNCHANGED <<host, pico, status, cnt>> /\ UNCHANGED picoVars /\ UNCHANGED worldVars
    BY <1>1 DEF Start
  <2>4. LinkTypeOK'
    BY <2>3 DEF Typed, LinkTypeOK
  <2>5. HostTyped'
    BY <2>1, <2>2, <2>3 DEF Typed, HostTyped
  <2> QED
    BY <2>3, <2>4, <2>5, PicoStill DEF Typed, WriteCall, picoVars
<1>2. ASSUME NEW n \in Nat, NEW d \in Memory(n)
      PROVE  d \in Seq(Octet)
  BY <1>2, SessionAssumption DEF Memory, SessionAssumption
<1>4. CASE StartSavemem
  <2>0. PICK n \in 1..AtMost(MaxLen, StreamCap) : \E d \in Memory(n) :
               Start("savemem", Commands.savemem, <<SomeName, n % Base, n \div Base>>, d)
    BY <1>4 DEF StartSavemem
  <2>1. PICK d \in Memory(n) :
               Start("savemem", Commands.savemem, <<SomeName, n % Base, n \div Base>>, d)
    BY <2>0
  <2>2. n \in 0..StreamCap
    BY SessionAssumption DEF AtMost, SessionAssumption, StreamCap
  <2>3. n % Base \in Octet /\ n \div Base \in Octet /\ SomeName \in Octet
    BY <2>2, LengthBytes, ConstantTypes
  <2>4. /\ <<SomeName, n % Base, n \div Base>> \in Seq(Octet)
        /\ Len(<<SomeName, n % Base, n \div Base>>) <= 255
    BY <2>3
  <2>5. d \in Seq(Octet)
    BY <2>2, <1>2
  <2> QED
    BY <2>1, <2>4, <2>5, <1>1, ConstantTypes
<1>5. CASE StartForthWrite
  <2>1. PICK d \in Memory(ForthSize) : Start("forthWrite", Commands.forthWrite, <<0, 0>>, d)
    BY <1>5 DEF StartForthWrite
  <2>2. d \in Seq(Octet)
    BY <1>2, SessionAssumption DEF SessionAssumption
  <2>3. <<0, 0>> \in Seq(Octet) /\ Len(<<0, 0>>) <= 255
    BY DEF Octet
  <2> QED
    BY <1>1, <2>1, <2>2, <2>3, ConstantTypes
<1>6. CASE StartLoadmem \/ StartRun \/ StartDir \/ StartCatalog \/ StartForthRead \/ StartOther
  <2>1. /\ <<>> \in Seq(Octet) /\ Len(<<>>) <= 255
        /\ <<SomeName>> \in Seq(Octet) /\ Len(<<SomeName>>) <= 255
        /\ <<0, 0>> \in Seq(Octet) /\ Len(<<0, 0>>) <= 255
    BY DEF Octet, SomeName
  <2>2. CASE StartLoadmem \/ StartRun
    BY <2>1, <2>2, <1>1, ConstantTypes DEF StartLoadmem, StartRun
  <2>3. CASE StartDir \/ StartCatalog
    BY <2>1, <2>3, <1>1, ConstantTypes DEF StartDir, StartCatalog
  <2>4. CASE StartForthRead \/ StartOther
    BY <2>1, <2>4, <1>1, ConstantTypes DEF StartForthRead, StartOther
  <2> QED
    BY <1>6, <2>2, <2>3, <2>4
<1> QED
  BY <1>4, <1>5, <1>6 DEF StartProgram

\* So does sending a command,
LEMMA AskType ==
  ASSUME NEW c \in Octet, NEW bs \in Seq(Octet), Len(bs) <= 255, Ask(c, bs)
  PROVE  hpc' = "request" /\ cmd' \in Nat /\ hout' \in Seq(Byte) /\ got' \in Seq(Octet)
BY RequestType DEF Ask, Octet

\* the next command of a program,
LEMMA ProceedType ==
  ASSUME HostTyped, NEW resp \in Seq(Octet), Proceed(resp)
  PROVE  /\ hpc' \in {"idle", "request", "stream"}
         /\ cmd' \in Nat /\ hout' \in Seq(Byte) /\ got' \in Seq(Octet)
<1>1. <<SomeName>> \in Seq(Octet) /\ Len(<<SomeName>>) <= 255
  BY DEF Octet, SomeName
<1>2. CASE Ask(Commands.loadmem, <<SomeName>>)
  BY <1>1, <1>2, AskType, ConstantTypes
<1>3. CASE Ask(Commands.list, <<SomeName>>)
  BY <1>1, <1>3, AskType, ConstantTypes
<1>4. CASE hpc' = "stream" /\ hout' = Tagged("data", data) /\ got' = <<>> /\ UNCHANGED cmd
  BY <1>4, TaggedType DEF HostTyped
<1>5. CASE hpc' = "idle" /\ got' = resp /\ UNCHANGED <<cmd, hout>>
  BY <1>5 DEF HostTyped
<1> QED
  BY <1>2, <1>3, <1>4, <1>5 DEF Proceed

\* and every step of the 65C02.
LEMMA HostKeepsType ==
  ASSUME Typed, HostStep
  PROVE  Typed'
<1>1. PicoTyped' /\ WorldTyped'
  <2>1. UNCHANGED picoVars /\ UNCHANGED worldVars
    BY DEF HostStep, SendNext, SendReturns, ReadNext, ReadReturns, GotStatus, GotLo, GotHiByHand,
           GotHiOfRequest, GotPayload, GotStreamByte, GotFinalHi
  <2> QED
    BY <2>1, PicoStill
<1>2. LinkTypeOK'
  <2>1. (\E b \in Byte : HostSend(b)) \/ HostRead \/ HostReturn
    BY DEF HostStep, SendNext, SendReturns, ReadNext, ReadReturns, GotStatus, GotLo, GotHiByHand,
           GotHiOfRequest, GotPayload, GotStreamByte, GotFinalHi, Typed, HostTyped
  <2> QED
    BY <2>1, CallsType DEF Typed
<1>3. HostTyped'
  <2> USE DEF HostTyped, ReadReturns
  <2>0. HostTyped /\ host.val.val \in Octet
    BY CallsType DEF Typed
  <2>1. CASE SendNext
    <3>1. Tail(hout) \in Seq(Byte)
      BY <2>0, <2>1 DEF SendNext
    <3> QED
      BY <2>0, <2>1, <3>1, Zenon DEF SendNext
  <2>8. CASE ReadNext
    BY <2>0, <2>8, Zenon DEF ReadNext, hostVars
  <2>7. CASE SendReturns
    BY <2>0, <2>7 DEF SendReturns, HostReads
  <2>2. CASE GotStatus \/ GotLo \/ GotFinalHi
    BY <2>0, <2>2 DEF GotStatus, GotLo, GotFinalHi, HostReads, Octet
  <2>3. CASE GotHiByHand
    <3>1. cnt' \in Nat
      BY <2>0, <2>3, SumType DEF GotHiByHand
    <3> QED
      BY <2>0, <2>3, <3>1 DEF GotHiByHand, HostReads
  <2>4. CASE GotHiOfRequest
    <3>1. cnt' \in Nat /\ UNCHANGED <<prog, data, status>>
      BY <2>0, <2>4, SumType DEF GotHiOfRequest
    <3>2. CASE hpc' = "payload" /\ cnt' \in 1..RespMax /\ UNCHANGED <<cmd, hout, got>>
      BY <2>0, <3>1, <3>2 DEF HostReads
    <3>3. CASE hpc' = "idle" /\ UNCHANGED <<cmd, hout, got>>
      BY <2>0, <3>1, <3>3
    <3>4. CASE Proceed(<<>>)
      <4>1. <<>> \in Seq(Octet)
        OBVIOUS
      <4> QED
        BY <2>0, <3>1, <3>4, <4>1, ProceedType
    <3> QED
      BY <2>4, <3>2, <3>3, <3>4 DEF GotHiOfRequest
  <2>5. CASE GotPayload
    <3>1. cnt' \in Nat /\ UNCHANGED <<prog, data, status>>
      BY <2>0, <2>5 DEF GotPayload
    <3>2. Append(got, host.val.val) \in Seq(Octet)
      BY <2>0
    <3>3. CASE cnt > 1 /\ got' = Append(got, host.val.val) /\ UNCHANGED <<hpc, cmd, hout>>
      BY <2>0, <2>5, <3>1, <3>2, <3>3 DEF GotPayload
    <3>4. CASE Proceed(Append(got, host.val.val))
      BY <2>0, <3>1, <3>2, <3>4, ProceedType
    <3> QED
      BY <2>5, <3>3, <3>4 DEF GotPayload
  <2>6. CASE GotStreamByte
    BY <2>0, <2>6 DEF GotStreamByte, HostReads
  <2> QED
    BY <2>1, <2>2, <2>3, <2>4, <2>5, <2>6, <2>7, <2>8 DEF HostStep
<1>4. WriteCall'
  BY DEF HostStep, SendNext, SendReturns, ReadNext, ReadReturns, GotStatus, GotLo, GotHiByHand,
         GotHiOfRequest, GotPayload, GotStreamByte, GotFinalHi, HostSend, HostRead, HostReturn,
         Typed, WriteCall, picoVars
<1> QED
  BY <1>1, <1>2, <1>3, <1>4 DEF Typed

\* An answer with a payload that fits is a sequence of bytes,
LEMMA ReplyType ==
  ASSUME NEW s \in Octet, NEW p \in Seq(Octet), Len(p) \in 0..StreamCap, Reply(s, p)
  PROVE  ppc' = "send" /\ after' = "top" /\ out' \in Seq(Byte)
<1>1. Response(s, Len(p)) \in Seq(Byte) /\ Tagged("data", p) \in Seq(Byte)
  BY ResponseType, TaggedType
<1> QED
  BY <1>1 DEF Reply, Answer

\* and so is one of less than three bytes.
LEMMA ShortReplyType ==
  ASSUME NEW s \in Octet, NEW p \in Seq(Octet), Len(p) < 3, Reply(s, p)
  PROVE  ppc' = "send" /\ after' = "top" /\ out' \in Seq(Byte)
<1>1. Len(p) \in 0..StreamCap
  BY SessionAssumption DEF SessionAssumption, StreamCap
<1> QED
  BY <1>1, ReplyType

\* The disk after a file is closed is a disk,
LEMMA CommittedType ==
  ASSUME PicoTyped, NEW fn \in Names, NEW contents \in Seq(Octet), NEW mode
  PROVE  Committed(fn, contents, mode) \in [Names -> Seq(Octet)]
BY DEF PicoTyped, Committed

\* also when a file is left open.
LEMMA DanglingType ==
  ASSUME PicoTyped
  PROVE  DiskAfterDangling \in [Names -> Seq(Octet)]
BY CommittedType DEF PicoTyped, DiskAfterDangling

\* A refusal keeps the types of the Pico,
LEMMA RefuseType ==
  ASSUME PicoTyped, NEW early, NEW statuses \in SUBSET Octet, Refuse(early, statuses),
         current_state = "IDLE", UNCHANGED requestVars
  PROVE  PicoTyped'
<1>0. UNCHANGED <<cmd_id, arg_len, args>>
  BY DEF requestVars
<1>1. <<>> \in Seq(Octet) /\ Len(<<>>) < 3
  OBVIOUS
<1>2. ppc' = "send" /\ after' = "top" /\ out' \in Seq(Byte)
  <2>1. \E s \in Octet : Reply(s, <<>>)
    BY ConstantTypes DEF Refuse
  <2> QED
    BY <2>1, <1>1, ShortReplyType
<1>3. UNCHANGED <<current_state, buf, remaining, fileName, dir>>
  BY DEF Refuse, streamVars, diskVars
<1>4. disk' \in [Names -> Seq(Octet)]
  BY DanglingType DEF Refuse, diskVars, PicoTyped
<1>5. stream_file_is_open' \in BOOLEAN
  BY Zenon DEF Refuse, PicoTyped, streamVars
<1>6. file' \in {"closed", "read", "write"} /\ fileData' \in Seq(Octet)
  <2>1. (file' = file /\ fileData' = fileData) \/ (file' = "closed" /\ fileData' = <<>>)
    BY Zenon DEF Refuse, streamVars
  <2> QED
    BY <1>1, <2>1, Zenon DEF PicoTyped
<1> QED
  BY <1>0, <1>2, <1>3, <1>4, <1>5, <1>6 DEF PicoTyped

\* and so does opening a stream,
LEMMA OpenStreamType ==
  ASSUME PicoTyped, NEW fn \in Names, NEW mode \in {"read", "write"},
         NEW contents \in Seq(Octet), NEW state \in {"SAVEMEM", "LOADMEM", "FORTH"},
         NEW n \in 0..StreamCap, OpenStream(fn, mode, contents, state, n),
         Answer(Response(OK, 0), "top") \/ Answer(Response(OK, n), "top"),
         state = "SAVEMEM" => n > 0, state = "LOADMEM" => n <= Len(contents),
         UNCHANGED requestVars
  PROVE  PicoTyped'
<1>0. UNCHANGED <<cmd_id, arg_len, args>>
  BY DEF requestVars
<1>1. ppc' = "send" /\ after' = "top"
  BY DEF Answer
<1>2. 0 \in 0..StreamCap
  BY SessionAssumption DEF SessionAssumption, StreamCap
<1>3. out' \in Seq(Byte)
  BY <1>2, ResponseType, ConstantTypes DEF Answer
<1>4. disk' \in [Names -> Seq(Octet)] /\ dir' \subseteq Names
  BY DanglingType DEF OpenStream, PicoTyped
<1>5. stream_file_is_open' \in BOOLEAN
  BY Zenon DEF OpenStream
<1>6. file' = mode /\ fileName' = fn /\ fileData' = contents /\ current_state' = state
      /\ remaining' = n /\ buf' = <<>>
  BY DEF OpenStream
<1>7. buf' \in Seq(Octet) /\ Len(buf') = 0
  BY <1>6
<1> QED
  BY <1>0, <1>1, <1>3, <1>4, <1>5, <1>6, <1>7 DEF PicoTyped

\* and closing one.
LEMMA CloseStreamType ==
  ASSUME PicoTyped, NEW contents \in Seq(Octet), NEW committed, CloseStream(contents, committed)
  PROVE  /\ disk' \in [Names -> Seq(Octet)] /\ dir' \subseteq Names /\ fileName' \in Names
         /\ stream_file_is_open' \in BOOLEAN
         /\ file' = "closed" /\ fileData' \in Seq(Octet) /\ current_state' = "IDLE"
<1>1. stream_file_is_open' \in BOOLEAN
  BY Zenon DEF CloseStream
<1>2. disk' \in [Names -> Seq(Octet)]
  BY CommittedType DEF CloseStream, PicoTyped
<1> QED
  BY <1>1, <1>2 DEF CloseStream, PicoTyped

\* The length of a save fits the capacity.
LEMMA SaveLengthType ==
  ASSUME PicoTyped
  PROVE  SaveLength \subseteq 0..StreamCap
<1>1. CASE Len(args) >= 3
  <2>1. args[2] \in Nat /\ args[3] \in Nat
    BY <1>1 DEF PicoTyped, Octet
  <2>2. args[2] + Base * args[3] \in Nat
    BY <2>1, SessionAssumption DEF SessionAssumption
  <2>3. Base * Base \in Nat \ {0}
    BY SessionAssumption DEF SessionAssumption
  <2>4. \A a \in Nat, b \in Nat \ {0} : a % b \in 0..(b - 1)
    OBVIOUS
  <2> QED
    BY <1>1, <2>2, <2>3, <2>4 DEF SaveLength, StreamCap
<1>2. CASE ~(Len(args) >= 3)
  BY <1>2 DEF SaveLength
<1> QED
  BY <1>1, <1>2

\* Every handler keeps the types of the Pico.
LEMMA ExecKeepsType ==
  ASSUME PicoTyped, WorldTyped, Exec
  PROVE  PicoTyped'
<1>1. current_state = "IDLE" /\ UNCHANGED requestVars
  BY DEF Exec, ExecStat, ExecListSize, ExecList, ExecOther, ExecSavemem, ExecLoadmem,
         ExecForthRead, ExecForthWrite, Handles, PicoTyped
<1>2. ASSUME NEW s \in Octet, NEW p \in Seq(Octet), Len(p) \in 0..StreamCap, Reply(s, p),
             UNCHANGED <<streamVars, diskVars>>
      PROVE  PicoTyped'
  <2>1. ppc' = "send" /\ after' = "top" /\ out' \in Seq(Byte)
    BY <1>2, ReplyType
  <2> QED
    BY <1>1, <1>2, <2>1, Zenon DEF PicoTyped, requestVars, streamVars, diskVars
<1>3. /\ <<>> \in Seq(Octet) /\ Len(<<>>) \in 0..StreamCap
      /\ <<1>> \in Seq(Octet) /\ Len(<<1>>) \in 0..StreamCap
  BY SessionAssumption DEF SessionAssumption, StreamCap, Octet
<1>4. listing \in 0..StreamCap
  BY SessionAssumption DEF SessionAssumption, StreamCap, WorldTyped
<1>5. CASE ExecStat \/ ExecOther
  BY <1>2, <1>3, <1>5, ConstantTypes DEF ExecStat, ExecOther
<1>6. CASE ExecListSize
  <2>1. listing % Base \in Octet /\ listing \div Base \in Octet
    BY <1>4, LengthBytes
  <2>2. /\ <<listing % Base, listing \div Base>> \in Seq(Octet)
        /\ Len(<<listing % Base, listing \div Base>>) = 2
    BY <2>1
  <2>3. 2 \in 0..StreamCap
    BY SessionAssumption DEF SessionAssumption, StreamCap
  <2> QED
    BY <1>2, <1>3, <1>6, <2>2, <2>3, ConstantTypes DEF ExecListSize
<1>7. CASE ExecList
  <2>1. Zeros(listing) \in Seq(Octet) /\ Len(Zeros(listing)) = listing
    BY <1>4 DEF Zeros, Octet
  <2> QED
    BY <1>2, <1>3, <1>4, <1>7, <2>1, ConstantTypes DEF ExecList
<1>8. CASE ExecSavemem
  <2>1. PICK n \in SaveLength :
         \/ Refuse(~fs_mounted \/ n = 0, IF "open" \in Faults THEN {ERR, NO_FILE} ELSE {})
         \/ /\ fs_mounted /\ n # 0
            /\ OpenStream("file", "write", <<>>, "SAVEMEM", n)
            /\ Answer(Response(OK, 0), "top")
    BY <1>8 DEF ExecSavemem
  <2>2. n \in 0..StreamCap
    BY SaveLengthType
  <2>3. CASE Refuse(~fs_mounted \/ n = 0, IF "open" \in Faults THEN {ERR, NO_FILE} ELSE {})
    BY <1>1, <2>3, RefuseType, ConstantTypes
  <2>4. CASE /\ fs_mounted /\ n # 0
             /\ OpenStream("file", "write", <<>>, "SAVEMEM", n)
             /\ Answer(Response(OK, 0), "top")
    <3>1. "file" \in Names /\ n > 0
      BY <2>2, <2>4 DEF Names
    <3> QED
      BY <1>1, <1>3, <2>2, <2>4, <3>1, OpenStreamType
  <2> QED
    BY <2>1, <2>3, <2>4
<1>9. CASE ExecLoadmem
  <2>1. CASE Refuse(~fs_mounted, (IF "open" \in Faults THEN {ERR} ELSE {})
                     \cup (IF "file" \in dir THEN {} ELSE {NO_FILE}))
    BY <1>1, <2>1, RefuseType, ConstantTypes
  <2>2. CASE LET contents == DiskAfterDangling["file"]
                 size == AtMost(Len(contents), StreamCap) IN
             /\ OpenStream("file", "read", contents, "LOADMEM", size)
             /\ Answer(Response(OK, size), "top")
    <3> DEFINE contents == DiskAfterDangling["file"]
               size == AtMost(Len(contents), StreamCap)
    <3>1. "file" \in Names /\ contents \in Seq(Octet)
      BY DanglingType DEF Names
    <3>2. size \in 0..StreamCap /\ size <= Len(contents)
      BY <3>1, SessionAssumption DEF SessionAssumption, StreamCap, AtMost
    <3>3. OpenStream("file", "read", contents, "LOADMEM", size) /\ Answer(Response(OK, size), "top")
      BY <2>2
    <3> HIDE DEF contents, size
    <3> QED
      BY <1>1, <3>1, <3>2, <3>3, OpenStreamType
  <2> QED
    BY <1>9, <2>1, <2>2 DEF ExecLoadmem
<1>10. CASE ExecForthWrite
  <2>1. CASE Refuse(~fs_mounted, IF "open" \in Faults \/ arg_len < 2 THEN {ERR} ELSE {})
    BY <1>1, <2>1, RefuseType, ConstantTypes
  <2>2. CASE OpenStream("block", "write", <<>>, "FORTH", ForthSize) /\ Answer(Response(OK, 0), "top")
    <3>1. "block" \in Names /\ ForthSize \in 0..StreamCap
      BY SessionAssumption DEF SessionAssumption, StreamCap, Names
    <3> QED
      BY <1>1, <1>3, <2>2, <3>1, OpenStreamType
  <2> QED
    BY <1>10, <2>1, <2>2 DEF ExecForthWrite
<1>11. CASE ExecForthRead
  <2>1. CASE Refuse(~fs_mounted, IF "open" \in Faults \/ arg_len < 2 THEN {ERR} ELSE {})
    BY <1>1, <2>1, RefuseType, ConstantTypes
  <2>2. ForthSize \in 0..StreamCap
    BY SessionAssumption DEF SessionAssumption, StreamCap
  <2>3. Zeros(ForthSize) \in Seq(Octet) /\ Len(Zeros(ForthSize)) = ForthSize
    BY <2>2 DEF Zeros, Octet
  <2>4. ASSUME NEW stored \in Seq(Octet),
               disk' = [DiskAfterDangling EXCEPT !["block"] = stored],
               \/ Reply(OK, SubSeq(stored \o Zeros(ForthSize), 1, ForthSize))
               \/ Reply(ERR, <<>>),
               dir' = dir \cup {"block"},
               stream_file_is_open' = FALSE /\ file' = "closed" /\ fileData' = <<>>,
               UNCHANGED <<current_state, buf, remaining, fileName>>
        PROVE  PicoTyped'
    <3>1. /\ SubSeq(stored \o Zeros(ForthSize), 1, ForthSize) \in Seq(Octet)
          /\ Len(SubSeq(stored \o Zeros(ForthSize), 1, ForthSize)) = ForthSize
      <4>1. stored \o Zeros(ForthSize) \in Seq(Octet)
            /\ Len(stored \o Zeros(ForthSize)) >= ForthSize
        BY <2>2, <2>3
      <4> QED
        BY <4>1, <2>2
    <3>2. ppc' = "send" /\ after' = "top" /\ out' \in Seq(Byte)
      BY <1>3, <2>2, <2>4, <3>1, ReplyType, ConstantTypes
    <3>3. disk' \in [Names -> Seq(Octet)] /\ dir' \subseteq Names
      BY <2>4, DanglingType DEF Names, PicoTyped
    <3>4. stream_file_is_open' \in BOOLEAN
      BY <2>4, Zenon
    <3>5. file' = "closed" /\ fileData' \in Seq(Octet)
      BY <2>4
    <3> QED
      BY <1>1, <2>4, <3>2, <3>3, <3>4, <3>5 DEF PicoTyped, requestVars
  <2>5. CASE ~Refuse(~fs_mounted, IF "open" \in Faults \/ arg_len < 2 THEN {ERR} ELSE {})
    <3>1. PICK stored \in IF "block" \in dir THEN {DiskAfterDangling["block"]}
                          ELSE {Zeros(ForthSize)} \cup
                               (IF Faults \cap {"write", "close"} = {} THEN {} ELSE {<<>>}) :
               /\ disk' = [DiskAfterDangling EXCEPT !["block"] = stored]
               /\ \/ Reply(OK, SubSeq(stored \o Zeros(ForthSize), 1, ForthSize))
                  \/ Faults \cap {"open", "read"} # {} /\ Reply(ERR, <<>>)
      BY <1>11, <2>5 DEF ExecForthRead
    <3>2. stored \in Seq(Octet)
      BY <1>3, <2>3, DanglingType DEF Names
    <3> QED
      BY <1>11, <2>4, <2>5, <3>1, <3>2 DEF ExecForthRead
  <2> QED
    BY <2>1, <2>5
<1> QED
  BY <1>5, <1>6, <1>7, <1>8, <1>9, <1>10, <1>11 DEF Exec

\* What the Pico does between its calls to the bus.
PicoTask == \/ TopIdle \/ GotCmd \/ GotLen \/ GotArg
            \/ WriteNext \/ WriteReturns \/ TopSave \/ SaveByte \/ SaveLast
            \/ LoadByte \/ LoadDone \/ TopForth \/ ForthMore \/ ForthByte \/ ForthDone

\* A refill holds a byte at least, and with the rest of the file all that is to
\* be sent.
LEMMA RefillsType ==
  ASSUME PicoTyped, current_state = "LOADMEM", remaining > 0, NEW r \in Refills
  PROVE  /\ r[1] \in Seq(Octet) /\ r[1] # <<>> /\ r[2] \in Seq(Octet)
         /\ remaining <= Len(r[1]) + Len(r[2])
<1>0. /\ buf \in Seq(Octet) /\ fileData \in Seq(Octet) /\ remaining \in Nat
      /\ remaining <= Len(buf) + Len(fileData)
  BY DEF PicoTyped
<1>1. CASE buf # <<>>
  <2>1. r = <<buf, fileData>>
    BY <1>1 DEF Refills
  <2> QED
    BY <1>0, <1>1, <2>1
<1>2. CASE buf = <<>>
  <2> DEFINE n == AtMost(remaining, BufSize)
  <2>1. n \in 1..Len(fileData) /\ n \in Nat
    BY <1>0, <1>2, SessionAssumption DEF SessionAssumption, AtMost
  <2>2. /\ SubSeq(fileData, 1, n) \in Seq(Octet) /\ Len(SubSeq(fileData, 1, n)) = n
        /\ SubSeq(fileData, n + 1, Len(fileData)) \in Seq(Octet)
        /\ Len(SubSeq(fileData, n + 1, Len(fileData))) = Len(fileData) - n
    BY <1>0, <2>1
  <2>3. Zeros(n) \in Seq(Octet) /\ Len(Zeros(n)) = n
    BY <2>1 DEF Zeros, Octet
  <2>4. \/ r = <<SubSeq(fileData, 1, n), SubSeq(fileData, n + 1, Len(fileData))>>
        \/ r = <<Zeros(n), fileData>>
    BY <1>2 DEF Refills
  <2> HIDE DEF n
  <2>5. CASE r = <<SubSeq(fileData, 1, n), SubSeq(fileData, n + 1, Len(fileData))>>
    <3>1. r[1] = SubSeq(fileData, 1, n) /\ r[2] = SubSeq(fileData, n + 1, Len(fileData))
      BY <2>5
    <3>2. r[1] \in Seq(Octet) /\ r[2] \in Seq(Octet) /\ Len(r[1]) + Len(r[2]) = Len(fileData)
          /\ Len(r[1]) > 0
      BY <1>0, <2>1, <2>2, <3>1
    <3>3. remaining <= Len(fileData)
      BY <1>0, <1>2
    <3>4. r[1] # <<>>
      BY <3>2
    <3>5. remaining <= Len(r[1]) + Len(r[2])
      BY <3>2, <3>3
    <3> QED
      BY <3>2, <3>4, <3>5
  <2>6. CASE r = <<Zeros(n), fileData>>
    <3>1. r[1] = Zeros(n) /\ r[2] = fileData
      BY <2>6
    <3> QED
      BY <1>0, <1>2, <2>1, <2>3, <3>1
  <2> QED
    BY <2>4, <2>5, <2>6
<1> QED
  BY <1>1, <1>2

\* A failed write keeps the types,
LEMMA WriteFailsType ==
  ASSUME PicoTyped, pico.val.val \in Octet, NEW pc \in {"save", "forth"}, NEW next \in {"top", "forthLoop"},
         WriteFails(pc, next)
  PROVE  PicoTyped'
<1>1. 0 \in 0..StreamCap
  BY SessionAssumption DEF SessionAssumption, StreamCap
<1>2. ppc' = "send" /\ after' \in {"top", "forthLoop"}
  BY DEF WriteFails, Answer
<1>3. out' \in Seq(Byte)
  BY <1>1, ResponseType, ConstantTypes DEF WriteFails, Answer
<1>4. remaining' \in 0..StreamCap
  <2>1. remaining \in 0..StreamCap /\ remaining > 0 /\ remaining' = remaining - 1
    BY DEF WriteFails, Streamed, ByteAt, Left, PicoTyped
  <2> QED
    BY <2>1, StreamCapType
<1>5. UNCHANGED <<cmd_id, arg_len, args>>
  BY DEF WriteFails, Streamed, requestVars
<1>6. buf' \in Seq(Octet)
  BY DEF WriteFails, Filled, PicoTyped
<1>7. /\ disk' \in [Names -> Seq(Octet)] /\ dir' \subseteq Names /\ fileName' \in Names
      /\ stream_file_is_open' \in BOOLEAN
      /\ file' = "closed" /\ fileData' \in Seq(Octet) /\ current_state' = "IDLE"
  BY CloseStreamType DEF WriteFails, PicoTyped
<1> QED
  BY <1>2, <1>3, <1>4, <1>5, <1>6, <1>7 DEF PicoTyped

\* and so does a byte that is kept or written.
LEMMA KeepsByteType ==
  ASSUME PicoTyped, pico.val.val \in Octet, NEW pc \in {"save", "forth"}, NEW next \in {"top", "forthLoop"},
         KeepByte(pc, next) \/ (FlushBuffer(pc, next) /\ (pc = "save" => Left # 0)),
         pc = "save" <=> next = "top"
  PROVE  PicoTyped'
<1>1. ppc' = next
  BY DEF KeepByte, FlushBuffer
<1>2. remaining' = Left /\ remaining' \in 0..StreamCap /\ UNCHANGED <<cmd_id, arg_len, args>>
  <2>1. remaining \in 0..StreamCap /\ remaining > 0
    BY DEF KeepByte, FlushBuffer, Streamed, ByteAt, PicoTyped
  <2>2. remaining' = Left /\ UNCHANGED <<cmd_id, arg_len, args>>
    BY DEF KeepByte, FlushBuffer, Streamed, requestVars
  <2> QED
    BY <2>1, <2>2, StreamCapType DEF Left
<1>3. Filled \in Seq(Octet) /\ fileData \o Filled \in Seq(Octet) /\ <<>> \in Seq(Octet)
  BY DEF Filled, PicoTyped
<1>4. buf' \in Seq(Octet) /\ fileData' \in Seq(Octet)
  BY <1>3 DEF KeepByte, FlushBuffer, PicoTyped
<1>5. UNCHANGED <<out, after, current_state, stream_file_is_open, file, fileName, dir, disk>>
  BY DEF KeepByte, FlushBuffer, diskVars
<1>6. pc = "save" => remaining' # 0
  BY <1>2 DEF KeepByte, Flush
<1>7. stream_file_is_open' \in BOOLEAN
  BY <1>5, Zenon DEF PicoTyped
<1>8. ppc = pc
  BY DEF KeepByte, FlushBuffer, Streamed, ByteAt
<1> QED
  BY <1>1, <1>2, <1>4, <1>5, <1>6, <1>7, <1>8 DEF PicoTyped

\* Between its calls the Pico keeps its types.
LEMMA PicoTaskKeepsType ==
  ASSUME PicoTyped, WriteCall, pico.val \in Byte, pico.val.val \in Octet, PicoTask
  PROVE  PicoTyped'
<1> USE DEF PicoReads
<1>1. CASE TopIdle \/ TopSave \/ TopForth \/ ForthMore
  <2>1. stream_file_is_open' \in BOOLEAN
    BY <1>1, Zenon DEF TopIdle, TopSave, TopForth, ForthMore, streamVars, PicoTyped
  <2>2. UNCHANGED <<cmd_id, arg_len, args, out, after, current_state, buf, remaining, file,
                    fileName, fileData, dir, disk>>
    BY <1>1 DEF TopIdle, TopSave, TopForth, ForthMore, streamVars, diskVars, requestVars
  <2>3. \/ ppc' = "cmd" /\ current_state = "IDLE"
        \/ ppc' = "save" /\ current_state = "SAVEMEM"
        \/ ppc' = "forthLoop" /\ current_state = "FORTH"
        \/ ppc' = "forth" /\ ppc = "forthLoop" /\ remaining > 0
    BY <1>1 DEF TopIdle, TopSave, TopForth, ForthMore
  <2> QED
    BY <2>1, <2>2, <2>3 DEF PicoTyped
<1>2. CASE GotCmd \/ GotLen \/ GotArg
  <2>1. UNCHANGED <<out, after, current_state, buf, remaining, stream_file_is_open, file,
                    fileName, fileData, dir, disk>>
    BY <1>2 DEF GotCmd, GotLen, GotArg, streamVars, diskVars
  <2>2. stream_file_is_open' \in BOOLEAN
    BY <2>1, Zenon DEF PicoTyped
  <2>3. cmd_id' \in Octet /\ arg_len' \in Octet /\ args' \in Seq(Octet)
    <3>1. \/ UNCHANGED cmd_id \/ cmd_id' = pico.val.val
      BY <1>2 DEF GotCmd, GotLen, GotArg
    <3>2. \/ UNCHANGED arg_len \/ arg_len' = pico.val.val
      BY <1>2 DEF GotCmd, GotLen, GotArg
    <3>3. \/ UNCHANGED args \/ args' = <<>> \/ args' = Append(args, pico.val.val)
      BY <1>2 DEF GotCmd, GotLen, GotArg
    <3>4. cmd_id \in Octet /\ arg_len \in Octet /\ args \in Seq(Octet)
      BY DEF PicoTyped
    <3>0. Append(args, pico.val.val) \in Seq(Octet) /\ <<>> \in Seq(Octet)
      BY <3>4
    <3>5. args' \in Seq(Octet)
      BY <3>0, <3>3, <3>4, Zenon
    <3> QED
      BY <3>1, <3>2, <3>4, <3>5
  <2>4. ppc \in {"cmd", "len", "args"} /\ ppc' \in {"len", "args", "exec"}
    BY <1>2 DEF GotCmd, GotLen, GotArg, ByteAt
  <2> QED
    BY <2>1, <2>2, <2>3, <2>4 DEF PicoTyped
<1>3. CASE WriteNext \/ WriteReturns
  <2>1. UNCHANGED <<cmd_id, arg_len, args, after, current_state, buf, remaining,
                    stream_file_is_open, file, fileName, fileData, dir, disk>>
    BY <1>3 DEF WriteNext, WriteReturns, requestVars, streamVars, diskVars
  <2>2. stream_file_is_open' \in BOOLEAN
    BY <2>1, Zenon DEF PicoTyped
  <2>3. out' \in Seq(Byte)
    <3>1. out \in Seq(Byte) /\ (UNCHANGED out \/ (out # <<>> /\ out' = Tail(out)))
      BY <1>3 DEF WriteNext, WriteReturns, PicoTyped
    <3> HIDE DEF Byte
    <3> QED
      BY <3>1
  <2>4. ppc = "send" /\ ppc' \in {after, "send"}
    BY <1>3 DEF WriteNext, WriteReturns, WriteCall
  <2> QED
    BY <2>1, <2>2, <2>3, <2>4 DEF PicoTyped
<1>4. CASE SaveByte \/ ForthByte
  <2>1. CASE KeepByte("save", "top") \/ (Left # 0 /\ FlushBuffer("save", "top"))
    BY <2>1, KeepsByteType
  <2>2. CASE WriteFails("save", "top") \/ WriteFails("forth", "forthLoop")
    BY <2>2, WriteFailsType
  <2>3. CASE KeepByte("forth", "forthLoop") \/ FlushBuffer("forth", "forthLoop")
    BY <2>3, KeepsByteType
  <2> QED
    BY <1>4, <2>1, <2>2, <2>3 DEF SaveByte, ForthByte
<1>5. CASE SaveLast
  <2>1. PICK ok \in CloseOutcomes :
               /\ CloseStream(fileData \o Filled, ok)
               /\ Answer(Response(IF ok THEN OK ELSE ERR, 0), "top")
    BY <1>5 DEF SaveLast
  <2>2. fileData \o Filled \in Seq(Octet)
    BY DEF Filled, PicoTyped
  <2>3. /\ disk' \in [Names -> Seq(Octet)] /\ dir' \subseteq Names /\ fileName' \in Names
        /\ stream_file_is_open' \in BOOLEAN
        /\ file' = "closed" /\ fileData' \in Seq(Octet) /\ current_state' = "IDLE"
    BY <2>1, <2>2, CloseStreamType
  <2>4. \E s \in {OK, ERR} : out' = Response(s, 0) /\ ppc' = "send" /\ after' = "top"
    BY <2>1 DEF Answer
  <2>5. out' \in Seq(Byte)
    BY <2>4, StreamCapType, ResponseType, ConstantTypes
  <2>6. remaining' \in 0..StreamCap /\ buf' \in Seq(Octet) /\ UNCHANGED <<cmd_id, arg_len, args>>
    BY <1>5, StreamCapType DEF SaveLast, Streamed, Left, requestVars
  <2> QED
    BY <2>3, <2>4, <2>5, <2>6 DEF PicoTyped
<1>6. CASE LoadByte
  <2>1. ASSUME NEW b \in Seq(Octet), NEW f \in Seq(Octet), b # <<>>,
               remaining <= Len(b) + Len(f), buf' = Tail(b), fileData' = f,
               Answer(Tagged("data", <<Head(b)>>), "top")
        PROVE  PicoTyped'
    <3>1. buf' \in Seq(Octet) /\ Len(buf') = Len(b) - 1 /\ Head(b) \in Octet
      BY <2>1
    <3>2. out' \in Seq(Byte) /\ ppc' = "send" /\ after' = "top"
      BY <2>1, <3>1, OneByte DEF Answer
    <3>3. UNCHANGED <<cmd_id, arg_len, args, current_state, stream_file_is_open, file,
                      fileName, dir, disk>>
      BY <1>6 DEF LoadByte, requestVars, diskVars
    <3>4. stream_file_is_open' \in BOOLEAN
      BY <3>3, Zenon DEF PicoTyped
    <3>5. remaining \in Nat /\ remaining' = remaining - 1 /\ remaining' \in 0..StreamCap
          /\ current_state = "LOADMEM"
      BY <1>6, StreamCapType DEF LoadByte, PicoTyped
    <3>6. remaining' <= Len(buf') + Len(fileData')
      BY <2>1, <3>1, <3>5
    <3> QED
      BY <2>1, <3>1, <3>2, <3>3, <3>4, <3>5, <3>6 DEF PicoTyped
  <2>2. PICK r \in Refills :
         /\ buf' = Tail(r[1]) /\ fileData' = r[2]
         /\ Answer(Tagged("data", <<Head(r[1])>>), "top")
    BY <1>6 DEF LoadByte
  <2>3. /\ r[1] \in Seq(Octet) /\ r[1] # <<>> /\ r[2] \in Seq(Octet)
        /\ remaining <= Len(r[1]) + Len(r[2])
    BY <1>6, RefillsType DEF LoadByte
  <2> QED
    BY <2>1, <2>2, <2>3
<1>7. CASE LoadDone
  <2>1. /\ disk' \in [Names -> Seq(Octet)] /\ dir' \subseteq Names /\ fileName' \in Names
        /\ stream_file_is_open' \in BOOLEAN
        /\ file' = "closed" /\ fileData' \in Seq(Octet) /\ current_state' = "IDLE"
    BY <1>7, CloseStreamType DEF LoadDone, PicoTyped
  <2>2. UNCHANGED <<ppc, cmd_id, arg_len, args, out, after, buf, remaining>> /\ ppc = "top"
    BY <1>7 DEF LoadDone, requestVars
  <2> QED
    BY <2>1, <2>2 DEF PicoTyped
<1>8. CASE ForthDone
  <2>1. PICK ok \in CloseOutcomes : CloseStream(fileData, ok)
    BY <1>8 DEF ForthDone
  <2>2. /\ disk' \in [Names -> Seq(Octet)] /\ dir' \subseteq Names /\ fileName' \in Names
        /\ stream_file_is_open' \in BOOLEAN
        /\ file' = "closed" /\ fileData' \in Seq(Octet) /\ current_state' = "IDLE"
    BY <2>1, CloseStreamType DEF PicoTyped
  <2>3. out' = Response(OK, 0) /\ ppc' = "send" /\ after' = "top"
    BY <1>8 DEF ForthDone, Answer
  <2>4. out' \in Seq(Byte)
    BY <2>3, StreamCapType, ResponseType, ConstantTypes
  <2>5. UNCHANGED <<cmd_id, arg_len, args, buf, remaining>>
    BY <1>8 DEF ForthDone, requestVars
  <2> QED
    BY <2>2, <2>3, <2>4, <2>5 DEF PicoTyped
<1> QED
  BY <1>1, <1>2, <1>3, <1>4, <1>5, <1>6, <1>7, <1>8 DEF PicoTask

\* Every step of the Pico keeps its own types, whatever those of the 65C02 are,
LEMMA PicoKeepsOwnType ==
  ASSUME LinkTypeOK, PicoTyped, WorldTyped, WriteCall, PicoStep
  PROVE  LinkTypeOK' /\ PicoTyped' /\ WriteCall'
<1>1. LinkTypeOK' /\ WriteCall'
  <2>1. \/ UNCHANGED <<host, pico>> /\ ppc # "send"
        \/ PicoRead /\ ppc' # "send"
        \/ PicoReturn
        \/ (\E b \in Byte : PicoWrite(b)) /\ ppc' = "send"
    <3>1. CASE WriteNext
      <4>1. Head(out) \in Byte
        BY <3>1 DEF WriteNext, PicoTyped
      <4> QED
        BY <3>1, <4>1 DEF WriteNext
    <3>2. CASE AwaitByte
      BY <3>2 DEF AwaitByte, PicoReads, picoVars
    <3>3. CASE Exec
      BY <3>3 DEF Exec, ExecStat, ExecListSize,
           ExecList, ExecOther, ExecSavemem, ExecLoadmem, ExecForthRead, ExecForthWrite, Handles
    <3>4. CASE TopIdle \/ TopSave \/ LoadByte \/ LoadDone \/ TopForth \/ ForthMore \/ ForthDone
      BY <3>4 DEF TopIdle, TopSave, LoadByte, LoadDone, TopForth, ForthMore, ForthDone
    <3>5. CASE GotCmd \/ GotLen \/ GotArg \/ WriteReturns \/ SaveByte \/ SaveLast \/ ForthByte
      BY <3>5 DEF GotCmd, GotLen, GotArg, WriteReturns, SaveByte, SaveLast, ForthByte, KeepByte,
           FlushBuffer, WriteFails, Streamed, ByteAt
    <3> QED
      BY <3>1, <3>2, <3>3, <3>4, <3>5 DEF PicoStep
  <2>2. LinkTypeOK'
    BY <2>1, CallsType DEF LinkTypeOK
  <2>3. WriteCall'
    BY <2>1 DEF PicoRead, PicoReturn, PicoWrite, WriteCall
  <2> QED
    BY <2>2, <2>3
<1>2. PicoTyped'
  <2>1. pico.val \in Byte /\ pico.val.val \in Octet
    BY CallsType
  <2>2. CASE AwaitByte
    <3>1. UNCHANGED picoVars /\ UNCHANGED worldVars
      BY <2>2 DEF AwaitByte, PicoOnly
    <3> QED
      BY <3>1, Zenon DEF PicoTyped, picoVars, requestVars, streamVars, diskVars
  <2>3. CASE Exec
    BY <2>3, ExecKeepsType
  <2>4. CASE PicoTask
    BY <2>1, <2>4, PicoTaskKeepsType
  <2> QED
    BY <2>2, <2>3, <2>4 DEF PicoStep, PicoTask
<1> QED
  BY <1>1, <1>2

\* and all of them.
LEMMA PicoKeepsType ==
  ASSUME Typed, PicoStep
  PROVE  Typed'
<1>1. HostTyped' /\ WorldTyped'
  <2>1. UNCHANGED hostVars /\ UNCHANGED worldVars
    BY DEF PicoStep, TopIdle, AwaitByte, GotCmd, GotLen, GotArg, ByteAt, Exec, ExecStat, ExecListSize,
           ExecList, ExecOther, ExecSavemem, ExecLoadmem, ExecForthRead, ExecForthWrite, Handles,
           WriteNext, WriteReturns, TopSave, SaveByte, SaveLast, LoadByte, LoadDone, TopForth,
           ForthMore, ForthByte, ForthDone, KeepByte, FlushBuffer, WriteFails, Streamed, PicoOnly
  <2> QED
    BY <2>1, HostStill
<1> QED
  BY <1>1, PicoKeepsOwnType DEF Typed

\* Two calls that meet keep the types.
LEMMA MeetKeepsType ==
  ASSUME Typed, Meet
  PROVE  Typed'
<1>1. UNCHANGED hostVars /\ UNCHANGED picoVars /\ UNCHANGED worldVars
  BY DEF Meet
<1>2. LinkTypeOK'
  BY CallsType DEF Meet, Typed
<1>3. WriteCall'
  BY DEF Meet, Exchange, Typed, WriteCall, picoVars
<1> QED
  BY <1>1, <1>2, <1>3, HostStill, PicoStill DEF Typed

\* At the start every variable has its type.
LEMMA InitTyped == Init => Typed
<1> SUFFICES ASSUME Init PROVE Typed
  OBVIOUS
<1>1. Nothing \in Byte
  BY ConstantTypes
<1>2. LinkTypeOK /\ WriteCall
  BY <1>1 DEF Init, LinkTypeOK, Call, WriteCall
<1>3. HostTyped
  BY DEF Init, HostTyped, OK, Octet
<1>4. WorldTyped
  BY Zenon DEF Init, WorldTyped
<1>5. stream_file_is_open \in BOOLEAN
  BY Zenon DEF Init
<1>6. disk \in [Names -> Seq(Octet)]
  <2>1. \A n \in Nat : \A d \in Memory(n) : d \in Seq(Octet)
    BY SessionAssumption DEF SessionAssumption, Memory
  <2>2. PICK f \in UNION {Memory(n) : n \in 0..MaxLen}, b \in Memory(ForthSize) :
       disk = [n \in Names |-> IF n \notin dir THEN <<>>
                               ELSE IF n = "file" THEN f ELSE b]
    BY DEF Init
  <2>3. f \in Seq(Octet) /\ b \in Seq(Octet) /\ <<>> \in Seq(Octet)
    BY <2>1, SessionAssumption DEF SessionAssumption
  <2> QED
    BY <2>2, <2>3
<1>7. PicoTyped
  BY <1>5, <1>6, StreamCapType DEF Init, PicoTyped, Octet, Names
<1> QED
  BY <1>2, <1>3, <1>4, <1>7 DEF Typed

\* No step changes a type.
LEMMA NextKeepsType ==
  ASSUME Typed, [Next]_vars
  PROVE  Typed'
<1>1. UNCHANGED vars => Typed'
  BY HostStill, PicoStill DEF vars, Typed, LinkTypeOK, WriteCall, picoVars
<1> QED
  BY <1>1, StartKeepsType, HostKeepsType, PicoKeepsType, MeetKeepsType DEF Next

\* Every variable keeps its type: the bytes on the bus are bytes, a stream
\* never has more left than its file and buffer hold, and each place of the
\* main loop goes with its state, whatever fails.
THEOREM TypeCorrect == Spec => []TypeOK
<1>1. Init => Typed
  BY InitTyped
<1>2. Typed /\ [Next]_vars => Typed'
  BY NextKeepsType
<1> QED
  BY <1>1, <1>2, TypedIsTypeOK, PTL DEF Spec
-----------------------------------------------------------------------------
(****************************************************************************)
(* The conversation: what each moment of a command looks like.              *)
(****************************************************************************)
\* What the theorems assume of the system.  In each case left out the code
\* does otherwise:
\* - No write fails in the middle of a stream.  SAVEMEM and FORTH then answer
\*   while the 65C02 still sends, and SAVEMEM takes the rest for commands
\*   (session_save_fails).
\* - If the write after the last byte may fail FORTH write does not run: it
\*   stays in its loop and gives a second answer, OK.
\* - RUN is not given a file of one byte, which the 65C02 does not read.
\* - A response holds two bytes, the size of a listing.
Undisturbed ==
    /\ "write" \notin Faults
    /\ "lastWrite" \in Faults => "forthWrite" \notin Programs
    /\ 1 \notin RunLengths
    /\ RespMax >= 2

\* The byte a call has received and not yet returned.
Met(side, op) == IF side.op = op /\ side.st = "met" THEN <<side.val>> ELSE <<>>
\* The byte a call offers and no one has taken.
Open(side, op) == IF side.op = op /\ side.st = "open" THEN <<side.val>> ELSE <<>>
\* The bytes under way to the Pico, in order: one that is received, one that is
\* offered, and those not yet offered.
ToPico == Met(pico, "read") \o Open(host, "send") \o hout
\* The bytes under way to the 65C02.
ToHost == Met(host, "read") \o Open(pico, "write") \o out

\* What the 65C02 reads next.
Expects == IF hpc = "request" THEN "status" ELSE IF hpc = "stream" THEN "fstatus" ELSE hpc
\* Where the Pico goes on when what it sends is sent.
Goes == IF ppc = "send" THEN after ELSE ppc

\* A side that calls a read or a write is at a place that reads or writes, and
\* one with bytes to send has not passed on.
Calls ==
    /\ host.op = "idle" => host.st = "open"
    /\ pico.op = "idle" => pico.st = "open"
    /\ host.op = "send" => hpc \in {"request", "stream"}
    /\ host.op = "read" => hpc \in DOMAIN HostReads
    /\ pico.op = "read" => ppc \in DOMAIN PicoReads
    /\ pico.op = "write" => ppc = "send"
    /\ hpc \in {"request", "stream"} => hout # <<>> \/ host.op = "send"
    /\ hpc \notin {"request", "stream"} => hout = <<>>
    /\ ppc = "send" => out # <<>> \/ pico.op = "write"
    /\ ppc # "send" => out = <<>>

\* Whose turn it is.  Bytes are under way in one direction only, the first of
\* them is the one its reader waits for, and when none is under way not both
\* sides wait for one.
Turns ==
    /\ ToPico = <<>> \/ ToHost = <<>>
    /\ ToPico # <<>> /\ Goes \in DOMAIN PicoReads => Head(ToPico).tag = PicoReads[Goes]
    /\ ToHost # <<>> => Expects \in DOMAIN HostReads /\ Head(ToHost).tag = HostReads[Expects]
    /\ ToPico = <<>> /\ ToHost = <<>> =>
         Expects \notin DOMAIN HostReads \/ Goes \notin DOMAIN PicoReads

\* The bytes of a stream.
Bytes(s) == Tagged("data", s)
\* The file a saving program writes.
Target == IF prog = "savemem" THEN "file" ELSE "block"
\* The programs that send a stream.
Saves == prog \in {"savemem", "forthWrite"}
\* The program loads a file, and its stream has been asked for.
Loads == prog \in {"loadmem", "run"} /\ cmd = Commands.loadmem
\* The arguments each program gives its command.
Arguments ==
    IF prog = "savemem" THEN <<SomeName, Len(data) % Base, Len(data) \div Base>>
    ELSE IF prog \in {"forthRead", "forthWrite"} THEN <<0, 0>>
    ELSE IF prog = "other" THEN <<>> ELSE <<SomeName>>

\* Nothing is left to stream and the main loop goes on to a command; LOADMEM
\* may have its file still open.
Home ==
    /\ remaining = 0
    /\ \/ Goes = "cmd" /\ current_state = "IDLE"
       \/ Goes = "top" /\ current_state \in {"IDLE", "LOADMEM"}
\* The main loop, while LOADMEM still sends.
LoadHome == Home \/ (Goes = "top" /\ current_state = "LOADMEM")
\* Where a stream is received: the main loop or its inner loop for FORTH, with
\* the file open for writing.
Saving ==
    /\ file = "write" /\ fileName = Target
    /\ \/ prog = "savemem" /\ current_state = "SAVEMEM" /\ Goes \in {"top", "save"}
       \/ prog = "forthWrite" /\ current_state = "FORTH" /\ Goes \in {"forthLoop", "forth"}
       \/ prog = "forthWrite" /\ current_state = "FORTH" /\ Goes = "top" /\ remaining > 0

\* What a save is to leave on the disk.  Whether FORTH can promise it depends
\* on the close of its file.
Stored == prog = "savemem" \/ "close" \notin Faults => disk[Target] = data
\* What LOADMEM is to deliver.
Whole == SubSeq(disk["file"], 1, AtMost(Len(disk["file"]), StreamCap))
\* What a FORTH read is to deliver.
Block == SubSeq(disk["block"] \o Zeros(ForthSize), 1, ForthSize)
\* The bytes delivered so far and those the Pico still holds or has to read
\* make the file, unless a read may fail.
Loaded(s) == "read" \notin Faults => s \o SubSeq(buf \o fileData, 1, remaining) = Whole
\* The payload that tells the size of the listing.
ListingSize == <<listing % Base, listing \div Base>>

\* The command is one of the program that runs.
CommandFits ==
    \/ prog = "none" /\ cmd = 0
    \/ prog = "savemem" /\ cmd = Commands.savemem
    \/ prog \in {"loadmem", "run"} /\ cmd \in {Commands.stat, Commands.loadmem}
    \/ prog = "dir" /\ cmd = Commands.listSize
    \/ prog = "dir" /\ cmd = Commands.list /\ listing < RespMax
    \/ prog = "catalog" /\ cmd = Commands.list
    \/ prog = "forthRead" /\ cmd = Commands.forthRead
    \/ prog = "forthWrite" /\ cmd = Commands.forthWrite
    \/ prog = "other" /\ cmd = Commands.other

\* What holds at every byte: the state of the main loop, its flag and the file
\* go together, and a save has the length its command can announce.
Setting ==
    /\ CommandFits
    /\ stream_file_is_open = (current_state # "IDLE")
    /\ stream_file_is_open = (file # "closed")
    /\ current_state = "LOADMEM" => file = "read"
    /\ prog = "savemem" => Len(data) \in 1..StreamCap
    /\ prog = "forthWrite" => Len(data) = ForthSize
    /\ prog = "run" /\ Expects \notin {"idle", "load"} /\ "file" \in dir => Len(disk["file"]) # 1

\* What an answer of status s, length n and payload ds says of the Pico: it
\* refused; it did a command without a stream; it opened a file for a save; or
\* it opened a file for a load, and the length counts what follows.
Told(s, n, ds) ==
    \/ s # OK /\ n = 0 /\ ds = <<>> /\ Home
    \/ /\ s = OK /\ Home /\ n = Len(ds)
       /\ \/ cmd = Commands.stat /\ n = 1
          \/ cmd = Commands.listSize /\ ds = ListingSize
          \/ cmd = Commands.list /\ n = listing
          \/ cmd = Commands.forthRead /\ n = ForthSize /\ ds = Block
    \/ /\ s = OK /\ n = 0 /\ ds = <<>> /\ Saves /\ Saving
       /\ remaining = Len(data) /\ fileData = <<>> /\ buf = <<>>
    \/ /\ s = OK /\ cmd = Commands.loadmem /\ n = Len(ds) + remaining /\ LoadHome
       /\ Loaded(ds) /\ (prog = "run" => n # 1)

\* The phases of a conversation.  Resting: no command is under way, and what
\* the last one promised is so.
Resting ==
    /\ Expects = "idle" /\ ToPico = <<>> /\ ToHost = <<>> /\ Home
    /\ Saves /\ status = OK => Stored
    /\ Loads /\ status = OK /\ (prog = "run" => cnt = 0) => Loaded(got)
    /\ prog = "forthRead" /\ status = OK => got = Block

\* The request travels: its three parts, then the handler starts.
Requesting == Expects = "status" /\ ToHost = <<>> /\ got = <<>>
\* No byte of the request has been read.
Asking == Requesting /\ Home /\ ToPico = Request(cmd, Arguments)
\* The Pico has the command and waits for the length.
AtLen ==
    /\ Requesting /\ remaining = 0 /\ Goes = "len" /\ cmd_id = cmd
    /\ ToPico = Tagged("len", <<Len(Arguments)>>) \o Tagged("arg", Arguments)
\* The Pico waits for arguments: those it has and those under way are the
\* arguments of the program.
AtArgs ==
    /\ Requesting /\ remaining = 0 /\ Goes = "args" /\ cmd_id = cmd /\ arg_len = Len(Arguments)
    /\ \E rest \in Seq(Octet) : rest # <<>> /\ args \o rest = Arguments /\ ToPico = Tagged("arg", rest)
\* The Pico has the whole request.
AtExec ==
    /\ Requesting /\ remaining = 0 /\ Goes = "exec" /\ cmd_id = cmd /\ arg_len = Len(Arguments)
    /\ args = Arguments /\ ToPico = <<>>

\* The answer travels: status, length, and what follows them.
Answering == ToPico = <<>> /\ got = <<>>
\* No byte of the answer has been read.
AtStatus ==
    /\ Answering /\ Expects = "status"
    /\ \E s \in Octet, n \in 0..StreamCap, ds \in Seq(Octet) :
         Told(s, n, ds) /\ ToHost = Response(s, n) \o Bytes(ds)
\* The 65C02 has the status.
AtLo ==
    /\ Answering /\ Expects = "lo"
    /\ \E n \in 0..StreamCap, ds \in Seq(Octet) :
         Told(status, n, ds) /\ ToHost = Length(n) \o Bytes(ds)
\* The 65C02 has the low byte of the length.
AtHi ==
    /\ Answering /\ Expects = "hi"
    /\ \E n \in 0..StreamCap, ds \in Seq(Octet) :
         /\ Told(status, n, ds) /\ cnt = n % Base
         /\ ToHost = Tagged("hi", <<n \div Base>>) \o Bytes(ds)

\* A payload travels, and its length is what the 65C02 counts.
Receiving ==
    /\ Expects = "payload" /\ ToPico = <<>> /\ status = OK /\ Home
    /\ cmd \in {Commands.stat, Commands.listSize, Commands.list, Commands.forthRead}
    /\ prog # "catalog"
    /\ \E ds \in Seq(Octet) :
         /\ ToHost = Bytes(ds) /\ cnt = Len(ds) /\ ds # <<>>
         /\ cmd = Commands.listSize => got \o ds = ListingSize
         /\ cmd = Commands.forthRead => got \o ds = Block
\* A stream travels to the 65C02, which counts what is under way and what the
\* Pico has left.
Loading ==
    /\ Expects = "load" /\ ToPico = <<>> /\ status = OK /\ cnt > 0
    /\ \E ds \in Seq(Octet) :
         /\ ToHost = Bytes(ds) /\ cnt = Len(ds) + remaining
         /\ \/ prog = "catalog" /\ Home
            \/ Loads /\ LoadHome /\ Loaded(got \o ds)
\* A stream travels to the Pico: what is written, kept and under way is the
\* data of the save, and the Pico counts what is under way.
Streaming ==
    /\ Expects = "fstatus" /\ ToHost = <<>> /\ status = OK /\ Saves /\ Saving
    /\ \E ds \in Seq(Octet) :
         /\ ToPico = Bytes(ds) /\ remaining = Len(ds)
         /\ fileData \o buf \o ds = data
         /\ remaining = 0 => buf = <<>>

\* The final answer to a save travels.
Ending == ToPico = <<>> /\ Home /\ Saves
\* No byte of the final answer has been read.
AtFinalStatus ==
    /\ Ending /\ Expects = "fstatus"
    /\ \E s \in Octet : (s = OK => Stored) /\ ToHost = Response(s, 0)
\* The 65C02 has the final status.
AtFinalLo == Ending /\ Expects = "flo" /\ (status = OK => Stored) /\ ToHost = Length(0)
\* The 65C02 has the low byte of the final length.
AtFinalHi == Ending /\ Expects = "fhi" /\ (status = OK => Stored) /\ ToHost = Tagged("hi", <<0>>)

\* A conversation is always in one of its phases.
Phase ==
    \/ Resting \/ Asking \/ AtLen \/ AtArgs \/ AtExec
    \/ AtStatus \/ AtLo \/ AtHi \/ Receiving \/ Loading
    \/ Streaming \/ AtFinalStatus \/ AtFinalLo \/ AtFinalHi
\* The tags bytes carry, and none.
Tags == {"none", "cmd", "len", "arg", "status", "lo", "hi", "data"}

\* Taking the byte at the head of a queue leaves the rest.
LEMMA PopOne ==
  ASSUME NEW t \in Tags, NEW v \in Octet, NEW rest \in Seq(Byte)
  PROVE  /\ Tagged(t, <<v>>) \o rest \in Seq(Byte)
         /\ Tagged(t, <<v>>) \o rest # <<>>
         /\ Head(Tagged(t, <<v>>) \o rest) = [tag |-> t, val |-> v]
         /\ Tail(Tagged(t, <<v>>) \o rest) = rest
<1>1. Tagged(t, <<v>>) = <<[tag |-> t, val |-> v]>> /\ [tag |-> t, val |-> v] \in Byte
  BY OneByte DEF Tags
<1> HIDE DEF Byte
<1> DEFINE b == [tag |-> t, val |-> v]
<1>2. b \in Byte
  BY <1>1
<1> HIDE DEF b
<1>3. <<b>> \o rest \in Seq(Byte) /\ <<b>> \o rest # <<>> /\ Head(<<b>> \o rest) = b
      /\ Tail(<<b>> \o rest) = rest
  BY <1>2
<1> QED
  BY <1>1, <1>3 DEF b

\* A concatenation, position by position.
LEMMA Concat ==
  ASSUME NEW S, NEW p \in Seq(S), NEW q \in Seq(S)
  PROVE  /\ p \o q \in Seq(S) /\ Len(p \o q) = Len(p) + Len(q)
         /\ \A i \in 1..Len(p) : (p \o q)[i] = p[i]
         /\ \A i \in 1..Len(q) : (p \o q)[Len(p) + i] = q[i]
OBVIOUS

\* Sequences of one length that agree everywhere are equal.
LEMMA SameSeq ==
  ASSUME NEW S, NEW p \in Seq(S), NEW q \in Seq(S), Len(p) = Len(q),
         \A i \in 1..Len(p) : p[i] = q[i]
  PROVE  p = q
OBVIOUS

\* Tagging distributes over concatenation.
LEMMA TaggedConcat ==
  ASSUME NEW t \in Tags, NEW s \in Seq(Octet), NEW u \in Seq(Octet)
  PROVE  Tagged(t, s \o u) = Tagged(t, s) \o Tagged(t, u)
<1> DEFINE p == Tagged(t, s)
           q == Tagged(t, u)
           w == Tagged(t, s \o u)
<1>1. /\ s \o u \in Seq(Octet) /\ Len(s \o u) = Len(s) + Len(u)
      /\ \A i \in 1..Len(s) : (s \o u)[i] = s[i]
      /\ \A i \in 1..Len(u) : (s \o u)[Len(s) + i] = u[i]
  BY Concat
<1>2. p \in Seq(Byte) /\ Len(p) = Len(s) /\ \A i \in 1..Len(s) : p[i] = [tag |-> t, val |-> s[i]]
  BY TaggedType DEF Tags
<1>3. q \in Seq(Byte) /\ Len(q) = Len(u) /\ \A i \in 1..Len(u) : q[i] = [tag |-> t, val |-> u[i]]
  BY TaggedType DEF Tags
<1>4. w \in Seq(Byte) /\ Len(w) = Len(s \o u)
      /\ \A i \in 1..Len(s \o u) : w[i] = [tag |-> t, val |-> (s \o u)[i]]
  BY <1>1, TaggedType DEF Tags
<1> HIDE DEF p, q, w, Byte
<1>5. /\ p \o q \in Seq(Byte) /\ Len(p \o q) = Len(p) + Len(q)
      /\ \A i \in 1..Len(p) : (p \o q)[i] = p[i]
      /\ \A i \in 1..Len(q) : (p \o q)[Len(p) + i] = q[i]
  <2>1. p \in Seq(Byte) /\ q \in Seq(Byte)
    BY <1>2, <1>3
  <2> QED
    BY <2>1, Concat
<1>6. ASSUME NEW i \in 1..Len(w) PROVE w[i] = (p \o q)[i]
  <2>1. Len(s) \in Nat /\ Len(u) \in Nat /\ i \in 1..Len(s \o u) /\ i \in Nat
    BY <1>4
  <2>2. CASE i <= Len(s)
    <3>1. i \in 1..Len(s)
      BY <2>1, <2>2
    <3> QED
      BY <3>1, <2>1, <1>1, <1>2, <1>4, <1>5
  <2>3. CASE i > Len(s)
    <3> DEFINE j == i - Len(s)
    <3>1. j \in 1..Len(u) /\ i = Len(s) + j
      BY <2>1, <2>3, <1>1
    <3> HIDE DEF j
    <3>2. (p \o q)[i] = q[j]
      BY <3>1, <1>2, <1>3, <1>5
    <3>3. (s \o u)[i] = u[j]
      BY <3>1, <1>1
    <3>4. w[i] = [tag |-> t, val |-> (s \o u)[i]]
      BY <1>4, <2>1
    <3> QED
      BY <3>1, <3>2, <3>3, <3>4, <1>3
  <2>4. i <= Len(s) \/ i > Len(s)
    BY <2>1
  <2> QED
    BY <2>2, <2>3, <2>4, Zenon
<1>7. Len(w) = Len(p \o q)
  BY <1>1, <1>2, <1>3, <1>4, <1>5
<1>8. w = p \o q
  BY <1>4, <1>5, <1>6, <1>7, SameSeq
<1> QED
  BY <1>8 DEF p, q, w

\* A tagged sequence is empty only if the sequence is.
LEMMA TaggedSeq ==
  ASSUME NEW t \in Tags, NEW s \in Seq(Octet)
  PROVE  /\ Tagged(t, s) \in Seq(Byte)
         /\ Len(Tagged(t, s)) = Len(s)
         /\ Tagged(t, <<>>) = <<>>
         /\ Tagged(t, s) = <<>> <=> s = <<>>
<1>0. \A u \in Seq(Octet) : Tagged(t, u) \in Seq(Byte) /\ Len(Tagged(t, u)) = Len(u)
  BY TaggedType DEF Tags
<1> HIDE DEF Byte
<1>1. <<>> \in Seq(Octet) /\ Len(<<>>) = 0
  OBVIOUS
<1>2. Tagged(t, <<>>) \in Seq(Byte) /\ Len(Tagged(t, <<>>)) = 0
  BY <1>0, <1>1
<1>3. Tagged(t, <<>>) = <<>>
  BY <1>2
<1> QED
  BY <1>0, <1>3

\* A tagged sequence begins with the tagged head.
LEMMA TaggedHead ==
  ASSUME NEW t \in Tags, NEW s \in Seq(Octet), s # <<>>
  PROVE  /\ Tagged(t, s) = Tagged(t, <<Head(s)>>) \o Tagged(t, Tail(s))
         /\ Head(s) \in Octet /\ Tail(s) \in Seq(Octet)
<1>1. Head(s) \in Octet /\ Tail(s) \in Seq(Octet) /\ <<Head(s)>> \in Seq(Octet)
      /\ s = <<Head(s)>> \o Tail(s)
  OBVIOUS
<1>2. Tagged(t, <<Head(s)>> \o Tail(s)) = Tagged(t, <<Head(s)>>) \o Tagged(t, Tail(s))
  BY <1>1, TaggedConcat
<1> QED
  BY <1>1, <1>2

\* A byte appended to a stream.
LEMMA BytesAppend ==
  ASSUME NEW s \in Seq(Octet), NEW v \in Octet
  PROVE  Bytes(s) \o Tagged("data", <<v>>) = Bytes(Append(s, v)) /\ Append(s, v) \in Seq(Octet)
<1>1. Append(s, v) = s \o <<v>> /\ <<v>> \in Seq(Octet) /\ Append(s, v) \in Seq(Octet)
  OBVIOUS
<1>2. "data" \in Tags
  BY DEF Tags
<1>3. Tagged("data", s \o <<v>>) = Tagged("data", s) \o Tagged("data", <<v>>)
  BY <1>1, <1>2, TaggedConcat
<1> QED
  BY <1>1, <1>3 DEF Bytes
-----------------------------------------------------------------------------
(****************************************************************************)
(* The link: bytes are moved, and nothing else.                             *)
(****************************************************************************)
\* Facts about concatenation the provers find for plain variables only.
LEMMA SeqFacts ==
  ASSUME NEW S, NEW p \in Seq(S), NEW q \in Seq(S), NEW r \in Seq(S)
  PROVE  /\ p \o <<>> = p /\ <<>> \o p = p
         /\ (p \o q) \o r = p \o (q \o r)
         /\ p # <<>> => p = <<Head(p)>> \o Tail(p) /\ Head(p) \in S /\ Tail(p) \in Seq(S)
         /\ p \o q = <<>> => p = <<>> /\ q = <<>>
OBVIOUS

\* A byte in front of a sequence is its head.
LEMMA Cons ==
  ASSUME NEW S, NEW v \in S, NEW r \in Seq(S)
  PROVE  /\ <<v>> \o r # <<>> /\ Head(<<v>> \o r) = v /\ Tail(<<v>> \o r) = r
         /\ <<v>> \in Seq(S)
OBVIOUS

\* The parts of the two queues are sequences of bytes.
LEMMA PartTypes ==
  ASSUME Typed
  PROVE  /\ Met(pico, "read") \in Seq(Byte) /\ Open(host, "send") \in Seq(Byte) /\ hout \in Seq(Byte)
         /\ Met(host, "read") \in Seq(Byte) /\ Open(pico, "write") \in Seq(Byte) /\ out \in Seq(Byte)
         /\ host.val \in Byte /\ pico.val \in Byte
         /\ host.st \in {"open", "met"} /\ pico.st \in {"open", "met"}
         /\ host.op \in {"idle", "send", "read"} /\ pico.op \in {"idle", "read", "write"}
<1> HIDE DEF Byte
<1>1. /\ host.val \in Byte /\ pico.val \in Byte
      /\ host.st \in {"open", "met"} /\ pico.st \in {"open", "met"}
      /\ host.op \in {"idle", "send", "read"} /\ pico.op \in {"idle", "read", "write"}
  BY DEF Typed, LinkTypeOK, Call
<1>2. hout \in Seq(Byte) /\ out \in Seq(Byte)
  BY DEF Typed, HostTyped, PicoTyped
<1> QED
  BY <1>1, <1>2 DEF Met, Open

\* The two queues are sequences of bytes.
LEMMA QueueTypes ==
  ASSUME Typed
  PROVE  ToPico \in Seq(Byte) /\ ToHost \in Seq(Byte)
<1> HIDE DEF Byte
<1> QED
  BY PartTypes DEF ToPico, ToHost

\* Facing calls: who sends and who reads.
LEMMA Facing ==
  ASSUME Typed, Calls, Turns, Calling(host), Calling(pico)
  PROVE  \/ /\ host.op = "send" /\ pico.op = "read"
            /\ Head(ToPico) = host.val /\ ToPico # <<>> /\ Goes = ppc /\ Goes \in DOMAIN PicoReads
         \/ /\ host.op = "read" /\ pico.op = "write"
            /\ Head(ToHost) = pico.val /\ ToHost # <<>> /\ Expects = hpc
<1> HIDE DEF Byte
<1>0. PICK hv \in Byte, pv \in Byte : hv = host.val /\ pv = pico.val
  BY PartTypes
<1>1. hout \in Seq(Byte) /\ out \in Seq(Byte)
  BY PartTypes
<1>2. host.st = "open" /\ pico.st = "open" /\ host.op \in {"send", "read"} /\ pico.op \in {"read", "write"}
  BY PartTypes DEF Calling
<1>3. host.op = "send" => ToPico # <<>> /\ (pico.op = "read" => Head(ToPico) = host.val)
  <2> SUFFICES ASSUME host.op = "send" PROVE ToPico # <<>> /\ Head(ToPico) = host.val
    OBVIOUS
  <2>1. ToPico = (<<>> \o <<hv>>) \o hout
    BY <1>0, <1>2 DEF ToPico, Met, Open
  <2>2. ToPico = <<hv>> \o hout
    BY <2>1, <1>1, <1>0
  <2> QED
    BY <2>2, <1>0, <1>1, Cons
<1>4. pico.op = "write" => ToHost # <<>> /\ Head(ToHost) = pico.val
  <2> SUFFICES ASSUME pico.op = "write" PROVE ToHost # <<>> /\ Head(ToHost) = pico.val
    OBVIOUS
  <2>1. ToHost = (<<>> \o <<pv>>) \o out
    BY <1>0, <1>2 DEF ToHost, Met, Open
  <2>2. ToHost = <<pv>> \o out
    BY <2>1, <1>1, <1>0
  <2> QED
    BY <2>2, <1>0, <1>1, Cons
<1>5. host.op = "read" => hpc \in DOMAIN HostReads /\ hout = <<>> /\ Expects = hpc
  BY DEF Calls, HostReads, Expects
<1>6. pico.op = "read" => ppc \in DOMAIN PicoReads /\ out = <<>> /\ Goes = ppc
  BY DEF Calls, PicoReads, Goes
<1>7. host.op = "read" /\ pico.op = "read" => FALSE
  <2> SUFFICES ASSUME host.op = "read", pico.op = "read" PROVE FALSE
    OBVIOUS
  <2>1. Met(pico, "read") = <<>> /\ Open(host, "send") = <<>> /\ Met(host, "read") = <<>>
        /\ Open(pico, "write") = <<>>
    BY <1>2 DEF Met, Open
  <2>2. ToPico = <<>> /\ ToHost = <<>>
    BY <2>1, <1>5, <1>6 DEF ToPico, ToHost
  <2> QED
    BY <2>2, <1>5, <1>6 DEF Turns
<1> QED
  BY <1>2, <1>3, <1>4, <1>5, <1>6, <1>7 DEF Turns

\* When turns are kept, two calls that face each other are a send and a read of
\* the same kind of byte.
LEMMA CallsAreMatched ==
  ASSUME Typed, Calls, Turns
  PROVE  CallsMatched
<1> SUFFICES ASSUME Calling(host), Calling(pico)
             PROVE  \/ host.op = "send" /\ pico.op = "read" /\ PicoReads[ppc] = host.val.tag
                    \/ host.op = "read" /\ pico.op = "write" /\ HostReads[hpc] = pico.val.tag
  BY DEF CallsMatched
<1> QED
  BY Facing DEF Turns

\* The steps of the link.
LinkStep == SendNext \/ SendReturns \/ ReadNext \/ AwaitByte \/ WriteNext \/ WriteReturns \/ Meet

\* What the phases speak of.
view == <<Expects, Goes, ToPico, ToHost, prog, cmd, data, got, status, cnt,
          requestVars, streamVars, diskVars, worldVars>>

\* The calls of the 65C02 move a byte within its queue and change nothing else.
LEMMA HostLinkKeeps ==
  ASSUME Typed, Calls, SendNext \/ SendReturns \/ ReadNext
  PROVE  Calls' /\ UNCHANGED <<Expects, Goes, ToPico, ToHost>>
<1> HIDE DEF Byte
<1>1. UNCHANGED <<pico, ppc, out, after>>
  BY DEF SendNext, SendReturns, ReadNext, HostSend, HostReturn, HostRead, picoVars
<1>2. Goes' = Goes /\ Met(pico, "read")' = Met(pico, "read") /\ Open(pico, "write")' = Open(pico, "write")
  BY <1>1 DEF Goes, Met, Open
<1>3. CASE SendNext
  <2>1. host.op = "idle" /\ host' = [op |-> "send", val |-> Head(hout), st |-> "open"]
        /\ hout # <<>> /\ hout' = Tail(hout) /\ hpc' = hpc /\ hpc \in {"request", "stream"}
    BY <1>3 DEF SendNext, HostSend
  <2>2. Open(host, "send") = <<>> /\ Open(host, "send")' = <<Head(hout)>>
        /\ Met(host, "read") = <<>> /\ Met(host, "read")' = <<>>
    BY <2>1 DEF Open, Met
  <2>3. ToHost' = ToHost
    BY <2>2, <1>1, <1>2 DEF ToHost
  <2>4. ToPico' = ToPico
    <3> DEFINE mp == Met(pico, "read")
               h == Head(hout)
               t == Tail(hout)
    <3>0. mp \in Seq(Byte) /\ hout \in Seq(Byte)
      BY PartTypes
    <3>1. hout = <<h>> \o t /\ h \in Byte /\ t \in Seq(Byte) /\ <<h>> \in Seq(Byte)
      BY <2>1, <3>0
    <3>2. ToPico = (mp \o <<>>) \o hout /\ ToPico' = (mp \o <<h>>) \o t
      BY <2>1, <2>2, <1>2 DEF ToPico
    <3> HIDE DEF mp, h, t
    <3>3. (mp \o <<h>>) \o t = mp \o (<<h>> \o t)
      BY <3>0, <3>1, SeqFacts
    <3>4. mp \o <<>> = mp
      BY <3>0, SeqFacts
    <3> QED
      BY <3>1, <3>2, <3>3, <3>4
  <2>5. Calls'
    BY <2>1, <1>1 DEF Calls
  <2> QED
    BY <2>1, <2>3, <2>4, <2>5, <1>2 DEF Expects
<1>4. CASE SendReturns
  <2>1. host.op = "send" /\ host.st = "met" /\ host' = [op |-> "idle", val |-> host.val, st |-> "open"]
        /\ hout' = hout /\ hpc \in {"request", "stream"}
        /\ hpc' = IF hout # <<>> THEN hpc
                  ELSE IF hpc = "request" THEN "status" ELSE "fstatus"
    BY <1>4 DEF SendReturns, HostReturn, Calls
  <2>2. Open(host, "send") = <<>> /\ Open(host, "send")' = <<>>
        /\ Met(host, "read") = <<>> /\ Met(host, "read")' = <<>>
    BY <2>1 DEF Open, Met
  <2>3. ToHost' = ToHost /\ ToPico' = ToPico
    BY <2>1, <2>2, <1>1, <1>2 DEF ToHost, ToPico
  <2>4. Expects' = Expects
    BY <2>1 DEF Expects
  <2>5. Calls'
    BY <2>1, <1>1 DEF Calls
  <2> QED
    BY <2>3, <2>4, <2>5, <1>2
<1>5. CASE ReadNext
  <2>1. host.op = "idle" /\ host'.op = "read" /\ host'.st = "open" /\ hout' = hout /\ hpc' = hpc
        /\ hpc \in DOMAIN HostReads
    BY <1>5 DEF ReadNext, HostRead, hostVars
  <2>2. Open(host, "send") = <<>> /\ Open(host, "send")' = <<>>
        /\ Met(host, "read") = <<>> /\ Met(host, "read")' = <<>>
    BY <2>1 DEF Open, Met
  <2>3. ToHost' = ToHost /\ ToPico' = ToPico
    BY <2>1, <2>2, <1>1, <1>2 DEF ToHost, ToPico
  <2>5. Calls'
    BY <2>1, <1>1 DEF Calls, HostReads
  <2> QED
    BY <2>1, <2>3, <2>5, <1>2 DEF Expects
<1> QED
  BY <1>3, <1>4, <1>5

\* So do the calls of the Pico,
LEMMA PicoLinkKeeps ==
  ASSUME Typed, Calls, AwaitByte \/ WriteNext \/ WriteReturns
  PROVE  Calls' /\ UNCHANGED <<Expects, Goes, ToPico, ToHost>>
<1> HIDE DEF Byte
<1>1. UNCHANGED <<host, hpc, hout>>
  BY DEF AwaitByte, WriteNext, WriteReturns, PicoRead, PicoReturn, PicoWrite, PicoOnly, hostVars
<1>2. Expects' = Expects /\ Met(host, "read")' = Met(host, "read") /\ Open(host, "send")' = Open(host, "send")
  BY <1>1 DEF Expects, Met, Open
<1>3. CASE WriteNext
  <2>1. pico.op = "idle" /\ pico' = [op |-> "write", val |-> Head(out), st |-> "open"]
        /\ out # <<>> /\ out' = Tail(out) /\ ppc' = ppc /\ ppc = "send" /\ after' = after
    BY <1>3 DEF WriteNext, PicoWrite
  <2>2. Open(pico, "write") = <<>> /\ Open(pico, "write")' = <<Head(out)>>
        /\ Met(pico, "read") = <<>> /\ Met(pico, "read")' = <<>>
    BY <2>1 DEF Open, Met
  <2>3. ToPico' = ToPico
    BY <2>2, <1>1, <1>2 DEF ToPico
  <2>4. ToHost' = ToHost
    <3> DEFINE mh == Met(host, "read")
               h == Head(out)
               t == Tail(out)
    <3>0. mh \in Seq(Byte) /\ out \in Seq(Byte)
      BY PartTypes
    <3>1. out = <<h>> \o t /\ h \in Byte /\ t \in Seq(Byte) /\ <<h>> \in Seq(Byte)
      BY <2>1, <3>0
    <3>2. ToHost = (mh \o <<>>) \o out /\ ToHost' = (mh \o <<h>>) \o t
      BY <2>1, <2>2, <1>2 DEF ToHost
    <3> HIDE DEF mh, h, t
    <3>3. (mh \o <<h>>) \o t = mh \o (<<h>> \o t)
      BY <3>0, <3>1, SeqFacts
    <3>4. mh \o <<>> = mh
      BY <3>0, SeqFacts
    <3> QED
      BY <3>1, <3>2, <3>3, <3>4
  <2>5. Calls'
    BY <2>1, <1>1 DEF Calls
  <2> QED
    BY <2>1, <2>3, <2>4, <2>5, <1>2 DEF Goes
<1>4. CASE WriteReturns
  <2>1. pico.op = "write" /\ pico.st = "met" /\ pico' = [op |-> "idle", val |-> pico.val, st |-> "open"]
        /\ out' = out /\ ppc = "send" /\ after' = after
        /\ ppc' = IF out = <<>> THEN after ELSE "send"
    BY <1>4 DEF WriteReturns, PicoReturn, Calls
  <2>2. Open(pico, "write") = <<>> /\ Open(pico, "write")' = <<>>
        /\ Met(pico, "read") = <<>> /\ Met(pico, "read")' = <<>>
    BY <2>1 DEF Open, Met
  <2>3. ToHost' = ToHost /\ ToPico' = ToPico
    BY <2>1, <2>2, <1>1, <1>2 DEF ToHost, ToPico
  <2>4. Goes' = Goes /\ after \in {"top", "forthLoop"}
    BY <2>1 DEF Goes, Typed, PicoTyped
  <2>5. Calls'
    BY <2>1, <2>4, <1>1 DEF Calls
  <2> QED
    BY <2>3, <2>4, <2>5, <1>2
<1>5. CASE AwaitByte
  <2>1. pico.op = "idle" /\ pico'.op = "read" /\ pico'.st = "open" /\ out' = out /\ ppc' = ppc
        /\ ppc \in DOMAIN PicoReads /\ after' = after
    BY <1>5 DEF AwaitByte, PicoRead, picoVars
  <2>2. Open(pico, "write") = <<>> /\ Open(pico, "write")' = <<>>
        /\ Met(pico, "read") = <<>> /\ Met(pico, "read")' = <<>>
    BY <2>1 DEF Open, Met
  <2>3. ToHost' = ToHost /\ ToPico' = ToPico
    BY <2>1, <2>2, <1>1, <1>2 DEF ToHost, ToPico
  <2>5. Calls'
    BY <2>1, <1>1 DEF Calls, PicoReads
  <2> QED
    BY <2>1, <2>3, <2>5, <1>2 DEF Goes
<1> QED
  BY <1>3, <1>4, <1>5

\* and two calls that meet: the byte goes on to its reader.
LEMMA MeetKeeps ==
  ASSUME Typed, Calls, Turns, Meet
  PROVE  Calls' /\ UNCHANGED <<Expects, Goes, ToPico, ToHost>>
<1> HIDE DEF Byte
<1>1. UNCHANGED <<hpc, hout, ppc, out, after>>
  BY DEF Meet, hostVars, picoVars
<1>2. Expects' = Expects /\ Goes' = Goes
  BY <1>1 DEF Expects, Goes
<1>3. Calling(host) /\ Calling(pico)
  BY DEF Meet, Exchange, Calling
<1>4. host'.op = host.op /\ pico'.op = pico.op /\ host'.st = "met" /\ pico'.st = "met"
      /\ host.st = "open" /\ pico.st = "open"
  BY DEF Meet, Exchange
<1>5. hout \in Seq(Byte) /\ out \in Seq(Byte) /\ host.val \in Byte /\ pico.val \in Byte
  BY PartTypes
<1>6. ToPico' = ToPico /\ ToHost' = ToHost
  <2>1. CASE host.op = "send" /\ pico.op = "read"
    <3>1. pico'.val = host.val
      BY <2>1 DEF Meet, Exchange
    <3>2. /\ Met(pico, "read") = <<>> /\ Met(pico, "read")' = <<host.val>>
          /\ Open(host, "send") = <<host.val>> /\ Open(host, "send")' = <<>>
          /\ Met(host, "read") = <<>> /\ Met(host, "read")' = <<>>
          /\ Open(pico, "write") = <<>> /\ Open(pico, "write")' = <<>>
      BY <1>4, <2>1, <3>1 DEF Met, Open
    <3>3. <<host.val>> \in Seq(Byte)
      BY <1>5
    <3>4. <<host.val>> \o <<>> = <<host.val>> /\ <<>> \o <<host.val>> = <<host.val>>
      BY <3>3, SeqFacts
    <3> QED
      BY <3>2, <3>4, <1>1 DEF ToPico, ToHost
  <2>2. CASE host.op = "read" /\ pico.op = "write"
    <3>1. host'.val = pico.val
      BY <2>2 DEF Meet, Exchange
    <3>2. /\ Met(host, "read") = <<>> /\ Met(host, "read")' = <<pico.val>>
          /\ Open(pico, "write") = <<pico.val>> /\ Open(pico, "write")' = <<>>
          /\ Met(pico, "read") = <<>> /\ Met(pico, "read")' = <<>>
          /\ Open(host, "send") = <<>> /\ Open(host, "send")' = <<>>
      BY <1>4, <2>2, <3>1 DEF Met, Open
    <3>3. <<pico.val>> \in Seq(Byte)
      BY <1>5
    <3>4. <<pico.val>> \o <<>> = <<pico.val>> /\ <<>> \o <<pico.val>> = <<pico.val>>
      BY <3>3, SeqFacts
    <3> QED
      BY <3>2, <3>4, <1>1 DEF ToPico, ToHost
  <2> QED
    BY <1>3, <2>1, <2>2, Facing
<1>7. host'.op # "idle" /\ pico'.op # "idle"
  BY <1>3, <1>4 DEF Calling
<1>8. Calls'
  BY <1>1, <1>4, <1>7 DEF Calls
<1> QED
  BY <1>2, <1>6, <1>8

\* The link moves bytes and changes nothing the phases speak of.
LEMMA LinkKeepsView ==
  ASSUME Typed, Calls, Turns, LinkStep
  PROVE  Calls' /\ UNCHANGED view
<1>1. Calls' /\ UNCHANGED <<Expects, Goes, ToPico, ToHost>>
  BY HostLinkKeeps, PicoLinkKeeps, MeetKeeps DEF LinkStep
<1>2. UNCHANGED <<prog, cmd, data, got, status, cnt>>
  BY DEF LinkStep, SendNext, SendReturns, ReadNext, AwaitByte, WriteNext, WriteReturns, Meet, hostVars, PicoOnly
<1>3. UNCHANGED requestVars /\ UNCHANGED streamVars /\ UNCHANGED diskVars /\ UNCHANGED worldVars
  BY DEF LinkStep, SendNext, SendReturns, ReadNext, AwaitByte, WriteNext, WriteReturns, Meet, picoVars, PicoOnly
<1> QED
  BY <1>1, <1>2, <1>3 DEF view
-----------------------------------------------------------------------------
(****************************************************************************)
(* What a step must keep.                                                   *)
(****************************************************************************)
\* What the promises depend on.
ground == <<Goes, prog, cmd, data, current_state, buf, remaining, stream_file_is_open,
            file, fileName, fileData, dir, disk, listing>>

\* What is promised depends on the ground only.
LEMMA GroundKeeps ==
  ASSUME UNCHANGED ground
  PROVE  /\ Home' = Home /\ LoadHome' = LoadHome /\ Saving' = Saving /\ Stored' = Stored
         /\ Block' = Block /\ Loads' = Loads /\ Saves' = Saves /\ Arguments' = Arguments
         /\ ListingSize' = ListingSize /\ CommandFits' = CommandFits
         /\ \A s : Loaded(s) => Loaded(s)'
         /\ \A s, n, ds : Told(s, n, ds) => Told(s, n, ds)'
<1>1. UNCHANGED <<Goes, prog, cmd, data, current_state, buf, remaining, stream_file_is_open,
                  file, fileName, fileData, dir, disk, listing>>
  BY DEF ground
<1>2. Home' = Home /\ LoadHome' = LoadHome /\ Saving' = Saving
  BY <1>1 DEF Home, LoadHome, Saving, Target
<1>3. Stored' = Stored /\ Block' = Block
  BY <1>1 DEF Stored, Target, Block
<1>4. Loads' = Loads /\ Saves' = Saves /\ Arguments' = Arguments
      /\ ListingSize' = ListingSize /\ CommandFits' = CommandFits
  BY <1>1 DEF Loads, Saves, Arguments, ListingSize, CommandFits
<1>5. \A s : Loaded(s) => Loaded(s)'
  BY <1>1 DEF Loaded, Whole
<1>6. \A s, n, ds : Told(s, n, ds) => Told(s, n, ds)'
  BY <1>1, <1>2, <1>3, <1>4, <1>5 DEF Told
<1> QED
  BY <1>2, <1>3, <1>4, <1>5, <1>6

\* A phase depends on the view only.
LEMMA ViewKeeps ==
  ASSUME Setting, Phase, UNCHANGED view
  PROVE  Setting' /\ Phase'
<1>1. UNCHANGED <<Expects, Goes, ToPico, ToHost, prog, cmd, data, got, status, cnt,
                  cmd_id, arg_len, args, current_state, buf, remaining, stream_file_is_open,
                  file, fileName, fileData, dir, disk, fs_mounted, listing>>
  BY DEF view, requestVars, streamVars, diskVars, worldVars
<1>0. UNCHANGED ground
  BY <1>1 DEF ground
<1>2. Setting'
  BY <1>0, <1>1, GroundKeeps DEF Setting
<1>3. (Resting => Resting') /\ (Asking => Asking') /\ (AtLen => AtLen')
  <2>1. Loaded(got) => Loaded(got)'
    BY <1>1 DEF Loaded, Whole
  <2>2. Resting => Resting'
    BY <1>0, <1>1, <2>1, GroundKeeps DEF Resting
  <2>0. Arguments' = Arguments /\ Home' = Home
    BY <1>0, GroundKeeps
  <2>3. (Asking => Asking') /\ (AtLen => AtLen')
    BY <1>1, <2>0 DEF Requesting, Asking, AtLen
  <2> QED
    BY <2>2, <2>3
<1>4. (AtArgs => AtArgs') /\ (AtExec => AtExec')
  BY <1>0, <1>1, GroundKeeps DEF Requesting, AtArgs, AtExec
<1>5. (AtStatus => AtStatus') /\ (AtLo => AtLo') /\ (AtHi => AtHi')
  BY <1>0, <1>1, GroundKeeps DEF Answering, AtStatus, AtLo, AtHi
<1>6. (Receiving => Receiving') /\ (Loading => Loading')
  BY <1>0, <1>1, GroundKeeps DEF Receiving, Loading
<1>7. (Streaming => Streaming') /\ (AtFinalStatus => AtFinalStatus')
  BY <1>0, <1>1, GroundKeeps DEF Streaming, Ending, AtFinalStatus
<1>8. (AtFinalLo => AtFinalLo') /\ (AtFinalHi => AtFinalHi')
  BY <1>0, <1>1, GroundKeeps DEF Ending, AtFinalLo, AtFinalHi
<1> QED
  BY <1>2, <1>3, <1>4, <1>5, <1>6, <1>7, <1>8 DEF Phase

\* What a returning read takes from the queue.
LEMMA HostTakes ==
  ASSUME Typed, Calls, Turns, hpc \in DOMAIN HostReads, host.op = "read", HostReturn,
         UNCHANGED picoVars, hout' \in Seq(Byte)
  PROVE  /\ ToPico = <<>> /\ ToHost # <<>> /\ host.val = Head(ToHost)
         /\ ToHost' = Tail(ToHost) /\ ToPico' = hout' /\ Goes' = Goes
         /\ hout = <<>>
         /\ (hpc' \in {"request", "stream"} <=> hout' # <<>>) => Calls'
<1> HIDE DEF Byte
<1>1. host.st = "met" /\ host' = [op |-> "idle", val |-> host.val, st |-> "open"]
      /\ pico' = pico /\ UNCHANGED <<ppc, out, after>>
  BY DEF HostReturn, picoVars
<1>2. Met(host, "read") = <<host.val>> /\ Met(host, "read")' = <<>> /\ Open(host, "send") = <<>>
      /\ Open(host, "send")' = <<>> /\ Open(pico, "write")' = Open(pico, "write")
      /\ Met(pico, "read")' = Met(pico, "read")
  BY <1>1 DEF Met, Open
<1> DEFINE w == Open(pico, "write")
<1>3. w \in Seq(Byte) /\ out \in Seq(Byte) /\ host.val \in Byte /\ hout \in Seq(Byte)
      /\ Met(pico, "read") \in Seq(Byte)
  BY PartTypes
<1>4. ToHost = (<<host.val>> \o w) \o out /\ ToHost' = (<<>> \o w) \o out
  BY <1>1, <1>2 DEF ToHost
<1> HIDE DEF w
<1>5. w \o out \in Seq(Byte) /\ <<>> \o w = w
  BY <1>3
<1>6. (<<host.val>> \o w) \o out = <<host.val>> \o (w \o out)
  BY <1>3
<1>7. ToHost # <<>> /\ Head(ToHost) = host.val /\ Tail(ToHost) = w \o out
  <2>1. ToHost = <<host.val>> \o (w \o out)
    BY <1>4, <1>6
  <2> QED
    BY <1>3, <1>5, <2>1, Cons
<1>8. ToPico = <<>>
  BY <1>7 DEF Turns
<1>9. Met(pico, "read") = <<>> /\ hout = <<>>
  BY <1>2, <1>3, <1>8 DEF ToPico
<1>10. ToPico' = hout'
  <2>1. ToPico' = (<<>> \o <<>>) \o hout'
    BY <1>2, <1>9 DEF ToPico
  <2> QED
    BY <2>1
<1>11. Goes' = Goes
  BY <1>1 DEF Goes
<1>12. ASSUME hpc' \in {"request", "stream"} <=> hout' # <<>> PROVE Calls'
  BY <1>1, <1>12 DEF Calls
<1> QED
  BY <1>4, <1>5, <1>7, <1>8, <1>9, <1>10, <1>11, <1>12

\* What a byte the Pico reads does to the queues.
LEMMA PicoTakes ==
  ASSUME Typed, Calls, Turns, NEW pc \in DOMAIN PicoReads, ByteAt(pc), out' \in Seq(Byte)
  PROVE  /\ ToHost = <<>> /\ ToPico # <<>> /\ pico.val = Head(ToPico) /\ Goes = pc
         /\ ToPico' = Tail(ToPico) /\ ToHost' = out' /\ Expects' = Expects
         /\ out = <<>>
         /\ (ppc' = "send" <=> out' # <<>>) => Calls'
<1> HIDE DEF Byte
<1>1. pico.st = "met" /\ pico.op = "read" /\ pico' = [op |-> "idle", val |-> pico.val, st |-> "open"]
      /\ host' = host /\ UNCHANGED <<hpc, hout>> /\ ppc = pc
  BY DEF ByteAt, PicoReturn, PicoOnly, hostVars
<1>2. Met(pico, "read") = <<pico.val>> /\ Met(pico, "read")' = <<>> /\ Open(pico, "write") = <<>>
      /\ Open(pico, "write")' = <<>> /\ Open(host, "send")' = Open(host, "send")
      /\ Met(host, "read")' = Met(host, "read")
  BY <1>1 DEF Met, Open
<1> DEFINE w == Open(host, "send")
<1>3. w \in Seq(Byte) /\ hout \in Seq(Byte) /\ pico.val \in Byte /\ out \in Seq(Byte)
      /\ Met(host, "read") \in Seq(Byte)
  BY PartTypes
<1>4. ToPico = (<<pico.val>> \o w) \o hout /\ ToPico' = (<<>> \o w) \o hout
  BY <1>1, <1>2 DEF ToPico
<1> HIDE DEF w
<1>5. w \o hout \in Seq(Byte) /\ <<>> \o w = w
  BY <1>3
<1>6. (<<pico.val>> \o w) \o hout = <<pico.val>> \o (w \o hout)
  BY <1>3
<1>7. ToPico # <<>> /\ Head(ToPico) = pico.val /\ Tail(ToPico) = w \o hout
  <2>1. ToPico = <<pico.val>> \o (w \o hout)
    BY <1>4, <1>6
  <2> QED
    BY <1>3, <1>5, <2>1, Cons
<1>8. ToHost = <<>>
  BY <1>7 DEF Turns
<1>9. Met(host, "read") = <<>> /\ out = <<>>
  BY <1>2, <1>3, <1>8 DEF ToHost
<1>10. ToHost' = out'
  <2>1. ToHost' = (<<>> \o <<>>) \o out'
    BY <1>2, <1>9 DEF ToHost
  <2> QED
    BY <2>1
<1>11. Expects' = Expects /\ Goes = pc
  BY <1>1 DEF Expects, Goes, PicoReads
<1>12. ASSUME ppc' = "send" <=> out' # <<>> PROVE Calls'
  BY <1>1, <1>12 DEF Calls
<1> QED
  BY <1>4, <1>5, <1>7, <1>8, <1>9, <1>10, <1>11, <1>12

\* A step of the Pico between two calls: what it writes is queued.
LEMMA PicoWorks ==
  ASSUME Typed, Calls, ppc \in {"top", "exec", "forthLoop"}, UNCHANGED <<host, pico, hostVars>>,
         out' \in Seq(Byte)
  PROVE  /\ ToPico' = ToPico /\ Expects' = Expects /\ out = <<>> /\ Goes = ppc
         /\ ToHost = <<>> => ToHost' = out'
         /\ ToHost' = ToHost \o out'
         /\ (ppc' = "send" <=> out' # <<>>) => Calls'
<1> HIDE DEF Byte
<1>1. host' = host /\ pico' = pico /\ UNCHANGED <<hpc, hout>> /\ pico.op = "idle" /\ out = <<>>
  <2>1. pico.op \in {"idle", "read", "write"}
    BY PartTypes
  <2> QED
    BY <2>1 DEF Calls, hostVars, PicoReads
<1>2. Met(pico, "read")' = Met(pico, "read") /\ Open(pico, "write") = <<>>
      /\ Open(pico, "write")' = <<>> /\ Open(host, "send")' = Open(host, "send")
      /\ Met(host, "read")' = Met(host, "read")
  BY <1>1 DEF Met, Open
<1> DEFINE m == Met(host, "read")
<1>3. m \in Seq(Byte)
  BY PartTypes
<1>4. ToHost = (m \o <<>>) \o <<>> /\ ToHost' = (m \o <<>>) \o out'
  BY <1>1, <1>2 DEF ToHost
<1> HIDE DEF m
<1>5. m \o <<>> = m
  BY <1>3
<1>6. ToHost = m /\ ToHost' = ToHost \o out'
  BY <1>4, <1>5
<1>7. ToHost = <<>> => ToHost' = out'
  BY <1>6
<1>8. ToPico' = ToPico /\ Expects' = Expects /\ Goes = ppc
  BY <1>1, <1>2 DEF ToPico, Expects, Goes
<1>9. ASSUME ppc' = "send" <=> out' # <<>> PROVE Calls'
  BY <1>1, <1>9 DEF Calls, PicoReads
<1> QED
  BY <1>1, <1>6, <1>7, <1>8, <1>9
-----------------------------------------------------------------------------
(****************************************************************************)
(* Requests, answers and streams, byte by byte.                             *)
(****************************************************************************)
\* Concatenation of bytes is associative.
LEMMA Assoc ==
  ASSUME NEW p \in Seq(Byte), NEW q \in Seq(Byte), NEW r \in Seq(Byte)
  PROVE  (p \o q) \o r = p \o (q \o r)
OBVIOUS

\* The heads and tails of an answer, byte after byte,
LEMMA AnswerHeads ==
  ASSUME NEW s \in Octet, NEW n \in 0..StreamCap, NEW rest \in Seq(Byte)
  PROVE  /\ Response(s, n) \o rest # <<>>
         /\ Head(Response(s, n) \o rest) = [tag |-> "status", val |-> s]
         /\ Tail(Response(s, n) \o rest) = Length(n) \o rest
         /\ Length(n) \o rest # <<>>
         /\ Head(Length(n) \o rest) = [tag |-> "lo", val |-> n % Base]
         /\ Tail(Length(n) \o rest) = Tagged("hi", <<n \div Base>>) \o rest
         /\ Tagged("hi", <<n \div Base>>) \o rest # <<>>
         /\ Head(Tagged("hi", <<n \div Base>>) \o rest) = [tag |-> "hi", val |-> n \div Base]
         /\ Tail(Tagged("hi", <<n \div Base>>) \o rest) = rest
<1>1. n % Base \in Octet /\ n \div Base \in Octet
  BY LengthBytes
<1>2. "status" \in Tags /\ "lo" \in Tags /\ "hi" \in Tags
  BY DEF Tags
<1> DEFINE a == Tagged("status", <<s>>)
           l == Tagged("lo", <<n % Base>>)
           h == Tagged("hi", <<n \div Base>>)
<1>3. a \in Seq(Byte) /\ l \in Seq(Byte) /\ h \in Seq(Byte)
  BY <1>1, OneByte
<1>4. Length(n) \in Seq(Byte) /\ Length(n) = l \o h /\ Response(s, n) = a \o Length(n)
  BY LengthType DEF Length, Response
<1> HIDE DEF Byte, a, l, h
<1>5. Response(s, n) \o rest = a \o (Length(n) \o rest) /\ Length(n) \o rest = l \o (h \o rest)
      /\ h \o rest \in Seq(Byte) /\ Length(n) \o rest \in Seq(Byte)
  <2> DEFINE ln == Length(n)
  <2>1. ln \in Seq(Byte) /\ ln = l \o h /\ Response(s, n) = a \o ln
    BY <1>4
  <2> HIDE DEF ln
  <2>2. (a \o ln) \o rest = a \o (ln \o rest)
    BY <1>3, <2>1, Assoc
  <2>3. (l \o h) \o rest = l \o (h \o rest)
    BY <1>3, Assoc
  <2>4. h \o rest \in Seq(Byte) /\ ln \o rest \in Seq(Byte)
    BY <1>3, <2>1
  <2> QED
    BY <2>1, <2>2, <2>3, <2>4 DEF ln
<1>6. h \o rest # <<>> /\ Head(h \o rest) = [tag |-> "hi", val |-> n \div Base] /\ Tail(h \o rest) = rest
  BY <1>1, <1>2, PopOne DEF h
<1>7. l \o (h \o rest) # <<>> /\ Head(l \o (h \o rest)) = [tag |-> "lo", val |-> n % Base]
      /\ Tail(l \o (h \o rest)) = h \o rest
  BY <1>1, <1>2, <1>5, PopOne DEF l
<1>8. a \o (Length(n) \o rest) # <<>>
      /\ Head(a \o (Length(n) \o rest)) = [tag |-> "status", val |-> s]
      /\ Tail(a \o (Length(n) \o rest)) = Length(n) \o rest
  BY <1>2, <1>5, PopOne DEF a
<1>9. Tagged("hi", <<n \div Base>>) = h
  BY DEF h
<1> QED
  BY <1>5, <1>6, <1>7, <1>8, <1>9

\* of the final answer to a save,
LEMMA FinalHeads ==
  ASSUME NEW s \in Octet
  PROVE  /\ Response(s, 0) # <<>>
         /\ Head(Response(s, 0)) = [tag |-> "status", val |-> s]
         /\ Tail(Response(s, 0)) = Length(0)
         /\ Length(0) # <<>>
         /\ Head(Length(0)).tag = "lo"
         /\ Tail(Length(0)) = Tagged("hi", <<0>>)
         /\ Tagged("hi", <<0>>) # <<>>
         /\ Head(Tagged("hi", <<0>>)).tag = "hi"
         /\ Tail(Tagged("hi", <<0>>)) = <<>>
<1>1. 0 \in 0..StreamCap /\ 0 \div Base = 0 /\ 0 \in Octet
  BY StreamCapType, SessionAssumption DEF SessionAssumption, Octet
<1>2. Response(s, 0) \in Seq(Byte) /\ Length(0) \in Seq(Byte) /\ Tagged("hi", <<0>>) \in Seq(Byte)
  BY <1>1, ResponseType, LengthType, OneByte
<1> HIDE DEF Byte
<1>3. Response(s, 0) \o <<>> = Response(s, 0) /\ Length(0) \o <<>> = Length(0)
      /\ Tagged("hi", <<0>>) \o <<>> = Tagged("hi", <<0>>) /\ <<>> \in Seq(Byte)
  BY <1>2
<1>4. /\ Response(s, 0) \o <<>> # <<>>
      /\ Head(Response(s, 0) \o <<>>) = [tag |-> "status", val |-> s]
      /\ Tail(Response(s, 0) \o <<>>) = Length(0) \o <<>>
      /\ Length(0) \o <<>> # <<>>
      /\ Head(Length(0) \o <<>>) = [tag |-> "lo", val |-> 0 % Base]
      /\ Tail(Length(0) \o <<>>) = Tagged("hi", <<0 \div Base>>) \o <<>>
      /\ Tagged("hi", <<0 \div Base>>) \o <<>> # <<>>
      /\ Head(Tagged("hi", <<0 \div Base>>) \o <<>>) = [tag |-> "hi", val |-> 0 \div Base]
      /\ Tail(Tagged("hi", <<0 \div Base>>) \o <<>>) = <<>>
  BY <1>1, <1>3, AnswerHeads, Zenon
<1>5. Tagged("hi", <<0 \div Base>>) = Tagged("hi", <<0>>)
  BY <1>1
<1>6. Head(Length(0)).tag = "lo" /\ Head(Tagged("hi", <<0>>)).tag = "hi"
  BY <1>3, <1>4, <1>5
<1> QED
  BY <1>3, <1>4, <1>5, <1>6, Zenon

\* of a request,
LEMMA RequestHeads ==
  ASSUME NEW c \in Octet, NEW bs \in Seq(Octet), Len(bs) <= 255
  PROVE  /\ Request(c, bs) # <<>>
         /\ Head(Request(c, bs)) = [tag |-> "cmd", val |-> c]
         /\ Tail(Request(c, bs)) = Tagged("len", <<Len(bs)>>) \o Tagged("arg", bs)
         /\ Tagged("len", <<Len(bs)>>) \o Tagged("arg", bs) # <<>>
         /\ Head(Tagged("len", <<Len(bs)>>) \o Tagged("arg", bs)) = [tag |-> "len", val |-> Len(bs)]
         /\ Tail(Tagged("len", <<Len(bs)>>) \o Tagged("arg", bs)) = Tagged("arg", bs)
<1>1. Len(bs) \in Octet
  BY DEF Octet
<1>2. "cmd" \in Tags /\ "len" \in Tags /\ "arg" \in Tags
  BY DEF Tags
<1> DEFINE a == Tagged("cmd", <<c>>)
           l == Tagged("len", <<Len(bs)>>)
           h == Tagged("arg", bs)
<1>3. a \in Seq(Byte) /\ l \in Seq(Byte) /\ h \in Seq(Byte)
  BY <1>1, <1>2, OneByte, TaggedSeq
<1>4. Request(c, bs) = (a \o l) \o h
  BY DEF Request
<1> HIDE DEF Byte, a, l, h
<1>5. Request(c, bs) = a \o (l \o h) /\ l \o h \in Seq(Byte)
  BY <1>3, <1>4, SeqFacts
<1>6. l \o h # <<>> /\ Head(l \o h) = [tag |-> "len", val |-> Len(bs)] /\ Tail(l \o h) = h
  BY <1>1, <1>2, <1>3, PopOne DEF l
<1>7. a \o (l \o h) # <<>> /\ Head(a \o (l \o h)) = [tag |-> "cmd", val |-> c]
      /\ Tail(a \o (l \o h)) = l \o h
  BY <1>2, <1>5, PopOne DEF a
<1> QED
  BY <1>5, <1>6, <1>7 DEF l, h

\* and of a stream.
LEMMA StreamHeads ==
  ASSUME NEW t \in Tags, NEW s \in Seq(Octet), s # <<>>
  PROVE  /\ Tagged(t, s) # <<>> /\ Head(Tagged(t, s)) = [tag |-> t, val |-> Head(s)]
         /\ Tail(Tagged(t, s)) = Tagged(t, Tail(s))
<1>1. /\ Tagged(t, s) = Tagged(t, <<Head(s)>>) \o Tagged(t, Tail(s))
      /\ Head(s) \in Octet /\ Tail(s) \in Seq(Octet)
  BY TaggedHead
<1>2. Tagged(t, Tail(s)) \in Seq(Byte)
  BY <1>1, TaggedSeq
<1>3. /\ Tagged(t, <<Head(s)>>) \o Tagged(t, Tail(s)) # <<>>
      /\ Head(Tagged(t, <<Head(s)>>) \o Tagged(t, Tail(s))) = [tag |-> t, val |-> Head(s)]
      /\ Tail(Tagged(t, <<Head(s)>>) \o Tagged(t, Tail(s))) = Tagged(t, Tail(s))
  BY <1>1, <1>2, PopOne, Zenon
<1> QED
  BY <1>1, <1>3, Zenon

\* The arguments of a request fit it.
LEMMA ArgumentsType ==
  ASSUME Typed, Setting
  PROVE  Arguments \in Seq(Octet) /\ Len(Arguments) \in Octet /\ Len(Arguments) <= 255 /\ cmd \in Octet
<1>1. prog = "savemem" => Len(data) % Base \in Octet /\ Len(data) \div Base \in Octet
  <2> SUFFICES ASSUME prog = "savemem" PROVE Len(data) % Base \in Octet /\ Len(data) \div Base \in Octet
    OBVIOUS
  <2>1. Len(data) \in 0..StreamCap
    BY StreamCapType DEF Setting
  <2> QED
    BY <2>1, LengthBytes
<1>2. cmd \in Octet
  BY DEF Setting, CommandFits, Commands, Octet
<1>3. 0 \in Octet /\ SomeName \in Octet
  BY DEF SomeName, Octet
<1>4. Arguments \in Seq(Octet) /\ Len(Arguments) <= 3
  <2>1. CASE prog = "savemem"
    <3>1. Arguments = <<SomeName, Len(data) % Base, Len(data) \div Base>>
      BY <2>1 DEF Arguments
    <3> QED
      BY <1>1, <1>3, <2>1, <3>1
  <2>2. CASE prog # "savemem"
    BY <1>3, <2>2 DEF Arguments
  <2> QED
    BY <2>1, <2>2
<1>5. Len(Arguments) \in Nat
  BY <1>4
<1> QED
  BY <1>2, <1>4, <1>5 DEF Octet

\* A status is a byte.
LEMMA StatusType == Typed => status \in Octet
BY DEF Typed, HostTyped

\* In every phase each side waits for the byte that comes.
LEMMA PhaseGivesTurns ==
  ASSUME Typed, Setting, Phase
  PROVE  Turns
<1> USE DEF HostReads, PicoReads
<1>0. "data" \in Tags /\ "arg" \in Tags
  BY DEF Tags
<1>1. CASE Resting
  BY <1>1 DEF Resting, Turns
<1>2. CASE Asking
  <2>0. Request(cmd, Arguments) # <<>> /\ Head(Request(cmd, Arguments)) = [tag |-> "cmd", val |-> cmd]
    BY ArgumentsType, RequestHeads, Zenon
  <2>1. ToPico # <<>> /\ Head(ToPico).tag = "cmd"
    BY <1>2, <2>0 DEF Asking
  <2> QED
    BY <1>2, <2>1 DEF Asking, Requesting, Home, Turns
<1>3. CASE AtLen
  <2>0. /\ Tagged("len", <<Len(Arguments)>>) \o Tagged("arg", Arguments) # <<>>
        /\ Head(Tagged("len", <<Len(Arguments)>>) \o Tagged("arg", Arguments))
             = [tag |-> "len", val |-> Len(Arguments)]
    BY ArgumentsType, RequestHeads, Zenon
  <2>1. ToPico # <<>> /\ Head(ToPico).tag = "len"
    BY <1>3, <2>0 DEF AtLen
  <2> QED
    BY <1>3, <2>1 DEF AtLen, Requesting, Turns
<1>4. CASE AtArgs
  <2>1. ToPico # <<>> /\ Head(ToPico).tag = "arg"
    BY <1>0, <1>4, StreamHeads DEF AtArgs
  <2> QED
    BY <1>4, <2>1 DEF AtArgs, Requesting, Turns
<1>5. CASE AtExec
  BY <1>5 DEF AtExec, Requesting, Turns
<1>6. CASE AtStatus \/ AtLo \/ AtHi
  <2>1. ToPico = <<>>
    BY <1>6 DEF AtStatus, AtLo, AtHi, Answering
  <2>2. \A ds \in Seq(Octet) : Bytes(ds) \in Seq(Byte)
    BY <1>0, TaggedSeq DEF Bytes
  <2>3. AtStatus => Expects = "status" /\ ToHost # <<>> /\ Head(ToHost).tag = "status"
    <3> SUFFICES ASSUME AtStatus PROVE Expects = "status" /\ ToHost # <<>> /\ Head(ToHost).tag = "status"
      OBVIOUS
    <3>1. PICK s \in Octet, n \in 0..StreamCap, ds \in Seq(Octet) : ToHost = Response(s, n) \o Bytes(ds)
      BY DEF AtStatus
    <3>2. Response(s, n) \o Bytes(ds) # <<>>
          /\ Head(Response(s, n) \o Bytes(ds)) = [tag |-> "status", val |-> s]
      BY <2>2, AnswerHeads, Zenon
    <3>3. Expects = "status"
      BY DEF AtStatus
    <3> QED
      BY <3>1, <3>2, <3>3
  <2>4. AtLo => Expects = "lo" /\ ToHost # <<>> /\ Head(ToHost).tag = "lo"
    <3> SUFFICES ASSUME AtLo PROVE Expects = "lo" /\ ToHost # <<>> /\ Head(ToHost).tag = "lo"
      OBVIOUS
    <3>1. PICK n \in 0..StreamCap, ds \in Seq(Octet) : ToHost = Length(n) \o Bytes(ds)
      BY DEF AtLo
    <3>2. Length(n) \o Bytes(ds) # <<>>
          /\ Head(Length(n) \o Bytes(ds)) = [tag |-> "lo", val |-> n % Base]
      BY <2>2, StatusType, AnswerHeads, Zenon
    <3>3. Expects = "lo"
      BY DEF AtLo
    <3> QED
      BY <3>1, <3>2, <3>3
  <2>5. AtHi => Expects = "hi" /\ ToHost # <<>> /\ Head(ToHost).tag = "hi"
    <3> SUFFICES ASSUME AtHi PROVE Expects = "hi" /\ ToHost # <<>> /\ Head(ToHost).tag = "hi"
      OBVIOUS
    <3>1. PICK n \in 0..StreamCap, ds \in Seq(Octet) : ToHost = Tagged("hi", <<n \div Base>>) \o Bytes(ds)
      BY DEF AtHi
    <3>2. Tagged("hi", <<n \div Base>>) \o Bytes(ds) # <<>>
          /\ Head(Tagged("hi", <<n \div Base>>) \o Bytes(ds)) = [tag |-> "hi", val |-> n \div Base]
      BY <2>2, StatusType, AnswerHeads, Zenon
    <3>3. Expects = "hi"
      BY DEF AtHi
    <3> QED
      BY <3>1, <3>2, <3>3
  <2> QED
    BY <1>6, <2>1, <2>3, <2>4, <2>5 DEF Turns
<1>7. CASE Receiving
  <2>1. ToHost # <<>> /\ Head(ToHost).tag = "data"
    BY <1>0, <1>7, StreamHeads DEF Receiving, Bytes
  <2> QED
    BY <1>7, <2>1 DEF Receiving, Turns
<1>8. CASE Loading
  <2>1. PICK ds \in Seq(Octet) : ToHost = Bytes(ds) /\ cnt = Len(ds) + remaining /\ (Home \/ LoadHome)
    BY <1>8 DEF Loading
  <2>2. ds # <<>> => ToHost # <<>> /\ Head(ToHost).tag = "data"
    BY <1>0, <2>1, StreamHeads DEF Bytes
  <2>3. ds = <<>> => ToHost = <<>> /\ remaining > 0
    BY <1>0, <1>8, <2>1, TaggedSeq DEF Bytes, Loading, Typed, PicoTyped
  <2>4. remaining > 0 => Goes = "top"
    BY <2>1 DEF Home, LoadHome
  <2> QED
    BY <1>8, <2>2, <2>3, <2>4 DEF Loading, Turns
<1>9. CASE Streaming
  <2>1. PICK ds \in Seq(Octet) : ToPico = Bytes(ds) /\ remaining = Len(ds)
    BY <1>9 DEF Streaming
  <2>2. ds # <<>> => ToPico # <<>> /\ Head(ToPico).tag = "data"
    BY <1>0, <2>1, StreamHeads DEF Bytes
  <2>3. Goes \in {"top", "save", "forth", "forthLoop"}
    BY <1>9 DEF Streaming, Saving
  <2>4. ds = <<>> => remaining = 0
    BY <2>1
  <2>5. Goes \in {"save", "forth"} => remaining > 0
    BY DEF Goes, Typed, PicoTyped
  <2>6. ds = <<>> => ToPico = <<>>
    BY <1>0, <2>1, TaggedSeq DEF Bytes
  <2> QED
    BY <1>9, <2>2, <2>3, <2>4, <2>5, <2>6 DEF Streaming, Turns
<1>10. CASE AtFinalStatus \/ AtFinalLo \/ AtFinalHi
  <2>1. ToPico = <<>>
    BY <1>10 DEF AtFinalStatus, AtFinalLo, AtFinalHi, Ending
  <2>2. AtFinalStatus => Expects = "fstatus" /\ ToHost # <<>> /\ Head(ToHost).tag = "status"
    BY FinalHeads DEF AtFinalStatus
  <2>3. AtFinalLo => Expects = "flo" /\ ToHost # <<>> /\ Head(ToHost).tag = "lo"
    BY StatusType, FinalHeads DEF AtFinalLo
  <2>4. AtFinalHi => Expects = "fhi" /\ ToHost # <<>> /\ Head(ToHost).tag = "hi"
    BY StatusType, FinalHeads DEF AtFinalHi
  <2> QED
    BY <1>10, <2>1, <2>2, <2>3, <2>4 DEF Turns
<1> QED
  BY <1>1, <1>2, <1>3, <1>4, <1>5, <1>6, <1>7, <1>8, <1>9, <1>10 DEF Phase
-----------------------------------------------------------------------------
(****************************************************************************)
(* The 65C02 reads an answer.                                               *)
(****************************************************************************)
\* The inductive invariant.
Conversation == Typed /\ Calls /\ Setting /\ Phase

\* Which program gave which command.
LEMMA Fits ==
  ASSUME CommandFits
  PROVE  /\ cmd = Commands.stat => prog \in {"loadmem", "run"}
         /\ cmd = Commands.loadmem => prog \in {"loadmem", "run"}
         /\ cmd = Commands.listSize => prog = "dir"
         /\ cmd = Commands.list => prog = "catalog" \/ (prog = "dir" /\ listing < RespMax)
         /\ cmd = Commands.forthRead <=> prog = "forthRead"
         /\ cmd = Commands.savemem <=> prog = "savemem"
         /\ cmd = Commands.forthWrite <=> prog = "forthWrite"
         /\ cmd = Commands.other <=> prog = "other"
         /\ prog = "catalog" => cmd = Commands.list
         /\ prog \in {"loadmem", "run"} => cmd \in {Commands.stat, Commands.loadmem}
BY DEF CommandFits, Commands

\* The codes of the commands that have a payload differ.
LEMMA CommandsDiffer ==
  /\ Commands.stat \notin {Commands.loadmem, Commands.listSize, Commands.list, Commands.forthRead}
  /\ Commands.loadmem \notin {Commands.listSize, Commands.list, Commands.forthRead}
  /\ Commands.listSize \notin {Commands.list, Commands.forthRead}
  /\ Commands.list # Commands.forthRead
BY DEF Commands

\* An empty stream.
LEMMA NoBytes == Bytes(<<>>) = <<>> /\ <<>> \in Seq(Octet)
<1>1. <<>> \in Seq(Octet) /\ "data" \in Tags
  BY DEF Tags
<1> QED
  BY <1>1, TaggedSeq DEF Bytes

\* A step that leaves the ground alone keeps the setting.
LEMMA SettingKept ==
  ASSUME Setting, UNCHANGED ground,
         Expects \notin {"idle", "load"} \/ Expects' \in {"idle", "load"}
  PROVE  Setting'
<1>1. UNCHANGED <<prog, data, current_state, stream_file_is_open, file, dir, disk>> /\ CommandFits'
  BY GroundKeeps DEF ground, Setting
<1> QED
  BY <1>1 DEF Setting

\* The 65C02 reads a byte.
LEMMA HostReading ==
  ASSUME Conversation, Typed', NEW pcs \in SUBSET (DOMAIN HostReads), ReadReturns(pcs)
  PROVE  /\ ToPico = <<>> /\ ToHost # <<>> /\ host.val = Head(ToHost)
         /\ ToHost' = Tail(ToHost) /\ ToPico' = hout' /\ Goes' = Goes
         /\ hout = <<>> /\ Expects = hpc /\ hpc \in pcs
         /\ UNCHANGED <<prog, data, picoVars, worldVars>>
         /\ (hpc' \in {"request", "stream"} <=> hout' # <<>>) => Calls'
         /\ UNCHANGED cmd => UNCHANGED ground
<1>1. hpc \in pcs /\ host.op = "read" /\ HostReturn /\ UNCHANGED <<prog, data, picoVars, worldVars>>
  BY DEF ReadReturns
<1>2. UNCHANGED picoVars /\ hpc \in DOMAIN HostReads
  BY <1>1
<1>3. hout' \in Seq(Byte)
  BY DEF Typed, HostTyped
<1>4. Typed /\ Calls /\ Turns
  BY PhaseGivesTurns DEF Conversation
<1>5. /\ ToPico = <<>> /\ ToHost # <<>> /\ host.val = Head(ToHost)
      /\ ToHost' = Tail(ToHost) /\ ToPico' = hout' /\ Goes' = Goes
      /\ hout = <<>>
      /\ (hpc' \in {"request", "stream"} <=> hout' # <<>>) => Calls'
  BY <1>1, <1>2, <1>3, <1>4, HostTakes
<1>6. Expects = hpc
  BY <1>2 DEF Expects, HostReads
<1>7. UNCHANGED cmd => UNCHANGED ground
  BY <1>1, <1>5 DEF ground, picoVars, streamVars, diskVars, worldVars
<1> QED
  BY <1>1, <1>5, <1>6, <1>7

\* What the 65C02 waits for tells the phase.
LEMMA WhichPhase ==
  ASSUME Phase, ToHost # <<>>
  PROVE  /\ Expects = "status" => AtStatus
         /\ Expects = "lo" => AtLo
         /\ Expects = "hi" => AtHi
         /\ Expects = "payload" => Receiving
         /\ Expects = "load" => Loading
         /\ Expects = "fstatus" => AtFinalStatus
         /\ Expects = "flo" => AtFinalLo
         /\ Expects = "fhi" => AtFinalHi
BY DEF Phase, Resting, Requesting, Asking, AtLen, AtArgs, AtExec, Answering, AtStatus, AtLo, AtHi,
       Receiving, Loading, Streaming, Ending, AtFinalStatus, AtFinalLo, AtFinalHi

\* Reading the status leads to the next phase.
LEMMA GotStatusKeeps ==
  ASSUME Conversation, Typed', GotStatus
  PROVE  Calls' /\ Setting' /\ Phase'
<1>0. "data" \in Tags
  BY DEF Tags
<1>1. /\ ToPico = <<>> /\ ToHost # <<>> /\ host.val = Head(ToHost)
      /\ ToHost' = Tail(ToHost) /\ ToPico' = hout' /\ Goes' = Goes
      /\ hout = <<>> /\ Expects = hpc /\ hpc \in {"status", "fstatus"}
      /\ (hpc' \in {"request", "stream"} <=> hout' # <<>>) => Calls'
      /\ UNCHANGED cmd => UNCHANGED ground
  BY HostReading DEF GotStatus, HostReads
<1>2. status' = host.val.val /\ hpc' = (IF hpc = "status" THEN "lo" ELSE "flo")
      /\ UNCHANGED <<cmd, hout, got, cnt>>
  BY DEF GotStatus
<1>3. Calls' /\ UNCHANGED ground /\ ToPico' = <<>>
  BY <1>1, <1>2
<1>4. Expects' = hpc'
  BY <1>2 DEF Expects
<1>5. Setting'
  BY <1>1, <1>2, <1>3, <1>4, SettingKept DEF Conversation
<1>6. CASE hpc = "status"
  <2>1. AtStatus
    BY <1>1, <1>6, WhichPhase DEF Conversation
  <2>2. PICK s \in Octet, n \in 0..StreamCap, ds \in Seq(Octet) :
               Told(s, n, ds) /\ ToHost = Response(s, n) \o Bytes(ds)
    BY <2>1 DEF AtStatus
  <2>3. Bytes(ds) \in Seq(Byte)
    BY <1>0, TaggedSeq DEF Bytes
  <2>4. /\ Head(Response(s, n) \o Bytes(ds)) = [tag |-> "status", val |-> s]
        /\ Tail(Response(s, n) \o Bytes(ds)) = Length(n) \o Bytes(ds)
    BY <2>3, AnswerHeads, Zenon
  <2>5. status' = s /\ ToHost' = Length(n) \o Bytes(ds)
    BY <1>1, <1>2, <2>2, <2>4
  <2>6. Told(s, n, ds)'
    BY <1>3, <2>2, GroundKeeps
  <2>7. Told(status, n, ds)'
    BY <2>5, <2>6
  <2>8. Answering' /\ Expects' = "lo"
    BY <1>2, <1>3, <1>4, <1>6, <2>1 DEF AtStatus, Answering
  <2> QED
    BY <1>3, <1>5, <2>5, <2>7, <2>8 DEF AtLo, Phase
<1>7. CASE hpc = "fstatus"
  <2>1. AtFinalStatus
    BY <1>1, <1>7, WhichPhase DEF Conversation
  <2>2. PICK s \in Octet : (s = OK => Stored) /\ ToHost = Response(s, 0)
    BY <2>1 DEF AtFinalStatus
  <2>3. status' = s /\ ToHost' = Length(0)
    BY <1>1, <1>2, <2>2, FinalHeads
  <2>4. Ending' /\ (status' = OK => Stored')
    BY <1>3, <2>1, <2>2, <2>3, GroundKeeps DEF AtFinalStatus, Ending
  <2> QED
    BY <1>2, <1>3, <1>4, <1>5, <1>7, <2>3, <2>4 DEF AtFinalLo, Phase
<1> QED
  BY <1>1, <1>3, <1>5, <1>6, <1>7

\* Reading the low byte of a length does,
LEMMA GotLoKeeps ==
  ASSUME Conversation, Typed', GotLo
  PROVE  Calls' /\ Setting' /\ Phase'
<1>0. "data" \in Tags
  BY DEF Tags
<1>1. /\ ToPico = <<>> /\ ToHost # <<>> /\ host.val = Head(ToHost)
      /\ ToHost' = Tail(ToHost) /\ ToPico' = hout' /\ Goes' = Goes
      /\ hout = <<>> /\ Expects = hpc /\ hpc \in {"lo", "flo"}
      /\ (hpc' \in {"request", "stream"} <=> hout' # <<>>) => Calls'
      /\ UNCHANGED cmd => UNCHANGED ground
  BY HostReading DEF GotLo, HostReads
<1>2. UNCHANGED <<cmd, hout, got, status>>
      /\ (hpc = "lo" => cnt' = host.val.val /\ hpc' = "hi")
      /\ (hpc = "flo" => hpc' = "fhi")
  BY DEF GotLo
<1>3. Calls' /\ UNCHANGED ground /\ ToPico' = <<>>
  BY <1>1, <1>2
<1>4. Expects' = hpc'
  BY <1>1, <1>2 DEF Expects
<1>5. Setting'
  BY <1>1, <1>2, <1>3, <1>4, SettingKept DEF Conversation
<1>6. CASE hpc = "lo"
  <2>1. AtLo
    BY <1>1, <1>6, WhichPhase DEF Conversation
  <2>2. PICK n \in 0..StreamCap, ds \in Seq(Octet) :
               Told(status, n, ds) /\ ToHost = Length(n) \o Bytes(ds)
    BY <2>1 DEF AtLo
  <2>3. Bytes(ds) \in Seq(Byte) /\ status \in Octet
    BY <1>0, TaggedSeq, StatusType DEF Bytes, Conversation
  <2>4. /\ Head(Length(n) \o Bytes(ds)) = [tag |-> "lo", val |-> n % Base]
        /\ Tail(Length(n) \o Bytes(ds)) = Tagged("hi", <<n \div Base>>) \o Bytes(ds)
    BY <2>3, AnswerHeads, Zenon
  <2>5. cnt' = n % Base /\ ToHost' = Tagged("hi", <<n \div Base>>) \o Bytes(ds)
    <3>1. host.val = [tag |-> "lo", val |-> n % Base]
      BY <1>1, <2>2, <2>4
    <3>2. host.val.val = n % Base
      BY <3>1
    <3> QED
      BY <1>1, <1>2, <1>6, <2>2, <2>4, <3>2
  <2>6. Told(status, n, ds)'
    <3>1. \A s : Told(s, n, ds) => Told(s, n, ds)'
      BY <1>3, GroundKeeps
    <3>2. Told(status', n, ds) /\ status' = status
      BY <1>2, <2>2
    <3> QED
      BY <3>1, <3>2
  <2>8. Answering' /\ Expects' = "hi"
    BY <1>2, <1>3, <1>4, <1>6, <2>1 DEF AtLo, Answering
  <2> QED
    BY <1>3, <1>5, <2>5, <2>6, <2>8 DEF AtHi, Phase
<1>7. CASE hpc = "flo"
  <2>1. AtFinalLo
    BY <1>1, <1>7, WhichPhase DEF Conversation
  <2>2. ToHost' = Tagged("hi", <<0>>)
    BY <1>1, <2>1, FinalHeads, StatusType DEF AtFinalLo, Conversation
  <2>4. Ending' /\ (status' = OK => Stored')
    BY <1>2, <1>3, <2>1, GroundKeeps DEF AtFinalLo, Ending
  <2> QED
    BY <1>2, <1>3, <1>4, <1>5, <1>7, <2>2, <2>4 DEF AtFinalHi, Phase
<1> QED
  BY <1>1, <1>3, <1>5, <1>6, <1>7

\* and reading the end of a final answer: the program rests and its save is
\* stored.
LEMMA GotFinalHiKeeps ==
  ASSUME Conversation, Typed', GotFinalHi
  PROVE  Calls' /\ Setting' /\ Phase'
<1>1. /\ ToPico = <<>> /\ ToHost # <<>> /\ host.val = Head(ToHost)
      /\ ToHost' = Tail(ToHost) /\ ToPico' = hout' /\ Goes' = Goes
      /\ hout = <<>> /\ Expects = hpc /\ hpc \in {"fhi"}
      /\ (hpc' \in {"request", "stream"} <=> hout' # <<>>) => Calls'
      /\ UNCHANGED cmd => UNCHANGED ground
  BY HostReading DEF GotFinalHi, HostReads
<1>2. UNCHANGED <<cmd, hout, got, status, cnt>> /\ hpc' = "idle"
  BY DEF GotFinalHi
<1>3. Calls' /\ UNCHANGED ground /\ ToPico' = <<>>
  BY <1>1, <1>2
<1>4. Expects' = "idle"
  BY <1>2 DEF Expects
<1>5. Setting'
  BY <1>1, <1>3, <1>4, SettingKept DEF Conversation
<1>6. AtFinalHi
  BY <1>1, WhichPhase DEF Conversation
<1>7. ToHost' = <<>>
  BY <1>1, <1>6, FinalHeads, StatusType DEF AtFinalHi, Conversation
<1>8. Home' /\ Saves' /\ (status' = OK => Stored')
  BY <1>2, <1>3, <1>6, GroundKeeps DEF AtFinalHi, Ending
<1>9. prog' \notin {"loadmem", "run", "forthRead"}
  BY <1>8 DEF Saves
<1> QED
  BY <1>3, <1>4, <1>5, <1>7, <1>8, <1>9 DEF Phase, Resting, Loads

\* The high byte of a length, and what the answer says with it.
LEMMA AtHiReads ==
  ASSUME Conversation, AtHi, host.val = Head(ToHost), ToHost' = Tail(ToHost)
  PROVE  /\ got = <<>>
         /\ \E n \in 0..StreamCap, ds \in Seq(Octet) :
              /\ Told(status, n, ds) /\ cnt + Base * host.val.val = n
              /\ ToHost' = Bytes(ds)
<1>1. PICK n \in 0..StreamCap, ds \in Seq(Octet) :
             /\ Told(status, n, ds) /\ cnt = n % Base
             /\ ToHost = Tagged("hi", <<n \div Base>>) \o Bytes(ds)
  BY DEF AtHi
<1>2. Bytes(ds) \in Seq(Byte) /\ status \in Octet
  <2>1. "data" \in Tags
    BY DEF Tags
  <2> QED
    BY <2>1, TaggedSeq, StatusType DEF Bytes, Conversation
<1>3. /\ Head(Tagged("hi", <<n \div Base>>) \o Bytes(ds)) = [tag |-> "hi", val |-> n \div Base]
      /\ Tail(Tagged("hi", <<n \div Base>>) \o Bytes(ds)) = Bytes(ds)
  BY <1>2, AnswerHeads, Zenon
<1>4. host.val = [tag |-> "hi", val |-> n \div Base] /\ ToHost' = Bytes(ds)
  BY <1>1, <1>3
<1>5. host.val.val = n \div Base
  BY <1>4
<1>6. cnt + Base * host.val.val = n
  <2>1. (n % Base) + (Base * (n \div Base)) = n
    BY LengthDecoded
  <2> QED
    BY <1>1, <1>5, <2>1
<1> QED
  BY <1>1, <1>4, <1>6 DEF AtHi, Answering

\* What remains of a stream is a number.
LEMMA RemainingType == Conversation => remaining \in Nat /\ remaining \in 0..StreamCap
BY StreamCapType DEF Conversation, Typed, PicoTyped

\* The high byte of the length of a program that reads its answer itself:
\* CATALOG, LOADMEM and RUN.
LEMMA GotHiByHandKeeps ==
  ASSUME Conversation, Typed', GotHiByHand
  PROVE  Calls' /\ Setting' /\ Phase'
<1>1. /\ ToPico = <<>> /\ ToHost # <<>> /\ host.val = Head(ToHost)
      /\ ToHost' = Tail(ToHost) /\ ToPico' = hout' /\ Goes' = Goes
      /\ hout = <<>> /\ Expects = hpc /\ hpc \in {"hi"}
      /\ (hpc' \in {"request", "stream"} <=> hout' # <<>>) => Calls'
      /\ UNCHANGED cmd => UNCHANGED ground
  BY HostReading DEF GotHiByHand, HostReads
<1>2. UNCHANGED <<cmd, hout, got, status>> /\ cnt' = cnt + Base * host.val.val
      /\ hpc' = (IF status # OK \/ cnt' = 0 \/ (prog = "run" /\ cnt' < 2) THEN "idle" ELSE "load")
      /\ (prog = "catalog" \/ cmd = Commands.loadmem)
  BY DEF GotHiByHand, ByHand
<1>3. Calls' /\ UNCHANGED ground /\ ToPico' = <<>>
  BY <1>1, <1>2
<1>4. Expects' = hpc' /\ Expects' \in {"idle", "load"}
  BY <1>2 DEF Expects
<1>5. Setting'
  BY <1>1, <1>3, <1>4, SettingKept DEF Conversation
<1>6. AtHi /\ CommandFits
  BY <1>1, WhichPhase DEF Conversation, Setting
<1>7. got = <<>>
  BY <1>1, <1>6, AtHiReads
<1>8. PICK n \in 0..StreamCap, ds \in Seq(Octet) :
             Told(status, n, ds) /\ cnt' = n /\ ToHost' = Bytes(ds)
  BY <1>1, <1>2, <1>6, AtHiReads
<1>9. /\ Home' = Home /\ LoadHome' = LoadHome /\ Loads' = Loads /\ Saves' = Saves /\ Block' = Block
      /\ UNCHANGED <<prog, remaining>>
      /\ \A s : Loaded(s) => Loaded(s)'
  BY <1>3, GroundKeeps DEF ground
<1>10. remaining \in Nat /\ n \in Nat /\ Len(ds) \in Nat
  BY RemainingType, StreamCapType
<1>11. got' = <<>> /\ status' = status /\ <<>> \o ds = ds
  BY <1>2, <1>7
<1>12. CASE status # OK
  <2>1. ds = <<>> /\ Home
    BY <1>8, <1>12 DEF Told
  <2> QED
    BY <1>2, <1>3, <1>4, <1>5, <1>8, <1>9, <1>12, <2>1, NoBytes DEF Resting, Phase
<1>13. CASE status = OK /\ prog = "catalog"
  <2>1. cmd = Commands.list
    BY <1>6, <1>13, Fits
  <2>2. Home /\ n = Len(ds) /\ n = listing
    BY <1>8, <1>13, <2>1, CommandsDiffer DEF Told, Saves
  <2>3. remaining = 0 /\ n # 0
    BY <2>2 DEF Home, Conversation, Typed, WorldTyped
  <2>4. hpc' = "load"
    BY <1>2, <1>8, <1>13, <2>3
  <2>5. cnt' = Len(ds) + remaining' /\ cnt' > 0 /\ prog' = "catalog" /\ Home'
    BY <1>8, <1>9, <1>10, <1>13, <2>2, <2>3
  <2>6. Loading'
    BY <1>3, <1>4, <1>8, <1>11, <1>13, <2>4, <2>5 DEF Loading
  <2> QED
    BY <1>3, <1>5, <2>6 DEF Phase
<1>14. CASE status = OK /\ prog # "catalog"
  <2>1. cmd = Commands.loadmem /\ prog \in {"loadmem", "run"}
    BY <1>2, <1>6, <1>14, Fits
  <2>2. n = Len(ds) + remaining /\ LoadHome /\ Loaded(ds) /\ (prog = "run" => n # 1)
    BY <1>8, <1>14, <2>1, CommandsDiffer DEF Told, Saves
  <2>3. Loads' /\ ~Saves' /\ prog' # "forthRead"
    BY <1>9, <2>1 DEF Loads, Saves
  <2>4. CASE n = 0
    <3>1. ds = <<>> /\ remaining = 0
      BY <1>10, <2>2, <2>4
    <3>2. Home
      BY <2>2, <3>1 DEF LoadHome, Home
    <3>3. Loaded(<<>>)'
      BY <1>9, <2>2, <3>1
    <3>4. Loaded(got)'
      BY <1>11, <3>3 DEF Loaded, Whole
    <3>5. Expects' = "idle"
      BY <1>2, <1>4, <1>8, <2>4
    <3> QED
      BY <1>3, <1>5, <1>8, <1>9, <2>3, <3>1, <3>2, <3>4, <3>5, NoBytes DEF Resting, Phase
  <2>5. CASE n # 0
    <3>1. hpc' = "load"
      BY <1>2, <1>8, <1>10, <1>14, <2>2, <2>5
    <3>2. Loaded(ds)'
      BY <1>9, <2>2
    <3>3. Loaded(got \o ds)'
      BY <1>11, <3>2 DEF Loaded, Whole
    <3>4. Loading'
      BY <1>3, <1>4, <1>8, <1>9, <1>10, <1>11, <1>14, <2>2, <2>3, <2>5, <3>1, <3>3 DEF Loading
    <3> QED
      BY <1>3, <1>5, <3>4 DEF Phase
  <2> QED
    BY <2>4, <2>5
<1> QED
  BY <1>12, <1>13, <1>14

\* A second command of a program starts a conversation like the first.
LEMMA AskingNow ==
  ASSUME Conversation, Typed', NEW c, Ask(c, <<SomeName>>), Home', ToPico' = hout', ToHost' = <<>>,
         Arguments' = <<SomeName>>
  PROVE  Asking' /\ Expects' = "status" /\ (hpc' \in {"request", "stream"} <=> hout' # <<>>)
<1>1. hpc' = "request" /\ cmd' = c /\ hout' = Request(c, <<SomeName>>) /\ got' = <<>>
  BY DEF Ask
<1>2. Expects' = "status"
  BY <1>1 DEF Expects
<1>3. ToPico' = Request(cmd', Arguments')
  BY <1>1
<1>4. hout' # <<>>
  <2>1. <<SomeName>> \in Seq(Octet) /\ Len(<<SomeName>>) = 1
    BY DEF SomeName, Octet
  <2>2. Tagged("arg", <<SomeName>>) \in Seq(Byte) /\ Len(Tagged("arg", <<SomeName>>)) = 1
    BY <2>1, TaggedSeq DEF Tags
  <2>3. \A p, q \in Seq(Byte) : p \o q \in Seq(Byte) /\ Len(p \o q) = Len(p) + Len(q)
    OBVIOUS
  <2>4. 1 \in Octet
    BY DEF Octet
  <2>5. Tagged("len", <<1>>) \in Seq(Byte)
    BY <2>4, OneByte
  <2> QED
    BY <1>1 DEF Request, Tagged
<1> QED
  BY <1>1, <1>2, <1>3, <1>4 DEF Asking, Requesting

\* The high byte of a length read by pico_send_request: a payload follows, a
\* stream, the next command, or the program rests.
LEMMA GotHiOfRequestKeeps ==
  ASSUME Conversation, Typed', Undisturbed, GotHiOfRequest
  PROVE  Calls' /\ Setting' /\ Phase'
<1>1. /\ ToPico = <<>> /\ ToHost # <<>> /\ host.val = Head(ToHost)
      /\ ToHost' = Tail(ToHost) /\ ToPico' = hout' /\ Goes' = Goes
      /\ hout = <<>> /\ Expects = hpc /\ hpc \in {"hi"}
      /\ (hpc' \in {"request", "stream"} <=> hout' # <<>>) => Calls'
      /\ UNCHANGED cmd => UNCHANGED ground
  BY HostReading DEF GotHiOfRequest, HostReads
<1>2. UNCHANGED status /\ cnt' = cnt + Base * host.val.val
      /\ prog # "catalog" /\ cmd # Commands.loadmem
  BY DEF GotHiOfRequest, ByHand
<1>3. \/ cnt' \in 1..RespMax /\ hpc' = "payload" /\ UNCHANGED <<cmd, hout, got>>
      \/ cnt' > RespMax
      \/ cnt' \notin 1..RespMax /\ Proceed(<<>>)
  BY DEF GotHiOfRequest
<1>6. AtHi /\ CommandFits
  BY <1>1, WhichPhase DEF Conversation, Setting
<1>7. got = <<>>
  BY <1>1, <1>6, AtHiReads
<1>8. PICK n \in 0..StreamCap, ds \in Seq(Octet) :
             Told(status, n, ds) /\ cnt' = n /\ ToHost' = Bytes(ds)
  BY <1>1, <1>2, <1>6, AtHiReads
<1>9. UNCHANGED ground =>
        /\ Home' = Home /\ Saving' = Saving /\ Loads' = Loads /\ Saves' = Saves /\ Block' = Block
        /\ ListingSize' = ListingSize
        /\ UNCHANGED <<prog, data, remaining, buf, fileData>>
  BY GroundKeeps DEF ground
<1>10. remaining \in Nat /\ n \in Nat /\ Len(ds) \in Nat
  BY RemainingType, StreamCapType
<1>12. CASE status # OK
  <2>1. ds = <<>> /\ Home /\ n = 0
    BY <1>8, <1>12 DEF Told
  <2>2. Proceed(<<>>)
    BY <1>3, <1>8, <2>1, SessionAssumption DEF SessionAssumption
  <2>3. hpc' = "idle" /\ UNCHANGED <<cmd, hout>>
    BY <1>12, <2>2 DEF Proceed
  <2>4. Calls' /\ UNCHANGED ground /\ ToPico' = <<>> /\ Expects' = "idle"
    BY <1>1, <2>3 DEF Expects
  <2>5. Setting'
    BY <2>4, SettingKept DEF Conversation
  <2> QED
    BY <1>2, <1>8, <1>9, <1>12, <2>1, <2>4, <2>5, NoBytes DEF Resting, Phase
<1>13. CASE status = OK /\ Saves
  <2>1. n = 0 /\ ds = <<>> /\ Saving /\ remaining = Len(data) /\ fileData = <<>> /\ buf = <<>>
    BY <1>2, <1>6, <1>8, <1>13, Fits, CommandsDiffer DEF Told, Saves
  <2>2. Proceed(<<>>)
    BY <1>3, <1>8, <2>1, SessionAssumption DEF SessionAssumption
  <2>3. hpc' = "stream" /\ hout' = Tagged("data", data) /\ UNCHANGED cmd
    <3>1. cmd # Commands.stat /\ cmd # Commands.listSize /\ prog \in {"savemem", "forthWrite"}
      BY <1>6, <1>13, Fits DEF Saves
    <3> QED
      BY <1>13, <2>2, <3>1 DEF Proceed
  <2>4. data \in Seq(Octet) /\ Len(data) > 0
    BY <1>13, SessionAssumption DEF Conversation, Setting, Saves, SessionAssumption, Typed, HostTyped
  <2>5. hout' # <<>>
    <3>1. "data" \in Tags /\ data # <<>>
      BY <2>4 DEF Tags
    <3> QED
      BY <2>3, <2>4, <3>1, TaggedSeq
  <2>6. Calls' /\ UNCHANGED ground /\ ToPico' = Bytes(data) /\ Expects' = "fstatus"
    BY <1>1, <2>3, <2>5 DEF Expects, Bytes
  <2>7. Setting'
    BY <1>1, <2>6, SettingKept DEF Conversation
  <2>8. (<<>> \o <<>>) \o data = data
    BY <2>4
  <2>9. Streaming'
    BY <1>2, <1>8, <1>9, <1>13, <2>1, <2>4, <2>6, <2>8, NoBytes DEF Streaming
  <2> QED
    BY <2>6, <2>7, <2>9 DEF Phase
<1>14. CASE status = OK /\ ~Saves
  <2>1. /\ Home /\ n = Len(ds)
        /\ \/ cmd = Commands.stat /\ n = 1
           \/ cmd = Commands.listSize /\ ds = ListingSize
           \/ cmd = Commands.list /\ n = listing
           \/ cmd = Commands.forthRead /\ n = ForthSize /\ ds = Block
    BY <1>2, <1>8, <1>14 DEF Told
  <2>2. n \in 1..RespMax
    <3>1. cmd = Commands.list => listing < RespMax /\ listing > 0
      BY <1>2, <1>6, Fits DEF Conversation, Typed, WorldTyped
    <3>2. ds = ListingSize => Len(ds) = 2
      BY DEF ListingSize
    <3>3. RespMax \in Nat /\ RespMax >= 2 /\ ForthSize \in Nat /\ ForthSize > 0 /\ ForthSize <= RespMax
      BY SessionAssumption DEF SessionAssumption, Undisturbed
    <3>4. listing \in Nat
      BY SessionAssumption DEF SessionAssumption, Conversation, Typed, WorldTyped
    <3> QED
      BY <1>10, <2>1, <3>1, <3>2, <3>3, <3>4
  <2>3. hpc' = "payload" /\ UNCHANGED <<cmd, hout, got>>
    BY <1>3, <1>8, <1>10, <2>2, SessionAssumption DEF SessionAssumption
  <2>4. Calls' /\ UNCHANGED ground /\ ToPico' = <<>> /\ Expects' = "payload"
    BY <1>1, <2>3 DEF Expects
  <2>5. Setting'
    BY <1>1, <2>4, SettingKept DEF Conversation
  <2>6. <<>> \o ds = ds /\ got' = <<>> /\ ds # <<>>
    BY <1>7, <2>1, <2>2, <2>3
  <2>7. /\ cmd' = Commands.listSize => ds = ListingSize'
        /\ cmd' = Commands.forthRead => ds = Block'
        /\ cmd' \in {Commands.stat, Commands.listSize, Commands.list, Commands.forthRead}
    BY <1>9, <2>1, <2>3, <2>4, CommandsDiffer
  <2>8. cnt' = Len(ds) /\ Home' /\ prog' # "catalog" /\ status' = OK
    BY <1>2, <1>8, <1>9, <1>14, <2>1, <2>4
  <2>9. Receiving'
    BY <1>8, <2>4, <2>6, <2>7, <2>8 DEF Receiving
  <2> QED
    BY <2>4, <2>5, <2>9 DEF Phase
<1> QED
  BY <1>12, <1>13, <1>14

\* The first byte of a stream, and the rest of it.
LEMMA FirstByte ==
  ASSUME NEW ds \in Seq(Octet), ds # <<>>
  PROVE  /\ Head(Bytes(ds)) = [tag |-> "data", val |-> Head(ds)] /\ Tail(Bytes(ds)) = Bytes(Tail(ds))
         /\ Head(ds) \in Octet /\ Tail(ds) \in Seq(Octet) /\ Len(Tail(ds)) = Len(ds) - 1
         /\ Len(ds) \in Nat /\ Len(ds) > 0
<1>1. "data" \in Tags
  BY DEF Tags
<1>2. Head(Bytes(ds)) = [tag |-> "data", val |-> Head(ds)] /\ Tail(Bytes(ds)) = Bytes(Tail(ds))
  BY <1>1, StreamHeads DEF Bytes
<1>3. Head(ds) \in Octet /\ Tail(ds) \in Seq(Octet) /\ Len(Tail(ds)) = Len(ds) - 1
      /\ Len(ds) \in Nat /\ Len(ds) > 0
  OBVIOUS
<1> QED
  BY <1>2, <1>3

\* A byte moved from what is to come to what has come.
LEMMA Moved ==
  ASSUME NEW g \in Seq(Octet), NEW ds \in Seq(Octet), ds # <<>>
  PROVE  /\ Append(g, Head(ds)) \o Tail(ds) = g \o ds
         /\ Append(g, Head(ds)) \in Seq(Octet)
         /\ Len(ds) = 1 => Tail(ds) = <<>> /\ Append(g, Head(ds)) = g \o ds
<1>1. Head(ds) \in Octet /\ Tail(ds) \in Seq(Octet) /\ <<Head(ds)>> \in Seq(Octet)
  OBVIOUS
<1>2. ds = <<Head(ds)>> \o Tail(ds)
  OBVIOUS
<1>3. Append(g, Head(ds)) = g \o <<Head(ds)>> /\ Append(g, Head(ds)) \in Seq(Octet)
  BY <1>1
<1> DEFINE x == <<Head(ds)>>
           t == Tail(ds)
<1>4. x \in Seq(Octet) /\ t \in Seq(Octet) /\ ds = x \o t /\ Append(g, Head(ds)) = g \o x
  BY <1>1, <1>2, <1>3
<1>a. Len(t) = Len(ds) - 1 /\ Len(ds) \in Nat
  OBVIOUS
<1> HIDE DEF x, t
<1>5. Len(ds) = 1 => t = <<>>
  BY <1>4, <1>a
<1>6. (g \o x) \o t = g \o (x \o t)
  BY <1>4
<1>7. t = <<>> => x \o t = x
  BY <1>4
<1>8. Append(g, Head(ds)) \o t = g \o ds
  BY <1>4, <1>6
<1>9. Len(ds) = 1 => t = <<>> /\ Append(g, Head(ds)) = g \o ds
  BY <1>4, <1>5, <1>7
<1> QED
  BY <1>3, <1>8, <1>9 DEF t

\* What the 65C02 has got is a sequence of bytes.
LEMMA GotType == Conversation => got \in Seq(Octet)
BY DEF Conversation, Typed, HostTyped

\* A byte of a stream is one less under way and one more got.
LEMMA GotStreamByteKeeps ==
  ASSUME Conversation, Typed', GotStreamByte
  PROVE  Calls' /\ Setting' /\ Phase'
<1>1. /\ ToPico = <<>> /\ ToHost # <<>> /\ host.val = Head(ToHost)
      /\ ToHost' = Tail(ToHost) /\ ToPico' = hout' /\ Goes' = Goes
      /\ hout = <<>> /\ Expects = hpc /\ hpc \in {"load"}
      /\ (hpc' \in {"request", "stream"} <=> hout' # <<>>) => Calls'
      /\ UNCHANGED cmd => UNCHANGED ground
  BY HostReading DEF GotStreamByte, HostReads
<1>2. UNCHANGED <<cmd, hout, status>> /\ cnt' = cnt - 1 /\ got' = Append(got, host.val.val)
      /\ hpc' = (IF cnt > 1 THEN "load" ELSE "idle")
  BY DEF GotStreamByte
<1>3. Calls' /\ UNCHANGED ground /\ ToPico' = <<>>
  BY <1>1, <1>2
<1>4. Expects' = hpc'
  BY <1>2 DEF Expects
<1>5. Setting'
  BY <1>2, <1>3, <1>4, SettingKept DEF Conversation
<1>6. Loading
  BY <1>1, WhichPhase DEF Conversation
<1>7. PICK ds \in Seq(Octet) :
         /\ ToHost = Bytes(ds) /\ cnt = Len(ds) + remaining
         /\ \/ prog = "catalog" /\ Home
            \/ Loads /\ LoadHome /\ Loaded(got \o ds)
  BY <1>6 DEF Loading
<1>8. ds # <<>>
  BY <1>1, <1>7, NoBytes
<1>9. /\ host.val.val = Head(ds) /\ ToHost' = Bytes(Tail(ds)) /\ Tail(ds) \in Seq(Octet)
      /\ Len(Tail(ds)) = Len(ds) - 1 /\ Len(ds) \in Nat /\ Len(ds) > 0
  BY <1>1, <1>7, <1>8, FirstByte
<1>10. /\ got' \o Tail(ds) = got \o ds
       /\ Len(ds) = 1 => Tail(ds) = <<>> /\ got' = got \o ds
  BY <1>2, <1>8, <1>9, GotType, Moved
<1>11. /\ Home' = Home /\ LoadHome' = LoadHome /\ Loads' = Loads /\ Saves' = Saves
       /\ UNCHANGED <<prog, remaining>>
       /\ \A s : Loaded(s) => Loaded(s)'
  BY <1>3, GroundKeeps DEF ground
<1>12. remaining \in Nat
  BY RemainingType
<1>13. CASE cnt > 1
  <2>1. cnt' > 0 /\ cnt' = Len(Tail(ds)) + remaining' /\ status' = OK /\ Expects' = "load"
    BY <1>2, <1>4, <1>6, <1>7, <1>9, <1>11, <1>12, <1>13 DEF Loading
  <2>2. Loaded(got \o ds) => Loaded(got \o Tail(ds))'
    <3>1. Loaded(got \o ds) /\ "read" \notin Faults =>
             (got' \o Tail(ds)) \o SubSeq(buf \o fileData, 1, remaining) = Whole
      BY <1>10 DEF Loaded
    <3>2. UNCHANGED <<buf, fileData, remaining>> /\ Whole' = Whole
      BY <1>3 DEF ground, Whole
    <3> QED
      BY <3>1, <3>2 DEF Loaded
  <2>3. Loading'
    BY <1>3, <1>7, <1>9, <1>11, <2>1, <2>2 DEF Loading
  <2> QED
    BY <1>3, <1>5, <2>3 DEF Phase
<1>14. CASE ~(cnt > 1)
  <2>1. Len(ds) = 1 /\ remaining = 0
    BY <1>7, <1>9, <1>12, <1>14
  <2>2. Home
    BY <1>7, <2>1 DEF LoadHome, Home
  <2>3. ToHost' = <<>> /\ got' = got \o ds
    BY <1>9, <1>10, <2>1, NoBytes
  <2>4. Loads' => Loaded(got)'
    <3>1. Loads' => Loaded(got \o ds)
      BY <1>7, <1>11 DEF Loads
    <3>2. UNCHANGED <<buf, fileData, remaining>> /\ Whole' = Whole
      BY <1>3 DEF ground, Whole
    <3> QED
      BY <2>3, <3>1, <3>2 DEF Loaded
  <2>5. prog \in {"catalog", "loadmem", "run"}
    BY <1>7 DEF Loads
  <2>6. ~Saves' /\ prog' # "forthRead"
    BY <1>11, <2>5 DEF Saves
  <2>7. Expects' = "idle"
    BY <1>2, <1>4, <1>14
  <2> QED
    BY <1>3, <1>5, <1>11, <2>2, <2>3, <2>4, <2>6, <2>7 DEF Resting, Phase
<1> QED
  BY <1>13, <1>14

\* A second command keeps the setting.
LEMMA SettingAsks ==
  ASSUME Setting, CommandFits', Expects \notin {"idle", "load"},
         UNCHANGED <<prog, data, picoVars, worldVars>>
  PROVE  Setting'
<1>1. UNCHANGED <<prog, data, current_state, stream_file_is_open, file, dir, disk>>
  BY DEF picoVars, streamVars, diskVars
<1> QED
  BY <1>1 DEF Setting

\* A byte of a payload; after the last one the program goes on to its second
\* command or rests.
LEMMA GotPayloadKeeps ==
  ASSUME Conversation, Typed', GotPayload
  PROVE  Calls' /\ Setting' /\ Phase'
<1>1. /\ ToPico = <<>> /\ ToHost # <<>> /\ host.val = Head(ToHost)
      /\ ToHost' = Tail(ToHost) /\ ToPico' = hout' /\ Goes' = Goes
      /\ hout = <<>> /\ Expects = hpc /\ hpc \in {"payload"}
      /\ UNCHANGED <<prog, data, picoVars, worldVars>>
      /\ (hpc' \in {"request", "stream"} <=> hout' # <<>>) => Calls'
      /\ UNCHANGED cmd => UNCHANGED ground
  BY HostReading DEF GotPayload, HostReads
<1>2. UNCHANGED status /\ cnt' = cnt - 1
      /\ \/ cnt > 1 /\ got' = Append(got, host.val.val) /\ UNCHANGED <<hpc, cmd, hout>>
         \/ ~(cnt > 1) /\ Proceed(Append(got, host.val.val))
  BY DEF GotPayload
<1>6. Receiving /\ CommandFits /\ Setting
  BY <1>1, WhichPhase DEF Conversation, Setting
<1>7. PICK ds \in Seq(Octet) :
         /\ ToHost = Bytes(ds) /\ cnt = Len(ds) /\ ds # <<>>
         /\ cmd = Commands.listSize => got \o ds = ListingSize
         /\ cmd = Commands.forthRead => got \o ds = Block
  BY <1>6 DEF Receiving
<1>8. /\ status = OK /\ Home /\ prog # "catalog"
      /\ cmd \in {Commands.stat, Commands.listSize, Commands.list, Commands.forthRead}
  BY <1>6 DEF Receiving
<1>9. /\ host.val.val = Head(ds) /\ ToHost' = Bytes(Tail(ds)) /\ Tail(ds) \in Seq(Octet)
      /\ Len(Tail(ds)) = Len(ds) - 1 /\ Len(ds) \in Nat /\ Len(ds) > 0
  BY <1>1, <1>7, FirstByte
<1>10. /\ Append(got, host.val.val) \o Tail(ds) = got \o ds
       /\ Len(ds) = 1 => Tail(ds) = <<>> /\ Append(got, host.val.val) = got \o ds
  <2>1. got \in Seq(Octet)
    BY GotType
  <2>2. /\ Append(got, Head(ds)) \o Tail(ds) = got \o ds
        /\ Len(ds) = 1 => Tail(ds) = <<>> /\ Append(got, Head(ds)) = got \o ds
    BY <2>1, <1>7, Moved, Zenon
  <2> QED
    BY <2>2, <1>9
<1>11. Home' = Home
  BY <1>1 DEF Home, picoVars, streamVars
<1>12. CASE cnt > 1
  <2>1. got' = Append(got, host.val.val) /\ UNCHANGED <<hpc, cmd, hout>>
    BY <1>2, <1>12
  <2>2. Calls' /\ UNCHANGED ground /\ ToPico' = <<>> /\ Expects' = "payload"
    BY <1>1, <2>1 DEF Expects
  <2>3. Setting'
    BY <1>1, <2>2, SettingKept DEF Conversation
  <2>4. ListingSize' = ListingSize /\ Block' = Block
    BY <2>2, GroundKeeps
  <2>5. Tail(ds) # <<>> /\ cnt' = Len(Tail(ds))
    BY <1>2, <1>7, <1>9, <1>12
  <2>6. /\ cmd' = Commands.listSize => got' \o Tail(ds) = ListingSize'
        /\ cmd' = Commands.forthRead => got' \o Tail(ds) = Block'
    BY <1>7, <1>10, <2>1, <2>4
  <2>7. Receiving'
    BY <1>1, <1>2, <1>8, <1>9, <1>11, <2>1, <2>2, <2>5, <2>6 DEF Receiving
  <2> QED
    BY <2>2, <2>3, <2>7 DEF Phase
<1>13. CASE ~(cnt > 1)
  <2> DEFINE resp == Append(got, host.val.val)
  <2>1. Tail(ds) = <<>> /\ resp = got \o ds /\ Proceed(resp)
    BY <1>2, <1>7, <1>9, <1>10, <1>13
  <2>2. ToHost' = <<>>
    BY <1>9, <2>1, NoBytes
  <2> HIDE DEF resp
  <2>3. prog \notin {"savemem", "forthWrite"}
    BY <1>6, <1>8, Fits, CommandsDiffer
  <2>4. cmd = Commands.listSize => resp[1] + Base * resp[2] = listing
    <3> SUFFICES ASSUME cmd = Commands.listSize PROVE resp[1] + Base * resp[2] = listing
      OBVIOUS
    <3>1. resp = <<listing % Base, listing \div Base>>
      BY <1>7, <2>1 DEF ListingSize
    <3>2. listing \in 0..StreamCap
      BY SessionAssumption DEF SessionAssumption, StreamCap, Conversation, Typed, WorldTyped
    <3>3. (listing % Base) + (Base * (listing \div Base)) = listing
      BY <3>2, LengthDecoded
    <3>4. resp[1] = listing % Base /\ resp[2] = listing \div Base
      BY <3>1
    <3> QED
      BY <3>3, <3>4
  <2>5. \/ cmd = Commands.stat /\ Ask(Commands.loadmem, <<SomeName>>)
        \/ cmd = Commands.listSize /\ listing < RespMax /\ Ask(Commands.list, <<SomeName>>)
        \/ hpc' = "idle" /\ got' = resp /\ UNCHANGED <<cmd, hout>>
    BY <1>8, <2>1, <2>3, <2>4, CommandsDiffer DEF Proceed
  <2>6. CASE cmd = Commands.stat /\ Ask(Commands.loadmem, <<SomeName>>)
    <3>1. prog' \in {"loadmem", "run"} /\ cmd' = Commands.loadmem
      BY <1>1, <1>6, <2>6, Fits DEF Ask
    <3>2. Arguments' = <<SomeName>> /\ CommandFits'
      BY <3>1 DEF Arguments, CommandFits
    <3>3. Asking' /\ (hpc' \in {"request", "stream"} <=> hout' # <<>>)
      BY <1>1, <1>8, <1>11, <2>2, <2>6, <3>2, AskingNow
    <3>4. Setting'
      BY <1>1, <1>6, <3>2, SettingAsks
    <3> QED
      BY <1>1, <3>3, <3>4 DEF Phase
  <2>7. CASE cmd = Commands.listSize /\ listing < RespMax /\ Ask(Commands.list, <<SomeName>>)
    <3>1. prog' = "dir" /\ cmd' = Commands.list /\ listing' < RespMax
      BY <1>1, <1>6, <2>7, Fits DEF Ask, worldVars
    <3>2. Arguments' = <<SomeName>> /\ CommandFits'
      BY <3>1 DEF Arguments, CommandFits
    <3>3. Asking' /\ (hpc' \in {"request", "stream"} <=> hout' # <<>>)
      BY <1>1, <1>8, <1>11, <2>2, <2>7, <3>2, AskingNow
    <3>4. Setting'
      BY <1>1, <1>6, <3>2, SettingAsks
    <3> QED
      BY <1>1, <3>3, <3>4 DEF Phase
  <2>8. CASE hpc' = "idle" /\ got' = resp /\ UNCHANGED <<cmd, hout>>
    <3>1. Calls' /\ UNCHANGED ground /\ ToPico' = <<>> /\ Expects' = "idle"
      BY <1>1, <2>8 DEF Expects
    <3>2. Setting'
      BY <3>1, SettingKept DEF Conversation
    <3>3. Block' = Block /\ Saves' = Saves /\ Loads' = Loads
      BY <3>1, GroundKeeps
    <3>4. ~Saves /\ ~Loads
      BY <1>8, <2>3, CommandsDiffer DEF Saves, Loads
    <3>5. prog' = "forthRead" => got' = Block'
      BY <1>1, <1>6, <1>7, <2>1, <2>8, <3>3, Fits
    <3>6. Resting'
      BY <1>8, <1>11, <2>2, <3>1, <3>3, <3>4, <3>5 DEF Resting
    <3> QED
      BY <3>1, <3>2, <3>6 DEF Phase
  <2> QED
    BY <2>5, <2>6, <2>7, <2>8
<1> QED
  BY <1>12, <1>13
-----------------------------------------------------------------------------
(****************************************************************************)
(* The 65C02 starts a program.                                              *)
(****************************************************************************)
\* A 65C02 that runs no command is in the phase Resting.
LEMMA IdleRests ==
  ASSUME Conversation, hpc = "idle"
  PROVE  Resting /\ host.op = "idle"
<1>1. Expects = "idle"
  BY DEF Expects
<1>2. Resting
  BY <1>1 DEF Conversation, Phase, Requesting, Asking, AtLen, AtArgs, AtExec, Answering, AtStatus,
     AtLo, AtHi, Receiving, Loading, Streaming, Ending, AtFinalStatus, AtFinalLo, AtFinalHi
<1>3. host.op \in {"idle", "send", "read"}
  BY PartTypes DEF Conversation
<1> QED
  BY <1>2, <1>3 DEF Conversation, Calls, HostReads

\* A program that starts at rest sends its request from a Pico that is ready
\* for it.
LEMMA Starts ==
  ASSUME Conversation, Typed', NEW p, NEW c \in Octet, NEW bs \in Seq(Octet), Len(bs) <= 255, NEW d,
         Start(p, c, bs, d),
         prog' = p /\ cmd' = c => CommandFits',
         prog' = p /\ data' = d => Arguments' = bs,
         p = "savemem" => Len(d) \in 1..StreamCap,
         p = "forthWrite" => Len(d) = ForthSize,
         p = "run" /\ "file" \in dir => Len(disk["file"]) # 1
  PROVE  Calls' /\ Setting' /\ Phase'
<1>1. /\ hpc = "idle" /\ hpc' = "request" /\ prog' = p /\ cmd' = c /\ data' = d /\ got' = <<>>
      /\ hout' = Request(c, bs) /\ UNCHANGED <<host, pico, status, cnt, picoVars, worldVars>>
  BY DEF Start, Ask
<1>2. Resting /\ host.op = "idle" /\ Calls /\ Setting /\ Typed
  BY <1>1, IdleRests DEF Conversation
<1>3. UNCHANGED <<host, pico, ppc, out, after, current_state, remaining, stream_file_is_open, file, dir, disk>>
  BY <1>1 DEF picoVars, streamVars, diskVars
<1>4. hout' \in Seq(Byte) /\ hout' # <<>>
  BY <1>1, RequestType, RequestHeads
<1>5. ToPico' = hout' /\ ToHost' = <<>>
  <2>1. Open(host, "send") = <<>> /\ hout = <<>>
    BY <1>1, <1>2 DEF Open, Calls
  <2>2. Met(pico, "read") = <<>>
    <3>1. Met(pico, "read") \in Seq(Byte)
      BY <1>2, PartTypes
    <3> QED
      BY <1>2, <2>1, <3>1 DEF Resting, ToPico
  <2>3. Open(host, "send")' = <<>> /\ Met(pico, "read")' = <<>>
    BY <1>3, <2>1, <2>2 DEF Open, Met
  <2>4. ToPico' = (<<>> \o <<>>) \o hout'
    BY <2>3 DEF ToPico
  <2>5. ToHost' = ToHost
    BY <1>3 DEF ToHost, Open, Met
  <2> QED
    BY <1>2, <1>4, <2>4, <2>5 DEF Resting
<1>6. Expects' = "status" /\ Goes' = Goes
  BY <1>1, <1>3 DEF Expects, Goes
<1>7. Home'
  BY <1>2, <1>3, <1>6 DEF Resting, Home
<1>8. Calls'
  BY <1>1, <1>2, <1>3, <1>4 DEF Calls
<1>9. Setting'
  BY <1>1, <1>2, <1>3 DEF Setting
<1>10. Asking'
  BY <1>1, <1>5, <1>6, <1>7 DEF Asking, Requesting
<1> QED
  BY <1>8, <1>9, <1>10 DEF Phase

\* Each of the programs does.
LEMMA StartKeeps ==
  ASSUME Conversation, Typed', Undisturbed, StartProgram
  PROVE  Calls' /\ Setting' /\ Phase'
<1>0. /\ <<>> \in Seq(Octet) /\ Len(<<>>) <= 255
      /\ <<SomeName>> \in Seq(Octet) /\ Len(<<SomeName>>) <= 255
      /\ <<0, 0>> \in Seq(Octet) /\ Len(<<0, 0>>) <= 255
  BY DEF Octet, SomeName
<1>1. ASSUME NEW n \in Nat, NEW d \in Memory(n) PROVE d \in Seq(Octet) /\ Len(d) = n
  BY <1>1, SessionAssumption DEF Memory, SessionAssumption
<1>4. CASE StartSavemem
  <2>0. PICK n \in 1..AtMost(MaxLen, StreamCap) : \E d \in Memory(n) :
               Start("savemem", Commands.savemem, <<SomeName, n % Base, n \div Base>>, d)
    BY <1>4 DEF StartSavemem
  <2>1. PICK d \in Memory(n) :
               Start("savemem", Commands.savemem, <<SomeName, n % Base, n \div Base>>, d)
    BY <2>0
  <2>2. n \in 0..StreamCap /\ n \in 1..StreamCap /\ n \in Nat
    BY SessionAssumption DEF AtMost, SessionAssumption, StreamCap
  <2>3. n % Base \in Octet /\ n \div Base \in Octet /\ SomeName \in Octet
    BY <2>2, LengthBytes, ConstantTypes
  <2>4. /\ <<SomeName, n % Base, n \div Base>> \in Seq(Octet)
        /\ Len(<<SomeName, n % Base, n \div Base>>) <= 255
    BY <2>3
  <2>5. Len(d) = n
    BY <1>1, <2>2
  <2>6. prog' = "savemem" /\ cmd' = Commands.savemem => CommandFits'
    BY DEF CommandFits
  <2>7. prog' = "savemem" /\ data' = d => Arguments' = <<SomeName, n % Base, n \div Base>>
    BY <2>5 DEF Arguments
  <2> QED
    BY <2>1, <2>2, <2>4, <2>5, <2>6, <2>7, Starts, ConstantTypes
<1>5. CASE StartForthWrite
  <2>1. PICK d \in Memory(ForthSize) : Start("forthWrite", Commands.forthWrite, <<0, 0>>, d)
    BY <1>5 DEF StartForthWrite
  <2>2. Len(d) = ForthSize
    BY <1>1, SessionAssumption DEF SessionAssumption
  <2>3. prog' = "forthWrite" /\ cmd' = Commands.forthWrite => CommandFits'
    BY DEF CommandFits
  <2>4. prog' = "forthWrite" /\ data' = d => Arguments' = <<0, 0>>
    BY DEF Arguments
  <2> QED
    BY <1>0, <2>1, <2>2, <2>3, <2>4, Starts, ConstantTypes
<1>6. CASE StartLoadmem \/ StartRun
  <2>1. prog' \in {"loadmem", "run"} /\ cmd' = Commands.stat => CommandFits'
    BY DEF CommandFits
  <2>2. prog' \in {"loadmem", "run"} => Arguments' = <<SomeName>>
    BY DEF Arguments
  <2>3. StartRun => ("file" \in dir => Len(disk["file"]) # 1)
    BY DEF StartRun, Undisturbed
  <2>4. CASE StartLoadmem
    BY <1>0, <2>1, <2>2, <2>4, Starts, ConstantTypes DEF StartLoadmem
  <2>5. CASE StartRun
    BY <1>0, <2>1, <2>2, <2>3, <2>5, Starts, ConstantTypes DEF StartRun
  <2> QED
    BY <1>6, <2>4, <2>5
<1>7. CASE StartDir \/ StartCatalog
  <2>2. prog' \in {"dir", "catalog"} => Arguments' = <<SomeName>>
    BY DEF Arguments
  <2>3. prog' = "dir" /\ cmd' = Commands.listSize => CommandFits'
    BY DEF CommandFits
  <2>6. prog' = "catalog" /\ cmd' = Commands.list => CommandFits'
    BY DEF CommandFits
  <2>4. CASE StartDir
    BY <1>0, <2>2, <2>3, <2>4, Starts, ConstantTypes DEF StartDir
  <2>5. CASE StartCatalog
    BY <1>0, <2>2, <2>5, <2>6, Starts, ConstantTypes DEF StartCatalog
  <2> QED
    BY <1>7, <2>4, <2>5
<1>8. CASE StartForthRead \/ StartOther
  <2>1. prog' = "forthRead" /\ cmd' = Commands.forthRead => CommandFits'
    BY DEF CommandFits
  <2>2. prog' = "other" /\ cmd' = Commands.other => CommandFits'
    BY DEF CommandFits
  <2>3. (prog' = "forthRead" => Arguments' = <<0, 0>>) /\ (prog' = "other" => Arguments' = <<>>)
    BY DEF Arguments
  <2>4. CASE StartForthRead
    BY <1>0, <2>1, <2>3, <2>4, Starts, ConstantTypes DEF StartForthRead
  <2>5. CASE StartOther
    BY <1>0, <2>2, <2>3, <2>5, Starts, ConstantTypes DEF StartOther
  <2> QED
    BY <1>8, <2>4, <2>5
<1> QED
  BY <1>4, <1>5, <1>6, <1>7, <1>8 DEF StartProgram

\* Every step of the 65C02 keeps the conversation.
LEMMA HostKeeps ==
  ASSUME Conversation, Typed', Undisturbed, HostStep
  PROVE  Calls' /\ Setting' /\ Phase'
<1>1. CASE SendNext \/ SendReturns \/ ReadNext
  <2>1. Calls' /\ UNCHANGED view
    BY <1>1, PhaseGivesTurns, LinkKeepsView DEF Conversation, LinkStep
  <2> QED
    BY <2>1, ViewKeeps DEF Conversation
<1> QED
  BY <1>1, GotStatusKeeps, GotLoKeeps, GotHiByHandKeeps, GotHiOfRequestKeeps, GotPayloadKeeps,
     GotStreamByteKeeps, GotFinalHiKeeps DEF HostStep
-----------------------------------------------------------------------------
(****************************************************************************)
(* The main loop between two bytes.                                         *)
(****************************************************************************)
\* The steps of the main loop between two bytes.
Quiet == TopIdle \/ LoadDone \/ TopSave \/ TopForth \/ ForthMore

\* A step of the main loop between two bytes moves no byte, and at most closes
\* a stream that is at its end.
LEMMA QuietFacts ==
  ASSUME Conversation, Quiet
  PROVE  /\ Calls' /\ UNCHANGED <<ToPico, ToHost, Expects>> /\ Goes \in {"top", "forthLoop"}
         /\ UNCHANGED <<prog, cmd, data, got, status, cnt, remaining, disk, dir, listing, buf>>
         /\ (Home => Home') /\ (LoadHome => LoadHome') /\ (Saving => Saving')
         /\ UNCHANGED <<current_state, stream_file_is_open, file, fileName, fileData>>
              \/ /\ current_state = "LOADMEM" /\ current_state' = "IDLE" /\ remaining = 0
                 /\ stream_file_is_open' = FALSE /\ file' = "closed" /\ fileData' = <<>>
<1>1. UNCHANGED <<host, pico, hostVars, worldVars, out>> /\ ppc \in {"top", "forthLoop"}
      /\ ppc' \in {"cmd", "top", "save", "forthLoop", "forth"}
  BY DEF Quiet, TopIdle, LoadDone, TopSave, TopForth, ForthMore, PicoOnly
<1>2. Typed /\ Calls /\ Setting
  BY DEF Conversation
<1>3. out' \in Seq(Byte) /\ UNCHANGED <<host, pico, hostVars>> /\ ppc \in {"top", "exec", "forthLoop"}
  BY <1>1, <1>2, PartTypes
<1>4. /\ ToPico' = ToPico /\ Expects' = Expects /\ out = <<>> /\ Goes = ppc
      /\ ToHost' = ToHost \o out'
      /\ (ppc' = "send" <=> out' # <<>>) => Calls'
  BY <1>2, <1>3, PicoWorks
<1>5. out' = <<>> /\ ToHost' = ToHost
  <2>1. ToHost \in Seq(Byte)
    BY <1>2, QueueTypes
  <2>2. out' = <<>>
    BY <1>1, <1>4
  <2> QED
    BY <1>4, <2>1, <2>2
<1>6. Calls'
  BY <1>1, <1>4, <1>5
<1>7. UNCHANGED <<prog, cmd, data, got, status, cnt, listing>>
  BY <1>1 DEF hostVars, worldVars
<1>8. Goes' = ppc'
  BY <1>1 DEF Goes
<1>9. CASE LoadDone
  <2>1. /\ ppc = "top" /\ ppc' = "top" /\ UNCHANGED <<remaining, buf, dir, fileName>>
        /\ current_state = "LOADMEM" /\ current_state' = "IDLE" /\ remaining = 0
        /\ stream_file_is_open' = FALSE /\ file' = "closed" /\ fileData' = <<>>
    BY <1>9 DEF LoadDone, CloseStream
  <2>2. disk' = disk
    BY <1>2, <1>9, <2>1 DEF LoadDone, CloseStream, Committed, Setting
  <2>3. Home' /\ ~Saving
    BY <1>8, <2>1 DEF Home, Saving
  <2> QED
    BY <1>4, <1>5, <1>6, <1>7, <2>1, <2>2, <2>3 DEF LoadHome
<1>10. CASE TopIdle \/ TopSave \/ TopForth \/ ForthMore
  <2>1. UNCHANGED <<streamVars, diskVars>>
    BY <1>10 DEF TopIdle, TopSave, TopForth, ForthMore
  <2>2. UNCHANGED <<current_state, buf, remaining, stream_file_is_open, file, fileName, fileData,
                    dir, disk>>
    BY <2>1 DEF streamVars, diskVars
  <2>3. \/ ppc = "top" /\ ppc' = "cmd" /\ current_state = "IDLE"
        \/ ppc = "top" /\ ppc' = "save" /\ current_state = "SAVEMEM"
        \/ ppc = "top" /\ ppc' = "forthLoop" /\ current_state = "FORTH"
        \/ ppc = "forthLoop" /\ ppc' = "forth"
    BY <1>10 DEF TopIdle, TopSave, TopForth, ForthMore
  <2>4. Home => Home'
    BY <1>4, <1>8, <2>2, <2>3 DEF Home
  <2>5. Saving => Saving'
    BY <1>4, <1>7, <1>8, <2>2, <2>3 DEF Saving, Target
  <2>6. LoadHome => LoadHome'
    BY <1>4, <1>8, <2>2, <2>3, <2>4 DEF LoadHome
  <2> QED
    BY <1>1, <1>4, <1>5, <1>6, <1>7, <2>2, <2>4, <2>5, <2>6
<1> QED
  BY <1>9, <1>10 DEF Quiet

\* It keeps what was promised.
LEMMA QuietPromises ==
  ASSUME Conversation, Quiet
  PROVE  /\ Setting' /\ Stored' = Stored /\ Block' = Block /\ Loads' = Loads /\ Saves' = Saves
         /\ Arguments' = Arguments /\ ListingSize' = ListingSize
         /\ \A s \in Seq(Octet) : Loaded(s) => Loaded(s)'
         /\ \A s, n : \A ds \in Seq(Octet) : Told(s, n, ds) => Told(s, n, ds)'
<1>1. /\ UNCHANGED <<prog, cmd, data, got, status, cnt, remaining, disk, dir, listing, buf, Expects>>
      /\ (Home => Home') /\ (LoadHome => LoadHome') /\ (Saving => Saving')
      /\ UNCHANGED <<current_state, stream_file_is_open, file, fileName, fileData>>
           \/ /\ current_state = "LOADMEM" /\ current_state' = "IDLE" /\ remaining = 0
              /\ stream_file_is_open' = FALSE /\ file' = "closed" /\ fileData' = <<>>
  BY QuietFacts
<1>2. Stored' = Stored /\ Block' = Block /\ Loads' = Loads /\ Saves' = Saves
      /\ Arguments' = Arguments /\ ListingSize' = ListingSize /\ CommandFits' = CommandFits
  BY <1>1 DEF Stored, Target, Block, Loads, Saves, Arguments, ListingSize, CommandFits
<1>3. Setting'
  BY <1>1, <1>2 DEF Conversation, Setting
<1>4. SubSeq(buf \o fileData, 1, remaining)' = SubSeq(buf \o fileData, 1, remaining)
  <2>1. CASE UNCHANGED fileData
    BY <1>1, <2>1
  <2>2. CASE remaining = 0 /\ fileData' = <<>>
    <3>1. buf \in Seq(Octet) /\ fileData \in Seq(Octet)
      BY DEF Conversation, Typed, PicoTyped
    <3>2. SubSeq(buf \o fileData, 1, 0) = <<>> /\ SubSeq(buf \o <<>>, 1, 0) = <<>>
      BY <3>1
    <3> QED
      BY <1>1, <2>2, <3>2
  <2> QED
    BY <1>1, <2>1, <2>2
<1>5. \A s \in Seq(Octet) : Loaded(s) => Loaded(s)'
  <2>1. Whole' = Whole
    BY <1>1 DEF Whole
  <2> QED
    BY <1>4, <2>1 DEF Loaded
<1>6. \A s, n : \A ds \in Seq(Octet) : Told(s, n, ds) => Told(s, n, ds)'
  BY <1>1, <1>2, <1>5 DEF Told
<1> QED
  BY <1>2, <1>3, <1>5, <1>6

\* It keeps the phase.
LEMMA QuietKeeps ==
  ASSUME Conversation, Quiet
  PROVE  Calls' /\ Setting' /\ Phase'
<1>1. /\ Calls' /\ UNCHANGED <<ToPico, ToHost, Expects>> /\ Goes \in {"top", "forthLoop"}
      /\ UNCHANGED <<prog, cmd, data, got, status, cnt, remaining, disk, dir, listing, buf>>
      /\ (Home => Home') /\ (LoadHome => LoadHome') /\ (Saving => Saving')
      /\ UNCHANGED <<current_state, stream_file_is_open, file, fileName, fileData>>
           \/ /\ current_state = "LOADMEM" /\ current_state' = "IDLE" /\ remaining = 0
              /\ stream_file_is_open' = FALSE /\ file' = "closed" /\ fileData' = <<>>
  BY QuietFacts
<1>2. /\ Setting' /\ Stored' = Stored /\ Block' = Block /\ Loads' = Loads /\ Saves' = Saves
      /\ Arguments' = Arguments /\ ListingSize' = ListingSize
      /\ \A s \in Seq(Octet) : Loaded(s) => Loaded(s)'
      /\ \A s, n : \A ds \in Seq(Octet) : Told(s, n, ds) => Told(s, n, ds)'
  BY QuietPromises
<1>3. Resting => Resting'
  <2>1. Loaded(got) => Loaded(got)'
    <3>1. got \in Seq(Octet)
      BY GotType
    <3>2. Loaded(got) => Loaded(got')
      BY <1>1
    <3>3. \A s \in Seq(Octet) : Loaded(s) => Loaded(s)'
      BY <1>2
    <3>4. "read" \notin Faults /\ Loaded(got) =>
             got \o SubSeq(buf \o fileData, 1, remaining)' = Whole'
      BY <3>1, <3>3 DEF Loaded
    <3> QED
      BY <1>1, <3>4 DEF Loaded
  <2> QED
    BY <1>1, <1>2, <2>1 DEF Resting
<1>4. Asking => Asking'
  BY <1>1, <1>2 DEF Asking, Requesting
<1>5. ~AtLen /\ ~AtArgs /\ ~AtExec
  BY <1>1 DEF AtLen, AtArgs, AtExec
<1>6. AtStatus => AtStatus'
  BY <1>1, <1>2 DEF Answering, AtStatus
<1>7. AtLo => AtLo'
  <2> SUFFICES ASSUME AtLo PROVE AtLo'
    OBVIOUS
  <2>1. PICK n \in 0..StreamCap, ds \in Seq(Octet) : Told(status, n, ds) /\ ToHost = Length(n) \o Bytes(ds)
    BY DEF AtLo
  <2>2. \A s : Told(s, n, ds) => Told(s, n, ds)'
    BY <1>2
  <2>3. Told(status, n, ds)'
    BY <1>1, <2>1, <2>2
  <2> QED
    BY <1>1, <2>1, <2>3 DEF Answering, AtLo
<1>8. AtHi => AtHi'
  <2> SUFFICES ASSUME AtHi PROVE AtHi'
    OBVIOUS
  <2>1. PICK n \in 0..StreamCap, ds \in Seq(Octet) : Told(status, n, ds) /\ cnt = n % Base
            /\ ToHost = Tagged("hi", <<n \div Base>>) \o Bytes(ds)
    BY DEF AtHi
  <2>2. \A s : Told(s, n, ds) => Told(s, n, ds)'
    BY <1>2
  <2>3. Told(status, n, ds)'
    BY <1>1, <2>1, <2>2
  <2> QED
    BY <1>1, <2>1, <2>3 DEF Answering, AtHi
<1>9. Receiving => Receiving'
  BY <1>1, <1>2 DEF Receiving
<1>10. Loading => Loading'
  <2> SUFFICES ASSUME Loading PROVE Loading'
    OBVIOUS
  <2>1. PICK ds \in Seq(Octet) :
         /\ ToHost = Bytes(ds) /\ cnt = Len(ds) + remaining
         /\ \/ prog = "catalog" /\ Home
            \/ Loads /\ LoadHome /\ Loaded(got \o ds)
    BY DEF Loading
  <2>2. got \o ds \in Seq(Octet)
    BY GotType
  <2>3. Loaded(got \o ds) => Loaded(got \o ds)'
    <3>1. "read" \notin Faults /\ Loaded(got \o ds) =>
             (got \o ds) \o SubSeq(buf \o fileData, 1, remaining)' = Whole'
      BY <1>2, <2>2 DEF Loaded
    <3> QED
      BY <1>1, <3>1 DEF Loaded
  <2> QED
    BY <1>1, <1>2, <2>1, <2>3 DEF Loading
<1>11. Streaming => Streaming'
  <2>1. Streaming => UNCHANGED <<current_state, stream_file_is_open, file, fileName, fileData>>
    BY <1>1 DEF Streaming, Saving
  <2> QED
    BY <1>1, <1>2, <2>1 DEF Streaming
<1>12. (AtFinalStatus => AtFinalStatus') /\ (AtFinalLo => AtFinalLo') /\ (AtFinalHi => AtFinalHi')
  BY <1>1, <1>2 DEF AtFinalStatus, AtFinalLo, AtFinalHi, Ending
<1> QED
  BY <1>1, <1>2, <1>3, <1>4, <1>5, <1>6, <1>7, <1>8, <1>9, <1>10, <1>11, <1>12 DEF Conversation, Phase
-----------------------------------------------------------------------------
(****************************************************************************)
(* The Pico reads a request.                                                *)
(****************************************************************************)
\* A prefix that begins with a known byte.
LEMMA Prefix ==
  ASSUME NEW h \in Octet, NEW u \in Seq(Octet), NEW r \in Nat, 1 <= r, r <= Len(u) + 1
  PROVE  SubSeq(<<h>> \o u, 1, r) = <<h>> \o SubSeq(u, 1, r - 1)
<1> DEFINE p == SubSeq(<<h>> \o u, 1, r)
           v == SubSeq(u, 1, r - 1)
<1>1. <<h>> \in Seq(Octet) /\ Len(<<h>>) = 1 /\ <<h>>[1] = h
  OBVIOUS
<1>2. <<h>> \o u \in Seq(Octet) /\ Len(<<h>> \o u) = 1 + Len(u)
      /\ (<<h>> \o u)[1] = h /\ \A i \in 1..Len(u) : (<<h>> \o u)[1 + i] = u[i]
  BY <1>1, Concat
<1>3. p \in Seq(Octet) /\ Len(p) = r /\ \A i \in 1..r : p[i] = (<<h>> \o u)[i]
  BY <1>2
<1>4. v \in Seq(Octet) /\ Len(v) = r - 1 /\ \A i \in 1..(r - 1) : v[i] = u[i]
  OBVIOUS
<1> HIDE DEF p, v
<1>5. <<h>> \o v \in Seq(Octet) /\ Len(<<h>> \o v) = r
      /\ (<<h>> \o v)[1] = h /\ \A i \in 1..(r - 1) : (<<h>> \o v)[1 + i] = v[i]
  <2>1. /\ <<h>> \o v \in Seq(Octet) /\ Len(<<h>> \o v) = Len(<<h>>) + Len(v)
        /\ \A i \in 1..Len(<<h>>) : (<<h>> \o v)[i] = <<h>>[i]
        /\ \A i \in 1..Len(v) : (<<h>> \o v)[Len(<<h>>) + i] = v[i]
    BY <1>1, <1>4, Concat
  <2> QED
    BY <1>1, <1>4, <2>1
<1>6. ASSUME NEW i \in 1..r PROVE p[i] = (<<h>> \o v)[i]
  <2>1. CASE i = 1
    BY <1>2, <1>3, <1>5, <2>1
  <2>2. CASE i # 1
    <3> DEFINE j == i - 1
    <3>1. j \in 1..(r - 1) /\ i = 1 + j /\ j \in 1..Len(u)
      BY <2>2
    <3> HIDE DEF j
    <3>2. p[i] = (<<h>> \o u)[1 + j] /\ (<<h>> \o v)[i] = v[j]
      BY <1>3, <1>5, <3>1
    <3> QED
      BY <1>2, <1>4, <3>1, <3>2
  <2> QED
    BY <2>1, <2>2
<1>7. p = <<h>> \o v
  BY <1>3, <1>5, <1>6, SameSeq
<1> QED
  BY <1>7 DEF p, v

\* The setting depends on a few variables only.
LEMMA SettingStill ==
  ASSUME Setting, UNCHANGED <<Expects, prog, cmd, data, current_state, stream_file_is_open, file,
                              dir, disk, listing>>
  PROVE  Setting'
<1>1. CommandFits' = CommandFits
  BY DEF CommandFits
<1> QED
  BY <1>1 DEF Setting

\* What the Pico reads tells the phase.
LEMMA FromPico ==
  ASSUME Phase, ToPico # <<>>
  PROVE  /\ ToHost = <<>> /\ Expects \in {"status", "fstatus"}
         /\ Goes = "cmd" => Asking
         /\ Goes = "len" => AtLen
         /\ Goes = "args" => AtArgs
         /\ Goes \in {"save", "forth"} => Streaming
BY DEF Phase, Resting, Requesting, Asking, AtLen, AtArgs, AtExec, Answering, AtStatus, AtLo, AtHi,
       Receiving, Loading, Streaming, Saving, Home, Ending, AtFinalStatus, AtFinalLo, AtFinalHi

\* Reading a request leads from one of its parts to the next.
LEMMA RequestKeeps ==
  ASSUME Conversation, Typed', GotCmd \/ GotLen \/ GotArg
  PROVE  Calls' /\ Setting' /\ Phase'
<1>0. Typed /\ Calls /\ Turns /\ Setting /\ Phase /\ out' \in Seq(Byte)
  BY PhaseGivesTurns DEF Conversation, Typed, PicoTyped
<1>1. PICK pc \in {"cmd", "len", "args"} : ByteAt(pc)
            /\ (pc = "cmd" => GotCmd) /\ (pc = "len" => GotLen) /\ (pc = "args" => GotArg)
  <2>1. GotCmd => ~GotLen /\ ~GotArg /\ ByteAt("cmd")
    BY DEF GotCmd, GotLen, GotArg, ByteAt
  <2>2. GotLen => ~GotCmd /\ ~GotArg /\ ByteAt("len")
    BY DEF GotCmd, GotLen, GotArg, ByteAt
  <2>3. GotArg => ~GotCmd /\ ~GotLen /\ ByteAt("args")
    BY DEF GotCmd, GotLen, GotArg, ByteAt
  <2> QED
    BY <2>1, <2>2, <2>3
<1>2. /\ ToHost = <<>> /\ ToPico # <<>> /\ pico.val = Head(ToPico) /\ Goes = pc
      /\ ToPico' = Tail(ToPico) /\ ToHost' = out' /\ Expects' = Expects
      /\ out = <<>>
      /\ (ppc' = "send" <=> out' # <<>>) => Calls'
  <2>1. pc \in DOMAIN PicoReads
    BY DEF PicoReads
  <2> QED
    BY <1>0, <1>1, <2>1, PicoTakes
<1>3. UNCHANGED <<out, after, current_state, remaining, stream_file_is_open, file, dir, disk,
                  prog, cmd, data, got, status, listing>>
      /\ ppc' \in {"len", "args", "exec"}
  BY DEF GotCmd, GotLen, GotArg, ByteAt, PicoOnly, hostVars, worldVars, streamVars, diskVars
<1>4. Calls' /\ ToHost' = <<>> /\ Goes' = ppc'
  BY <1>2, <1>3 DEF Goes
<1>5. Setting'
  BY <1>0, <1>2, <1>3, SettingStill
<1>6. Arguments' = Arguments
  BY <1>3 DEF Arguments
<1>7. Arguments \in Seq(Octet) /\ Len(Arguments) <= 255 /\ Len(Arguments) \in Octet /\ cmd \in Octet
  BY <1>0, ArgumentsType
<1>a. "arg" \in Tags
  BY DEF Tags
<1>8. CASE pc = "cmd"
  <2>1. Asking
    BY <1>0, <1>2, <1>8, FromPico
  <2>2. cmd_id' = pico.val.val /\ ppc' = "len"
    BY <1>1, <1>8 DEF GotCmd
  <2>3. Head(Request(cmd, Arguments)) = [tag |-> "cmd", val |-> cmd]
        /\ Tail(Request(cmd, Arguments)) = Tagged("len", <<Len(Arguments)>>) \o Tagged("arg", Arguments)
    BY <1>7, RequestHeads, Zenon
  <2>4. pico.val = [tag |-> "cmd", val |-> cmd]
        /\ ToPico' = Tagged("len", <<Len(Arguments)>>) \o Tagged("arg", Arguments)
    BY <1>2, <2>1, <2>3 DEF Asking
  <2>5. cmd_id' = cmd'
    BY <1>3, <2>2, <2>4
  <2>6. AtLen'
    BY <1>2, <1>3, <1>4, <1>6, <2>1, <2>2, <2>4, <2>5 DEF AtLen, Asking, Requesting, Home
  <2> QED
    BY <1>4, <1>5, <2>6 DEF Phase
<1>9. CASE pc = "len"
  <2>1. AtLen
    BY <1>0, <1>2, <1>9, FromPico
  <2>2. UNCHANGED cmd_id /\ arg_len' = pico.val.val /\ args' = <<>>
        /\ ppc' = (IF arg_len' = 0 THEN "exec" ELSE "args")
    BY <1>1, <1>9 DEF GotLen
  <2>3. Head(Tagged("len", <<Len(Arguments)>>) \o Tagged("arg", Arguments))
          = [tag |-> "len", val |-> Len(Arguments)]
        /\ Tail(Tagged("len", <<Len(Arguments)>>) \o Tagged("arg", Arguments)) = Tagged("arg", Arguments)
    BY <1>7, RequestHeads, Zenon
  <2>4. pico.val = [tag |-> "len", val |-> Len(Arguments)] /\ ToPico' = Tagged("arg", Arguments)
    BY <1>2, <2>1, <2>3 DEF AtLen
  <2>5. arg_len' = Len(Arguments')
    BY <1>6, <2>2, <2>4
  <2>6. Requesting' /\ remaining' = 0 /\ cmd_id' = cmd'
    BY <1>2, <1>3, <1>4, <2>1, <2>2 DEF AtLen, Requesting
  <2>7. CASE Len(Arguments) = 0
    <3>1. Arguments = <<>>
      BY <1>7, <2>7
    <3>2. ToPico' = <<>>
      BY <1>7, <1>a, <2>4, <3>1, TaggedSeq
    <3>3. AtExec'
      BY <1>4, <1>6, <2>2, <2>5, <2>6, <2>7, <3>1, <3>2 DEF AtExec
    <3> QED
      BY <1>4, <1>5, <3>3 DEF Phase
  <2>8. CASE Len(Arguments) # 0
    <3>1. Arguments # <<>> /\ <<>> \o Arguments = Arguments
      BY <1>7, <2>8
    <3>2. AtArgs'
      BY <1>4, <1>6, <1>7, <2>2, <2>4, <2>5, <2>6, <2>8, <3>1 DEF AtArgs
    <3> QED
      BY <1>4, <1>5, <3>2 DEF Phase
  <2> QED
    BY <2>7, <2>8
<1>10. CASE pc = "args"
  <2>1. AtArgs
    BY <1>0, <1>2, <1>10, FromPico
  <2>2. UNCHANGED <<cmd_id, arg_len>> /\ args' = Append(args, pico.val.val)
        /\ ppc' = (IF Len(args') = arg_len THEN "exec" ELSE "args")
    BY <1>1, <1>10 DEF GotArg
  <2>3. PICK rest \in Seq(Octet) : rest # <<>> /\ args \o rest = Arguments /\ ToPico = Tagged("arg", rest)
    BY <2>1 DEF AtArgs
  <2>4. Head(Tagged("arg", rest)) = [tag |-> "arg", val |-> Head(rest)]
        /\ Tail(Tagged("arg", rest)) = Tagged("arg", Tail(rest))
    BY <1>a, <2>3, StreamHeads
  <2>5. pico.val = [tag |-> "arg", val |-> Head(rest)] /\ ToPico' = Tagged("arg", Tail(rest))
    BY <1>2, <2>3, <2>4
  <2>6. args \in Seq(Octet) /\ args' = Append(args, Head(rest))
    BY <1>0, <2>2, <2>5 DEF Typed, PicoTyped
  <2>7. args' \o Tail(rest) = Arguments' /\ args' \in Seq(Octet) /\ Tail(rest) \in Seq(Octet)
    <3>1. Tail(rest) \in Seq(Octet)
      BY <2>3
    <3> QED
      BY <1>6, <2>3, <2>6, <3>1, Moved
  <2>8. Len(args') + Len(Tail(rest)) = Len(Arguments') /\ Len(args') \in Nat /\ Len(Tail(rest)) \in Nat
        /\ (Tail(rest) = <<>> <=> Len(Tail(rest)) = 0)
    <3> DEFINE t == Tail(rest)
               a == args'
    <3>1. t \in Seq(Octet) /\ a \in Seq(Octet) /\ a \o t = Arguments'
      BY <2>7
    <3> HIDE DEF t, a
    <3>2. Len(a) + Len(t) = Len(Arguments') /\ Len(a) \in Nat /\ Len(t) \in Nat
          /\ (t = <<>> <=> Len(t) = 0)
      BY <3>1
    <3> QED
      BY <3>2 DEF t, a
  <2>9. Requesting' /\ remaining' = 0 /\ cmd_id' = cmd' /\ arg_len' = Len(Arguments')
    BY <1>2, <1>3, <1>4, <1>6, <2>1, <2>2 DEF AtArgs, Requesting
  <2>10. CASE Tail(rest) = <<>>
    <3> DEFINE a == args'
    <3>0. a \in Seq(Octet) /\ a \o <<>> = Arguments'
      BY <2>7, <2>10
    <3> HIDE DEF a
    <3>5. a = Arguments'
      BY <3>0
    <3>1. args' = Arguments' /\ ToPico' = <<>>
      BY <1>a, <2>5, <2>10, <3>5, TaggedSeq DEF a
    <3>2. ppc' = "exec"
      BY <2>2, <2>9, <3>1
    <3>3. AtExec'
      BY <1>4, <2>9, <3>1, <3>2 DEF AtExec
    <3> QED
      BY <1>4, <1>5, <3>3 DEF Phase
  <2>11. CASE Tail(rest) # <<>>
    <3>4. Len(args') # arg_len
      <4> DEFINE n == Len(args')
                 m == Len(Tail(rest))
      <4>1. n + m = Len(Arguments') /\ n \in Nat /\ m \in Nat /\ m # 0 /\ arg_len = Len(Arguments')
        BY <2>2, <2>8, <2>9, <2>11
      <4> HIDE DEF n, m
      <4>2. n # arg_len
        BY <4>1
      <4> QED
        BY <4>2 DEF n
    <3>1. ppc' = "args"
      BY <2>2, <3>4
    <3>2. AtArgs'
      BY <1>4, <2>5, <2>7, <2>9, <2>11, <3>1 DEF AtArgs
    <3> QED
      BY <1>4, <1>5, <3>2 DEF Phase
  <2> QED
    BY <2>10, <2>11
<1> QED
  BY <1>8, <1>9, <1>10
-----------------------------------------------------------------------------
(****************************************************************************)
(* The Pico sends a stream.                                                 *)
(****************************************************************************)
\* A file cut in two is the file.
LEMMA Halves ==
  ASSUME NEW f \in Seq(Octet), NEW n \in 0..Len(f)
  PROVE  SubSeq(f, 1, n) \o SubSeq(f, n + 1, Len(f)) = f
<1> DEFINE p == SubSeq(f, 1, n)
           q == SubSeq(f, n + 1, Len(f))
<1>0. n \in Nat /\ Len(f) \in Nat /\ n <= Len(f)
  OBVIOUS
<1>1. p \in Seq(Octet) /\ Len(p) = n /\ \A i \in 1..n : p[i] = f[i]
  OBVIOUS
<1>2. q \in Seq(Octet) /\ Len(q) = Len(f) - n /\ \A i \in 1..(Len(f) - n) : q[i] = f[n + i]
  BY <1>0
<1> HIDE DEF p, q
<1>3. /\ p \o q \in Seq(Octet) /\ Len(p \o q) = Len(p) + Len(q)
      /\ \A i \in 1..Len(p) : (p \o q)[i] = p[i]
      /\ \A i \in 1..Len(q) : (p \o q)[Len(p) + i] = q[i]
  BY <1>1, <1>2, Concat
<1>4. Len(p \o q) = Len(f)
  BY <1>0, <1>1, <1>2, <1>3
<1>5. ASSUME NEW i \in 1..Len(p \o q) PROVE (p \o q)[i] = f[i]
  <2>0. i \in 1..Len(f) /\ i \in Nat
    BY <1>0, <1>4
  <2>1. CASE i <= n
    <3>1. i \in 1..n
      BY <2>0, <2>1
    <3> QED
      BY <1>1, <1>3, <3>1
  <2>2. CASE i > n
    <3> DEFINE j == i - n
    <3>1. j \in 1..(Len(f) - n) /\ i = n + j
      BY <1>0, <2>0, <2>2
    <3> HIDE DEF j
    <3> QED
      BY <1>1, <1>2, <1>3, <3>1
  <2> QED
    BY <1>0, <2>0, <2>1, <2>2
<1>6. p \o q = f
  BY <1>3, <1>4, <1>5, SameSeq
<1> QED
  BY <1>6 DEF p, q

\* A refill that succeeds moves bytes from the file to the buffer and loses
\* none.
LEMMA RefillsHold ==
  ASSUME PicoTyped, current_state = "LOADMEM", remaining > 0, NEW r \in Refills, "read" \notin Faults
  PROVE  r[1] \o r[2] = buf \o fileData
<1>0. /\ buf \in Seq(Octet) /\ fileData \in Seq(Octet) /\ remaining \in Nat
      /\ remaining <= Len(buf) + Len(fileData)
  BY StreamCapType DEF PicoTyped
<1>1. CASE buf # <<>>
  <2>1. r = <<buf, fileData>>
    BY <1>1 DEF Refills
  <2>2. r[1] = buf /\ r[2] = fileData
    BY <2>1
  <2> QED
    BY <2>2
<1>2. CASE buf = <<>>
  <2> DEFINE n == AtMost(remaining, BufSize)
  <2>1. n \in 0..Len(fileData)
    BY <1>0, <1>2, SessionAssumption DEF SessionAssumption, AtMost
  <2>2. r = <<SubSeq(fileData, 1, n), SubSeq(fileData, n + 1, Len(fileData))>>
    BY <1>2 DEF Refills
  <2> HIDE DEF n
  <2>3. SubSeq(fileData, 1, n) \o SubSeq(fileData, n + 1, Len(fileData)) = fileData
    BY <1>0, <2>1, Halves
  <2>4. r[1] = SubSeq(fileData, 1, n) /\ r[2] = SubSeq(fileData, n + 1, Len(fileData))
    BY <2>2
  <2>5. buf \o fileData = fileData
    BY <1>0, <1>2
  <2> QED
    BY <2>3, <2>4, <2>5
<1> QED
  BY <1>1, <1>2

\* The byte LOADMEM sends is the first of those it holds.
LEMMA LoadedMoves ==
  ASSUME NEW s \in Seq(Octet), NEW p \in Seq(Octet), p # <<>>, NEW q \in Seq(Octet),
         NEW n \in Nat, n > 0, n <= Len(p) + Len(q)
  PROVE  Append(s, Head(p)) \o SubSeq(Tail(p) \o q, 1, n - 1) = s \o SubSeq(p \o q, 1, n)
<1> DEFINE h == Head(p)
           t == Tail(p)
<1>1. h \in Octet /\ t \in Seq(Octet) /\ p = <<h>> \o t /\ Len(p) = 1 + Len(t)
  OBVIOUS
<1> HIDE DEF h, t
<1> DEFINE u == t \o q
<1>2. u \in Seq(Octet) /\ Len(u) = Len(t) + Len(q) /\ Len(t) \in Nat /\ Len(q) \in Nat
  BY <1>1
<1>3. <<h>> \in Seq(Octet)
  BY <1>1
<1>4. (<<h>> \o t) \o q = <<h>> \o (t \o q)
  BY <1>1, <1>3, SeqFacts
<1>5. p \o q = <<h>> \o u
  BY <1>1, <1>4
<1> HIDE DEF u
<1>6. 1 <= n /\ n <= Len(u) + 1
  BY <1>1, <1>2
<1>7. SubSeq(<<h>> \o u, 1, n) = <<h>> \o SubSeq(u, 1, n - 1)
  BY <1>1, <1>2, <1>6, Prefix
<1> DEFINE v == SubSeq(u, 1, n - 1)
<1>8. v \in Seq(Octet)
  BY <1>2, <1>6
<1>9. s \o (<<h>> \o v) = s \o SubSeq(p \o q, 1, n)
  BY <1>5, <1>7
<1> HIDE DEF v
<1>10. (s \o <<h>>) \o v = s \o (<<h>> \o v)
  BY <1>3, <1>8, SeqFacts
<1>11. Append(s, h) = s \o <<h>>
  BY <1>1
<1>12. Append(s, h) \o v = s \o SubSeq(p \o q, 1, n)
  BY <1>9, <1>10, <1>11
<1> QED
  BY <1>12 DEF v, u, h, t

\* Appending a byte.
LEMMA AppendIs ==
  ASSUME NEW s \in Seq(Octet), NEW v \in Octet
  PROVE  Append(s, v) = s \o <<v>> /\ <<v>> \in Seq(Octet)
OBVIOUS

\* A byte of LOADMEM keeps what was delivered, held and unread the whole file.
LEMMA LoadByteKeeps ==
  ASSUME Conversation, Typed', LoadByte
  PROVE  Calls' /\ Setting' /\ Phase'
<1>0. Typed /\ Calls /\ Setting /\ Phase /\ PicoTyped /\ "data" \in Tags
  BY DEF Conversation, Typed, Tags
<1>1. /\ ppc = "top" /\ current_state = "LOADMEM" /\ remaining > 0
      /\ remaining' = remaining - 1 /\ remaining \in Nat
      /\ UNCHANGED <<host, pico, hostVars, current_state, stream_file_is_open, file, fileName, dir,
                     disk, listing>>
  BY RemainingType DEF LoadByte, PicoOnly, worldVars, diskVars
<1>2. PICK r \in Refills : buf' = Tail(r[1]) /\ fileData' = r[2]
                            /\ Answer(Tagged("data", <<Head(r[1])>>), "top")
  BY DEF LoadByte
<1>3. /\ r[1] \in Seq(Octet) /\ r[1] # <<>> /\ r[2] \in Seq(Octet)
      /\ remaining <= Len(r[1]) + Len(r[2])
  BY <1>0, <1>1, RefillsType
<1> DEFINE h == Head(r[1])
<1>4. h \in Octet /\ out' = Tagged("data", <<h>>) /\ ppc' = "send" /\ after' = "top"
  BY <1>2, <1>3 DEF Answer
<1>5. out' \in Seq(Byte) /\ out' # <<>>
  <2>1. <<h>> \in Seq(Octet) /\ <<h>> # <<>>
    BY <1>4
  <2> QED
    BY <1>0, <1>4, <2>1, TaggedSeq
<1>6. /\ ToPico' = ToPico /\ Expects' = Expects /\ Goes = "top" /\ Goes' = "top"
      /\ ToHost' = ToHost \o out' /\ Calls'
  <2>1. ppc \in {"top", "exec", "forthLoop"} /\ UNCHANGED <<host, pico, hostVars>>
    BY <1>1
  <2>2. /\ ToPico' = ToPico /\ Expects' = Expects /\ out = <<>> /\ Goes = ppc
        /\ ToHost' = ToHost \o out'
        /\ (ppc' = "send" <=> out' # <<>>) => Calls'
    BY <1>0, <1>5, <2>1, PicoWorks
  <2>3. Goes' = "top"
    BY <1>4 DEF Goes
  <2> QED
    BY <1>1, <1>4, <1>5, <2>2, <2>3
<1>7. UNCHANGED <<prog, cmd, data, got, status, cnt>>
  BY <1>1 DEF hostVars
<1>8. Setting'
  BY <1>0, <1>1, <1>6, <1>7, SettingStill
<1>9. LoadHome' /\ ~Home /\ ~Saving
  BY <1>1, <1>6 DEF LoadHome, Home, Saving
<1>10. ASSUME NEW s \in Seq(Octet), Loaded(s)
       PROVE  "read" \notin Faults => Append(s, h) \o SubSeq(buf' \o fileData', 1, remaining') = Whole'
  <2> SUFFICES ASSUME "read" \notin Faults
               PROVE  Append(s, h) \o SubSeq(Tail(r[1]) \o r[2], 1, remaining - 1) = Whole'
    BY <1>1, <1>2
  <2>1. r[1] \o r[2] = buf \o fileData
    BY <1>0, <1>1, RefillsHold
  <2>2. s \o SubSeq(buf \o fileData, 1, remaining) = Whole' /\ Whole' = Whole
    BY <1>1, <1>10 DEF Loaded, Whole
  <2>3. buf \in Seq(Octet) /\ fileData \in Seq(Octet)
    BY <1>0 DEF PicoTyped
  <2> DEFINE p == r[1]
             q == r[2]
             w == Whole'
  <2>4. /\ p \in Seq(Octet) /\ p # <<>> /\ q \in Seq(Octet) /\ p \o q = buf \o fileData
        /\ remaining \in Nat /\ remaining > 0 /\ remaining <= Len(p) + Len(q)
        /\ s \o SubSeq(buf \o fileData, 1, remaining) = w
    BY <1>1, <1>3, <2>1, <2>2
  <2> HIDE DEF p, q, w
  <2>5. PICK n \in Nat : n = remaining
    BY <1>1
  <2>6. n > 0 /\ n <= Len(p) + Len(q)
    BY <2>4, <2>5
  <2>7. Append(s, Head(p)) \o SubSeq(Tail(p) \o q, 1, n - 1) = s \o SubSeq(p \o q, 1, n)
    BY <2>4, <2>6, LoadedMoves, Zenon
  <2>8. Append(s, Head(p)) \o SubSeq(Tail(p) \o q, 1, remaining - 1) = w
    BY <2>4, <2>5, <2>7
  <2> QED
    BY <2>8 DEF p, q, w
<1> HIDE DEF h
<1>11. ASSUME NEW ds \in Seq(Octet)
       PROVE  /\ Append(ds, h) \in Seq(Octet) /\ Len(Append(ds, h)) = Len(ds) + 1
              /\ Bytes(ds) \o out' = Bytes(Append(ds, h))
              /\ Bytes(ds) \in Seq(Byte)
  <2>1. Append(ds, h) \in Seq(Octet) /\ Len(Append(ds, h)) = Len(ds) + 1
    BY <1>4
  <2>2. Bytes(ds) \o Tagged("data", <<h>>) = Bytes(Append(ds, h))
    BY <1>4, BytesAppend
  <2>3. Bytes(ds) \in Seq(Byte)
    BY <1>0, TaggedSeq DEF Bytes
  <2> QED
    BY <1>4, <2>1, <2>2, <2>3
<1>12. ASSUME NEW s \in Octet, NEW n \in 0..StreamCap, NEW ds \in Seq(Octet), Told(s, n, ds)
       PROVE  Told(s, n, Append(ds, h))'
  <2>1. /\ s = OK /\ cmd = Commands.loadmem /\ n = Len(ds) + remaining
        /\ Loaded(ds) /\ (prog = "run" => n # 1)
    BY <1>9, <1>12 DEF Told
  <2>2. n = Len(Append(ds, h)) + remaining'
    <3>1. Len(ds) \in Nat /\ Len(Append(ds, h)) = Len(ds) + 1
      BY <1>11
    <3> QED
      BY <1>1, <2>1, <3>1
  <2>3. "read" \notin Faults => Append(ds, h) \o SubSeq(buf' \o fileData', 1, remaining') = Whole'
    BY <1>10, <2>1
  <2> DEFINE x == Append(ds, h)
  <2>5. s = OK /\ cmd' = Commands.loadmem /\ n = Len(x) + remaining' /\ LoadHome'
        /\ ("read" \notin Faults => x \o SubSeq(buf' \o fileData', 1, remaining') = Whole')
        /\ (prog' = "run" => n # 1)
    BY <1>7, <1>9, <2>1, <2>2, <2>3
  <2> QED
    BY <2>5 DEF Told, Loaded
<1>13. AtStatus \/ AtLo \/ AtHi \/ Loading
  BY <1>0, <1>1, <1>6, <1>9 DEF Phase, Resting, Asking, AtLen, AtArgs, AtExec, Receiving, Streaming,
       Ending, AtFinalStatus, AtFinalLo, AtFinalHi
<1>14. CASE AtStatus
  <2>1. PICK s \in Octet, n \in 0..StreamCap, ds \in Seq(Octet) :
               Told(s, n, ds) /\ ToHost = Response(s, n) \o Bytes(ds)
    BY <1>14 DEF AtStatus
  <2>2. ToHost' = Response(s, n) \o Bytes(Append(ds, h))
    <3>1. Response(s, n) \in Seq(Byte)
      BY ResponseType
    <3>2. (Response(s, n) \o Bytes(ds)) \o out' = Response(s, n) \o (Bytes(ds) \o out')
      BY <1>5, <1>11, <3>1, Assoc, Zenon
    <3> QED
      BY <1>6, <1>11, <2>1, <3>2
  <2>3. Told(s, n, Append(ds, h))' /\ Append(ds, h) \in Seq(Octet)
    BY <1>11, <1>12, <2>1
  <2>4. Answering' /\ Expects' = "status"
    BY <1>6, <1>7, <1>14 DEF AtStatus, Answering
  <2>5. AtStatus'
    BY <2>2, <2>3, <2>4 DEF AtStatus
  <2> QED
    BY <1>6, <1>8, <2>5 DEF Phase
<1>15. CASE AtLo
  <2>1. PICK n \in 0..StreamCap, ds \in Seq(Octet) :
               Told(status, n, ds) /\ ToHost = Length(n) \o Bytes(ds)
    BY <1>15 DEF AtLo
  <2>2. ToHost' = Length(n) \o Bytes(Append(ds, h))
    <3>1. Length(n) \in Seq(Byte)
      BY LengthType
    <3>2. (Length(n) \o Bytes(ds)) \o out' = Length(n) \o (Bytes(ds) \o out')
      BY <1>5, <1>11, <3>1, Assoc, Zenon
    <3> QED
      BY <1>6, <1>11, <2>1, <3>2
  <2>3. Told(status, n, Append(ds, h))' /\ Append(ds, h) \in Seq(Octet)
    <3>1. status \in Octet
      BY <1>0, StatusType
    <3>2. PICK s \in Octet : s = status
      BY <3>1
    <3>3. Told(s, n, ds)
      BY <2>1, <3>2
    <3>4. Told(s, n, Append(ds, h))' /\ s = status'
      BY <1>7, <1>12, <3>2, <3>3
    <3> QED
      BY <1>11, <3>4
  <2>4. Answering' /\ Expects' = "lo"
    BY <1>6, <1>7, <1>15 DEF AtLo, Answering
  <2>5. AtLo'
    BY <2>2, <2>3, <2>4 DEF AtLo
  <2> QED
    BY <1>6, <1>8, <2>5 DEF Phase
<1>16. CASE AtHi
  <2>1. PICK n \in 0..StreamCap, ds \in Seq(Octet) :
               /\ Told(status, n, ds) /\ cnt = n % Base
               /\ ToHost = Tagged("hi", <<n \div Base>>) \o Bytes(ds)
    BY <1>16 DEF AtHi
  <2>2. ToHost' = Tagged("hi", <<n \div Base>>) \o Bytes(Append(ds, h))
    <3> DEFINE t == Tagged("hi", <<n \div Base>>)
    <3>1. t \in Seq(Byte)
      BY LengthBytes, OneByte
    <3> HIDE DEF t
    <3>2. (t \o Bytes(ds)) \o out' = t \o (Bytes(ds) \o out')
      BY <1>5, <1>11, <3>1, Assoc, Zenon
    <3>3. ToHost' = t \o Bytes(Append(ds, h))
      BY <1>6, <1>11, <2>1, <3>2 DEF t
    <3> QED
      BY <3>3 DEF t
  <2>3. Told(status, n, Append(ds, h))' /\ Append(ds, h) \in Seq(Octet)
    <3>1. status \in Octet
      BY <1>0, StatusType
    <3>2. PICK s \in Octet : s = status
      BY <3>1
    <3>3. Told(s, n, ds)
      BY <2>1, <3>2
    <3>4. Told(s, n, Append(ds, h))' /\ s = status'
      BY <1>7, <1>12, <3>2, <3>3
    <3> QED
      BY <1>11, <3>4
  <2>4. Answering' /\ Expects' = "hi" /\ cnt' = n % Base
    BY <1>6, <1>7, <1>16, <2>1 DEF AtHi, Answering
  <2>5. AtHi'
    BY <2>2, <2>3, <2>4 DEF AtHi
  <2> QED
    BY <1>6, <1>8, <2>5 DEF Phase
<1>17. CASE Loading
  <2>1. PICK ds \in Seq(Octet) : /\ ToHost = Bytes(ds) /\ cnt = Len(ds) + remaining
                                 /\ Loads /\ Loaded(got \o ds)
    BY <1>9, <1>17 DEF Loading
  <2>2. ToHost' = Bytes(Append(ds, h)) /\ Append(ds, h) \in Seq(Octet)
    BY <1>6, <1>11, <2>1
  <2>3. cnt' = Len(Append(ds, h)) + remaining'
    <3>1. Len(ds) \in Nat /\ Len(Append(ds, h)) = Len(ds) + 1
      BY <1>11
    <3> QED
      BY <1>1, <1>7, <2>1, <3>1
  <2>4. got \o ds \in Seq(Octet) /\ got \in Seq(Octet)
    BY GotType
  <2>5. "read" \notin Faults =>
           Append(got \o ds, h) \o SubSeq(buf' \o fileData', 1, remaining') = Whole'
    BY <1>10, <2>1, <2>4
  <2>6. got' \o Append(ds, h) = Append(got \o ds, h)
    <3>1. Append(ds, h) = ds \o <<h>> /\ <<h>> \in Seq(Octet) /\ Append(got \o ds, h) = (got \o ds) \o <<h>>
      BY <1>4, <2>4, AppendIs
    <3>2. (got \o ds) \o <<h>> = got \o (ds \o <<h>>)
      BY <2>4, <3>1, SeqFacts
    <3> QED
      BY <1>7, <3>1, <3>2
  <2>7. Loads' /\ Expects' = "load" /\ ToPico' = <<>> /\ status' = OK /\ cnt' > 0
    BY <1>6, <1>7, <1>17, <2>1 DEF Loads, Loading
  <2> DEFINE x == Append(ds, h)
  <2>8. x \in Seq(Octet) /\ ToHost' = Bytes(x) /\ cnt' = Len(x) + remaining'
        /\ ("read" \notin Faults =>
              (got' \o x) \o SubSeq(buf' \o fileData', 1, remaining') = Whole')
    BY <2>2, <2>3, <2>5, <2>6
  <2> HIDE DEF x
  <2>9. Loading'
    BY <1>9, <2>7, <2>8 DEF Loading, Loaded
  <2> QED
    BY <1>6, <1>8, <2>9 DEF Phase
<1> QED
  BY <1>13, <1>14, <1>15, <1>16, <1>17
-----------------------------------------------------------------------------
(****************************************************************************)
(* The handlers.                                                            *)
(****************************************************************************)
\* Where a handler begins.
LEMMA ExecStarts ==
  ASSUME Conversation, Exec
  PROVE  /\ ppc = "exec" /\ Requesting /\ remaining = 0 /\ ToPico = <<>> /\ args = Arguments
         /\ arg_len = Len(Arguments) /\ cmd_id = cmd /\ current_state = "IDLE"
         /\ stream_file_is_open = FALSE /\ file = "closed" /\ DiskAfterDangling = disk
         /\ UNCHANGED <<host, pico, hostVars, worldVars, requestVars>>
<1>1. ppc = "exec" /\ UNCHANGED <<host, pico, hostVars, worldVars, requestVars>>
  BY DEF Exec, ExecStat, ExecListSize, ExecList, ExecOther, ExecSavemem, ExecLoadmem,
         ExecForthRead, ExecForthWrite, Handles, PicoOnly
<1>2. Goes = "exec"
  BY <1>1 DEF Goes
<1>3. AtExec
  BY <1>2 DEF Conversation, Phase, Resting, Asking, AtLen, AtArgs, AtStatus, AtLo, AtHi, Told,
       Receiving, Loading, LoadHome, Streaming, Saving, Home, Ending, AtFinalStatus, AtFinalLo, AtFinalHi
<1>4. current_state = "IDLE" /\ stream_file_is_open = FALSE /\ file = "closed"
  BY <1>1, Zenon DEF Conversation, Typed, PicoTyped, Setting
<1>5. DiskAfterDangling = disk
  BY <1>4 DEF DiskAfterDangling
<1> QED
  BY <1>1, <1>3, <1>4, <1>5 DEF AtExec

\* Where it ends: the answer is what the host is told.
LEMMA ExecAnswers ==
  ASSUME Conversation, Exec, ppc' = "send",
         NEW s \in Octet, NEW n \in 0..StreamCap, NEW ds \in Seq(Octet),
         out' = Response(s, n) \o Bytes(ds), Told(s, n, ds)', Setting'
  PROVE  Calls' /\ Setting' /\ Phase'
<1>1. /\ ppc = "exec" /\ Requesting /\ ToPico = <<>>
      /\ UNCHANGED <<host, pico, hostVars>>
  BY ExecStarts
<1>2. Response(s, n) \o Bytes(ds) \in Seq(Byte) /\ Response(s, n) \o Bytes(ds) # <<>>
  <2>1. Bytes(ds) \in Seq(Byte)
    BY TaggedSeq DEF Bytes, Tags
  <2>2. Response(s, n) \in Seq(Byte)
    BY ResponseType
  <2>3. Response(s, n) \o Bytes(ds) # <<>>
    BY <2>1, AnswerHeads, Zenon
  <2> HIDE DEF Byte
  <2>4. Response(s, n) \o Bytes(ds) \in Seq(Byte)
    BY <2>1, <2>2, Concat, Zenon
  <2> QED
    BY <2>3, <2>4
<1>3. /\ ToPico' = ToPico /\ Expects' = Expects
      /\ (ToHost = <<>> => ToHost' = out')
      /\ ((ppc' = "send" <=> out' # <<>>) => Calls')
  <2>1. Typed /\ Calls /\ ppc \in {"top", "exec", "forthLoop"} /\ out' \in Seq(Byte)
        /\ UNCHANGED <<host, pico, hostVars>>
    BY <1>1, <1>2 DEF Conversation
  <2> QED
    BY <2>1, PicoWorks
<1>4. Calls' /\ ToHost' = out' /\ got' = <<>> /\ Expects' = "status" /\ ToPico' = <<>>
  BY <1>1, <1>2, <1>3 DEF Requesting, hostVars
<1>5. AtStatus'
  BY <1>4 DEF AtStatus, Answering
<1> QED
  BY <1>4, <1>5 DEF Phase

\* A refusal, with whatever of the disk it has changed.
LEMMA ExecRefuses ==
  ASSUME Conversation, Exec, NEW s \in Octet, s # OK, Reply(s, <<>>),
         UNCHANGED <<current_state, remaining, stream_file_is_open, file>>,
         (disk' = disk /\ dir' = dir) \/ prog # "run"
  PROVE  Calls' /\ Setting' /\ Phase'
<1>1. /\ ppc = "exec" /\ Requesting /\ remaining = 0 /\ current_state = "IDLE"
      /\ UNCHANGED <<host, pico, hostVars, worldVars>>
  BY ExecStarts
<1>2. /\ ppc' = "send" /\ after' = "top" /\ out' = Response(s, 0) \o Bytes(<<>>)
  BY DEF Reply, Answer, Bytes
<1>3. Goes' = "top" /\ Home'
  BY <1>1, <1>2 DEF Goes, Home
<1>4. Told(s, 0, <<>>)'
  BY <1>3 DEF Told
<1>5. Setting'
  <2>1. UNCHANGED <<prog, cmd, data, listing, Expects>>
    BY <1>1 DEF hostVars, worldVars, Expects
  <2>2. Setting /\ CommandFits'
    BY <2>1 DEF Conversation, Setting, CommandFits
  <2> QED
    BY <2>1, <2>2 DEF Setting
<1>6. 0 \in 0..StreamCap /\ <<>> \in Seq(Octet)
  BY StreamCapType
<1> QED
  BY <1>2, <1>4, <1>5, <1>6, ExecAnswers

\* A refusal is an answer the 65C02 is told.
LEMMA RefusesKeep ==
  ASSUME Conversation, Exec, NEW early, NEW ss \in SUBSET {ERR, NO_FILE}, Refuse(early, ss)
  PROVE  Calls' /\ Setting' /\ Phase'
<1>1. /\ current_state = "IDLE" /\ stream_file_is_open = FALSE /\ file = "closed"
      /\ DiskAfterDangling = disk
  BY ExecStarts
<1>2. ERR \in Octet /\ NO_FILE \in Octet /\ ERR # OK /\ NO_FILE # OK
  BY ConstantTypes DEF ERR, NO_FILE, OK
<1>3. PICK s \in {ERR, NO_FILE} : Reply(s, <<>>)
  BY DEF Refuse
<1>4. UNCHANGED <<current_state, remaining, stream_file_is_open, file, disk, dir>>
  BY <1>1 DEF Refuse, streamVars, diskVars
<1> QED
  BY <1>2, <1>3, <1>4, ExecRefuses

\* A command that leaves the streams and the disk alone.
LEMMA PlainRepliesKeep ==
  ASSUME Conversation, Exec, UNCHANGED <<streamVars, diskVars>>,
         NEW s \in Octet, NEW p \in Seq(Octet), Len(p) \in 0..StreamCap, Reply(s, p),
         \/ s # OK /\ p = <<>>
         \/ s = OK /\ cmd = Commands.stat /\ Len(p) = 1
         \/ s = OK /\ cmd = Commands.listSize /\ p = ListingSize
         \/ s = OK /\ cmd = Commands.list /\ Len(p) = listing
  PROVE  Calls' /\ Setting' /\ Phase'
<1>1. /\ ppc = "exec" /\ Requesting /\ remaining = 0 /\ current_state = "IDLE"
      /\ UNCHANGED <<host, pico, hostVars, worldVars>>
  BY ExecStarts
<1>2. /\ ppc' = "send" /\ after' = "top" /\ out' = Response(s, Len(p)) \o Bytes(p)
  BY DEF Reply, Answer, Bytes
<1>3. UNCHANGED <<current_state, remaining, stream_file_is_open, file, dir, disk, prog, cmd, data, listing, Expects>>
  BY <1>1 DEF streamVars, diskVars, hostVars, worldVars, Expects
<1>4. Goes' = "top" /\ Home'
  BY <1>1, <1>2, <1>3 DEF Goes, Home
<1>5. ListingSize' = ListingSize
  BY <1>3 DEF ListingSize
<1>6. Told(s, Len(p), p)'
  BY <1>3, <1>4, <1>5 DEF Told
<1>7. Setting'
  BY <1>3, SettingStill DEF Conversation
<1> QED
  BY <1>2, <1>6, <1>7, ExecAnswers

\* The handlers that open no stream answer and are done.
LEMMA ExecPlainKeeps ==
  ASSUME Conversation, ExecStat \/ ExecListSize \/ ExecList \/ ExecOther
  PROVE  Calls' /\ Setting' /\ Phase'
<1>1. Exec /\ UNCHANGED <<streamVars, diskVars>>
  BY DEF Exec, ExecStat, ExecListSize, ExecList, ExecOther
<1>2. cmd_id = cmd
  BY <1>1, ExecStarts
<1>3. /\ ERR \in Octet /\ NO_FILE \in Octet /\ OK \in Octet /\ ERR # OK /\ NO_FILE # OK
      /\ <<>> \in Seq(Octet) /\ Len(<<>>) = 0 /\ 0 \in 0..StreamCap
  BY ConstantTypes, StreamCapType DEF ERR, NO_FILE, OK
<1>4. ASSUME NEW s \in {ERR, NO_FILE}, Reply(s, <<>>)
      PROVE  Calls' /\ Setting' /\ Phase'
  BY <1>1, <1>3, <1>4, PlainRepliesKeep
<1>5. listing \in 1..StreamCap
  BY SessionAssumption DEF SessionAssumption, StreamCap, Conversation, Typed, WorldTyped
<1>6. CASE ExecStat
  <2>1. Reply(ERR, <<>>) \/ Reply(NO_FILE, <<>>) \/ Reply(OK, <<1>>)
    BY <1>6 DEF ExecStat
  <2>2. <<1>> \in Seq(Octet) /\ Len(<<1>>) = 1 /\ 1 \in 0..StreamCap
    BY <1>5, StreamCapType DEF Octet
  <2>3. cmd = Commands.stat
    BY <1>2, <1>6 DEF ExecStat, Handles
  <2> QED
    BY <1>1, <1>3, <1>4, <2>1, <2>2, <2>3, PlainRepliesKeep
<1>7. CASE ExecListSize
  <2>1. Reply(ERR, <<>>) \/ Reply(OK, ListingSize)
    BY <1>7 DEF ExecListSize, ListingSize
  <2>2. listing % Base \in Octet /\ listing \div Base \in Octet
    BY <1>5, LengthBytes
  <2>3. ListingSize \in Seq(Octet) /\ Len(ListingSize) = 2
    BY <2>2 DEF ListingSize
  <2>4. 2 \in 0..StreamCap
    <3>1. Base \in Nat /\ 2 <= Base
      BY SessionAssumption DEF SessionAssumption
    <3>2. Base * Base >= 4
      BY <3>1
    <3> QED
      BY <3>1, <3>2 DEF StreamCap
  <2>5. cmd = Commands.listSize
    BY <1>2, <1>7 DEF ExecListSize, Handles
  <2> QED
    BY <1>1, <1>3, <1>4, <2>1, <2>3, <2>4, <2>5, PlainRepliesKeep
<1>8. CASE ExecList
  <2>1. Reply(ERR, <<>>) \/ Reply(OK, Zeros(listing))
    BY <1>8 DEF ExecList
  <2>2. Zeros(listing) \in Seq(Octet) /\ Len(Zeros(listing)) = listing /\ listing \in 0..StreamCap
    BY <1>5, StreamCapType DEF Zeros, Octet
  <2>3. cmd = Commands.list
    BY <1>2, <1>8 DEF ExecList, Handles
  <2> QED
    BY <1>1, <1>3, <1>4, <2>1, <2>2, <2>3, PlainRepliesKeep
<1>9. CASE ExecOther
  <2>1. Reply(ERR, <<>>)
    BY <1>9 DEF ExecOther
  <2> QED
    BY <1>4, <2>1
<1> QED
  BY <1>6, <1>7, <1>8, <1>9

\* A stream is opened and announced.
LEMMA OpeningKeeps ==
  ASSUME Conversation, Exec, NEW fn, NEW mode \in {"read", "write"}, NEW contents,
         NEW state \in {"SAVEMEM", "LOADMEM", "FORTH"}, NEW n, NEW m \in 0..StreamCap,
         OpenStream(fn, mode, contents, state, n), Answer(Response(OK, m), "top"),
         Told(OK, m, <<>>)', state = "LOADMEM" => mode = "read" /\ fn \in dir
  PROVE  Calls' /\ Setting' /\ Phase'
<1>1. /\ ppc = "exec" /\ Requesting /\ DiskAfterDangling = disk /\ current_state = "IDLE"
      /\ UNCHANGED <<host, pico, hostVars, worldVars>>
  BY ExecStarts
<1>2. /\ ppc' = "send" /\ out' = Response(OK, m)
      /\ stream_file_is_open' = TRUE /\ file' = mode /\ current_state' = state
      /\ dir' = dir \cup {fn} /\ (fn \in dir => disk' = disk)
  BY <1>1 DEF Answer, OpenStream
<1>3. OK \in Octet /\ <<>> \in Seq(Octet)
  BY ConstantTypes
<1>4. out' = Response(OK, m) \o Bytes(<<>>)
  <2>1. Response(OK, m) \in Seq(Byte)
    BY <1>3, ResponseType
  <2>2. Response(OK, m) \o <<>> = Response(OK, m)
    BY <2>1
  <2> QED
    BY <1>2, <2>2, NoBytes
<1>5. UNCHANGED <<prog, cmd, data, listing, Expects>>
  BY <1>1 DEF hostVars, worldVars, Expects
<1>6. Setting'
  <2>1. Setting /\ CommandFits'
    BY <1>5 DEF Conversation, Setting, CommandFits
  <2>2. prog' = "run" => fn \in dir /\ state = "LOADMEM"
    <3>1. Told(OK, m, <<>>)' => cmd' = Commands.loadmem \/ Saves' \/ Home'
      BY DEF Told
    <3>2. ~Home' \/ (state = "LOADMEM")
      BY <1>2 DEF Home
    <3>3. CASE state = "LOADMEM"
      BY <3>3
    <3>4. CASE state # "LOADMEM"
      <4>1. ~LoadHome'
        BY <1>2, <3>2, <3>4 DEF LoadHome
      <4>2. Saves'
        BY <3>2, <3>4, <4>1 DEF Told, OK
      <4> QED
        BY <4>2 DEF Saves
    <3> QED
      BY <3>3, <3>4
  <2>3. prog' = "run" /\ Expects' \notin {"idle", "load"} /\ "file" \in dir' => Len(disk'["file"]) # 1
    <3> SUFFICES ASSUME prog' = "run", Expects' \notin {"idle", "load"}, "file" \in dir'
                 PROVE  Len(disk'["file"]) # 1
      OBVIOUS
    <3>1. disk' = disk /\ dir' = dir
      BY <1>2, <2>2
    <3> QED
      BY <1>5, <2>1, <3>1 DEF Setting
  <2> QED
    BY <1>2, <1>5, <2>1, <2>3 DEF Setting
<1> QED
  BY <1>2, <1>3, <1>4, <1>6, ExecAnswers

\* SAVEMEM opens its file and announces a stream, or refuses,
LEMMA ExecSavememKeeps ==
  ASSUME Conversation, ExecSavemem
  PROVE  Calls' /\ Setting' /\ Phase'
<1>1. Exec
  BY DEF Exec
<1>2. /\ ppc = "exec" /\ cmd_id = cmd /\ args = Arguments /\ current_state = "IDLE"
      /\ UNCHANGED <<host, pico, hostVars, worldVars>>
  BY <1>1, ExecStarts
<1>3. CommandFits /\ Setting
  BY DEF Conversation, Setting
<1>4. cmd = Commands.savemem
  BY <1>2 DEF ExecSavemem, Handles
<1>5. prog = "savemem"
  BY <1>3, <1>4, Fits
<1>6. Len(data) \in 1..StreamCap
  BY <1>3, <1>5 DEF Setting
<1>7. PICK n \in SaveLength :
         \/ Refuse(~fs_mounted \/ n = 0, IF "open" \in Faults THEN {ERR, NO_FILE} ELSE {})
         \/ /\ fs_mounted /\ n # 0
            /\ OpenStream("file", "write", <<>>, "SAVEMEM", n)
            /\ Answer(Response(OK, 0), "top")
  BY DEF ExecSavemem
<1>8. n = Len(data)
  <2>1. args = <<SomeName, Len(data) % Base, Len(data) \div Base>>
    BY <1>2, <1>5 DEF Arguments
  <2>2. (Len(data) % Base) + (Base * (Len(data) \div Base)) = Len(data)
    BY <1>6, StreamCapType, LengthDecoded
  <2>3. Len(args) >= 3 /\ args[2] = Len(data) % Base /\ args[3] = Len(data) \div Base
    BY <2>1
  <2>4. n = Len(data) % (Base * Base)
    BY <1>7, <2>2, <2>3 DEF SaveLength
  <2> DEFINE L == Len(data)
             BB == Base * Base
  <2>5. L \in Nat /\ BB \in Nat /\ L < BB
    BY <1>6, SessionAssumption DEF SessionAssumption, StreamCap
  <2>6. n = L % BB
    BY <2>4
  <2> HIDE DEF L, BB
  <2>7. n = L
    BY <2>5, <2>6
  <2> QED
    BY <2>7 DEF L
<1>9. CASE Refuse(~fs_mounted \/ n = 0, IF "open" \in Faults THEN {ERR, NO_FILE} ELSE {})
  <2>1. (IF "open" \in Faults THEN {ERR, NO_FILE} ELSE {}) \in SUBSET {ERR, NO_FILE}
    OBVIOUS
  <2> QED
    BY <1>1, <1>9, <2>1, RefusesKeep
<1>10. CASE OpenStream("file", "write", <<>>, "SAVEMEM", n) /\ Answer(Response(OK, 0), "top")
  <2>1. /\ file' = "write" /\ fileName' = "file" /\ fileData' = <<>> /\ current_state' = "SAVEMEM"
        /\ remaining' = n /\ buf' = <<>> /\ ppc' = "send" /\ after' = "top"
    BY <1>10 DEF OpenStream, Answer
  <2>2. prog' = "savemem" /\ data' = data
    BY <1>2, <1>5 DEF hostVars
  <2>3. Goes' = "top" /\ Target' = "file" /\ Saves'
    BY <2>1, <2>2 DEF Goes, Target, Saves
  <2>4. Saving'
    BY <2>1, <2>2, <2>3 DEF Saving
  <2>5. Told(OK, 0, <<>>)'
    BY <1>8, <2>1, <2>2, <2>3, <2>4 DEF Told
  <2>6. 0 \in 0..StreamCap
    BY StreamCapType
  <2> QED
    BY <1>1, <1>10, <2>5, <2>6, OpeningKeeps
<1> QED
  BY <1>7, <1>9, <1>10

\* FORTH write does,
LEMMA ExecForthWriteKeeps ==
  ASSUME Conversation, ExecForthWrite
  PROVE  Calls' /\ Setting' /\ Phase'
<1>1. Exec
  BY DEF Exec
<1>2. /\ ppc = "exec" /\ cmd_id = cmd /\ current_state = "IDLE"
      /\ UNCHANGED <<host, pico, hostVars, worldVars>>
  BY <1>1, ExecStarts
<1>3. CommandFits /\ Setting
  BY DEF Conversation, Setting
<1>4. cmd = Commands.forthWrite
  BY <1>2 DEF ExecForthWrite, Handles
<1>5. prog = "forthWrite"
  BY <1>3, <1>4, Fits
<1>6. Len(data) = ForthSize /\ ForthSize > 0
  BY <1>3, <1>5, SessionAssumption DEF Setting, SessionAssumption
<1>9. CASE Refuse(~fs_mounted, IF "open" \in Faults \/ arg_len < 2 THEN {ERR} ELSE {})
  <2>1. (IF "open" \in Faults \/ arg_len < 2 THEN {ERR} ELSE {}) \in SUBSET {ERR, NO_FILE}
    OBVIOUS
  <2> QED
    BY <1>1, <1>9, <2>1, RefusesKeep
<1>10. CASE OpenStream("block", "write", <<>>, "FORTH", ForthSize) /\ Answer(Response(OK, 0), "top")
  <2>1. /\ file' = "write" /\ fileName' = "block" /\ fileData' = <<>> /\ current_state' = "FORTH"
        /\ remaining' = ForthSize /\ buf' = <<>> /\ ppc' = "send" /\ after' = "top"
    BY <1>10 DEF OpenStream, Answer
  <2>2. prog' = "forthWrite" /\ data' = data
    BY <1>2, <1>5 DEF hostVars
  <2>3. Goes' = "top" /\ Target' = "block" /\ Saves'
    BY <2>1, <2>2 DEF Goes, Target, Saves
  <2>4. Saving'
    BY <1>6, <2>1, <2>2, <2>3 DEF Saving
  <2>5. Told(OK, 0, <<>>)'
    BY <1>6, <2>1, <2>2, <2>3, <2>4 DEF Told
  <2>6. 0 \in 0..StreamCap
    BY StreamCapType
  <2> QED
    BY <1>1, <1>10, <2>5, <2>6, OpeningKeeps
<1> QED
  BY <1>9, <1>10 DEF ExecForthWrite

\* and LOADMEM: the length it answers is what its stream will be.
LEMMA ExecLoadmemKeeps ==
  ASSUME Conversation, ExecLoadmem
  PROVE  Calls' /\ Setting' /\ Phase'
<1>1. Exec
  BY DEF Exec
<1>2. /\ ppc = "exec" /\ cmd_id = cmd /\ current_state = "IDLE" /\ Requesting /\ DiskAfterDangling = disk
      /\ UNCHANGED <<host, pico, hostVars, worldVars>>
  BY <1>1, ExecStarts
<1>3. CommandFits /\ Setting
  BY DEF Conversation, Setting
<1>4. cmd = Commands.loadmem
  BY <1>2 DEF ExecLoadmem, Handles
<1>9. CASE Refuse(~fs_mounted, (IF "open" \in Faults THEN {ERR} ELSE {})
                     \cup (IF "file" \in dir THEN {} ELSE {NO_FILE}))
  <2>1. (IF "open" \in Faults THEN {ERR} ELSE {}) \cup (IF "file" \in dir THEN {} ELSE {NO_FILE})
          \in SUBSET {ERR, NO_FILE}
    OBVIOUS
  <2> QED
    BY <1>1, <1>9, <2>1, RefusesKeep
<1> DEFINE contents == disk["file"]
           size == AtMost(Len(contents), StreamCap)
<1>10. CASE /\ "file" \in dir
            /\ OpenStream("file", "read", contents, "LOADMEM", size)
            /\ Answer(Response(OK, size), "top")
  <2>0. contents \in Seq(Octet) /\ Len(contents) \in Nat
    BY DEF Conversation, Typed, PicoTyped, Names
  <2>1. /\ file' = "read" /\ fileName' = "file" /\ fileData' = contents /\ current_state' = "LOADMEM"
        /\ remaining' = size /\ buf' = <<>> /\ ppc' = "send" /\ after' = "top" /\ disk' = disk
    BY <1>2, <1>10 DEF OpenStream, Answer
  <2>2. prog' = prog /\ cmd' = Commands.loadmem
    BY <1>2, <1>4 DEF hostVars
  <2>3. Goes' = "top" /\ LoadHome'
    BY <2>1 DEF Goes, LoadHome
  <2>4. size \in 0..StreamCap /\ size \in Nat
    BY <2>0, StreamCapType DEF AtMost
  <2>5. Loaded(<<>>)'
    <3>1. Whole' = SubSeq(contents, 1, size)
      BY <2>1 DEF Whole
    <3>2. <<>> \o contents = contents
      BY <2>0
    <3>3. SubSeq(contents, 1, size) \in Seq(Octet)
      BY <2>0, <2>4 DEF AtMost
    <3> HIDE DEF contents, size
    <3>4. <<>> \o SubSeq(contents, 1, size) = SubSeq(contents, 1, size)
      BY <3>3, SeqFacts
    <3> QED
      BY <2>1, <3>1, <3>2, <3>4 DEF Loaded
  <2>6. prog = "run" => size # 1
    <3> SUFFICES ASSUME prog = "run" PROVE size # 1
      OBVIOUS
    <3>1. Len(contents) # 1
      BY <1>2, <1>3, <1>10 DEF Setting, Requesting
    <3>2. StreamCap # 1
      <4>1. Base \in Nat /\ 2 <= Base
        BY SessionAssumption DEF SessionAssumption
      <4>2. Base * Base >= 4
        BY <4>1
      <4> QED
        BY <4>1, <4>2 DEF StreamCap
    <3> QED
      BY <3>1, <3>2 DEF AtMost
  <2>9. PICK n \in 0..StreamCap, c \in Seq(Octet) : n = size /\ c = contents
    BY <2>0, <2>4
  <2> HIDE DEF contents, size
  <2>7. n = Len(<<>>) + remaining'
    BY <2>1, <2>4, <2>9
  <2>8. Told(OK, n, <<>>)'
    BY <2>2, <2>3, <2>5, <2>6, <2>7, <2>9 DEF Told
  <2>10. OpenStream("file", "read", c, "LOADMEM", n) /\ Answer(Response(OK, n), "top")
    BY <1>10, <2>9
  <2> QED
    BY <1>1, <1>10, <2>8, <2>10, OpeningKeeps
<1> QED
  BY <1>2, <1>9, <1>10 DEF ExecLoadmem

\* A FORTH read answers with the block, zeros after its end.
LEMMA ExecForthReadKeeps ==
  ASSUME Conversation, ExecForthRead
  PROVE  Calls' /\ Setting' /\ Phase'
<1>1. Exec
  BY DEF Exec
<1>2. /\ ppc = "exec" /\ cmd_id = cmd /\ current_state = "IDLE" /\ Requesting /\ DiskAfterDangling = disk
      /\ remaining = 0 /\ stream_file_is_open = FALSE /\ file = "closed"
      /\ UNCHANGED <<host, pico, hostVars, worldVars>>
  BY <1>1, ExecStarts
<1>3. CommandFits /\ Setting
  BY DEF Conversation, Setting
<1>4. cmd = Commands.forthRead
  BY <1>2 DEF ExecForthRead, Handles
<1>5. prog = "forthRead"
  BY <1>3, <1>4, Fits
<1>9. CASE Refuse(~fs_mounted, IF "open" \in Faults \/ arg_len < 2 THEN {ERR} ELSE {})
  <2>1. (IF "open" \in Faults \/ arg_len < 2 THEN {ERR} ELSE {}) \in SUBSET {ERR, NO_FILE}
    OBVIOUS
  <2> QED
    BY <1>1, <1>9, <2>1, RefusesKeep
<1>10. CASE /\ \E stored \in
                IF "block" \in dir THEN {DiskAfterDangling["block"]}
                ELSE {Zeros(ForthSize)} \cup
                     (IF Faults \cap {"write", "close"} = {} THEN {} ELSE {<<>>}) :
               /\ disk' = [DiskAfterDangling EXCEPT !["block"] = stored]
               /\ \/ Reply(OK, SubSeq(stored \o Zeros(ForthSize), 1, ForthSize))
                  \/ Faults \cap {"open", "read"} # {} /\ Reply(ERR, <<>>)
            /\ stream_file_is_open' = FALSE /\ file' = "closed"
            /\ UNCHANGED <<current_state, buf, remaining, fileName>>
  <2>1. PICK stored \in
                IF "block" \in dir THEN {disk["block"]}
                ELSE {Zeros(ForthSize)} \cup
                     (IF Faults \cap {"write", "close"} = {} THEN {} ELSE {<<>>}) :
               /\ disk' = [disk EXCEPT !["block"] = stored]
               /\ \/ Reply(OK, SubSeq(stored \o Zeros(ForthSize), 1, ForthSize))
                  \/ Reply(ERR, <<>>)
    BY <1>2, <1>10
  <2>2. UNCHANGED <<current_state, remaining, stream_file_is_open, file>>
    BY <1>2, <1>10
  <2>3. CASE Reply(ERR, <<>>)
    <3>1. ERR \in Octet /\ ERR # OK
      BY ConstantTypes DEF ERR, OK
    <3> QED
      BY <1>1, <1>5, <2>2, <2>3, <3>1, ExecRefuses
  <2>4. CASE Reply(OK, SubSeq(stored \o Zeros(ForthSize), 1, ForthSize))
    <3> DEFINE z == Zeros(ForthSize)
               ds == SubSeq(stored \o z, 1, ForthSize)
    <3>1. disk \in [Names -> Seq(Octet)] /\ ForthSize \in Nat /\ ForthSize \in 0..StreamCap
      BY SessionAssumption DEF SessionAssumption, StreamCap, Conversation, Typed, PicoTyped
    <3>2. z \in Seq(Octet) /\ Len(z) = ForthSize
      BY <3>1 DEF Zeros, Octet
    <3>3. stored \in Seq(Octet)
      <4>1. stored = disk["block"] \/ stored = z \/ stored = <<>>
        OBVIOUS
      <4>2. disk["block"] \in Seq(Octet) /\ <<>> \in Seq(Octet)
        BY <3>1 DEF Names
      <4> QED
        BY <3>2, <4>1, <4>2
    <3>4. disk'["block"] = stored
      BY <2>1, <3>1 DEF Names
    <3>5. Block' = ds
      BY <3>4 DEF Block
    <3> HIDE DEF z
    <3>6. ds \in Seq(Octet) /\ Len(ds) = ForthSize
      BY <3>1, <3>2, <3>3
    <3>7. ppc' = "send" /\ after' = "top" /\ out' = Response(OK, Len(ds)) \o Bytes(ds)
      BY <2>4 DEF Reply, Answer, Bytes, z
    <3> HIDE DEF ds
    <3>8. Goes' = "top" /\ Home'
      BY <1>2, <2>2, <3>7 DEF Goes, Home
    <3>9. UNCHANGED <<prog, cmd, data, listing, Expects>>
      BY <1>2 DEF hostVars, worldVars, Expects
    <3>10. Told(OK, Len(ds), ds)'
      BY <1>4, <3>5, <3>6, <3>8, <3>9 DEF Told
    <3>11. Setting'
      <4>1. CommandFits'
        BY <1>3, <3>9 DEF CommandFits
      <4> QED
        BY <1>2, <1>3, <1>5, <2>2, <3>9, <4>1 DEF Setting
    <3> QED
      BY <1>1, <3>1, <3>6, <3>7, <3>10, <3>11, ExecAnswers, ConstantTypes
  <2> QED
    BY <2>1, <2>3, <2>4
<1> QED
  BY <1>9, <1>10 DEF ExecForthRead

\* Every handler keeps the conversation.
LEMMA ExecKeeps ==
  ASSUME Conversation, Exec
  PROVE  Calls' /\ Setting' /\ Phase'
BY ExecPlainKeeps, ExecSavememKeeps, ExecLoadmemKeeps, ExecForthReadKeeps, ExecForthWriteKeeps DEF Exec
-----------------------------------------------------------------------------
(****************************************************************************)
(* The Pico receives a stream.                                              *)
(****************************************************************************)
\* The Pico reads a byte of a stream.
LEMMA StreamedByte ==
  ASSUME Conversation, Typed', NEW pc \in {"save", "forth"}, Streamed(pc)
  PROVE  /\ Streaming /\ Goes = pc /\ ToHost = <<>> /\ ToHost' = out' /\ Expects' = Expects /\ out = <<>>
         /\ (ppc' = "send" <=> out' # <<>>) => Calls'
         /\ UNCHANGED <<prog, cmd, data, got, status, cnt, listing>>
         /\ \E ds \in Seq(Octet) :
              /\ ds # <<>> /\ ToPico' = Bytes(Tail(ds)) /\ remaining = Len(ds)
              /\ Filled = Append(buf, Head(ds)) /\ remaining' = Len(Tail(ds))
              /\ (fileData \o buf) \o ds = data
<1>1. ByteAt(pc) /\ remaining' = remaining - 1
  BY DEF Streamed, Left
<1>2. Typed /\ Calls /\ Turns /\ Phase /\ pc \in DOMAIN PicoReads /\ out' \in Seq(Byte)
  BY PhaseGivesTurns DEF Conversation, Typed, PicoTyped, PicoReads
<1>3. /\ ToHost = <<>> /\ ToPico # <<>> /\ pico.val = Head(ToPico) /\ Goes = pc
      /\ ToPico' = Tail(ToPico) /\ ToHost' = out' /\ Expects' = Expects
      /\ out = <<>>
      /\ ((ppc' = "send" <=> out' # <<>>) => Calls')
  BY <1>1, <1>2, PicoTakes
<1>4. Streaming
  BY <1>2, <1>3, FromPico
<1>5. PICK ds \in Seq(Octet) : /\ ToPico = Bytes(ds) /\ remaining = Len(ds)
                               /\ (fileData \o buf) \o ds = data
  BY <1>4 DEF Streaming
<1>6. ds # <<>>
  BY <1>3, <1>5, NoBytes
<1>7. /\ Head(Bytes(ds)) = [tag |-> "data", val |-> Head(ds)] /\ Tail(Bytes(ds)) = Bytes(Tail(ds))
      /\ Len(Tail(ds)) = Len(ds) - 1
  BY <1>6, FirstByte
<1>8. pico.val.val = Head(ds) /\ ToPico' = Bytes(Tail(ds)) /\ remaining' = Len(Tail(ds))
  BY <1>1, <1>3, <1>5, <1>7
<1>9. UNCHANGED <<prog, cmd, data, got, status, cnt, listing>>
  BY <1>1 DEF ByteAt, PicoOnly, hostVars, worldVars
<1> QED
  BY <1>3, <1>4, <1>5, <1>6, <1>8, <1>9 DEF Filled

\* After the last byte nothing follows.
LEMMA LastByte ==
  ASSUME NEW ds \in Seq(Octet), ds # <<>>, Len(Tail(ds)) = 0
  PROVE  Tail(ds) = <<>>
<1> DEFINE t == Tail(ds)
<1>1. t \in Seq(Octet) /\ Len(t) = 0
  OBVIOUS
<1> HIDE DEF t
<1>2. t = <<>>
  BY <1>1
<1> QED
  BY <1>2 DEF t

\* Concatenation is associative.
LEMMA SameBytes ==
  ASSUME NEW p \in Seq(Octet), NEW q \in Seq(Octet), NEW r \in Seq(Octet)
  PROVE  (p \o q) \o r = p \o (q \o r)
OBVIOUS

\* A byte that is read goes from the bus to the buffer, or with it to the file.
LEMMA ShiftByte ==
  ASSUME NEW f \in Seq(Octet), NEW b \in Seq(Octet), NEW ds \in Seq(Octet), ds # <<>>
  PROVE  /\ (f \o Append(b, Head(ds))) \o Tail(ds) = (f \o b) \o ds
         /\ ((f \o Append(b, Head(ds))) \o <<>>) \o Tail(ds) = (f \o b) \o ds
         /\ Append(b, Head(ds)) \in Seq(Octet) /\ f \o Append(b, Head(ds)) \in Seq(Octet)
         /\ Tail(ds) \in Seq(Octet)
         /\ Tail(ds) = <<>> => f \o Append(b, Head(ds)) = (f \o b) \o ds
<1> DEFINE a == Append(b, Head(ds))
           t == Tail(ds)
<1>1. a \o t = b \o ds /\ a \in Seq(Octet)
  BY Moved
<1>2. t \in Seq(Octet)
  OBVIOUS
<1> HIDE DEF a, t
<1>3. (f \o a) \o t = f \o (a \o t) /\ (f \o b) \o ds = f \o (b \o ds)
  <2>1. (f \o a) \o t = f \o (a \o t)
    BY <1>1, <1>2, SameBytes, Zenon
  <2>2. (f \o b) \o ds = f \o (b \o ds)
    BY SeqFacts
  <2> QED
    BY <2>1, <2>2
<1>4. f \o a \in Seq(Octet) /\ (f \o a) \o <<>> = f \o a
  BY <1>1
<1>5. t = <<>> => (f \o a) \o t = f \o a
  BY <1>4
<1> QED
  BY <1>1, <1>2, <1>3, <1>4, <1>5 DEF a, t

\* A byte is kept, or written with those before it.
LEMMA KeepingKeeps ==
  ASSUME Conversation, Typed', NEW pc \in {"save", "forth"}, NEW next,
         KeepByte(pc, next) \/ (FlushBuffer(pc, next) /\ (pc = "save" => Left # 0)),
         next = (IF pc = "save" THEN "top" ELSE "forthLoop")
  PROVE  Calls' /\ Setting' /\ Phase'
<1>1. Streamed(pc) /\ ppc' = next
      /\ UNCHANGED <<out, current_state, stream_file_is_open, file, fileName, dir, disk>>
  BY DEF KeepByte, FlushBuffer, diskVars
<1>2. /\ Streaming /\ Goes = pc /\ ToHost = <<>> /\ ToHost' = out' /\ Expects' = Expects /\ out = <<>>
      /\ ((ppc' = "send" <=> out' # <<>>) => Calls')
      /\ UNCHANGED <<prog, cmd, data, got, status, cnt, listing>>
  BY <1>1, StreamedByte
<1>3. PICK ds \in Seq(Octet) :
              /\ ds # <<>> /\ ToPico' = Bytes(Tail(ds)) /\ remaining = Len(ds)
              /\ Filled = Append(buf, Head(ds)) /\ remaining' = Len(Tail(ds))
              /\ (fileData \o buf) \o ds = data
  BY <1>1, StreamedByte
<1>4. Calls' /\ ToHost' = <<>> /\ Goes' = next
  BY <1>1, <1>2 DEF Goes
<1>5. Setting'
  BY <1>1, <1>2, SettingStill DEF Conversation
<1>6. Left = remaining'
  BY <1>1 DEF Streamed
<1>7. /\ file = "write" /\ fileName = Target /\ remaining' \in Nat
      /\ \/ prog = "savemem" /\ current_state = "SAVEMEM" /\ pc = "save"
         \/ prog = "forthWrite" /\ current_state = "FORTH" /\ pc = "forth"
  <2>1. remaining' \in Nat
    BY <1>3
  <2> QED
    BY <1>2, <2>1 DEF Streaming, Saving
<1>8. Saving' /\ Saves'
  BY <1>1, <1>2, <1>4, <1>7 DEF Saving, Target, Saves
<1>9. fileData \in Seq(Octet) /\ buf \in Seq(Octet)
  BY DEF Conversation, Typed, PicoTyped
<1>10. /\ (fileData \o Filled) \o Tail(ds) = data
       /\ ((fileData \o Filled) \o <<>>) \o Tail(ds) = data
       /\ Tail(ds) \in Seq(Octet)
  <2>1. PICK f \in Seq(Octet), b \in Seq(Octet) : f = fileData /\ b = buf
    BY <1>9
  <2>2. /\ (f \o Append(b, Head(ds))) \o Tail(ds) = (f \o b) \o ds
        /\ ((f \o Append(b, Head(ds))) \o <<>>) \o Tail(ds) = (f \o b) \o ds
        /\ Tail(ds) \in Seq(Octet)
    BY <1>3, ShiftByte
  <2> QED
    BY <1>3, <2>1, <2>2
<1>11. (fileData' \o buf') \o Tail(ds) = data' /\ (remaining' = 0 => buf' = <<>>)
  <2>1. CASE KeepByte(pc, next)
    <3>1. buf' = Filled /\ fileData' = fileData /\ Left # 0
      BY <2>1 DEF KeepByte, Flush
    <3> QED
      BY <1>2, <1>6, <1>10, <3>1
  <2>2. CASE FlushBuffer(pc, next)
    <3>1. buf' = <<>> /\ fileData' = fileData \o Filled
      BY <2>2 DEF FlushBuffer
    <3> QED
      BY <1>2, <1>10, <3>1
  <2> QED
    BY <2>1, <2>2
<1>12. Expects' = "fstatus" /\ status' = OK
  BY <1>2 DEF Streaming
<1>13. Streaming'
  BY <1>3, <1>4, <1>8, <1>10, <1>11, <1>12 DEF Streaming
<1> QED
  BY <1>4, <1>5, <1>13 DEF Phase

\* The stream is closed and its outcome answered.
LEMMA ClosingKeeps ==
  ASSUME Conversation, Typed', Streaming, ToPico' = <<>>, remaining' = 0, Expects' = Expects,
         (ppc' = "send" <=> out' # <<>>) => Calls',
         UNCHANGED <<prog, cmd, data, listing, dir>>,
         NEW s \in Octet, Answer(Response(s, 0), "top"), ToHost' = out',
         current_state' = "IDLE", stream_file_is_open' = FALSE, file' = "closed",
         s = OK => Stored'
  PROVE  Calls' /\ Setting' /\ Phase'
<1>1. ppc' = "send" /\ after' = "top" /\ out' = Response(s, 0) /\ out' # <<>>
  BY FinalHeads DEF Answer
<1>2. Calls' /\ Goes' = "top" /\ ToHost' = Response(s, 0) /\ Expects' = "fstatus"
  BY <1>1 DEF Goes, Streaming
<1>3. Saves' /\ prog' # "run"
  BY DEF Streaming, Saves
<1>4. Setting'
  <2>1. Setting /\ CommandFits'
    BY DEF Conversation, Setting, CommandFits
  <2> QED
    BY <1>3, <2>1 DEF Setting
<1>5. Home'
  BY <1>2 DEF Home
<1>6. AtFinalStatus'
  BY <1>2, <1>3, <1>5 DEF AtFinalStatus, Ending
<1> QED
  BY <1>2, <1>4, <1>6 DEF Phase

\* The last byte of SAVEMEM: the file is written, closed and reported.
LEMMA SaveLastKeeps ==
  ASSUME Conversation, Typed', SaveLast
  PROVE  Calls' /\ Setting' /\ Phase'
<1>1. Streamed("save") /\ Left = 0 /\ remaining' = 0
  BY DEF SaveLast, Streamed
<1>2. PICK ok \in CloseOutcomes : CloseStream(fileData \o Filled, ok)
                                   /\ Answer(Response(IF ok THEN OK ELSE ERR, 0), "top")
  BY DEF SaveLast
<1>3. /\ Streaming /\ Goes = "save" /\ ToHost' = out' /\ Expects' = Expects
      /\ ((ppc' = "send" <=> out' # <<>>) => Calls')
      /\ UNCHANGED <<prog, cmd, data, got, status, cnt, listing>>
  BY <1>1, StreamedByte
<1>4. PICK ds \in Seq(Octet) :
              /\ ds # <<>> /\ ToPico' = Bytes(Tail(ds)) /\ remaining = Len(ds)
              /\ Filled = Append(buf, Head(ds)) /\ remaining' = Len(Tail(ds))
              /\ (fileData \o buf) \o ds = data
  BY <1>1, StreamedByte
<1>5. fileData \in Seq(Octet) /\ buf \in Seq(Octet)
  BY DEF Conversation, Typed, PicoTyped
<1>6. Tail(ds) = <<>>
  BY <1>1, <1>4, LastByte
<1>7. fileData \o Filled = data /\ ToPico' = <<>>
  <2>1. PICK f \in Seq(Octet), b \in Seq(Octet) : f = fileData /\ b = buf
    BY <1>5
  <2>2. Tail(ds) = <<>> => f \o Append(b, Head(ds)) = (f \o b) \o ds
    BY <1>4, ShiftByte
  <2> QED
    BY <1>4, <1>6, <2>1, <2>2, NoBytes
<1>8. /\ current_state' = "IDLE" /\ stream_file_is_open' = FALSE /\ file' = "closed" /\ UNCHANGED dir
      /\ (ok => disk' = [disk EXCEPT ![fileName] = data])
  BY <1>2, <1>3, <1>7 DEF CloseStream, Committed, Streaming, Saving
<1>9. fileName = "file" /\ prog = "savemem" /\ disk \in [Names -> Seq(Octet)]
  BY <1>3 DEF Streaming, Saving, Target, Conversation, Typed, PicoTyped
<1>10. ok => Stored'
  BY <1>3, <1>8, <1>9 DEF Stored, Target, Names
<1>11. PICK s \in Octet : s = (IF ok THEN OK ELSE ERR)
  BY ConstantTypes
<1>12. s = OK => ok
  BY <1>11 DEF OK, ERR
<1> QED
  BY <1>1, <1>2, <1>3, <1>7, <1>8, <1>10, <1>11, <1>12, ClosingKeeps

\* Of the writes only the last one can fail here: the error is answered when no
\* byte is left.
LEMMA WriteFailsKeeps ==
  ASSUME Conversation, Typed', Undisturbed, NEW pc \in {"save", "forth"}, NEW next,
         WriteFails(pc, next), next = (IF pc = "save" THEN "top" ELSE "forthLoop")
  PROVE  Calls' /\ Setting' /\ Phase'
<1>1. Streamed(pc) /\ MayFail /\ Answer(Response(ERR, 0), next) /\ CloseStream(fileData, FALSE)
  BY DEF WriteFails
<1>2. Left = 0 /\ "lastWrite" \in Faults /\ remaining' = 0
  BY <1>1 DEF MayFail, Undisturbed, Streamed
<1>3. /\ Streaming /\ Goes = pc /\ ToHost' = out' /\ Expects' = Expects
      /\ ((ppc' = "send" <=> out' # <<>>) => Calls')
      /\ UNCHANGED <<prog, cmd, data, got, status, cnt, listing>>
  BY <1>1, StreamedByte
<1>4. PICK ds \in Seq(Octet) :
              /\ ds # <<>> /\ ToPico' = Bytes(Tail(ds)) /\ remaining' = Len(Tail(ds))
  BY <1>1, StreamedByte
<1>5. prog # "forthWrite"
  <2>1. prog \in Programs \cup {"none"}
    BY DEF Conversation, Typed, HostTyped
  <2> QED
    BY <1>2, <2>1 DEF Undisturbed
<1>6. pc = "save"
  BY <1>3, <1>5 DEF Streaming, Saving
<1>7. ToPico' = <<>>
  <2>2. Tail(ds) = <<>>
    BY <1>2, <1>4, LastByte
  <2> QED
    BY <1>4, <2>2, NoBytes
<1>8. current_state' = "IDLE" /\ stream_file_is_open' = FALSE /\ file' = "closed" /\ UNCHANGED dir
  BY <1>1 DEF CloseStream
<1>9. ERR \in Octet /\ ERR # OK
  BY ConstantTypes DEF ERR, OK
<1> QED
  BY <1>1, <1>2, <1>3, <1>6, <1>7, <1>8, <1>9, ClosingKeeps

\* FORTH write has its last byte and closes the file.
LEMMA ForthDoneKeeps ==
  ASSUME Conversation, Typed', ForthDone
  PROVE  Calls' /\ Setting' /\ Phase'
<1>1. /\ ppc = "forthLoop" /\ remaining = 0 /\ remaining' = 0
      /\ UNCHANGED <<host, pico, hostVars, listing>> /\ Answer(Response(OK, 0), "top")
  BY DEF ForthDone, PicoOnly, worldVars
<1>2. PICK ok \in CloseOutcomes : CloseStream(fileData, ok)
  BY DEF ForthDone
<1>3. Goes = "forthLoop"
  BY <1>1 DEF Goes
<1>4. Typed /\ Calls /\ Setting /\ Phase
  BY DEF Conversation
<1>5. Streaming
  <2>1. \A s, n, ds : ~Told(s, n, ds)
    <3> SUFFICES ASSUME NEW s, NEW n, NEW ds, Told(s, n, ds) PROVE FALSE
      OBVIOUS
    <3>1. ~Home /\ ~LoadHome
      BY <1>3 DEF Home, LoadHome
    <3>2. Saves /\ Saving /\ remaining = Len(data)
      BY <3>1 DEF Told
    <3>3. prog = "forthWrite"
      BY <1>3, <3>2 DEF Saving
    <3>4. Len(data) = ForthSize /\ ForthSize # 0
      BY <1>4, <3>3, SessionAssumption DEF Setting, SessionAssumption
    <3> QED
      BY <1>1, <3>2, <3>4
  <2> QED
    BY <1>3, <1>4, <2>1 DEF Phase, Resting, Asking, AtLen, AtArgs, AtExec, AtStatus, AtLo, AtHi,
       Receiving, Loading, LoadHome, Home, Ending, AtFinalStatus, AtFinalLo, AtFinalHi
<1>6. PICK ds \in Seq(Octet) :
         /\ ToPico = Bytes(ds) /\ remaining = Len(ds)
         /\ (fileData \o buf) \o ds = data /\ (remaining = 0 => buf = <<>>)
  BY <1>5 DEF Streaming
<1>7. ds = <<>> /\ buf = <<>> /\ fileData = data /\ ToPico = <<>>
  <2>1. ds = <<>> /\ buf = <<>>
    BY <1>1, <1>6
  <2>2. (fileData \o <<>>) \o <<>> = fileData
    BY <1>4 DEF Typed, PicoTyped
  <2> QED
    BY <1>6, <2>1, <2>2, NoBytes
<1>8. out' = Response(OK, 0) /\ out' \in Seq(Byte)
  BY <1>1, ConstantTypes, ResponseType, StreamCapType DEF Answer
<1>9. /\ ToPico' = ToPico /\ Expects' = Expects /\ (ToHost = <<>> => ToHost' = out')
      /\ ((ppc' = "send" <=> out' # <<>>) => Calls')
  <2>1. ppc \in {"top", "exec", "forthLoop"} /\ UNCHANGED <<host, pico, hostVars>>
    BY <1>1
  <2> QED
    BY <1>4, <1>8, <2>1, PicoWorks
<1>10. ToHost' = out'
  BY <1>5, <1>9 DEF Streaming
<1>11. UNCHANGED <<prog, cmd, data, listing>>
  BY <1>1 DEF hostVars
<1>12. prog = "forthWrite" /\ fileName = "block" /\ file = "write"
  BY <1>3, <1>5 DEF Streaming, Saving, Target
<1>13. /\ current_state' = "IDLE" /\ stream_file_is_open' = FALSE /\ file' = "closed" /\ UNCHANGED dir
       /\ (ok => disk' = [disk EXCEPT !["block"] = data])
  BY <1>2, <1>7, <1>12 DEF CloseStream, Committed
<1>14. Stored'
  <2>1. disk \in [Names -> Seq(Octet)]
    BY <1>4 DEF Typed, PicoTyped
  <2>2. ok => disk'["block"] = data'
    BY <1>11, <1>13, <2>1 DEF Names
  <2>3. "close" \notin Faults => ok
    BY DEF CloseOutcomes
  <2> QED
    BY <1>11, <1>12, <2>2, <2>3 DEF Stored, Target
<1> QED
  BY <1>1, <1>5, <1>7, <1>9, <1>10, <1>11, <1>13, <1>14, ConstantTypes, ClosingKeeps

\* Every byte of a stream to the Pico keeps the conversation.
LEMMA StreamKeeps ==
  ASSUME Conversation, Typed', Undisturbed, SaveByte \/ SaveLast \/ ForthByte \/ ForthDone
  PROVE  Calls' /\ Setting' /\ Phase'
<1>1. CASE SaveByte
  <2>1. CASE KeepByte("save", "top") \/ (Left # 0 /\ FlushBuffer("save", "top"))
    BY <2>1, KeepingKeeps
  <2>2. CASE WriteFails("save", "top")
    BY <2>2, WriteFailsKeeps
  <2> QED
    BY <1>1, <2>1, <2>2 DEF SaveByte
<1>2. CASE ForthByte
  <2>1. CASE KeepByte("forth", "forthLoop") \/ FlushBuffer("forth", "forthLoop")
    BY <2>1, KeepingKeeps
  <2>2. CASE WriteFails("forth", "forthLoop")
    BY <2>2, WriteFailsKeeps
  <2> QED
    BY <1>2, <2>1, <2>2 DEF ForthByte
<1> QED
  BY <1>1, <1>2, SaveLastKeeps, ForthDoneKeeps
-----------------------------------------------------------------------------
(****************************************************************************)
(* The theorems.                                                            *)
(****************************************************************************)
\* Every step of the Pico keeps the conversation.
LEMMA PicoKeeps ==
  ASSUME Conversation, Typed', Undisturbed, PicoStep
  PROVE  Calls' /\ Setting' /\ Phase'
<1>1. CASE AwaitByte \/ WriteNext \/ WriteReturns
  <2>1. Calls' /\ UNCHANGED view
    BY <1>1, PhaseGivesTurns, LinkKeepsView DEF Conversation, LinkStep
  <2> QED
    BY <2>1, ViewKeeps DEF Conversation
<1>2. CASE TopIdle \/ TopSave \/ TopForth \/ ForthMore \/ LoadDone
  BY <1>2, QuietKeeps DEF Quiet
<1> QED
  BY <1>1, <1>2, RequestKeeps, ExecKeeps, StreamKeeps, LoadByteKeeps DEF PicoStep

\* Two calls that meet keep it.
LEMMA MeetingKeeps ==
  ASSUME Conversation, Meet
  PROVE  Calls' /\ Setting' /\ Phase'
<1>1. Calls' /\ UNCHANGED view
  BY PhaseGivesTurns, LinkKeepsView DEF Conversation, LinkStep
<1> QED
  BY <1>1, ViewKeeps DEF Conversation

\* The system starts at rest.
LEMMA InitConverses == Init => Calls /\ Setting /\ Phase
<1> SUFFICES ASSUME Init PROVE Calls /\ Setting /\ Phase
  OBVIOUS
<1>1. ToPico = <<>> /\ ToHost = <<>>
  <2>1. /\ Met(pico, "read") = <<>> /\ Open(host, "send") = <<>> /\ hout = <<>>
        /\ Met(host, "read") = <<>> /\ Open(pico, "write") = <<>> /\ out = <<>>
    BY DEF Init, Met, Open
  <2> QED
    BY <2>1 DEF ToPico, ToHost
<1>2. Calls
  BY DEF Init, Calls
<1>3. Setting
  <2>1. CommandFits
    BY DEF Init, CommandFits
  <2> QED
    BY <2>1, Zenon DEF Init, Setting
<1>4. Resting
  BY <1>1 DEF Init, Resting, Expects, Home, Goes, Saves, Loads
<1> QED
  BY <1>2, <1>3, <1>4 DEF Phase

\* Nothing changes when nothing happens.
LEMMA StutterConverses ==
  ASSUME Conversation, UNCHANGED vars
  PROVE  Calls' /\ Setting' /\ Phase'
<1>1. UNCHANGED view
  BY DEF vars, view, hostVars, picoVars, requestVars, streamVars, diskVars, worldVars,
         Expects, Goes, ToPico, ToHost, Met, Open
<1>2. Calls'
  BY DEF Conversation, Calls, vars, hostVars, picoVars
<1> QED
  BY <1>1, <1>2, ViewKeeps DEF Conversation

\* The two programs keep to one conversation: at every moment they are in the
\* same phase of the same command, and the bytes under way are the rest of
\* what that phase says.
THEOREM ConversationHolds ==
  ASSUME Undisturbed
  PROVE  Spec => []Conversation
<1>1. Init => Conversation
  BY InitTyped, InitConverses DEF Conversation
<1>2. Conversation /\ [Next]_vars => Conversation'
  <2> SUFFICES ASSUME Conversation, [Next]_vars PROVE Conversation'
    OBVIOUS
  <2>1. Typed'
    BY NextKeepsType DEF Conversation
  <2>2. Calls' /\ Setting' /\ Phase'
    BY <2>1, StartKeeps, HostKeeps, PicoKeeps, MeetingKeeps, StutterConverses DEF Next
  <2> QED
    BY <2>1, <2>2 DEF Conversation
<1> QED
  BY <1>1, <1>2, PTL DEF Spec

\* CallsMatched: no byte is ever taken for what it is not.  Whenever a call
\* of the 65C02 faces one of the Pico, one sends and the other reads, and the
\* byte is of the kind its reader waits for, from the first byte of a command
\* to the last byte of a stream, in any order of programs.
THEOREM BytesAreMatched ==
  ASSUME Undisturbed
  PROVE  Spec => []CallsMatched
<1>1. Conversation => CallsMatched
  BY PhaseGivesTurns, CallsAreMatched DEF Conversation
<1> QED
  BY <1>1, ConversationHolds, PTL

\* StatusReachesHost: a status the Pico writes finds the 65C02 reading a
\* status, also the one after a stream, which only a counter on each side
\* puts in its place.
THEOREM StatusIsRead ==
  ASSUME Undisturbed
  PROVE  Spec => []StatusReachesHost
<1>1. Conversation => StatusReachesHost
  <2> SUFFICES ASSUME Conversation, Calling(host), Calling(pico), pico.op = "write",
                      pico.val.tag = "status"
               PROVE  host.op = "read" /\ HostReads[hpc] = "status"
    BY DEF StatusReachesHost
  <2>1. Typed /\ Calls /\ Turns
    BY PhaseGivesTurns DEF Conversation
  <2>2. host.op = "read" /\ Head(ToHost) = pico.val /\ ToHost # <<>> /\ Expects = hpc
    BY <2>1, Facing
  <2> QED
    BY <2>1, <2>2 DEF Turns
<1> QED
  BY <1>1, ConversationHolds, PTL

\* NothingLeftOver: when a program of the 65C02 ends no byte of its answer is
\* left on the bus, nothing remains of its stream and the Pico is in its main
\* loop, so that the next byte it reads is a command.
THEOREM CommandsLeaveNothing ==
  ASSUME Undisturbed
  PROVE  Spec => []NothingLeftOver
<1>1. Conversation => NothingLeftOver
  <2> SUFFICES ASSUME Conversation, hpc = "idle"
               PROVE  /\ out = <<>> /\ ~(pico.op = "write" /\ pico.st = "open")
                      /\ current_state \in {"IDLE", "LOADMEM"} /\ remaining = 0
                      /\ ppc \notin {"len", "args", "save", "forth", "forthLoop"}
    BY DEF NothingLeftOver
  <2>1. Home /\ ToHost = <<>>
    BY IdleRests DEF Resting
  <2>2. out = <<>> /\ Open(pico, "write") = <<>>
    <3>1. out \in Seq(Byte) /\ Open(pico, "write") \in Seq(Byte) /\ Met(host, "read") \in Seq(Byte)
      BY PartTypes DEF Conversation
    <3> HIDE DEF Byte
    <3> QED
      BY <2>1, <3>1 DEF ToHost
  <2>3. ~(pico.op = "write" /\ pico.st = "open")
    BY <2>2 DEF Open
  <2>4. ppc \notin {"len", "args", "save", "forth", "forthLoop"}
    BY <2>1 DEF Home, Goes
  <2> QED
    BY <2>1, <2>2, <2>3, <2>4 DEF Home
<1> QED
  BY <1>1, ConversationHolds, PTL

\* StreamOwned: the stream file is open exactly when current_state says a
\* stream is under way, and the loop of FORTH never runs without its file.
THEOREM StreamIsOwned ==
  ASSUME Undisturbed
  PROVE  Spec => []StreamOwned
<1>1. Conversation => StreamOwned
  <2> SUFFICES ASSUME Conversation PROVE StreamOwned
    OBVIOUS
  <2>1. stream_file_is_open = (current_state # "IDLE") /\ stream_file_is_open = (file # "closed")
    BY DEF Conversation, Setting
  <2>2. ppc = "forthLoop" => file = "write"
    <3> SUFFICES ASSUME Goes = "forthLoop" PROVE file = "write"
      BY DEF Goes
    <3>1. ~Home /\ ~LoadHome
      BY DEF Home, LoadHome
    <3>2. \A s, n, ds : Told(s, n, ds) => Saving
      BY <3>1 DEF Told
    <3>3. Saving
      BY <3>1, <3>2 DEF Conversation, Phase, Resting, Asking, AtLen, AtArgs, AtExec, AtStatus, AtLo,
         AtHi, Receiving, Loading, Streaming, Ending, AtFinalStatus, AtFinalLo, AtFinalHi
    <3> QED
      BY <3>3 DEF Saving
  <2> QED
    BY <2>1, <2>2 DEF StreamOwned
<1> QED
  BY <1>1, ConversationHolds, PTL

\* How many bytes are on their way.
LEMMA QueueLengths ==
  ASSUME Typed
  PROVE  /\ Len(ToPico) = Len(hout) + One(host.op = "send" /\ host.st = "open")
                                    + One(pico.op = "read" /\ pico.st = "met")
         /\ Len(ToHost) = Len(out) + One(pico.op = "write" /\ pico.st = "open")
                                   + One(host.op = "read" /\ host.st = "met")
<1> HIDE DEF Byte
<1>1. /\ Met(pico, "read") \in Seq(Byte) /\ Open(host, "send") \in Seq(Byte) /\ hout \in Seq(Byte)
      /\ Met(host, "read") \in Seq(Byte) /\ Open(pico, "write") \in Seq(Byte) /\ out \in Seq(Byte)
  BY PartTypes
<1>2. Len(ToPico) = Len(Met(pico, "read")) + Len(Open(host, "send")) + Len(hout)
  BY <1>1 DEF ToPico
<1>3. Len(ToHost) = Len(Met(host, "read")) + Len(Open(pico, "write")) + Len(out)
  BY <1>1 DEF ToHost
<1> DEFINE a == One(pico.op = "read" /\ pico.st = "met")
           b == One(host.op = "read" /\ host.st = "met")
           c == One(host.op = "send" /\ host.st = "open")
           d == One(pico.op = "write" /\ pico.st = "open")
<1>4. /\ Len(Met(pico, "read")) = a /\ Len(Met(host, "read")) = b
      /\ Len(Open(host, "send")) = c /\ Len(Open(pico, "write")) = d
  BY DEF Met, Open, One
<1>5. Len(hout) \in Nat /\ Len(out) \in Nat
  BY <1>1
<1>6. a \in Nat /\ b \in Nat /\ c \in Nat /\ d \in Nat
  BY DEF One
<1> HIDE DEF a, b, c, d
<1>7. Len(ToPico) = Len(hout) + c + a /\ Len(ToHost) = Len(out) + d + b
  <2> DEFINE m == Len(Met(pico, "read"))
             n == Len(Met(host, "read"))
             p == Len(Open(host, "send"))
             q == Len(Open(pico, "write"))
             x == Len(hout)
             y == Len(out)
  <2>1. Len(ToPico) = m + p + x /\ Len(ToHost) = n + q + y /\ m = a /\ n = b /\ p = c /\ q = d
        /\ x \in Nat /\ y \in Nat
    BY <1>2, <1>3, <1>4, <1>5
  <2> HIDE DEF m, n, p, q, x, y
  <2>2. Len(ToPico) = x + c + a /\ Len(ToHost) = y + d + b
    BY <1>6, <2>1
  <2> QED
    BY <2>2 DEF x, y
<1> QED
  BY <1>7 DEF a, b, c, d

\* StreamsAgree: the two ends of a stream count it alike.  What the Pico has
\* still to receive is what is on its way, and what the 65C02 has still to
\* receive is what is on its way and what the Pico has still to send.
THEOREM CountsAgree ==
  ASSUME Undisturbed
  PROVE  Spec => []StreamsAgree
<1>1. Conversation => StreamsAgree
  <2> SUFFICES ASSUME Conversation PROVE StreamsAgree
    OBVIOUS
  <2>0. Typed /\ Phase /\ remaining \in Nat
    BY RemainingType DEF Conversation
  <2>1. hpc = "stream" => remaining = Len(ToPico)
    <3> SUFFICES ASSUME Expects = "fstatus" PROVE remaining = Len(ToPico)
      BY DEF Expects
    <3>1. Streaming \/ AtFinalStatus
      BY <2>0 DEF Phase, Resting, Requesting, Asking, AtLen, AtArgs, AtExec, Answering, AtStatus, AtLo,
         AtHi, Receiving, Loading, AtFinalLo, AtFinalHi
    <3>2. CASE Streaming
      <4>1. PICK ds \in Seq(Octet) : ToPico = Bytes(ds) /\ remaining = Len(ds)
        BY <3>2 DEF Streaming
      <4> QED
        BY <4>1, TaggedSeq DEF Bytes, Tags
    <3>3. CASE AtFinalStatus
      BY <3>3 DEF AtFinalStatus, Ending, Home
    <3> QED
      BY <3>1, <3>2, <3>3
  <2>2. hpc = "load" => cnt = remaining + Len(ToHost)
    <3> SUFFICES ASSUME Expects = "load" PROVE cnt = remaining + Len(ToHost)
      BY DEF Expects
    <3>1. Loading
      BY <2>0 DEF Phase, Resting, Requesting, Asking, AtLen, AtArgs, AtExec, Answering, AtStatus, AtLo,
         AtHi, Receiving, Streaming, AtFinalStatus, AtFinalLo, AtFinalHi
    <3>2. PICK ds \in Seq(Octet) : ToHost = Bytes(ds) /\ cnt = Len(ds) + remaining
      BY <3>1 DEF Loading
    <3>3. Len(ToHost) = Len(ds) /\ Len(ds) \in Nat
      BY <3>2, TaggedSeq DEF Bytes, Tags
    <3> QED
      BY <2>0, <3>2, <3>3
  <2>3. /\ Len(hout) \in Nat /\ Len(out) \in Nat /\ \A b : One(b) \in Nat
    <3>1. hout \in Seq(Byte) /\ out \in Seq(Byte)
      BY <2>0, PartTypes
    <3> HIDE DEF Byte
    <3> QED
      BY <3>1 DEF One
  <2>4. /\ Len(ToPico) = Len(hout) + One(host.op = "send" /\ host.st = "open")
                                   + One(pico.op = "read" /\ pico.st = "met")
        /\ Len(ToHost) = Len(out) + One(pico.op = "write" /\ pico.st = "open")
                                   + One(host.op = "read" /\ host.st = "met")
    BY <2>0, QueueLengths
  <2> QED
    BY <2>0, <2>1, <2>2, <2>3, <2>4 DEF StreamsAgree
<1> QED
  BY <1>1, ConversationHolds, PTL

\* AcceptedIsStored: a save that is answered with OK is on the disk, byte for
\* byte, for a stream of any length and any way it is cut into writes.  For
\* FORTH the file must close: its handler does not look at the result of the
\* close (the finding about forth_write).
THEOREM SavesAreStored ==
  ASSUME Undisturbed, "close" \notin Faults \/ "forthWrite" \notin Programs
  PROVE  Spec => []AcceptedIsStored
<1>1. Conversation => AcceptedIsStored
  <2> SUFFICES ASSUME Conversation, hpc = "idle", prog \in {"savemem", "forthWrite"}, status = OK
               PROVE  disk[Target] = data
    BY DEF AcceptedIsStored, Target
  <2>1. Stored
    BY IdleRests DEF Resting, Saves
  <2>2. prog \in Programs
    BY DEF Conversation, Typed, HostTyped
  <2> QED
    BY <2>1, <2>2 DEF Stored
<1> QED
  BY <1>1, ConversationHolds, PTL

\* LoadedIsStored: a load that is answered with OK delivers the file, byte
\* for byte, cut at the capacity, for a file of any length and any way it is
\* cut into reads; a FORTH read delivers the block, filled with zeros.  The
\* reads must succeed: LOADMEM sends zeros for what it cannot read.
THEOREM LoadsAreTrue ==
  ASSUME Undisturbed, "read" \notin Faults
  PROVE  Spec => []LoadedIsStored
<1>1. Conversation => LoadedIsStored
  <2> SUFFICES ASSUME Conversation, hpc = "idle", status = OK
               PROVE  /\ Loads /\ (prog = "run" => cnt = 0) => got = Whole
                      /\ prog = "forthRead" => got = Block
    BY DEF LoadedIsStored, Loads, Whole, Block
  <2>1. Resting
    BY IdleRests
  <2>2. Loads /\ (prog = "run" => cnt = 0) => got = Whole
    <3> SUFFICES ASSUME Loads, prog = "run" => cnt = 0 PROVE got = Whole
      OBVIOUS
    <3>1. got \o SubSeq(buf \o fileData, 1, remaining) = Whole /\ remaining = 0
      BY <2>1 DEF Resting, Loaded, Home
    <3>2. got \in Seq(Octet) /\ buf \in Seq(Octet) /\ fileData \in Seq(Octet)
      BY DEF Conversation, Typed, HostTyped, PicoTyped
    <3>3. SubSeq(buf \o fileData, 1, 0) = <<>> /\ got \o <<>> = got
      BY <3>2
    <3> QED
      BY <3>1, <3>3
  <2>3. prog = "forthRead" => got = Block
    BY <2>1 DEF Resting
  <2> QED
    BY <2>2, <2>3
<1> QED
  BY <1>1, ConversationHolds, PTL
=============================================================================
