-------------------------- MODULE SyncBridgeProofs --------------------------
(***************************************************************************)
(* Proofs about SyncBridge: what the dummy reads of a 65C02 that starts    *)
(* again find, whatever the Pico was in and whatever was said before,      *)
(* after a good sync or a bad one.                                         *)
(*                                                                         *)
(* The two sides may be out of step here, so that the invariant of Session *)
(* is of no use.  What is used of it are its types; the rest is said of    *)
(* the Pico alone, which goes its way whoever is at the other end.         *)
(***************************************************************************)
EXTENDS SyncBridge, SessionProofs

(***************************************************************************)
(* Types.                                                                  *)
(***************************************************************************)
\* What the 65C02 has while it looks for the Pico.
Blank ==
    /\ prog = "none" /\ cmd = 0 /\ hout = <<>> /\ data = <<>> /\ got = <<>>
    /\ status = OK /\ cnt = 0 /\ host.op # "send"

\* The types of Session, but for what a reset forgets.
SyncTyped ==
    /\ LinkTypeOK /\ PicoTyped /\ WorldTyped /\ WriteCall
    /\ IF hpc \in Syncing THEN Blank ELSE HostTyped
    /\ synced = "looking" <=> hpc \in Syncing

\* A step of the Pico leaves the 65C02 alone,
LEMMA PicoOwn ==
  ASSUME PicoStep
  PROVE  UNCHANGED hostVars /\ UNCHANGED worldVars /\ UNCHANGED host
BY DEF PicoStep, TopIdle, AwaitByte, GotCmd, GotLen, GotArg, ByteAt, Exec, ExecStat, ExecListSize,
       ExecList, ExecOther, ExecSavemem, ExecLoadmem, ExecForthRead, ExecForthWrite, Handles,
       WriteNext, WriteReturns, TopSave, SaveByte, SaveLast, LoadByte, LoadDone, TopForth,
       ForthMore, ForthByte, ForthDone, KeepByte, FlushBuffer, WriteFails, Streamed, PicoOnly,
       PicoRead, PicoReturn, PicoWrite

\* and one of the 65C02 the Pico.  A routine that has ended makes none.
LEMMA HostOwn ==
  ASSUME HostStep
  PROVE  /\ UNCHANGED picoVars /\ UNCHANGED worldVars /\ UNCHANGED pico /\ UNCHANGED prog
         /\ hpc \in Syncing \cup {"idle"} => host.op = "send"
<1>1. CASE SendNext \/ SendReturns \/ ReadNext
  BY <1>1, Zenon DEF SendNext, SendReturns, ReadNext, HostSend, HostRead, HostReturn, hostVars, HostReads,
         Syncing
<1>2. ASSUME NEW pcs, ReadReturns(pcs), pcs \subseteq DOMAIN HostReads
      PROVE  /\ UNCHANGED picoVars /\ UNCHANGED worldVars /\ UNCHANGED pico /\ UNCHANGED prog
             /\ hpc \notin Syncing \cup {"idle"}
  BY <1>2 DEF ReadReturns, HostReturn, HostReads, Syncing
<1>3. CASE GotStatus \/ GotLo \/ GotHiByHand \/ GotHiOfRequest \/ GotPayload \/ GotStreamByte \/ GotFinalHi
  <2>1. \E pcs : ReadReturns(pcs) /\ pcs \subseteq DOMAIN HostReads
    BY <1>3 DEF GotStatus, GotLo, GotHiByHand, GotHiOfRequest, GotPayload, GotStreamByte, GotFinalHi,
                HostReads
  <2> QED
    BY <2>1, <1>2
<1> QED
  BY <1>1, <1>3 DEF HostStep

LEMMA StartOwn ==
  ASSUME StartProgram
  PROVE  /\ UNCHANGED picoVars /\ UNCHANGED worldVars /\ UNCHANGED pico /\ UNCHANGED host
         /\ hpc = "idle" /\ hpc' = "request" /\ prog' # "none"
<1>1. \E p \in Programs : \E c, as, d : Start(p, c, as, d)
  BY DEF StartProgram, StartSavemem, StartLoadmem, StartRun, StartDir, StartCatalog, StartForthRead,
         StartForthWrite, StartOther, Start
<1>2. "none" \notin Programs
  BY SessionAssumption DEF SessionAssumption
<1> QED
  BY <1>1, <1>2 DEF Start, Ask

\* The Pico's types do not change while its variables do not.
LEMMA PicoSame ==
  ASSUME PicoTyped, WorldTyped, UNCHANGED picoVars, UNCHANGED worldVars
  PROVE  PicoTyped' /\ WorldTyped'
BY Zenon DEF PicoTyped, WorldTyped, picoVars, requestVars, streamVars, diskVars, worldVars

LEMMA BlankSame ==
  ASSUME Blank, UNCHANGED <<prog, cmd, hout, data, got, status, cnt>>, host'.op # "send"
  PROVE  Blank'
BY DEF Blank

\* A 65C02 that is through with its looking is one that has not begun.
LEMMA BlankIsTyped ==
  ASSUME Blank, hpc = "idle"
  PROVE  HostTyped
BY DEF Blank, HostTyped, OK, Octet

\* The reads of the sync keep the types: they call the link and leave the Pico alone.
LEMMA SyncCallType ==
  ASSUME SyncTyped, UNCHANGED picoVars, UNCHANGED worldVars, UNCHANGED pico,
         HostRead \/ HostReturn \/ host' = Free
  PROVE  LinkTypeOK' /\ PicoTyped' /\ WorldTyped' /\ WriteCall' /\ host'.op # "send"
<1>1. PicoTyped' /\ WorldTyped'
  BY PicoSame DEF SyncTyped
<1>2. LinkTypeOK'
  <2>1. CASE host' = Free
    <3>1. host' \in Call({"send", "read"})
      BY <2>1, ConstantTypes DEF Free, Call
    <3> QED
      BY <3>1 DEF SyncTyped, LinkTypeOK
  <2> QED
    BY <2>1, CallsType DEF SyncTyped
<1>3. WriteCall'
  BY DEF SyncTyped, WriteCall, picoVars
<1>4. host'.op # "send"
  BY DEF HostRead, HostReturn, Free
<1> QED
  BY <1>1, <1>2, <1>3, <1>4

\* What a reset does to the link.
LEMMA ResetType ==
  ASSUME SyncTyped, HostReset
  PROVE  LinkTypeOK' /\ PicoTyped' /\ WorldTyped' /\ WriteCall' /\ Blank'
<1>1. PicoTyped' /\ WorldTyped'
  BY PicoSame DEF SyncTyped, HostReset
<1>2. Blank'
  BY Zenon DEF HostReset, Blank, Free
<1>3. UNCHANGED pico \/ (pico.op = "read" /\ pico' = [pico EXCEPT !.st = "met", !.val = Nothing])
  BY DEF HostReset
<1>4. UNCHANGED ppc
  BY DEF HostReset, picoVars
<1>5. pico \in Call({"read", "write"})
  BY DEF SyncTyped, LinkTypeOK
<1>6. pico' \in Call({"read", "write"}) /\ WriteCall'
  BY <1>3, <1>4, <1>5, ConstantTypes DEF SyncTyped, WriteCall, Call
<1>7. host' \in Call({"send", "read"})
  BY ConstantTypes DEF HostReset, Free, Call
<1> QED
  BY <1>1, <1>2, <1>6, <1>7 DEF LinkTypeOK

\* Where the 65C02 is after a step of its sync.
LEMMA SyncOwn ==
  ASSUME SyncTyped, SyncRead \/ SyncTimeout \/ SyncByte \/ MarkByte
  PROVE  /\ UNCHANGED picoVars /\ UNCHANGED worldVars /\ UNCHANGED pico
         /\ HostRead \/ HostReturn \/ host' = Free
         /\ UNCHANGED <<prog, cmd, hout, data, got, status, cnt>>
         /\ hpc \in Syncing /\ hpc' \in Syncing \cup {"idle"}
         /\ synced' = "looking" <=> hpc' \in Syncing
<1>1. hpc \in Syncing => synced = "looking"
  BY DEF SyncTyped
<1>2. CASE SyncRead
  BY <1>1, <1>2, Zenon DEF SyncRead, HostRead, hostVars, syncVars
<1>3. CASE SyncTimeout
  BY <1>1, <1>3 DEF SyncTimeout, Syncing, NotHost
<1>4. CASE SyncByte
  BY <1>1, <1>4 DEF SyncByte, DummyReturns, Looked, HostReturn, Syncing
<1>5. CASE MarkByte
  BY <1>1, <1>5 DEF MarkByte, HostReturn, Syncing
<1> QED
  BY <1>2, <1>3, <1>4, <1>5

\* Away from the sync the types are those of Session.
LEMMA AwayType ==
  ASSUME SyncTyped, hpc \notin Syncing, Typed', UNCHANGED syncVars
  PROVE  SyncTyped'
<1>1. hpc' \notin Syncing
  BY DEF Typed, HostTyped, HostReads, Syncing
<1> QED
  BY <1>1 DEF SyncTyped, Typed, syncVars

\* Every step keeps the types,
LEMMA SyncKeepsType ==
  ASSUME SyncTyped, [SyncNext]_allVars
  PROVE  SyncTyped'
<1>0. hpc \notin Syncing => Typed
  BY DEF SyncTyped, Typed
<1>1. CASE UNCHANGED syncVars /\ hpc \notin Syncing /\ [Next]_vars
  BY <1>0, <1>1, NextKeepsType, AwayType
<1>2. CASE PicoStep /\ UNCHANGED syncVars /\ hpc \in Syncing
  <2>1. LinkTypeOK' /\ PicoTyped' /\ WriteCall'
    BY <1>2, PicoKeepsOwnType DEF SyncTyped
  <2>2. UNCHANGED hostVars /\ UNCHANGED worldVars /\ UNCHANGED host
    BY <1>2, PicoOwn
  <2>3. Blank' /\ hpc' \in Syncing
    BY <1>2, <2>2 DEF SyncTyped, Blank, hostVars
  <2>4. WorldTyped'
    BY <2>2, Zenon DEF SyncTyped, WorldTyped, worldVars
  <2> QED
    BY <1>2, <2>1, <2>3, <2>4 DEF SyncTyped, syncVars
<1>3. CASE Meet /\ UNCHANGED syncVars /\ hpc \in Syncing
  <2>1. LinkTypeOK' /\ WriteCall' /\ host'.op # "send"
    <3>1. LinkTypeOK'
      BY <1>3, CallsType DEF SyncTyped, Meet
    <3>2. WriteCall' /\ host'.op # "send"
      BY <1>3 DEF SyncTyped, Meet, Exchange, WriteCall, Blank, picoVars
    <3> QED
      BY <3>1, <3>2
  <2>2. PicoTyped' /\ WorldTyped'
    BY <1>3, PicoSame DEF SyncTyped, Meet
  <2>3. Blank' /\ hpc' \in Syncing
    BY <1>3, <2>1 DEF SyncTyped, Blank, Meet, hostVars
  <2> QED
    BY <1>3, <2>1, <2>2, <2>3 DEF SyncTyped, syncVars
<1>4. CASE HostReset
  <2>1. hpc' \in Syncing /\ synced' = "looking"
    BY <1>4 DEF HostReset, Syncing
  <2> QED
    BY <1>4, <2>1, ResetType DEF SyncTyped
<1>5. CASE SyncRead \/ SyncTimeout \/ SyncByte \/ MarkByte
  <2>1. LinkTypeOK' /\ PicoTyped' /\ WorldTyped' /\ WriteCall' /\ host'.op # "send"
    BY <1>5, SyncOwn, SyncCallType
  <2>2. Blank'
    BY <1>5, <2>1, SyncOwn, BlankSame DEF SyncTyped
  <2>3. hpc' \in Syncing \/ hpc' = "idle"
    BY <1>5, SyncOwn
  <2>4. hpc' = "idle" => HostTyped'
    BY <2>2, BlankIsTyped DEF Blank, HostTyped, OK, Octet
  <2>5. hpc' = "idle" => hpc' \notin Syncing
    BY DEF Syncing
  <2> QED
    BY <1>5, <2>1, <2>2, <2>3, <2>4, <2>5, SyncOwn DEF SyncTyped
<1>6. CASE UNCHANGED allVars /\ hpc \in Syncing
  <2>1. UNCHANGED hostVars /\ UNCHANGED picoVars /\ UNCHANGED worldVars /\ UNCHANGED host /\ UNCHANGED pico
        /\ UNCHANGED syncVars
    BY <1>6 DEF allVars, vars
  <2>2. PicoTyped' /\ WorldTyped'
    BY <2>1, PicoSame DEF SyncTyped
  <2>3. Blank' /\ LinkTypeOK' /\ WriteCall'
    BY <1>6, <2>1 DEF SyncTyped, Blank, LinkTypeOK, WriteCall, hostVars, picoVars
  <2> QED
    BY <1>6, <2>1, <2>2, <2>3 DEF SyncTyped, hostVars, syncVars
<1>7. hpc \in Syncing => ~StartProgram /\ ~HostStep
  BY StartOwn, HostOwn DEF SyncTyped, Blank, Syncing
<1>8. UNCHANGED allVars => UNCHANGED vars /\ UNCHANGED syncVars
  BY DEF allVars
<1> QED
  BY <1>1, <1>2, <1>3, <1>4, <1>5, <1>6, <1>7, <1>8 DEF SyncNext, Next

\* which are right at the start.
LEMMA InitSyncTyped ==
  ASSUME SyncInit
  PROVE  SyncTyped
<1>1. Typed
  BY InitTyped DEF SyncInit
<1>2. hpc \notin Syncing /\ synced # "looking"
  BY DEF SyncInit, Init, Syncing
<1> QED
  BY <1>1, <1>2 DEF SyncTyped, Typed

-----------------------------------------------------------------------------
(***************************************************************************)
(* The Pico, whatever the 65C02 does to it.                                *)
(***************************************************************************)
NoStatus(s) == \A i \in DOMAIN s : s[i].tag # "status"

\* A byte to be written and those behind it: a status comes first, and one that
\* is an error has two length bytes behind it and then a command is awaited.
ErrorIsLast(b, rest) ==
    /\ NoStatus(rest)
    /\ b.tag = "status" /\ b.val = ERR => Len(rest) = 2 /\ after = "top" /\ current_state = "IDLE"

Begins == out # <<>> /\ ErrorIsLast(Head(out), Tail(out))

\* What the Pico is about to write, whoever reads it.
Alone ==
    /\ current_state = "IDLE" => remaining = 0
    /\ pico.op = "write" => ErrorIsLast(pico.val, out)
    /\ ppc = "send" /\ pico.op # "write" => Begins

\* No write of a stream fails.  After one that does the Pico gives an error in the
\* middle of a stream, and waits for the rest of it.
WritesSucceed == Faults \cap {"write", "lastWrite"} = {}

\* A sequence whose head and tail hold no status holds none, and the other way round.
LEMMA NoStatusCons ==
  ASSUME NEW s \in Seq(Byte), s # <<>>
  PROVE  /\ Tail(s) \in Seq(Byte) /\ Len(s) = 1 + Len(Tail(s))
         /\ NoStatus(s) <=> Head(s).tag # "status" /\ NoStatus(Tail(s))
<1> HIDE DEF Byte
<1>1. /\ Tail(s) \in Seq(Byte) /\ Len(s) \in Nat \ {0} /\ Len(Tail(s)) = Len(s) - 1
      /\ DOMAIN s = 1..Len(s) /\ DOMAIN Tail(s) = 1..(Len(s) - 1)
      /\ Head(s) = s[1] /\ \A i \in 1..(Len(s) - 1) : Tail(s)[i] = s[i + 1]
  OBVIOUS
<1>2. ASSUME NoStatus(s) PROVE Head(s).tag # "status" /\ NoStatus(Tail(s))
  BY <1>1, <1>2 DEF NoStatus
<1>3. ASSUME Head(s).tag # "status", NoStatus(Tail(s)), NEW i \in DOMAIN s PROVE s[i].tag # "status"
  <2>1. CASE i = 1
    BY <1>1, <1>3, <2>1
  <2>2. CASE i # 1
    <3>1. i - 1 \in 1..(Len(s) - 1) /\ (i - 1) + 1 = i
      BY <1>1, <2>2
    <3>2. Tail(s)[i - 1] = s[i]
      BY <1>1, <3>1
    <3> QED
      BY <1>1, <1>3, <3>1, <3>2 DEF NoStatus
  <2> QED
    BY <2>1, <2>2
<1> QED
  BY <1>1, <1>2, <1>3 DEF NoStatus

\* The bytes of an answer.
LEMMA AnswerIs ==
  ASSUME NEW s \in Octet, NEW n \in 0..StreamCap, NEW rest \in Seq(Byte), NoStatus(rest)
  PROVE  /\ Response(s, n) \o rest # <<>>
         /\ Head(Response(s, n) \o rest) = [tag |-> "status", val |-> s]
         /\ NoStatus(Tail(Response(s, n) \o rest))
         /\ Len(Tail(Response(s, n) \o rest)) = 2 + Len(rest)
<1> DEFINE lh == Length(n) \o rest
           h == Tagged("hi", <<n \div Base>>) \o rest
<1>1. /\ Response(s, n) \o rest # <<>>
      /\ Head(Response(s, n) \o rest) = [tag |-> "status", val |-> s]
      /\ Tail(Response(s, n) \o rest) = lh
      /\ lh # <<>> /\ Head(lh) = [tag |-> "lo", val |-> n % Base] /\ Tail(lh) = h
      /\ h # <<>> /\ Head(h) = [tag |-> "hi", val |-> n \div Base] /\ Tail(h) = rest
  BY AnswerHeads
<1>2. lh \in Seq(Byte)
  <2> DEFINE ln == Length(n)
  <2>1. ln \in Seq(Byte)
    BY LengthType
  <2> HIDE DEF Byte, ln
  <2>2. ln \o rest \in Seq(Byte)
    BY <2>1
  <2> QED
    BY <2>2 DEF ln
<1> HIDE DEF lh, h, Byte
<1>3. h \in Seq(Byte) /\ Len(lh) = 1 + Len(h) /\ (NoStatus(lh) <=> Head(lh).tag # "status" /\ NoStatus(h))
  BY <1>1, <1>2, NoStatusCons
<1>4. Len(h) = 1 + Len(rest) /\ (NoStatus(h) <=> Head(h).tag # "status" /\ NoStatus(rest))
  BY <1>1, <1>3, NoStatusCons
<1>5. NoStatus(lh)
  BY <1>1, <1>3, <1>4
<1>6. Len(lh) = 2 + Len(rest)
  BY <1>3, <1>4
<1> QED
  BY <1>1, <1>5, <1>6

LEMMA DataIs ==
  ASSUME NEW p \in Seq(Octet)
  PROVE  Tagged("data", p) \in Seq(Byte) /\ NoStatus(Tagged("data", p)) /\ Len(Tagged("data", p)) = Len(p)
<1> DEFINE d == Tagged("data", p)
<1>1. d \in Seq(Byte) /\ Len(d) = Len(p) /\ \A i \in 1..Len(p) : d[i] = [tag |-> "data", val |-> p[i]]
  BY TaggedType
<1> HIDE DEF Byte, d
<1>2. DOMAIN d = 1..Len(p)
  BY <1>1
<1>3. ASSUME NEW i \in DOMAIN d PROVE d[i].tag # "status"
  <2>1. d[i] = [tag |-> "data", val |-> p[i]]
    BY <1>1, <1>2
  <2> QED
    BY <2>1
<1> QED
  BY <1>1, <1>3 DEF NoStatus, d

\* An answer that is no error may go on with anything but a status.
LEMMA AnswerWritten ==
  ASSUME NEW s \in Octet, NEW n \in 0..StreamCap, NEW rest \in Seq(Byte), NoStatus(rest),
         out' = Response(s, n) \o rest,
         s = ERR => rest = <<>> /\ after' = "top" /\ current_state' = "IDLE"
  PROVE  Begins'
<1>1. /\ out' # <<>> /\ Head(out') = [tag |-> "status", val |-> s]
      /\ NoStatus(Tail(out')) /\ Len(Tail(out')) = 2 + Len(rest)
  BY AnswerIs
<1>2. s = ERR => Len(Tail(out')) = 2
  BY <1>1
<1> QED
  BY <1>1, <1>2 DEF Begins, ErrorIsLast, NoStatus

LEMMA ShortAnswerWritten ==
  ASSUME NEW s \in Octet, NEW n \in 0..StreamCap, Answer(Response(s, n), "top"),
         s = ERR => current_state' = "IDLE"
  PROVE  Begins'
<1>1. Response(s, n) \in Seq(Byte) /\ <<>> \in Seq(Byte) /\ NoStatus(<<>>)
  BY ResponseType DEF NoStatus
<1>2. Response(s, n) \o <<>> = Response(s, n)
  BY <1>1, SeqFacts
<1> QED
  BY <1>1, <1>2, AnswerWritten DEF Answer

LEMMA ReplyWritten ==
  ASSUME NEW s \in Octet, NEW p \in Seq(Octet), Len(p) \in 0..StreamCap, Reply(s, p),
         s = ERR => p = <<>> /\ current_state' = "IDLE"
  PROVE  Begins'
<1>1. Tagged("data", p) \in Seq(Byte) /\ NoStatus(Tagged("data", p))
  BY DataIs
<1>2. p = <<>> => Tagged("data", p) = <<>>
  BY TaggedSeq DEF Tags
<1> QED
  BY <1>1, <1>2, AnswerWritten DEF Reply, Answer

\* Which steps the Pico can take where it is.
LEMMA PicoAt ==
  ASSUME WriteCall, PicoTyped, PicoStep
  PROVE  /\ ppc = "send" => WriteNext \/ WriteReturns
         /\ ppc = "top" /\ current_state = "IDLE" => TopIdle
         /\ ppc = "cmd" => AwaitByte \/ GotCmd
         /\ ppc = "len" => AwaitByte \/ GotLen
         /\ ppc = "exec" => Exec
<1>1. ppc # "send" => ~WriteNext /\ ~WriteReturns
  BY DEF WriteNext, WriteReturns, WriteCall
<1>2. ppc # "top" => ~TopIdle /\ ~TopSave /\ ~LoadByte /\ ~LoadDone /\ ~TopForth
  BY DEF TopIdle, TopSave, LoadByte, LoadDone, TopForth
<1>3. current_state = "IDLE" => ~TopSave /\ ~LoadByte /\ ~LoadDone /\ ~TopForth
  BY DEF TopSave, LoadByte, LoadDone, TopForth
<1>4. ppc \notin {"save", "forth", "forthLoop"} =>
         ~SaveByte /\ ~SaveLast /\ ~ForthMore /\ ~ForthByte /\ ~ForthDone
  BY DEF SaveByte, SaveLast, ForthMore, ForthByte, ForthDone, KeepByte, FlushBuffer, WriteFails,
         Streamed, ByteAt
<1>5. (ppc # "cmd" => ~GotCmd) /\ (ppc # "len" => ~GotLen) /\ (ppc # "args" => ~GotArg)
  BY DEF GotCmd, GotLen, GotArg, ByteAt
<1>6. ppc \notin DOMAIN PicoReads => ~AwaitByte
  BY DEF AwaitByte
<1>7. ppc # "exec" => ~Exec
  BY DEF Exec, ExecStat, ExecListSize, ExecList, ExecOther, ExecSavemem, ExecLoadmem, ExecForthRead,
         ExecForthWrite, Handles
<1>8. DOMAIN PicoReads = {"cmd", "len", "args", "save", "forth"}
  BY DEF PicoReads
<1> QED
  BY <1>1, <1>2, <1>3, <1>4, <1>5, <1>6, <1>7, <1>8 DEF PicoStep

\* A refused request,
LEMMA RefuseWrites ==
  ASSUME PicoTyped, current_state = "IDLE", NEW early, NEW statuses \in SUBSET Octet,
         Refuse(early, statuses)
  PROVE  Begins' /\ UNCHANGED <<current_state, remaining>>
<1>1. UNCHANGED <<current_state, remaining>>
  BY DEF Refuse, streamVars
<1>2. \E s \in Octet : Reply(s, <<>>)
  BY ConstantTypes DEF Refuse
<1>3. <<>> \in Seq(Octet) /\ Len(<<>>) \in 0..StreamCap
  BY SessionAssumption DEF SessionAssumption, StreamCap
<1> QED
  BY <1>1, <1>2, <1>3, ReplyWritten

\* and a stream that is opened.
LEMMA OpenWrites ==
  ASSUME NEW fn, NEW mode, NEW contents, NEW state \in {"SAVEMEM", "LOADMEM", "FORTH"},
         NEW n, NEW m \in 0..StreamCap,
         OpenStream(fn, mode, contents, state, n), Answer(Response(OK, m), "top")
  PROVE  Begins' /\ current_state' # "IDLE"
<1>1. current_state' # "IDLE"
  BY DEF OpenStream
<1>2. OK \in Octet /\ OK # ERR
  BY ConstantTypes DEF OK, ERR
<1> QED
  BY <1>1, <1>2, ShortAnswerWritten

\* An answer of every handler begins with its status.
LEMMA ExecWrites ==
  ASSUME PicoTyped, WorldTyped, Exec
  PROVE  Begins' /\ (current_state' = "IDLE" => UNCHANGED remaining)
<1>1. current_state = "IDLE"
  BY DEF Exec, ExecStat, ExecListSize, ExecList, ExecOther, ExecSavemem, ExecLoadmem,
         ExecForthRead, ExecForthWrite, Handles, PicoTyped
<1>2. ASSUME NEW s \in Octet, NEW p \in Seq(Octet), Len(p) \in 0..StreamCap, Reply(s, p),
             s = ERR => p = <<>>, UNCHANGED <<current_state, remaining>>
      PROVE  Begins' /\ (current_state' = "IDLE" => UNCHANGED remaining)
  BY <1>1, <1>2, ReplyWritten
<1>3. <<>> \in Seq(Octet) /\ 0 \in 0..StreamCap /\ Len(<<>>) = 0
  BY SessionAssumption DEF SessionAssumption, StreamCap
<1>4. OK \in Octet /\ ERR \in Octet /\ NO_FILE \in Octet /\ OK # ERR /\ NO_FILE # ERR
  BY ConstantTypes DEF OK, ERR, NO_FILE
<1>5. ASSUME UNCHANGED streamVars PROVE UNCHANGED <<current_state, remaining>>
  BY <1>5 DEF streamVars
<1>6. CASE ExecStat
  <2>1. <<1>> \in Seq(Octet) /\ Len(<<1>>) \in 0..StreamCap
    BY SessionAssumption DEF SessionAssumption, StreamCap, Octet
  <2>2. Reply(ERR, <<>>) \/ Reply(OK, <<1>>) \/ Reply(NO_FILE, <<>>)
    BY <1>6 DEF ExecStat
  <2>3. UNCHANGED streamVars
    BY <1>6 DEF ExecStat
  <2> QED
    BY <1>2, <1>3, <1>4, <1>5, <2>1, <2>2, <2>3
<1>7. CASE ExecListSize \/ ExecList
  <2>1. listing \in 0..StreamCap
    BY SessionAssumption DEF SessionAssumption, StreamCap, WorldTyped
  <2> DEFINE two == <<listing % Base, listing \div Base>>
  <2>2. two \in Seq(Octet) /\ Len(two) = 2 /\ 2 \in 0..StreamCap
    <3>1. listing % Base \in Octet /\ listing \div Base \in Octet
      BY <2>1, LengthBytes
    <3>2. 2 \in 0..StreamCap
      <4>1. \A b \in Nat : b >= 2 => b * b - 1 \in Nat /\ 2 <= b * b - 1
        OBVIOUS
      <4> QED
        BY <4>1, SessionAssumption DEF SessionAssumption, StreamCap
    <3> QED
      BY <3>1, <3>2
  <2>3. Zeros(listing) \in Seq(Octet) /\ Len(Zeros(listing)) = listing
    BY <2>1, StreamCapType DEF Zeros, Octet
  <2>4. Reply(ERR, <<>>) \/ Reply(OK, two) \/ Reply(OK, Zeros(listing))
    BY <1>7 DEF ExecListSize, ExecList
  <2>5. UNCHANGED streamVars
    BY <1>7 DEF ExecListSize, ExecList
  <2> HIDE DEF two
  <2> QED
    BY <1>2, <1>3, <1>4, <1>5, <2>1, <2>2, <2>3, <2>4, <2>5
<1>8. CASE ExecOther
  BY <1>2, <1>3, <1>4, <1>5, <1>8 DEF ExecOther
<1>9. ASSUME NEW early, NEW statuses \in SUBSET Octet, Refuse(early, statuses)
      PROVE  Begins' /\ (current_state' = "IDLE" => UNCHANGED remaining)
  BY <1>1, <1>9, RefuseWrites
<1>10. ASSUME NEW fn, NEW mode, NEW contents, NEW state \in {"SAVEMEM", "LOADMEM", "FORTH"},
              NEW n, NEW m \in 0..StreamCap,
              OpenStream(fn, mode, contents, state, n), Answer(Response(OK, m), "top")
       PROVE  Begins' /\ (current_state' = "IDLE" => UNCHANGED remaining)
  BY <1>10, OpenWrites
<1>11. CASE ExecSavemem
  <2>1. PICK n \in SaveLength :
          \/ Refuse(~fs_mounted \/ n = 0, IF "open" \in Faults THEN {ERR, NO_FILE} ELSE {})
          \/ OpenStream("file", "write", <<>>, "SAVEMEM", n) /\ Answer(Response(OK, 0), "top")
    BY <1>11 DEF ExecSavemem
  <2>2. (IF "open" \in Faults THEN {ERR, NO_FILE} ELSE {}) \in SUBSET Octet
    BY <1>4
  <2> QED
    BY <1>3, <1>9, <1>10, <2>1, <2>2
<1>12. CASE ExecLoadmem
  <2> DEFINE refused == (IF "open" \in Faults THEN {ERR} ELSE {})
                     \cup (IF "file" \in dir THEN {} ELSE {NO_FILE})
             size == AtMost(Len(DiskAfterDangling["file"]), StreamCap)
  <2>1. refused \in SUBSET Octet
    BY <1>4
  <2>2. \/ Refuse(~fs_mounted, refused)
        \/ /\ OpenStream("file", "read", DiskAfterDangling["file"], "LOADMEM", size)
           /\ Answer(Response(OK, size), "top")
    BY <1>12 DEF ExecLoadmem
  <2>3. size \in 0..StreamCap
    <3>1. Len(DiskAfterDangling["file"]) \in Nat
      BY DanglingType DEF Names
    <3> QED
      BY <3>1, StreamCapType DEF AtMost
  <2> HIDE DEF refused, size
  <2> QED
    BY <1>9, <1>10, <2>1, <2>2, <2>3
<1>13. CASE ExecForthWrite
  <2>1. \/ Refuse(~fs_mounted, IF "open" \in Faults \/ arg_len < 2 THEN {ERR} ELSE {})
        \/ /\ OpenStream("block", "write", <<>>, "FORTH", ForthSize)
           /\ Answer(Response(OK, 0), "top")
    BY <1>13 DEF ExecForthWrite
  <2>2. (IF "open" \in Faults \/ arg_len < 2 THEN {ERR} ELSE {}) \in SUBSET Octet
    BY <1>4
  <2> QED
    BY <1>3, <1>9, <1>10, <2>1, <2>2
<1>14. CASE ExecForthRead
  <2>1. CASE Refuse(~fs_mounted, IF "open" \in Faults \/ arg_len < 2 THEN {ERR} ELSE {})
    <3>1. (IF "open" \in Faults \/ arg_len < 2 THEN {ERR} ELSE {}) \in SUBSET Octet
      BY <1>4
    <3> QED
      BY <1>9, <2>1, <3>1
  <2>2. CASE ~Refuse(~fs_mounted, IF "open" \in Faults \/ arg_len < 2 THEN {ERR} ELSE {})
    <3>1. /\ \E stored \in
                IF "block" \in dir THEN {DiskAfterDangling["block"]}
                ELSE {Zeros(ForthSize)} \cup
                     (IF Faults \cap {"write", "close"} = {} THEN {} ELSE {<<>>}) :
               \/ Reply(OK, SubSeq(stored \o Zeros(ForthSize), 1, ForthSize))
               \/ Reply(ERR, <<>>)
          /\ UNCHANGED <<current_state, remaining>>
      BY <1>14, <2>2 DEF ExecForthRead
    <3>2. Zeros(ForthSize) \in Seq(Octet) /\ Len(Zeros(ForthSize)) = ForthSize
          /\ ForthSize \in 0..StreamCap /\ ForthSize \in Nat
      BY SessionAssumption DEF SessionAssumption, StreamCap, Zeros, Octet
    <3>3. DiskAfterDangling["block"] \in Seq(Octet) /\ <<>> \in Seq(Octet)
      BY DanglingType DEF Names
    <3>4. PICK stored \in Seq(Octet) :
               \/ Reply(OK, SubSeq(stored \o Zeros(ForthSize), 1, ForthSize))
               \/ Reply(ERR, <<>>)
      BY <3>1, <3>2, <3>3
    <3> DEFINE z == Zeros(ForthSize)
               block == SubSeq(stored \o z, 1, ForthSize)
    <3>5. block \in Seq(Octet) /\ Len(block) = ForthSize
      <4>1. z \in Seq(Octet) /\ Len(z) = ForthSize
        BY <3>2
      <4> HIDE DEF z, Octet
      <4>2. stored \o z \in Seq(Octet) /\ Len(stored \o z) >= ForthSize
        BY <3>2, <4>1
      <4> QED
        BY <3>2, <4>2
    <3>6. Reply(OK, block) \/ Reply(ERR, <<>>)
      BY <3>4
    <3> HIDE DEF block
    <3> QED
      BY <1>2, <1>3, <1>4, <3>1, <3>2, <3>5, <3>6
  <2> QED
    BY <2>1, <2>2
<1> QED
  BY <1>6, <1>7, <1>8, <1>11, <1>12, <1>13, <1>14 DEF Exec

\* A write of a stream does not fail.
LEMMA NoFailure ==
  ASSUME WritesSucceed
  PROVE  \A pc, next : ~WriteFails(pc, next)
<1>1. "write" \notin Faults /\ "lastWrite" \notin Faults
  BY DEF WritesSucceed
<1> QED
  BY <1>1 DEF WriteFails, MayFail

\* A Pico that has stopped writing keeps nothing to write; one that goes on keeps
\* what it has.
LEMMA QuietAlone ==
  ASSUME WriteCall', ppc' # "send", current_state' = "IDLE" => remaining' = 0
  PROVE  Alone'
BY DEF Alone, WriteCall

\* A byte of a stream arrives while the stream is on.
LEMMA StreamedAlone ==
  ASSUME PicoTyped, Alone, NEW pc \in {"save", "forth"}, ByteAt(pc)
  PROVE  current_state # "IDLE"
BY DEF PicoTyped, Alone, ByteAt

\* Every step of the Pico keeps what it writes in order, as long as no write fails.
LEMMA PicoAlone ==
  ASSUME WritesSucceed, LinkTypeOK, PicoTyped, WorldTyped, WriteCall, WriteCall', Alone, PicoStep
  PROVE  Alone'
<1>0. ASSUME Begins', pico'.op # "write", current_state' = "IDLE" => remaining' = 0
      PROVE  Alone'
  BY <1>0 DEF Alone
<1>1. CASE TopIdle \/ AwaitByte \/ GotCmd \/ GotLen \/ GotArg \/ TopSave \/ TopForth \/ ForthMore
  <2>1. ppc' # "send"
    BY <1>1 DEF TopIdle, AwaitByte, GotCmd, GotLen, GotArg, TopSave, TopForth, ForthMore, picoVars, PicoReads
  <2>2. UNCHANGED <<current_state, remaining>>
    BY <1>1 DEF TopIdle, AwaitByte, GotCmd, GotLen, GotArg, TopSave, TopForth, ForthMore, picoVars, streamVars
  <2> QED
    BY <2>1, <2>2, QuietAlone DEF Alone
<1>2. CASE SaveByte \/ ForthByte
  <2>1. \E pc \in {"save", "forth"}, next \in {"top", "forthLoop"} :
           KeepByte(pc, next) \/ FlushBuffer(pc, next)
    BY <1>2, NoFailure DEF SaveByte, ForthByte
  <2>2. ppc' # "send" /\ UNCHANGED current_state /\ \E pc \in {"save", "forth"} : ByteAt(pc)
    BY <2>1 DEF KeepByte, FlushBuffer, Streamed
  <2>3. current_state # "IDLE"
    BY <2>2, StreamedAlone
  <2> QED
    BY <2>2, <2>3, QuietAlone
<1>3. CASE LoadDone
  <2>1. ppc' # "send" /\ remaining' = 0
    BY <1>3 DEF LoadDone
  <2> QED
    BY <2>1, QuietAlone
<1>4. CASE Exec
  <2>1. ppc = "exec" /\ UNCHANGED pico
    BY <1>4 DEF Exec, ExecStat, ExecListSize, ExecList, ExecOther, ExecSavemem, ExecLoadmem, ExecForthRead,
         ExecForthWrite, Handles
  <2>2. pico'.op # "write" /\ current_state = "IDLE"
    BY <2>1 DEF WriteCall, PicoTyped
  <2>3. Begins' /\ (current_state' = "IDLE" => UNCHANGED remaining)
    BY <1>4, ExecWrites
  <2> QED
    BY <1>0, <2>2, <2>3 DEF Alone
<1>5. CASE SaveLast \/ ForthDone
  <2>1. \E ok \in BOOLEAN : Answer(Response(IF ok THEN OK ELSE ERR, 0), "top")
    BY <1>5 DEF SaveLast, ForthDone, CloseOutcomes
  <2>2. current_state' = "IDLE"
    BY <1>5 DEF SaveLast, ForthDone, CloseStream
  <2>3. remaining' = 0
    BY <1>5 DEF SaveLast, ForthDone, Streamed
  <2>4. pico'.op # "write"
    BY <1>5 DEF SaveLast, ForthDone, Streamed, ByteAt, PicoReturn, WriteCall
  <2>5. \A ok : (IF ok THEN OK ELSE ERR) \in Octet
    BY ConstantTypes
  <2>6. 0 \in 0..StreamCap
    BY StreamCapType DEF StreamCap
  <2>7. Begins'
    BY <2>1, <2>2, <2>5, <2>6, ShortAnswerWritten
  <2> QED
    BY <1>0, <2>2, <2>3, <2>4, <2>7
<1>6. CASE LoadByte
  <2>1. ppc = "top" /\ UNCHANGED <<pico, current_state>> /\ current_state # "IDLE"
    BY <1>6 DEF LoadByte
  <2>2. \E r \in Refills : Answer(Tagged("data", <<Head(r[1])>>), "top")
    BY <1>6 DEF LoadByte
  <2>3. \A r \in Refills : Head(r[1]) \in Octet
    <3>1. \A r \in Refills : r[1] \in Seq(Octet) /\ r[1] # <<>>
      BY <1>6, RefillsType DEF LoadByte
    <3> QED
      BY <3>1
  <2>4. PICK v \in Octet : out' = Tagged("data", <<v>>)
    BY <2>2, <2>3 DEF Answer
  <2>5. out' = <<[tag |-> "data", val |-> v]>>
    BY <2>4, OneByte
  <2>6. out' # <<>> /\ Head(out') = [tag |-> "data", val |-> v] /\ Tail(out') = <<>>
    BY <2>5
  <2>7. Begins'
    BY <2>6 DEF Begins, ErrorIsLast, NoStatus
  <2> QED
    BY <1>0, <2>1, <2>7 DEF WriteCall
<1>7. CASE WriteNext
  <2>1. Begins /\ UNCHANGED <<current_state, remaining, after>>
    BY <1>7 DEF WriteNext, Alone, PicoWrite, streamVars
  <2>2. pico'.op = "write" /\ pico'.val = Head(out) /\ out' = Tail(out)
    BY <1>7 DEF WriteNext, PicoWrite
  <2>3. ErrorIsLast(pico.val, out)'
    BY <2>1, <2>2 DEF Begins, ErrorIsLast
  <2> QED
    BY <2>1, <2>2, <2>3 DEF Alone
<1>8. CASE WriteReturns
  <2>1. NoStatus(out) /\ UNCHANGED <<out, current_state, remaining, after>>
    BY <1>8 DEF WriteReturns, Alone, ErrorIsLast, streamVars
  <2>2. pico'.op # "write" /\ ppc' = IF out = <<>> THEN after ELSE "send"
    BY <1>8 DEF WriteReturns, PicoReturn
  <2>3. out \in Seq(Byte) /\ after # "send"
    BY DEF PicoTyped
  <2>4. out # <<>> => Head(out).tag # "status" /\ NoStatus(Tail(out))
    BY <2>1, <2>3, NoStatusCons
  <2>5. ppc' = "send" => Begins'
    BY <2>1, <2>2, <2>3, <2>4 DEF Begins, ErrorIsLast
  <2> QED
    BY <2>1, <2>2, <2>5 DEF Alone
<1> QED
  BY <1>1, <1>2, <1>3, <1>4, <1>5, <1>6, <1>7, <1>8 DEF PicoStep

\* Nobody else changes it: neither a reset nor the reads of a sync.
LEMMA StillAlone ==
  ASSUME Alone, UNCHANGED picoVars, pico'.op = pico.op, pico.op = "write" => pico'.val = pico.val
  PROVE  Alone'
<1>1. UNCHANGED <<ppc, out, after, current_state, remaining>>
  BY DEF picoVars, streamVars
<1> QED
  BY <1>1 DEF Alone, Begins, ErrorIsLast

LEMMA ResetOwn ==
  ASSUME SyncTyped, HostReset
  PROVE  UNCHANGED picoVars /\ pico'.op = pico.op /\ (pico.op = "write" => pico'.val = pico.val)
<1>1. pico \in Call({"read", "write"})
  BY DEF SyncTyped, LinkTypeOK
<1>2. UNCHANGED pico \/ (pico.op = "read" /\ pico' = [pico EXCEPT !.st = "met", !.val = Nothing])
  BY DEF HostReset
<1>3. pico'.op = pico.op /\ (pico.op = "write" => pico'.val = pico.val)
  BY <1>1, <1>2 DEF Call
<1> QED
  BY <1>3 DEF HostReset

LEMMA OtherOwn ==
  ASSUME SyncTyped, [SyncNext]_allVars, ~(PicoStep /\ UNCHANGED syncVars)
  PROVE  UNCHANGED picoVars /\ pico'.op = pico.op /\ (pico.op = "write" => pico'.val = pico.val)
<1>1. CASE (StartProgram \/ HostStep) /\ UNCHANGED syncVars
  BY <1>1, StartOwn, HostOwn
<1>2. CASE Meet
  BY <1>2 DEF Meet, Exchange
<1>3. CASE HostReset
  BY <1>3, ResetOwn
<1>4. CASE SyncRead \/ SyncTimeout \/ SyncByte \/ MarkByte
  BY <1>4, SyncOwn
<1>5. CASE UNCHANGED allVars
  BY <1>5 DEF allVars, vars
<1> QED
  BY <1>1, <1>2, <1>3, <1>4, <1>5 DEF SyncNext

LEMMA AloneKept ==
  ASSUME WritesSucceed, SyncTyped, SyncTyped', Alone, [SyncNext]_allVars
  PROVE  Alone'
<1>1. CASE PicoStep /\ UNCHANGED syncVars
  BY <1>1, PicoAlone DEF SyncTyped
<1>2. CASE ~(PicoStep /\ UNCHANGED syncVars)
  BY <1>2, OtherOwn, StillAlone
<1> QED
  BY <1>1, <1>2

LEMMA InitAlone ==
  ASSUME SyncInit
  PROVE  Alone
BY DEF SyncInit, Init, Alone

-----------------------------------------------------------------------------
(***************************************************************************)
(* The marker.                                                             *)
(***************************************************************************)
HostMet == host.op = "read" /\ host.st = "met"

\* The Pico has n bytes left to give of an error, and then waits for a command.
Gives(n) ==
    /\ after = "top" /\ current_state = "IDLE" /\ remaining = 0
    /\ \/ ppc = "send" /\ pico.op = "write" /\ pico.st = "open" /\ Len(out) = n - 1
       \/ ppc = "send" /\ pico.op = "write" /\ pico.st = "met" /\ Len(out) = n
       \/ ppc = "send" /\ pico.op = "idle" /\ Len(out) = n /\ n > 0
       \/ ppc \in {"top", "cmd"} /\ pico.op = "idle" /\ out = <<>> /\ n = 0
       \/ ppc = "cmd" /\ pico.op = "read" /\ pico.st = "open" /\ out = <<>> /\ n = 0

\* From the marker on the 65C02 takes these bytes and no other.
Marked ==
    /\ hpc = "sync" /\ HostMet /\ host.val.tag = "status" /\ host.val.val = ERR => Gives(2)
    /\ hpc = "mark1" /\ marker = "status" => Gives(IF HostMet THEN 1 ELSE 2)
    /\ hpc = "mark2" /\ marker = "status" => Gives(IF HostMet THEN 0 ELSE 1)
    /\ synced = "found" /\ prog = "none" =>
          hpc = "idle" /\ host.op = "idle" /\ (marker = "status" => Gives(0))

\* The Pico goes on with an error it has begun.
LEMMA GivesKept ==
  ASSUME WriteCall, PicoTyped, PicoStep, NEW n \in Nat, Gives(n)
  PROVE  Gives(n)'
<1>0. out \in Seq(Byte)
  BY DEF PicoTyped
<1>1. CASE ppc = "send" /\ pico.op = "write"
  <2>1. WriteReturns /\ pico.st = "met" /\ Len(out) = n
    BY <1>1, PicoAt DEF Gives, WriteNext, WriteReturns, PicoWrite, PicoReturn
  <2>2. UNCHANGED <<out, after, current_state, remaining>> /\ pico'.op = "idle"
        /\ ppc' = IF out = <<>> THEN after ELSE "send"
    BY <2>1 DEF WriteReturns, PicoReturn, streamVars
  <2>3. out # <<>> => Len(out) > 0
    <3> HIDE DEF Byte
    <3> QED
      BY <1>0
  <2>4. out = <<>> => n = 0
    BY <2>1
  <2> QED
    BY <1>1, <2>1, <2>2, <2>3, <2>4 DEF Gives
<1>2. CASE ppc = "send" /\ pico.op = "idle"
  <2>1. Len(out) = n /\ n > 0
    BY <1>2 DEF Gives
  <2>2. WriteNext
    BY <1>2, PicoAt DEF WriteReturns
  <2>3. pico'.op = "write" /\ pico'.st = "open" /\ out' = Tail(out)
        /\ UNCHANGED <<ppc, after, current_state, remaining>>
    BY <2>2 DEF WriteNext, PicoWrite, streamVars
  <2>4. Len(Tail(out)) = n - 1
    <3> HIDE DEF Byte
    <3> QED
      BY <1>0, <2>1
  <2> QED
    BY <1>2, <2>3, <2>4 DEF Gives
<1>3. CASE ppc = "top" /\ pico.op = "idle" /\ out = <<>> /\ n = 0
  <2>1. TopIdle
    BY <1>3, PicoAt DEF Gives
  <2>2. UNCHANGED <<out, after, current_state, remaining, pico>> /\ ppc' = "cmd"
    BY <2>1 DEF TopIdle, streamVars
  <2> QED
    BY <1>3, <2>2 DEF Gives
<1>4. CASE ppc = "cmd" /\ out = <<>> /\ n = 0
  <2>1. AwaitByte
    BY <1>4, PicoAt DEF Gives, GotCmd, ByteAt, PicoReturn
  <2>2. UNCHANGED <<ppc, out, after, current_state, remaining>> /\ pico'.op = "read" /\ pico'.st = "open"
    BY <2>1 DEF AwaitByte, PicoRead, picoVars, streamVars
  <2> QED
    BY <1>4, <2>2 DEF Gives
<1> QED
  BY <1>1, <1>2, <1>3, <1>4 DEF Gives

\* It does not depend on anybody else.
LEMMA GivesStill ==
  ASSUME NEW n, Gives(n), UNCHANGED picoVars, UNCHANGED pico
  PROVE  Gives(n)'
<1>1. UNCHANGED <<ppc, out, after, current_state, remaining>>
  BY DEF picoVars, streamVars
<1> QED
  BY <1>1 DEF Gives

\* A read of the 65C02 takes one byte of it.
LEMMA GivesTaken ==
  ASSUME NEW n \in 1..2, Gives(n), Exchange, UNCHANGED picoVars
  PROVE  Gives(n - 1)'
<1>1. UNCHANGED <<ppc, out, after, current_state, remaining>>
  BY DEF picoVars, streamVars
<1>2. ppc = "send" /\ pico.op = "write" /\ Len(out) = n - 1
  BY DEF Gives, Exchange
<1>3. pico'.op = "write" /\ pico'.st = "met"
  BY <1>2 DEF Exchange
<1> QED
  BY <1>1, <1>2, <1>3 DEF Gives

\* What the 65C02 has read from a Pico that writes an error.
LEMMA MarkerMet ==
  ASSUME SyncTyped, Alone, Exchange, UNCHANGED picoVars, host.op = "read",
         host'.val.tag = "status", host'.val.val = ERR
  PROVE  Gives(2)'
<1>1. pico.op = "write" /\ host'.val = pico.val
  BY DEF Exchange, Nothing
<1>2. Len(out) = 2 /\ after = "top" /\ current_state = "IDLE" /\ remaining = 0 /\ ppc = "send"
  BY <1>1 DEF Alone, ErrorIsLast, SyncTyped, WriteCall
<1>3. UNCHANGED <<ppc, out, after, current_state, remaining>>
  BY DEF picoVars, streamVars
<1>4. pico'.op = "write" /\ pico'.st = "met"
  BY <1>1 DEF Exchange
<1> QED
  BY <1>2, <1>3, <1>4 DEF Gives

\* Where the 65C02 and its sync are after each kind of step.
LEMMA MarkedKept ==
  ASSUME SyncTyped, SyncTyped', Alone, Marked, [SyncNext]_allVars
  PROVE  Marked'
<1>0. hpc \in Syncing => host.op # "send"
  BY DEF SyncTyped, Blank
<1>00. 0 \in Nat /\ 1 \in Nat /\ 2 \in Nat
  OBVIOUS
<1>1. CASE PicoStep /\ UNCHANGED syncVars
  <2>1. \A n \in Nat : Gives(n) => Gives(n)'
    BY <1>1, GivesKept DEF SyncTyped
  <2>2. UNCHANGED <<hpc, prog, host, synced, marker>>
    BY <1>1, PicoOwn DEF hostVars, syncVars
  <2>3. (Gives(0) => Gives(0)') /\ (Gives(1) => Gives(1)') /\ (Gives(2) => Gives(2)')
    BY <2>1
  <2> HIDE DEF Gives
  <2> QED
    BY <2>2, <2>3 DEF Marked, HostMet
<1>2. CASE (StartProgram \/ HostStep) /\ UNCHANGED syncVars
  <2>1. UNCHANGED <<synced, marker>>
    BY <1>2 DEF syncVars
  <2>2. hpc \notin Syncing
    BY <1>0, <1>2, StartOwn, HostOwn DEF Syncing
  <2>3. hpc' \notin Syncing
    BY <2>1, <2>2 DEF SyncTyped
  <2>4. StartProgram => prog' # "none"
    BY StartOwn
  <2>5. HostStep => prog' = prog /\ (hpc = "idle" => host.op = "send")
    BY HostOwn
  <2>6. ~(synced' = "found" /\ prog' = "none")
    BY <1>2, <2>1, <2>4, <2>5 DEF Marked
  <2> QED
    BY <2>3, <2>6 DEF Marked, Syncing
<1>3. CASE Meet /\ UNCHANGED syncVars
  <2>1. UNCHANGED <<hpc, prog, synced, marker>> /\ UNCHANGED picoVars /\ Exchange
    BY <1>3 DEF Meet, hostVars, syncVars
  <2>2. host.op # "idle" /\ host.st = "open" /\ host'.op = host.op /\ host'.st = "met"
    BY <2>1 DEF Exchange
  <2>3. hpc \in Syncing => host.op = "read"
    BY <1>0, <2>2 DEF SyncTyped, LinkTypeOK, Call
  <2>4. hpc = "sync" /\ host'.val.tag = "status" /\ host'.val.val = ERR => Gives(2)'
    BY <2>1, <2>3, MarkerMet DEF Syncing
  <2>5. hpc = "mark1" /\ marker = "status" => Gives(1)'
    <3>1. hpc = "mark1" /\ marker = "status" => Gives(2)
      BY <2>2 DEF Marked, HostMet
    <3>2. Gives(2) => Gives(2 - 1)'
      BY <2>1, GivesTaken
    <3> QED
      BY <3>1, <3>2
  <2>6. hpc = "mark2" /\ marker = "status" => Gives(0)'
    <3>1. hpc = "mark2" /\ marker = "status" => Gives(1)
      BY <2>2 DEF Marked, HostMet
    <3>2. Gives(1) => Gives(1 - 1)'
      BY <2>1, GivesTaken
    <3> QED
      BY <3>1, <3>2
  <2>7. ~(synced = "found" /\ prog = "none")
    BY <2>2 DEF Marked
  <2>8. hpc \in Syncing => HostMet'
    BY <2>2, <2>3 DEF HostMet
  <2> HIDE DEF Gives
  <2> QED
    BY <2>1, <2>4, <2>5, <2>6, <2>7, <2>8 DEF Marked, Syncing
<1>4. CASE HostReset
  <2>1. hpc' = "sync" /\ host'.op = "idle" /\ synced' = "looking"
    BY <1>4 DEF HostReset, Free
  <2> QED
    BY <2>1 DEF Marked, HostMet
<1>5. CASE SyncRead \/ SyncTimeout \/ SyncByte \/ MarkByte
  <2>1. UNCHANGED picoVars /\ UNCHANGED pico /\ hpc \in Syncing
    BY <1>5, SyncOwn
  <2>2. \A n \in Nat : Gives(n) => Gives(n)'
    BY <2>1, GivesStill
  <2>3. (Gives(0) => Gives(0)') /\ (Gives(1) => Gives(1)') /\ (Gives(2) => Gives(2)')
    BY <2>2
  <2>4. synced = "looking"
    BY <2>1 DEF SyncTyped
  <2> HIDE DEF Gives
  <2>5. CASE SyncRead
    <3>1. UNCHANGED <<hpc, prog, synced, marker>> /\ ~HostMet /\ ~HostMet'
      BY <2>5 DEF SyncRead, HostRead, HostMet, hostVars, syncVars
    <3> QED
      BY <2>3, <2>4, <3>1 DEF Marked, HostMet
  <2>6. CASE SyncTimeout
    <3>1. hpc' = "idle" /\ synced' = "skipped"
      BY <2>6 DEF SyncTimeout
    <3> QED
      BY <3>1 DEF Marked
  <2>7. CASE SyncByte
    <3>1. HostMet /\ ~HostMet' /\ hpc = "sync"
      BY <2>7 DEF SyncByte, DummyReturns, HostReturn, HostMet
    <3>2. CASE host.val.val = ERR
      <4>1. hpc' = "mark1" /\ marker' = host.val.tag /\ synced' = synced
        BY <2>7, <3>2 DEF SyncByte, Looked
      <4> QED
        BY <2>3, <2>4, <3>1, <3>2, <4>1 DEF Marked
    <3>3. CASE host.val.val # ERR
      <4>1. hpc' \in {"sync", "idle"} /\ synced' # "found"
        BY <2>4, <2>7, <3>1, <3>3 DEF SyncByte, Looked
      <4> QED
        BY <3>1, <4>1 DEF Marked, HostMet
    <3> QED
      BY <3>2, <3>3
  <2>8. CASE MarkByte
    <3>1. HostMet /\ ~HostMet' /\ host'.op = "idle" /\ UNCHANGED <<marker, prog>>
      BY <2>8 DEF MarkByte, HostReturn, HostMet
    <3>2. CASE hpc = "mark1"
      <4>1. hpc' = "mark2" /\ synced' = synced
        BY <2>8, <3>2 DEF MarkByte
      <4> QED
        BY <2>3, <2>4, <3>1, <3>2, <4>1 DEF Marked
    <3>3. CASE hpc = "mark2"
      <4>1. hpc' = "idle" /\ synced' = "found"
        BY <2>8, <3>3 DEF MarkByte
      <4> QED
        BY <2>3, <3>1, <3>3, <4>1 DEF Marked
    <3> QED
      BY <2>8, <3>2, <3>3 DEF MarkByte
  <2> QED
    BY <1>5, <2>5, <2>6, <2>7, <2>8
<1>6. CASE UNCHANGED allVars
  <2>1. UNCHANGED picoVars /\ UNCHANGED pico /\ UNCHANGED <<hpc, prog, host, synced, marker>>
    BY <1>6 DEF allVars, vars, hostVars, syncVars
  <2>2. \A n \in Nat : Gives(n) => Gives(n)'
    BY <2>1, GivesStill
  <2>3. (Gives(0) => Gives(0)') /\ (Gives(1) => Gives(1)') /\ (Gives(2) => Gives(2)')
    BY <2>2
  <2> HIDE DEF Gives
  <2> QED
    BY <2>1, <2>3 DEF Marked, HostMet
<1> QED
  BY <1>1, <1>2, <1>3, <1>4, <1>5, <1>6 DEF SyncNext

\* The marker is followed to the end: the Pico waits for a command.
LEMMA GivenAll ==
  ASSUME SyncTyped, Gives(0)
  PROVE  NothingLeftOver
<1>0. out \in Seq(Byte)
  BY DEF SyncTyped, PicoTyped
<1>1. Len(out) = 0 => out = <<>>
  <2> HIDE DEF Byte
  <2> QED
    BY <1>0
<1>2. ~(ppc = "send" /\ pico.op = "write" /\ pico.st = "open" /\ Len(out) = 0 - 1)
  <2> HIDE DEF Byte
  <2> QED
    BY <1>0
<1> QED
  BY <1>1, <1>2 DEF Gives, NothingLeftOver

\* SyncBridge.MarkerMeansRest: the error that answers a command 0, or any other, is
\* the last thing the Pico has to say, if no write of a stream fails: the sync ends
\* with a Pico that waits for a command, whatever it was in when the 65C02 started
\* again.
THEOREM MarkersMeanRest ==
  ASSUME WritesSucceed
  PROVE  SyncSpec => []MarkerMeansRest
<1> DEFINE I == SyncTyped /\ Alone /\ Marked
<1>1. SyncInit => I
  <2>1. SyncInit => SyncTyped /\ Alone
    BY InitSyncTyped, InitAlone
  <2>2. SyncInit => Marked
    BY DEF SyncInit, Init, Marked
  <2> QED
    BY <2>1, <2>2
<1>2. I /\ [SyncNext]_allVars => I'
  BY SyncKeepsType, AloneKept, MarkedKept
<1>3. I => MarkerMeansRest
  <2>1. ASSUME I, synced = "found", prog = "none", marker = "status" PROVE NothingLeftOver
    <3>1. Gives(0)
      BY <2>1 DEF Marked
    <3> QED
      BY <2>1, <3>1, GivenAll
  <2> QED
    BY <2>1 DEF MarkerMeansRest
<1> HIDE DEF I
<1> QED
  BY <1>1, <1>2, <1>3, PTL DEF SyncSpec
-----------------------------------------------------------------------------
(***************************************************************************)
(* The dummy reads that meet a Pico at rest.                               *)
(***************************************************************************)
\* The dummy reads that have met a call of the Pico.
Tried == tries + One(HostMet)

\* The Pico has taken n of them for a command 0 without arguments.
Obeys(n) ==
    \/ n = 0 /\ ppc = "cmd" /\ pico.op = "read" /\ pico.st = "open"
    \/ n = 1 /\ ppc = "cmd" /\ pico.op = "read" /\ pico.st = "met" /\ pico.val.val = 0
    \/ n = 1 /\ ppc = "len" /\ cmd_id = 0 /\ (pico.op = "idle" \/ (pico.op = "read" /\ pico.st = "open"))
    \/ n = 2 /\ ppc = "len" /\ cmd_id = 0 /\ pico.op = "read" /\ pico.st = "met" /\ pico.val.val = 0
    \/ n = 2 /\ ppc = "exec" /\ cmd_id = 0 /\ pico.op = "idle"
    \/ n = 2 /\ ppc = "send" /\ current_state = "IDLE" /\ pico.op = "idle"
             /\ out # <<>> /\ Head(out).val = ERR
    \/ n = 2 /\ ppc = "send" /\ current_state = "IDLE" /\ pico.op = "write" /\ pico.st = "open"
             /\ pico.val.val = ERR
    \/ n = 3 /\ HostMet /\ host.val.val = ERR

\* A Pico that was at rest at the reset gives ERR to the third read at the latest.
Answered ==
    /\ tries \in Nat
    /\ hpc = "sync" /\ atRest => Obeys(Tried) /\ (HostMet /\ Tried < 3 => host.val.val = 0)
    /\ synced = "skipped" => ~atRest

\* The Pico goes on with the command 0.
LEMMA ObeysKept ==
  ASSUME WriteCall, PicoTyped, PicoStep, NEW n \in 0..3, Obeys(n)
  PROVE  Obeys(n)'
<1>0. UNCHANGED host
  BY PicoOwn
<1>1. CASE n = 0 /\ ppc = "cmd" /\ pico.op = "read" /\ pico.st = "open"
  BY <1>1, PicoAt DEF AwaitByte, PicoRead, GotCmd, ByteAt, PicoReturn
<1>2. CASE n = 1 /\ ppc = "cmd" /\ pico.op = "read" /\ pico.st = "met" /\ pico.val.val = 0
  <2>1. GotCmd
    BY <1>2, PicoAt DEF AwaitByte, PicoRead
  <2>2. ppc' = "len" /\ cmd_id' = 0 /\ pico'.op = "idle"
    BY <1>2, <2>1 DEF GotCmd, ByteAt, PicoReturn
  <2> QED
    BY <1>2, <2>2 DEF Obeys
<1>3. CASE n = 1 /\ ppc = "len" /\ cmd_id = 0 /\ (pico.op = "idle" \/ (pico.op = "read" /\ pico.st = "open"))
  <2>1. AwaitByte
    BY <1>3, PicoAt DEF GotLen, ByteAt, PicoReturn
  <2>2. UNCHANGED <<ppc, cmd_id>> /\ pico'.op = "read" /\ pico'.st = "open"
    BY <2>1 DEF AwaitByte, PicoRead, picoVars, requestVars
  <2> QED
    BY <1>3, <2>2 DEF Obeys
<1>4. CASE n = 2 /\ ppc = "len" /\ cmd_id = 0 /\ pico.op = "read" /\ pico.st = "met" /\ pico.val.val = 0
  <2>1. GotLen
    BY <1>4, PicoAt DEF AwaitByte, PicoRead
  <2>2. ppc' = "exec" /\ cmd_id' = 0 /\ pico'.op = "idle"
    BY <1>4, <2>1 DEF GotLen, ByteAt, PicoReturn
  <2> QED
    BY <1>4, <2>2 DEF Obeys
<1>5. CASE n = 2 /\ ppc = "exec" /\ cmd_id = 0 /\ pico.op = "idle"
  <2>1. ExecOther
    BY <1>5, PicoAt DEF Exec, ExecStat, ExecListSize, ExecList, ExecSavemem, ExecLoadmem, ExecForthRead,
           ExecForthWrite, Handles, Commands
  <2>2. Reply(ERR, <<>>) /\ UNCHANGED <<pico, current_state>>
    BY <2>1 DEF ExecOther, streamVars
  <2>3. current_state = "IDLE"
    BY <1>5 DEF PicoTyped
  <2>4. ppc' = "send" /\ out' # <<>> /\ Head(out').val = ERR
    <3> DEFINE e == <<>>
    <3>1. e \in Seq(Octet) /\ Len(e) \in 0..StreamCap
      BY SessionAssumption DEF SessionAssumption, StreamCap
    <3>2. Tagged("data", e) \in Seq(Byte) /\ NoStatus(Tagged("data", e))
      BY <3>1, DataIs
    <3>3. out' = Response(ERR, Len(e)) \o Tagged("data", e) /\ ppc' = "send"
      BY <2>2 DEF Reply, Answer
    <3>4. ERR \in Octet
      BY ConstantTypes
    <3> HIDE DEF e
    <3>5. out' # <<>> /\ Head(out') = [tag |-> "status", val |-> ERR]
      BY <3>1, <3>2, <3>3, <3>4, AnswerIs
    <3> QED
      BY <3>3, <3>5
  <2> QED
    BY <1>5, <2>2, <2>3, <2>4 DEF Obeys
<1>6. CASE n = 2 /\ ppc = "send" /\ current_state = "IDLE" /\ pico.op = "idle"
           /\ out # <<>> /\ Head(out).val = ERR
  <2>1. WriteNext
    BY <1>6, PicoAt DEF WriteReturns
  <2>2. UNCHANGED <<ppc, current_state>> /\ pico'.op = "write" /\ pico'.st = "open" /\ pico'.val = Head(out)
    BY <2>1 DEF WriteNext, PicoWrite, streamVars
  <2> QED
    BY <1>6, <2>2 DEF Obeys
<1>7. CASE n = 2 /\ ppc = "send" /\ current_state = "IDLE" /\ pico.op = "write" /\ pico.st = "open"
           /\ pico.val.val = ERR
  BY <1>7, PicoAt DEF WriteNext, PicoWrite, WriteReturns, PicoReturn
<1>8. CASE n = 3 /\ HostMet /\ host.val.val = ERR
  BY <1>0, <1>8 DEF Obeys, HostMet
<1> QED
  BY <1>1, <1>2, <1>3, <1>4, <1>5, <1>6, <1>7, <1>8 DEF Obeys

\* A step of the 65C02 that takes no byte it has been given leaves it.
LEMMA ObeysStill ==
  ASSUME NEW n \in 0..2, Obeys(n), UNCHANGED picoVars, UNCHANGED pico
  PROVE  Obeys(n)'
<1>1. UNCHANGED <<ppc, current_state, cmd_id, out>>
  BY DEF picoVars, streamVars, requestVars
<1>2. n # 3
  OBVIOUS
<1> QED
  BY <1>1, <1>2 DEF Obeys

\* A dummy read that meets the Pico is a byte more.
LEMMA ObeysTaken ==
  ASSUME NEW n \in 0..3, Obeys(n), Exchange, UNCHANGED picoVars, host.op = "read"
  PROVE  n <= 2 /\ Obeys(n + 1)' /\ (n + 1 < 3 => host'.val.val = 0)
<1>0. UNCHANGED <<ppc, current_state, cmd_id, out>>
  BY DEF picoVars, streamVars, requestVars
<1>1. /\ host.st = "open" /\ pico.st = "open" /\ pico.op # "idle"
      /\ host'.op = "read" /\ host'.st = "met" /\ pico'.op = pico.op /\ pico'.st = "met"
      /\ host'.val = IF pico.op = "write" THEN pico.val ELSE Nothing
      /\ pico.op # "write" => pico'.val = Nothing
  BY DEF Exchange
<1>2. Nothing.val = 0
  BY DEF Nothing
<1>3. CASE n = 0 /\ ppc = "cmd" /\ pico.op = "read" /\ pico.st = "open"
  BY <1>0, <1>1, <1>2, <1>3 DEF Obeys
<1>4. CASE n = 1 /\ ppc = "len" /\ cmd_id = 0 /\ pico.op = "read" /\ pico.st = "open"
  BY <1>0, <1>1, <1>2, <1>4 DEF Obeys
<1>5. CASE n = 2 /\ ppc = "send" /\ current_state = "IDLE" /\ pico.op = "write" /\ pico.st = "open"
           /\ pico.val.val = ERR
  BY <1>0, <1>1, <1>5 DEF Obeys, HostMet
<1> QED
  BY <1>1, <1>3, <1>4, <1>5 DEF Obeys, HostMet

\* A Pico that obeys is never busy.
LEMMA ObeysIsQuick ==
  ASSUME PicoTyped, NEW n \in 0..2, Obeys(n)
  PROVE  ~Busy
<1>1. n # 3
  OBVIOUS
<1> QED
  BY <1>1 DEF Obeys, Busy, Calling, PicoTyped

\* Three tries are enough, and there are sixteen: two would be too few.
LEMMA AnsweredKept ==
  ASSUME MaxTries > 2, SyncTyped, SyncTyped', Answered, [SyncNext]_allVars
  PROVE  Answered'
<1>0. tries \in Nat /\ One(HostMet) \in 0..1 /\ (hpc \in Syncing => host.op # "send")
  BY DEF Answered, One, SyncTyped, Blank
<1>1. hpc = "sync" /\ atRest => Tried \in 0..3
  <2>1. hpc = "sync" /\ atRest => Obeys(Tried)
    BY DEF Answered
  <2>2. \A n : Obeys(n) => n \in 0..3
    BY DEF Obeys
  <2> QED
    BY <2>1, <2>2
<1>2. CASE PicoStep /\ UNCHANGED syncVars
  <2>1. UNCHANGED <<hpc, host, tries, atRest, synced>>
    BY <1>2, PicoOwn DEF hostVars, syncVars
  <2>2. Tried' = Tried /\ HostMet' = HostMet
    BY <2>1 DEF Tried, HostMet
  <2>3. \A n \in 0..3 : Obeys(n) => Obeys(n)'
    BY <1>2, ObeysKept DEF SyncTyped
  <2>4. hpc = "sync" /\ atRest => \E n \in 0..3 : n = Tried /\ Obeys(n)
    BY <1>1 DEF Answered
  <2>5. hpc = "sync" /\ atRest => \E n \in 0..3 : n = Tried' /\ Obeys(n)'
    BY <2>2, <2>3, <2>4
  <2>6. hpc = "sync" /\ atRest => Obeys(Tried)'
    BY <2>5
  <2> QED
    BY <2>1, <2>2, <2>6 DEF Answered
<1>3. CASE (StartProgram \/ HostStep) /\ UNCHANGED syncVars
  <2>1. UNCHANGED <<synced, tries, atRest>>
    BY <1>3 DEF syncVars
  <2>2. hpc \notin Syncing
    BY <1>0, <1>3, StartOwn, HostOwn DEF Syncing
  <2>3. hpc' \notin Syncing
    BY <2>1, <2>2 DEF SyncTyped
  <2> QED
    BY <2>1, <2>3 DEF Answered, Syncing
<1>4. CASE Meet /\ UNCHANGED syncVars
  <2>1. UNCHANGED <<hpc, tries, atRest, synced>> /\ UNCHANGED picoVars /\ Exchange
    BY <1>4 DEF Meet, hostVars, syncVars
  <2>2. hpc = "sync" => host.op = "read"
    BY <1>0, <2>1 DEF SyncTyped, LinkTypeOK, Call, Exchange, Syncing
  <2>3. hpc = "sync" => ~HostMet /\ HostMet'
    BY <2>1, <2>2 DEF Exchange, HostMet
  <2>4. hpc = "sync" => Tried = tries /\ Tried' = tries + 1
    BY <1>0, <2>1, <2>3 DEF Tried, One
  <2>5. \A n \in 0..3 : Obeys(n) /\ host.op = "read" => Obeys(n + 1)' /\ (n + 1 < 3 => host'.val.val = 0)
    BY <2>1, ObeysTaken
  <2>6. hpc = "sync" /\ atRest => \E n \in 0..3 : n = tries /\ Obeys(n)
    BY <1>1, <2>4 DEF Answered
  <2>7. hpc = "sync" /\ atRest => \E m : m = Tried' /\ Obeys(m)' /\ (m < 3 => host'.val.val = 0)
    BY <2>2, <2>4, <2>5, <2>6
  <2>8. hpc = "sync" /\ atRest => Obeys(Tried)' /\ (Tried' < 3 => host'.val.val = 0)
    BY <2>7
  <2> QED
    BY <2>1, <2>8 DEF Answered
<1>5. CASE HostReset
  <2>1. tries' = 0 /\ host'.op = "idle" /\ synced' = "looking" /\ UNCHANGED picoVars
    BY <1>5 DEF HostReset, Free
  <2>2. ~HostMet' /\ Tried' = 0
    BY <2>1 DEF HostMet, Tried, One
  <2>3. atRest' => ppc = "cmd" /\ pico.op = "read" /\ pico'.st = "open"
    BY <1>5 DEF HostReset
  <2>4. pico'.op = pico.op /\ ppc' = ppc
    BY <1>5, ResetOwn DEF picoVars
  <2>5. atRest' => Obeys(0)'
    BY <2>3, <2>4 DEF Obeys
  <2>6. atRest' => Obeys(Tried)'
    BY <2>2, <2>5
  <2> QED
    BY <2>1, <2>2, <2>6 DEF Answered
<1>6. CASE SyncRead \/ SyncTimeout \/ SyncByte \/ MarkByte
  <2>1. UNCHANGED picoVars /\ UNCHANGED pico /\ hpc \in Syncing
    BY <1>6, SyncOwn
  <2>2. \A n \in 0..2 : Obeys(n) => Obeys(n)'
    BY <2>1, ObeysStill
  <2>3. synced = "looking"
    BY <2>1 DEF SyncTyped
  <2>4. CASE SyncRead
    <3>1. UNCHANGED <<hpc, synced, tries, atRest>> /\ ~HostMet /\ ~HostMet'
      BY <2>4 DEF SyncRead, HostRead, HostMet, hostVars, syncVars
    <3>2. Tried = tries /\ Tried' = tries
      BY <1>0, <3>1 DEF Tried, One
    <3>3. hpc = "sync" /\ atRest => \E n \in 0..2 : n = tries /\ Obeys(n)
      BY <1>1, <3>1, <3>2 DEF Answered, Obeys
    <3>4. hpc = "sync" /\ atRest => \E n \in 0..2 : n = Tried' /\ Obeys(n)'
      BY <2>2, <3>2, <3>3
    <3>5. hpc = "sync" /\ atRest => Obeys(Tried)'
      BY <3>4
    <3> QED
      BY <3>1, <3>5 DEF Answered
  <2>5. CASE SyncTimeout
    <3>1. hpc = "sync" /\ hpc' = "idle" /\ UNCHANGED <<tries, atRest>> /\ Busy /\ ~HostMet
      BY <2>5 DEF SyncTimeout, HostMet, Calling
    <3>2. Tried = tries
      BY <1>0, <3>1 DEF Tried, One
    <3>3. atRest => \E n \in 0..2 : Obeys(n)
      BY <1>1, <3>1, <3>2 DEF Answered, Obeys
    <3>4. ~atRest
      BY <3>1, <3>3, ObeysIsQuick DEF SyncTyped
    <3> QED
      BY <3>1, <3>4 DEF Answered
  <2>6. CASE SyncByte
    <3>1. HostMet /\ ~HostMet' /\ hpc = "sync" /\ UNCHANGED atRest
      BY <2>6 DEF SyncByte, DummyReturns, HostReturn, HostMet
    <3>2. Tried = tries + 1
      BY <1>0, <3>1 DEF Tried, One
    <3>3. CASE host.val.val = ERR
      <4>1. hpc' = "mark1" /\ synced' = synced /\ tries' = tries
        BY <2>6, <3>3 DEF SyncByte, Looked
      <4> QED
        BY <1>0, <2>3, <4>1 DEF Answered
    <3>4. CASE host.val.val # ERR
      <4>1. /\ tries' = tries + 1
            /\ tries + 1 # MaxTries => synced' = synced
        BY <2>6, <3>4 DEF SyncByte, Looked
      <4>2. Tried' = tries + 1
        BY <1>0, <3>1, <4>1 DEF Tried, One
      <4>3. atRest => \E n \in 0..2 : n = tries + 1 /\ Obeys(n)
        BY <1>1, <3>1, <3>2, <3>4 DEF Answered, Obeys
      <4>4. atRest => tries + 1 < MaxTries
        BY <1>0, <4>3, SyncAssumption DEF SyncAssumption
      <4>5. atRest => \E n \in 0..2 : n = Tried' /\ Obeys(n)'
        BY <2>2, <4>2, <4>3
      <4>6. atRest => Obeys(Tried)'
        BY <4>5
      <4>7. atRest => synced' # "skipped"
        BY <1>0, <2>3, <4>1, <4>4, SyncAssumption DEF SyncAssumption
      <4> QED
        BY <1>0, <3>1, <4>1, <4>6, <4>7 DEF Answered
    <3> QED
      BY <3>3, <3>4
  <2>7. CASE MarkByte
    <3>1. hpc' \in {"mark2", "idle"} /\ synced' # "skipped" /\ UNCHANGED tries
      BY <2>3, <2>7 DEF MarkByte
    <3> QED
      BY <1>0, <3>1 DEF Answered
  <2> QED
    BY <1>6, <2>4, <2>5, <2>6, <2>7
<1>7. CASE UNCHANGED allVars
  <2>1. UNCHANGED <<hpc, host, tries, atRest, synced>> /\ UNCHANGED <<ppc, pico, cmd_id, current_state, out>>
    BY <1>7 DEF allVars, vars, hostVars, syncVars, picoVars, requestVars, streamVars
  <2> QED
    BY <2>1 DEF Answered, Obeys, Tried, HostMet
<1> QED
  BY <1>2, <1>3, <1>4, <1>5, <1>6, <1>7 DEF SyncNext

\* SyncBridge.RestIsFound: a Pico that waits for a command takes two dummy reads for
\* a command 0 and answers the third, so that a sync that gives up has met one that
\* was in the middle of something.  Whatever the disk does.
THEOREM RestFound ==
  ASSUME MaxTries > 2
  PROVE  SyncSpec => []RestIsFound
<1> DEFINE I == SyncTyped /\ Answered
<1>1. SyncInit => I
  <2>1. SyncInit => SyncTyped
    BY InitSyncTyped
  <2>2. SyncInit => Answered
    BY DEF SyncInit, Init, Answered
  <2> QED
    BY <2>1, <2>2
<1>2. I /\ [SyncNext]_allVars => I'
  BY SyncKeepsType, AnsweredKept
<1>3. I => RestIsFound
  BY DEF Answered, RestIsFound
<1> HIDE DEF I
<1> QED
  BY <1>1, <1>2, <1>3, PTL DEF SyncSpec
=============================================================================
