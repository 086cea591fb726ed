-------------------------- MODULE NetRequestProofs --------------------------
(***************************************************************************)
(* Proofs about NetRequest, for every answer, every cut of it into         *)
(* packets, every size of the buffers and every interleaving of a handler  *)
(* with the callbacks that interrupt it: the types, that a handler leaves  *)
(* nothing behind, that the bytes the two write are taken for what they    *)
(* are, and that what is answered is true.                                 *)
(*                                                                         *)
(* The invariant has one part for each thing the two programs share.       *)
(* Stages, Lookups and Files say how far the connection, the query and the *)
(* file are at each place of the handler; Order does it for the flags of a *)
(* stream, whose request has one flag less; Bus says what is under way to  *)
(* the 65C02, and who writes it; the last parts say what it is worth.      *)
(***************************************************************************)
EXTENDS NetRequest, TLAPS

(****************************************************************************)
(* Types.                                                                   *)
(****************************************************************************)
\* A byte on the bus and what it is meant as.
BusByte == [tag : {"status", "lo", "hi", "data"}, val : Octet]

\* Which command is where, and what it counts.
Placed ==
    /\ kind = "none" => pc = "idle" /\ hpc = "idle"
    /\ kind \in Kinds => answer \in Answers[kind]
    /\ pc = "open" => kind = "get"
    /\ pc \in {"header", "ending"} => kind \in Streams
    /\ pc \in {"body", "chunk"} => kind = "post"
    /\ pc = "ask" => kind \notin {"post", "time"}
    /\ pc = "connecting" => kind # "time"
    /\ pc = "reply" => kind \notin Streams
    /\ hpc \in {"flo", "fhi", "fdata"} => kind \in Streams
    /\ hpc \in {"payload", "fdata"} => cnt > 0
    /\ kind \in {"time", "download", "post"} => Len(served) = pos
    /\ kind = "none" => pcb = "none" /\ dns = "none" /\ pos = 0

\* The constants.
LEMMA BaseType == Base \in Nat /\ 2 <= Base /\ Base <= 256 /\ BufSize \in Nat /\ 0 < BufSize
                  /\ PayloadMax \in Nat /\ PayloadMax < Base * Base /\ PayloadMax <= BufSize
BY NetAssumption DEF NetAssumption

\* What servers answer.
LEMMA AnswersType ==
  ASSUME NEW k \in Kinds, NEW a \in Answers[k]
  PROVE  /\ a \in Seq(Seq(Octet)) /\ a # <<>> /\ Len(a) \in Nat /\ Len(a) > 0
         /\ \A i \in 1..Len(a) : a[i] \in Seq(Octet) /\ Len(a[i]) < Base * Base
         /\ k # "news" => \A i \in 1..Len(a) : Len(a[i]) = 1 /\ a[i][1] \in Octet
         /\ k = "time" => Len(a) < Base * Base
<1>1. /\ a \in Seq(Seq(Octet)) /\ a # <<>>
      /\ \A i \in DOMAIN a : Len(a[i]) < Base * Base /\ (k # "news" => Len(a[i]) = 1)
      /\ k = "time" => Len(a) < Base * Base
  BY NetAssumption DEF NetAssumption
<1>2. DOMAIN a = 1..Len(a) /\ Len(a) \in Nat /\ Len(a) > 0
  BY <1>1
<1>3. \A i \in 1..Len(a) : a[i] \in Seq(Octet)
  BY <1>1, <1>2
<1>4. ASSUME NEW s \in Seq(Octet), Len(s) = 1 PROVE s[1] \in Octet
  <2>1. \A i \in 1..Len(s) : s[i] \in Octet
    OBVIOUS
  <2> QED
    BY <1>4, <2>1
<1> QED
  BY <1>1, <1>2, <1>3, <1>4

\* Tagging a sequence keeps its length and gives each byte the tag.
LEMMA TaggedType ==
  ASSUME NEW t \in {"status", "lo", "hi", "data"}, NEW s \in Seq(Octet)
  PROVE  /\ Tagged(t, s) \in Seq(BusByte) /\ Len(Tagged(t, s)) = Len(s)
         /\ \A i \in 1..Len(s) : Tagged(t, s)[i] = [tag |-> t, val |-> s[i]]
BY DEF Tagged, BusByte

\* A length below Base * Base travels in two bytes.
LEMMA LengthBytes ==
  ASSUME NEW n \in Nat, n < Base * Base
  PROVE  n % Base \in Octet /\ n \div Base \in Octet /\ (n % Base) + (Base * (n \div Base)) = n
<1>1. Base \in Nat /\ 2 <= Base /\ Base <= 256
  BY BaseType
<1>2. n % Base \in 0..(Base - 1) /\ n \div Base \in Nat /\ (n % Base) + (Base * (n \div Base)) = n
  BY <1>1
<1>3. n \div Base < Base
  <2> SUFFICES ASSUME n \div Base >= Base PROVE FALSE
    BY <1>1, <1>2
  <2>1. PICK q \in Nat : q = n \div Base
    BY <1>2
  <2>2. Base * q >= Base * Base
    BY <1>1, <2>1
  <2> QED
    BY <1>1, <1>2, <2>1, <2>2
<1> QED
  BY <1>1, <1>2, <1>3 DEF Octet

\* A single tagged byte.
LEMMA OneByte ==
  ASSUME NEW t \in {"status", "lo", "hi", "data"}, NEW v \in Octet
  PROVE  Tagged(t, <<v>>) = <<[tag |-> t, val |-> v]>> /\ Tagged(t, <<v>>) \in Seq(BusByte)
         /\ [tag |-> t, val |-> v] \in BusByte
BY DEF Tagged, BusByte

\* A length is a sequence of bytes.
LEMMA LengthType ==
  ASSUME NEW n \in Nat, n < Base * Base
  PROVE  Length(n) \in Seq(BusByte)
<1>1. Tagged("lo", <<n % Base>>) \in Seq(BusByte) /\ Tagged("hi", <<n \div Base>>) \in Seq(BusByte)
  BY LengthBytes, OneByte
<1> HIDE DEF BusByte
<1> QED
  BY <1>1 DEF Length

\* So are an answer and a frame.
LEMMA FramesType ==
  ASSUME NEW s \in Octet, NEW p \in Seq(Octet), Len(p) < Base * Base
  PROVE  Response(s, p) \in Seq(BusByte) /\ Frame(p) \in Seq(BusByte) /\ EOF \in Seq(BusByte)
<1>1. Tagged("data", p) \in Seq(BusByte) /\ Tagged("status", <<s>>) \in Seq(BusByte) /\ Len(p) \in Nat
  <2>1. Tagged("data", p) \in Seq(BusByte)
    BY TaggedType
  <2>2. Tagged("status", <<s>>) \in Seq(BusByte)
    BY OneByte
  <2> QED
    BY <2>1, <2>2
<1>2. Length(Len(p)) \in Seq(BusByte)
  BY <1>1, LengthType
<1>3. 0 < Base * Base
  BY BaseType
<1>4. Length(0) \in Seq(BusByte)
  BY <1>3, LengthType
<1> HIDE DEF BusByte
<1> QED
  BY <1>1, <1>2, <1>4 DEF Response, Frame, EOF

\* A text that is put into a buffer leaves a buffer.
LEMMA PutType ==
  ASSUME NEW b \in [1..BufSize -> Octet], NEW at \in Nat, NEW s \in Seq(Octet)
  PROVE  Put(b, at, s) \in [1..BufSize -> Octet]
<1>1. \A i \in (at + 1)..(at + Len(s)) : s[i - at] \in Octet
  BY DEF Octet
<1> QED
  BY <1>1 DEF Put

\* Setting a flag leaves flags.
LEMMA ReqType ==
  ASSUME req \in Flags
  PROVE  /\ Fresh \in Flags
         /\ \A b \in BOOLEAN : /\ [req EXCEPT !.dns_done = b] \in Flags
                               /\ [req EXCEPT !.error = b] \in Flags
                               /\ [req EXCEPT !.complete = b] \in Flags
                               /\ [req EXCEPT !.connected = b] \in Flags
         /\ [req EXCEPT !.dns_done = TRUE, !.error = TRUE] \in Flags
         /\ Failed \in Flags
BY DEF Fresh, Failed, Flags

\* The parts of TypeOK: the bus,
QueuesTyped == mainOut \in Seq(BusByte) /\ cbOut \in Seq(BusByte)
\* the 65C02,
HostTyped ==
    /\ hpc \in {"idle", "status", "lo", "hi", "payload", "flo", "fhi", "fdata"}
    /\ cnt \in Nat /\ status \in Octet /\ got \in Seq(Octet)
\* the handler,
WorkTyped ==
    /\ pc \in {"idle", "open", "lookup", "dns", "unresolved", "resolved", "connect",
               "connecting", "header", "ask", "body", "chunk", "transfer", "finish",
               "ending", "reply", "sending"}
    /\ req \in Flags
    /\ received \in 0..BufSize /\ chunk \in 0..BufSize
    /\ http_buf \in [1..BufSize -> Octet]
    /\ fileOpen \in BOOLEAN /\ stored \in Seq(Octet) /\ sent \in Seq(Octet)
\* and the network.
NetTyped ==
    /\ kind \in Kinds \cup {"none"}
    /\ dns \in {"none", "pending"}
    /\ pcb \in {"none", "connecting", "open", "closed", "freed"}
    /\ linked \in BOOLEAN /\ asked \in BOOLEAN /\ silent \in BOOLEAN
    /\ answer \in Seq(Seq(Octet)) /\ pos \in Nat /\ pos <= Len(answer)
    /\ served \in Seq(Octet)

\* What was left behind and what has gone wrong.
HistoryTyped ==
    /\ stray \in BOOLEAN /\ derailed \in BOOLEAN
    /\ happened \subseteq FaultNames \cup {"cached"}

\* TypeOK but for these, in parts.
Types == QueuesTyped /\ HostTyped /\ WorkTyped /\ NetTyped
\* The types, and what they need to be inductive.
Typed == Types /\ Placed

\* The parts are TypeOK.
LEMMA TypesAreTypeOK == Types /\ HistoryTyped <=> TypeOK
<1>1. answer \in Seq(Seq(Octet)) => Len(answer) \in Nat
  OBVIOUS
<1>2. {"idle"} \cup DOMAIN HostReads =
        {"idle", "status", "lo", "hi", "payload", "flo", "fhi", "fdata"}
  BY DEF HostReads
<1> QED
  BY <1>1, <1>2 DEF Types, QueuesTyped, HostTyped, WorkTyped, NetTyped, HistoryTyped, TypeOK, BusByte

\* A command that starts keeps the types.
LEMMA StartKeepsTypes ==
  ASSUME Typed, NEW k \in Kinds, Start(k)
  PROVE  Typed'
<1>1. answer' \in Answers[k] /\ answer' \in Seq(Seq(Octet)) /\ Len(answer') \in Nat
  BY AnswersType DEF Start
<1>2. QueuesTyped'
  BY DEF Typed, Types, QueuesTyped, Start, busVars
<1>3. HostTyped'
  BY DEF Typed, Types, HostTyped, Start, OK, Octet
<1>4. WorkTyped'
  <2>1. Fresh \in Flags
    BY DEF Fresh, Flags
  <2>2. [i \in 1..BufSize |-> 0] \in [1..BufSize -> Octet]
    BY DEF Octet
  <2>3. <<>> \in Seq(Octet) /\ 0 \in 0..BufSize
    BY BaseType
  <2>4. fileOpen \in BOOLEAN
    BY DEF Typed, Types, WorkTyped
  <2>5. pc' \in {"open", "connect", "lookup"}
    BY DEF Start
  <2> HIDE DEF Octet, Flags
  <2> QED
    BY <2>1, <2>2, <2>3, <2>4, <2>5 DEF WorkTyped, Start
<1>5. NetTyped'
  <2>1. <<>> \in Seq(Octet) /\ 0 <= Len(answer')
    BY <1>1
  <2> HIDE DEF Octet
  <2>2. kind' = k /\ dns' = "none" /\ pcb' = "none" /\ linked' = FALSE /\ asked' = FALSE
        /\ silent' = FALSE /\ pos' = 0 /\ served' = <<>>
    BY DEF Start
  <2> QED
    BY <1>1, <2>1, <2>2 DEF Typed, Types, NetTyped
<1>6. Placed'
  <2>1. kind' = k /\ k # "none" /\ k \in AllKinds
    BY NetAssumption DEF NetAssumption, AllKinds, Start
  <2>2. /\ pc' = (CASE k = "get" -> "open" [] k = "download" -> "connect" [] OTHER -> "lookup")
        /\ hpc' = "status" /\ pos' = 0 /\ served' = <<>>
    BY DEF Start
  <2> QED
    BY <1>1, <2>1, <2>2 DEF Placed
<1> QED
  BY <1>2, <1>3, <1>4, <1>5, <1>6 DEF Typed, Types

\* A byte that is taken leaves two queues of bytes.
LEMMA TakeType ==
  ASSUME Typed, NEW at, TakeAt(at)
  PROVE  /\ QueuesTyped' /\ WorkTyped' /\ NetTyped' /\ Byte \in Octet /\ cnt + Base * Byte \in Nat
         /\ hpc = at
<1>1. Offered \in Seq(BusByte) /\ Offered # <<>>
  BY DEF Typed, Types, QueuesTyped, TakeAt, Offered
<1>2. Head(Offered) \in BusByte
  <2> HIDE DEF BusByte
  <2> QED
    BY <1>1
<1>3. Byte \in Octet
  BY <1>2 DEF Byte, BusByte
<1>4. QueuesTyped'
  <2> HIDE DEF BusByte
  <2>1. \A q \in Seq(BusByte) : q # <<>> => Tail(q) \in Seq(BusByte)
    OBVIOUS
  <2> QED
    BY <1>1, <2>1 DEF Typed, Types, QueuesTyped, TakeAt, Offered
<1>5. WorkTyped' /\ NetTyped'
  BY DEF Typed, Types, WorkTyped, NetTyped, TakeAt, memVars, fileVars, netVars, answerVars
<1>6. cnt + Base * Byte \in Nat
  <2>1. PICK b \in Nat : b = Byte
    BY <1>3 DEF Octet
  <2> QED
    BY <2>1, BaseType DEF Typed, Types, HostTyped
<1> QED
  BY <1>3, <1>4, <1>5, <1>6 DEF TakeAt

\* The 65C02 keeps the types.
LEMMA HostKeepsTypes ==
  ASSUME Typed, HostStep
  PROVE  Typed'
<1>1. PICK at : TakeAt(at)
  BY DEF HostStep, TakeStatus, TakeLo, TakeHi, TakePayload, TakeFrameLo, TakeFrameHi, TakeFrameData
<1>2. QueuesTyped' /\ WorkTyped' /\ NetTyped' /\ Byte \in Octet /\ cnt + Base * Byte \in Nat
  BY <1>1, TakeType
<1>3. got \in Seq(Octet) /\ Append(got, Byte) \in Seq(Octet) /\ cnt \in Nat /\ Byte \in Nat
  BY <1>2 DEF Typed, Types, HostTyped, Octet
<1>4. hpc \in {"payload", "fdata"} => cnt - 1 \in Nat
  BY <1>3 DEF Typed, Placed
<1>5. HostTyped' /\ (hpc' \in {"payload", "fdata"} => cnt' > 0)
      /\ (hpc' \in {"flo", "fhi", "fdata"} => kind \in Streams) /\ (kind = "none" => FALSE)
  <2>1. PICK b \in Octet : b = Byte
    BY <1>2
  <2>2. PICK n \in Nat : n = cnt + Base * b
    BY <1>2, <2>1
  <2>3. PICK g \in Seq(Octet) : g = Append(got, b)
    BY <1>3, <2>1
  <2>4. \/ hpc = "status" /\ status' = b /\ hpc' = "lo" /\ UNCHANGED <<cnt, got>>
        \/ hpc = "lo" /\ cnt' = b /\ hpc' = "hi" /\ UNCHANGED <<status, got>>
        \/ /\ hpc = "hi" /\ cnt' = n /\ UNCHANGED <<status, got>>
           /\ hpc' = IF kind \in Streams THEN (IF status = OK THEN "flo" ELSE "idle")
                     ELSE IF cnt' = 0 THEN "idle" ELSE "payload"
        \/ /\ hpc = "payload" /\ cnt' = cnt - 1 /\ got' = g /\ UNCHANGED status
           /\ hpc' = IF cnt' = 0 THEN "idle" ELSE "payload"
        \/ hpc = "flo" /\ cnt' = b /\ hpc' = "fhi" /\ UNCHANGED <<status, got>>
        \/ /\ hpc = "fhi" /\ cnt' = n /\ UNCHANGED <<status, got>>
           /\ hpc' = IF cnt' = 0 THEN "idle" ELSE "fdata"
        \/ /\ hpc = "fdata" /\ cnt' = cnt - 1 /\ got' = g /\ UNCHANGED status
           /\ hpc' = IF cnt' = 0 THEN "flo" ELSE "fdata"
    BY <2>1, <2>2, <2>3 DEF HostStep, TakeAt, TakeStatus, TakeLo, TakeHi,
       TakePayload, TakeFrameLo, TakeFrameHi, TakeFrameData
  <2>5. HostTyped /\ Placed /\ b \in Nat
    BY DEF Typed, Types, Octet
  <2> QED
    BY <1>4, <2>4, <2>5 DEF HostTyped, Placed
<1>6. Placed'
  BY <1>1, <1>5 DEF Typed, Placed, TakeAt, netVars, answerVars
<1> QED
  BY <1>2, <1>5, <1>6 DEF Typed, Types

\* An answer with a payload whose length fits is a sequence of bytes,
LEMMA ReplyType ==
  ASSUME QueuesTyped, NEW s \in Octet, NEW p \in Seq(Octet), Len(p) < Base * Base, Reply(s, p)
  PROVE  QueuesTyped' /\ pc' = "sending"
BY FramesType DEF Reply, QueuesTyped

\* and so is one without a payload.
LEMMA EmptyReplyType ==
  ASSUME QueuesTyped, NEW s \in Octet, Reply(s, <<>>)
  PROVE  QueuesTyped' /\ pc' = "sending"
<1>1. <<>> \in Seq(Octet) /\ Len(<<>>) = 0 /\ 0 < Base * Base
  BY BaseType
<1> QED
  BY <1>1, ReplyType

\* The handler leaves the 65C02 and the answer of the server alone.
LEMMA HandlerStill ==
  ASSUME Typed, NEW at, At(at), at # "idle"
  PROVE  /\ HostTyped' /\ kind' = kind /\ kind \in Kinds
         /\ UNCHANGED <<hpc, cnt, answer, pos, served, silent>> /\ pc = at /\ cbOut = <<>>
BY DEF Typed, Types, Placed, HostTyped, NetTyped, At, hostVars, answerVars

\* What of the types a step of the handler must show.
LEMMA HandlerTypes ==
  ASSUME Typed, NEW at, At(at), at # "idle", QueuesTyped', req' \in Flags, sent' \in Seq(Octet),
         fileOpen' \in BOOLEAN, UNCHANGED received, stored' \in Seq(Octet),
         chunk' \in 0..BufSize, http_buf' \in [1..BufSize -> Octet],
         dns' \in {"none", "pending"}, pcb' \in {"none", "connecting", "open", "closed", "freed"},
         asked' \in BOOLEAN, UNCHANGED linked,
         pc' \in {"idle", "lookup", "dns", "unresolved", "resolved", "connect", "connecting", "header",
                  "ask", "body", "chunk", "transfer", "finish", "ending", "reply", "sending"},
         pc' \in {"header", "ending"} => kind \in Streams,
         pc' \in {"body", "chunk"} => kind = "post",
         pc' = "ask" => kind \notin {"post", "time"},
         pc' = "connecting" => kind # "time",
         pc' = "reply" => kind \notin Streams
  PROVE  Typed'
<1>1. /\ HostTyped' /\ kind' = kind /\ kind \in Kinds
      /\ UNCHANGED <<hpc, cnt, answer, pos, served, silent>>
  BY HandlerStill
<1>2. WorkTyped'
  BY DEF Typed, Types, WorkTyped
<1>3. NetTyped'
  BY <1>1 DEF Typed, Types, NetTyped
<1>4. Placed'
  <2>1. kind # "none"
    BY <1>1, NetAssumption DEF NetAssumption, AllKinds
  <2> QED
    BY <1>1, <2>1 DEF Typed, Placed
<1> QED
  BY <1>1, <1>2, <1>3, <1>4 DEF Typed, Types

\* Opening, looking up and connecting keep the types.
LEMMA SeekingKeepsTypes ==
  ASSUME Typed, OpenLocal \/ Lookup \/ DnsWaitEnds \/ Unresolved \/ Resolved
  PROVE  Typed'
<1> USE DEF Typed, Types
<1>1. OK \in Octet /\ ERR \in Octet /\ NO_FILE \in Octet
  BY DEF OK, ERR, NO_FILE, Octet
<1>2. CASE OpenLocal
  <2>1. QueuesTyped' /\ pc' \in {"sending", "lookup"} /\ fileOpen' \in BOOLEAN
    <3>1. CASE Reply(ERR, <<>>) /\ UNCHANGED fileOpen
      BY <1>1, <3>1, EmptyReplyType DEF WorkTyped
    <3>2. CASE fileOpen' = TRUE /\ pc' = "lookup" /\ UNCHANGED busVars
      BY <3>2 DEF QueuesTyped, busVars
    <3> QED
      BY <1>2, <3>1, <3>2 DEF OpenLocal
  <2> QED
    BY <1>2, <2>1, HandlerTypes DEF OpenLocal, WorkTyped, NetTyped, memVars
<1>3. CASE Lookup
  <2>1. req' \in Flags
    <3>1. \A b \in BOOLEAN : [req EXCEPT !.dns_done = b] \in Flags /\ [req EXCEPT !.error = b] \in Flags
      BY ReqType DEF WorkTyped
    <3> QED
      BY <1>3, <3>1 DEF Lookup, WorkTyped
  <2>2. QueuesTyped' /\ pc' \in {"resolved", "dns"} /\ dns' \in {"none", "pending"}
    BY <1>3 DEF Lookup, QueuesTyped, NetTyped, busVars
  <2> QED
    BY <1>3, <2>1, <2>2, HandlerTypes DEF Lookup, WorkTyped, NetTyped, memVars, fileVars
<1>4. CASE DnsWaitEnds
  <2>1. QueuesTyped'
    BY <1>4 DEF DnsWaitEnds, QueuesTyped, busVars
  <2> QED
    BY <1>4, <2>1, HandlerTypes DEF DnsWaitEnds, WorkTyped, NetTyped, memVars, fileVars
<1>5. CASE Unresolved
  <2>1. QueuesTyped' /\ pc' = "sending"
    BY <1>1, <1>5, EmptyReplyType DEF Unresolved
  <2> QED
    BY <1>5, <2>1, HandlerTypes DEF Unresolved, WorkTyped, NetTyped, memVars
<1>6. CASE Resolved
  <2>1. QueuesTyped' /\ pc' \in {"sending", "connect"} /\ fileOpen' \in BOOLEAN
    <3>1. CASE (Reply(NO_FILE, <<>>) \/ Reply(ERR, <<>>)) /\ UNCHANGED fileOpen
      BY <1>1, <3>1, EmptyReplyType DEF WorkTyped
    <3>2. CASE pc' = "connect" /\ fileOpen' = (fileOpen \/ kind = "post") /\ UNCHANGED busVars
      BY <3>2 DEF QueuesTyped, WorkTyped, busVars
    <3> QED
      BY <1>6, <3>1, <3>2 DEF Resolved
  <2> QED
    BY <1>6, <2>1, HandlerTypes DEF Resolved, WorkTyped, NetTyped, memVars
<1> QED
  BY <1>2, <1>3, <1>4, <1>5, <1>6

\* So do the wait for the connection and the request,
LEMMA ConnectingKeepsTypes ==
  ASSUME Typed, Connect \/ ConnectWaitEnds \/ Header \/ Ask
  PROVE  Typed'
<1> USE DEF Typed, Types
<1>1. CASE Connect
  <2>1. QueuesTyped'
    BY <1>1 DEF Connect, QueuesTyped, busVars
  <2> QED
    BY <1>1, <2>1, HandlerTypes DEF Connect, WorkTyped, NetTyped, memVars, fileVars
<1>2. CASE ConnectWaitEnds
  <2>1. QueuesTyped'
    BY <1>2 DEF ConnectWaitEnds, QueuesTyped, busVars
  <2>2. kind # "time"
    BY <1>2 DEF ConnectWaitEnds, At, Placed
  <2> QED
    BY <1>2, <2>1, <2>2, HandlerTypes DEF ConnectWaitEnds, WorkTyped, NetTyped, memVars, fileVars
<1>3. CASE Header
  <2>1. QueuesTyped'
    <3>1. <<>> \in Seq(Octet) /\ Len(<<>>) = 0 /\ 0 < Base * Base /\ OK \in Octet
      BY BaseType DEF OK, Octet
    <3>2. Response(OK, <<>>) \in Seq(BusByte)
      BY <3>1, FramesType
    <3> QED
      BY <1>3, <3>2 DEF Header, QueuesTyped
  <2>2. kind \in Streams
    BY <1>3 DEF Header, At, Placed
  <2> QED
    BY <1>3, <2>1, <2>2, HandlerTypes DEF Header, WorkTyped, NetTyped, memVars, fileVars, Streams
<1>4. CASE Ask
  <2>1. QueuesTyped'
    BY <1>4 DEF Ask, QueuesTyped, busVars
  <2> QED
    BY <1>4, <2>1, HandlerTypes DEF Ask, WorkTyped, NetTyped, memVars, fileVars
<1> QED
  BY <1>1, <1>2, <1>3, <1>4

\* A part of a sequence of bytes is one.
LEMMA SubSeqType ==
  ASSUME NEW S, NEW s \in Seq(S), NEW m \in Nat, NEW n \in Nat, m >= 1, n <= Len(s)
  PROVE  /\ SubSeq(s, m, n) \in Seq(S)
         /\ m <= n + 1 => Len(SubSeq(s, m, n)) = n + 1 - m
         /\ \A i \in 1..(n + 1 - m) : SubSeq(s, m, n)[i] = s[m + i - 1]
OBVIOUS

\* A part of a buffer is a sequence of bytes,
LEMMA BufferIsSeq ==
  ASSUME NEW b \in [1..BufSize -> Octet], NEW n \in Nat, n <= BufSize
  PROVE  /\ [i \in 1..n |-> b[i]] \in Seq(Octet) /\ Len([i \in 1..n |-> b[i]]) = n
         /\ SubSeq(b, 1, n) = [i \in 1..n |-> b[i]]
<1>1. BufSize \in Nat
  BY BaseType
<1>2. b \in Seq(Octet) /\ Len(b) = BufSize
  BY <1>1
<1> QED
  BY <1>1, <1>2

\* and so is a chunk of the file.
LEMMA ChunkType ==
  ASSUME Typed, ReadChunk
  PROVE  /\ chunk' \in 0..BufSize /\ http_buf' \in [1..BufSize -> Octet]
         /\ Len(sent) + chunk' <= Len(FileData)
         /\ "read" \in happened' \/ \A i \in 1..chunk' : http_buf'[i] = FileData[Len(sent) + i]
<1>1. FileData \in Seq(Octet) /\ Len(FileData) \in Nat /\ sent \in Seq(Octet) /\ Len(sent) \in Nat
      /\ Len(FileData) - Len(sent) > 0 /\ BufSize \in Nat /\ BufSize > 0
      /\ http_buf \in [1..BufSize -> Octet]
  BY NetAssumption, BaseType DEF NetAssumption, Typed, Types, WorkTyped, ReadChunk, Rest
<1>2. PICK n \in 1..AtMost(Len(FileData) - Len(sent), BufSize) : ChunkOf(n)
  BY DEF ReadChunk, Rest
<1>3. n \in Nat /\ n <= BufSize /\ Len(sent) + n <= Len(FileData) /\ n >= 1
  BY <1>1, <1>2 DEF AtMost
<1>4. PICK m \in 0..n :
         /\ chunk' = n
         /\ IF m = n THEN NoFault ELSE Fault("read")
         /\ http_buf' = Put(http_buf, 0, SubSeq(FileData, Len(sent) + 1, Len(sent) + m))
  BY <1>2 DEF ChunkOf
<1>5. m \in Nat /\ m <= n /\ Len(sent) + m <= Len(FileData)
  BY <1>1, <1>3, <1>4
<1> DEFINE s == SubSeq(FileData, Len(sent) + 1, Len(sent) + m)
<1>6. s \in Seq(Octet) /\ Len(s) = m /\ \A i \in 1..m : s[i] = FileData[Len(sent) + i]
  <2>1. PICK k \in Nat : k = Len(sent)
    BY <1>1
  <2>2. /\ SubSeq(FileData, k + 1, k + m) \in Seq(Octet) /\ Len(SubSeq(FileData, k + 1, k + m)) = m
        /\ \A i \in 1..m : SubSeq(FileData, k + 1, k + m)[i] = FileData[k + i]
    BY <1>1, <1>5, <2>1
  <2> QED
    BY <2>1, <2>2
<1> HIDE DEF s
<1>7. Put(http_buf, 0, s) \in [1..BufSize -> Octet]
  BY <1>1, <1>6, PutType
<1>8. ASSUME m = n PROVE \A i \in 1..n : Put(http_buf, 0, s)[i] = s[i]
  BY <1>1, <1>3, <1>6, <1>8 DEF Put
<1>9. m # n => "read" \in happened'
  BY <1>4 DEF Fault
<1>10. chunk' = n /\ http_buf' = Put(http_buf, 0, s)
  BY <1>4 DEF s
<1>11. "read" \in happened' \/ \A i \in 1..chunk' : http_buf'[i] = FileData[Len(sent) + i]
  <2>1. CASE m # n
    BY <1>9, <2>1
  <2>2. CASE m = n
    BY <1>3, <1>6, <1>8, <1>10, <2>2
  <2> QED
    BY <2>1, <2>2
<1>12. chunk' \in 0..BufSize /\ Len(sent) + chunk' <= Len(FileData)
  BY <1>1, <1>3, <1>10
<1>13. http_buf' \in [1..BufSize -> Octet]
  BY <1>7, <1>10
<1> QED
  BY <1>11, <1>12, <1>13

\* the file that POST sends,
LEMMA SendingKeepsTypes ==
  ASSUME Typed, ReadChunk \/ SendChunk \/ BodyDone \/ TransferEnds
  PROVE  Typed'
<1> USE DEF Typed, Types
<1>1. CASE ReadChunk
  <2>1. chunk' \in 0..BufSize /\ http_buf' \in [1..BufSize -> Octet] /\ QueuesTyped'
    BY <1>1, ChunkType DEF ReadChunk, QueuesTyped, busVars
  <2>2. kind = "post"
    BY <1>1 DEF ReadChunk, At, Placed
  <2> QED
    BY <1>1, <2>1, <2>2, HandlerTypes DEF ReadChunk, WorkTyped, NetTyped, fileVars
<1>2. CASE SendChunk
  <2>1. QueuesTyped' /\ req' \in Flags
    <3>1. [req EXCEPT !.error = TRUE] \in Flags
      BY ReqType DEF WorkTyped
    <3> QED
      BY <1>2, <3>1 DEF SendChunk, QueuesTyped, WorkTyped, busVars
  <2>2. sent' \in Seq(Octet)
    <3>1. PICK n \in Nat : n = chunk /\ n <= BufSize
      BY BaseType DEF WorkTyped
    <3>2. SubSeq(http_buf, 1, n) \in Seq(Octet)
      BY <3>1, BufferIsSeq DEF WorkTyped
    <3>3. PICK c \in Seq(Octet) : c = SubSeq(http_buf, 1, n)
      BY <3>2
    <3>4. sent \in Seq(Octet)
      BY DEF WorkTyped
    <3> HIDE DEF Octet
    <3>5. sent \o c \in Seq(Octet)
      BY <3>3, <3>4
    <3>6. sent' = sent \o c \/ sent' = sent
      BY <1>2, <3>1, <3>3 DEF SendChunk
    <3> QED
      BY <3>4, <3>5, <3>6
  <2>3. kind = "post"
    BY <1>2 DEF SendChunk, At, Placed
  <2> QED
    BY <1>2, <2>1, <2>2, <2>3, HandlerTypes DEF SendChunk, WorkTyped, NetTyped, memVars, fileVars
<1>3. CASE BodyDone
  <2>1. QueuesTyped'
    BY <1>3 DEF BodyDone, QueuesTyped, busVars
  <2> QED
    BY <1>3, <2>1, HandlerTypes DEF BodyDone, WorkTyped, NetTyped, memVars, fileVars
<1>4. CASE TransferEnds
  <2>1. QueuesTyped'
    BY <1>4 DEF TransferEnds, QueuesTyped, busVars
  <2> QED
    BY <1>4, <2>1, HandlerTypes DEF TransferEnds, WorkTyped, NetTyped, memVars, fileVars
<1> QED
  BY <1>1, <1>2, <1>3, <1>4

\* The texts NTP serves are as many as its answer has.
LEMMA ServedLength ==
  ASSUME Typed, kind = "time"
  PROVE  Len(served) < Base * Base
<1>1. answer \in Answers[kind] /\ kind \in Kinds /\ Len(served) = pos /\ pos <= Len(answer) /\ pos \in Nat
  BY NetAssumption DEF Typed, Types, Placed, NetTyped, NetAssumption, AllKinds
<1>2. Len(answer) < Base * Base /\ Len(answer) \in Nat
  BY <1>1, AnswersType
<1>3. PICK c \in Nat : c = Base * Base
  BY BaseType
<1> QED
  BY <1>1, <1>2, <1>3

\* and the end of a command.
LEMMA FinishingKeepsTypes ==
  ASSUME Typed, FinishStream \/ StreamEnded \/ Finish \/ ReplyResult \/ Replied
  PROVE  Typed'
<1> USE DEF Typed, Types
<1>1. CASE FinishStream
  <2>1. QueuesTyped'
    <3>1. <<>> \in Seq(Octet) /\ Len(<<>>) = 0 /\ 0 < Base * Base /\ OK \in Octet
      BY BaseType DEF OK, Octet
    <3>2. EOF \in Seq(BusByte)
      BY <3>1, FramesType
    <3> QED
      BY <1>1, <3>2 DEF FinishStream, QueuesTyped
  <2>2. kind \in Streams
    BY <1>1 DEF FinishStream
  <2> QED
    BY <1>1, <2>1, <2>2, HandlerTypes DEF FinishStream, WorkTyped, NetTyped, memVars, fileVars
<1>2. CASE StreamEnded
  <2>1. QueuesTyped'
    BY <1>2 DEF StreamEnded, QueuesTyped, busVars
  <2> QED
    BY <1>2, <2>1, HandlerTypes DEF StreamEnded, Close, WorkTyped, NetTyped, memVars, fileVars
<1>3. CASE Finish
  <2>1. QueuesTyped'
    BY <1>3 DEF Finish, QueuesTyped, busVars
  <2> QED
    BY <1>3, <2>1, HandlerTypes DEF Finish, Close, WorkTyped, NetTyped, memVars, fileVars
<1>4. CASE ReplyResult
  <2>0. OK \in Octet /\ ERR \in Octet
    BY DEF OK, ERR, Octet
  <2>1. QueuesTyped' /\ pc' = "sending"
    <3>1. CASE Reply(ERR, <<>>) \/ Reply(OK, <<>>)
      BY <2>0, <3>1, EmptyReplyType
    <3>2. CASE Reply(OK, [i \in 1..AtMost(received, PayloadMax) |-> http_buf[i]])
      <4>1. PICK n \in Nat : n = AtMost(received, PayloadMax) /\ n <= BufSize /\ n <= PayloadMax
        BY BaseType DEF WorkTyped, AtMost
      <4>2. [i \in 1..n |-> http_buf[i]] \in Seq(Octet) /\ Len([i \in 1..n |-> http_buf[i]]) = n
        BY <4>1, BufferIsSeq DEF WorkTyped
      <4>3. n < Base * Base
        <5>1. PICK c \in Nat : c = Base * Base
          BY BaseType
        <5> QED
          BY <4>1, <5>1, BaseType
      <4> QED
        BY <2>0, <3>2, <4>1, <4>2, <4>3, ReplyType
    <3>3. CASE kind = "time" /\ Reply(OK, served)
      BY <2>0, <3>3, ServedLength, ReplyType DEF NetTyped
    <3> QED
      BY <1>4, <3>1, <3>2, <3>3 DEF ReplyResult
  <2>2. stored' \in Seq(Octet)
    <3>1. <<>> \in Seq(Octet) /\ stored \in Seq(Octet)
      BY DEF WorkTyped
    <3>2. stored' = stored \/ stored' = <<>>
      BY <1>4 DEF ReplyResult, Committed
    <3> QED
      BY <3>1, <3>2
  <2> QED
    BY <1>4, <2>1, <2>2, HandlerTypes DEF ReplyResult, WorkTyped, NetTyped, memVars
<1>5. CASE Replied
  <2>1. QueuesTyped'
    BY <1>5 DEF Replied, QueuesTyped, busVars
  <2> QED
    BY <1>5, <2>1, HandlerTypes DEF Replied, WorkTyped, NetTyped, memVars, fileVars
<1> QED
  BY <1>1, <1>2, <1>3, <1>4, <1>5

\* A callback leaves the 65C02 and the handler alone.
LEMMA CallbackStill ==
  ASSUME Typed, Callback, kind # "none"
  PROVE  /\ kind \in Kinds /\ answer \in Answers[kind] /\ Len(answer) \in Nat
         /\ UNCHANGED <<kind, hpc, cnt, status, got, pc, mainOut, chunk, fileOpen, sent>>
         /\ cbOut = <<>>
BY DEF Typed, Types, Placed, NetTyped, Callback, hostVars

\* What of the types a callback must show.
LEMMA CallbackTypes ==
  ASSUME Typed, Callback, kind # "none", cbOut' \in Seq(BusByte), req' \in Flags,
         received' \in 0..BufSize, http_buf' \in [1..BufSize -> Octet], stored' \in Seq(Octet),
         dns' \in {"none", "pending"}, pcb' \in {"none", "connecting", "open", "closed", "freed"},
         linked' \in BOOLEAN, UNCHANGED <<answer, asked, silent>>,
         pos' \in Nat, pos' <= Len(answer), served' \in Seq(Octet),
         kind \in {"time", "download", "post"} => Len(served') = pos'
  PROVE  Typed'
<1>1. /\ kind \in Kinds /\ answer \in Answers[kind] /\ Len(answer) \in Nat
      /\ UNCHANGED <<kind, hpc, cnt, status, got, pc, mainOut, chunk, fileOpen, sent>>
  BY CallbackStill
<1>2. QueuesTyped' /\ HostTyped'
  BY <1>1 DEF Typed, Types, QueuesTyped, HostTyped
<1>3. WorkTyped'
  BY <1>1 DEF Typed, Types, WorkTyped
<1>4. NetTyped'
  BY <1>1 DEF Typed, Types, NetTyped
<1>5. Placed'
  BY <1>1 DEF Typed, Placed
<1> QED
  BY <1>2, <1>3, <1>4, <1>5 DEF Typed, Types

\* Without a command no callback comes.
LEMMA NoCommandNoCallback ==
  ASSUME Typed, dns = "pending" \/ pcb # "none"
  PROVE  kind # "none"
BY DEF Typed, Placed

\* The callbacks without data keep the types,
LEMMA CallsKeepTypes ==
  ASSUME Typed, DnsFound \/ Connected \/ GivenUp \/ Broken \/ Forgotten \/ Closes
  PROVE  Typed'
<1> USE DEF Typed, Types
<1>1. kind # "none" /\ Callback
  <2>1. dns = "pending" \/ pcb # "none"
    BY DEF DnsFound, Connected, GivenUp, Broken, Forgotten, Closes
  <2> QED
    BY <2>1, NoCommandNoCallback DEF DnsFound, Connected, GivenUp, Broken, Forgotten, Closes, ErrCallback
<1>2. /\ QueuesTyped /\ WorkTyped /\ NetTyped /\ Placed
  OBVIOUS
<1>3. req' \in Flags
  BY <1>2, ReqType DEF DnsFound, Connected, GivenUp, Broken, Forgotten, Closes, ErrCallback, WorkTyped
<1>4. UNCHANGED <<received, http_buf, cbOut, stored, asked, answer, pos, served, silent>>
  BY DEF DnsFound, Connected, GivenUp, Broken, Forgotten, Closes, ErrCallback, answerVars
<1>5. /\ dns' \in {"none", "pending"} /\ linked' \in BOOLEAN
      /\ pcb' \in {"none", "connecting", "open", "closed", "freed"}
  BY <1>2 DEF DnsFound, Connected, GivenUp, Broken, Forgotten, Closes, ErrCallback, NetTyped
<1> QED
  BY <1>1, <1>2, <1>3, <1>4, <1>5, CallbackTypes DEF QueuesTyped, WorkTyped, NetTyped, Placed

\* What a packet holds is a sequence of bytes, and a length of two bytes holds
\* its length.
LEMMA PayloadType ==
  ASSUME Typed, kind # "none", pos < Len(answer), NEW n \in PacketSizes
  PROVE  /\ n \in Nat /\ n >= 1 /\ pos + n <= Len(answer)
         /\ Payload(n) \in Seq(Octet) /\ Len(Payload(n)) < Base * Base
         /\ kind \in {"time", "download", "post"} => Len(Payload(n)) = n
<1>1. /\ kind \in Kinds /\ answer \in Answers[kind] /\ pos \in Nat
      /\ kind \in AllKinds
  BY NetAssumption DEF Typed, Types, Placed, NetTyped, NetAssumption
<1>2. /\ Len(answer) \in Nat
      /\ \A i \in 1..Len(answer) : answer[i] \in Seq(Octet) /\ Len(answer[i]) < Base * Base
      /\ kind # "news" => \A i \in 1..Len(answer) : Len(answer[i]) = 1 /\ answer[i][1] \in Octet
      /\ kind = "time" => Len(answer) < Base * Base
  BY <1>1, AnswersType
<1>3. PICK w \in Nat : w = Base * Base /\ w > 0
  BY BaseType
<1>4. n \in Nat /\ n >= 1 /\ pos + n <= Len(answer) /\ (kind # "news" => n < w)
  <2>1. CASE kind = "news"
    BY <1>1, <1>2, <2>1 DEF PacketSizes
  <2>2. CASE kind = "time"
    BY <1>1, <1>2, <1>3, <2>2 DEF PacketSizes
  <2>3. CASE kind \notin {"news", "time"}
    <3>1. n \in 1..AtMost(Len(answer) - pos, w - 1)
      BY <1>3, <2>3 DEF PacketSizes
    <3> QED
      BY <1>1, <1>2, <1>3, <3>1 DEF AtMost
  <2> QED
    BY <2>1, <2>2, <2>3
<1>5. CASE kind = "news"
  <2>1. CASE pos = 0
    BY <1>3, <1>4, <1>5, <2>1 DEF Payload, Streams
  <2>2. CASE pos # 0
    <3>1. Payload(n) = answer[pos + 1]
      BY <1>5, <2>2 DEF Payload
    <3>2. pos + 1 \in 1..Len(answer)
      BY <1>1, <1>2
    <3> QED
      BY <1>2, <1>4, <1>5, <3>1, <3>2
  <2> QED
    BY <2>1, <2>2
<1>6. CASE kind # "news"
  <2>1. PICK skip \in {0, 1} :
           /\ Payload(n) = [i \in 1..(n - skip) |-> answer[pos + skip + i][1]]
           /\ kind \in {"time", "download", "post"} => skip = 0
    BY <1>6 DEF Payload, Streams
  <2>2. PICK m \in Nat : m = n - skip
    BY <1>4
  <2>3. \A i \in 1..m : pos + skip + i \in 1..Len(answer)
    BY <1>1, <1>2, <1>4, <2>2
  <2>4. \A i \in 1..m : answer[pos + skip + i][1] \in Octet
    BY <1>2, <1>6, <2>3
  <2>5. [i \in 1..m |-> answer[pos + skip + i][1]] \in Seq(Octet)
        /\ Len([i \in 1..m |-> answer[pos + skip + i][1]]) = m
    BY <2>4
  <2> QED
    BY <1>3, <1>4, <1>6, <2>1, <2>2, <2>5
<1> QED
  BY <1>4, <1>5, <1>6

\* A packet that arrives adds to what is served.
LEMMA ArrivesType ==
  ASSUME Typed, NEW n, Arrives(n)
  PROVE  /\ kind # "none" /\ Callback /\ n \in Nat /\ n >= 1 /\ pos' \in Nat /\ pos' = pos + n
         /\ pos' <= Len(answer) /\ Payload(n) \in Seq(Octet) /\ Len(Payload(n)) < Base * Base
         /\ served' = served \o Payload(n) /\ served' \in Seq(Octet)
         /\ Len(served') = Len(served) + Len(Payload(n))
         /\ kind \in {"time", "download", "post"} => Len(served') = pos' /\ Len(Payload(n)) = n
         /\ UNCHANGED <<dns, linked, asked, answer, silent>>
<1>1. kind # "none" /\ pos < Len(answer) /\ n \in PacketSizes /\ pos \in Nat /\ served \in Seq(Octet)
  BY NoCommandNoCallback DEF Arrives, Typed, Types, NetTyped
<1>2. /\ n \in Nat /\ n >= 1 /\ pos + n <= Len(answer)
      /\ Payload(n) \in Seq(Octet) /\ Len(Payload(n)) < Base * Base
      /\ kind \in {"time", "download", "post"} => Len(Payload(n)) = n
  BY <1>1, PayloadType
<1>3. PICK p \in Seq(Octet) : p = Payload(n)
  BY <1>2
<1>4. served \o p \in Seq(Octet) /\ Len(served \o p) = Len(served) + Len(p)
  <2> HIDE DEF Octet
  <2> QED
    BY <1>1
<1>5. pos' = pos + n /\ served' = served \o p
  BY <1>3 DEF Arrives
<1>6. kind \in {"time", "download", "post"} => Len(served) = pos
  BY DEF Typed, Placed
<1>7. Callback /\ UNCHANGED <<dns, linked, asked, answer, silent>>
  BY DEF Arrives
<1>8. pos' \in Nat /\ pos' <= Len(answer)
  BY <1>1, <1>2, <1>5
<1>9. /\ served' = served \o Payload(n) /\ served' \in Seq(Octet)
      /\ Len(served') = Len(served) + Len(Payload(n))
  BY <1>3, <1>4, <1>5
<1>10. kind \in {"time", "download", "post"} => Len(served') = pos' /\ Len(Payload(n)) = n
  BY <1>2, <1>5, <1>6, <1>9
<1> QED
  BY <1>1, <1>2, <1>5, <1>7, <1>8, <1>9, <1>10

\* those with data do,
LEMMA DataKeepsTypes ==
  ASSUME Typed, DataToFile \/ DataToMemory \/ DataToBus \/ TimeArrives
  PROVE  Typed'
<1> USE DEF Typed, Types
<1>1. PICK n : Arrives(n) /\ n \in PacketSizes
         /\ \/ DataToFile /\ \/ stored' = stored \o Payload(n)
                             \/ \E m \in 0..(Len(Payload(n)) - 1) :
                                   stored' = stored \o SubSeq(Payload(n), 1, m)
            \/ DataToMemory /\ IF received + n <= BufSize
                                 THEN /\ http_buf' = Put(http_buf, received, Payload(n))
                                      /\ received' = received + n
                                 ELSE UNCHANGED <<http_buf, received>>
            \/ DataToBus /\ cbOut' = IF (kind = "news" /\ pos > 0) \/ Payload(n) # <<>>
                                       THEN Frame(Payload(n)) ELSE <<>>
            \/ TimeArrives
  BY DEF DataToFile, DataToMemory, DataToBus, TimeArrives
<1>2. PICK p \in Seq(Octet) : p = Payload(n) /\ Len(p) < Base * Base
  BY <1>1, ArrivesType
<1>3. /\ kind # "none" /\ Callback /\ n \in Nat /\ pos' \in Nat /\ pos' <= Len(answer)
      /\ served' \in Seq(Octet) /\ (kind \in {"time", "download", "post"} => Len(served') = pos')
      /\ UNCHANGED <<dns, linked, asked, answer, silent>>
  BY <1>1, ArrivesType
<1>4. stored' \in Seq(Octet)
  <2>1. stored \in Seq(Octet)
    BY DEF WorkTyped
  <2>2. \/ stored' = stored \o p \/ stored' = stored
        \/ \E m \in 0..(Len(p) - 1) : stored' = stored \o SubSeq(p, 1, m)
    BY <1>1, <1>2 DEF DataToFile, DataToMemory, DataToBus, TimeArrives
  <2>3. \A m \in 0..(Len(p) - 1) : SubSeq(p, 1, m) \in Seq(Octet)
    OBVIOUS
  <2> HIDE DEF Octet
  <2>4. \A q \in Seq(Octet) : stored \o q \in Seq(Octet)
    BY <2>1
  <2> QED
    BY <2>1, <2>2, <2>3, <2>4
<1>5. cbOut' \in Seq(BusByte)
  <2>1. Frame(p) \in Seq(BusByte)
    <3>1. OK \in Octet
      BY DEF OK, Octet
    <3> QED
      BY <1>2, <3>1, FramesType
  <2>2. cbOut' = Frame(p) \/ cbOut' = cbOut \/ cbOut' = <<>>
    BY <1>1, <1>2 DEF DataToFile, DataToMemory, DataToBus, TimeArrives
  <2>3. <<>> \in Seq(BusByte) /\ cbOut \in Seq(BusByte)
    BY DEF QueuesTyped
  <2> HIDE DEF BusByte
  <2> QED
    BY <2>1, <2>2, <2>3
<1>6. received' \in 0..BufSize /\ http_buf' \in [1..BufSize -> Octet]
  <2>1. received \in Nat /\ received <= BufSize /\ http_buf \in [1..BufSize -> Octet] /\ BufSize \in Nat
    BY BaseType DEF WorkTyped
  <2>2. Put(http_buf, received, p) \in [1..BufSize -> Octet]
    BY <2>1, PutType
  <2>3. \/ UNCHANGED <<http_buf, received>>
        \/ received' = received + n /\ received + n <= BufSize /\ http_buf' = Put(http_buf, received, p)
    BY <1>1, <1>2 DEF DataToFile, DataToMemory, DataToBus, TimeArrives
  <2> QED
    BY <1>3, <2>1, <2>2, <2>3
<1>7. req' \in Flags /\ pcb' \in {"none", "connecting", "open", "closed", "freed"}
  <2>1. Failed \in Flags /\ [req EXCEPT !.complete = TRUE] \in Flags
    BY ReqType DEF WorkTyped
  <2> QED
    BY <2>1 DEF DataToFile, DataToMemory, DataToBus, TimeArrives, WorkTyped, NetTyped
<1> QED
  BY <1>3, <1>4, <1>5, <1>6, <1>7, CallbackTypes DEF NetTyped

\* and so does a network that falls silent.
LEMMA SilenceKeepsTypes ==
  ASSUME Typed, FallsSilent
  PROVE  Typed'
<1> USE DEF Typed, Types
<1>1. QueuesTyped' /\ HostTyped' /\ WorkTyped'
  BY DEF QueuesTyped, HostTyped, WorkTyped, FallsSilent, hostVars, memVars, busVars, fileVars
<1>2. NetTyped'
  BY DEF NetTyped, FallsSilent, Fault, answerVars
<1>3. Placed'
  BY DEF Placed, FallsSilent, hostVars, answerVars
<1> QED
  BY <1>1, <1>2, <1>3

\* At the start every variable has its type.
LEMMA InitTyped == Init => Typed
<1> SUFFICES ASSUME Init PROVE Typed
  OBVIOUS
<1>1. QueuesTyped /\ HostTyped /\ NetTyped
  <2>1. /\ <<>> \in Seq(BusByte) /\ <<>> \in Seq(Octet) /\ <<>> \in Seq(Seq(Octet))
        /\ Len(<<>>) = 0 /\ 0 \in Octet
    BY DEF Octet
  <2> HIDE DEF BusByte, Octet
  <2>2. QueuesTyped /\ HostTyped
    BY <2>1 DEF Init, QueuesTyped, HostTyped, OK
  <2>3. answer \in Seq(Seq(Octet)) /\ Len(answer) = 0 /\ served \in Seq(Octet)
    BY <2>1 DEF Init
  <2>4. NetTyped
    <3>1. pos \in Nat /\ pos <= Len(answer)
      BY <2>3 DEF Init
    <3>2. /\ kind \in Kinds \cup {"none"} /\ dns \in {"none", "pending"}
          /\ pcb \in {"none", "connecting", "open", "closed", "freed"}
      BY DEF Init
    <3>3. linked \in BOOLEAN /\ asked \in BOOLEAN /\ silent \in BOOLEAN
      BY DEF Init
    <3> QED
      BY <2>3, <3>1, <3>2, <3>3 DEF NetTyped
  <2> QED
    BY <2>2, <2>4
<1>2. WorkTyped
  <2>1. Fresh \in Flags
    BY DEF Fresh, Flags
  <2>2. [i \in 1..BufSize |-> 0] \in [1..BufSize -> Octet] /\ 0 \in 0..BufSize
    BY BaseType DEF Octet
  <2>3. <<>> \in Seq(Octet)
    OBVIOUS
  <2> HIDE DEF Octet, Flags
  <2> QED
    BY <2>1, <2>2, <2>3 DEF Init, WorkTyped
<1>3. Placed
  <2>1. kind = "none" /\ "none" \notin Kinds
    BY NetAssumption DEF Init, NetAssumption, AllKinds
  <2> QED
    BY <2>1 DEF Init, Placed
<1> QED
  BY <1>1, <1>2, <1>3 DEF Typed, Types

\* A callback for a record that is no more raises flags.
LEMMA StraysKeepTypes ==
  ASSUME Typed, Strays
  PROVE  Typed'
BY DEF Strays, Typed, Types, Placed, QueuesTyped, HostTyped, WorkTyped, NetTyped,
       hostVars, memVars, busVars, fileVars, netVars, answerVars

\* What lwIP and the network do to the command that runs.
Outside == Network \/ Broken \/ GivenUp \/ Forgotten \/ FallsSilent

\* No step changes a type.
LEMMA NextKeepsTypes ==
  ASSUME Typed, [Next]_vars
  PROVE  Typed'
<1>1. CASE \E k \in Kinds : Start(k)
  BY <1>1, StartKeepsTypes
<1>2. CASE HostStep
  BY <1>2, HostKeepsTypes
<1>3. CASE Handler
  BY <1>3, SeekingKeepsTypes, ConnectingKeepsTypes, SendingKeepsTypes, FinishingKeepsTypes DEF Handler
<1>4. CASE Outside
  BY <1>4, CallsKeepTypes, DataKeepsTypes, SilenceKeepsTypes DEF Outside, Network
<1>5. CASE Strays
  BY <1>5, StraysKeepTypes
<1>6. CASE UNCHANGED vars
  BY <1>6 DEF Typed, Types, Placed, QueuesTyped, HostTyped, WorkTyped, NetTyped, vars,
              hostVars, memVars, busVars, fileVars, netVars, answerVars
<1> QED
  BY <1>1, <1>2, <1>3, <1>4, <1>5, <1>6 DEF Next, Outside

\* What may go wrong has a name.
LEMMA FaultsAreNamed ==
  ASSUME NEW f, CanFail(f)
  PROVE  f \in FaultNames
BY NetAssumption DEF NetAssumption, CanFail

\* A fault that is noted is one of them.
LEMMA FaultTyped ==
  ASSUME HistoryTyped, NEW f, Fault(f)
  PROVE  happened' \subseteq FaultNames \cup {"cached"} /\ happened \subseteq happened'
<1>1. f \in FaultNames /\ happened' = happened \cup {f}
  BY FaultsAreNamed DEF Fault
<1> QED
  BY <1>1 DEF HistoryTyped

\* What a packet adds is.
LEMMA NotesTyped ==
  ASSUME HistoryTyped, NEW fs \in SUBSET FaultNames, Notes(fs)
  PROVE  happened' \subseteq FaultNames \cup {"cached"} /\ happened \subseteq happened'
BY DEF HistoryTyped, Notes, FaultNames, Unnoticed

\* A command has a history of its own, which grows.
LEMMA HistoryGrows ==
  ASSUME HistoryTyped, [Next]_vars
  PROVE  /\ happened' \subseteq FaultNames \cup {"cached"}
         /\ (\E k \in Kinds : Start(k)) \/ happened \subseteq happened'
<1>0. happened \subseteq FaultNames \cup {"cached"}
  BY DEF HistoryTyped
<1>1. CASE \E k \in Kinds : Start(k)
  BY <1>1 DEF Start
<1>2. CASE \/ \E f : Fault(f)
           \/ UNCHANGED happened
           \/ happened' = happened \cup {"cached"}
           \/ Notes({}) \/ (CanFail("write") /\ Notes({"write"}))
  <2>1. CASE \E f : Fault(f)
    BY <2>1, FaultTyped
  <2>2. CASE Notes({}) \/ Notes({"write"})
    <3>1. {} \in SUBSET FaultNames /\ {"write"} \in SUBSET FaultNames
      BY DEF FaultNames, Unnoticed
    <3> QED
      BY <2>2, <3>1, NotesTyped
  <2> QED
    BY <1>0, <1>2, <2>1, <2>2
<1>3. CASE HostStep
  <2>1. PICK at : TakeAt(at)
    BY <1>3 DEF HostStep, TakeStatus, TakeLo, TakeHi, TakePayload, TakeFrameLo, TakeFrameHi, TakeFrameData
  <2> QED
    BY <1>2, <2>1 DEF TakeAt, historyVars
<1>4. CASE Handler
  <2>1. CASE OpenLocal \/ Lookup \/ DnsWaitEnds \/ Unresolved \/ Resolved
    BY <1>2, <2>1 DEF OpenLocal, Lookup, DnsWaitEnds, Unresolved, Resolved, NoFault
  <2>2. CASE ReadChunk
    <3>1. PICK n : ChunkOf(n)
      BY <2>2 DEF ReadChunk
    <3> QED
      BY <1>2, <3>1 DEF ChunkOf, NoFault
  <2>3. CASE SendChunk \/ ReplyResult
    BY <1>2, <2>3 DEF SendChunk, ReplyResult, Committed, NoFault
  <2>4. CASE Connect \/ ConnectWaitEnds \/ Header \/ Ask \/ BodyDone \/ TransferEnds \/ FinishStream
             \/ StreamEnded \/ Finish \/ Replied
    BY <1>2, <2>4 DEF Connect, ConnectWaitEnds, Header, Ask, BodyDone, TransferEnds, FinishStream,
       StreamEnded, Finish, Replied, historyVars
  <2> QED
    BY <1>4, <2>1, <2>2, <2>3, <2>4 DEF Handler
<1>5. CASE Outside
  <2>1. CASE DataToFile \/ DataToMemory \/ DataToBus \/ TimeArrives
    BY <1>2, <2>1 DEF DataToFile, DataToMemory, DataToBus, TimeArrives
  <2>2. CASE ~(DataToFile \/ DataToMemory \/ DataToBus \/ TimeArrives)
    BY <1>2, <1>5, <2>2 DEF Outside, Network, DnsFound, Connected, Closes, Broken, GivenUp, Forgotten,
       FallsSilent, NoFault, historyVars
  <2> QED
    BY <2>1, <2>2
<1>6. CASE Strays \/ UNCHANGED vars
  BY <1>2, <1>6 DEF Strays, vars, historyVars
<1> QED
  BY <1>1, <1>3, <1>4, <1>5, <1>6 DEF Next, Outside

\* What is left behind is a yes or a no, and so is what it has come to.
LEMMA NextKeepsHistory ==
  ASSUME HistoryTyped, [Next]_vars
  PROVE  HistoryTyped'
<1>1. happened' \subseteq FaultNames \cup {"cached"}
  BY HistoryGrows
<1>2. stray' \in BOOLEAN /\ derailed' \in BOOLEAN
  <2>0. stray \in BOOLEAN /\ derailed \in BOOLEAN
    BY DEF HistoryTyped
  <2>1. CASE \E k \in Kinds : Start(k)
    BY <2>0, <2>1 DEF Start, OnTrack
  <2>2. CASE HostStep
    <3>1. PICK at : TakeAt(at)
      BY <2>2 DEF HostStep, TakeStatus, TakeLo, TakeHi, TakePayload, TakeFrameLo, TakeFrameHi, TakeFrameData
    <3> QED
      BY <2>0, <3>1 DEF TakeAt, historyVars
  <2>3. CASE Handler
    <3>1. UNCHANGED stray
      BY <2>3 DEF Handler, At, OpenLocal, Lookup, DnsWaitEnds, Unresolved, Resolved, Connect, ConnectWaitEnds,
         Header, Ask, ReadChunk, SendChunk, BodyDone, TransferEnds, FinishStream, StreamEnded, Finish,
         ReplyResult, Replied
    <3>2. derailed' \in BOOLEAN
      BY <2>0, <2>3 DEF Handler, OpenLocal, Lookup, DnsWaitEnds, Unresolved, Resolved, Connect, ConnectWaitEnds,
         Header, Ask, ReadChunk, SendChunk, BodyDone, TransferEnds, FinishStream, StreamEnded, Finish,
         ReplyResult, Replied, Derails, historyVars
    <3> QED
      BY <2>0, <3>1, <3>2
  <2>4. CASE Outside
    <3>1. UNCHANGED stray
      BY <2>4 DEF Outside, Network, DnsFound, Connected, Closes, Broken, GivenUp, Forgotten, ErrCallback,
         FallsSilent, Callback, DataToFile, DataToMemory, DataToBus, TimeArrives, Arrives
    <3>2. derailed' \in BOOLEAN
      BY <2>0, <2>4 DEF Outside, Network, DnsFound, Connected, Closes, Broken, GivenUp, Forgotten, ErrCallback,
         FallsSilent, DataToFile, DataToMemory, DataToBus, TimeArrives, Derails, historyVars
    <3> QED
      BY <2>0, <3>1, <3>2
  <2>5. CASE Strays \/ UNCHANGED vars
    BY <2>0, <2>5 DEF Strays, vars, historyVars
  <2> QED
    BY <2>1, <2>2, <2>3, <2>4, <2>5 DEF Next, Outside
<1> QED
  BY <1>1, <1>2 DEF HistoryTyped

\* Every variable keeps its type, whatever the network does: no packet is
\* written beyond http_buf, no chunk is larger than it, and the bytes on the
\* bus are bytes.
THEOREM TypeCorrect == Spec => []TypeOK
<1>1. Spec => []Typed
  BY InitTyped, NextKeepsTypes, PTL DEF Spec
<1>2. Init => HistoryTyped
  BY DEF Init, HistoryTyped
<1>3. Spec => []HistoryTyped
  BY <1>2, NextKeepsHistory, PTL DEF Spec
<1>4. Typed /\ HistoryTyped => TypeOK
  BY TypesAreTypeOK DEF Typed
<1> QED
  BY <1>1, <1>3, <1>4, PTL
-----------------------------------------------------------------------------
(****************************************************************************)
(* What holds at each place of a handler.                                   *)
(****************************************************************************)
\* The places of a handler that has not started to connect,
Outset == {"open", "lookup", "dns", "unresolved", "resolved", "connect"}
\* that has not given the server its request,
Unasked == Outset \cup {"connecting", "body", "chunk", "header", "ask"}
\* and those of a stream that has its connection.
Linked == {"header", "ask", "transfer", "finish", "ending"}

\* The connection is as far as the handler has come.
Stages ==
    /\ pc \in Outset => pcb = "none"
    /\ pc \in Unasked => ~asked
    /\ pc \in {"idle", "sending"} => pcb \in {"none", "closed", "freed"}
    /\ pc = "reply" => pcb \in {"closed", "freed"}
    /\ pcb = "closed" => pc \in {"reply", "sending", "idle"}
    /\ pcb = "none" => pos = 0 /\ ~silent /\ received = 0
    /\ pos = 0 => served = <<>>

\* A file is open only in the handlers that use one, after it was opened and
\* before the answer; GET has it open all that time.
Files ==
    /\ fileOpen => \/ kind = "get" /\ pc \notin {"open", "idle", "sending"}
                   \/ kind = "post" /\ pc \notin Outset \cup {"idle", "sending"}
                   \/ kind = "post" /\ pc = "connect"
    /\ kind = "get" /\ pc \notin {"open", "idle", "sending"} => fileOpen

\* What holds whatever happens.
Held == Typed /\ HistoryTyped /\ Stages /\ Files

\* The other parts hold until bytes are taken for what they are not.

\* A DNS query is under way only where the handler waits for it, or when it
\* has waited too long.
Lookups ==
    /\ dns = "pending" =>
          /\ \/ pc = "dns"
             \/ pc \in {"unresolved", "sending", "idle"} /\ "dns_timeout" \in happened
          /\ pcb = "none" /\ ~req.dns_done /\ ~req.error
    /\ pc \in {"open", "lookup"} => ~req.dns_done /\ ~req.error

\* Streams: the handler goes on to the request only with a connection, and what
\* a failing connection does to the flags of a news_req_t never takes it on too
\* early.
Order ==
    kind \in Streams =>
        /\ pc \in Unasked => pos = 0
        /\ pcb = "open" => req.connected
        /\ req.complete => pos = Len(answer) \/ pcb \in {"freed", "closed"}
        /\ req.connected => pcb \notin {"none", "connecting"}
        /\ pc \in Linked => pcb \in {"open", "freed"}
        /\ pc \in Linked \cup {"resolved", "connect", "connecting"} => ~req.error
        /\ pc \in {"finish", "ending"} => pos = Len(answer) \/ silent \/ pcb = "freed"

\* The bytes of a payload on the bus.
Bytes(s) == Tagged("data", s)
\* Of an answer of status s and payload p the 65C02 has read a part, and the
\* rest is what the handler still writes.
Answer(s, p) ==
    \/ hpc = "status" /\ mainOut = Response(s, p) /\ got = <<>>
    \/ hpc = "lo" /\ status = s /\ mainOut = Length(Len(p)) \o Bytes(p) /\ got = <<>>
    \/ /\ hpc = "hi" /\ status = s /\ cnt = Len(p) % Base /\ got = <<>>
       /\ mainOut = Tagged("hi", <<Len(p) \div Base>>) \o Bytes(p)
    \/ /\ hpc = "payload" /\ status = s
       /\ \E rest \in Seq(Octet) :
            /\ rest # <<>> /\ got \o rest = p
            /\ mainOut = Bytes(rest) /\ cnt = Len(rest)
    \/ hpc = "idle" /\ status = s /\ mainOut = <<>> /\ got = p

\* The rest of the answer that opens a stream.
HeaderLeft ==
    \/ hpc = "status" /\ mainOut = Response(OK, <<>>)
    \/ hpc = "lo" /\ status = OK /\ mainOut = Length(0)
    \/ hpc = "hi" /\ status = OK /\ cnt = 0 /\ mainOut = Tagged("hi", <<0>>)
    \/ hpc = "flo" /\ status = OK /\ mainOut = <<>>

\* The frames so far hold what has arrived; a callback may be in the middle of
\* one.
InFrame ==
    \/ hpc = "flo" /\ cbOut = <<>> /\ got = served
    \/ \E p \in Seq(Octet) :
        /\ p # <<>> /\ Len(p) < Base * Base /\ got \o p = served
        /\ \/ hpc = "flo" /\ cbOut = Frame(p)
           \/ hpc = "fhi" /\ cnt = Len(p) % Base /\ cbOut = Tagged("hi", <<Len(p) \div Base>>) \o Bytes(p)
           \/ hpc = "fdata" /\ cnt = Len(p) /\ cbOut = Bytes(p)

\* The rest of the empty frame that ends a stream.
EndLeft ==
    \/ hpc = "flo" /\ mainOut = EOF
    \/ hpc = "fhi" /\ cnt = 0 /\ mainOut = Tagged("hi", <<0>>)
    \/ hpc = "idle" /\ mainOut = <<>>

\* The length of the payload fits two bytes, and a streaming command answers
\* like this only to refuse.
AnswerFits(s, p) ==
    Len(p) < Base * Base /\ (kind \in Streams => s # OK /\ p = <<>>) /\ Answer(s, p)

\* The places of a handler that writes nothing.
Quiet == Outset \cup {"connecting", "header", "body", "chunk"}

\* What is under way on the bus at each place of the handler, and what the
\* 65C02 will take it for.
Bus ==
    /\ cbOut # <<>> => kind \in Streams /\ pc \in {"transfer", "finish"}
    /\ pc \in Quiet \/ (kind \notin Streams /\ pc \in {"ask", "transfer", "finish", "reply"}) =>
          hpc = "status" /\ mainOut = <<>> /\ got = <<>>
    /\ pc = "sending" => \E s \in Octet, p \in Seq(Octet) : AnswerFits(s, p)
    /\ pc = "ask" /\ kind \in Streams => HeaderLeft /\ got = <<>>
    /\ kind \in Streams /\ pc \in {"transfer", "finish"} => status = OK /\ mainOut = <<>> /\ InFrame
    /\ pc = "ending" => status = OK /\ EndLeft /\ got = served
    /\ pc = "idle" => hpc = "idle" /\ mainOut = <<>>

\* What an answer of status s and payload p says.
Told(s, p) ==
    /\ s = OK => /\ pos = Len(answer)
                 /\ kind = "get" => stored = served \/ happened \cap {"write", "close"} # {}
                 /\ kind = "post" /\ "early" \notin happened =>
                       Len(sent) = Len(FileData) /\ ("read" \notin happened => sent = FileData)
                 /\ kind = "download" /\ Len(served) <= BufSize =>
                       p = SubSeq(served, 1, AtMost(Len(served), PayloadMax))
                 /\ kind = "time" => p = served
    /\ s # OK => p = <<>> /\ Noted

\* The answer under way, or the one read, is the truth.
TheEnd ==
    /\ pc = "sending" => \E s \in Octet, p \in Seq(Octet) : AnswerFits(s, p) /\ Told(s, p)
    /\ pc = "idle" /\ kind \notin Streams \cup {"none"} => Told(status, got)
    /\ pc = "idle" /\ kind \in Streams =>
         \/ status = OK /\ got = served /\ (Noted \/ pos = Len(answer))
         \/ status # OK /\ got = <<>> /\ Noted

\* A command that calls its answer complete has all of it, or an error.
Completed == kind \notin Streams /\ req.complete => pos = Len(answer) \/ req.error

\* GET stores what is served, as far as the flash takes it,
FileKept == kind = "get" => stored = served \/ happened \cap {"write", "close"} # {}
\* DOWNLOAD_SIMPLE keeps in http_buf what fits it,
BufferKept ==
    kind = "download" /\ Len(served) <= BufSize =>
        received = pos /\ \A i \in 1..pos : http_buf[i] = served[i]

\* and POST sends its file in order: the chunk in http_buf is the next part of
\* it, unless it was not read, or a callback has written over it.
Uploaded ==
    kind = "post" =>
        /\ Len(sent) <= Len(FileData)
        /\ pc = "chunk" => Len(sent) + chunk <= Len(FileData)
        /\ pc \in {"transfer", "finish", "reply"} =>
              Len(sent) = Len(FileData) \/ req.error \/ ~asked
        /\ ~asked /\ "early" \notin happened => pos = 0
        /\ "early" \notin happened /\ "read" \notin happened =>
              /\ sent = SubSeq(FileData, 1, Len(sent))
              /\ pc = "chunk" => \A i \in 1..chunk : http_buf[i] = FileData[Len(sent) + i]

\* Nothing has gone wrong that main.c sees, but for a full buffer.
Clean == happened \cap Noticed = {} /\ ~(kind \in Streams /\ "cached" \in happened)

\* Nothing goes wrong by itself.
Faultless ==
    Clean =>
        /\ ~silent /\ pc # "unresolved"
        /\ pc = "dns" => dns = "pending" \/ req.dns_done
        /\ req.error => kind \notin Streams /\ received >= BufSize
        /\ pcb = "freed" /\ pc \notin {"reply", "sending", "idle"} =>
              kind \notin Streams /\ received >= BufSize
        /\ pc \in {"finish", "reply", "ending"} => req.complete \/ req.error
-----------------------------------------------------------------------------
(****************************************************************************)
(* Connections, files and queries.                                          *)
(****************************************************************************)
\* The commands of the user are commands.
LEMMA KindNames == "none" \notin Kinds /\ Kinds \subseteq AllKinds
BY NetAssumption DEF NetAssumption, AllKinds

\* At the start nothing is connected, looked up or open.
LEMMA InitStages == Init => HistoryTyped /\ Stages /\ Lookups /\ Files
BY DEF Init, HistoryTyped, Stages, Lookups, Files, Outset, Unasked, Fresh

\* The 65C02 connects, looks up and opens nothing.
LEMMA HostKeepsStages ==
  ASSUME Typed, HostStep
  PROVE  /\ Stages => Stages'
         /\ Lookups => Lookups'
         /\ Files => Files'
<1>1. PICK at : TakeAt(at)
  BY DEF HostStep, TakeStatus, TakeLo, TakeHi, TakePayload, TakeFrameLo, TakeFrameHi, TakeFrameData
<1> QED
  BY <1>1 DEF Stages, Lookups, Files, TakeAt, memVars, fileVars, netVars, answerVars, historyVars

\* A command starts with nothing connected, looked up or open.
LEMMA StartKeepsStages ==
  ASSUME Typed, NEW k \in Kinds, Start(k)
  PROVE  /\ Stages'
         /\ Lookups'
         /\ Files => Files'
<1>1. Stages'
  BY DEF Start, Stages, Outset, Unasked
<1>2. Lookups'
  BY DEF Start, Lookups, Fresh
<1>3. Files => Files'
  BY DEF Start, Files
<1> QED
  BY <1>1, <1>2, <1>3

\* A stray callback raises flags and nothing else.
LEMMA StraysRaiseFlags ==
  ASSUME Strays
  PROVE  /\ derailed' = TRUE
         /\ Stages => Stages'
         /\ Files => Files'
BY DEF Strays, Stages, Files, memVars, fileVars, netVars, answerVars

\* What has not gone off the rails has never.
LEMMA OnTrackBefore ==
  ASSUME [Next]_vars, ~derailed'
  PROVE  ~derailed /\ ~Strays
<1>1. CASE \E k \in Kinds : Start(k)
  BY <1>1 DEF Start, OnTrack, Strays
<1>2. CASE HostStep
  <2>1. PICK at : TakeAt(at)
    BY <1>2 DEF HostStep, TakeStatus, TakeLo, TakeHi, TakePayload, TakeFrameLo, TakeFrameHi, TakeFrameData
  <2> QED
    BY <2>1 DEF TakeAt, historyVars, Strays
<1>3. CASE Handler
  <2>1. derailed => derailed'
    BY <1>3 DEF Handler, OpenLocal, Lookup, DnsWaitEnds, Unresolved, Resolved, Connect, ConnectWaitEnds,
       Header, Ask, ReadChunk, SendChunk, BodyDone, TransferEnds, FinishStream, StreamEnded, Finish,
       ReplyResult, Replied, Derails, historyVars
  <2> QED
    BY <2>1 DEF Strays
<1>4. CASE Outside
  <2>1. derailed => derailed'
    BY <1>4 DEF Outside, Network, DnsFound, Connected, Closes, Broken, GivenUp, Forgotten, ErrCallback,
       FallsSilent, DataToFile, DataToMemory, DataToBus, TimeArrives, Derails, historyVars
  <2> QED
    BY <2>1 DEF Strays
<1>5. CASE Strays \/ UNCHANGED vars
  BY <1>5 DEF Strays, vars, historyVars
<1> QED
  BY <1>1, <1>2, <1>3, <1>4, <1>5 DEF Next, Outside

\* Within a command what has happened has happened.
LEMMA NothingUndone ==
  ASSUME HistoryTyped, HostStep \/ Handler \/ Outside
  PROVE  \A f : f \in happened => f \in happened'
<1>1. [Next]_vars
  BY DEF Next, Outside
<1>2. CASE HostStep
  <2>1. PICK at : TakeAt(at)
    BY <1>2 DEF HostStep, TakeStatus, TakeLo, TakeHi, TakePayload, TakeFrameLo, TakeFrameHi, TakeFrameData
  <2> QED
    BY <2>1 DEF TakeAt, historyVars
<1>3. CASE Handler \/ Outside
  <2>1. ~(\E k \in Kinds : Start(k)) \/ happened \subseteq happened'
    <3>1. CASE Handler
      <4>1. pc # "idle"
        BY <3>1 DEF Handler, OpenLocal, Lookup, DnsWaitEnds, Unresolved, Resolved, Connect, ConnectWaitEnds,
           Header, Ask, ReadChunk, SendChunk, BodyDone, TransferEnds, FinishStream, StreamEnded, Finish,
           ReplyResult, Replied, At
      <4> QED
        BY <4>1 DEF Start
    <3>2. CASE Outside
      <4>1. UNCHANGED hpc
        BY <3>2 DEF Outside, Network, DnsFound, Connected, Closes, Broken, GivenUp, Forgotten, ErrCallback,
           FallsSilent, Callback, DataToFile, DataToMemory, DataToBus, TimeArrives, Arrives, hostVars
      <4> QED
        BY <4>1 DEF Start
    <3> QED
      BY <1>3, <3>1, <3>2
  <2> QED
    BY <1>1, <2>1, HistoryGrows
<1> QED
  BY <1>2, <1>3

\* The handler goes on in order.
LEMMA HandlerKeepsStages ==
  ASSUME Typed, Stages, Handler
  PROVE  Stages'
<1> USE DEF Stages, Outset, Unasked, At, Reply, memVars, answerVars
<1>1. CASE OpenLocal \/ Lookup \/ DnsWaitEnds
  BY <1>1 DEF OpenLocal, Lookup, DnsWaitEnds
<1>2. CASE Unresolved \/ Resolved
  BY <1>2 DEF Unresolved, Resolved
<1>3. CASE Connect \/ ConnectWaitEnds
  BY <1>3 DEF Connect, ConnectWaitEnds
<1>4. CASE Header \/ Ask
  BY <1>4 DEF Header, Ask
<1>5. CASE ReadChunk \/ SendChunk
  BY <1>5 DEF ReadChunk, SendChunk
<1>6. CASE BodyDone \/ TransferEnds
  BY <1>6 DEF BodyDone, TransferEnds
<1>7. CASE FinishStream
  BY <1>7 DEF FinishStream
<1>8. CASE StreamEnded \/ Finish
  <2>1. /\ pc' \in {"idle", "reply"} /\ pcb' \in {"closed", "freed"}
        /\ UNCHANGED <<pos, silent, received, served, asked>>
    BY <1>8 DEF StreamEnded, Finish, Close
  <2> QED
    BY <2>1
<1>9. CASE ReplyResult \/ Replied
  <2>1. pc' \in {"sending", "idle"} /\ pc \in {"reply", "sending"}
    BY <1>9 DEF ReplyResult, Replied
  <2>2. UNCHANGED <<pcb, pos, silent, received, served, asked>>
    BY <1>9 DEF ReplyResult, Replied
  <2> QED
    BY <2>1, <2>2
<1> QED
  BY <1>1, <1>2, <1>3, <1>4, <1>5, <1>6, <1>7, <1>8, <1>9 DEF Handler

\* Where data arrive, and what they leave alone.
LEMMA DataMoves ==
  ASSUME Typed, DataToFile \/ DataToMemory \/ DataToBus \/ TimeArrives
  PROVE  /\ Callback /\ pcb = "open" /\ pcb' \in {"open", "freed"} /\ pos' # 0
         /\ UNCHANGED <<asked, silent, dns, linked, answer, pc, kind, fileOpen>>
<1>1. PICK n : Arrives(n)
  BY DEF DataToFile, DataToMemory, DataToBus, TimeArrives
<1>2. pos' = pos + n /\ n >= 1 /\ n \in Nat /\ pos' \in Nat
      /\ UNCHANGED <<dns, linked, asked, answer, silent>>
  BY <1>1, ArrivesType
<1>3. pos \in Nat
  BY DEF Typed, Types, NetTyped
<1>4. pcb = "open" /\ Callback
  BY <1>1 DEF Arrives
<1>5. pcb' \in {"open", "freed"}
  BY <1>4 DEF DataToFile, DataToMemory, DataToBus, TimeArrives
<1> QED
  BY <1>2, <1>3, <1>4, <1>5 DEF Callback

\* The callbacks without data move none.
LEMMA CallsMoveNoData ==
  ASSUME DnsFound \/ Connected \/ GivenUp \/ Broken \/ Forgotten \/ Closes \/ FallsSilent
  PROVE  UNCHANGED <<kind, pc, answer, pos, served, received, stored, http_buf, chunk, sent, asked,
                     fileOpen>>
BY DEF DnsFound, Connected, GivenUp, Broken, Forgotten, Closes, ErrCallback, FallsSilent, Callback,
       answerVars, memVars, fileVars

\* Nothing from outside moves the handler.
LEMMA OutsideMovesNoHandler ==
  ASSUME Typed, Outside
  PROVE  UNCHANGED <<kind, pc, fileOpen, answer, asked>>
BY DataMoves, CallsMoveNoData DEF Outside, Network

\* A callback leaves the connection where the handler may find it.
LEMMA NetworkKeepsStages ==
  ASSUME Typed, Stages, Outside
  PROVE  Stages'
<1> USE DEF Stages, Outset, Unasked
<1>1. CASE DnsFound \/ Connected
  BY <1>1 DEF DnsFound, Connected, Callback, answerVars
<1>2. CASE GivenUp \/ Broken \/ Forgotten
  <2>1. pcb \in {"connecting", "open", "closed"} /\ pcb' = "freed"
    BY <1>2 DEF GivenUp, Broken, Forgotten, ErrCallback
  <2>2. UNCHANGED <<pc, asked, pos, served>>
    BY <1>2, CallsMoveNoData
  <2> QED
    BY <2>1, <2>2
<1>3. CASE Closes
  BY <1>3 DEF Closes, Callback, answerVars
<1>4. CASE DataToFile \/ DataToMemory \/ DataToBus \/ TimeArrives
  BY <1>4, DataMoves
<1>5. CASE FallsSilent
  BY <1>5 DEF FallsSilent, memVars, answerVars
<1> QED
  BY <1>1, <1>2, <1>3, <1>4, <1>5 DEF Outside, Network

\* The handler closes what it has opened,
LEMMA HandlerKeepsFiles ==
  ASSUME Typed, Files, Handler
  PROVE  Files'
<1> USE DEF Files, At, Outset, fileVars
<1>0. Placed /\ fileOpen \in BOOLEAN
  BY DEF Typed, Types, WorkTyped
<1>1. CASE OpenLocal \/ Lookup \/ DnsWaitEnds
  BY <1>0, <1>1 DEF OpenLocal, Lookup, DnsWaitEnds, Placed, Reply
<1>2. CASE Unresolved \/ Resolved
  BY <1>0, <1>2 DEF Unresolved, Resolved, Reply, Streams
<1>3. CASE Connect \/ ConnectWaitEnds
  BY <1>3 DEF Connect, ConnectWaitEnds
<1>4. CASE Header \/ Ask
  BY <1>4 DEF Header, Ask
<1>5. CASE ReadChunk \/ SendChunk
  BY <1>5 DEF ReadChunk, SendChunk
<1>6. CASE BodyDone \/ TransferEnds
  BY <1>6 DEF BodyDone, TransferEnds
<1>7. CASE FinishStream \/ StreamEnded \/ Finish
  BY <1>0, <1>7 DEF FinishStream, StreamEnded, Finish, Placed, Streams
<1>8. CASE ReplyResult \/ Replied
  <2>1. pc' \in {"sending", "idle"}
    BY <1>8 DEF ReplyResult, Replied, Reply
  <2>2. ~fileOpen'
    BY <1>8 DEF ReplyResult, Replied
  <2> QED
    BY <2>1, <2>2
<1> QED
  BY <1>1, <1>2, <1>3, <1>4, <1>5, <1>6, <1>7, <1>8 DEF Handler

\* and no callback opens or closes a file.
LEMMA NetworkKeepsFiles ==
  ASSUME Typed, Files, Outside
  PROVE  Files'
BY OutsideMovesNoHandler DEF Files

\* At the start the order holds.
LEMMA InitHeld == Init => Held
BY InitTyped, InitStages DEF Held

\* No step breaks it.
LEMMA NextKeepsHeld ==
  ASSUME Held, [Next]_vars
  PROVE  Held'
<1> USE DEF Held
<1>1. Typed' /\ HistoryTyped'
  BY NextKeepsTypes, NextKeepsHistory
<1>2. Stages' /\ Files'
  <2>1. CASE UNCHANGED vars
    BY <2>1 DEF Stages, Files, vars, memVars, fileVars, netVars, answerVars
  <2>2. CASE \E k \in Kinds : Start(k)
    BY <2>2, StartKeepsStages
  <2>3. CASE HostStep
    BY <2>3, HostKeepsStages
  <2>4. CASE Handler
    BY <2>4, HandlerKeepsStages, HandlerKeepsFiles
  <2>5. CASE Outside
    BY <2>5, NetworkKeepsStages, NetworkKeepsFiles
  <2>6. CASE Strays
    BY <2>6, StraysRaiseFlags
  <2> QED
    BY <2>1, <2>2, <2>3, <2>4, <2>5, <2>6 DEF Next, Outside
<1> QED
  BY <1>1, <1>2

\* The handler leaves a query when it was answered, or after five seconds,
LEMMA HandlerKeepsLookups ==
  ASSUME Held, Lookups, Handler
  PROVE  Lookups'
<1> USE DEF Lookups, At
<1>0. Stages /\ \A f : f \in happened => f \in happened'
  BY NothingUndone DEF Held
<1>1. CASE Lookup
  <2>1. pc = "lookup" /\ dns # "pending" /\ pcb = "none" /\ ~req.dns_done /\ ~req.error
        /\ pc' \in {"resolved", "dns"} /\ UNCHANGED pcb
    BY <1>0, <1>1 DEF Lookup, Stages, Outset
  <2>2. dns' = "pending" => pc' = "dns" /\ UNCHANGED req
    BY <1>1, <2>1 DEF Lookup
  <2> QED
    BY <2>1, <2>2
<1>2. CASE DnsWaitEnds
  <2>1. pc = "dns" /\ UNCHANGED <<dns, req, pcb>> /\ pc' \in {"resolved", "unresolved"}
    BY <1>2 DEF DnsWaitEnds
  <2>2. dns = "pending" => pc' = "unresolved" /\ "dns_timeout" \in happened'
    BY <1>2, <2>1 DEF DnsWaitEnds, Fault
  <2> QED
    BY <2>1, <2>2
<1>3. CASE Unresolved \/ Replied
  <2>1. /\ UNCHANGED <<dns, req, pcb>> /\ pc \in {"unresolved", "sending"}
        /\ pc' \in {"sending", "idle"}
    BY <1>3 DEF Unresolved, Replied, Reply
  <2> QED
    BY <1>0, <2>1
<1>4. CASE ~Lookup /\ ~DnsWaitEnds /\ ~Unresolved /\ ~Replied
  <2>1. pc \notin {"dns", "unresolved", "sending", "idle"} /\ UNCHANGED dns /\ pc' # "open"
    BY <1>4 DEF Handler, OpenLocal, Resolved, Connect, ConnectWaitEnds, Header,
       Ask, ReadChunk, SendChunk, BodyDone, TransferEnds, FinishStream, StreamEnded, Finish,
       ReplyResult, Reply
  <2>2. pc' = "lookup" => pc = "open" /\ UNCHANGED req
    BY <1>4 DEF Handler, OpenLocal, Resolved, Connect, ConnectWaitEnds, Header,
       Ask, ReadChunk, SendChunk, BodyDone, TransferEnds, FinishStream, StreamEnded, Finish,
       ReplyResult, Reply
  <2> QED
    BY <2>1, <2>2
<1> QED
  BY <1>1, <1>2, <1>3, <1>4

\* and a callback answers one that is waited for, or comes too late.
LEMMA NetworkKeepsLookups ==
  ASSUME Held, Lookups, Outside
  PROVE  Lookups'
<1> USE DEF Lookups
<1>0. Typed /\ Stages
  BY DEF Held
<1>1. CASE DnsFound
  BY <1>1 DEF DnsFound, Callback
<1>2. CASE ~DnsFound
  <2>1. pcb # "none" /\ UNCHANGED <<dns, pc>>
    <3>1. CASE Connected \/ GivenUp \/ Broken \/ Forgotten \/ Closes
      BY <3>1 DEF Connected, GivenUp, Broken, Forgotten, Closes, ErrCallback, Callback
    <3>2. CASE FallsSilent
      BY <3>2 DEF FallsSilent
    <3>3. CASE DataToFile \/ DataToMemory \/ DataToBus \/ TimeArrives
      BY <1>0, <3>3, DataMoves
    <3> QED
      BY <1>2, <3>1, <3>2, <3>3 DEF Outside, Network
  <2>2. pc \notin {"open", "lookup"} /\ dns # "pending"
    BY <1>0, <2>1 DEF Stages, Outset
  <2> QED
    BY <2>1, <2>2
<1> QED
  BY <1>1, <1>2

\* No step leaves a query behind that is not noted.
LEMMA NextKeepsLookups ==
  ASSUME Held, Lookups, [Next]_vars, ~derailed'
  PROVE  Lookups'
<1>1. ~Strays
  BY OnTrackBefore
<1>2. CASE UNCHANGED vars
  BY <1>2 DEF Lookups, vars, netVars, historyVars
<1> QED
  BY <1>1, <1>2, StartKeepsStages, HostKeepsStages, HandlerKeepsLookups, NetworkKeepsLookups
     DEF Next, Outside, Held

\* NothingOutlives: when a handler has answered its file is closed, data can
\* no longer come for it, and while they may for a GET its file is open.  A
\* DNS query is under way then only when its wait took too long, or when a
\* stray callback has made the handler take it for answered: whatever fails
\* in it, wherever it returns, and whoever calls back late.
THEOREM HandlersLeaveNothing == Spec => []NothingOutlives
<1> DEFINE Kept == Held /\ (~derailed => Lookups)
<1>1. Kept => NothingOutlives
  <2> SUFFICES ASSUME Kept PROVE NothingOutlives
    OBVIOUS
  <2>1. pc \in {"idle", "sending"} => ~fileOpen /\ pcb \notin {"connecting", "open"}
    BY DEF Held, Files, Stages
  <2>2. pc \in {"idle", "sending"} /\ dns = "pending" => "dns_timeout" \in happened \/ derailed
    BY DEF Lookups
  <2>3. kind = "get" /\ pcb \in {"connecting", "open"} => fileOpen
    BY DEF Held, Files, Stages, Outset
  <2> QED
    BY <2>1, <2>2, <2>3 DEF NothingOutlives
<1>2. Init => Kept
  BY InitHeld, InitStages
<1>3. Kept /\ [Next]_vars => Kept'
  BY NextKeepsHeld, NextKeepsLookups, OnTrackBefore
<1> QED
  BY <1>1, <1>2, <1>3, PTL DEF Spec
-----------------------------------------------------------------------------
(****************************************************************************)
(* What is read, byte by byte.                                              *)
(****************************************************************************)
\* A sequence is its head and its tail.
LEMMA FirstAndRest ==
  ASSUME NEW S, NEW e \in S, NEW q \in Seq(S)
  PROVE  <<e>> \o q # <<>> /\ Head(<<e>> \o q) = e /\ Tail(<<e>> \o q) = q
<1>1. /\ Len(<<e>> \o q) = Len(q) + 1 /\ Len(q) \in Nat
      /\ (<<e>> \o q)[1] = e /\ \A i \in 1..Len(q) : (<<e>> \o q)[i + 1] = q[i]
  OBVIOUS
<1>2. <<e>> \o q \in Seq(S) /\ <<e>> \o q # <<>>
  BY <1>1
<1>3. Tail(<<e>> \o q) = q
  <2>1. /\ Tail(<<e>> \o q) \in Seq(S) /\ Len(Tail(<<e>> \o q)) = Len(q)
        /\ \A i \in 1..Len(q) : Tail(<<e>> \o q)[i] = (<<e>> \o q)[i + 1]
    BY <1>1, <1>2
  <2> QED
    BY <1>1, <2>1
<1> QED
  BY <1>1, <1>2, <1>3

\* Concatenation of bytes is associative.
LEMMA Regroup ==
  ASSUME NEW S, NEW a \in Seq(S), NEW b \in Seq(S), NEW c \in Seq(S)
  PROVE  /\ (a \o b) \o c = a \o (b \o c) /\ a \o <<>> = a /\ <<>> \o a = a
         /\ a \o b \in Seq(S) /\ Len(a \o b) = Len(a) + Len(b)
OBVIOUS

\* No payload, no bytes.
LEMMA BytesEmpty == Bytes(<<>>) = <<>>
BY DEF Bytes, Tagged

\* A payload on the bus is a sequence of bytes.
LEMMA BytesType ==
  ASSUME NEW p \in Seq(Octet)
  PROVE  /\ Bytes(p) \in Seq(BusByte)
         /\ p # <<>> => /\ Bytes(p) # <<>>
                        /\ p[1] \in Octet /\ Tail(p) \in Seq(Octet) /\ Len(Tail(p)) = Len(p) - 1
                        /\ <<p[1]>> \o Tail(p) = p
                        /\ Head(Bytes(p)) = [tag |-> "data", val |-> p[1]]
                        /\ Tail(Bytes(p)) = Bytes(Tail(p))
<1>1. /\ Bytes(p) \in Seq(BusByte) /\ Len(Bytes(p)) = Len(p) /\ Len(p) \in Nat
      /\ \A i \in 1..Len(p) : Bytes(p)[i] = [tag |-> "data", val |-> p[i]]
  BY TaggedType DEF Bytes
<1>2. ASSUME p # <<>>
      PROVE  /\ Bytes(p) # <<>>
             /\ p[1] \in Octet /\ Tail(p) \in Seq(Octet) /\ Len(Tail(p)) = Len(p) - 1
             /\ <<p[1]>> \o Tail(p) = p
             /\ Head(Bytes(p)) = [tag |-> "data", val |-> p[1]]
             /\ Tail(Bytes(p)) = Bytes(Tail(p))
  <2>1. /\ Len(p) >= 1 /\ p[1] \in Octet /\ Tail(p) \in Seq(Octet) /\ Len(Tail(p)) = Len(p) - 1
        /\ \A i \in 1..(Len(p) - 1) : Tail(p)[i] = p[i + 1]
    <3> HIDE DEF Octet
    <3> QED
      BY <1>2, <1>1
  <2>2. <<p[1]>> \o Tail(p) = p
    <3> HIDE DEF Octet
    <3> QED
      BY <2>1, <1>1, <1>2
  <2>3. /\ Bytes(Tail(p)) \in Seq(BusByte) /\ Len(Bytes(Tail(p))) = Len(p) - 1
        /\ \A i \in 1..(Len(p) - 1) : Bytes(Tail(p))[i] = [tag |-> "data", val |-> Tail(p)[i]]
    BY <2>1, TaggedType DEF Bytes
  <2>4. /\ Bytes(p) # <<>> /\ Head(Bytes(p)) = Bytes(p)[1]
        /\ Tail(Bytes(p)) \in Seq(BusByte) /\ Len(Tail(Bytes(p))) = Len(p) - 1
        /\ \A i \in 1..(Len(p) - 1) : Tail(Bytes(p))[i] = Bytes(p)[i + 1]
    <3> HIDE DEF BusByte, Bytes
    <3> QED
      BY <1>1, <2>1
  <2>5. \A i \in 1..(Len(p) - 1) : Tail(Bytes(p))[i] = Bytes(Tail(p))[i]
    <3> SUFFICES ASSUME NEW i \in 1..(Len(p) - 1) PROVE Tail(Bytes(p))[i] = Bytes(Tail(p))[i]
      OBVIOUS
    <3>1. i + 1 \in 1..Len(p) /\ Tail(Bytes(p))[i] = Bytes(p)[i + 1] /\ Tail(p)[i] = p[i + 1]
          /\ Bytes(Tail(p))[i] = [tag |-> "data", val |-> Tail(p)[i]]
      BY <1>1, <2>1, <2>3, <2>4
    <3>2. Bytes(p)[i + 1] = [tag |-> "data", val |-> p[i + 1]]
      BY <1>1, <3>1
    <3> QED
      BY <3>1, <3>2
  <2>6. Tail(Bytes(p)) = Bytes(Tail(p))
    <3> HIDE DEF BusByte, Bytes
    <3> QED
      BY <1>1, <2>3, <2>4, <2>5
  <2>7. Head(Bytes(p)) = [tag |-> "data", val |-> p[1]]
    <3>1. 1 \in 1..Len(p)
      BY <1>1, <2>1
    <3>2. Bytes(p)[1] = [tag |-> "data", val |-> p[1]]
      BY <1>1, <3>1
    <3> QED
      BY <2>4, <3>2
  <2> QED
    BY <2>1, <2>2, <2>4, <2>6, <2>7
<1> QED
  BY <1>1, <1>2

\* What begins with the high byte of a length,
LEMMA HiFirst ==
  ASSUME NEW v \in Octet, NEW p \in Seq(Octet)
  PROVE  LET q == Tagged("hi", <<v>>) \o Bytes(p) IN
         q # <<>> /\ Head(q) = [tag |-> "hi", val |-> v] /\ Tail(q) = Bytes(p)
<1>1. Tagged("hi", <<v>>) = <<[tag |-> "hi", val |-> v]>> /\ [tag |-> "hi", val |-> v] \in BusByte
  BY OneByte
<1>2. Bytes(p) \in Seq(BusByte)
  BY BytesType
<1> HIDE DEF BusByte, Bytes
<1> QED
  BY <1>1, <1>2, FirstAndRest

\* with a length,
LEMMA LengthFirst ==
  ASSUME NEW n \in Nat, n < Base * Base, NEW p \in Seq(Octet)
  PROVE  LET q == Length(n) \o Bytes(p) IN
         /\ q # <<>> /\ Head(q) = [tag |-> "lo", val |-> n % Base]
         /\ Tail(q) = Tagged("hi", <<n \div Base>>) \o Bytes(p)
<1>1. n % Base \in Octet /\ n \div Base \in Octet
  BY LengthBytes
<1>2. /\ Tagged("lo", <<n % Base>>) = <<[tag |-> "lo", val |-> n % Base]>>
      /\ [tag |-> "lo", val |-> n % Base] \in BusByte
  BY <1>1, OneByte
<1>3. Tagged("hi", <<n \div Base>>) \in Seq(BusByte)
  BY <1>1, OneByte
<1>4. Bytes(p) \in Seq(BusByte)
  BY BytesType
<1> DEFINE e == [tag |-> "lo", val |-> n % Base]
           h == Tagged("hi", <<n \div Base>>)
<1>5. e \in BusByte /\ h \in Seq(BusByte) /\ Length(n) = <<e>> \o h
  BY <1>2, <1>3 DEF Length
<1> HIDE DEF BusByte, Bytes, e, h
<1>6. (<<e>> \o h) \o Bytes(p) = <<e>> \o (h \o Bytes(p)) /\ h \o Bytes(p) \in Seq(BusByte)
  <2>1. <<e>> \in Seq(BusByte)
    BY <1>5
  <2> QED
    BY <1>4, <1>5, <2>1, Regroup
<1>7. /\ Length(n) \o Bytes(p) # <<>> /\ Head(Length(n) \o Bytes(p)) = e
      /\ Tail(Length(n) \o Bytes(p)) = h \o Bytes(p)
  BY <1>5, <1>6, FirstAndRest
<1> QED
  BY <1>7 DEF e, h

\* with a status,
LEMMA StatusFirst ==
  ASSUME NEW s \in Octet, NEW p \in Seq(Octet), Len(p) < Base * Base
  PROVE  /\ Response(s, p) # <<>> /\ Head(Response(s, p)) = [tag |-> "status", val |-> s]
         /\ Tail(Response(s, p)) = Length(Len(p)) \o Bytes(p)
<1>1. /\ Tagged("status", <<s>>) = <<[tag |-> "status", val |-> s]>>
      /\ [tag |-> "status", val |-> s] \in BusByte
  BY OneByte
<1>2. Len(p) \in Nat
  OBVIOUS
<1>3. Length(Len(p)) \in Seq(BusByte)
  BY <1>2, LengthType
<1>4. Bytes(p) \in Seq(BusByte)
  BY BytesType
<1> DEFINE e == [tag |-> "status", val |-> s]
           h == Length(Len(p))
<1>5. e \in BusByte /\ h \in Seq(BusByte) /\ Response(s, p) = (<<e>> \o h) \o Bytes(p)
  BY <1>1, <1>3 DEF Response, Bytes
<1> HIDE DEF BusByte, Bytes, e, h
<1>6. (<<e>> \o h) \o Bytes(p) = <<e>> \o (h \o Bytes(p)) /\ h \o Bytes(p) \in Seq(BusByte)
  <2>1. <<e>> \in Seq(BusByte)
    BY <1>5
  <2> QED
    BY <1>4, <1>5, <2>1, Regroup
<1>7. /\ Response(s, p) # <<>> /\ Head(Response(s, p)) = e
      /\ Tail(Response(s, p)) = h \o Bytes(p)
  BY <1>5, <1>6, FirstAndRest
<1> QED
  BY <1>7 DEF e, h

\* and with the length of nothing.
LEMMA EmptyFirst ==
  /\ 0 < Base * Base /\ 0 % Base = 0 /\ 0 \div Base = 0 /\ 0 \in Octet
  /\ \A s \in Octet : /\ Response(s, <<>>) # <<>>
                      /\ Head(Response(s, <<>>)) = [tag |-> "status", val |-> s]
                      /\ Tail(Response(s, <<>>)) = Length(0)
  /\ Length(0) # <<>> /\ Head(Length(0)) = [tag |-> "lo", val |-> 0]
  /\ Tail(Length(0)) = Tagged("hi", <<0>>)
  /\ Tagged("hi", <<0>>) # <<>> /\ Head(Tagged("hi", <<0>>)) = [tag |-> "hi", val |-> 0]
  /\ Tail(Tagged("hi", <<0>>)) = <<>>
<1>1. 0 < Base * Base /\ 0 % Base = 0 /\ 0 \div Base = 0 /\ 0 \in Octet
  BY BaseType DEF Octet
<1>2. <<>> \in Seq(Octet) /\ Len(<<>>) = 0
  OBVIOUS
<1>3. Length(0) \in Seq(BusByte) /\ Tagged("hi", <<0>>) \in Seq(BusByte)
  BY <1>1, LengthType, OneByte
<1>4. Length(0) \o Bytes(<<>>) = Length(0) /\ Tagged("hi", <<0>>) \o Bytes(<<>>) = Tagged("hi", <<0>>)
  <2> HIDE DEF BusByte
  <2> QED
    BY <1>3, BytesEmpty, Regroup
<1>5. ASSUME NEW s \in Octet
      PROVE  /\ Response(s, <<>>) # <<>>
             /\ Head(Response(s, <<>>)) = [tag |-> "status", val |-> s]
             /\ Tail(Response(s, <<>>)) = Length(0)
  BY <1>1, <1>2, <1>4, StatusFirst
<1>6. /\ Length(0) # <<>> /\ Head(Length(0)) = [tag |-> "lo", val |-> 0]
      /\ Tail(Length(0)) = Tagged("hi", <<0>>)
  BY <1>1, <1>2, <1>4, LengthFirst
<1>7. /\ Tagged("hi", <<0>>) # <<>> /\ Head(Tagged("hi", <<0>>)) = [tag |-> "hi", val |-> 0]
      /\ Tail(Tagged("hi", <<0>>)) = <<>>
  BY <1>1, <1>2, <1>4, BytesEmpty, HiFirst
<1> QED
  BY <1>1, <1>5, <1>6, <1>7

\* The 65C02 takes v from the bus for what it reads next.
Reads(v) ==
    \/ hpc = "status" /\ status' = v /\ hpc' = "lo" /\ UNCHANGED <<cnt, got>>
    \/ hpc = "lo" /\ cnt' = v /\ hpc' = "hi" /\ UNCHANGED <<status, got>>
    \/ /\ hpc = "hi" /\ cnt' = cnt + Base * v /\ UNCHANGED <<status, got>>
       /\ hpc' = IF kind \in Streams THEN (IF status = OK THEN "flo" ELSE "idle")
                 ELSE IF cnt' = 0 THEN "idle" ELSE "payload"
    \/ /\ hpc = "payload" /\ cnt' = cnt - 1 /\ got' = Append(got, v) /\ UNCHANGED status
       /\ hpc' = IF cnt' = 0 THEN "idle" ELSE "payload"
    \/ hpc = "flo" /\ cnt' = v /\ hpc' = "fhi" /\ UNCHANGED <<status, got>>
    \/ /\ hpc = "fhi" /\ cnt' = cnt + Base * v /\ UNCHANGED <<status, got>>
       /\ hpc' = IF cnt' = 0 THEN "idle" ELSE "fdata"
    \/ /\ hpc = "fdata" /\ cnt' = cnt - 1 /\ got' = Append(got, v) /\ UNCHANGED status
       /\ hpc' = IF cnt' = 0 THEN "flo" ELSE "fdata"

\* The 65C02 reads what the handler or a callback offers, one byte at a time.
LEMMA HostReadsByte ==
  ASSUME HostStep
  PROVE  /\ Reads(Byte)
         /\ UNCHANGED <<kind, pc, req, memVars, fileVars, netVars, stray, historyVars>>
         /\ \/ cbOut # <<>> /\ Byte = Head(cbOut).val /\ cbOut' = Tail(cbOut) /\ UNCHANGED mainOut
            \/ /\ cbOut = <<>> /\ mainOut # <<>> /\ Byte = Head(mainOut).val
               /\ mainOut' = Tail(mainOut) /\ UNCHANGED cbOut
<1>1. PICK at : TakeAt(at)
  BY DEF HostStep, TakeStatus, TakeLo, TakeHi, TakePayload, TakeFrameLo, TakeFrameHi, TakeFrameData
<1>2. Reads(Byte)
  BY DEF HostStep, TakeAt, TakeStatus, TakeLo, TakeHi, TakePayload, TakeFrameLo, TakeFrameHi,
         TakeFrameData, Reads
<1> QED
  BY <1>1, <1>2 DEF TakeAt, Offered, Byte

\* A byte of a payload goes from the bus to the 65C02.
LEMMA OneMore ==
  ASSUME NEW g \in Seq(Octet), NEW r \in Seq(Octet), r # <<>>
  PROVE  /\ Append(g, r[1]) \in Seq(Octet) /\ Append(g, r[1]) \o Tail(r) = g \o r
         /\ Append(g, r[1]) = g \o <<r[1]>>
<1>1. r[1] \in Octet /\ Tail(r) \in Seq(Octet) /\ <<r[1]>> \o Tail(r) = r
  BY BytesType
<1> HIDE DEF Octet
<1>2. <<r[1]>> \in Seq(Octet) /\ Append(g, r[1]) = g \o <<r[1]>> /\ Append(g, r[1]) \in Seq(Octet)
  BY <1>1
<1>3. (g \o <<r[1]>>) \o Tail(r) = g \o (<<r[1]>> \o Tail(r))
  BY <1>1, <1>2, Regroup
<1> QED
  BY <1>1, <1>2, <1>3

\* The tail of a single byte.
LEMMA EmptyTail ==
  ASSUME NEW S, NEW r \in Seq(S)
  PROVE  (Len(r) = 0 <=> r = <<>>) /\ Len(r) \in Nat
OBVIOUS

\* No payload is left exactly when no byte is.
LEMMA NoneLeft ==
  ASSUME NEW g \in Seq(Octet), NEW r \in Seq(Octet)
  PROVE  /\ r = <<>> => g \o r = g
         /\ g \o r = <<>> => r = <<>>
         /\ <<>> \o r = r
<1>1. Len(g \o r) = Len(g) + Len(r) /\ Len(g) \in Nat /\ Len(r) \in Nat
  OBVIOUS
<1> HIDE DEF Octet
<1>2. g \o <<>> = g /\ <<>> \o r = r
  OBVIOUS
<1>3. g \o r = <<>> => Len(r) = 0
  BY <1>1
<1> QED
  BY <1>2, <1>3, EmptyTail

\* Each byte of an answer leads to a shorter rest of the same answer.
LEMMA ReadsAnswer ==
  ASSUME Typed, NEW s \in Octet, NEW p \in Seq(Octet), AnswerFits(s, p), cbOut = <<>>, HostStep
  PROVE  AnswerFits(s, p)'
<1>0. Len(p) \in Nat /\ Len(p) < Base * Base /\ (kind \in Streams => s # OK /\ p = <<>>)
      /\ Answer(s, p) /\ kind' = kind
  BY HostReadsByte DEF AnswerFits
<1>1. Reads(Byte) /\ mainOut # <<>> /\ Byte = Head(mainOut).val /\ mainOut' = Tail(mainOut)
  BY HostReadsByte
<1>2. PICK m \in Nat : m = Len(p)
  BY <1>0
<1>3. m < Base * Base /\ m % Base \in Octet /\ m \div Base \in Octet
      /\ (m % Base) + (Base * (m \div Base)) = m
  BY <1>0, <1>2, LengthBytes
<1> SUFFICES Answer(s, p)'
  BY <1>0 DEF AnswerFits
<1>4. CASE hpc = "status"
  <2>1. mainOut = Response(s, p) /\ got = <<>>
    BY <1>0, <1>4 DEF Answer
  <2>2. Byte = s /\ mainOut' = Length(m) \o Bytes(p)
    <3>1. Head(Response(s, p)) = [tag |-> "status", val |-> s]
          /\ Tail(Response(s, p)) = Length(Len(p)) \o Bytes(p)
      BY <1>0, StatusFirst
    <3> QED
      BY <1>1, <1>2, <2>1, <3>1
  <2> QED
    BY <1>1, <1>2, <1>4, <2>1, <2>2 DEF Answer, Reads
<1>5. CASE hpc = "lo"
  <2>1. mainOut = Length(m) \o Bytes(p) /\ got = <<>> /\ status = s
    BY <1>0, <1>2, <1>5 DEF Answer
  <2>2. Byte = m % Base /\ mainOut' = Tagged("hi", <<m \div Base>>) \o Bytes(p)
    <3>1. /\ Head(Length(m) \o Bytes(p)) = [tag |-> "lo", val |-> m % Base]
          /\ Tail(Length(m) \o Bytes(p)) = Tagged("hi", <<m \div Base>>) \o Bytes(p)
      BY <1>3, LengthFirst
    <3>2. PICK v \in Nat : v = m % Base
      BY <1>3 DEF Octet
    <3>3. Head(mainOut) = [tag |-> "lo", val |-> v] /\ Tail(mainOut) = Tagged("hi", <<m \div Base>>) \o Bytes(p)
      BY <2>1, <3>1, <3>2
    <3>4. Byte = v
      BY <1>1, <3>3
    <3>5. mainOut' = Tagged("hi", <<m \div Base>>) \o Bytes(p)
      BY <1>1, <3>3, Zenon
    <3> QED
      BY <3>2, <3>4, <3>5
  <2> QED
    BY <1>1, <1>2, <1>5, <2>1, <2>2 DEF Answer, Reads
<1>6. CASE hpc = "hi"
  <2>1. mainOut = Tagged("hi", <<m \div Base>>) \o Bytes(p) /\ got = <<>> /\ status = s /\ cnt = m % Base
    BY <1>0, <1>2, <1>6 DEF Answer
  <2>2. Byte = m \div Base /\ mainOut' = Bytes(p)
    <3>1. /\ Head(Tagged("hi", <<m \div Base>>) \o Bytes(p)) = [tag |-> "hi", val |-> m \div Base]
          /\ Tail(Tagged("hi", <<m \div Base>>) \o Bytes(p)) = Bytes(p)
      BY <1>3, HiFirst
    <3>2. Head(mainOut) = [tag |-> "hi", val |-> m \div Base] /\ Tail(mainOut) = Bytes(p)
      BY <2>1, <3>1
    <3> QED
      BY <1>1, <3>2
  <2>3. cnt' = m /\ UNCHANGED <<status, got>>
        /\ hpc' = IF kind \in Streams THEN (IF status = OK THEN "flo" ELSE "idle")
                  ELSE IF m = 0 THEN "idle" ELSE "payload"
    BY <1>1, <1>3, <1>6, <2>1, <2>2 DEF Reads
  <2>4. m = 0 <=> p = <<>>
    BY <1>2, EmptyTail
  <2>5. CASE p = <<>>
    BY <1>0, <2>1, <2>2, <2>3, <2>4, <2>5, BytesEmpty DEF Answer
  <2>6. CASE p # <<>>
    <3>1. hpc' = "payload" /\ status' = s /\ got' = <<>> /\ cnt' = Len(p) /\ mainOut' = Bytes(p)
      BY <1>0, <1>2, <2>1, <2>2, <2>3, <2>4, <2>6
    <3>2. got' \o p = p
      BY <3>1, NoneLeft
    <3> QED
      BY <2>6, <3>1, <3>2 DEF Answer
  <2> QED
    BY <2>5, <2>6
<1>7. CASE hpc = "payload"
  <2>1. PICK rest \in Seq(Octet) : /\ rest # <<>> /\ got \o rest = p
                                   /\ mainOut = Bytes(rest) /\ cnt = Len(rest) /\ status = s
    BY <1>0, <1>7 DEF Answer
  <2>2. /\ rest[1] \in Octet /\ Tail(rest) \in Seq(Octet) /\ Len(Tail(rest)) = Len(rest) - 1
        /\ Head(Bytes(rest)) = [tag |-> "data", val |-> rest[1]]
        /\ Tail(Bytes(rest)) = Bytes(Tail(rest))
    BY <2>1, BytesType
  <2>3. Byte = rest[1] /\ mainOut' = Bytes(Tail(rest))
    BY <1>1, <2>1, <2>2
  <2>4. /\ cnt' = Len(Tail(rest)) /\ got' = Append(got, rest[1]) /\ UNCHANGED status
        /\ hpc' = IF cnt' = 0 THEN "idle" ELSE "payload"
    BY <1>1, <1>7, <2>1, <2>2, <2>3 DEF Reads
  <2>5. got \in Seq(Octet)
    BY DEF Typed, Types, HostTyped
  <2>6. got' \in Seq(Octet) /\ got' \o Tail(rest) = p
    BY <2>1, <2>4, <2>5, OneMore
  <2>7. Len(Tail(rest)) = 0 <=> Tail(rest) = <<>>
    BY <2>2, EmptyTail
  <2>8. CASE Tail(rest) = <<>>
    <3>1. got' = p
      BY <2>2, <2>6, <2>8, NoneLeft
    <3>2. hpc' = "idle" /\ mainOut' = <<>> /\ status' = s
      BY <2>1, <2>3, <2>4, <2>7, <2>8, BytesEmpty
    <3> QED
      BY <3>1, <3>2 DEF Answer
  <2>9. CASE Tail(rest) # <<>>
    <3>1. hpc' = "payload" /\ status' = s
      BY <2>1, <2>4, <2>7, <2>9
    <3> QED
      BY <2>2, <2>3, <2>4, <2>6, <2>9, <3>1 DEF Answer
  <2> QED
    BY <2>8, <2>9
<1> QED
  BY <1>0, <1>1, <1>4, <1>5, <1>6, <1>7 DEF Answer

\* So does each byte that opens a stream,
LEMMA ReadsHeader ==
  ASSUME Typed, kind \in Streams, HeaderLeft, cbOut = <<>>, HostStep
  PROVE  HeaderLeft' /\ UNCHANGED got
<1>1. Reads(Byte) /\ mainOut # <<>> /\ Byte = Head(mainOut).val /\ mainOut' = Tail(mainOut)
  BY HostReadsByte
<1>2. OK \in Octet /\ OK = 0
  BY DEF OK, Octet
<1>3. CASE hpc = "status"
  <2>1. Byte = OK /\ mainOut' = Length(0)
    BY <1>1, <1>2, <1>3, EmptyFirst DEF HeaderLeft
  <2> QED
    BY <1>1, <1>3, <2>1 DEF HeaderLeft, Reads
<1>4. CASE hpc = "lo"
  <2>1. Byte = 0 /\ mainOut' = Tagged("hi", <<0>>) /\ status = OK
    BY <1>1, <1>4, EmptyFirst DEF HeaderLeft
  <2> QED
    BY <1>1, <1>4, <2>1 DEF HeaderLeft, Reads
<1>5. CASE hpc = "hi"
  <2>1. mainOut' = <<>> /\ status = OK
    BY <1>1, <1>5, EmptyFirst DEF HeaderLeft
  <2> QED
    BY <1>1, <1>5, <2>1 DEF HeaderLeft, Reads
<1> QED
  BY <1>1, <1>3, <1>4, <1>5 DEF HeaderLeft

\* that ends one,
LEMMA ReadsEnd ==
  ASSUME Typed, EndLeft, cbOut = <<>>, HostStep
  PROVE  EndLeft' /\ UNCHANGED <<got, status>>
<1>1. Reads(Byte) /\ mainOut # <<>> /\ Byte = Head(mainOut).val /\ mainOut' = Tail(mainOut)
  BY HostReadsByte
<1>2. CASE hpc = "flo"
  <2>1. Byte = 0 /\ mainOut' = Tagged("hi", <<0>>)
    BY <1>1, <1>2, EmptyFirst DEF EndLeft, EOF
  <2> QED
    BY <1>1, <1>2, <2>1 DEF EndLeft, Reads
<1>3. CASE hpc = "fhi"
  <2>1. Byte = 0 /\ mainOut' = <<>> /\ cnt = 0
    BY <1>1, <1>3, EmptyFirst DEF EndLeft
  <2>2. cnt + Base * Byte = 0
    BY <2>1, BaseType
  <2> QED
    BY <1>1, <1>3, <2>1, <2>2 DEF EndLeft, Reads
<1> QED
  BY <1>1, <1>2, <1>3 DEF EndLeft

\* and each byte of a frame.
LEMMA ReadsFrame ==
  ASSUME Typed, InFrame, mainOut = <<>>, HostStep
  PROVE  InFrame' /\ UNCHANGED <<status, mainOut>>
<1>1. /\ Reads(Byte) /\ cbOut # <<>> /\ Byte = Head(cbOut).val /\ cbOut' = Tail(cbOut)
      /\ UNCHANGED mainOut /\ served' = served
  BY HostReadsByte DEF netVars, answerVars
<1>2. PICK p \in Seq(Octet) :
        /\ p # <<>> /\ Len(p) < Base * Base /\ got \o p = served
        /\ \/ hpc = "flo" /\ cbOut = Frame(p)
           \/ hpc = "fhi" /\ cnt = Len(p) % Base /\ cbOut = Tagged("hi", <<Len(p) \div Base>>) \o Bytes(p)
           \/ hpc = "fdata" /\ cnt = Len(p) /\ cbOut = Bytes(p)
  BY <1>1 DEF InFrame
<1>3. PICK m \in Nat : m = Len(p)
  OBVIOUS
<1>4. m < Base * Base /\ m % Base \in Octet /\ m \div Base \in Octet
      /\ (m % Base) + (Base * (m \div Base)) = m
  BY <1>2, <1>3, LengthBytes
<1>5. CASE hpc = "flo"
  <2>1. cbOut = Length(m) \o Bytes(p)
    BY <1>2, <1>3, <1>5 DEF Frame, Bytes
  <2>2. Byte = m % Base /\ cbOut' = Tagged("hi", <<m \div Base>>) \o Bytes(p)
    <3>1. /\ Head(Length(m) \o Bytes(p)) = [tag |-> "lo", val |-> m % Base]
          /\ Tail(Length(m) \o Bytes(p)) = Tagged("hi", <<m \div Base>>) \o Bytes(p)
      BY <1>4, LengthFirst
    <3>2. PICK v \in Nat : v = m % Base
      BY <1>4 DEF Octet
    <3>3. Head(cbOut) = [tag |-> "lo", val |-> v] /\ Tail(cbOut) = Tagged("hi", <<m \div Base>>) \o Bytes(p)
      BY <2>1, <3>1, <3>2
    <3>4. Byte = v
      BY <1>1, <3>3
    <3>5. cbOut' = Tagged("hi", <<m \div Base>>) \o Bytes(p)
      BY <1>1, <3>3, Zenon
    <3> QED
      BY <3>2, <3>4, <3>5
  <2>3. hpc' = "fhi" /\ cnt' = m % Base /\ UNCHANGED <<status, got>>
    BY <1>1, <1>5, <2>2 DEF Reads
  <2> QED
    BY <1>1, <1>2, <1>3, <2>2, <2>3 DEF InFrame
<1>6. CASE hpc = "fhi"
  <2>1. cbOut = Tagged("hi", <<m \div Base>>) \o Bytes(p) /\ cnt = m % Base
    BY <1>2, <1>3, <1>6
  <2>2. Byte = m \div Base /\ cbOut' = Bytes(p)
    <3>1. /\ Head(Tagged("hi", <<m \div Base>>) \o Bytes(p)) = [tag |-> "hi", val |-> m \div Base]
          /\ Tail(Tagged("hi", <<m \div Base>>) \o Bytes(p)) = Bytes(p)
      BY <1>4, HiFirst
    <3>2. Head(cbOut) = [tag |-> "hi", val |-> m \div Base] /\ Tail(cbOut) = Bytes(p)
      BY <2>1, <3>1
    <3> QED
      BY <1>1, <3>2
  <2>3. m # 0
    BY <1>2, <1>3, EmptyTail
  <2>4. hpc' = "fdata" /\ cnt' = m /\ UNCHANGED <<status, got>>
    BY <1>1, <1>4, <1>6, <2>1, <2>2, <2>3 DEF Reads
  <2> QED
    BY <1>1, <1>2, <1>3, <2>2, <2>4 DEF InFrame
<1>7. CASE hpc = "fdata"
  <2>1. cbOut = Bytes(p) /\ cnt = Len(p)
    BY <1>2, <1>7
  <2>2. /\ p[1] \in Octet /\ Tail(p) \in Seq(Octet) /\ Len(Tail(p)) = Len(p) - 1
        /\ Head(Bytes(p)) = [tag |-> "data", val |-> p[1]]
        /\ Tail(Bytes(p)) = Bytes(Tail(p))
    BY <1>2, BytesType
  <2>3. Byte = p[1] /\ cbOut' = Bytes(Tail(p))
    BY <1>1, <2>1, <2>2
  <2>4. /\ cnt' = Len(Tail(p)) /\ got' = Append(got, p[1]) /\ UNCHANGED status
        /\ hpc' = IF cnt' = 0 THEN "flo" ELSE "fdata"
    BY <1>1, <1>7, <2>1, <2>2, <2>3 DEF Reads
  <2>5. got \in Seq(Octet)
    BY DEF Typed, Types, HostTyped
  <2>6. got' \in Seq(Octet) /\ got' \o Tail(p) = served'
    BY <1>1, <1>2, <2>4, <2>5, OneMore
  <2>7. Len(Tail(p)) = 0 <=> Tail(p) = <<>>
    BY <2>2, EmptyTail
  <2>8. CASE Tail(p) = <<>>
    <3>1. got' = served'
      BY <2>2, <2>6, <2>8, NoneLeft
    <3>2. hpc' = "flo" /\ cbOut' = <<>>
      BY <2>3, <2>4, <2>7, <2>8, BytesEmpty
    <3> QED
      BY <1>1, <2>4, <3>1, <3>2 DEF InFrame
  <2>9. CASE Tail(p) # <<>>
    <3>1. hpc' = "fdata"
      BY <2>4, <2>7, <2>9
    <3>2. Len(Tail(p)) < Base * Base
      <4>1. PICK w \in Nat : w = Base * Base
        BY BaseType
      <4> QED
        BY <1>3, <1>4, <2>2, <4>1
    <3> QED
      BY <1>1, <2>2, <2>3, <2>4, <2>6, <2>9, <3>1, <3>2 DEF InFrame
  <2> QED
    BY <2>8, <2>9
<1> QED
  BY <1>2, <1>5, <1>6, <1>7
-----------------------------------------------------------------------------
(****************************************************************************)
(* Streams are in order.                                                    *)
(****************************************************************************)
\* A server answers something.
LEMMA AnswerNotEmpty ==
  ASSUME Typed, kind # "none"
  PROVE  Len(answer) \in Nat /\ Len(answer) > 0 /\ kind \in Kinds /\ answer \in Answers[kind]
<1>1. kind \in Kinds /\ answer \in Answers[kind]
  BY DEF Typed, Types, Placed, NetTyped
<1> QED
  BY <1>1, AnswersType

\* The flags one by one.
LEMMA ReqFields ==
  ASSUME Typed
  PROVE  /\ \A b \in BOOLEAN :
              /\ [req EXCEPT !.dns_done = b].complete = req.complete
              /\ [req EXCEPT !.dns_done = b].connected = req.connected
              /\ [req EXCEPT !.dns_done = b].error = req.error
              /\ [req EXCEPT !.dns_done = b].dns_done = b
              /\ [req EXCEPT !.error = b].complete = req.complete
              /\ [req EXCEPT !.error = b].connected = req.connected
              /\ [req EXCEPT !.error = b].dns_done = req.dns_done
              /\ [req EXCEPT !.error = b].error = b
         /\ [req EXCEPT !.dns_done = TRUE, !.error = TRUE].complete = req.complete
         /\ [req EXCEPT !.dns_done = TRUE, !.error = TRUE].connected = req.connected
         /\ [req EXCEPT !.dns_done = TRUE, !.error = TRUE].error = TRUE
         /\ [req EXCEPT !.connected = TRUE].complete = req.complete
         /\ [req EXCEPT !.connected = TRUE].connected = TRUE
         /\ [req EXCEPT !.connected = TRUE].error = req.error
         /\ [req EXCEPT !.complete = TRUE].complete = TRUE
         /\ [req EXCEPT !.complete = TRUE].connected = req.connected
         /\ [req EXCEPT !.complete = TRUE].error = req.error
         /\ Failed.complete = TRUE
         /\ kind \in Streams => Failed.connected = TRUE /\ Failed.error = req.error
         /\ kind \notin Streams => Failed.connected = req.connected /\ Failed.error = TRUE
BY DEF Typed, Types, WorkTyped, Flags, Failed

\* A stream starts in order,
LEMMA StartKeepsOrder ==
  ASSUME Typed, NEW k \in Kinds, Start(k)
  PROVE  Order'
BY DEF Start, Order, Fresh, Streams, Linked

\* the 65C02 does not disturb it,
LEMMA HostKeepsOrder ==
  ASSUME Order, HostStep
  PROVE  Order'
BY HostReadsByte DEF Order, netVars, answerVars

\* A stream that stays on the rails starts with the flag "connected": it has a
\* connection, which may have failed since.
LEMMA ConnectedBeforeHeader ==
  ASSUME Held, ~derailed', kind \in Streams, ConnectWaitEnds
  PROVE  req.connected /\ pc' = "header"
<1>1. req.connected
  BY DEF ConnectWaitEnds, Derails
<1> QED
  BY <1>1 DEF ConnectWaitEnds, Streams

\* the handler keeps it,
LEMMA HandlerKeepsOrder ==
  ASSUME Held, Lookups, Order, Handler, ~derailed'
  PROVE  Order'
<1> SUFFICES ASSUME kind' \in Streams PROVE Order'
  BY DEF Order
<1>0. kind \in Streams /\ kind' = kind /\ UNCHANGED <<answer, pos, silent>>
  BY DEF Handler, At, OpenLocal, Lookup, DnsWaitEnds, Unresolved, Resolved, Connect, ConnectWaitEnds,
     Header, Ask, ReadChunk, SendChunk, BodyDone, TransferEnds, FinishStream, StreamEnded, Finish,
     ReplyResult, Replied, answerVars
<1>1. Typed /\ Placed /\ Stages
  BY DEF Held, Typed
<1>2. pc \notin {"open", "body", "chunk", "reply"} /\ kind \notin {"get", "post", "time"}
  BY <1>0, <1>1 DEF Placed, Streams
<1>3. CASE Lookup
  <2>1. req'.complete = req.complete /\ req'.connected = req.connected
    BY <1>1, <1>3, ReqFields DEF Lookup
  <2>2. pc = "lookup" /\ pc' \in {"resolved", "dns"} /\ UNCHANGED <<pcb, asked>>
    BY <1>3 DEF Lookup, At
  <2>3. pc' = "resolved" => ~req'.error
    BY <1>3, <2>2 DEF Lookup, Lookups
  <2> QED
    BY <1>0, <2>1, <2>2, <2>3 DEF Order, Linked, Unasked, Outset
<1>4. CASE DnsWaitEnds \/ Unresolved \/ Resolved \/ Replied
  <2>1. /\ pc \in {"dns", "unresolved", "resolved", "sending"} /\ UNCHANGED <<req, pcb, asked>>
        /\ pc' \in {"resolved", "unresolved", "connect", "sending", "idle"}
    BY <1>4 DEF DnsWaitEnds, Unresolved, Resolved, Replied, At, Reply
  <2>2. pc' \in {"resolved", "connect"} => ~req.error
    BY <1>0, <1>4 DEF DnsWaitEnds, Unresolved, Resolved, Replied, At, Reply, Order
  <2>3. pc = "sending" => pc' = "idle"
    BY <1>4 DEF DnsWaitEnds, Unresolved, Resolved, Replied, At
  <2>4. pc' \in Unasked => pc \in Unasked
    BY <2>1, <2>3 DEF Unasked, Outset
  <2> QED
    BY <1>0, <2>1, <2>2, <2>4 DEF Order, Linked
<1>5. CASE Connect
  <2>1. pc = "connect" /\ pcb = "none" /\ pcb' = "connecting" /\ pc' = "connecting"
        /\ UNCHANGED <<req, asked>> /\ pos = 0
    BY <1>1, <1>2, <1>5 DEF Connect, At, Stages, Outset
  <2> QED
    BY <1>0, <2>1 DEF Order, Linked
<1>6. CASE ConnectWaitEnds
  <2>1. /\ pc = "connecting" /\ pc' = "header" /\ req.connected /\ UNCHANGED <<req, asked, pcb>>
        /\ pc \in Unasked
    BY <1>0, <1>6, ConnectedBeforeHeader DEF ConnectWaitEnds, At, Unasked
  <2>2. pcb \in {"open", "freed"}
    BY <1>0, <1>1, <2>1 DEF Order, Typed, Types, NetTyped, Stages
  <2> QED
    BY <1>0, <2>1, <2>2 DEF Order, Linked
<1>7. CASE Header \/ Ask
  <2>1. /\ pc \in {"header", "ask"} /\ pc' \in {"ask", "transfer"} /\ UNCHANGED <<req, pcb>>
        /\ pos = 0
    BY <1>0, <1>1, <1>7 DEF Header, Ask, At, Order, Unasked
  <2> QED
    BY <1>0, <2>1 DEF Order, Linked
<1>8. CASE TransferEnds
  <2>1. /\ pc = "transfer" /\ pc' = "finish" /\ UNCHANGED <<req, pcb, asked>>
        /\ req.complete \/ silent \/ req.error
    BY <1>8 DEF TransferEnds, At
  <2>2. ~req.error /\ pcb \in {"open", "freed"}
    BY <1>0, <2>1 DEF Order, Linked
  <2> QED
    BY <1>0, <2>1, <2>2 DEF Order, Linked, Unasked, Outset
<1>9. CASE FinishStream
  <2>1. pc = "finish" /\ pc' = "ending" /\ UNCHANGED <<req, pcb, asked>>
    BY <1>9 DEF FinishStream, At
  <2> QED
    BY <1>0, <2>1 DEF Order, Linked, Unasked, Outset
<1>10. CASE StreamEnded
  <2>1. pc = "ending" /\ pc' = "idle" /\ pcb' \in {"closed", "freed"} /\ UNCHANGED req
    BY <1>10 DEF StreamEnded, At, Close
  <2> QED
    BY <1>0, <2>1 DEF Order, Linked, Unasked, Outset
<1> QED
  BY <1>0, <1>2, <1>3, <1>4, <1>5, <1>6, <1>7, <1>8, <1>9, <1>10 DEF Handler, At, OpenLocal, ReadChunk,
     SendChunk, BodyDone, Finish, ReplyResult

\* The data of a stream that stays on the rails arrive where its handler can
\* have them, and no frame of theirs is the one that ends it.
LEMMA StreamsArriveInTransfer ==
  ASSUME Held, DataToBus, ~derailed'
  PROVE  kind \in Streams /\ pc \in {"transfer", "finish"} /\ cbOut' # EOF /\ pcb = "open"
         /\ pos # Len(answer)
<1>1. PICK n : Arrives(n) /\ Derails(pc \notin {"transfer", "finish"} \/ cbOut' = EOF)
  BY DEF DataToBus
<1>2. pos \in Nat /\ Len(answer) \in Nat /\ pos < Len(answer) /\ pcb = "open"
  BY <1>1, ArrivesType, AnswerNotEmpty DEF Arrives, Held, Typed, Types, NetTyped
<1>3. pos # Len(answer)
  BY <1>2
<1>4. pc \in {"transfer", "finish"} /\ cbOut' # EOF
  BY <1>1 DEF Derails
<1> QED
  BY <1>2, <1>3, <1>4 DEF DataToBus

\* and so do the callbacks.
LEMMA NetworkKeepsOrder ==
  ASSUME Held, Lookups, Order, Outside, ~derailed'
  PROVE  Order'
<1> SUFFICES ASSUME kind' \in Streams PROVE Order'
  BY DEF Order
<1>0. Typed /\ Stages /\ kind' = kind /\ UNCHANGED <<pc, answer, asked>>
  BY OutsideMovesNoHandler DEF Held
<1>1. CASE DnsFound
  <2>1. /\ pc \in {"dns", "unresolved", "sending", "idle"} /\ UNCHANGED <<pcb, pos, silent>>
    BY <1>1 DEF DnsFound, answerVars, Lookups
  <2>2. req'.complete = req.complete /\ req'.connected = req.connected
    BY <1>0, <1>1, ReqFields DEF DnsFound
  <2> QED
    BY <1>0, <2>1, <2>2 DEF Order, Linked
<1>2. CASE Connected
  <2>1. pcb = "connecting" /\ pcb' = "open" /\ UNCHANGED <<pos, silent>>
    BY <1>2 DEF Connected, answerVars
  <2>2. req'.complete = req.complete /\ req'.connected /\ req'.error = req.error
    BY <1>0, <1>2, ReqFields DEF Connected
  <2> QED
    BY <1>0, <2>1, <2>2 DEF Order, Linked
<1>3. CASE GivenUp \/ Broken
  <2>1. pcb' = "freed" /\ UNCHANGED <<pos, silent>> /\ req' = Failed
    BY <1>3 DEF GivenUp, Broken, ErrCallback, answerVars
  <2>2. req'.complete /\ req'.connected /\ req'.error = req.error
    BY <1>0, <2>1, ReqFields
  <2> QED
    BY <1>0, <2>1, <2>2 DEF Order, Linked
<1>4. CASE Closes
  <2>1. pcb = "open" /\ pos = Len(answer) /\ UNCHANGED <<pos, silent, pcb>>
    BY <1>4 DEF Closes, answerVars
  <2>2. req'.complete /\ req'.connected = req.connected /\ req'.error = req.error
    BY <1>0, <1>4, ReqFields DEF Closes
  <2> QED
    BY <1>0, <2>1, <2>2 DEF Order, Linked
<1>5. CASE DataToBus
  <2>1. pc \in {"transfer", "finish"} /\ pcb = "open" /\ pos # Len(answer)
    BY <1>5, StreamsArriveInTransfer
  <2>2. UNCHANGED <<req, pcb, silent>>
    BY <1>0, <1>5, DataMoves DEF DataToBus
  <2>3. ~req.complete /\ pc \notin Unasked
    BY <1>0, <2>1 DEF Order, Unasked, Outset
  <2> QED
    BY <1>0, <2>1, <2>2, <2>3 DEF Order, Linked
<1>6. CASE FallsSilent
  <2>1. silent' = TRUE /\ UNCHANGED <<pos, req, pcb>>
    BY <1>6 DEF FallsSilent, answerVars
  <2> QED
    BY <1>0, <2>1 DEF Order, Linked
<1>7. CASE Forgotten
  <2>1. pcb = "closed" /\ pcb' = "freed" /\ UNCHANGED <<pos, silent, req>>
    BY <1>7 DEF Forgotten, answerVars
  <2> QED
    BY <1>0, <2>1 DEF Order, Linked
<1> QED
  BY <1>0, <1>1, <1>2, <1>3, <1>4, <1>5, <1>6, <1>7 DEF Outside, Network, DataToFile, DataToMemory, TimeArrives, Streams

\* No step of a stream is out of order.
LEMMA NextKeepsOrder ==
  ASSUME Held, Lookups, Order, [Next]_vars, ~derailed'
  PROVE  Order'
<1>0. ~Strays
  BY OnTrackBefore
<1>1. CASE UNCHANGED vars
  BY <1>1 DEF Order, vars, netVars, answerVars
<1> QED
  BY <1>0, <1>1, StartKeepsOrder, HostKeepsOrder, HandlerKeepsOrder, NetworkKeepsOrder
     DEF Next, Outside, Held
-----------------------------------------------------------------------------
(****************************************************************************)
(* The bus.                                                                 *)
(****************************************************************************)
\* What opens or ends a stream is not empty.
LEMMA NonEmptyQueues ==
  /\ \A s \in Octet : \A p \in Seq(Octet) : Len(p) < Base * Base =>
        /\ Response(s, p) # <<>> /\ Length(Len(p)) \o Bytes(p) # <<>> /\ Frame(p) # <<>>
        /\ Tagged("hi", <<Len(p) \div Base>>) \o Bytes(p) # <<>>
        /\ p # <<>> => Bytes(p) # <<>>
<1> SUFFICES ASSUME NEW s \in Octet, NEW p \in Seq(Octet), Len(p) < Base * Base
             PROVE  /\ Response(s, p) # <<>> /\ Length(Len(p)) \o Bytes(p) # <<>> /\ Frame(p) # <<>>
                    /\ Tagged("hi", <<Len(p) \div Base>>) \o Bytes(p) # <<>>
                    /\ p # <<>> => Bytes(p) # <<>>
  OBVIOUS
<1>1. Len(p) \in Nat
  OBVIOUS
<1>2. Len(p) \div Base \in Octet
  BY <1>1, LengthBytes
<1>3. Response(s, p) # <<>>
  BY StatusFirst
<1>4. Length(Len(p)) \o Bytes(p) # <<>>
  BY <1>1, LengthFirst
<1>5. Tagged("hi", <<Len(p) \div Base>>) \o Bytes(p) # <<>>
  BY <1>2, HiFirst
<1>6. p # <<>> => Bytes(p) # <<>>
  BY BytesType
<1>7. Frame(p) = Length(Len(p)) \o Bytes(p)
  BY DEF Frame, Bytes
<1> QED
  BY <1>3, <1>4, <1>5, <1>6, <1>7

\* When nothing of an answer is left the 65C02 has it,
LEMMA AnswerRead ==
  ASSUME NEW s \in Octet, NEW p \in Seq(Octet), AnswerFits(s, p), mainOut = <<>>
  PROVE  hpc = "idle" /\ status = s /\ got = p
<1>1. Len(p) < Base * Base /\ Answer(s, p)
  BY DEF AnswerFits
<1>2. ~(\E rest \in Seq(Octet) : rest # <<>> /\ mainOut = Bytes(rest))
  BY BytesType
<1> QED
  BY <1>1, <1>2, NonEmptyQueues DEF Answer

\* when nothing of the header is left it waits for a frame,
LEMMA HeaderRead ==
  ASSUME HeaderLeft, mainOut = <<>>
  PROVE  hpc = "flo" /\ status = OK
<1>1. OK \in Octet
  BY DEF OK, Octet
<1> QED
  BY <1>1, EmptyFirst DEF HeaderLeft

\* when nothing of the last frame is left it is done,
LEMMA EndRead ==
  ASSUME EndLeft, mainOut = <<>>
  PROVE  hpc = "idle"
BY EmptyFirst DEF EndLeft, EOF

\* and when no callback writes it is between two frames.
LEMMA FrameRead ==
  ASSUME InFrame, cbOut = <<>>
  PROVE  hpc = "flo" /\ got = served
<1>1. 0 \in Octet
  BY DEF Octet
<1>2. ASSUME NEW p \in Seq(Octet), p # <<>>, Len(p) < Base * Base
      PROVE  ~(\/ hpc = "flo" /\ cbOut = Frame(p)
               \/ hpc = "fhi" /\ cnt = Len(p) % Base /\ cbOut = Tagged("hi", <<Len(p) \div Base>>) \o Bytes(p)
               \/ hpc = "fdata" /\ cnt = Len(p) /\ cbOut = Bytes(p))
  BY <1>1, <1>2, NonEmptyQueues
<1> QED
  BY <1>2 DEF InFrame

\* An answer that is written is one that none has read,
LEMMA ReplyFits ==
  ASSUME NEW s \in Octet, NEW p \in Seq(Octet), Len(p) < Base * Base,
         kind \in Streams => s # OK /\ p = <<>>, kind' = kind,
         hpc' = "status", got' = <<>>, mainOut' = Response(s, p)
  PROVE  AnswerFits(s, p)'
BY DEF AnswerFits, Answer

\* without a payload, too.
LEMMA EmptyReplyFits ==
  ASSUME NEW s \in Octet, s = OK => kind \notin Streams, kind' = kind,
         hpc' = "status", got' = <<>>, Reply(s, <<>>), cbOut = <<>>
  PROVE  AnswerFits(s, <<>>)' /\ pc' = "sending" /\ cbOut' = <<>> /\ <<>> \in Seq(Octet)
<1>1. <<>> \in Seq(Octet) /\ Len(<<>>) = 0 /\ 0 < Base * Base
  BY BaseType
<1> QED
  BY <1>1, ReplyFits DEF Reply

\* What of the bus an answer must show.
LEMMA BusOfReply ==
  ASSUME pc' = "sending", cbOut' = <<>>, NEW s \in Octet, NEW p \in Seq(Octet), AnswerFits(s, p)'
  PROVE  Bus'
BY DEF Bus, Quiet, Outset

\* A command starts on an empty bus.
LEMMA StartKeepsBus ==
  ASSUME Bus, NEW k \in Kinds, Start(k)
  PROVE  Bus'
<1>1. mainOut' = <<>> /\ cbOut' = <<>> /\ hpc' = "status" /\ got' = <<>>
  BY DEF Start, Bus, busVars
<1>2. pc' \in {"open", "connect", "lookup"}
  BY DEF Start
<1> QED
  BY <1>1, <1>2 DEF Bus, Quiet, Outset

\* The 65C02 takes each byte for what it is.
LEMMA HostKeepsBus ==
  ASSUME Held, Bus, HostStep
  PROVE  Bus'
<1>1. /\ UNCHANGED <<kind, pc, served>> /\ Reads(Byte) /\ hpc # "idle"
      /\ cbOut' # <<>> => cbOut # <<>>
      /\ cbOut # <<>> \/ mainOut # <<>>
  BY HostReadsByte DEF netVars, answerVars, Reads
<1>2. Typed /\ Placed /\ (cbOut # <<>> => kind \in Streams /\ pc \in {"transfer", "finish"})
  BY DEF Held, Typed, Bus
<1>3. CASE pc \in Quiet \/ (kind \notin Streams /\ pc \in {"ask", "transfer", "finish", "reply"})
  BY <1>1, <1>2, <1>3 DEF Bus, Quiet, Outset
<1>4. CASE pc = "sending"
  <2>1. PICK s \in Octet, p \in Seq(Octet) : AnswerFits(s, p)
    BY <1>4 DEF Bus
  <2>2. AnswerFits(s, p)'
    BY <1>2, <1>4, <2>1, ReadsAnswer
  <2>3. cbOut' = <<>> /\ pc' = "sending"
    BY <1>1, <1>2, <1>4
  <2> QED
    BY <2>2, <2>3, BusOfReply
<1>5. CASE pc = "ask" /\ kind \in Streams
  <2>1. HeaderLeft' /\ got' = <<>> /\ cbOut' = <<>>
    BY <1>1, <1>2, <1>5, ReadsHeader DEF Bus
  <2> QED
    BY <1>1, <1>5, <2>1 DEF Bus, Quiet, Outset
<1>6. CASE kind \in Streams /\ pc \in {"transfer", "finish"}
  <2>1. InFrame' /\ status' = OK /\ mainOut' = <<>>
    BY <1>2, <1>6, ReadsFrame DEF Bus
  <2> QED
    BY <1>1, <1>2, <1>6, <2>1 DEF Bus, Quiet, Outset
<1>7. CASE pc = "ending"
  <2>1. EndLeft' /\ status' = OK /\ got' = served' /\ cbOut' = <<>>
    BY <1>1, <1>2, <1>7, ReadsEnd DEF Bus
  <2> QED
    BY <1>1, <1>7, <2>1 DEF Bus, Quiet, Outset
<1>8. CASE pc = "idle"
  BY <1>1, <1>8 DEF Bus
<1>9. pc = "reply" => kind \notin Streams
  BY <1>2 DEF Placed
<1> QED
  BY <1>2, <1>3, <1>4, <1>5, <1>6, <1>7, <1>8, <1>9 DEF Typed, Types, WorkTyped, Quiet, Outset
\* A handler that goes on without writing leaves the bus empty.
LEMMA StaysQuiet ==
  ASSUME Held, Bus, NEW at, At(at), UNCHANGED busVars,
         at \in Quiet \/ (kind \notin Streams /\ at \in {"ask", "transfer", "finish", "reply"}),
         pc' \in Quiet \/ (kind \notin Streams /\ pc' \in {"ask", "transfer", "finish", "reply"})
  PROVE  Bus'
<1>1. hpc = "status" /\ mainOut = <<>> /\ got = <<>> /\ cbOut = <<>> /\ pc = at
  BY DEF Bus, At
<1>2. hpc' = "status" /\ mainOut' = <<>> /\ got' = <<>> /\ cbOut' = <<>> /\ kind' = kind
  BY <1>1 DEF At, hostVars, busVars
<1> QED
  BY <1>2 DEF Bus, Quiet, Outset

\* A handler that answers from a quiet place fills it with its answer.
LEMMA RepliesQuietly ==
  ASSUME Held, Bus, NEW at, At(at), NEW s \in Octet, Reply(s, <<>>),
         at \in Quiet \/ (kind \notin Streams /\ at \in {"ask", "transfer", "finish", "reply"}),
         s = OK => kind \notin Streams
  PROVE  Bus'
<1>1. hpc = "status" /\ mainOut = <<>> /\ got = <<>> /\ cbOut = <<>> /\ pc = at
  BY DEF Bus, At
<1>2. hpc' = "status" /\ got' = <<>> /\ kind' = kind
  BY <1>1 DEF At, hostVars
<1>3. AnswerFits(s, <<>>)' /\ pc' = "sending" /\ cbOut' = <<>> /\ <<>> \in Seq(Octet)
  BY <1>1, <1>2, EmptyReplyFits
<1> QED
  BY <1>3, BusOfReply

\* Until the connection is asked for the bus is quiet or carries a refusal,
LEMMA SeekingKeepsBus ==
  ASSUME Held, Bus, OpenLocal \/ Lookup \/ DnsWaitEnds \/ Unresolved \/ Resolved \/ Connect
  PROVE  Bus'
<1>1. ERR \in Octet /\ NO_FILE \in Octet /\ ERR # OK /\ NO_FILE # OK
  BY DEF OK, ERR, NO_FILE, Octet
<1>2. CASE Reply(ERR, <<>>) \/ Reply(NO_FILE, <<>>)
  <2>1. PICK at \in Quiet : At(at)
    BY DEF OpenLocal, Lookup, DnsWaitEnds, Unresolved, Resolved, Connect, Quiet, Outset
  <2> QED
    BY <1>1, <1>2, <2>1, RepliesQuietly
<1>3. CASE ~Reply(ERR, <<>>) /\ ~Reply(NO_FILE, <<>>)
  <2>1. PICK at \in Quiet : At(at)
    BY DEF OpenLocal, Lookup, DnsWaitEnds, Unresolved, Resolved, Connect, Quiet, Outset
  <2>2. UNCHANGED busVars /\ (pc' \in Quiet \/ (kind = "time" /\ pc' = "transfer"))
    BY <1>3 DEF OpenLocal, Lookup, DnsWaitEnds, Unresolved, Resolved, Connect, Quiet, Outset
  <2>3. kind = "time" => kind \notin Streams
    BY DEF Streams
  <2> QED
    BY <2>1, <2>2, <2>3, StaysQuiet
<1> QED
  BY <1>2, <1>3

\* then it opens the stream,
LEMMA AskingKeepsBus ==
  ASSUME Held, Order, Bus, ConnectWaitEnds \/ Header \/ Ask, ~derailed'
  PROVE  Bus'
<1>1. CASE ConnectWaitEnds
  <2>1. At("connecting") /\ UNCHANGED busVars /\ "connecting" \in Quiet
    BY <1>1 DEF ConnectWaitEnds, Quiet
  <2>2. kind \in Streams => pc' = "header"
    BY <1>1, ConnectedBeforeHeader
  <2>3. kind \notin Streams => pc' \in {"finish", "body", "ask"}
    BY <1>1 DEF ConnectWaitEnds
  <2> QED
    BY <2>1, <2>2, <2>3, StaysQuiet DEF Quiet
<1>2. CASE Header
  <2>1. /\ pc = "header" /\ hpc = "status" /\ got = <<>> /\ cbOut = <<>> /\ pc' = "ask"
        /\ mainOut' = Response(OK, <<>>) /\ UNCHANGED <<hpc, got, kind, cbOut>>
    BY <1>2 DEF Header, At, Bus, Quiet, hostVars
  <2>2. kind \in Streams
    BY <2>1 DEF Held, Typed, Placed
  <2>3. HeaderLeft'
    BY <2>1 DEF HeaderLeft
  <2> QED
    BY <2>1, <2>2, <2>3 DEF Bus, Quiet, Outset
<1>3. CASE Ask
  <2>1. /\ pc = "ask" /\ mainOut = <<>> /\ cbOut = <<>> /\ pc' = "transfer"
        /\ UNCHANGED <<kind, hpc, cnt, status, got, mainOut, cbOut, served>>
    BY <1>3 DEF Ask, At, hostVars, busVars, answerVars
  <2>2. CASE kind \notin Streams
    BY <1>3, <2>2, StaysQuiet DEF Ask
  <2>3. CASE kind \in Streams
    <3>1. hpc = "flo" /\ status = OK /\ got = <<>>
      BY <2>1, <2>3, HeaderRead DEF Bus
    <3>2. served = <<>>
      <4>1. pos = 0
        BY <2>1, <2>3 DEF Order, Unasked
      <4> QED
        BY <4>1 DEF Held, Stages
    <3>3. InFrame'
      BY <2>1, <3>1, <3>2 DEF InFrame
    <3> QED
      BY <2>1, <2>3, <3>1, <3>3 DEF Bus, Quiet, Outset
  <2> QED
    BY <2>2, <2>3
<1> QED
  BY <1>1, <1>2, <1>3

\* is quiet while POST sends its file,
LEMMA SendingKeepsBus ==
  ASSUME Held, Bus, ReadChunk \/ SendChunk \/ BodyDone
  PROVE  Bus'
<1>1. PICK at \in {"body", "chunk"} : At(at)
  BY DEF ReadChunk, SendChunk, BodyDone
<1>2. kind \notin Streams
  BY <1>1 DEF At, Held, Typed, Placed, Streams
<1>3. UNCHANGED busVars /\ pc' \in {"body", "chunk", "transfer"}
  BY DEF ReadChunk, SendChunk, BodyDone
<1> QED
  BY <1>1, <1>2, <1>3, StaysQuiet DEF Quiet

\* What the result of a command is.
LEMMA ReplyPayload ==
  ASSUME Held, ReplyResult
  PROVE  \/ (req.error \/ ~req.complete) /\ Reply(ERR, <<>>)
         \/ ~req.error /\ req.complete /\ kind \notin {"download", "time"} /\ Reply(OK, <<>>)
         \/ /\ ~req.error /\ req.complete /\ kind \in {"download", "time"}
            /\ \E p \in Seq(Octet) :
                 /\ Len(p) < Base * Base /\ Reply(OK, p)
                 /\ kind = "time" => p = served
                 /\ kind = "download" => p = [i \in 1..AtMost(received, PayloadMax) |-> http_buf[i]]
<1>0. Typed /\ WorkTyped /\ NetTyped
  BY DEF Held, Typed, Types
<1>1. CASE req.error \/ ~req.complete
  BY <1>1 DEF ReplyResult
<1>2. CASE ~req.error /\ req.complete /\ kind \notin {"download", "time"}
  BY <1>2 DEF ReplyResult
<1>3. CASE ~req.error /\ req.complete /\ kind = "download"
  <2>1. PICK n \in Nat : n = AtMost(received, PayloadMax) /\ n <= BufSize /\ n <= PayloadMax
    BY <1>0, BaseType DEF WorkTyped, AtMost
  <2>2. [i \in 1..n |-> http_buf[i]] \in Seq(Octet) /\ Len([i \in 1..n |-> http_buf[i]]) = n
    BY <1>0, <2>1, BufferIsSeq DEF WorkTyped
  <2>3. n < Base * Base
    <3>1. PICK c \in Nat : c = Base * Base
      BY BaseType
    <3> QED
      BY <2>1, <3>1, BaseType
  <2>4. Reply(OK, [i \in 1..n |-> http_buf[i]])
    BY <1>3, <2>1 DEF ReplyResult
  <2> QED
    BY <1>3, <2>1, <2>2, <2>3, <2>4
<1>4. CASE ~req.error /\ req.complete /\ kind = "time"
  <2>1. Len(served) < Base * Base /\ served \in Seq(Octet)
    BY <1>0, <1>4, ServedLength DEF NetTyped
  <2>2. Reply(OK, served)
    BY <1>4 DEF ReplyResult
  <2> QED
    BY <1>4, <2>1, <2>2
<1> QED
  BY <1>1, <1>2, <1>3, <1>4

\* and carries the result or the end of the stream.
LEMMA FinishingKeepsBus ==
  ASSUME Held, Bus, TransferEnds \/ FinishStream \/ StreamEnded \/ Finish \/ ReplyResult \/ Replied
  PROVE  Bus'
<1>1. CASE TransferEnds
  <2>1. /\ At("transfer") /\ pc' = "finish" /\ UNCHANGED busVars
        /\ UNCHANGED <<kind, hpc, cnt, status, got, mainOut, cbOut, served>>
        /\ pc = "transfer" /\ cbOut = <<>>
    BY <1>1 DEF TransferEnds, At, hostVars, busVars, answerVars
  <2>2. CASE kind \in Streams
    <3>1. InFrame'
      BY <2>1, <2>2 DEF Bus, InFrame
    <3> QED
      BY <2>1, <2>2, <3>1 DEF Bus, Quiet, Outset
  <2> QED
    BY <2>1, <2>2, StaysQuiet
<1>2. CASE FinishStream
  <2>1. /\ pc = "finish" /\ cbOut = <<>> /\ pc' = "ending" /\ mainOut' = EOF
        /\ UNCHANGED <<kind, hpc, cnt, status, got, cbOut, served>> /\ kind \in Streams
    BY <1>2 DEF FinishStream, At, hostVars, answerVars
  <2>2. hpc = "flo" /\ got = served /\ status = OK
    BY <2>1, FrameRead DEF Bus
  <2>3. EndLeft'
    BY <2>1, <2>2 DEF EndLeft
  <2> QED
    BY <2>1, <2>2, <2>3 DEF Bus, Quiet, Outset
<1>3. CASE StreamEnded
  <2>1. /\ pc = "ending" /\ mainOut = <<>> /\ cbOut = <<>> /\ pc' = "idle"
        /\ UNCHANGED <<hpc, mainOut, cbOut, kind>>
    BY <1>3 DEF StreamEnded, At, hostVars, busVars
  <2>2. hpc = "idle"
    BY <2>1, EndRead DEF Bus
  <2> QED
    BY <2>1, <2>2 DEF Bus, Quiet, Outset
<1>4. CASE Finish
  BY <1>4, StaysQuiet DEF Finish
<1>5. CASE ReplyResult
  <2>1. kind \notin Streams /\ pc = "reply" /\ OK \in Octet /\ ERR \in Octet
    BY <1>5 DEF ReplyResult, At, Held, Typed, Placed, OK, ERR, Octet
  <2>2. CASE Reply(ERR, <<>>) \/ Reply(OK, <<>>)
    BY <1>5, <2>1, <2>2, RepliesQuietly DEF ReplyResult
  <2>3. ASSUME NEW p \in Seq(Octet), Len(p) < Base * Base, Reply(OK, p)
        PROVE  Bus'
    <3>1. hpc' = "status" /\ got' = <<>> /\ cbOut' = <<>> /\ kind' = kind
      BY <1>5, <2>1, <2>3 DEF ReplyResult, At, Bus, hostVars, Reply
    <3>2. AnswerFits(OK, p)' /\ pc' = "sending"
      BY <2>1, <2>3, <3>1, ReplyFits DEF Reply
    <3> QED
      BY <2>1, <2>3, <3>1, <3>2, BusOfReply
  <2>4. \/ Reply(ERR, <<>>) \/ Reply(OK, <<>>)
        \/ \E p \in Seq(Octet) : Len(p) < Base * Base /\ Reply(OK, p)
    BY <1>5, ReplyPayload
  <2> QED
    BY <2>2, <2>3, <2>4
<1>6. CASE Replied
  <2>1. /\ pc = "sending" /\ mainOut = <<>> /\ cbOut = <<>> /\ pc' = "idle"
        /\ UNCHANGED <<hpc, mainOut, cbOut, kind>>
    BY <1>6 DEF Replied, At, hostVars, busVars
  <2>2. hpc = "idle"
    BY <2>1, AnswerRead DEF Bus
  <2> QED
    BY <2>1, <2>2 DEF Bus, Quiet, Outset
<1> QED
  BY <1>1, <1>2, <1>3, <1>4, <1>5, <1>6

\* A callback that writes nothing leaves the bus alone.
LEMMA NothingOnTheBus ==
  ASSUME Bus, UNCHANGED <<cbOut, mainOut, hpc, cnt, status, got, kind, pc, served>>
  PROVE  Bus'
BY DEF Bus, AnswerFits, Answer, HeaderLeft, InFrame, EndLeft

\* A frame that holds nothing ends a stream.
LEMMA FrameOfNothing == Frame(<<>>) = EOF
<1>1. Length(0) \in Seq(BusByte)
  BY BaseType, FramesType, LengthType
<1> HIDE DEF BusByte
<1>2. Length(0) \o <<>> = Length(0)
  BY <1>1
<1>3. Len(<<>>) = 0 /\ Tagged("data", <<>>) = <<>>
  BY BytesEmpty DEF Bytes
<1> QED
  BY <1>2, <1>3 DEF Frame, EOF

\* A frame starts where the 65C02 waits for one.
LEMMA DataToBusKeepsBus ==
  ASSUME Held, Bus, DataToBus, ~derailed'
  PROVE  Bus'
<1>1. /\ kind \in Streams /\ pc \in {"transfer", "finish"} /\ cbOut' # EOF
      /\ UNCHANGED <<kind, pc, hpc, cnt, status, got, mainOut>> /\ cbOut = <<>>
  BY StreamsArriveInTransfer DEF DataToBus, Arrives, Callback, hostVars
<1>2. hpc = "flo" /\ got = served /\ status = OK /\ mainOut = <<>>
  BY <1>1, FrameRead DEF Bus
<1>3. PICK n : /\ Arrives(n)
               /\ cbOut' = IF (kind = "news" /\ pos > 0) \/ Payload(n) # <<>>
                           THEN Frame(Payload(n)) ELSE <<>>
  BY DEF DataToBus
<1>4. PICK p \in Seq(Octet) : p = Payload(n) /\ Len(p) < Base * Base /\ served' = served \o p
  BY <1>3, ArrivesType DEF Held
<1>5. kind = "news" /\ pos > 0 => p # <<>>
  BY <1>1, <1>3, <1>4, FrameOfNothing
<1>6. InFrame'
  <2>1. CASE p = <<>>
    <3>1. cbOut' = <<>>
      BY <1>3, <1>4, <1>5, <2>1
    <3>2. served' = served
      BY <1>4, <2>1, NoneLeft DEF Held, Typed, Types, NetTyped
    <3> QED
      BY <1>1, <1>2, <3>1, <3>2 DEF InFrame
  <2>2. CASE p # <<>>
    <3>1. cbOut' = Frame(p)
      BY <1>3, <1>4, <2>2
    <3>2. hpc' = "flo" /\ got' \o p = served'
      BY <1>1, <1>2, <1>4
    <3> QED
      BY <1>4, <2>2, <3>1, <3>2 DEF InFrame
  <2> QED
    BY <2>1, <2>2
<1> QED
  BY <1>1, <1>2, <1>6 DEF Bus, Quiet, Outset

\* Every callback keeps the order of bytes.
LEMMA NetworkKeepsBus ==
  ASSUME Held, Bus, Outside, ~derailed'
  PROVE  Bus'
<1>1. CASE DnsFound \/ Connected \/ GivenUp \/ Broken \/ Forgotten \/ Closes \/ FallsSilent
  <2>1. UNCHANGED <<cbOut, mainOut, hpc, cnt, status, got, kind, pc, served>>
    BY <1>1 DEF DnsFound, Connected, GivenUp, Broken, Forgotten, Closes, FallsSilent, ErrCallback,
                Callback, hostVars, busVars, answerVars
  <2> QED
    BY <2>1, NothingOnTheBus
<1>2. CASE DataToFile \/ DataToMemory \/ TimeArrives
  <2>1. Callback /\ UNCHANGED cbOut /\ kind \notin Streams
    BY <1>2, DataMoves DEF DataToFile, DataToMemory, TimeArrives, Streams, Held
  <2>2. UNCHANGED <<cbOut, mainOut, hpc, cnt, status, got, kind, pc>>
    BY <2>1 DEF Callback, hostVars
  <2>3. pc # "ending"
    BY <2>1 DEF Held, Typed, Placed
  <2> QED
    BY <2>1, <2>2, <2>3 DEF Bus, AnswerFits, Answer
<1>3. CASE DataToBus
  BY <1>3, DataToBusKeepsBus
<1> QED
  BY <1>1, <1>2, <1>3 DEF Outside, Network

\* Every step does.
LEMMA NextKeepsBus ==
  ASSUME Held, Order, Bus, [Next]_vars, ~derailed'
  PROVE  Bus'
<1>0. ~Strays
  BY OnTrackBefore
<1>1. CASE UNCHANGED vars
  BY <1>1, NothingOnTheBus DEF vars, hostVars, busVars, netVars, answerVars
<1>2. CASE Handler
  BY <1>2, SeekingKeepsBus, AskingKeepsBus, SendingKeepsBus, FinishingKeepsBus DEF Handler
<1> QED
  BY <1>0, <1>1, <1>2, StartKeepsBus, HostKeepsBus, NetworkKeepsBus DEF Next, Outside

\* The invariant of the order of bytes.
Ordered == Held /\ (~derailed => Lookups /\ Order /\ Bus)

\* At the start the bus is empty.
LEMMA InitOrdered == Init => Ordered
<1> SUFFICES ASSUME Init PROVE Ordered
  OBVIOUS
<1>1. Held /\ Lookups
  BY InitHeld, InitStages
<1>2. Order
  BY DEF Init, Order, Streams
<1>3. Bus
  BY DEF Init, Bus, Quiet, Outset
<1> QED
  BY <1>1, <1>2, <1>3 DEF Ordered

\* No step puts a byte out of order.
LEMMA NextKeepsOrdered ==
  ASSUME Ordered, [Next]_vars
  PROVE  Ordered'
<1>1. Held /\ Held'
  BY NextKeepsHeld DEF Ordered
<1>2. ASSUME ~derailed' PROVE Lookups' /\ Order' /\ Bus'
  <2>1. Lookups /\ Order /\ Bus
    BY <1>2, OnTrackBefore DEF Ordered
  <2> QED
    BY <1>1, <1>2, <2>1, NextKeepsLookups, NextKeepsOrder, NextKeepsBus
<1> QED
  BY <1>1, <1>2 DEF Ordered

\* The tags of the bytes of a length.
LEMMA LengthTags ==
  ASSUME NEW p \in Seq(Octet), Len(p) < Base * Base
  PROVE  /\ Head(Length(Len(p)) \o Bytes(p)).tag = "lo"
         /\ Head(Tagged("hi", <<Len(p) \div Base>>) \o Bytes(p)).tag = "hi"
<1>1. Len(p) \in Nat
  OBVIOUS
<1>2. Len(p) \div Base \in Octet
  BY <1>1, LengthBytes
<1>3. PICK v : v = Len(p) % Base
  OBVIOUS
<1>4. PICK w : w = Len(p) \div Base
  OBVIOUS
<1>5. Head(Length(Len(p)) \o Bytes(p)) = [tag |-> "lo", val |-> v]
  <2>1. Head(Length(Len(p)) \o Bytes(p)) = [tag |-> "lo", val |-> Len(p) % Base]
    BY <1>1, LengthFirst
  <2> QED
    BY <1>3, <2>1
<1>6. Head(Tagged("hi", <<Len(p) \div Base>>) \o Bytes(p)) = [tag |-> "hi", val |-> w]
  <2>1. Head(Tagged("hi", <<Len(p) \div Base>>) \o Bytes(p)) = [tag |-> "hi", val |-> Len(p) \div Base]
    BY <1>2, HiFirst
  <2> QED
    BY <1>4, <2>1
<1>7. [tag |-> "lo", val |-> v].tag = "lo" /\ [tag |-> "hi", val |-> w].tag = "hi"
  OBVIOUS
<1> QED
  BY <1>5, <1>6, <1>7

\* In that order each byte is read as what it is meant as.
LEMMA ReadAsMeant ==
  ASSUME Ordered
  PROVE  BytesMatched
<1> SUFFICES ASSUME ~derailed, Offered # <<>> PROVE hpc # "idle" /\ HostReads[hpc] = Head(Offered).tag
  BY DEF BytesMatched
<1>0. Bus /\ Typed /\ Placed
  BY DEF Ordered, Held, Typed
<1>1. CASE cbOut # <<>>
  <2>1. kind \in Streams /\ InFrame /\ Offered = cbOut
    BY <1>0, <1>1 DEF Bus, Offered
  <2>2. PICK p \in Seq(Octet) :
        /\ p # <<>> /\ Len(p) < Base * Base
        /\ \/ hpc = "flo" /\ cbOut = Frame(p)
           \/ hpc = "fhi" /\ cnt = Len(p) % Base /\ cbOut = Tagged("hi", <<Len(p) \div Base>>) \o Bytes(p)
           \/ hpc = "fdata" /\ cnt = Len(p) /\ cbOut = Bytes(p)
    BY <1>1, <2>1 DEF InFrame
  <2>3. Len(p) \in Nat /\ Len(p) \div Base \in Octet
    BY <2>2, LengthBytes
  <2>4. CASE hpc = "flo"
    <3>1. Head(Length(Len(p)) \o Bytes(p)).tag = "lo"
      BY <2>2, LengthTags
    <3>2. cbOut = Length(Len(p)) \o Bytes(p)
      BY <2>2, <2>4 DEF Frame, Bytes
    <3>3. Head(cbOut).tag = "lo"
      BY <3>1, <3>2
    <3> QED
      BY <2>1, <2>4, <3>3 DEF HostReads
  <2>5. CASE hpc = "fhi"
    <3>1. Head(Tagged("hi", <<Len(p) \div Base>>) \o Bytes(p)).tag = "hi"
      BY <2>2, LengthTags
    <3>2. cbOut = Tagged("hi", <<Len(p) \div Base>>) \o Bytes(p)
      BY <2>2, <2>5
    <3>3. Head(cbOut).tag = "hi"
      BY <3>1, <3>2
    <3> QED
      BY <2>1, <2>5, <3>3 DEF HostReads
  <2>6. CASE hpc = "fdata"
    <3>1. Head(Bytes(p)) = [tag |-> "data", val |-> p[1]]
      BY <2>2, BytesType
    <3>2. Head(cbOut).tag = "data"
      BY <2>2, <2>6, <3>1
    <3> QED
      BY <2>1, <2>6, <3>2 DEF HostReads
  <2> QED
    BY <2>2, <2>4, <2>5, <2>6
<1>2. CASE cbOut = <<>>
  <2>1. Offered = mainOut /\ mainOut # <<>>
    BY <1>2 DEF Offered
  <2>2. CASE pc = "sending"
    <3>1. PICK s \in Octet, p \in Seq(Octet) : AnswerFits(s, p)
      BY <1>0, <2>2 DEF Bus
    <3>2. Len(p) < Base * Base /\ Answer(s, p) /\ Len(p) \in Nat
      BY <3>1 DEF AnswerFits
    <3>3. Len(p) \div Base \in Octet
      BY <3>2, LengthBytes
    <3>4. CASE hpc = "status"
      <4>1. Head(mainOut) = [tag |-> "status", val |-> s]
        BY <3>2, <3>4, StatusFirst DEF Answer
      <4> QED
        BY <2>1, <3>4, <4>1 DEF HostReads
    <3>5. CASE hpc = "lo"
      <4>1. Head(Length(Len(p)) \o Bytes(p)).tag = "lo"
        BY <3>2, LengthTags
      <4>2. mainOut = Length(Len(p)) \o Bytes(p)
        BY <3>2, <3>5 DEF Answer
      <4>3. Head(mainOut).tag = "lo"
        BY <4>1, <4>2
      <4> QED
        BY <2>1, <3>5, <4>3 DEF HostReads
    <3>6. CASE hpc = "hi"
      <4>1. Head(Tagged("hi", <<Len(p) \div Base>>) \o Bytes(p)).tag = "hi"
        BY <3>2, LengthTags
      <4>2. mainOut = Tagged("hi", <<Len(p) \div Base>>) \o Bytes(p)
        BY <3>2, <3>6 DEF Answer
      <4>3. Head(mainOut).tag = "hi"
        BY <4>1, <4>2
      <4> QED
        BY <2>1, <3>6, <4>3 DEF HostReads
    <3>7. CASE hpc = "payload"
      <4>1. PICK rest \in Seq(Octet) : rest # <<>> /\ mainOut = Bytes(rest)
        BY <3>2, <3>7 DEF Answer
      <4>2. Head(Bytes(rest)) = [tag |-> "data", val |-> rest[1]]
        BY <4>1, BytesType
      <4>3. Head(mainOut).tag = "data"
        BY <4>1, <4>2
      <4> QED
        BY <2>1, <3>7, <4>3 DEF HostReads
    <3> QED
      BY <2>1, <3>2, <3>4, <3>5, <3>6, <3>7 DEF Answer
  <2>3. CASE pc = "ask" /\ kind \in Streams
    <3>1. HeaderLeft /\ OK \in Octet
      BY <1>0, <2>3 DEF Bus, OK, Octet
    <3> QED
      BY <2>1, <3>1, EmptyFirst DEF HeaderLeft, HostReads
  <2>4. CASE pc = "ending"
    <3>1. EndLeft
      BY <1>0, <2>4 DEF Bus
    <3> QED
      BY <2>1, <3>1, EmptyFirst DEF EndLeft, HostReads, EOF
  <2>5. pc = "reply" => kind \notin Streams
    BY <1>0 DEF Placed
  <2> QED
    BY <1>0, <2>1, <2>2, <2>3, <2>4, <2>5 DEF Bus, Quiet, Outset, Typed, Types, WorkTyped
<1> QED
  BY <1>1, <1>2

\* BytesMatched: the handler and the callbacks share the bus, and the 65C02
\* takes every byte of theirs for what it is meant as, in any order in which
\* the callbacks interrupt the handler, for answers of any length in packets
\* of any size, whatever fails; but not behind one of the three things that
\* Derails names.
THEOREM BytesAreMatched == Spec => []BytesMatched
<1>1. Init => Ordered
  BY InitOrdered
<1>2. Ordered /\ [Next]_vars => Ordered'
  BY NextKeepsOrdered
<1>3. Ordered => BytesMatched
  BY ReadAsMeant
<1> QED
  BY <1>1, <1>2, <1>3, PTL DEF Spec
-----------------------------------------------------------------------------
(****************************************************************************)
(* What is stored, kept and sent.                                           *)
(****************************************************************************)
\* What a handler leaves alone, and what it puts into a flag.
LEMMA HandlerKeepsFlags ==
  ASSUME Typed, Handler
  PROVE  /\ UNCHANGED <<kind, answer, pos, served, silent, linked, received>>
         /\ req'.complete = req.complete /\ req'.connected = req.connected
         /\ kind \notin Streams /\ req.error => req'.error
<1> USE DEF At, answerVars, memVars, fileVars
<1>1. CASE Lookup
  <2>1. req'.complete = req.complete /\ req'.connected = req.connected
        /\ (kind \notin Streams /\ req.error => req'.error)
    BY <1>1, ReqFields DEF Lookup
  <2> QED
    BY <1>1, <2>1 DEF Lookup
<1>2. CASE SendChunk
  <2>1. req'.complete = req.complete /\ req'.connected = req.connected
        /\ (kind \notin Streams /\ req.error => req'.error)
    BY <1>2, ReqFields DEF SendChunk
  <2> QED
    BY <1>2, <2>1 DEF SendChunk
<1>3. CASE OpenLocal \/ DnsWaitEnds \/ Unresolved \/ Resolved \/ Connect \/ ConnectWaitEnds
  BY <1>3 DEF OpenLocal, DnsWaitEnds, Unresolved, Resolved, Connect, ConnectWaitEnds
<1>4. CASE Header \/ Ask \/ ReadChunk \/ BodyDone \/ TransferEnds
  BY <1>4 DEF Header, Ask, ReadChunk, BodyDone, TransferEnds
<1>5. CASE FinishStream \/ StreamEnded \/ Finish \/ ReplyResult \/ Replied
  BY <1>5 DEF FinishStream, StreamEnded, Finish, ReplyResult, Replied
<1> QED
  BY <1>1, <1>2, <1>3, <1>4, <1>5 DEF Handler

\* The 65C02 moves nothing but what it reads.
LEMMA HostMovesNothing ==
  ASSUME HostStep
  PROVE  UNCHANGED <<kind, pc, req, received, chunk, http_buf, fileOpen, stored, dns, pcb, linked,
                     asked, answer, pos, served, sent, silent, happened, derailed>>
BY HostReadsByte DEF memVars, fileVars, netVars, answerVars, historyVars

\* Only the end of the answer sets "complete" without an error.
LEMMA NextKeepsCompleted ==
  ASSUME Held, Completed, [Next]_vars, ~derailed'
  PROVE  Completed'
<1>0. Typed /\ ~Strays
  BY OnTrackBefore DEF Held
<1>1. CASE \E k \in Kinds : Start(k)
  BY <1>1 DEF Start, Completed, Fresh
<1>2. CASE HostStep
  BY <1>2, HostMovesNothing DEF Completed
<1>3. CASE Handler
  BY <1>0, <1>3, HandlerKeepsFlags DEF Completed
<1>4. CASE DnsFound \/ Connected \/ GivenUp \/ Broken
  <2>1. UNCHANGED <<kind, pos, answer>>
    BY <1>4, CallsMoveNoData
  <2>2. kind \notin Streams /\ req'.complete => req'.error \/ (req.complete /\ ~req.error)
    BY <1>0, <1>4, ReqFields DEF DnsFound, Connected, GivenUp, Broken, ErrCallback
  <2> QED
    BY <2>1, <2>2 DEF Completed
<1>5. CASE Closes
  BY <1>5 DEF Closes, answerVars, Completed
<1>6. CASE DataToFile \/ DataToMemory \/ DataToBus \/ TimeArrives
  <2>1. PICK n : Arrives(n) /\ n \in PacketSizes
    BY <1>6 DEF DataToFile, DataToMemory, DataToBus, TimeArrives, Arrives
  <2>2. /\ UNCHANGED <<kind, answer>> /\ pos \in Nat /\ Len(answer) \in Nat /\ pos < Len(answer)
        /\ pos' = pos + n
    BY <1>0, <2>1, AnswerNotEmpty, ArrivesType DEF Arrives, Callback, Typed, Types, NetTyped
  <2>3. CASE UNCHANGED req
    BY <2>2, <2>3 DEF Completed
  <2>4. CASE req' = Failed
    BY <1>0, <2>2, <2>4, ReqFields DEF Completed
  <2>5. CASE TimeArrives
    <3>1. PICK m : Arrives(m) /\ m \in PacketSizes
      BY <2>5 DEF TimeArrives, Arrives
    <3>2. m = Len(answer) - pos /\ pos' = pos + m
      BY <2>5, <3>1 DEF TimeArrives, PacketSizes, Arrives
    <3>3. pos' = Len(answer)
      BY <2>2, <3>2
    <3> QED
      BY <2>2, <3>3 DEF Completed
  <2> QED
    BY <1>6, <2>3, <2>4, <2>5 DEF DataToFile, DataToMemory, DataToBus
<1>7. CASE FallsSilent
  BY <1>7 DEF FallsSilent, answerVars, Completed
<1>8. CASE Forgotten
  BY <1>8 DEF Forgotten, Callback, answerVars, Completed
<1>9. CASE UNCHANGED vars
  BY <1>9 DEF vars, netVars, answerVars, Completed
<1> QED
  BY <1>0, <1>1, <1>2, <1>3, <1>4, <1>5, <1>6, <1>7, <1>8, <1>9 DEF Next, Network

\* A step of the command that runs forgets no fault.
LEMMA FaultsStay ==
  ASSUME Held, [Next]_vars
  PROVE  (\E k \in Kinds : Start(k)) \/ (\A f : f \in happened => f \in happened')
BY HistoryGrows DEF Held

\* Every packet goes to the file, as far as the flash takes it, and stays
\* there if it is closed well,
LEMMA NextKeepsFileKept ==
  ASSUME Held, FileKept, [Next]_vars, ~derailed'
  PROVE  FileKept'
<1>0. Typed /\ Placed /\ ~Strays
  BY OnTrackBefore DEF Held, Typed
<1>1. CASE \E k \in Kinds : Start(k)
  BY <1>1 DEF Start, FileKept
<1>2. CASE HostStep
  BY <1>2, HostMovesNothing DEF FileKept
<1>3. CASE Handler
  <2>1. UNCHANGED <<kind, served>> /\ (\A f : f \in happened => f \in happened')
    BY <1>0, <1>3, HandlerKeepsFlags, NothingUndone DEF Held
  <2>2. CASE ReplyResult
    <3>1. \/ stored' = stored \/ "write" \in happened'
          \/ "close" \in happened'
      BY <2>1, <2>2 DEF ReplyResult, Committed, Fault
    <3> QED
      BY <2>1, <3>1 DEF FileKept
  <2>3. CASE ~ReplyResult
    <3>1. stored' = stored
      BY <1>3, <2>3 DEF Handler, OpenLocal, Lookup, DnsWaitEnds, Unresolved, Resolved, Connect,
         ConnectWaitEnds, Header, Ask, ReadChunk, SendChunk, BodyDone, TransferEnds, FinishStream,
         StreamEnded, Finish, Replied, fileVars
    <3> QED
      BY <2>1, <3>1 DEF FileKept
  <2> QED
    BY <2>2, <2>3
<1>4. CASE DnsFound \/ Connected \/ GivenUp \/ Broken \/ Forgotten \/ Closes \/ FallsSilent
  <2>1. \A f : f \in happened => f \in happened'
    BY <1>4, NothingUndone DEF Held, Outside, Network
  <2> QED
    BY <1>4, <2>1, CallsMoveNoData DEF FileKept
<1>5. CASE DataToFile
  <2>1. PICK n : /\ Arrives(n)
                 /\ \/ Notes({}) /\ stored' = stored \o Payload(n)
                    \/ Notes({"write"})
    BY <1>5 DEF DataToFile
  <2>2. kind' = kind /\ served' = served \o Payload(n)
    BY <2>1 DEF Arrives, Callback
  <2>3. (\A f : f \in happened => f \in happened') /\ (Notes({"write"}) => "write" \in happened')
    BY <1>5, NothingUndone DEF Held, Outside, Network, Notes
  <2> QED
    BY <2>1, <2>2, <2>3 DEF FileKept
<1>6. CASE DataToMemory \/ DataToBus \/ TimeArrives
  <2>1. kind # "get" /\ kind' = kind
    BY <1>0, <1>6, DataMoves DEF DataToMemory, DataToBus, TimeArrives, Streams
  <2> QED
    BY <2>1 DEF FileKept
<1>7. CASE UNCHANGED vars
  BY <1>7 DEF vars, fileVars, netVars, answerVars, historyVars, FileKept
<1> QED
  BY <1>0, <1>1, <1>2, <1>3, <1>4, <1>5, <1>6, <1>7 DEF Next, Network

\* or to the buffer, one after the other.
LEMMA NextKeepsBufferKept ==
  ASSUME Held, BufferKept, [Next]_vars, ~derailed'
  PROVE  BufferKept'
<1>0. Typed /\ Placed /\ WorkTyped /\ NetTyped /\ ~Strays
  BY OnTrackBefore DEF Held, Typed, Types
<1>1. CASE \E k \in Kinds : Start(k)
  BY <1>1 DEF Start, BufferKept
<1>2. CASE HostStep
  BY <1>2, HostMovesNothing DEF BufferKept
<1>3. CASE Handler
  <2>1. UNCHANGED <<kind, pos, served, received>>
    BY <1>0, <1>3, HandlerKeepsFlags
  <2>2. kind = "download" => UNCHANGED http_buf
    BY <1>0, <1>3 DEF Placed, Handler, At, OpenLocal, Lookup, DnsWaitEnds, Unresolved,
       Resolved, Connect, ConnectWaitEnds, Header, Ask, ReadChunk, SendChunk, BodyDone, TransferEnds,
       FinishStream, StreamEnded, Finish, ReplyResult, Replied, memVars
  <2> QED
    BY <2>1, <2>2 DEF BufferKept
<1>4. CASE DnsFound \/ Connected \/ GivenUp \/ Broken \/ Forgotten \/ Closes \/ FallsSilent
  BY <1>4, CallsMoveNoData DEF BufferKept
<1>5. CASE DataToMemory
  <2> SUFFICES ASSUME kind' = "download", Len(served') <= BufSize
               PROVE  received' = pos' /\ \A i \in 1..pos' : http_buf'[i] = served'[i]
    BY DEF BufferKept
  <2>0. kind = "download"
    BY <1>0, <1>5, DataMoves
  <2>1. PICK n : /\ Arrives(n)
                 /\ IF received + n <= BufSize
                    THEN http_buf' = Put(http_buf, received, Payload(n)) /\ received' = received + n
                    ELSE UNCHANGED <<http_buf, received>>
    BY <1>5 DEF DataToMemory
  <2>2. PICK p \in Seq(Octet) : /\ p = Payload(n) /\ Len(p) = n /\ served' = served \o p
                                /\ pos' = pos + n /\ pos' <= Len(answer) /\ n \in Nat /\ pos' \in Nat
    BY <1>0, <2>0, <2>1, ArrivesType
  <2>3. Len(served) = pos /\ served \in Seq(Octet) /\ pos \in Nat /\ BufSize \in Nat
        /\ Len(served') = pos + n /\ pos + n <= BufSize /\ Len(served) <= BufSize
    <3>1. Len(served) = pos /\ served \in Seq(Octet) /\ pos \in Nat /\ BufSize \in Nat
      BY <1>0, <2>0, BaseType DEF Placed, NetTyped
    <3>2. Len(served') = pos'
      BY <1>0, <2>0, <2>1, ArrivesType
    <3>3. pos + n <= BufSize /\ pos <= BufSize
      BY <2>2, <3>1, <3>2
    <3> QED
      BY <2>2, <3>1, <3>2, <3>3
  <2>9. received = pos /\ \A i \in 1..pos : http_buf[i] = served[i]
    BY <2>0, <2>3 DEF BufferKept
  <2>4. http_buf' = Put(http_buf, pos, p) /\ received' = pos + n /\ pos + n <= BufSize
    BY <2>1, <2>2, <2>3, <2>9
  <2>5. ASSUME NEW i \in 1..(pos + n) PROVE http_buf'[i] = served'[i]
    <3>1. i \in 1..BufSize /\ i \in Nat /\ i >= 1
      BY <2>2, <2>3, <2>4
    <3>2. http_buf'[i] = IF i \in (pos + 1)..(pos + Len(p)) THEN p[i - pos] ELSE http_buf[i]
      BY <2>4, <3>1 DEF Put
    <3>3. (served \o p)[i] = IF i <= pos THEN served[i] ELSE p[i - pos]
      BY <2>2, <2>3, <2>5
    <3> QED
      BY <2>2, <2>3, <2>5, <2>9, <3>1, <3>2, <3>3
  <2> QED
    BY <2>2, <2>4, <2>5
<1>6. CASE DataToFile \/ DataToBus \/ TimeArrives
  <2>1. kind # "download" /\ kind' = kind
    BY <1>0, <1>6, DataMoves DEF DataToFile, DataToBus, TimeArrives, Streams
  <2> QED
    BY <2>1 DEF BufferKept
<1>7. CASE UNCHANGED vars
  BY <1>7 DEF vars, memVars, netVars, answerVars, BufferKept
<1> QED
  BY <1>0, <1>1, <1>2, <1>3, <1>4, <1>5, <1>6, <1>7 DEF Next, Network

\* A chunk behind the part that was sent is a longer part.
LEMMA OneChunkMore ==
  ASSUME NEW f \in Seq(Octet), NEW k \in Nat, NEW c \in Nat, k + c <= Len(f),
         NEW b \in Seq(Octet), Len(b) = c, \A i \in 1..c : b[i] = f[k + i]
  PROVE  SubSeq(f, 1, k) \o b = SubSeq(f, 1, k + c) /\ Len(SubSeq(f, 1, k)) = k
         /\ Len(SubSeq(f, 1, k + c)) = k + c
<1>1. Len(f) \in Nat
  OBVIOUS
<1>2. /\ SubSeq(f, 1, k) \in Seq(Octet) /\ Len(SubSeq(f, 1, k)) = k
      /\ \A i \in 1..k : SubSeq(f, 1, k)[i] = f[i]
  BY <1>1
<1>3. /\ SubSeq(f, 1, k + c) \in Seq(Octet) /\ Len(SubSeq(f, 1, k + c)) = k + c
      /\ \A i \in 1..(k + c) : SubSeq(f, 1, k + c)[i] = f[i]
  BY <1>1
<1> DEFINE s == SubSeq(f, 1, k)
           t == SubSeq(f, 1, k + c)
<1> HIDE DEF s, t
<1>4. s \o b \in Seq(Octet) /\ Len(s \o b) = k + c
  <2> HIDE DEF Octet
  <2> QED
    BY <1>2 DEF s
<1>5. ASSUME NEW i \in 1..(k + c) PROVE (s \o b)[i] = t[i]
  <2>1. (s \o b)[i] = IF i <= k THEN s[i] ELSE b[i - k]
    BY <1>2, <1>5 DEF s
  <2>2. CASE i <= k
    BY <1>2, <1>3, <1>5, <2>1, <2>2 DEF s, t
  <2>3. CASE i > k
    <3>1. i - k \in 1..c /\ k + (i - k) = i
      BY <1>5, <2>3
    <3>2. b[i - k] = f[i]
      BY <3>1
    <3> QED
      BY <1>3, <1>5, <2>1, <2>3, <3>2 DEF t
  <2>4. i <= k \/ i > k
    BY <1>5
  <2> QED
    BY <2>2, <2>3, <2>4
<1>6. s \o b = t
  <2>1. t \in Seq(Octet) /\ Len(t) = k + c
    BY <1>3 DEF t
  <2>2. PICK u \in Seq(Octet) : u = s \o b
    BY <1>4
  <2>3. Len(u) = k + c /\ \A i \in 1..(k + c) : u[i] = t[i]
    BY <1>4, <1>5, <2>2
  <2> HIDE DEF Octet
  <2>4. u = t
    BY <2>1, <2>3
  <2> QED
    BY <2>2, <2>4
<1> QED
  BY <1>2, <1>3, <1>6 DEF s, t

\* A sequence behind another.
LEMMA Joined ==
  ASSUME NEW S, NEW q \in Seq(S), NEW b \in Seq(S)
  PROVE  q \o b \in Seq(S) /\ Len(q \o b) = Len(q) + Len(b)
OBVIOUS

\* The file that is sent.
LEMMA FileSize == FileData \in Seq(Octet) /\ Len(FileData) \in Nat
BY NetAssumption DEF NetAssumption

\* POST starts with nothing sent,
LEMMA StartKeepsUploaded ==
  ASSUME NEW k \in Kinds, Start(k)
  PROVE  Uploaded'
<1>1. SubSeq(FileData, 1, 0) = <<>> /\ Len(<<>>) = 0 /\ 0 <= Len(FileData)
  BY FileSize
<1>2. sent' = <<>> /\ pos' = 0 /\ pc' \in {"open", "connect", "lookup"}
  BY DEF Start
<1> QED
  BY <1>1, <1>2 DEF Uploaded

\* sends the next part,
LEMMA SendChunkKeepsUploaded ==
  ASSUME Held, Uploaded, SendChunk
  PROVE  Uploaded'
<1>1. /\ pc = "chunk" /\ kind = "post" /\ kind' = kind /\ UNCHANGED <<asked, pos, chunk, http_buf>>
      /\ pc' \in {"transfer", "body"}
  BY DEF SendChunk, At, Held, Typed, Placed, memVars, answerVars
<1>0. /\ \A f : f \in happened => f \in happened'
      /\ Len(sent) <= Len(FileData) /\ Len(sent) + chunk <= Len(FileData)
      /\ ~asked /\ "early" \notin happened => pos = 0
  BY <1>1, NothingUndone DEF Uploaded, Handler, Held
<1>2. ASSUME "early" \notin happened', "read" \notin happened'
      PROVE  /\ sent = SubSeq(FileData, 1, Len(sent))
             /\ \A i \in 1..chunk : http_buf[i] = FileData[Len(sent) + i]
  BY <1>0, <1>1, <1>2 DEF Uploaded
<1>3. WorkTyped
  BY DEF Held, Typed, Types
<1>4. CASE pc' = "transfer" /\ UNCHANGED sent
  <2>1. req' = [req EXCEPT !.error = TRUE]
    BY <1>4 DEF SendChunk
  <2>2. req'.error
    BY <2>1, ReqFields DEF Held
  <2> QED
    BY <1>0, <1>1, <1>2, <1>4, <2>2 DEF Uploaded
<1>5. CASE pc' = "body" /\ sent' = sent \o SubSeq(http_buf, 1, chunk)
  <2>1. PICK c \in Nat : c = chunk /\ c <= BufSize
    BY <1>3, BaseType DEF WorkTyped
  <2>2. PICK k \in Nat : k = Len(sent)
    BY <1>3 DEF WorkTyped
  <2>3. /\ [i \in 1..c |-> http_buf[i]] \in Seq(Octet) /\ Len([i \in 1..c |-> http_buf[i]]) = c
        /\ SubSeq(http_buf, 1, c) = [i \in 1..c |-> http_buf[i]]
    BY <1>3, <2>1, BufferIsSeq DEF WorkTyped
  <2>4. PICK b \in Seq(Octet) : b = [i \in 1..c |-> http_buf[i]]
    BY <2>3
  <2>5. Len(b) = c /\ k + c <= Len(FileData) /\ sent' = sent \o b
    BY <1>0, <1>5, <2>1, <2>2, <2>3, <2>4
  <2>6. sent' \in Seq(Octet) /\ Len(sent') = k + c
    <3>1. PICK q \in Seq(Octet) : q = sent
      BY <1>3 DEF WorkTyped
    <3>2. q \o b \in Seq(Octet) /\ Len(q \o b) = Len(q) + Len(b)
      BY Joined
    <3>3. sent' = q \o b /\ Len(q) = k /\ Len(b) = c
      BY <2>2, <2>5, <3>1
    <3> QED
      BY <3>2, <3>3
  <2>7. ASSUME "early" \notin happened', "read" \notin happened'
        PROVE  sent' = SubSeq(FileData, 1, Len(sent'))
    <3>1. \A i \in 1..c : b[i] = FileData[k + i]
      BY <1>2, <2>1, <2>2, <2>4, <2>7
    <3>4. Len(b) = c /\ k + c <= Len(FileData) /\ FileData \in Seq(Octet)
      BY <2>5, FileSize
    <3>2. SubSeq(FileData, 1, k) \o b = SubSeq(FileData, 1, k + c)
      BY <3>1, <3>4, OneChunkMore
    <3>3. sent = SubSeq(FileData, 1, k)
      BY <1>2, <2>2, <2>7
    <3> QED
      BY <2>5, <2>6, <3>2, <3>3
  <2>8. Len(sent') <= Len(FileData)
    BY <2>5, <2>6
  <2>9. ~asked' /\ "early" \notin happened' => pos' = 0
    BY <1>0, <1>1
  <2> QED
    BY <1>1, <1>5, <2>7, <2>8, <2>9 DEF Uploaded
<1> QED
  BY <1>4, <1>5 DEF SendChunk

\* which it reads into the buffer,
LEMMA ReadChunkKeepsUploaded ==
  ASSUME Held, Uploaded, ReadChunk
  PROVE  Uploaded'
<1>1. /\ pc = "body" /\ pc' = "chunk" /\ UNCHANGED <<kind, asked, pos, sent>> /\ kind = "post"
  BY DEF ReadChunk, At, Held, Typed, Placed, answerVars
<1>2. /\ Len(sent) + chunk' <= Len(FileData)
      /\ "read" \in happened' \/ \A i \in 1..chunk' : http_buf'[i] = FileData[Len(sent) + i]
  BY ChunkType DEF Held
<1>3. Len(sent') = Len(sent)
  BY <1>1
<1>4. \A f : f \in happened => f \in happened'
  BY NothingUndone DEF Handler, Held
<1> QED
  BY <1>1, <1>2, <1>3, <1>4 DEF Uploaded

\* What of this a step must show that sends nothing.
LEMMA NothingSent ==
  ASSUME Uploaded, kind = "post", UNCHANGED <<sent, asked, pos>>, pc' # "chunk",
         \A f : f \in happened => f \in happened',
         pc' \in {"transfer", "finish", "reply"} => Len(sent) = Len(FileData) \/ req'.error \/ ~asked
  PROVE  Uploaded'
BY DEF Uploaded

\* and goes on when it has sent all;
LEMMA HandlerKeepsUploaded ==
  ASSUME Held, Uploaded, Handler
  PROVE  Uploaded'
<1> SUFFICES ASSUME kind' = "post" PROVE Uploaded'
  BY DEF Uploaded
<1>0. Typed /\ Placed /\ Stages /\ (\A f : f \in happened => f \in happened')
  BY NothingUndone DEF Held, Typed
<1>1. kind = "post" /\ pos' = pos /\ kind \notin Streams /\ (req.error => req'.error)
  BY <1>0, HandlerKeepsFlags DEF Streams
<1>2. CASE SendChunk
  BY <1>2, SendChunkKeepsUploaded
<1>3. CASE ReadChunk
  BY <1>3, ReadChunkKeepsUploaded
<1>4. CASE BodyDone
  <2>1. pc = "body" /\ pc' = "transfer" /\ UNCHANGED <<sent, req>>
    BY <1>4 DEF BodyDone, At
  <2>2. ~asked
    BY <1>0, <2>1 DEF Stages, Unasked
  <2>3. Len(sent) = Len(FileData) \/ req.error
    <3>1. Len(sent) \in Nat
      BY <1>0 DEF Typed, Types, WorkTyped
    <3> QED
      BY <1>4, <3>1, FileSize DEF BodyDone, Rest
  <2>4. ~asked' /\ "early" \notin happened' => pos' = 0
    BY <1>0, <1>1, <2>2 DEF Uploaded
  <2> QED
    BY <1>0, <1>1, <2>1, <2>3, <2>4 DEF Uploaded
<1>5. CASE Connect \/ Ask
  <2>1. ~Ask
    BY <1>0, <1>1 DEF Ask, At, Placed
  <2>2. pc' = "connecting" /\ UNCHANGED <<sent, asked>>
    BY <1>1, <1>5, <2>1 DEF Connect
  <2> QED
    BY <1>0, <1>1, <2>2, NothingSent
<1>6. CASE ConnectWaitEnds
  <2>1. pc = "connecting" /\ pc' \in {"finish", "body"} /\ UNCHANGED <<sent, asked>>
    BY <1>1, <1>6 DEF ConnectWaitEnds, At
  <2>2. ~asked
    BY <1>0, <2>1 DEF Stages, Unasked
  <2> QED
    BY <1>0, <1>1, <2>1, <2>2, NothingSent
<1>7. CASE OpenLocal \/ Lookup \/ DnsWaitEnds \/ Unresolved \/ Resolved \/ Header \/ Replied \/ ReplyResult
  <2>1. pc' \notin {"transfer", "finish", "reply", "chunk"} /\ UNCHANGED <<sent, asked>>
    BY <1>7 DEF OpenLocal, Lookup, DnsWaitEnds, Unresolved, Resolved, Header, Replied, ReplyResult, Reply
  <2> QED
    BY <1>0, <1>1, <2>1, NothingSent
<1>8. CASE TransferEnds \/ FinishStream \/ StreamEnded \/ Finish
  <2>1. /\ pc \in {"transfer", "finish", "ending"} /\ UNCHANGED <<sent, asked>>
        /\ pc' # "chunk" /\ (pc = "ending" => pc' = "idle")
    BY <1>8 DEF TransferEnds, FinishStream, StreamEnded, Finish, At
  <2>2. pc' \in {"transfer", "finish", "reply"} => Len(sent) = Len(FileData) \/ req'.error \/ ~asked
    BY <1>1, <2>1 DEF Uploaded
  <2> QED
    BY <1>0, <1>1, <2>1, <2>2, NothingSent
<1> QED
  BY <1>2, <1>3, <1>4, <1>5, <1>6, <1>7, <1>8 DEF Handler

\* a callback that writes to the buffer in between is an answer that came
\* early.
LEMMA NetworkKeepsUploaded ==
  ASSUME Held, Uploaded, Outside
  PROVE  Uploaded'
<1> SUFFICES ASSUME kind' = "post" PROVE Uploaded'
  BY DEF Uploaded
<1>0. Typed /\ Stages /\ (\A f : f \in happened => f \in happened')
  BY NothingUndone DEF Held
<1>1. kind = "post" /\ UNCHANGED <<pc, asked, sent, chunk>>
  <2>1. CASE DataToFile \/ DataToMemory \/ DataToBus \/ TimeArrives
    BY <1>0, <2>1, DataMoves DEF Callback
  <2> QED
    BY <2>1, CallsMoveNoData DEF Outside, Network
<1>2. req.error => req'.error
  <2>1. kind \notin Streams
    BY <1>1 DEF Streams
  <2> QED
    BY <1>0, <1>1, <2>1, ReqFields DEF Outside, Network, DnsFound, Connected, GivenUp, Broken, Forgotten,
       ErrCallback, Closes, DataToFile, DataToMemory, DataToBus, TimeArrives, FallsSilent
<1>3. CASE DnsFound \/ Connected \/ GivenUp \/ Broken \/ Forgotten \/ Closes \/ FallsSilent
  <2>1. UNCHANGED <<pos, http_buf>>
    BY <1>3, CallsMoveNoData
  <2> QED
    BY <1>0, <1>1, <1>2, <2>1 DEF Uploaded
<1>4. CASE DataToFile \/ DataToMemory \/ DataToBus \/ TimeArrives
  <2>1. asked \/ "early" \in happened'
    BY <1>4 DEF DataToFile, DataToMemory, DataToBus, TimeArrives, Notes
  <2>2. asked => pc # "chunk"
    BY <1>0 DEF Stages, Unasked
  <2> QED
    BY <1>0, <1>1, <1>2, <2>1, <2>2 DEF Uploaded
<1> QED
  BY <1>3, <1>4 DEF Outside, Network

\* No step sends anything else.
LEMMA NextKeepsUploaded ==
  ASSUME Held, Uploaded, [Next]_vars, ~derailed'
  PROVE  Uploaded'
<1>0. ~Strays
  BY OnTrackBefore
<1>1. CASE UNCHANGED vars
  BY <1>1 DEF Uploaded, vars, memVars, netVars, answerVars, historyVars
<1>2. CASE HostStep
  BY <1>2, HostMovesNothing DEF Uploaded
<1> QED
  BY <1>0, <1>1, <1>2, StartKeepsUploaded, HandlerKeepsUploaded, NetworkKeepsUploaded DEF Next, Outside

\* While a command runs, nothing that main.c notices is undone.
LEMMA CleanBefore ==
  ASSUME Held, Handler \/ Outside, Clean'
  PROVE  /\ Clean /\ kind' = kind /\ (\A f \in Noticed : ~Fault(f))
         /\ kind \in Streams => "cached" \notin happened'
<1>1. \A f : f \in happened => f \in happened'
  BY NothingUndone DEF Held
<1>2. kind' = kind
  BY HandlerKeepsFlags, OutsideMovesNoHandler DEF Held
<1>3. \A f : Fault(f) => f \in happened'
  BY DEF Fault
<1> QED
  BY <1>1, <1>2, <1>3 DEF Clean

\* A handler goes to its end without a fault only with the whole answer,
LEMMA HandlerKeepsFaultless ==
  ASSUME Held, Lookups, Faultless, Handler
  PROVE  Faultless'
<1> SUFFICES ASSUME Clean' PROVE Faultless'
  BY DEF Faultless
<1>0. Typed /\ Placed /\ Stages /\ WorkTyped /\ BufSize \in Nat /\ 0 < BufSize /\ NetTyped
  BY BaseType DEF Held, Typed, Types
<1>1. /\ UNCHANGED <<kind, silent, received>> /\ req'.complete = req.complete
  BY <1>0, HandlerKeepsFlags
<1>2. (\A f \in Noticed : ~Fault(f)) /\ (kind \in Streams => "cached" \notin happened') /\ Clean
  BY CleanBefore
<1>3. /\ ~Fault("dns_error") /\ ~Fault("dns_timeout") /\ ~Fault("send")
  BY <1>2 DEF Noticed
<1>4. /\ ~silent /\ pc # "unresolved"
      /\ pc = "dns" => dns = "pending" \/ req.dns_done
      /\ req.error => kind \notin Streams /\ received >= BufSize
      /\ pcb = "freed" /\ pc \notin {"reply", "sending", "idle"} =>
            kind \notin Streams /\ received >= BufSize
      /\ pc \in {"finish", "reply", "ending"} => req.complete \/ req.error
  BY <1>2 DEF Faultless
<1>5. pc \in Outset => ~req.error
  <2> SUFFICES ASSUME pc \in Outset, req.error PROVE FALSE
    OBVIOUS
  <2>1. received = 0
    BY <1>0 DEF Stages
  <2> QED
    BY <1>0, <1>4, <2>1
<1>6. CASE OpenLocal \/ Unresolved \/ Resolved \/ Connect \/ Header \/ Ask
  <2>1. /\ UNCHANGED req /\ (pcb' = pcb \/ pcb' \in {"open", "connecting"})
        /\ pc' \notin {"dns", "unresolved", "finish", "reply", "ending"}
        /\ pc \notin {"reply", "sending", "idle"}
    BY <1>6 DEF OpenLocal, Unresolved, Resolved, Connect, Header, Ask, Reply, At
  <2> QED
    BY <1>1, <1>4, <2>1 DEF Faultless
<1>7. CASE Lookup
  <2>1. UNCHANGED pcb /\ pc = "lookup" /\ pc' \in {"resolved", "dns"}
    BY <1>7 DEF Lookup, At
  <2>2. /\ req'.error = req.error
        /\ pc' = "dns" => dns' = "pending" \/ req'.dns_done
    <3>1. CASE UNCHANGED req /\ (pc' = "resolved" \/ dns' = "pending")
      BY <2>1, <3>1
    <3>2. CASE req' = [req EXCEPT !.dns_done = kind \notin Streams] /\ "cached" \in happened'
      <4>1. PICK b \in BOOLEAN : b = (kind \notin Streams)
        OBVIOUS
      <4>2. req' = [req EXCEPT !.dns_done = b]
        BY <3>2, <4>1
      <4>3. req'.error = req.error /\ req'.dns_done = b
        BY <1>0, <4>2, ReqFields
      <4>4. b = TRUE
        BY <1>2, <3>2, <4>1
      <4> QED
        BY <4>3, <4>4
    <3> QED
      BY <1>3, <1>7, <3>1, <3>2 DEF Lookup
  <2> QED
    BY <1>1, <1>4, <2>1, <2>2 DEF Faultless
<1>8. CASE DnsWaitEnds
  <2>1. pc = "dns" /\ UNCHANGED <<req, pcb>> /\ pc' \in {"resolved", "unresolved"}
    BY <1>8 DEF DnsWaitEnds, At
  <2>2. ~req.error
    BY <1>5, <2>1 DEF Outset
  <2>3. req.dns_done
    BY <1>3, <1>4, <1>8, <2>1, <2>2 DEF DnsWaitEnds
  <2>4. pc' = "resolved"
    BY <1>8, <2>2, <2>3 DEF DnsWaitEnds
  <2> QED
    BY <1>1, <1>4, <2>1, <2>4 DEF Faultless
<1>9. CASE ConnectWaitEnds
  <2>1. UNCHANGED <<req, pcb>> /\ pc' \in {"finish", "header", "body", "ask"} /\ pc = "connecting"
    BY <1>9 DEF ConnectWaitEnds, At
  <2>2. pc' = "finish" => req.complete \/ req.error
    BY <1>4, <1>9 DEF ConnectWaitEnds
  <2> QED
    BY <1>1, <1>4, <2>1, <2>2 DEF Faultless
<1>10. CASE ReadChunk \/ SendChunk \/ BodyDone
  <2>1. UNCHANGED <<req, pcb>> /\ pc' \in {"chunk", "body", "transfer"} /\ pc \in {"body", "chunk"}
    BY <1>3, <1>10 DEF ReadChunk, SendChunk, BodyDone, At
  <2> QED
    BY <1>1, <1>4, <2>1 DEF Faultless
<1>11. CASE TransferEnds
  <2>1. UNCHANGED <<req, pcb>> /\ pc' = "finish" /\ (req.complete \/ req.error) /\ pc = "transfer"
    BY <1>4, <1>11 DEF TransferEnds, At
  <2> QED
    BY <1>1, <1>4, <2>1 DEF Faultless
<1>12. CASE FinishStream
  <2>1. UNCHANGED <<req, pcb>> /\ pc' = "ending" /\ pc = "finish"
    BY <1>12 DEF FinishStream, At
  <2> QED
    BY <1>1, <1>4, <2>1 DEF Faultless
<1>13. CASE StreamEnded \/ Finish \/ ReplyResult \/ Replied
  <2>1. /\ UNCHANGED req /\ pc' \in {"idle", "reply", "sending"}
        /\ pc' = "reply" => pc = "finish"
    BY <1>13 DEF StreamEnded, Finish, ReplyResult, Replied, At, Reply
  <2> QED
    BY <1>1, <1>4, <2>1 DEF Faultless
<1> QED
  BY <1>6, <1>7, <1>8, <1>9, <1>10, <1>11, <1>12, <1>13 DEF Handler

\* and a callback reports none that has not come.
LEMMA NetworkKeepsFaultless ==
  ASSUME Held, Lookups, Faultless, Outside
  PROVE  Faultless'
<1> SUFFICES ASSUME Clean' PROVE Faultless'
  BY DEF Faultless
<1>0. Typed /\ WorkTyped /\ NetTyped /\ Stages /\ BufSize \in Nat
  BY BaseType DEF Held, Typed, Types
<1>1. (\A f \in Noticed : ~Fault(f)) /\ Clean
  BY CleanBefore
<1>2. ~Broken /\ ~FallsSilent /\ ~Fault("dns_fail")
  BY <1>1 DEF Broken, FallsSilent, Noticed
<1>4. /\ ~silent /\ pc # "unresolved"
      /\ pc = "dns" => dns = "pending" \/ req.dns_done
      /\ req.error => kind \notin Streams /\ received >= BufSize
      /\ pcb = "freed" /\ pc \notin {"reply", "sending", "idle"} =>
            kind \notin Streams /\ received >= BufSize
      /\ pc \in {"finish", "reply", "ending"} => req.complete \/ req.error
  BY <1>1 DEF Faultless
<1>5. CASE DnsFound
  <2>0. "dns_timeout" \notin happened
    BY <1>1 DEF Clean, Noticed
  <2>1. /\ UNCHANGED <<kind, pc, silent, received, pcb>>
        /\ pc = "dns" \/ (pc \in {"unresolved", "sending", "idle"} /\ "dns_timeout" \in happened)
    BY <1>5 DEF DnsFound, Callback, Lookups
  <2>2. req'.dns_done /\ req'.complete = req.complete /\ req'.error = req.error
    BY <1>0, <1>2, <1>5, ReqFields DEF DnsFound
  <2> QED
    BY <1>4, <2>0, <2>1, <2>2 DEF Faultless
<1>6. CASE Connected \/ Closes
  <2>1. UNCHANGED <<kind, pc, silent, received, dns>> /\ pcb' = "open"
    BY <1>6 DEF Connected, Closes, Callback
  <2>2. req'.error = req.error /\ (req.complete => req'.complete)
    BY <1>0, <1>6, ReqFields DEF Connected, Closes
  <2>3. pc # "dns"
    BY <1>0, <1>6 DEF Connected, Closes, Stages, Outset
  <2> QED
    BY <1>4, <2>1, <2>2, <2>3 DEF Faultless
<1>7. CASE GivenUp
  BY <1>4, <1>7 DEF GivenUp
<1>9. CASE Forgotten
  <2>1. UNCHANGED <<kind, pc, silent, received, dns, req>> /\ pc \in {"reply", "sending", "idle"}
    BY <1>0, <1>9 DEF Forgotten, Callback, Stages
  <2> QED
    BY <1>4, <2>1 DEF Faultless
<1>8. CASE DataToFile \/ DataToMemory \/ DataToBus \/ TimeArrives
  <2>1. UNCHANGED <<kind, pc, silent, dns>> /\ pc # "dns" /\ pcb = "open"
    BY <1>0, <1>8, DataMoves DEF Stages, Outset
  <2>2. CASE UNCHANGED <<req, pcb, received>>
    BY <1>4, <2>1, <2>2 DEF Faultless
  <2>3. CASE DataToMemory
    <3>1. PICK n : /\ Arrives(n)
                   /\ received' = received + n \/ received' = received
      BY <2>3 DEF DataToMemory
    <3>2. n \in Nat /\ received \in Nat /\ received' \in Nat /\ received' >= received
      BY <1>0, <3>1, ArrivesType DEF WorkTyped
    <3>3. kind \notin Streams /\ Failed.complete
      BY <1>0, <2>3, ReqFields DEF DataToMemory, Streams
    <3>4. CASE received' >= BufSize
      <4>1. pcb' = "freed" /\ req' = Failed
        BY <2>3, <3>4 DEF DataToMemory
      <4> QED
        BY <1>4, <2>1, <3>3, <3>4, <4>1 DEF Faultless
    <3>5. CASE ~(received' >= BufSize)
      <4>1. UNCHANGED <<pcb, req>>
        BY <2>3, <3>5 DEF DataToMemory
      <4> QED
        BY <1>0, <1>4, <2>1, <3>2, <4>1 DEF Faultless
    <3> QED
      BY <3>4, <3>5
  <2>4. CASE TimeArrives
    <3>1. req'.complete /\ req'.error = req.error /\ UNCHANGED <<received, pcb>>
      BY <1>0, <2>4, ReqFields DEF TimeArrives
    <3> QED
      BY <1>4, <2>1, <3>1 DEF Faultless
  <2> QED
    BY <1>8, <2>2, <2>3, <2>4 DEF DataToFile, DataToBus
<1> QED
  BY <1>2, <1>5, <1>6, <1>7, <1>8, <1>9 DEF Outside, Network

\* No step fails by itself.
LEMMA NextKeepsFaultless ==
  ASSUME Held, Lookups, Faultless, [Next]_vars, ~derailed'
  PROVE  Faultless'
<1>0. ~Strays
  BY OnTrackBefore
<1>1. CASE UNCHANGED vars
  BY <1>1 DEF Faultless, Clean, vars, memVars, netVars, historyVars
<1>2. CASE HostStep
  BY <1>2, HostMovesNothing DEF Faultless, Clean
<1>3. CASE \E k \in Kinds : Start(k)
  BY <1>3 DEF Start, Faultless, Fresh
<1> QED
  BY <1>0, <1>1, <1>2, <1>3, HandlerKeepsFaultless, NetworkKeepsFaultless DEF Next, Outside
-----------------------------------------------------------------------------
(****************************************************************************)
(* The answers.                                                             *)
(****************************************************************************)
\* The inductive invariant: the order of bytes, and the truth of what is
\* answered.
Honest ==
    /\ Ordered
    /\ ~derailed => /\ Completed /\ FileKept /\ BufferKept /\ Uploaded
                    /\ Faultless /\ TheEnd

\* What is noted is a fault or a full buffer.
LEMMA NotedFaults == Noted <=> ~Clean \/ received >= BufSize
BY DEF Noted, Clean

\* What is noted stays noted, and what was told stays true.
LEMMA ToldStays ==
  ASSUME UNCHANGED <<kind, answer, pos, served, stored, sent, received>>,
         \A f : f \in happened => f \in happened'
  PROVE  /\ Noted => Noted'
         /\ \A s, p : Told(s, p) => Told(s, p)'
<1>1. Noted => Noted'
  BY DEF Noted
<1>2. ASSUME NEW s, NEW p, Told(s, p) PROVE Told(s, p)'
  <2>1. s # OK => p = <<>> /\ Noted'
    BY <1>1, <1>2 DEF Told
  <2>2. ASSUME s = OK
        PROVE  /\ pos' = Len(answer')
               /\ kind' = "get" => stored' = served' \/ happened' \cap {"write", "close"} # {}
               /\ kind' = "post" /\ "early" \notin happened' =>
                     Len(sent') = Len(FileData) /\ ("read" \notin happened' => sent' = FileData)
               /\ kind' = "download" /\ Len(served') <= BufSize =>
                     p = SubSeq(served', 1, AtMost(Len(served'), PayloadMax))
               /\ kind' = "time" => p = served'
    BY <1>2, <2>2 DEF Told
  <2> QED
    BY <2>1, <2>2 DEF Told
<1> QED
  BY <1>1, <1>2

\* While the 65C02 reads an answer, and while nothing runs, the network
\* changes nothing that was told.
LEMMA OutsideAtRest ==
  ASSUME Held, Outside, pc \in {"idle", "sending"}
  PROVE  UNCHANGED <<pc, kind, hpc, cnt, status, got, mainOut, answer, pos, served, stored, sent,
                     received>>
<1>1. pcb \notin {"connecting", "open"}
  BY DEF Held, Stages
<1>2. DnsFound \/ Broken \/ GivenUp \/ Forgotten
  BY <1>1, DataMoves DEF Held, Outside, Network, Connected, Closes, FallsSilent
<1>3. Callback
  BY <1>2 DEF DnsFound, Broken, GivenUp, Forgotten, ErrCallback
<1> QED
  BY <1>2, <1>3, CallsMoveNoData DEF Callback, hostVars

\* What of the end a step must show that changes nothing that was told.
LEMMA EndStays ==
  ASSUME TheEnd, \A f : f \in happened => f \in happened',
         UNCHANGED <<pc, kind, hpc, cnt, status, got, mainOut, answer, pos, served, stored, sent,
                     received>>
  PROVE  TheEnd'
<1>1. (Noted => Noted') /\ (\A s, p : Told(s, p) => Told(s, p)')
  BY ToldStays
<1>2. ASSUME NEW s \in Octet, NEW p \in Seq(Octet), AnswerFits(s, p)
      PROVE  AnswerFits(s, p)'
  <2>1. Answer(s, p)'
    BY <1>2 DEF AnswerFits, Answer
  <2> QED
    BY <1>2, <2>1 DEF AnswerFits
<1>3. CASE pc = "sending"
  <2>1. PICK s \in Octet, p \in Seq(Octet) : AnswerFits(s, p) /\ Told(s, p)
    BY <1>3 DEF TheEnd
  <2>2. AnswerFits(s, p)' /\ Told(s, p)'
    BY <1>1, <1>2, <2>1
  <2> QED
    BY <1>3, <2>2 DEF TheEnd
<1>4. CASE pc # "sending"
  BY <1>1, <1>4 DEF TheEnd
<1> QED
  BY <1>3, <1>4

\* Reading an answer makes it no less true.
LEMMA HostKeepsTheEnd ==
  ASSUME Held, Bus, TheEnd, HostStep
  PROVE  TheEnd'
<1>1. pc' = pc /\ (\A s, p : Told(s, p) => Told(s, p)')
  BY HostMovesNothing, ToldStays
<1>2. CASE pc = "sending"
  <2>1. PICK s \in Octet, p \in Seq(Octet) : AnswerFits(s, p) /\ Told(s, p)
    BY <1>2 DEF TheEnd
  <2>2. cbOut = <<>>
    BY <1>2 DEF Bus
  <2>3. AnswerFits(s, p)' /\ Told(s, p)'
    BY <1>1, <2>1, <2>2, ReadsAnswer DEF Held
  <2> QED
    BY <1>1, <1>2, <2>3 DEF TheEnd
<1>3. CASE pc = "idle"
  BY <1>3, HostReadsByte DEF Bus, Reads
<1>4. CASE pc \notin {"idle", "sending"}
  BY <1>1, <1>4 DEF TheEnd
<1> QED
  BY <1>2, <1>3, <1>4

\* What an answer that is written must show.
LEMMA SendsFits ==
  ASSUME pc' = "sending", NEW s \in Octet, NEW p \in Seq(Octet), AnswerFits(s, p)', Told(s, p)'
  PROVE  TheEnd'
BY DEF TheEnd

\* A refusal for a reason is true.
LEMMA RefusalEnds ==
  ASSUME Bus, NEW at \in Quiet, At(at), NEW s \in Octet, s # OK, Reply(s, <<>>), Noted'
  PROVE  TheEnd'
<1>1. hpc' = "status" /\ got' = <<>> /\ cbOut = <<>> /\ kind' = kind
  BY DEF At, Bus, hostVars
<1>2. AnswerFits(s, <<>>)' /\ pc' = "sending" /\ <<>> \in Seq(Octet)
  BY <1>1, EmptyReplyFits
<1>3. Told(s, <<>>)'
  BY DEF Told
<1> QED
  BY <1>2, <1>3, SendsFits

\* What the payload of DOWNLOAD_SIMPLE is.
LEMMA BufferIsAnswer ==
  ASSUME Held, BufferKept, kind = "download", Len(served) <= BufSize
  PROVE  [i \in 1..AtMost(received, PayloadMax) |-> http_buf[i]]
           = SubSeq(served, 1, AtMost(Len(served), PayloadMax))
<1>1. received = pos /\ Len(served) = pos /\ served \in Seq(Octet) /\ pos \in Nat
      /\ \A i \in 1..pos : http_buf[i] = served[i]
  BY DEF BufferKept, Held, Typed, Types, Placed, NetTyped
<1>2. PICK n \in Nat : n = AtMost(pos, PayloadMax) /\ n <= pos
  BY <1>1, BaseType DEF AtMost
<1>4. [i \in 1..n |-> http_buf[i]] = SubSeq(served, 1, n)
  <2>1. SubSeq(served, 1, n) = [i \in 1..n |-> served[i]]
    BY <1>1, <1>2
  <2>2. \A i \in 1..n : http_buf[i] = served[i]
    BY <1>1, <1>2
  <2> QED
    BY <2>1, <2>2
<1> QED
  BY <1>1, <1>2, <1>4

\* A POST that was answered has sent its file.
LEMMA AnsweredIsSent ==
  ASSUME Held, Uploaded, kind = "post", pc = "reply", ~req.error, pos # 0, "early" \notin happened
  PROVE  Len(sent) = Len(FileData) /\ ("read" \notin happened => sent = FileData)
<1>1. asked /\ Len(sent) = Len(FileData)
  BY DEF Uploaded
<1>2. ASSUME "read" \notin happened PROVE sent = FileData
  <2>1. sent = SubSeq(FileData, 1, Len(FileData))
    BY <1>1, <1>2 DEF Uploaded
  <2>2. SubSeq(FileData, 1, Len(FileData)) = FileData
    BY FileSize
  <2> QED
    BY <2>1, <2>2
<1> QED
  BY <1>1, <1>2

\* The result of a command is true.
LEMMA ResultIsTrue ==
  ASSUME Held, Bus, Completed, FileKept, BufferKept, Uploaded, Faultless, ReplyResult, ~derailed'
  PROVE  TheEnd'
<1>0. /\ pc = "reply" /\ kind \notin Streams /\ Typed /\ cbOut = <<>>
      /\ UNCHANGED <<kind, answer, pos, served, sent, req, received>>
      /\ hpc' = "status" /\ got' = <<>>
  BY DEF ReplyResult, At, Held, Typed, Placed, Bus, hostVars, answerVars, memVars
<1>1. OK \in Octet /\ ERR \in Octet /\ ERR # OK
  BY DEF OK, ERR, Octet
<1>2. kind # "none" /\ WorkTyped /\ NetTyped
  BY <1>0 DEF Typed, Types, Placed
<1>8. \A f : f \in happened => f \in happened'
  BY NothingUndone DEF Held, Handler
<1>9. FileKept'
  BY NextKeepsFileKept DEF Next, Handler
<1>3. CASE (req.error \/ ~req.complete) /\ Reply(ERR, <<>>)
  <2>1. AnswerFits(ERR, <<>>)' /\ pc' = "sending" /\ <<>> \in Seq(Octet)
    BY <1>0, <1>1, <1>3, EmptyReplyFits
  <2>2. Clean => received >= BufSize
    BY <1>0, <1>3 DEF Faultless
  <2>3. Noted
    BY <2>2, NotedFaults
  <2>4. Noted'
    BY <1>0, <1>8, <2>3 DEF Noted
  <2>5. Told(ERR, <<>>)'
    BY <1>1, <2>4 DEF Told
  <2> QED
    BY <1>1, <2>1, <2>5, SendsFits
<1>4. ASSUME ~req.error, req.complete
      PROVE  /\ pos' = Len(answer')
             /\ kind' = "get" => stored' = served' \/ happened' \cap {"write", "close"} # {}
             /\ kind' = "post" /\ "early" \notin happened' =>
                   Len(sent') = Len(FileData) /\ ("read" \notin happened' => sent' = FileData)
  <2>1. pos = Len(answer) /\ pos # 0
    BY <1>0, <1>2, <1>4, AnswerNotEmpty DEF Completed
  <2>2. kind' = "get" => stored' = served' \/ happened' \cap {"write", "close"} # {}
    BY <1>9 DEF FileKept
  <2>3. ASSUME kind' = "post", "early" \notin happened'
        PROVE  Len(sent') = Len(FileData) /\ ("read" \notin happened' => sent' = FileData)
    <3>1. kind = "post" /\ "early" \notin happened /\ ("read" \notin happened' => "read" \notin happened)
      BY <1>0, <1>8, <2>3
    <3> QED
      BY <1>0, <1>4, <2>1, <3>1, AnsweredIsSent
  <2> QED
    BY <1>0, <2>1, <2>2, <2>3
<1>5. CASE ~req.error /\ req.complete /\ kind \notin {"download", "time"} /\ Reply(OK, <<>>)
  <2>1. AnswerFits(OK, <<>>)' /\ pc' = "sending" /\ <<>> \in Seq(Octet)
    BY <1>0, <1>1, <1>5, EmptyReplyFits
  <2>2. Told(OK, <<>>)'
    BY <1>0, <1>4, <1>5 DEF Told
  <2> QED
    BY <1>1, <2>1, <2>2, SendsFits
<1>6. ASSUME NEW p \in Seq(Octet), Len(p) < Base * Base, Reply(OK, p), ~req.error, req.complete,
             kind = "time" => p = served,
             kind = "download" => p = [i \in 1..AtMost(received, PayloadMax) |-> http_buf[i]]
      PROVE  TheEnd'
  <2>1. AnswerFits(OK, p)' /\ pc' = "sending"
    BY <1>0, <1>1, <1>6, ReplyFits DEF Reply
  <2>3. kind = "download" /\ Len(served) <= BufSize =>
           p = SubSeq(served, 1, AtMost(Len(served), PayloadMax))
    BY <1>6, BufferIsAnswer
  <2>4. Told(OK, p)'
    BY <1>0, <1>4, <1>6, <2>3 DEF Told
  <2> QED
    BY <1>1, <2>1, <2>4, SendsFits
<1>7. \/ (req.error \/ ~req.complete) /\ Reply(ERR, <<>>)
      \/ ~req.error /\ req.complete /\ kind \notin {"download", "time"} /\ Reply(OK, <<>>)
      \/ /\ ~req.error /\ req.complete /\ kind \in {"download", "time"}
         /\ \E p \in Seq(Octet) :
              /\ Len(p) < Base * Base /\ Reply(OK, p)
              /\ kind = "time" => p = served
              /\ kind = "download" => p = [i \in 1..AtMost(received, PayloadMax) |-> http_buf[i]]
  BY ReplyPayload
<1> QED
  BY <1>3, <1>5, <1>6, <1>7

\* A stream that ends without a fault is complete.
LEMMA StreamComplete ==
  ASSUME Held, Order, Faultless, pc = "ending"
  PROVE  Noted \/ pos = Len(answer)
<1> SUFFICES ASSUME Clean PROVE pos = Len(answer)
  BY NotedFaults
<1>1. kind \in Streams
  BY DEF Held, Typed, Placed
<1>2. pcb \in {"open", "freed"} /\ ~req.error
  BY <1>1 DEF Order, Linked
<1>3. pcb # "freed" /\ req.complete
  BY <1>1, <1>2 DEF Faultless
<1> QED
  BY <1>1, <1>2, <1>3 DEF Order

\* Every answer of a handler is true.
LEMMA HandlerKeepsTheEnd ==
  ASSUME Held, Order, Bus, Completed, FileKept, BufferKept, Uploaded, Faultless, TheEnd, Handler,
         ~derailed'
  PROVE  TheEnd'
<1>0. Typed /\ Placed /\ UNCHANGED <<kind, answer, pos, served, received>>
      /\ (\A f : f \in happened => f \in happened')
  BY HandlerKeepsFlags, NothingUndone DEF Held, Typed
<1>1. ERR \in Octet /\ NO_FILE \in Octet /\ ERR # OK /\ NO_FILE # OK
  BY DEF OK, ERR, NO_FILE, Octet
<1>2. CASE OpenLocal \/ Unresolved \/ Resolved
  <2>1. PICK at \in Quiet : At(at)
    BY <1>2 DEF OpenLocal, Unresolved, Resolved, Quiet, Outset
  <2>2. CASE pc' \in {"lookup", "connect"}
    BY <2>2 DEF TheEnd
  <2>3. CASE pc' \notin {"lookup", "connect"}
    <3>1. \E s \in {ERR, NO_FILE} : Reply(s, <<>>)
      BY <1>2, <2>3 DEF OpenLocal, Unresolved, Resolved
    <3>2. Unresolved => Noted
      <4>1. Unresolved => pc = "unresolved"
        BY DEF Unresolved, At
      <4>2. Unresolved => ~Clean
        BY <4>1 DEF Faultless
      <4> QED
        BY <4>2, NotedFaults
    <3>3. Noted'
      <4>2. CASE Unresolved
        BY <1>0, <3>2, <4>2 DEF Noted
      <4>3. CASE OpenLocal \/ Resolved
        <5>1. \E f \in Noticed : Fault(f)
          BY <2>3, <4>3 DEF OpenLocal, Resolved, Noticed
        <5> QED
          BY <5>1 DEF Fault, Noted
      <4> QED
        BY <1>2, <4>2, <4>3
    <3> QED
      BY <1>1, <2>1, <3>1, <3>3, RefusalEnds
  <2> QED
    BY <2>2, <2>3
<1>3. CASE ReplyResult
  BY <1>3, ResultIsTrue
<1>4. CASE Replied
  <2>1. /\ pc = "sending" /\ mainOut = <<>> /\ pc' = "idle"
        /\ UNCHANGED <<status, got, sent, stored>>
    BY <1>4 DEF Replied, At, hostVars, fileVars
  <2>2. PICK s \in Octet, p \in Seq(Octet) : AnswerFits(s, p) /\ Told(s, p)
    BY <2>1 DEF TheEnd
  <2>3. status = s /\ got = p
    BY <2>1, <2>2, AnswerRead
  <2>4. Told(status, got) /\ (kind \in Streams => status # OK /\ got = <<>>)
    BY <2>2, <2>3 DEF AnswerFits
  <2>5. Told(status, got)'
    BY <1>0, <2>1, <2>4, ToldStays
  <2>6. kind \in Streams => Noted'
    <3>1. kind \in Streams => Noted
      BY <2>4 DEF Told
    <3> QED
      BY <1>0, <3>1 DEF Noted
  <2> QED
    BY <1>0, <2>1, <2>4, <2>5, <2>6 DEF TheEnd
<1>5. CASE StreamEnded
  <2>1. pc = "ending" /\ pc' = "idle" /\ UNCHANGED <<status, got>>
    BY <1>5 DEF StreamEnded, At, hostVars
  <2>2. kind \in Streams /\ status = OK /\ got = served
    BY <1>0, <2>1 DEF Bus, Placed
  <2>3. Noted \/ pos = Len(answer)
    BY <2>1, StreamComplete
  <2>4. Noted => Noted'
    BY <1>0 DEF Noted
  <2> QED
    BY <1>0, <2>1, <2>2, <2>3, <2>4 DEF TheEnd
<1>6. CASE Lookup \/ DnsWaitEnds \/ Connect \/ ConnectWaitEnds \/ Header \/ Ask \/ ReadChunk
           \/ SendChunk \/ BodyDone \/ TransferEnds \/ FinishStream \/ Finish
  <2>1. pc' \notin {"idle", "sending"}
    BY <1>6 DEF Lookup, DnsWaitEnds, Connect, ConnectWaitEnds, Header, Ask, ReadChunk,
       SendChunk, BodyDone, TransferEnds, FinishStream, Finish
  <2> QED
    BY <2>1 DEF TheEnd
<1> QED
  BY <1>2, <1>3, <1>4, <1>5, <1>6 DEF Handler

\* No step makes one untrue.
LEMMA NextKeepsTheEnd ==
  ASSUME Honest, [Next]_vars, ~derailed'
  PROVE  TheEnd'
<1>0. /\ ~Strays /\ Held /\ Order /\ Bus
      /\ Completed /\ FileKept /\ BufferKept /\ Uploaded /\ Faultless /\ TheEnd
  BY OnTrackBefore DEF Honest, Ordered
<1>1. CASE UNCHANGED vars
  <2>1. UNCHANGED <<pc, kind, hpc, cnt, status, got, mainOut, answer, pos, served, stored, sent,
                    received, happened>>
    BY <1>1 DEF vars, hostVars, busVars, memVars, fileVars, netVars, answerVars, historyVars
  <2> QED
    BY <1>0, <2>1, EndStays
<1>2. CASE \E k \in Kinds : Start(k)
  BY <1>2 DEF Start, TheEnd
<1>3. CASE Outside
  <2>1. pc' = pc /\ (\A f : f \in happened => f \in happened')
    BY <1>0, <1>3, OutsideMovesNoHandler, NothingUndone DEF Held
  <2>2. CASE pc \in {"idle", "sending"}
    BY <1>0, <1>3, <2>1, <2>2, OutsideAtRest, EndStays
  <2>3. CASE pc \notin {"idle", "sending"}
    BY <2>1, <2>3 DEF TheEnd
  <2> QED
    BY <2>2, <2>3
<1>4. CASE HostStep
  BY <1>0, <1>4, HostKeepsTheEnd
<1>5. CASE Handler
  BY <1>0, <1>5, HandlerKeepsTheEnd
<1> QED
  BY <1>0, <1>1, <1>2, <1>3, <1>4, <1>5 DEF Next, Outside

\* At the start nothing was told.
LEMMA InitHonest == Init => Honest
<1> SUFFICES ASSUME Init PROVE Honest
  OBVIOUS
<1>1. Ordered
  BY InitOrdered
<1>2. Completed /\ FileKept /\ BufferKept /\ Uploaded
  BY DEF Init, Completed, FileKept, BufferKept, Uploaded, Fresh
<1>3. Faultless /\ TheEnd
  BY DEF Init, Faultless, TheEnd, Fresh, Streams
<1> QED
  BY <1>1, <1>2, <1>3 DEF Honest

\* The invariant is inductive.
LEMMA NextKeepsHonest ==
  ASSUME Honest, [Next]_vars
  PROVE  Honest'
<1>1. Ordered'
  BY NextKeepsOrdered DEF Honest
<1>2. ASSUME ~derailed'
      PROVE  Completed' /\ FileKept' /\ BufferKept' /\ Uploaded' /\ Faultless' /\ TheEnd'
  <2>1. TheEnd'
    BY <1>2, NextKeepsTheEnd
  <2>2. /\ Held /\ Lookups
        /\ Completed /\ FileKept /\ BufferKept /\ Uploaded /\ Faultless
    BY <1>2, OnTrackBefore DEF Honest, Ordered
  <2>3. Completed' /\ FileKept' /\ BufferKept'
    BY <1>2, <2>2, NextKeepsCompleted, NextKeepsFileKept, NextKeepsBufferKept
  <2>4. Uploaded' /\ Faultless'
    BY <1>2, <2>2, NextKeepsUploaded, NextKeepsFaultless
  <2> QED
    BY <2>1, <2>3, <2>4
<1> QED
  BY <1>1, <1>2 DEF Honest

\* A 65C02 that waits for nothing has read its answer.
LEMMA WhereItIsRead ==
  ASSUME Typed, Bus, hpc = "idle", kind # "none"
  PROVE  pc \in {"sending", "ending", "idle"}
<1>1. Placed
  BY DEF Typed
<1>2. ~(pc = "ask" /\ kind \in Streams)
  BY DEF Bus, HeaderLeft
<1>3. ~(kind \in Streams /\ pc \in {"transfer", "finish"})
  BY DEF Bus, InFrame
<1>4. ~(pc \in Quiet \/ (kind \notin Streams /\ pc \in {"ask", "transfer", "finish", "reply"}))
  BY DEF Bus
<1>5. pc = "reply" => kind \notin Streams
  BY <1>1 DEF Placed
<1> QED
  BY <1>1, <1>2, <1>3, <1>4, <1>5 DEF Typed, Types, WorkTyped, Quiet, Outset

\* The invariant is what ReplyIsTrue asks for.
LEMMA HonestTellsTruth ==
  ASSUME Honest
  PROVE  ReplyIsTrue
<1> SUFFICES ASSUME ~derailed, hpc = "idle", kind # "none"
             PROVE  IF status = OK THEN Done /\ (Noted \/ pos = Len(answer))
                                   ELSE got = <<>> /\ Noted
  BY DEF ReplyIsTrue
<1>0. Typed /\ Placed /\ Bus /\ TheEnd /\ Held /\ Order /\ Faultless
  BY DEF Honest, Ordered, Held, Typed
<1>1. ASSUME kind \notin Streams, Told(status, got)
      PROVE  IF status = OK THEN Done /\ (Noted \/ pos = Len(answer)) ELSE got = <<>> /\ Noted
  BY <1>1 DEF Told, Done
<1>2. CASE pc = "sending"
  <2>1. PICK s \in Octet, p \in Seq(Octet) : AnswerFits(s, p) /\ Told(s, p)
    BY <1>0, <1>2 DEF TheEnd
  <2>2. status = s /\ got = p
    BY <2>1 DEF AnswerFits, Answer
  <2>3. Told(status, got) /\ (kind \in Streams => status # OK /\ got = <<>>)
    BY <2>1, <2>2 DEF AnswerFits
  <2> QED
    BY <1>1, <2>3 DEF Told
<1>3. CASE pc = "ending"
  <2>1. kind \in Streams /\ status = OK /\ got = served
    BY <1>0, <1>3 DEF Bus, Placed
  <2>2. Noted \/ pos = Len(answer)
    BY <1>0, <1>3, StreamComplete
  <2> QED
    BY <2>1, <2>2 DEF Done, Streams
<1>4. CASE pc = "idle" /\ kind \notin Streams
  BY <1>0, <1>1, <1>4 DEF TheEnd
<1>5. CASE pc = "idle" /\ kind \in Streams
  <2>1. \/ status = OK /\ got = served /\ (Noted \/ pos = Len(answer))
        \/ status # OK /\ got = <<>> /\ Noted
    BY <1>0, <1>5 DEF TheEnd
  <2> QED
    BY <1>5, <2>1 DEF Done, Streams
<1> QED
  BY <1>0, <1>2, <1>3, <1>4, <1>5, WhereItIsRead

\* ReplyIsTrue: when a command has ended, what the 65C02 was told is true, for
\* every answer, every cut of it into packets and every order of the handler's
\* steps and the callbacks: OK means what Done says, and an error has a reason
\* that main.c has seen; but not behind one of the three things that Derails
\* names.
THEOREM RepliesAreTrue == Spec => []ReplyIsTrue
<1>1. Init => Honest
  BY InitHonest
<1>2. Honest /\ [Next]_vars => Honest'
  BY NextKeepsHonest
<1>3. Honest => ReplyIsTrue
  BY HonestTellsTruth
<1> QED
  BY <1>1, <1>2, <1>3, PTL DEF Spec
=============================================================================
