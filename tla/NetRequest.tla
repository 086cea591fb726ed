----------------------------- MODULE NetRequest -----------------------------
(***************************************************************************)
(* The network commands of main.c, from the request of the 65C02 to the    *)
(* last byte of the answer:                                                *)
(*   "get"       NET_HTTP_GET: the body of the answer goes into a file     *)
(*   "post"      NET_HTTP_POST: a file is sent                             *)
(*   "download"  DOWNLOAD_SIMPLE: the answer is the payload                *)
(*   "news"      NET_NEWS: the titles are streamed in frames               *)
(*   "raw"       NET_WEATHER and NET_RLIST: the body is streamed in frames *)
(*   "time"      NET_TIME: an NTP request over UDP                         *)
(*                                                                         *)
(* Two programs run on the Pico: the handler, which waits in loops that    *)
(* count milliseconds, and the lwIP callbacks, which run in an interrupt   *)
(* (pico_cyw43_arch_lwip_threadsafe_background).  A callback may come      *)
(* between any two steps of the handler and runs to its end, the bytes it  *)
(* writes to the bus included.  They share the request record, the         *)
(* connection, http_buf and the bus.                                       *)
(*                                                                         *)
(* The bytes of the bus meet one at a time, the writer's with the reader's *)
(* (ByteLink, Session).  The wording of requests and the parsing of        *)
(* answers are left out: an answer is a header and then texts, a byte each *)
(* or a title each.  What may go wrong is in Faults, pairs of a command    *)
(* and a fault of the network or of the flash.                             *)
(*                                                                         *)
(* The request record lies on the handler's stack.  lwIP may call back for *)
(* it when the handler has returned: a lookup that took too long, and a    *)
(* connection that was closed, whose error callback is still registered.   *)
(* The record of the next command may lie at the same place (Strays).      *)
(***************************************************************************)
EXTENDS Naturals, Sequences

CONSTANTS
    Kinds,      \* the commands the user gives
    Answers,    \* Answers[k]: what servers may answer: sequences of texts
    FileData,   \* the file that POST sends
    Faults,     \* pairs <<command, fault>>
    BufSize,    \* 4096: sizeof(http_buf)
    PayloadMax, \* 4093: sizeof(resp_buf) - 3
    Base        \* 256: a length n travels as n % Base and n \div Base

AllKinds == {"get", "post", "download", "news", "raw", "time"}
Streams == {"news", "raw"}
\* What the code notices when it happens, and what it does not.
Noticed == {"open", "dns_error", "dns_fail", "dns_timeout", "no_pcb", "refuse",
            "connect_timeout", "reset", "stall", "send"}
Unnoticed == {"read", "write", "close", "early", "late", "stray"}
FaultNames == Noticed \cup Unnoticed

Octet == {n \in Nat : n < 256}

\* A title is cut to its buffer and the date is a short text: a length of
\* two bytes holds theirs.
NetAssumption ==
    /\ Kinds \subseteq AllKinds
    /\ \A k \in Kinds : \A a \in Answers[k] :
          /\ a \in Seq(Seq(Octet)) /\ a # <<>>
          /\ \A i \in DOMAIN a : Len(a[i]) < Base * Base /\ (k # "news" => Len(a[i]) = 1)
          /\ k = "time" => Len(a) < Base * Base
    /\ FileData \in Seq(Octet)
    /\ Faults \subseteq AllKinds \X FaultNames
    /\ BufSize \in Nat \ {0} /\ PayloadMax \in 0..BufSize /\ PayloadMax < Base * Base
    /\ Base \in Nat /\ 2 <= Base /\ Base <= 256
ASSUME NetAssumption

OK == 0
ERR == 255
NO_FILE == 2

VARIABLES
    kind,      \* the command
    \* the 65C02
    hpc,       \* what it reads next
    cnt,       \* bytes still to come: RESP_LEN or t_len_cnt
    status,    \* the status it was given
    got,       \* the payload, or the stream without its framing
    \* the handler
    pc,
    req,       \* the flags of http_req_t, news_req_t or ntp_req_t
    received,  \* http_req_t.received
    chunk,     \* POST: chunk_size
    http_buf,
    mainOut,   \* the bytes it is writing to the bus
    cbOut,     \* the bytes a callback is writing: it has preempted the handler
    fileOpen,  \* the handler's lfs_file_t is open
    stored,    \* GET: what was written to the local file
    \* lwIP and the network
    dns,       \* a query whose callback is still to come
    pcb,       \* the connection
    linked,    \* it was established at some time
    asked,     \* the server has the whole request
    answer, pos, served,  \* the answer, how many texts of it have come, their bytes
    sent,      \* POST: the bytes given to TCP
    silent,    \* nothing comes any more
    stray,     \* an earlier command has left lwIP something to call back for
    \* history
    happened,  \* the faults of this command, and "cached": a name lwIP knew
    derailed   \* see Derails

hostVars == <<hpc, cnt, status, got>>
busVars == <<mainOut, cbOut>>
memVars == <<received, chunk, http_buf>>
fileVars == <<fileOpen, stored>>
answerVars == <<answer, pos, served>>
netVars == <<dns, pcb, linked, asked, answerVars, sent, silent>>
historyVars == <<happened, derailed>>
vars == <<kind, hostVars, pc, req, memVars, busVars, fileVars, netVars, stray, historyVars>>

Flags == [complete : BOOLEAN, connected : BOOLEAN, error : BOOLEAN, dns_done : BOOLEAN]
Fresh == [complete |-> FALSE, connected |-> FALSE, error |-> FALSE, dns_done |-> FALSE]

HostReads == [status |-> "status", lo |-> "lo", hi |-> "hi", payload |-> "data",
              flo |-> "lo", fhi |-> "hi", fdata |-> "data"]
Tagged(t, s) == [i \in 1..Len(s) |-> [tag |-> t, val |-> s[i]]]
Length(n) == Tagged("lo", <<n % Base>>) \o Tagged("hi", <<n \div Base>>)
Response(s, p) == Tagged("status", <<s>>) \o Length(Len(p)) \o Tagged("data", p)

\* Mutant of Frame: the high byte of the length is left out.
FrameShort(s) == Tagged("lo", <<Len(s) % Base>>) \o Tagged("data", s)

\* stream_send_chunk and stream_end.
Frame(s) == Length(Len(s)) \o Tagged("data", s)
EOF == Length(0)

AtMost(m, n) == IF m <= n THEN m ELSE n
Put(buf, at, s) ==
    [i \in 1..BufSize |-> IF i \in (at + 1)..(at + Len(s)) THEN s[i - at] ELSE buf[i]]

CanFail(f) == <<kind, f>> \in Faults
Fault(f) == CanFail(f) /\ happened' = happened \cup {f}
NoFault == UNCHANGED happened

\* From here on the 65C02 may take bytes for what they are not.  Three things
\* do it: a callback writes frames while the handler does not wait for them,
\* or one that is empty; a stream ends that has not begun; a stray callback
\* finds the record of another command.
Derails(now) == derailed' = (derailed \/ now)
OnTrack == UNCHANGED derailed

TypeOK ==
    /\ kind \in Kinds \cup {"none"}
    /\ hpc \in {"idle"} \cup DOMAIN HostReads /\ cnt \in Nat
    /\ status \in Octet /\ got \in Seq(Octet)
    /\ pc \in {"idle", "open", "lookup", "dns", "unresolved", "resolved", "connect",
               "connecting", "header", "ask", "body", "chunk", "transfer", "finish",
               "ending", "reply", "sending"}
    /\ req \in Flags
    /\ received \in 0..BufSize /\ chunk \in 0..BufSize
    /\ http_buf \in [1..BufSize -> Octet]
    /\ \A q \in {mainOut, cbOut} :
          q \in Seq([tag : {"status", "lo", "hi", "data"}, val : Octet])
    /\ fileOpen \in BOOLEAN /\ stored \in Seq(Octet)
    /\ dns \in {"none", "pending"}
    /\ pcb \in {"none", "connecting", "open", "closed", "freed"}
    /\ {linked, asked, silent, stray, derailed} \subseteq BOOLEAN
    /\ happened \subseteq FaultNames \cup {"cached"}
    /\ answer \in Seq(Seq(Octet)) /\ pos \in 0..Len(answer)
    /\ served \in Seq(Octet) /\ sent \in Seq(Octet)
-----------------------------------------------------------------------------
(***************************************************************************)
(* The 65C02: a command, then the answer byte by byte.                     *)
(***************************************************************************)
\* (What earlier commands left in http_buf is not told apart.)
Start(k) ==
    /\ hpc = "idle" /\ pc = "idle" /\ k \in Kinds
    /\ kind' = k /\ hpc' = "status" /\ cnt' = 0 /\ status' = OK /\ got' = <<>>
    /\ pc' = CASE k = "get" -> "open" [] k = "download" -> "connect" [] OTHER -> "lookup"
    /\ req' = Fresh /\ received' = 0 /\ chunk' = 0 /\ stored' = <<>>
    /\ http_buf' = [i \in 1..BufSize |-> 0]
    /\ stray' = (stray \/ dns = "pending" \/ pcb = "closed")
    /\ dns' = "none" /\ pcb' = "none" /\ linked' = FALSE /\ asked' = FALSE
    /\ answer' \in Answers[k] /\ pos' = 0 /\ served' = <<>> /\ sent' = <<>>
    /\ silent' = FALSE /\ happened' = {} /\ OnTrack
    /\ UNCHANGED <<busVars, fileOpen>>

\* The byte on the bus: a callback that writes has stopped the handler.
Offered == IF cbOut # <<>> THEN cbOut ELSE mainOut
Byte == Head(Offered).val

TakeAt(at) ==
    /\ hpc = at /\ Offered # <<>>
    /\ IF cbOut # <<>> THEN cbOut' = Tail(cbOut) /\ UNCHANGED mainOut
                       ELSE mainOut' = Tail(mainOut) /\ UNCHANGED cbOut
    /\ UNCHANGED <<kind, pc, req, memVars, fileVars, netVars, stray, historyVars>>

TakeStatus ==
    TakeAt("status") /\ status' = Byte /\ hpc' = "lo" /\ UNCHANGED <<cnt, got>>
TakeLo == TakeAt("lo") /\ cnt' = Byte /\ hpc' = "hi" /\ UNCHANGED <<status, got>>

\* The streaming programs go on to the frames, pico_send_request to the
\* payload.
TakeHi ==
    /\ TakeAt("hi") /\ cnt' = cnt + Base * Byte
    /\ hpc' = IF kind \in Streams THEN (IF status = OK THEN "flo" ELSE "idle")
              ELSE IF cnt' = 0 THEN "idle" ELSE "payload"
    /\ UNCHANGED <<status, got>>

TakePayload ==
    /\ TakeAt("payload") /\ cnt' = cnt - 1 /\ got' = Append(got, Byte)
    /\ hpc' = IF cnt' = 0 THEN "idle" ELSE "payload"
    /\ UNCHANGED status

TakeFrameLo == TakeAt("flo") /\ cnt' = Byte /\ hpc' = "fhi" /\ UNCHANGED <<status, got>>

TakeFrameHi ==
    /\ TakeAt("fhi") /\ cnt' = cnt + Base * Byte
    /\ hpc' = IF cnt' = 0 THEN "idle" ELSE "fdata"
    /\ UNCHANGED <<status, got>>

TakeFrameData ==
    /\ TakeAt("fdata") /\ cnt' = cnt - 1 /\ got' = Append(got, Byte)
    /\ hpc' = IF cnt' = 0 THEN "flo" ELSE "fdata"
    /\ UNCHANGED status

HostStep ==
    \/ TakeStatus \/ TakeLo \/ TakeHi \/ TakePayload
    \/ TakeFrameLo \/ TakeFrameHi \/ TakeFrameData
-----------------------------------------------------------------------------
(***************************************************************************)
(* The handler: looking up the name and connecting.                        *)
(***************************************************************************)
\* The handler is at a place and no callback keeps it from going on.
At(at) == /\ pc = at /\ cbOut = <<>>
          /\ UNCHANGED <<kind, hostVars, answerVars, silent, stray>>

Reply(s, p) == mainOut' = Response(s, p) /\ pc' = "sending" /\ UNCHANGED cbOut

\* GET opens, and truncates, its file before anything else.
OpenLocal ==
    /\ At("open")
    /\ \/ Fault("open") /\ Reply(ERR, <<>>) /\ UNCHANGED fileOpen
       \/ NoFault /\ fileOpen' = TRUE /\ pc' = "lookup" /\ UNCHANGED busVars
    /\ UNCHANGED <<req, memVars, stored, dns, pcb, linked, asked, sent, derailed>>

\* ipaddr_aton or dns_gethostbyname.  A name in lwIP's cache is answered at
\* once and without a callback; the streaming commands look neither at that
\* result nor at an error.
Lookup ==
    /\ At("lookup")
    /\ \/ kind # "time" /\ pc' = "resolved" /\ NoFault /\ UNCHANGED <<req, dns>>
       \/ pc' = "dns" /\ dns' = "pending" /\ NoFault /\ UNCHANGED req
       \/ /\ happened' = happened \cup {"cached"} /\ pc' = "dns" /\ UNCHANGED dns
          /\ req' = [req EXCEPT !.dns_done = kind \notin Streams]
       \/ /\ Fault("dns_error") /\ pc' = "dns" /\ UNCHANGED dns
          /\ req' = [req EXCEPT !.error = kind \notin Streams]
    /\ UNCHANGED <<memVars, busVars, fileVars, pcb, linked, asked, sent, derailed>>

\* The wait ends with the callback, or after five seconds.
DnsWaitEnds ==
    /\ At("dns")
    /\ \/ (req.dns_done \/ req.error \/ dns = "none") /\ NoFault
       \/ dns = "pending" /\ Fault("dns_timeout")
    /\ pc' = IF req.dns_done /\ ~req.error THEN "resolved" ELSE "unresolved"
    /\ UNCHANGED <<req, memVars, busVars, fileVars, dns, pcb, linked, asked, sent, derailed>>

\* POST looks for its file before it reports the name.
Unresolved ==
    /\ At("unresolved")
    /\ \/ kind = "post" /\ Fault("open") /\ Reply(NO_FILE, <<>>)
       \/ NoFault /\ Reply(ERR, <<>>)
    /\ fileOpen' = FALSE
    /\ UNCHANGED <<req, memVars, stored, dns, pcb, linked, asked, sent, derailed>>

Resolved ==
    /\ At("resolved")
    /\ \/ kind = "post" /\ Fault("open") /\ Reply(NO_FILE, <<>>) /\ UNCHANGED fileOpen
       \/ kind \in Streams /\ Fault("no_pcb") /\ Reply(ERR, <<>>) /\ UNCHANGED fileOpen
       \/ /\ NoFault /\ pc' = "connect"
          /\ fileOpen' = (fileOpen \/ kind = "post")
          /\ UNCHANGED busVars
    /\ UNCHANGED <<req, memVars, stored, dns, pcb, linked, asked, sent, derailed>>

\* tcp_connect; NTP sends its datagram.
Connect ==
    /\ At("connect")
    /\ IF kind = "time" THEN pcb' = "open" /\ asked' = TRUE /\ pc' = "transfer"
       ELSE pcb' = "connecting" /\ pc' = "connecting" /\ UNCHANGED asked
    /\ UNCHANGED <<req, memVars, busVars, fileVars, dns, linked, sent, historyVars>>

\* Five seconds at most.  Without a connection all go straight to the end; a
\* stream ends there which the 65C02 does not know of.
ConnectWaitEnds ==
    /\ At("connecting")
    /\ \/ req.connected \/ req.error \/ silent
       \/ kind \in Streams /\ req.complete
    /\ pc' = IF ~req.connected THEN "finish"
             ELSE CASE kind \in Streams -> "header"
                    [] kind = "post" -> "body"
                    [] OTHER -> "ask"
    /\ Derails(kind \in Streams /\ ~req.connected)
    /\ UNCHANGED <<req, memVars, busVars, fileVars, dns, pcb, linked, asked, sent, happened>>

-----------------------------------------------------------------------------
(***************************************************************************)
(* The handler: request, transfer and answer.                              *)
(***************************************************************************)
\* The streaming commands tell the 65C02 that frames will follow.
Header ==
    /\ At("header")
    /\ mainOut' = Response(OK, <<>>) /\ pc' = "ask" /\ UNCHANGED cbOut
    /\ UNCHANGED <<req, memVars, fileVars, dns, pcb, linked, asked, sent, historyVars>>

\* tcp_write and tcp_output, which do nothing for a dead connection.
Ask ==
    /\ At("ask") /\ mainOut = <<>>
    /\ asked' = (pcb = "open") /\ pc' = "transfer"
    /\ UNCHANGED <<req, memVars, busVars, fileVars, dns, pcb, linked, sent, historyVars>>

Rest == Len(FileData) - Len(sent)

\* A chunk of n bytes of which a failing lfs_file_read reads m: its result is
\* not looked at, and n bytes of http_buf are sent.
ChunkOf(n) ==
    /\ chunk' = n
    /\ \E m \in 0..n :
         /\ IF m = n THEN NoFault ELSE Fault("read")
         /\ http_buf' = Put(http_buf, 0, SubSeq(FileData, Len(sent) + 1, Len(sent) + m))

\* Mutant of ReadChunk: a chunk may be larger than the buffer.
ReadChunkUnbounded ==
    /\ At("body") /\ Rest > 0 /\ ~req.error /\ ~silent
    /\ \E n \in 1..Rest : ChunkOf(n)
    /\ pc' = "chunk"
    /\ UNCHANGED <<req, received, busVars, fileVars, dns, pcb, linked, asked, sent, derailed>>

\* POST: as much of the file as TCP has room for, by way of http_buf.  The
\* send buffer of a silent connection is full, and the loop that waits for
\* room has no limit.
ReadChunk ==
    /\ At("body") /\ Rest > 0 /\ ~req.error /\ ~silent
    /\ \E n \in 1..AtMost(Rest, BufSize) : ChunkOf(n)
    /\ pc' = "chunk"
    /\ UNCHANGED <<req, received, busVars, fileVars, dns, pcb, linked, asked, sent, derailed>>

SendChunk ==
    /\ At("chunk")
    /\ \/ /\ Fault("send") /\ req' = [req EXCEPT !.error = TRUE]
          /\ pc' = "transfer" /\ UNCHANGED sent
       \/ /\ NoFault /\ sent' = sent \o SubSeq(http_buf, 1, chunk)
          /\ pc' = "body" /\ UNCHANGED req
    /\ UNCHANGED <<memVars, busVars, fileVars, dns, pcb, linked, asked, derailed>>

BodyDone ==
    /\ At("body") /\ (Rest = 0 \/ req.error)
    /\ pc' = "transfer" /\ asked' = (pcb = "open")
    /\ UNCHANGED <<req, memVars, busVars, fileVars, dns, pcb, linked, sent, historyVars>>

\* Mutant of TransferEnds: the wait has no limit.
TransferEndsNever ==
    /\ At("transfer")
    /\ \/ pc' = "finish" /\ req.complete
       \/ pc' = "finish" /\ kind \in Streams \cup {"post"} /\ req.error
       \/ pc' = pc /\ silent
    /\ UNCHANGED <<req, memVars, busVars, fileVars, dns, pcb, linked, asked, sent, historyVars>>

\* Five, ten or twenty seconds at most.
TransferEnds ==
    /\ At("transfer")
    /\ \/ req.complete \/ silent
       \/ kind \in Streams \cup {"post"} /\ req.error
    /\ pc' = "finish"
    /\ UNCHANGED <<req, memVars, busVars, fileVars, dns, pcb, linked, asked, sent, historyVars>>

\* tcp_close or udp_remove: no data come any more.  A connection that was
\* established says goodbye by itself now; until it has, it may still call
\* http_err_cb.
Close == pcb' = IF pcb = "open" /\ kind # "time" THEN "closed" ELSE "freed"

\* stream_end, and then tcp_close.
FinishStream ==
    /\ At("finish") /\ kind \in Streams
    /\ mainOut' = EOF /\ pc' = "ending" /\ UNCHANGED cbOut
    /\ UNCHANGED <<req, memVars, fileVars, dns, pcb, linked, asked, sent, historyVars>>

StreamEnded ==
    /\ At("ending") /\ mainOut = <<>>
    /\ Close /\ pc' = "idle"
    /\ UNCHANGED <<req, memVars, busVars, fileVars, dns, linked, asked, sent, historyVars>>

Finish ==
    /\ At("finish") /\ kind \notin Streams
    /\ Close /\ pc' = "reply"
    /\ UNCHANGED <<req, memVars, busVars, fileVars, dns, linked, asked, sent, historyVars>>

\* lfs_file_close commits what was written, unless it fails or the last write
\* did: nothing of the answer is in the file then.  Its result is not looked
\* at.
Committed ==
    \/ NoFault /\ (stored' = stored \/ ("write" \in happened /\ stored' = <<>>))
    \/ kind = "get" /\ Fault("close") /\ stored' = <<>>

\* Mutant of ReplyResult: a wait that timed out is not an error.
ReplyResultLate ==
    /\ At("reply")
    /\ fileOpen' = FALSE /\ Committed
    /\ Reply(IF req.error THEN ERR ELSE OK, <<>>)
    /\ UNCHANGED <<req, memVars, dns, pcb, linked, asked, sent, derailed>>

\* Mutant of ReplyResult: GET returns on an error without closing its file.
ReplyResultLeaks ==
    /\ At("reply")
    /\ fileOpen' = (fileOpen /\ req.error) /\ Committed
    /\ Reply(IF req.error \/ ~req.complete THEN ERR ELSE OK, <<>>)
    /\ UNCHANGED <<req, memVars, dns, pcb, linked, asked, sent, derailed>>

\* The file is closed, and the result answered: the date, or what
\* http_buf holds as far as it fits a response, or nothing.
ReplyResult ==
    /\ At("reply")
    /\ fileOpen' = FALSE /\ Committed
    /\ IF req.error \/ ~req.complete THEN Reply(ERR, <<>>)
       ELSE CASE kind = "download" -> Reply(OK, [i \in 1..AtMost(received, PayloadMax) |-> http_buf[i]])
              [] kind = "time" -> Reply(OK, served)
              [] OTHER -> Reply(OK, <<>>)
    /\ UNCHANGED <<req, memVars, dns, pcb, linked, asked, sent, derailed>>

Replied ==
    /\ At("sending") /\ mainOut = <<>>
    /\ pc' = "idle"
    /\ UNCHANGED <<req, memVars, busVars, fileVars, dns, pcb, linked, asked, sent, historyVars>>

Handler ==
    \/ OpenLocal \/ Lookup \/ DnsWaitEnds \/ Unresolved \/ Resolved
    \/ Connect \/ ConnectWaitEnds \/ Header \/ Ask
    \/ ReadChunk \/ SendChunk \/ BodyDone \/ TransferEnds
    \/ FinishStream \/ StreamEnded \/ Finish \/ ReplyResult \/ Replied
-----------------------------------------------------------------------------
(***************************************************************************)
(* The network and the lwIP callbacks.                                     *)
(***************************************************************************)
\* A callback starts; only one runs at a time.
Callback ==
    cbOut = <<>> /\ UNCHANGED <<kind, hostVars, pc, mainOut, chunk, fileOpen, sent, stray>>
Coming == ~silent \/ CanFail("late")

\* http_dns_found_cb, dns_found_cb.
DnsFound ==
    /\ Callback /\ dns = "pending"
    /\ dns' = "none"
    /\ \/ NoFault /\ req' = [req EXCEPT !.dns_done = TRUE]
       \/ Fault("dns_fail") /\ req' = [req EXCEPT !.dns_done = TRUE, !.error = TRUE]
    /\ UNCHANGED <<received, http_buf, cbOut, stored, pcb, linked, asked, answerVars, silent, derailed>>

\* http_connected_cb, news_connected_cb.
Connected ==
    /\ Callback /\ pcb = "connecting" /\ Coming
    /\ pcb' = "open" /\ linked' = TRUE
    /\ req' = [req EXCEPT !.connected = TRUE]
    /\ UNCHANGED <<received, http_buf, cbOut, stored, dns, asked, answerVars, silent, historyVars>>

\* http_err_cb: the flags of an http_req_t.  In a news_req_t the third one,
\* which is set for the error, is "connected".
Failed == IF kind \in Streams THEN [req EXCEPT !.complete = TRUE, !.connected = TRUE]
                              ELSE [req EXCEPT !.complete = TRUE, !.error = TRUE]

\* lwIP has freed the pcb when it calls http_err_cb.
ErrCallback ==
    /\ Callback /\ kind # "time"
    /\ pcb' = "freed" /\ req' = Failed
    /\ UNCHANGED <<received, http_buf, cbOut, stored, dns, linked, asked, answerVars, silent, derailed>>

\* The connection is refused or reset by the server, also when the handler
\* has closed it.
Broken ==
    /\ ErrCallback
    /\ \/ pcb = "connecting" /\ Fault("refuse")
       \/ pcb \in {"open", "closed"} /\ Fault("reset")

\* TCP gives up a server that does not acknowledge the file, or the end of the
\* connection.  It never gives up one that does but takes nothing.
GivenUp ==
    /\ ErrCallback /\ silent /\ NoFault
    /\ (pcb = "open" /\ pc = "body") \/ pcb = "closed"

\* A closed connection has come to its end: nothing is called.
Forgotten ==
    /\ Callback /\ pcb = "closed" /\ pcb' = "freed"
    /\ UNCHANGED <<req, received, http_buf, cbOut, stored, dns, linked, asked, answerVars,
                   silent, historyVars>>

\* The next n texts of the answer arrive in one packet, whose length is a
\* uint16_t.  Files and streams are given the texts after the header,
\* http_buf everything.  The titles of a packet are handled one after the
\* other, here in a packet each.
PacketSizes == CASE kind = "news" -> {1}
                 [] kind = "time" -> {Len(answer) - pos}
                 [] OTHER -> 1..AtMost(Len(answer) - pos, Base * Base - 1)
Payload(n) ==
    LET skip == IF pos = 0 /\ kind \in Streams \cup {"get"} THEN 1 ELSE 0 IN
    IF kind # "news" THEN [i \in 1..(n - skip) |-> answer[pos + skip + i][1]]
    ELSE IF pos = 0 THEN <<>> ELSE answer[pos + 1]

\* What TCP delivers: the server has the request, or answers early.  It has
\* answered once the answer has been sent.
Arrives(n) ==
    /\ Callback /\ pcb = "open" /\ Coming /\ pos < Len(answer)
    /\ asked \/ (linked /\ CanFail("early"))
    /\ n \in PacketSizes
    /\ pos' = pos + n /\ served' = served \o Payload(n)
    /\ UNCHANGED <<dns, linked, asked, answer, silent>>
Notes(fs) == happened' = happened \cup fs \cup (IF asked THEN {} ELSE {"early"})

\* http_recv_cb with a file.  Whether lfs_file_write has worked is not looked
\* at.
DataToFile ==
    /\ kind = "get"
    /\ \E n \in PacketSizes :
         /\ Arrives(n)
         /\ \/ Notes({}) /\ stored' = stored \o Payload(n)
            \/ /\ CanFail("write") /\ Notes({"write"})
               /\ \E m \in 0..(Len(Payload(n)) - 1) : stored' = stored \o SubSeq(Payload(n), 1, m)
    /\ UNCHANGED <<req, received, http_buf, cbOut, pcb, derailed>>

\* http_recv_cb with http_buf: a packet that does not fit is dropped, and a
\* full buffer ends the connection with an error.
DataToMemory ==
    /\ kind \in {"download", "post"}
    /\ \E n \in PacketSizes :
         /\ Arrives(n)
         /\ IF received + n <= BufSize
            THEN /\ http_buf' = Put(http_buf, received, Payload(n))
                 /\ received' = received + n
            ELSE UNCHANGED <<http_buf, received>>
    /\ IF received' >= BufSize THEN pcb' = "freed" /\ req' = Failed
                               ELSE UNCHANGED <<pcb, req>>
    /\ Notes({}) /\ UNCHANGED <<cbOut, stored, derailed>>

\* news_recv_cb: a frame for every title.  weather_recv_cb: a frame for what
\* a packet holds of the body.  The handler should be in its wait for them, or
\* just behind it; an empty frame is what ends a stream.
DataToBus ==
    /\ kind \in Streams
    /\ \E n \in PacketSizes :
         /\ Arrives(n)
         /\ cbOut' = IF (kind = "news" /\ pos > 0) \/ Payload(n) # <<>>
                     THEN Frame(Payload(n)) ELSE <<>>
         /\ Derails(pc \notin {"transfer", "finish"} \/ cbOut' = EOF)
    /\ Notes({}) /\ UNCHANGED <<req, received, http_buf, stored, pcb>>

\* ntp_recv_cb.  (What is not an answer of 48 bytes it ignores: nothing
\* changes.)
TimeArrives ==
    /\ kind = "time"
    /\ \E n \in PacketSizes : Arrives(n)
    /\ req' = [req EXCEPT !.complete = TRUE]
    /\ Notes({}) /\ UNCHANGED <<received, http_buf, cbOut, stored, pcb, derailed>>

\* The server closes the connection after its answer: the callback is
\* called without data.
Closes ==
    /\ Callback /\ kind # "time" /\ pcb = "open" /\ Coming
    /\ pos = Len(answer) /\ ~req.complete
    /\ req' = [req EXCEPT !.complete = TRUE]
    /\ UNCHANGED <<received, http_buf, cbOut, stored, dns, pcb, linked, asked,
                   answerVars, silent, historyVars>>

Network ==
    \/ DnsFound \/ Connected
    \/ DataToFile \/ DataToMemory \/ DataToBus \/ TimeArrives \/ Closes

\* The server stops answering.
FallsSilent ==
    /\ ~silent
    /\ \/ pcb = "connecting" /\ Fault("connect_timeout")
       \/ pcb = "open" /\ Fault("stall")
    /\ silent' = TRUE
    /\ UNCHANGED <<kind, hostVars, pc, req, memVars, busVars, fileVars, dns, pcb,
                   linked, asked, answerVars, sent, stray, derailed>>

\* A callback for the record of an earlier command raises flags of the record
\* that lies there now.  (It may hit other variables of the handler, too, or
\* nothing.)
Strays ==
    /\ stray /\ CanFail("stray") /\ derailed' = TRUE
    /\ req' \in Flags /\ \A f \in DOMAIN req : req[f] => req'[f]
    /\ UNCHANGED <<kind, hostVars, pc, memVars, busVars, fileVars, netVars, stray, happened>>
-----------------------------------------------------------------------------
Init ==
    /\ kind = "none" /\ hpc = "idle" /\ cnt = 0 /\ status = OK /\ got = <<>>
    /\ pc = "idle" /\ req = Fresh /\ received = 0 /\ chunk = 0
    /\ http_buf = [i \in 1..BufSize |-> 0]
    /\ mainOut = <<>> /\ cbOut = <<>> /\ fileOpen = FALSE /\ stored = <<>>
    /\ dns = "none" /\ pcb = "none" /\ linked = FALSE /\ asked = FALSE
    /\ answer = <<>> /\ pos = 0 /\ served = <<>> /\ sent = <<>>
    /\ silent = FALSE /\ stray = FALSE /\ happened = {} /\ derailed = FALSE

Next == (\E k \in Kinds : Start(k)) \/ HostStep \/ Handler
        \/ Network \/ Broken \/ GivenUp \/ Forgotten \/ FallsSilent \/ Strays

Spec == Init /\ [][Next]_vars

\* The two programs run, and the network delivers until it falls silent;
\* nothing need ever go wrong, nor come to an end by itself that has.
Fairness == WF_vars(HostStep) /\ WF_vars(Handler) /\ WF_vars(Network)
FairSpec == Spec /\ Fairness
-----------------------------------------------------------------------------
(***************************************************************************)
(* Properties.                                                             *)
(***************************************************************************)
\* Handler and callback share the bus, and the 65C02 takes every byte for
\* what was meant: no status for a length, no length for data, whoever of
\* the two writes it.  When it has its answer no byte of it is left, which
\* would be taken for the next one.  So it is until one of three things
\* happens (Derails): two writers that do not wait for one another, a stream
\* that ends before it begins, a callback for a record that is no more.
BytesMatched ==
    ~derailed /\ Offered # <<>> => hpc # "idle" /\ HostReads[hpc] = Head(Offered).tag

\* What an answer of OK says was done, and what it does not say because main.c
\* does not look: that the flash has taken the body of a GET or given the file
\* of a POST; that the server has not answered while http_buf held a part of
\* that file; that an answer was not too long for http_buf.
Done ==
    /\ kind \notin Streams => pos = Len(answer)
    /\ kind = "get" => stored = served \/ happened \cap {"write", "close"} # {}
    /\ kind = "post" /\ "early" \notin happened =>
          Len(sent) = Len(FileData) /\ ("read" \notin happened => sent = FileData)
    /\ kind = "download" /\ Len(served) <= BufSize =>
          got = SubSeq(served, 1, AtMost(Len(served), PayloadMax))
    /\ kind \in Streams \cup {"time"} => got = served

\* A streaming command that has failed before streaming starts answers with
\* an error: OK goes out only after a connection.
FailsBeforeStreaming ==
    kind \in Streams /\ hpc \notin {"idle", "status"} => (status = OK => linked)

\* Something has gone wrong that main.c sees.  A name that lwIP knows already
\* is nothing wrong, but the streaming commands wait five seconds for a
\* callback that never comes; an answer that fills http_buf is an error.
Noted ==
    \/ happened \cap Noticed # {}
    \/ kind \in Streams /\ "cached" \in happened
    \/ received >= BufSize

\* What a command has answered when it has ended is true, in every order of
\* the handler's steps and the callbacks.  OK: what it stands for is done, and
\* a stream the 65C02 has read to its end is all that the server has sent, in
\* its order, up to the end of the answer if nothing was noted.  An error:
\* there is no payload, and there was a reason.
ReplyIsTrue ==
    ~derailed /\ hpc = "idle" /\ kind # "none" =>
        IF status = OK THEN Done /\ (Noted \/ pos = Len(answer))
                       ELSE got = <<>> /\ Noted

\* A handler that answers has closed its file, and its connection: no data
\* come for it any more, and while they may come for a GET its file is open.
\* What main.c does not take back is the callback of a lookup that took too
\* long, and http_err_cb of a connection that was open ("closed"); both come
\* as Strays.
NothingOutlives ==
    /\ pc \in {"idle", "sending"} =>
        /\ ~fileOpen /\ pcb \notin {"connecting", "open"}
        /\ dns = "pending" => "dns_timeout" \in happened \/ derailed
    /\ kind = "get" /\ pcb \in {"connecting", "open"} => fileOpen

\* A POST to a server that falls silent in the middle of the file, and the
\* bytes that were taken for what they were not.
Stuck == (kind = "post" /\ pc = "body" /\ silent) \/ derailed

\* Every command ends, for the 65C02 and for the handler, whatever fails and
\* whoever falls silent, but for what Stuck names: of all waits in main.c
\* one has no limit.
CommandsEnd == []<>(hpc = "idle" /\ pc = "idle") \/ <>[]Stuck
=============================================================================
