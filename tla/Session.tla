------------------------------ MODULE Session ------------------------------
(***************************************************************************)
(* The command protocol between the 65C02 and the Pico W, above the byte   *)
(* link: who sends and who reads at every point of a command, and what the *)
(* flash holds afterwards.  The 65C02 side is pico_send_request            *)
(* (pico_lib.s) and the shell and Forth routines that stream bytes around  *)
(* it; the Pico side is the main loop of main.c with its streaming states. *)
(*                                                                         *)
(* Both sides reach the other only by the calls of ByteLink, which carries *)
(* no direction: each side keeps its own count of what is still to come.   *)
(* A byte is written with a tag that says what the sender means by it.  No *)
(* program step looks at the tag; CallsMatched compares it with what the   *)
(* reader takes the byte for.                                              *)
(*                                                                         *)
(* One file and one Forth block stand for the file system, file names and  *)
(* block numbers for one byte each.  LittleFS is external: a call of it    *)
(* fails only if Faults names it.                                          *)
(***************************************************************************)
EXTENDS Naturals, Sequences

CONSTANTS
    Base,        \* 256: a length n travels as n % Base and n \div Base
    Data,        \* the values of file bytes
    BufSize,     \* 4096: sizeof(resp_buf)
    RespMax,     \* 1024: the largest payload pico_send_request accepts
    ForthSize,   \* 1024: bytes of a Forth block
    MaxLen,      \* bound: the longest file the disk holds at the start
    MaxListing,  \* bound: the longest directory listing
    RunLengths,  \* the lengths of the files the user gives to RUN
    Programs,    \* the 65C02 routines the user may start
    Faults       \* the LittleFS calls that may fail; "lastWrite" is the write
                 \* that ends a SAVEMEM or a block, "write" is any

Octet == {n \in Nat : n < 256}

SessionAssumption ==
    /\ Base \in Nat /\ 2 <= Base /\ Base <= 256 /\ Data \subseteq Octet /\ 0 \in Data
    /\ BufSize \in Nat /\ RespMax \in Nat /\ ForthSize \in 1..RespMax
    /\ RespMax < Base * Base /\ ForthSize <= BufSize
    /\ MaxLen \in Nat /\ MaxListing \in 1..(Base * Base - 1)
    /\ RunLengths \subseteq Nat
    /\ Programs \subseteq {"savemem", "loadmem", "run", "dir", "catalog",
                           "forthRead", "forthWrite", "other"}
    /\ Faults \subseteq {"open", "write", "lastWrite", "read", "close"}
ASSUME SessionAssumption

\* 65535: what a uint16_t length, and stream_bytes_remaining, can hold.
StreamCap == Base * Base - 1

Commands == [list |-> 17, stat |-> 31, savemem |-> 35, loadmem |-> 36,
             listSize |-> 41, forthRead |-> 80, forthWrite |-> 81,
             other |-> 127]
OK == 0
ERR == 255
NO_FILE == 2

Byte == [tag : {"none", "cmd", "len", "arg", "status", "lo", "hi", "data"},
         val : Octet]
Nothing == [tag |-> "none", val |-> 0]

VARIABLES
    host, pico,            \* the calls the two sides are in (ByteLink)
    hpc,                   \* what the 65C02 is doing
    prog,                  \* the routine it runs
    cmd,                   \* the command it has sent
    hout,                  \* the bytes it has still to send
    data,                  \* the memory it saves
    got,                   \* the payload or stream bytes it has received
    status, cnt,           \* LAST_STATUS; RESP_LEN or savemem_cnt
    ppc,                   \* where the Pico is in its main loop
    current_state,         \* the streaming state
    cmd_id, arg_len, args, \* the request
    out, after,            \* the bytes to write, and where that leads
    buf,                   \* the bytes of resp_buf in use while streaming
    remaining,             \* stream_bytes_remaining
    stream_file_is_open,
    file,                  \* the LittleFS state of stream_file
    fileName, fileData,    \* its name; what was written to it or is unread
    dir, disk,             \* the names that exist and what they hold
    fs_mounted,
    listing                \* the length of the directory listing

INSTANCE ByteLink WITH Zero <- Nothing

hostVars == <<hpc, prog, cmd, hout, data, got, status, cnt>>
streamVars == <<current_state, buf, remaining, stream_file_is_open,
                file, fileName, fileData>>
diskVars == <<dir, disk>>
requestVars == <<cmd_id, arg_len, args>>
picoVars == <<ppc, requestVars, out, after, streamVars, diskVars>>
worldVars == <<fs_mounted, listing>>
vars == <<host, pico, hostVars, picoVars, worldVars>>

Names == {"file", "block"}
SomeName == 1                    \* a path, as it appears in ARG_BUFF

\* What each side takes the next byte for, by what it is doing.
HostReads == [status |-> "status", lo |-> "lo", hi |-> "hi",
              payload |-> "data", load |-> "data",
              fstatus |-> "status", flo |-> "lo", fhi |-> "hi"]
PicoReads == [cmd |-> "cmd", len |-> "len", args |-> "arg",
              save |-> "data", forth |-> "data"]

Tagged(t, s) == [i \in 1..Len(s) |-> [tag |-> t, val |-> s[i]]]
Length(n) == Tagged("lo", <<n % Base>>) \o Tagged("hi", <<n \div Base>>)
Request(c, as) == Tagged("cmd", <<c>>) \o Tagged("len", <<Len(as)>>)
                      \o Tagged("arg", as)
Response(s, n) == Tagged("status", <<s>>) \o Length(n)

Zeros(n) == [i \in 1..n |-> 0]
One(b) == IF b THEN 1 ELSE 0
AtMost(m, n) == IF m <= n THEN m ELSE n

TypeOK ==
    /\ LinkTypeOK
    /\ hpc \in {"idle", "request", "stream"} \cup DOMAIN HostReads
    /\ prog \in Programs \cup {"none"}
    /\ cmd \in Nat /\ hout \in Seq(Byte) /\ data \in Seq(Octet)
    /\ got \in Seq(Octet) /\ status \in Octet /\ cnt \in Nat
    /\ ppc \in {"top", "exec", "send", "forthLoop"} \cup DOMAIN PicoReads
    /\ current_state \in {"IDLE", "SAVEMEM", "LOADMEM", "FORTH"}
    /\ cmd_id \in Octet /\ arg_len \in Octet /\ args \in Seq(Octet)
    /\ out \in Seq(Byte) /\ after \in {"top", "forthLoop"}
    /\ buf \in Seq(Octet) /\ remaining \in 0..StreamCap
    /\ stream_file_is_open \in BOOLEAN
    /\ file \in {"closed", "read", "write"} /\ fileName \in Names
    /\ fileData \in Seq(Octet)
    /\ dir \subseteq Names /\ disk \in [Names -> Seq(Octet)]
    /\ fs_mounted \in BOOLEAN /\ listing \in 1..MaxListing
-----------------------------------------------------------------------------
(***************************************************************************)
(* The 65C02.                                                              *)
(***************************************************************************)
Ask(c, as) ==
    /\ hpc' = "request"
    /\ cmd' = c
    /\ hout' = Request(c, as)
    /\ got' = <<>>

\* The user starts a routine; d is the memory it will stream out.
Start(p, c, as, d) ==
    /\ hpc = "idle" /\ p \in Programs
    /\ prog' = p /\ data' = d
    /\ Ask(c, as)
    /\ UNCHANGED <<host, pico, status, cnt, picoVars, worldVars>>

Memory(n) == [1..n -> Data]

StartSavemem == \E n \in 1..AtMost(MaxLen, StreamCap) : \E d \in Memory(n) :
    Start("savemem", Commands.savemem, <<SomeName, n % Base, n \div Base>>, d)
\* LOADMEM and RUN look for the file before they ask for it.
StartLoadmem == Start("loadmem", Commands.stat, <<SomeName>>, <<>>)
StartRun == /\ "file" \in dir => Len(disk["file"]) \in RunLengths
            /\ Start("run", Commands.stat, <<SomeName>>, <<>>)
\* DIR asks for the size of the listing before it asks for the listing.
StartDir == Start("dir", Commands.listSize, <<SomeName>>, <<>>)
StartCatalog == Start("catalog", Commands.list, <<SomeName>>, <<>>)
StartForthRead == Start("forthRead", Commands.forthRead, <<0, 0>>, <<>>)
StartForthWrite == \E d \in Memory(ForthSize) :
    Start("forthWrite", Commands.forthWrite, <<0, 0>>, d)
StartOther == Start("other", Commands.other, <<>>, <<>>)

StartProgram ==
    \/ StartSavemem \/ StartLoadmem \/ StartRun
    \/ StartDir \/ StartCatalog
    \/ StartForthRead \/ StartForthWrite \/ StartOther

SendNext ==
    /\ hpc \in {"request", "stream"} /\ hout # <<>>
    /\ HostSend(Head(hout))
    /\ hout' = Tail(hout)
    /\ UNCHANGED <<hpc, prog, cmd, data, got, status, cnt, picoVars, worldVars>>

SendReturns ==
    /\ host.op = "send" /\ HostReturn
    /\ hpc' = IF hout # <<>> THEN hpc
              ELSE IF hpc = "request" THEN "status" ELSE "fstatus"
    /\ UNCHANGED <<prog, cmd, hout, data, got, status, cnt, picoVars, worldVars>>

ReadNext ==
    /\ hpc \in DOMAIN HostReads /\ HostRead
    /\ UNCHANGED <<hostVars, picoVars, worldVars>>

\* read_byte returns to the routine, which is at one of the places pcs.
ReadReturns(pcs) ==
    /\ hpc \in pcs /\ host.op = "read" /\ HostReturn
    /\ UNCHANGED <<prog, data, picoVars, worldVars>>

GotStatus ==
    /\ ReadReturns({"status", "fstatus"})
    /\ status' = host.val.val
    /\ hpc' = IF hpc = "status" THEN "lo" ELSE "flo"
    /\ UNCHANGED <<cmd, hout, got, cnt>>

GotLo ==
    /\ ReadReturns({"lo", "flo"})
    /\ IF hpc = "lo" THEN cnt' = host.val.val /\ hpc' = "hi"
                     ELSE cnt' = cnt /\ hpc' = "fhi"
    /\ UNCHANGED <<cmd, hout, got, status>>

\* Mutant of Proceed: DIR asks for a listing of any size.
ProceedUnchecked(resp) ==
    IF status = OK /\ cmd = Commands.listSize THEN Ask(Commands.list, <<SomeName>>)
    ELSE IF status # OK \/ (prog \notin {"savemem", "forthWrite"} /\ cmd # Commands.stat)
    THEN hpc' = "idle" /\ got' = resp /\ UNCHANGED <<cmd, hout>>
    ELSE IF cmd = Commands.stat THEN Ask(Commands.loadmem, <<SomeName>>)
    ELSE /\ hpc' = "stream" /\ hout' = Tagged("data", data)
         /\ got' = <<>> /\ UNCHANGED cmd

\* A routine that called pico_send_request goes on; resp is RESP_BUFF.
Proceed(resp) ==
    IF status # OK THEN hpc' = "idle" /\ got' = resp /\ UNCHANGED <<cmd, hout>>
    ELSE CASE prog \in {"savemem", "forthWrite"} ->
                /\ hpc' = "stream" /\ hout' = Tagged("data", data)
                /\ got' = <<>> /\ UNCHANGED cmd
           [] cmd = Commands.stat -> Ask(Commands.loadmem, <<SomeName>>)
           [] cmd = Commands.listSize /\ resp[1] + Base * resp[2] < RespMax ->
                Ask(Commands.list, <<SomeName>>)
           [] OTHER -> hpc' = "idle" /\ got' = resp /\ UNCHANGED <<cmd, hout>>

\* LOADMEM, RUN and CATALOG read the response themselves.
ByHand == prog = "catalog" \/ cmd = Commands.loadmem

\* common_send_loadmem_request and do_run; catalog does the same.  A file
\* too short to RUN is given up here.
GotHiByHand ==
    /\ ByHand /\ ReadReturns({"hi"})
    /\ cnt' = cnt + Base * host.val.val
    /\ hpc' = IF status # OK \/ cnt' = 0 \/ (prog = "run" /\ cnt' < 2)
              THEN "idle" ELSE "load"
    /\ UNCHANGED <<cmd, hout, got, status>>

\* pico_send_request: a payload it has no room for is not read.  DIR and
\* SAVEMEM look at the carry that tells so.
GotHiOfRequest ==
    /\ ~ByHand /\ ReadReturns({"hi"})
    /\ cnt' = cnt + Base * host.val.val
    /\ IF cnt' \in 1..RespMax
       THEN hpc' = "payload" /\ UNCHANGED <<cmd, hout, got>>
       ELSE IF cnt' > RespMax /\ prog \in {"dir", "savemem"}
            THEN hpc' = "idle" /\ UNCHANGED <<cmd, hout, got>>
            ELSE Proceed(<<>>)
    /\ UNCHANGED status

GotPayload ==
    /\ ReadReturns({"payload"})
    /\ cnt' = cnt - 1
    /\ IF cnt > 1
       THEN got' = Append(got, host.val.val) /\ UNCHANGED <<hpc, cmd, hout>>
       ELSE Proceed(Append(got, host.val.val))
    /\ UNCHANGED status

GotStreamByte ==
    /\ ReadReturns({"load"})
    /\ cnt' = cnt - 1
    /\ got' = Append(got, host.val.val)
    /\ hpc' = IF cnt > 1 THEN "load" ELSE "idle"
    /\ UNCHANGED <<cmd, hout, status>>

GotFinalHi ==
    /\ ReadReturns({"fhi"})
    /\ hpc' = "idle"
    /\ UNCHANGED <<cmd, hout, got, status, cnt>>

HostStep ==
    \/ SendNext \/ SendReturns \/ ReadNext
    \/ GotStatus \/ GotLo \/ GotHiByHand \/ GotHiOfRequest
    \/ GotPayload \/ GotStreamByte \/ GotFinalHi
-----------------------------------------------------------------------------
(***************************************************************************)
(* The Pico: reading the request.                                          *)
(***************************************************************************)
PicoOnly == UNCHANGED <<hostVars, worldVars>>

TopIdle ==
    /\ ppc = "top" /\ current_state = "IDLE"
    /\ ppc' = "cmd"
    /\ UNCHANGED <<host, pico, requestVars, out, after, streamVars, diskVars>>
    /\ PicoOnly

AwaitByte ==
    /\ ppc \in DOMAIN PicoReads /\ PicoRead
    /\ UNCHANGED picoVars /\ PicoOnly

\* bus_read_byte returns to the main loop, which is at pc.
ByteAt(pc) ==
    /\ ppc = pc /\ pico.op = "read" /\ PicoReturn
    /\ PicoOnly

GotCmd ==
    /\ ByteAt("cmd")
    /\ cmd_id' = pico.val.val /\ ppc' = "len"
    /\ UNCHANGED <<arg_len, args, out, after, streamVars, diskVars>>

GotLen ==
    /\ ByteAt("len")
    /\ arg_len' = pico.val.val /\ args' = <<>>
    /\ ppc' = IF arg_len' = 0 THEN "exec" ELSE "args"
    /\ UNCHANGED <<cmd_id, out, after, streamVars, diskVars>>

GotArg ==
    /\ ByteAt("args")
    /\ args' = Append(args, pico.val.val)
    /\ ppc' = IF Len(args') = arg_len THEN "exec" ELSE "args"
    /\ UNCHANGED <<cmd_id, arg_len, out, after, streamVars, diskVars>>
-----------------------------------------------------------------------------
(***************************************************************************)
(* The Pico: the handlers.                                                 *)
(***************************************************************************)
\* What a close of stream_file leaves on the disk.  LittleFS commits what
\* was written, and nothing after a failed write.
Committed(fn, contents, mode) ==
    IF mode = "write" THEN [disk EXCEPT ![fn] = contents] ELSE disk

\* Every handler that opens stream_file first closes a dangling one.
DiskAfterDangling ==
    IF stream_file_is_open THEN Committed(fileName, fileData, file) ELSE disk

Answer(bytes, next) == out' = bytes /\ ppc' = "send" /\ after' = next
Reply(s, p) == Answer(Response(s, Len(p)) \o Tagged("data", p), "top")

Handles(c) == ppc = "exec" /\ cmd_id = c /\ UNCHANGED <<host, pico, requestVars>>
              /\ PicoOnly

ExecStat ==
    /\ Handles(Commands.stat)
    /\ IF ~fs_mounted THEN Reply(ERR, <<>>)
       ELSE IF "file" \in dir THEN Reply(OK, <<1>>) ELSE Reply(NO_FILE, <<>>)
    /\ UNCHANGED <<streamVars, diskVars>>

ExecListSize ==
    /\ Handles(Commands.listSize)
    /\ IF ~fs_mounted THEN Reply(ERR, <<>>)
       ELSE Reply(OK, <<listing % Base, listing \div Base>>)
    /\ UNCHANGED <<streamVars, diskVars>>

ExecList ==
    /\ Handles(Commands.list)
    /\ IF ~fs_mounted THEN Reply(ERR, <<>>) ELSE Reply(OK, Zeros(listing))
    /\ UNCHANGED <<streamVars, diskVars>>

ExecOther ==
    /\ ppc = "exec" /\ cmd_id \notin {Commands[c] : c \in DOMAIN Commands \ {"other"}}
    /\ UNCHANGED <<host, pico, requestVars>> /\ PicoOnly
    /\ Reply(ERR, <<>>)
    /\ UNCHANGED <<streamVars, diskVars>>

\* A refused SAVEMEM, LOADMEM or FORTH command: before or after the dangling
\* file is closed; a failed open may also be "not found".
Refuse(early, statuses) ==
    \/ /\ early
       /\ Reply(ERR, <<>>)
       /\ UNCHANGED <<streamVars, diskVars>>
    \/ /\ ~early
       /\ \E s \in statuses : Reply(s, <<>>)
       /\ disk' = DiskAfterDangling
       /\ stream_file_is_open' = FALSE /\ file' = "closed" /\ fileData' = <<>>
       /\ UNCHANGED <<current_state, buf, remaining, fileName, dir>>

\* stream_file is open on fn; n bytes will be streamed in the given state.
OpenStream(fn, mode, contents, state, n) ==
    /\ stream_file_is_open' = TRUE
    /\ file' = mode /\ fileName' = fn /\ fileData' = contents
    /\ current_state' = state /\ remaining' = n /\ buf' = <<>>
    /\ dir' = dir \cup {fn}
    \* opening a new name for writing creates it, empty
    /\ disk' = IF fn \in dir THEN DiskAfterDangling
               ELSE [DiskAfterDangling EXCEPT ![fn] = <<>>]

\* The length follows the name; a request too short for it leaves whatever
\* an earlier request put there.
SaveLength == IF Len(args) >= 3 THEN {(args[2] + Base * args[3]) % (Base * Base)}
              ELSE 0..StreamCap

ExecSavemem ==
    /\ Handles(Commands.savemem)
    /\ \E n \in SaveLength :
         \/ Refuse(~fs_mounted \/ n = 0, IF "open" \in Faults THEN {ERR, NO_FILE} ELSE {})
         \/ /\ fs_mounted /\ n # 0
            /\ OpenStream("file", "write", <<>>, "SAVEMEM", n)
            /\ Answer(Response(OK, 0), "top")

\* Mutant of ExecLoadmem: the size is cut to 16 bits instead of capped.
ExecLoadmemWraps ==
    /\ Handles(Commands.loadmem)
    /\ \/ Refuse(~fs_mounted, (IF "open" \in Faults THEN {ERR} ELSE {})
                     \cup (IF "file" \in dir THEN {} ELSE {NO_FILE}))
       \/ /\ fs_mounted /\ "file" \in dir
          /\ LET contents == DiskAfterDangling["file"]
                 size == Len(contents) % (StreamCap + 1) IN
             /\ OpenStream("file", "read", contents, "LOADMEM", size)
             /\ Answer(Response(OK, size), "top")

ExecLoadmem ==
    /\ Handles(Commands.loadmem)
    /\ \/ Refuse(~fs_mounted, (IF "open" \in Faults THEN {ERR} ELSE {})
                     \cup (IF "file" \in dir THEN {} ELSE {NO_FILE}))
       \/ /\ fs_mounted /\ "file" \in dir
          /\ LET contents == DiskAfterDangling["file"]
                 size == AtMost(Len(contents), StreamCap) IN
             /\ OpenStream("file", "read", contents, "LOADMEM", size)
             /\ Answer(Response(OK, size), "top")

\* Mutant of ExecForthWrite: the stream is awaited without the ready answer.
ExecForthWriteSilent ==
    /\ Handles(Commands.forthWrite)
    /\ \/ Refuse(~fs_mounted, IF "open" \in Faults \/ arg_len < 2 THEN {ERR} ELSE {})
       \/ /\ fs_mounted /\ arg_len >= 2
          /\ OpenStream("block", "write", <<>>, "FORTH", ForthSize)
          /\ ppc' = "top" /\ UNCHANGED <<out, after>>

ExecForthWrite ==
    /\ Handles(Commands.forthWrite)
    /\ \/ Refuse(~fs_mounted, IF "open" \in Faults \/ arg_len < 2 THEN {ERR} ELSE {})
       \/ /\ fs_mounted /\ arg_len >= 2
          /\ OpenStream("block", "write", <<>>, "FORTH", ForthSize)
          /\ Answer(Response(OK, 0), "top")

\* A block that does not exist is created full of zeros, and no failure of
\* that is noticed; a short block is filled up with zeros.
ExecForthRead ==
    /\ Handles(Commands.forthRead)
    /\ \/ Refuse(~fs_mounted, IF "open" \in Faults \/ arg_len < 2 THEN {ERR} ELSE {})
       \/ /\ fs_mounted /\ arg_len >= 2
          /\ \E stored \in
                IF "block" \in dir THEN {DiskAfterDangling["block"]}
                ELSE {Zeros(ForthSize)} \cup
                     (IF Faults \cap {"write", "close"} = {} THEN {} ELSE {<<>>}) :
               /\ disk' = [DiskAfterDangling EXCEPT !["block"] = stored]
               /\ \/ Reply(OK, SubSeq(stored \o Zeros(ForthSize), 1, ForthSize))
                  \/ Faults \cap {"open", "read"} # {} /\ Reply(ERR, <<>>)
          /\ dir' = dir \cup {"block"}
          /\ stream_file_is_open' = FALSE /\ file' = "closed" /\ fileData' = <<>>
          /\ UNCHANGED <<current_state, buf, remaining, fileName>>

Exec ==
    \/ ExecStat \/ ExecListSize \/ ExecList \/ ExecOther
    \/ ExecSavemem \/ ExecLoadmem \/ ExecForthRead \/ ExecForthWrite
-----------------------------------------------------------------------------
(***************************************************************************)
(* The Pico: writing the answer, and the streams.                          *)
(***************************************************************************)
WriteNext ==
    /\ ppc = "send" /\ out # <<>> /\ PicoWrite(Head(out))
    /\ out' = Tail(out)
    /\ UNCHANGED <<ppc, requestVars, after, streamVars, diskVars>> /\ PicoOnly

WriteReturns ==
    /\ pico.op = "write" /\ PicoReturn
    /\ ppc' = IF out = <<>> THEN after ELSE "send"
    /\ UNCHANGED <<requestVars, out, after, streamVars, diskVars>> /\ PicoOnly

\* Mutant of CloseStream: the flag is not reset.
CloseStreamFlagged(contents, committed) ==
    /\ disk' = IF committed THEN Committed(fileName, contents, file) ELSE disk
    /\ file' = "closed" /\ fileData' = <<>> /\ UNCHANGED stream_file_is_open
    /\ current_state' = "IDLE"
    /\ UNCHANGED <<fileName, dir>>

\* Closing the stream for good: ends tells whether LittleFS could commit.
CloseStream(contents, committed) ==
    /\ disk' = IF committed THEN Committed(fileName, contents, file) ELSE disk
    /\ file' = "closed" /\ fileData' = <<>> /\ stream_file_is_open' = FALSE
    /\ current_state' = "IDLE"
    /\ UNCHANGED <<fileName, dir>>

CloseOutcomes == IF "close" \in Faults THEN {TRUE, FALSE} ELSE {TRUE}

TopSave ==
    /\ ppc = "top" /\ current_state = "SAVEMEM"
    /\ ppc' = "save"
    /\ UNCHANGED <<host, pico, requestVars, out, after, streamVars, diskVars>>
    /\ PicoOnly

\* A byte arrives for the file: resp_buf and the count with it.
Filled == Append(buf, pico.val.val)
\* Mutant of Left: a byte is counted twice.
LeftTwice == IF remaining > 1 THEN remaining - 2 ELSE 0

Left == remaining - 1
Flush == Len(Filled) = BufSize \/ Left = 0

\* Mutant of Streamed: the byte is not counted.
StreamedUncounted(pc) == ByteAt(pc) /\ UNCHANGED <<remaining, requestVars>>

Streamed(pc) == ByteAt(pc) /\ remaining' = Left /\ UNCHANGED requestVars

KeepByte(pc, next) ==
    /\ Streamed(pc) /\ ~Flush
    /\ buf' = Filled /\ ppc' = next
    /\ UNCHANGED <<out, after, current_state, stream_file_is_open, file,
                   fileName, fileData, diskVars>>

FlushBuffer(pc, next) ==
    /\ Streamed(pc) /\ Flush
    /\ fileData' = fileData \o Filled /\ buf' = <<>> /\ ppc' = next
    /\ UNCHANGED <<out, after, current_state, stream_file_is_open, file,
                   fileName, diskVars>>

MayFail == Flush /\ ("write" \in Faults \/ (Left = 0 /\ "lastWrite" \in Faults))

\* The write fails: LittleFS refuses to commit the file and the Pico
\* answers at once, wherever the 65C02 is in the stream.
WriteFails(pc, next) ==
    /\ Streamed(pc) /\ MayFail
    /\ Answer(Response(ERR, 0), next)
    /\ buf' = Filled
    /\ CloseStream(fileData, FALSE)

SaveByte ==
    \/ KeepByte("save", "top")
    \/ Left # 0 /\ FlushBuffer("save", "top")
    \/ WriteFails("save", "top")

\* Mutant of SaveLast: the result of the close is not looked at.
SaveLastUnchecked ==
    /\ Streamed("save") /\ Left = 0
    /\ buf' = <<>>
    /\ \E ok \in CloseOutcomes :
         /\ CloseStream(fileData \o Filled, ok)
         /\ Answer(Response(OK, 0), "top")

\* The last byte of SAVEMEM: written, closed and answered.
SaveLast ==
    /\ Streamed("save") /\ Left = 0
    /\ buf' = <<>>
    /\ \E ok \in CloseOutcomes :
         /\ CloseStream(fileData \o Filled, ok)
         /\ Answer(Response(IF ok THEN OK ELSE ERR, 0), "top")

\* What resp_buf holds for LOADMEM before its next byte is written, with
\* what is unread: refilled when empty, with zeros if the read fails.
Refills ==
    LET n == AtMost(remaining, BufSize) IN
    IF buf # <<>> THEN {<<buf, fileData>>}
    ELSE {<<SubSeq(fileData, 1, n), SubSeq(fileData, n + 1, Len(fileData))>>}
         \cup (IF "read" \in Faults THEN {<<Zeros(n), fileData>>} ELSE {})

LoadByte ==
    /\ ppc = "top" /\ current_state = "LOADMEM" /\ remaining > 0
    /\ \E r \in Refills :
         /\ buf' = Tail(r[1]) /\ fileData' = r[2]
         /\ Answer(Tagged("data", <<Head(r[1])>>), "top")
    /\ remaining' = remaining - 1
    /\ UNCHANGED <<host, pico, requestVars, current_state, stream_file_is_open,
                   file, fileName, diskVars>>
    /\ PicoOnly

\* Mutant of LoadDone: the state is not left.
LoadDoneStays ==
    /\ ppc = "top" /\ current_state = "LOADMEM" /\ remaining = 0
    /\ UNCHANGED vars

LoadDone ==
    /\ ppc = "top" /\ current_state = "LOADMEM" /\ remaining = 0
    /\ CloseStream(fileData, TRUE)
    /\ UNCHANGED <<host, pico, ppc, requestVars, out, after, buf, remaining>>
    /\ PicoOnly

TopForth ==
    /\ ppc = "top" /\ current_state = "FORTH"
    /\ ppc' = "forthLoop"
    /\ UNCHANGED <<host, pico, requestVars, out, after, streamVars, diskVars>>
    /\ PicoOnly

\* Mutant of ForthMore: the loop runs once too often.
ForthMoreAlways ==
    /\ ppc = "forthLoop"
    /\ ppc' = "forth"
    /\ UNCHANGED <<host, pico, requestVars, out, after, streamVars, diskVars>>
    /\ PicoOnly

ForthMore ==
    /\ ppc = "forthLoop" /\ remaining > 0
    /\ ppc' = "forth"
    /\ UNCHANGED <<host, pico, requestVars, out, after, streamVars, diskVars>>
    /\ PicoOnly

\* After a failed write the loop is continued, not left.
ForthByte ==
    \/ KeepByte("forth", "forthLoop")
    \/ FlushBuffer("forth", "forthLoop")
    \/ WriteFails("forth", "forthLoop")

\* The result of the close is not looked at.
ForthDone ==
    /\ ppc = "forthLoop" /\ remaining = 0
    /\ \E ok \in CloseOutcomes : CloseStream(fileData, ok)
    /\ Answer(Response(OK, 0), "top")
    /\ UNCHANGED <<host, pico, requestVars, buf, remaining>>
    /\ PicoOnly

PicoStep ==
    \/ TopIdle \/ AwaitByte \/ GotCmd \/ GotLen \/ GotArg
    \/ Exec
    \/ WriteNext \/ WriteReturns
    \/ TopSave \/ SaveByte \/ SaveLast
    \/ LoadByte \/ LoadDone
    \/ TopForth \/ ForthMore \/ ForthByte \/ ForthDone

Meet == Exchange /\ UNCHANGED <<hostVars, picoVars, worldVars>>
-----------------------------------------------------------------------------
Init ==
    /\ host = [op |-> "idle", val |-> Nothing, st |-> "open"]
    /\ pico = [op |-> "idle", val |-> Nothing, st |-> "open"]
    /\ hpc = "idle" /\ prog = "none" /\ cmd = 0 /\ hout = <<>>
    /\ data = <<>> /\ got = <<>> /\ status = OK /\ cnt = 0
    /\ ppc = "top" /\ current_state = "IDLE"
    /\ cmd_id = 0 /\ arg_len = 0 /\ args = <<>>
    /\ out = <<>> /\ after = "top" /\ buf = <<>> /\ remaining = 0
    /\ stream_file_is_open = FALSE /\ file = "closed" /\ fileName = "file"
    /\ fileData = <<>>
    /\ dir \in SUBSET Names
    /\ \E f \in UNION {Memory(n) : n \in 0..MaxLen}, b \in Memory(ForthSize) :
         disk = [n \in Names |-> IF n \notin dir THEN <<>>
                                 ELSE IF n = "file" THEN f ELSE b]
    /\ fs_mounted \in BOOLEAN /\ listing \in 1..MaxListing

Next == StartProgram \/ HostStep \/ PicoStep \/ Meet

Spec == Init /\ [][Next]_vars

\* Neither side waits for anything but the other: the 65C02 runs the routine
\* it has started, the Pico its main loop, and calls that face each other meet.
Fairness == WF_vars(HostStep) /\ WF_vars(PicoStep) /\ WF_vars(Meet)
FairSpec == Spec /\ Fairness
-----------------------------------------------------------------------------
(***************************************************************************)
(* Properties.                                                             *)
(***************************************************************************)
Calling(side) == side.op # "idle" /\ side.st = "open"

\* When a call of the 65C02 faces a call of the Pico, one sends and the
\* other reads, and the reader takes the byte for what the sender meant: a
\* status is never read as a length, nor file data as a command.  The link
\* would exchange the two bytes all the same.
CallsMatched ==
    Calling(host) /\ Calling(pico) =>
        \/ host.op = "send" /\ pico.op = "read" /\ PicoReads[ppc] = host.val.tag
        \/ host.op = "read" /\ pico.op = "write" /\ HostReads[hpc] = pico.val.tag

\* When the 65C02 is back at its prompt the Pico has no byte of the last
\* command left to write and none to wait for: nothing can be taken for a
\* part of the next command.
NothingLeftOver ==
    hpc = "idle" =>
        /\ out = <<>> /\ ~(pico.op = "write" /\ pico.st = "open")
        /\ current_state \in {"IDLE", "LOADMEM"} /\ remaining = 0
        /\ ppc \notin {"len", "args", "save", "forth", "forthLoop"}

\* Each side keeps its own count of a stream.  The two agree at every step,
\* up to the byte in flight.
StreamsAgree ==
    /\ hpc = "stream" /\ ppc \in {"top", "save", "forth", "forthLoop"} =>
         remaining = Len(hout) + One(host.op = "send" /\ host.st = "open")
                               + One(pico.op = "read" /\ pico.st = "met")
    /\ hpc = "load" /\ ppc \in {"top", "send"} =>
         cnt = remaining + Len(out) + One(pico.op = "write" /\ pico.st = "open")
                                    + One(host.op = "read" /\ host.st = "met")

\* "OK" after SAVEMEM or the flush of a Forth block means that the flash
\* holds the bytes that were in memory, all of them.
AcceptedIsStored ==
    hpc = "idle" /\ prog \in {"savemem", "forthWrite"} /\ status = OK =>
        disk[IF prog = "savemem" THEN "file" ELSE "block"] = data

\* What LOADMEM, RUN or the load of a Forth block has put into memory is
\* what the flash holds, up to 65535 bytes.
LoadedIsStored ==
    /\ hpc = "idle" /\ prog \in {"loadmem", "run"} /\ cmd = Commands.loadmem
         /\ status = OK /\ (prog = "run" => cnt = 0) =>
         got = SubSeq(disk["file"], 1, AtMost(Len(disk["file"]), StreamCap))
    /\ hpc = "idle" /\ prog = "forthRead" /\ status = OK =>
         got = SubSeq(disk["block"] \o Zeros(ForthSize), 1, ForthSize)

\* The handle of the stream: open exactly while bytes are streamed, and
\* never closed twice.
StreamOwned ==
    /\ stream_file_is_open = (current_state # "IDLE")
    /\ stream_file_is_open = (file # "closed")
    /\ ppc = "forthLoop" => file = "write"

\* The status the Pico writes when something has gone wrong goes to a 65C02
\* that is reading a status.
StatusReachesHost ==
    Calling(host) /\ Calling(pico) /\ pico.op = "write" /\ pico.val.tag = "status" =>
        host.op = "read" /\ HostReads[hpc] = "status"

\* Every command ends: the 65C02 returns to its prompt, and the Pico is back
\* at the start of a command.
CommandsEnd ==
    /\ (hpc # "idle") ~> (hpc = "idle")
    /\ (ppc # "cmd") ~> (ppc = "cmd" /\ current_state = "IDLE")
=============================================================================
