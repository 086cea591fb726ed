# W25Q64_INTERLOCK: specification, model checking and proofs

TLA+ models of the W25Q64_INTERLOCK firmware, TLC configurations that check them
on small instances, and TLAPS proofs about them. The firmware makes a Pico W a
peripheral of a 65C02: behind a 6522 VIA and an eight-bit parallel bus it serves a
LittleFS file system on a W25Q64 flash, memory streams, Forth blocks and network
requests. Paths below are relative to the repository (`src/main.c` is the
firmware's main program).

    ViaHandshake  --implements-->  ByteLink  <--uses--  Session  <--extends--  SyncBridge
     (wires, PIO, VIA, CPU)      (one call meets       (commands, responses,  (the 65C02
                                  one call)             streams)               starts again)

    FileService   --implements-->  FileStore  <--uses--  TextTools      NetRequest   WebText
     (mounting, handles, LittleFS  (plain files)         (HEAD, TAIL,    (handlers    (what the
      objects, commits, restarts)                         WC, GREP, DIFF, and lwIP     callbacks make
    TreeOps                                               Editor: WRITE)  callbacks)   of the bytes)
     (directory walks that change the directory)

`Session` shows that a request meets its handler and the answer meets the routine
that waits for it. `FileService` and `TreeOps` start from there: in the one a command
is one step, in the other a call of LittleFS is. `NetRequest` keeps the bytes of the
answer, because lwIP callbacks write them too. `TextTools` and `Editor` see the file commands only
through `FileStore`, which is what FileService is shown to implement. The main loop (`src/main.c:640`) is
the only code that touches the state of the first two.

## 1. Inventory

| Part | Source | State | Operations | Hard behaviour | What makes it correct | Module |
| --- | --- | --- | --- | --- | --- | --- |
| Byte handshake | `src/bus.c`, `src/via_handshake.pio`, `6502/ca65/common/pico_lib.s:143-188` | CA1, CA2, data port and its two drivers, the VIA's latched CA1 flag, two PIO machines (program counter, FIFOs), the pin directions they share | `send_byte`, `read_byte`; `bus_read_byte`, `bus_write_byte`, `bus_reset_handshake` | four agents interleave on shared pins; machines are never restarted, FIFOs never cleared; no direction line; no timeout | every byte arrives once and unmixed; an acknowledge belongs to its own cycle; the machines are back at their start between calls; calls that face each other return | ViaHandshake, ByteLink |
| Command protocol and streaming | `src/main.c:640-830, 2546-2866` | the request (`cmd_id`, `arg_len`, `arg_buf`), the response, `current_state`, `stream_bytes_remaining`, `stream_file`, `resp_buf` | request, response, SAVEMEM, LOADMEM, FORTH_READ, FORTH_WRITE, and the commands the shell puts before them | each side counts for itself; errors in the middle of a stream; last byte of buffer and stream coincide; 16-bit lengths | every byte is taken for what it was sent as; nothing is left in the link; OK means stored | Session |
| 65C02 driver and shell streaming | `pico_lib.s`, `6502/ca65/shell/cmd_shell.s`, `commands/catalog/catalog.s` | `CMD_ID`, `LAST_STATUS`, `RESP_LEN`, `savemem_cnt`, RESP_BUFF | `pico_send_request`, `do_savemem`, `do_loadmem`, `do_run`, `do_dir`, CATALOG | payload over 1024 bytes; routines that read by hand; routines that give up half way | as above; every command returns to the prompt | Session (the shell's mount flag, paths and batch mode: not) |
| Forth block cache | `commands/figforth/figforth.s:3470-3560` | cached block, dirty flag | load and flush of a block | write-back of a dirty block | a block is stored before it leaves the cache | transfers in Session; cache planned |
| File service | `src/main.c:967-1725` | `fs_mounted`, `open_files[4]`, LittleFS | MOUNT, FORMAT, UNMOUNT, RESET, OPEN, CLOSE, READ, WRITE, SEEK, TELL, SYNC, COPY, APPEND, RENAME, REMOVE, ... | four handles; one of several LittleFS calls fails; restarts; unmounted use | a slot is marked exactly while its object is open; what SYNC answers OK is stored, but for handles a failure was told of; COPY leaves its source alone; the programs see plain files | FileService, FileStore |
| Directories | `src/main.c:427-640, 1186-1263` | directory stack, path buffer | MKDIR, `recursive_remove`, `delete_directory_contents`, TREE | removal from a directory under iteration; path buffer length | removes the whole subtree and nothing else; no cursor skips an entry; no open directory stays behind | TreeOps |
| Network commands | `src/main.c:130-425, 1727-2545` | request records on the stack, shared with lwIP callbacks; `http_buf` | HTTP_GET, HTTP_POST, NEWS, WEATHER, RLIST, NET_TIME, DOWNLOAD_SIMPLE | callbacks interleave with timed waits; late callbacks; framed streams that end early | the 65C02 gets whole frames and an end; OK is the truth as far as the code looks; every command ends (one wait has no limit) | NetRequest, WebText |
| RTC, timer, status, version | `src/main.c:840-966` | `timer_running` | one request, one answer | none | (formula of the day of the week) | not modelled |
| Flash driver | `src/w25q64.c` | the chip's busy bit and pages | read, program, erase, sync | erase before program; wait for busy | LittleFS's block device contract | planned, small |
| LittleFS | `lib/littlefs` | directory blocks, open files and directories | open, read, write, sync, close, remove, mkdir | entries removed under open cursors; cached writes | the cursors follow; a commit is all or nothing | parts in TreeOps and FileService |
| Transient commands of the 65C02 | `6502/ca65/commands` | a handle and a buffer each | get, put, cp, head, tail, wc, grep, diff, write, news, weather, rlist, tree, ... | chunk loops, handles on error paths, shared ARG_BUFF | reads the file exactly, closes what it opens | HEAD, TAIL, WC, GREP, DIFF in TextTools; write in Editor; news, weather, rlist in NetRequest; others planned |
| Emulator bridge | `emmulator/EMULATOR/src/6502emu.c:468-550` | the phase of the resynchronisation | `sync_bridge` | a running Pico at an unknown point | both sides end at a command boundary | SyncBridge |
| Emulator CPU and VIA, BASIC and ROM, host tools | `emmulator`, `tools` | | | | third party or no part of the interlock | not modelled |

The hazards this code is exposed to, each at its line and with the properties
that watch it, are listed in `PROJECT.json`.

## 2. The byte handshake: ViaHandshake and ByteLink

One byte crosses the bus like this: the 6502 raises CA2; a PIO machine samples or
drives the port and pulls CA1 low; the 6502 sees the flag that edge has latched in
the VIA, reads the port, drops CA2; the machine lifts CA1 and pushes a completion
token, which lets the Pico's CPU return. `ViaHandshake` has one action per VIA
access of `send_byte` and `read_byte`, one per PIO instruction of the two programs
in `via_handshake.pio`, and one per blocking point of `bus_read_byte` and
`bus_write_byte`.

| In the model | In the code |
| --- | --- |
| `hpc`, `hop`, `ora`, `ddra`, `ca2`, `ifr`, `hgot`; `StartSend` ... `ClearFlag` | VIA_PORTA, VIA_DDRA, VIA_PCR, bit CA1 of VIA_IFR; `pico_lib.s:143-188` |
| `rxPc`, `rxEn`, `rxq`; `RxWaitHigh` ... `RxPush` | `via_handshake_rx`; the FIFO gets the byte by autopush and the token by `push` |
| `txPc`, `txEn`, `txq`, `txTok`; `TxPull` ... `TxPush` | `via_handshake_tx` |
| `ca1`, `ca1Dir`, `dout`, `dDir` | output latches and directions of the pins, shared by both machines; CA1 floats high |
| `cpc`, `cval`; `ReadPrepare` ... `ReadHandover`, `WritePrepare` ... `WriteToken`, `ResetHandshake` | `bus.c:84-141`, `bus_reset_handshake` |
| `Init` | after `bus_init` and `pico_init`, whichever ran first: CA1 driven low, the flag possibly set |

Every pairing of calls is allowed (send against read, read against write, and the
two mismatches), because the wires have no direction and the layers above have to
be shown never to mismatch.

Two assumptions on time are stated and not hidden. `PioSettled`: when the 6502
raises CA2, the PIO, at 10 MHz, has finished the instructions after the last fall of
CA2, over thirty 6502 cycles earlier. `PicoPrompt`, a constant: TRUE adds that the
CPU has left the tail of `bus_read_byte` by then. The wires do not enforce it, and
`ViaInterrupted.cfg` shows what happens otherwise.

`ByteLink` is what remains for the code above: each side makes one call at a time,
and one call of the one meets one call of the other in a single `Exchange`, matching
or not. `ViaHandshake!ImplementsByteLink` is the refinement, with `hostCall` and
`picoCall` as the mapping: RxIn and TxOut are the exchange.

| Run | Checks | Result |
| --- | --- | --- |
| `via` | `TypeOK`, `QuiescentBetweenCalls`, `NoStaleAck`, `CleanSample`, `ImplementsByteLink`; under `FairSpec` also `CallsReturn` | hold |
| `via_interrupted` | `NoDeadlyEmbrace` with `PicoPrompt = FALSE` | violated: finding 1 |

Bounds: three byte values, the undriven bus and two that can be driven against each
other, are enough since no step looks at a byte; nothing else is bounded (the FIFO
depth is the hardware's and the state space is finite). The two driven values are
symmetric; symmetry is used in `via_interrupted` only, `via` checks liveness. `CHECK_DEADLOCK FALSE`
where a mismatch of calls, or a 6502 that makes no further call, may stop the system.

Fairness: weak fairness of each agent's own steps, `HostStep` (the driver loops until
the flag is set), the two PIO machines (clocked hardware) and `CpuStep` (the SDK's
blocking calls poll). Starting a call is never fair: nobody has to make one. The
liveness properties therefore speak only of two calls that are both under way.

## 3. The command protocol: Session

`Session` uses ByteLink by `INSTANCE` with bytes that carry a tag for what the
sender means; no step of either program looks at a tag, only `CallsMatched` does.
The 65C02 runs one routine after the other, in any order, each with its own idea
of what follows; the Pico runs its main loop.

| In the model | In the code |
| --- | --- |
| `hpc`, `prog`, `cmd`, `hout`, `got`, `status`, `cnt` | `pico_send_request` (request, status, length, payload), `savemem_cnt`, and the routine around it |
| `StartSavemem`, `StartLoadmem`, `StartRun`, `StartDir`, `StartCatalog`, `StartForthRead`, `StartForthWrite`, `StartOther` | `do_savemem`, `do_loadmem`, `do_run`, `do_dir`, `catalog`, DDISC_LOAD_CACHE, DDISC_FLUSH_CACHE, any command without data |
| `GotStatus` ... `GotFinalHi`, `Proceed` | `read_byte` returns in the routine; `Proceed` is what the routine does with the complete response |
| `ppc`, `cmd_id`, `arg_len`, `args`, `out`, `after` | the place in `main`'s loop, the request, the bytes of the response, where the loop goes on |
| `current_state`, `remaining`, `buf`, `stream_file_is_open`, `file`, `fileData` | `current_state`, `stream_bytes_remaining`, `resp_buf` and its index, `stream_file` |
| `ExecSavemem`, `ExecLoadmem`, `ExecForthRead`, `ExecForthWrite`, `ExecStat`, `ExecList`, `ExecListSize`, `ExecOther` | the `case`s of the command switch |
| `TopSave`, `SaveByte`, `SaveLast`; `LoadByte`, `LoadDone`; `TopForth`, `ForthMore`, `ForthByte`, `ForthDone` | the three streaming branches at the top of the loop, `main.c:651-797` |
| `disk`, `dir`, `Committed` | LittleFS, external: what a close makes durable; a failed write makes the close commit nothing (`lfs.c`, LFS_F_ERRED) |

Abstractions: one file and one Forth block stand for the file system, a name and a
block number for one byte; `Faults` names the LittleFS calls that may fail. Handlers
without data or streaming are one representative, `other`. The Pico's handling of
one command is atomic except at each byte on the link, since nothing else on the
Pico touches this state.

| Run | Checks | Result |
| --- | --- | --- |
| `session_mixed` | `TypeOK`, `CallsMatched`, `NothingLeftOver`, `StreamOwned`, and under `FairSpec` `CommandsEnd` (the routine ends, and the Pico comes back to its command loop); every routine, failing opens, files that are not cut short by RUN | hold |
| `session_streams` | `StreamsAgree`, `AcceptedIsStored`, `LoadedIsStored`, `StatusReachesHost`; streams longer than the buffer, a file over the 16-bit cap; opens, closes, and the write of a stream's last bytes may fail | hold, 5.9 million states |
| `session_save_fails` | `StatusReachesHost` when any write may fail | violated: finding 2 |

Bounds and why they are enough: `Base = 2` puts the 16-bit cap (65535 in the code) at
3, so that a file of 4 bytes exceeds it; `BufSize = RespMax = 2` makes streams of 1 to
4 bytes cover less than a buffer, exactly one, one and a part, and two, and listings
of 1 to 3 cover a payload that fits and one that does not; two data values tell
positions apart, and 0 is one of them because the code fills with zeros. Runs of
commands are not bounded.

Fairness: weak fairness of `HostStep` (a routine once started runs on),
`PicoStep` (so does the main loop) and `Meet` (what `via` shows of the wires).
Starting a routine is not fair.

Known to fail outside these bounds, and not run: a failed Forth block write
(`main.c:777`, `continue` stays in the wrong loop: the file is closed again and a second,
OK, answer follows), and RUN of a file of one byte (`cmd_shell.s:2050` gives it up
without reading it). `Faults` with `"write"` and `RunLengths` with 1 show them.

`LoadedIsStored` is checked with reads that succeed. A read that fails in the middle
of LOADMEM is delivered as zeros under a STATUS_OK already sent (`main.c:699`); no
text of the repository promises otherwise.

## 4. The file commands: FileService and FileStore

| In the model | In the code |
| --- | --- |
| `fs_mounted` | `fs_mounted` |
| `used` | the `used` flag of each slot of `open_files` |
| `open` | the `lfs_file_t` of each slot: open or not, position, the contents as this object sees them, uncommitted changes, LFS_F_ERRED |
| `formatted`, `dir`, `disk` | the flash: a file system or none, its entries, their committed contents |
| `reply` | the command just done, its arguments, status and payload |
| `NotMounted`, `BadHandle` | the first lines of every file command, and of every command on a handle |
| `OpenFile`, `OpenNone`, `OpenMissing`, `OpenFails` | CMD_FS_OPEN, `main.c:1411-1462` |
| `CloseFile`, `ReadFile`, `WriteFile`, `SeekFile`, `TellFile`, `SyncFile` | `main.c:1464-1593, 1654-1670` |
| `StatFile`, `TouchFile`, `AppendFile`, `RemoveFile`, `RenameFile` | `main.c:1595-1625, 1265-1341, 1167-1184` |
| `CopyFile`, `CopyRefused` | `main.c:1343-1409` with its probe for a copy onto itself |
| `Mount`, `Format`, `Unmount`, `Reset`, `Boot`, `PowerLoss` | `main.c:990-1059, 1699-1725, 973-988`; `init_handles` and the start of `main` |

LittleFS is external. What is used of it: an open object has a view of its own, and
`lfs_file_sync` or `lfs_file_close` commits the view; a failed write or commit may
mark the object (LFS_F_ERRED), and a marked object is synced and closed without an
error and without a commit until a write on it succeeds; READ, SEEK and SYNC flush what WRITE
has left in the cache first, and a flush that fails leaves a part in the view, moves the
position and marks the object (`FlushFails`, `lfs.c:3350`, `3560`, `3742`); opening with LFS_O_CREAT
makes the entry at once; a write past the end first fills the hole with zeros, byte
by byte, and may fail there.

The Pico does not enforce two things its clients have to keep to, and the model
assumes them: programs write only through handles opened for writing (WRITE does
not look at the mode, and LittleFS checks it in debug builds only), and they do not
change a file by its path, or open it a second time, while a handle is open on it
for writing. `Unopened` and `Unwritten` name the second one in the guards.

`Faults` names what may fail: each LittleFS call by kind, `"probe"` (COPY's attempt
to open its destination to compare the two directory entries) and `"power"`. Two history
variables say what a program could know: `told`, the handles on which a request was answered
ERR since their last good WRITE, and `blind`, that the last COPY's probe has failed.

`FileStore` is what a program may believe: files that change at once with every
write answered OK and outlive handles, unmounts and restarts; no caches, no commits.
The refinement takes for a file's contents the view of the handle that writes it, and
the flash's when there is none (`seen`), and forgets the rest. Its actions are
written from the meaning of the commands: `Read` may answer with fewer bytes than
asked but not with none before the end, `Seek` with any position, a refused request
may at most have created an empty file.

| Run | Checks | Result |
| --- | --- | --- |
| `file_handles` | `TypeOK`, `HandleTable`, `SyncedIsStored`, `CopyKeepsSource`; every fault | hold; findings 4 and 5 are their exceptions |
| `file_store` | `ImplementsFileStore`, so that COPY answered OK has copied; failing opens and directory changes | hold |

Bounds and why they are enough: two files, one of them reached by two paths, so that
COPY and RENAME meet the same entry under one name and under two; two handles, so
that a handle can be given out twice, stay behind an unmount, or be refused because
the table is full; files of up to `MaxLen = 2` bytes with requests of one or two bytes
and positions up to 2, so that reads are short, writes overwrite, append and leave a
hole; `RespSpace = 1` makes a read of two be cut to one. `VIEW WithoutReply` identifies
states that differ in the last answer: no guard and no property looks at `reply`,
only at `reply'`.

`file_store` leaves out failing reads, writes, commits and mounts since they are where
the code does differ from plain files: a failed write leaves part of its data in the
view, a failed commit in CLOSE, COPY, APPEND or TOUCH is answered OK, and a MOUNT that
fails for any reason formats the flash (`main.c:999`, on purpose).

`SyncedIsStored` says what a SYNC answered OK is worth: the flash has all that the handle shows, or,
on a handle in `told` only, SYNC has stored nothing. The second happens: LittleFS calls
a marked object synced (finding 4). `CopyKeepsSource` says that COPY leaves the file it copies alone, whatever
fails, with one exception, which happens too: a probe that fails for another reason than a missing file is taken
for a missing destination, and a file copied onto itself is then truncated and cut short if reading it
fails; COPY answers ERR (`CopyBlind`, finding 5).

CLOSE, COPY, TOUCH and APPEND answered OK may have committed nothing (`main.c:1475, 1405, 1332`). No
property says otherwise, and `file_store` leaves these failures out, so it does not catch them.

## 5. Directories: TreeOps

| In the model | In the code |
| --- | --- |
| `disk` | the directories of LittleFS, each a list of blocks (metadata pairs) with entries in order |
| `stack`, `pc`, `target`, `ret` | the recursion of `recursive_remove`, `delete_directory_contents` and `stream_tree_recursive`: one `lfs_dir_t` per level, the call under way, its path, its result |
| `mlist` | `lfs->mlist`: the directories LittleFS believes open |
| `OpenDir`, `OpenFails`, `ReadEntry`, `ReadEnd`, `ReadFails`, `Close`, `Unlink`, `Back`, `Mkdir` | `main.c:427-549` and the calls `lfs_dir_open`, `lfs_dir_read`, `lfs_dir_close`, `lfs_remove`, `lfs_mkdir` |
| `Settled` | the `fixmlist` part of `lfs_dir_relocatingcommit`: what a deletion does to the cursors of open directories |
| `Halves`, `Deleted`, `Inserted` | a commit compacts and splits a block, or drops an empty one |

The firmware deletes the entries of a directory while it reads it. Whether that works
rests on `Settled`, so it is translated from `lfs.c` and not assumed. A call may fail
(`lfs_remove` of a directory before or after its commit), `malloc` may fail, and the
power may go between any two calls.

Run `trees` checks `TypeOK`, `OthersStay`, `NothingOrphaned`, `WalkIsTrue`
(OK means that the tree is gone, without a fault it is OK, and TREE lists everything), `CursorsHold`, `MlistBalanced`, and under `FairSpec`
`CommandEnds`. All hold, on three directories and two files in every nesting, cut into
blocks in every way: a directory with three entries in up to three blocks is the
smallest in which a block before, at and behind the cursor can be emptied, and three
levels are the smallest with a cursor that is neither first nor last. The number of
commands is not bounded. Fairness: weak fairness of `Walk`, the handler runs on.

`NothingOrphaned` says that the directories are a tree (`IsTree`): a directory that holds
something is the root or in another one, no node is in two, none is below itself. That a
list of blocks has an entry once and only its first block empty (`Once`, `Tidy`) is asked of
the layouts at the start, as LittleFS writes no other, and is shown to stay so. The six safety
properties are proved as well (section 9), for any tree, any number and size of blocks
and any depth of the recursion.

Two things the run shows as they are: REMOVE_RECURSIVE of the root removes all that
is in it and then answers STATUS_ERR, and TREE answers OK when a read fails, because
STATUS_OK has gone out before (`main.c:1233`).

## 6. The network commands: NetRequest and WebText

`NetRequest` has the 65C02, the handler and the lwIP callbacks as three agents. The
callbacks run in an interrupt (`pico_cyw43_arch_lwip_threadsafe_background`): one may
come between any two steps of the handler, and runs to its end, the bytes it writes to
the bus included.

| In the model | In the code |
| --- | --- |
| `hpc`, `cnt`, `status`, `got` | the 65C02 reading a response (`pico_send_request`) or frames (`news.s`, `weather.s`, `rlist.s`) |
| `pc`, `Lookup` ... `Replied` | the place in the handler, `main.c:1727-2545` |
| `req` | the flags of `http_req_t` or `news_req_t`, which the callbacks set |
| `mainOut`, `cbOut` | bytes the main loop and a callback are writing to the bus |
| `received`, `chunk`, `http_buf` | the download, the chunk POST has read; both live in `http_buf` |
| `fileOpen`, `stored` | the local file of GET and POST, and what a GET has put into it (`Committed`: its close may fail unseen) |
| `answer`, `pos`, `served`, `sent`, `dns`, `pcb`, `linked`, `asked`, `silent` | what the server answers and how far it has come, what it was sent, the lookup and the connection |
| `DnsFound`, `Connected`, `ErrCallback`, `DataToFile`, `DataToMemory`, `DataToBus`, `TimeArrives`, `Closes` | `http_dns_found_cb`, `news_connected_cb`, `http_err_cb`, `http_recv_cb`, `news_recv_cb`, `weather_recv_cb`, `ntp_recv_cb` |
| `Broken`, `GivenUp`, `FallsSilent`, `Forgotten` | the connection is refused or reset, the transport gives up, nothing comes any more, a closed connection comes to its end |
| `stray`, `Strays` | what an earlier command left lwIP to call back for: a late lookup, `http_err_cb` of a closed connection |
| `happened`, `derailed` | history: what has failed, and whether one of three things has happened behind which the code gives no order |

`Faults` pairs a command with what may go wrong in it. Some the code notices (`Noticed`: opens,
lookups, connections, resets, silence, a failed tcp_write), some not (`Unnoticed`: the results of
`lfs_file_read`, `lfs_file_write` and `lfs_file_close`, data that come early or late, stray callbacks).
Run `net_requests` has all of them, shared among the commands so that none has every one (`Mishaps`), answers
that are shorter than, as long as and longer than `http_buf`, an empty title and a name lwIP knows already. It checks:

- `BytesMatched`: the 65C02 takes every byte for what it is meant as, until one of three things happens
  (`Derails`): a callback writes a frame while the handler does not wait for it, before the header or while
  `stream_end` is being written, or the frame is empty (`main.c:278`, `316`); a stream ends that has not begun
  (finding 3); a stray callback raises flags of another command's record.
- `ReplyIsTrue`: until then OK means what `Done` says and an error has a reason (`Noted`). `Done` names what OK is
  not worth, since `main.c` does not look: a GET whose write or close has failed (`main.c:161, 1933`, finding 6), the bytes
  of a POST whose read has failed (`main.c:2042`) or that was answered early (the answer overwrites the chunk in `http_buf`),
  a download longer than `http_buf` (a packet that does not fit is dropped, a smaller one behind it may fit, `main.c:164`).
  `Noted` has one case in which nothing is wrong: a stream whose name was in lwIP's cache waits
  for a callback that does not come and answers STATUS_ERR after five seconds (`main.c:2118`).
- `NothingOutlives`: a handler that has answered has closed its file and its connection, no data come for it, and its
  lookup is under way only if the wait took too long. Two callbacks do outlive it, that lookup's and `http_err_cb`
  of a connection that was open, which keeps a pointer to a record on the stack; they come as `Strays`.
- `CommandsEnd`, under `FairSpec`: every command ends, for the 65C02 and for the handler, or is in `Stuck`: a POST whose server
  falls silent in the middle of the file (`main.c:2026` has no limit), or derailed. A POST to a peer that does not
  acknowledge may end when TCP gives up (`GivenUp`); this is not assumed to happen.

All hold. Run `net_fails` lets the connection of a stream be refused or not be answered, and `FailsBeforeStreaming`
is violated: finding 3.

What the model does not follow: `tcp_close` of a pcb lwIP has freed, and what a stray callback may hit but the record of
the next command. NTP packets that are not an answer of 48 bytes are ignored by `ntp_recv_cb` and left out.

Bounds: an answer is a header and up to three texts; `BufSize = 2` is more than the shortest download,
equal to the next, less than the longest and than the file of three bytes that POST sends; `PayloadMax = 1` cuts a payload; `Base = 2` makes
a frame of two bytes use both bytes of its length. A packet has at most 65535 bytes, as lwIP's `uint16_t` does. Fairness: of `HostStep`, `Handler`
(timed loops count to their end) and `Network`: what has been sent arrives, unless the fault `FallsSilent` has come
before. Faults, the transport's giving up and the end of a closed connection are not fair. 554,272 distinct states.

`WebText` is what the callbacks do with bytes: `http_recv_cb` and `weather_recv_cb` strip
the HTTP header, `news_recv_cb` picks the titles out of a feed and decodes entities. TCP
cuts a page anywhere, so each keeps its state from packet to packet. Run `texts` checks
that, however it is cut, the result is that of a definition over the whole page:
`PageIsRight`, which is `BodyIsKept` and `TitlesRight`; and `TypeOK`, which says where the callback
writes: within `parse_buf`, and within `entity_buf` but for one byte. An entity of exactly ten bytes fills `entity_buf`, and its NUL
(`main.c:328`) falls on the place behind it (`beyond`). That is `entity_fill`, which is set to 0 right after, so the
text is decoded as if it had fitted; the run reaches it (finding 7). Bounds: a tag
of 3 bytes for the 7 of `<title>`, buffers of 5 and 4 for 512 and 10, two known entities, one of them for `<`, answers of up to 7
bytes over CR, LF and another, feeds of up to 5 pieces, packets of 1, 2 or 5 bytes: the
shift of the parse buffer, a tag across it, an entity across two packets and a title
longer than its buffer all happen. `BodyIsKept` leaves out, for WEATHER, headers in which two
carriage returns follow each other; `weather_recv_cb` misses their end (`main.c:273`), where
`http_recv_cb` does not. A feed is given by its pieces (`IsFeed`): tags, text, and entities that fit
`entity_buf` without their NUL. The callback does not read others as XML does: a title in which a `&` is not the start of
an entity, or a tag with a `>` inside it, is left out of the model. The callback also leaves the text
of a title in `parse_buf` when it ends (`main.c:316-317`), so a title that ends with `&lt;` or `&lt;titl`
and is closed by `<title>` or `<e>` would be taken for the start of another; `IsFeed` leaves out such a
tag behind a title (`IsRest`), where an entity stands for `<`. `CHECK_DEADLOCK FALSE` since the model stops when the page has come.

## 7. The programs that work on texts: TextTools and Editor

HEAD, TAIL, WC, GREP and DIFF are clients of the file commands: OPEN, then READ of a chunk
that fits their buffer until there is none, then CLOSE. A command of theirs is an action
of FileStore (`INSTANCE`), which may also refuse it.

| In the model | In the code |
| --- | --- |
| `tool`, `tpc`, `arg`, `handles` | the program, its place, the paths of its command line, `t_handle` or `t_handle1` and `t_handle2` |
| `kept` | what lives from chunk to chunk: `t_lines` of HEAD; `t_in_word` and the three counts of WC; `line_buf`, `line_idx` and what has been printed of GREP; the first chunk and `offset` of DIFF |
| `size` | `file_size` of TAIL |
| `Open`, `OpenSecond`, `Close`, `ReadFails` | `head.s:135-192`, `diff.s:101-119`, `wc.s:361-397`; a failed READ ends a program like the end of the file |
| `HeadReads`, `Shown` | `head.s:195-284` |
| `TailSeeks`, `TailReads`, `TailStart` | `tail.s:200-473`: the seek to the last 512 bytes, the scan backwards for the eleventh newline |
| `WcReads`, `Counted` | `wc.s:235-354` |
| `GrepReads`, `GrepByte`, `LineDone`, `Found` | `grep.s:209-281`, `process_line`, `strstr` |
| `DiffReadsFirst`, `DiffReadsSecond`, `DiffCompares` | `diff.s:124-285` |

`MCTexts` puts WebText, TextTools and Editor into one run, `texts`; a behaviour is one of the
three. `OutputRight`: what a program has printed at its end is what a definition over the whole file gives
(its first or last lines, its counts, the lines with the pattern, the first difference),
wherever chunks end. `HandlesClosed`: a program that ends leaves no handle open, also when a
command has failed, and for DIFF when only its second file could not be opened. Both
hold. Bounds: chunks of 2 bytes, two lines for ten, a window of 5 for 512, a line buffer of 4 for 128, and
every file of up to 4 to 7 bytes over the letters a program distinguishes, which puts the
end of a chunk before, at and behind every newline, word and match. A READ answers with all
it is asked for if the file has it, as `main.c:1485-1512` does for chunks below 1024 bytes.

`OutputRight`, and the theorem about it, leave out files with which these programs do something else; the operator `Fits` names
them. The run therefore does not catch:

- TAIL looks for the eleventh newline, so a file without one at its end shows eleven lines; and
  it sees 512 bytes only. README.md:131 speaks of the last 10 lines.
- GREP loses the byte that finds `line_buf` full (`grep.s:268`: the line is processed and the
  byte is not stored). In an empty line `strstr` looks at the byte behind the terminator
  (`grep.s:433`), where an earlier line may still be, and prints an empty line that does not match.
  A NUL ends a line for `strstr` and for the printing, so a file with one is left out too.
- A READ that fails looks like the end of the file: DIFF may then call files identical.

### WRITE: Editor

`Editor` is the full-screen editor, one action for a key. It extends TextTools: it loads its
file through a handle (`LoadOpen`, `LoadRead`, `LoadClose`, `try_load_file`) and saves with
SAVEMEM (`Saves`, `perform_save`), of which Session has the stream.

| In the model | In the code (`write.s`) |
| --- | --- |
| `buf`, `cur` | `text_buffer_fixed`, the pointer `t_str_ptr1` |
| `line`, `col`, `top` | `current_line`, `current_col`, `top_line_num`, each a byte |
| `fname` | `filename_buf` |
| `Inserted`, `Removed` | `insert_char_mem`, `shift_buffer_left`: on the bytes, over the NUL |
| `BolOf`, `EolOf`, `Along`, `Behind` | `move_to_bol`, `move_to_eol`, `apply_column`, the end of a line in `handle_pgdn` |
| `LoopContinue`, `Scrolled` | `calc_line_col`, `check_scroll`; plain letters do without them (`write.s:167`) |
| `SaveAs`, `SaveAsLeft`, `Exit` | `handle_save_as` with Enter and with ESC, `exit_check` and `save_sequence` |

`EditsAreRight` compares every key with a definition on lines: what is inserted, removed, where
the cursor goes, what is loaded and what is saved, and that only NULs lie behind the text, on which
the next insertion relies (`Clean`): a key keeps it, and the load of a file without CR and NUL brings it
about. The lines of a text are its `Starts`, and `Row` counts them up to a position, where the code
searches the buffer for line ends. `CursorInView`: line and column are those of the cursor, although
letters only count on, and the cursor is among the lines that are drawn: for line numbers
that fit their byte, and a screen of at most half of 256 lines (24 if it is not detected), as the sums in
`check_scroll` have eight bits. Bounds: a buffer of 7
bytes, so that one can be filled; every text of up to four bytes over LF and a letter, one too
long, one with CR, one with a NUL within and one with a NUL at its end; three keys; three lines on the
screen, pages of three, and
numbers modulo 8 for 256, so that the sum in `check_scroll` wraps with the last lines.

What the editor does beyond these properties:

- Typing into a full buffer writes behind it (`write.s:929`); a file name or a search text may be
  longer than its buffer (`write.s:875`, `write.s:712`: the limit is tested, and both ways lead on).
- Lines that end with CR LF: Up goes from a line to the LF of the one above, Page Up counts
  each as two. From 256 lines on the line numbers wrap, and the wrong lines are drawn.
- After an OPEN or a READ that fails, and for a file of 4096 bytes or more or with a NUL, less than
  the file is in the buffer, and a save replaces the file by it. An empty text cannot be saved:
  SAVEMEM refuses a length of 0 (`main.c:2575`). Exit leaves after a failed save.
- ESC in Save As leaves the letters typed so far over the old name.
- `CHRIN` does not wait: an arrow key whose second byte is not there yet is dropped, and its
  other bytes are typed (`write.s:175`).

## 8. A 65C02 that starts again: SyncBridge

When the emulator starts, the Pico may have been running for long and be in the middle
of anything. `sync_bridge` (`6502emu.c:480`) makes up to sixteen dummy reads; one that meets
a read of the Pico gives both 0, one that meets a write drains a byte; a 255 is taken for
the STATUS_ERR that command 0 is answered with, and two length bytes are read after it.
`SyncBridge` extends `Session` by `HostReset` at any moment, `SyncRead`, `SyncByte`, `MarkByte`,
`SyncTimeout`. Run `sync_bridge` checks `MarkerMeansRest` (after a marker the Pico
waits for a command) and `RestIsFound` (a sync that gives up has not met a Pico at rest).

Left out are the wait for CA1 to rise before the first dummy read, with ESC to skip the sync (`6502emu.c:501-511`), and the wait for
its release after each (`6502emu.c:539`), which goes on after ten milliseconds in any case; the model takes the release as come. A dummy read in the model meets the Pico's call or times out.

A data byte or a length of 255 is taken for the marker too. The history variable `marker`
says what the byte was; the code cannot know. `MarkerMeansRest` is about a marker that
was a status. After another 255 the sync says "found" in the middle of something, and its
two reads, which have no timeout, may wait for ever. `Lost` is a 65C02 that has found no
marker or a false one; it starts its routines all the same.

The bounds: `MaxTries = 6` for 16; one reset after a good sync and any number while `Lost`; data
0 and 255, so that false markers happen; files of up to two bytes, blocks of one; failing opens. The
constraint `NotLost` stops a run where a lost 65C02 starts a routine: what the two sides then
say to each other is endless. The proofs of section 9 follow it there.

The comments at lines 476 and 515 name
STATUS_ERR 0x01, the code tests 0xFF, which is what the firmware sends.

## 9. Proofs

`ViaHandshakeProofs`, for every set of byte values. Assumptions:
`ByteAssumption` (the undriven bus has a value), `PromptAssumption` (a Boolean), and,
where said, `PicoPrompt`.

| Theorem | States | Needs |
| --- | --- | --- |
| `TypeCorrect` | `Spec => []TypeOK` | nothing; also with a delayed CPU |
| `Interlocked` | `Spec => []Interlock` | `PicoPrompt` |
| `Quiescence` | `QuiescentBetweenCalls` | `Interlocked` |
| `FreshAck` | `NoStaleAck` | `Interlocked` |
| `CleanSamples` | `CleanSample` | `Interlocked` |
| `NoFalseStrobe` | the action property `StrobeOnlyWhenAsked` | `Interlocked` |
| `WiresImplementLink` | `Spec => Link!LinkSpec` | `Interlocked` |

`TypeOK` is not inductive, because the TX machine takes a word out of its FIFO two
instructions after it has seen it there; `TxHasWord` is the missing fact. None of the
safety properties is inductive either: that a flag is fresh depends on where both
machines are, which depends on what the CPU has enabled and fetched. `Interlock` says
which phases go together: `CpuPhase` (what the CPU has set up), `RxPhase` and
`TxPhase` (how far a machine is, by what is in its FIFOs), `WirePhase` (what that says
about the 6502 and about CA1). The step is proved agent by agent; each conjunct that
an agent can disturb is a step of its own. The refinement then shows of each action
that it is one action of ByteLink or leaves both call records alone.

`FileServiceProofs`, for any number of files, paths and handles,
any data and any request lengths. Assumptions: `FileAssumption` (the constants have
the shapes their comments give) and, where said, `"probe" \notin Faults`, with every other
fault allowed, or `OnlyOpensFail`.

| Theorem | States | Needs |
| --- | --- | --- |
| `TypeCorrect` | `Spec => []TypeOK` | nothing |
| `HandlesMatch` | `Spec => []HandleTable` | nothing |
| `ViewsAreClean` | `Spec => []CleanView` | probes that succeed |
| `SyncsAreStored` | the action property `SyncedIsStored` | nothing; whatever fails |
| `CopiesKeepSource` | the action property `CopyKeepsSource` | nothing; whatever fails |
| `FilesAreStored` | `Spec => Store!StoreSpec`, which is `ImplementsFileStore` | `OnlyOpensFail`: nothing fails but opens and directory changes, and power stays |

`Table`, which is `TypeOK /\ HandleTable`, is inductive: that an object's new state
is typed needs to know that a slot found marked holds an open object, and that
`FreeHandle` is a slot at all, which is the lemma `LeastNatural` (a non-empty set of
naturals has a least member). `CleanView` is not inductive: a commit through one
handle changes the flash under any other handle on the same file. `OneWriter` is the
missing fact (a handle that writes is the only one on its file, and a read-only one
has nothing to commit), and `Views` is the three together. The step goes command by
command; `WhoAnswers` then tells which steps answer a SYNC or a COPY, and the two
action properties follow from those, with `Marks`: a marked object is one whose program was told. For the refinement `Plain` adds that no object is marked,
that a closed one is as `init_handles` left it (an unmount of what is not mounted must leave the
table as FileStore says), and that a flash without a file system holds nothing (so that the
format hidden in a mount loses nothing). What the programs see of a file is the view of its one
writer, else the flash (`Shows`); so a commit changes nothing they see (`CommitsShow`), a write
changes one file only, and each command of FileService is the one of FileStore with the same
answer or a refusal. `OnlyOpensFail` is not a convenience: a failed read moves the position, a
failed write leaves a part of its data, and a failed commit loses data under OK.

`SessionProofs`, for files of any length and contents, buffers of any size, any cut of a
stream into reads and writes, and any order of programs. Assumptions: the shapes of the
constants, and, for all but the first, `Undisturbed`: no write fails in the middle of a
stream (finding 2), the last one not in FORTH write, RUN gets no file of one byte (both at
the end of section 3), and a response holds two bytes.

| Theorem | States | Needs |
| --- | --- | --- |
| `TypeCorrect` | `Spec => []TypeOK` | nothing; whatever fails |
| `ConversationHolds` | `Spec => []Conversation`, the inductive invariant | `Undisturbed` |
| `BytesAreMatched` | `CallsMatched` | `Undisturbed` |
| `StatusIsRead` | `StatusReachesHost` | `Undisturbed` |
| `CommandsLeaveNothing` | `NothingLeftOver` | `Undisturbed` |
| `StreamIsOwned` | `StreamOwned` | `Undisturbed` |
| `CountsAgree` | `StreamsAgree` | `Undisturbed` |
| `SavesAreStored` | `AcceptedIsStored` | `Undisturbed`; FORTH write only if a close cannot fail |
| `LoadsAreTrue` | `LoadedIsStored` | `Undisturbed`; reads that succeed |

None of these properties is inductive: that a byte meets the read it is meant for depends on
how far both programs are, and on what is between them. `ToPico` and `ToHost` are those queues: what
one side has still to offer, what it offers, and what the other has received and not yet
looked at. `Turns` says that bytes are under way in one direction only and that the first is
the one its reader waits for. `Phase` has fourteen cases, the moments of a command
(`Requesting`, `AtLen`, ..., `Streaming`, `Ending`, ..., `Resting`); each says what is in the queues
and what it is worth: that what is loaded, held and unread is the file, that what is kept,
written and under way is the data of the save. The link only moves bytes within a
queue (`LinkKeepsView`), so a step of the link keeps every phase at once; every other
step takes the head of a queue or fills an empty one, and leads from one phase to the
next. Streams of any length need no induction over data: the invariant says what a byte
adds, and each step adds one. Before the proof TLC checked `Conversation` on four instances,
up to 5.9 million states.

`NetRequestProofs`, for every answer, every cut of it into packets, every size of the
buffers, every interleaving of handler and callbacks and every set of faults. Assumptions: the shapes of the
constants (a title and the date fit a length of two bytes), and nothing else.

| Theorem | States | Needs |
| --- | --- | --- |
| `TypeCorrect` | `Spec => []TypeOK` | nothing; whatever the network does |
| `HandlersLeaveNothing` | `NothingOutlives` | nothing; the lookup that took too long is named in the property |
| `BytesAreMatched` | `BytesMatched` | nothing; up to `Derails` |
| `RepliesAreTrue` | `ReplyIsTrue` | nothing; up to `Derails` |

The invariant has a part for each thing that handler and callbacks share. `Stages` and
`Files` say how far connection and file are at each place of the handler, whatever fails; `Lookups` the query, until `derailed`. `Order` does it
for streams, whose record takes an error for "connected": it says when the flag may be believed. `Bus`
says what is on the way to the 65C02 and whose it is: a callback writes only while the handler
of a stream waits, and then the 65C02 is between two frames or inside the frame of that callback
(`InFrame`); everywhere else the bytes are the rest of one answer (`Answer`). `TheEnd` says that the
answer under way is true; it needs that the texts kept are those served (`FileKept`, `BufferKept`),
that the chunk in `http_buf` is the next part of the file (`Uploaded`), that "complete" means all of
it (`Completed`), and that without a fault nothing fails (`Faultless`). Three layers build on each other: `Held`, which holds
always, `Ordered`, which has `Lookups`, `Order` and `Bus` while nothing is derailed, and `Honest`, which has the rest.
TLC checked `Honest` on several instances first.

`TreeProofs`, for every tree of directories, every cut of them into blocks, every set of
calls that may fail, and a loss of power between any two. Assumption: `TreeAssumption`, the shapes
of the constants, with flashes at the start that are trees in tidy blocks (an empty flash is one).

| Theorem | States | Needs |
| --- | --- | --- |
| `TypeCorrect` | `Spec => []TypeOK` | `WalkHolds` |
| `ListIsBalanced` | `MlistBalanced` | `WalkHolds` |
| `NothingIsOrphaned` | `NothingOrphaned` | `WalkHolds` |
| `OthersAreSpared` | `OthersStay` | `SpareHolds` |
| `CursorsAreHeld` | `CursorsHold` | `CursorsAreFit` |
| `RemovalsAreTrue` | `RemovalIsTrue` | `AnswersHold` |
| `ListsAreWhole` | `TreeListsAll` | `ListHolds` |
| `WalksAreTrue` | `WalkIsTrue`, the two together | the two above |

The invariant has layers, each proved from the ones below. `WalkInv` has the types, the tree
and the recursion: `Chain` says that each open directory is an entry of the next one, so that
no directory is open twice, and `Places` what the next call is about; without it a removal could take
a directory that is being read, and `MlistBalanced` would not survive a close. `SpareInv` adds
that a removal adds nothing and stays below its path. `CursorInv` is the heart:
`SeenIsGoing` says that behind a cursor there is only the entry that is going, `CursorsFit`
that a cursor is within its block, `Shaped` that blocks are tidy. One lemma for each thing a commit can do to
the blocks (an entry goes, a block is dropped, a block is split, a block is split and one half
is dropped) shows that `Settled` moves each cursor so that what is behind it stays behind it.
`CursorsHold` alone is not inductive: it says nothing of a call that has come back, and
a block with an entry twice, or an empty one in the middle, would break it at the next step.
`AnswerInv` carries the answer up the levels: a directory is left only when it was read to its
end (`AllRead`), so that nothing is in it (`SeenIsGoing`) and it can be removed, and
an error can come only from a failed call (`NoError`). `ListInv` says of TREE that of an open directory just
what the cursor has passed was sent, and of any other directory that was sent, everything.
That this covers the whole tree needs `Under` as a closure, the least set with the path and the
entries of its directories, which the proofs use without induction. Before the proof TLC checked
each layer as an invariant of the run.

`SyncBridgeProofs`, for any data, lengths and number of resets, and also for a 65C02 that is lost and
starts routines nevertheless. Assumptions: those of Session and `SyncAssumption`.

| Theorem | States | Needs |
| --- | --- | --- |
| `MarkersMeanRest` | `SyncSpec => []MarkerMeansRest` | `WritesSucceed`: no write of a stream fails |
| `RestFound` | `SyncSpec => []RestIsFound` | `MaxTries > 2`; the code has 16 |

The invariant of Session is of no use here, as the two sides may be out of step. What is left of it
are the types (`PicoKeepsOwnType` speaks of the Pico alone, whoever is at the other
end), with `Blank` in place of the 65C02's while it syncs. `Alone` says what the
Pico writes, whoever reads it: a status comes first, and behind an error come two bytes and
then a command is awaited. `Gives(n)` is a Pico with n bytes left of such an error, and `Marked`
follows it through the two reads behind the marker. After a failed write of a Forth block the Pico gives
its error in the middle of the stream and waits for the rest, which is why `WritesSucceed`
is needed. `Obeys(n)` is a Pico at rest that has met n dummy reads: it takes two zeros for a
command 0, answers the third read and is never `Busy`, so that `Answered` needs no
assumption on the disk.

`TextProofs`, with its lemmas in `TextLemmas`, for every page, feed and cut of it into packets, every
file and size of the chunks, every text and key. Assumptions: the shapes of the constants, which are
`TextAssumption`, `ToolAssumption` and `EditAssumption`. `OutputRight` speaks of the files of `Fits` only (section 7).

| Theorem | States | Invariant |
| --- | --- | --- |
| `TypeCorrect` | `Spec => []TypeOK` of WebText: nothing is written behind a buffer but the NUL on the one place behind `entity_buf` | `Typed` |
| `PagesAreRight` | `Spec => []PageIsRight`: headers are stripped, titles are found | `Typed`, `Kept`, `Read` |
| `ToolsPrintRight` | `ToolSpec => []OutputRight`: HEAD, WC and DIFF for any file, TAIL and GREP for those of `Fits` | `ToolHolding`, `HeadHolds`, `TailHolds`, `WcHolds`, `GrepHolds`, `DiffHolds` |
| `ToolsCloseHandles` | `ToolSpec => []HandlesClosed` | `ToolHolding` |
| `EditorClosesHandle` | `EditSpec => []HandlesClosed` | `EditHolding` |
| `CursorStaysInView` | `EditSpec => []CursorInView` | `Edited` |
| `EditorDoesRight` | `EditSpec => EditsAreRight`: keys, loads and saves | `Edited`, `Loaded` |

The three modules compute by recursive functions over a packet, a chunk or a page. That such a
function exists and has, at each place, the value its definition says is proved by a least
counterexample (`Least`, `FromZero`, `Iterates` in TextLemmas), and so is what holds at every
place of it (`Stays`); the induction theorems of the library are not needed. The lines of a file are
its newlines by rank (`Rank`, `Nth`): how many lines a prefix has grows by one at each newline.
With this an invariant need only say what a program has done with what it has read so far. `Kept`
says it of a header: `header_state` is how much of an empty line the bytes come so far end with,
and what was sent is what follows the first. `Read` says it of a feed: behind k pieces and j bytes of
the next (`Reached`), the frames are the titles of the k pieces, and the parser is outside a title,
in the tag that closes one, in an entity or in text, with what its buffers then hold. Outside a title
the buffer need only be known in part: no `<` of it lacks a `>` behind it (`Quiet`), or it ends with
the bytes of the tag under way, or with as many as a tag has (`Trails`), which is what the shift of
the full buffer keeps. `WcHolds` says that the counts are those of the prefix
read, `HeadHolds` that as many lines were printed as the prefix has newlines, `TailHolds` that
the chunk is the end of the file, `GrepHolds` that `line_buf` holds the line under way and that what is
printed are the lines with the pattern before it, `DiffHolds` that the files agree up to `offset`.
`ToolHolding` ties each handle to its file and its position to what was read, which a refused command
must not change. `Edited` says that line and column are those counted from the text
and that the viewport fits them; a letter only adds to the column, so that what was counted before
must still hold of the text after the shift of the buffer.

`EditorDoesRight` is an action property: each key is compared with its definition in the states of
`Edited`. An insertion or a removal shifts bytes of the buffer, and the text before and after is put together
of `Before` and `After` of the cursor (`Inserts`, `Removes`). For the keys that move, a
line is known by its number: `Row` grows by one at each start of a line and nowhere else
(`RowNext`, `RowSame`), so that `Start` and `Row` invert each other (`StartIs`), and the searches of the code
for the next and the last LF end where a line with the next or the last number does (`LineStops`). For a page
the searches are iterated, and each makes one line of the way (`PageUpGoes`, `PageDownGoes`). Find
looks ahead of the cursor first and then from the start, which is the least of the cyclic distances
(`FindsNext`). What a load has brought so far is in `Loaded`: the first `size - kept` bytes of the file, and
NULs behind them, as long as no command has failed; the handle stands behind those bytes. The theorem
assumes that what is searched for is a sequence, and that letters are neither LF, CR nor NUL.

Only model-checked is all liveness: `CallsReturn` of ViaHandshake, `CommandsEnd` of Session and of
NetRequest, `CommandEnds` of TreeOps. Liveness under fairness and ENABLED are out of the proof
system's reach. Every other property of a passing run is stated by a theorem.

## 10. Findings

1. `via_interrupted`: `bus_read_byte` disables the RX machine (`bus.c:100`) after it
   has fetched the token; an interrupt there lets the machine start on the next byte
   and freezes it between CA1 low and CA2 low. README.md:357 promises a fully
   hardware-interlocked bus.
2. `session_save_fails`: a flush that fails in the middle of SAVEMEM is answered while
   the 65C02 still sends (`main.c:662`); the rest of the file is read as commands.
3. `net_fails`: NEWS, WEATHER and RLIST register an error callback that sets `connected`
   in their kind of record (`main.c:2144`), so that a refused connection is answered OK; and
   a connection that is not answered ends in two bytes instead of a header, after which
   the 65C02 waits for ever. README.md:749 says that a failure before streaming sends
   STATUS_ERR.

The next four are exceptions a property of a passing run has to make; without its exception the run fails.

4. `file_handles`, `SyncedIsStored`: after a request on a handle was answered ERR, a SYNC of it may answer STATUS_OK and
   store nothing (`main.c:1662`), where lfs.h:605 says that pending writes are written out.
5. `file_handles`, `CopyKeepsSource`: a probe that fails is taken for a missing destination (`main.c:1372`), and a copy of
   a file onto itself may cut it short; main.c:1380 means to abort "to prevent data loss".
6. `net_requests`, `ReplyIsTrue`: HTTP_GET looks neither at `lfs_file_write` (`main.c:161`) nor at `lfs_file_close`
   (`main.c:1933`), and answers STATUS_OK for a body that is not stored; README.md:342 says that errors are propagated.
7. `texts`, `TypeOK`: the NUL of an entity of ten bytes is written behind `entity_buf` (`main.c:328`), on `entity_fill`,
   without a consequence; the comment at main.c:324 says that the `&` is not stored, but line 320 stores it.

Sections 3, 6, 7 and 8 name what else was seen and has no run. CLOSE does not look at the result
of `lfs_file_close` (`main.c:1475`), whose commit may fail: data can be lost under STATUS_OK.

## 11. Not modelled, and why

- RTC, timer, status, version: one request, one answer, no state that matters later.
- lwIP, the emulator's CPU and VIA, BASIC and the ROM, the host tools: third party, or no
  part of the interlock. Of LittleFS the parts named above; the on-disk format, the
  allocator, wear levelling and `lfs_fs_gc` are not.
- In the network commands: NET_CONNECT, NET_STATUS, NET_GET_IP, NET_DISCONNECT, each one SDK call
  and a report; use of a connection that lwIP has freed (undefined behaviour).
- In the file commands: SIZE and SPACE only report; LIST and LIST_SIZE are in Session;
  files are entries in one directory (TreeOps has several); SEEK targets outside
  `Count` are left out as a bound.
- In Session: the text of paths, the shell's parser and batch mode, payloads of
  commands that only report.
- The 100 ms between CMD_RESET and the watchdog's restart; a restart of the Pico alone while
  the 65C02 is in a bus call.
- Electrical behaviour beyond who drives a line; time beyond `PioSettled` and `PicoPrompt`.

## 12. Plan

1. More clients of FileStore: get, put and cp, which lift the two assumptions of
   FileService; the shell's `is_mounted_flag` against `fs_mounted`; the dirty flag of the
   Forth block cache.
2. `FlashDriver`: `w25q64.c` against the block device contract.
3. The restart of the Pico alone on the wires.
