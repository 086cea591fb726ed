---------------------------- MODULE FileService ----------------------------
(***************************************************************************)
(* The file commands of the Pico (main.c): the mount state, the table of   *)
(* open files, and the commands that work on handles or on whole files.    *)
(* One action is one command, from request to answer: Session shows that   *)
(* requests and answers do not overlap, and the main loop handles one at a *)
(* time.  The streams (SAVEMEM, LOADMEM, FORTH) are Session's.             *)
(*                                                                         *)
(* LittleFS is external.  An open file is an object with a view of its     *)
(* own; a write changes the view, and a sync or a close commits it to the  *)
(* flash.  Whatever fails while data goes to the flash marks the object    *)
(* (LFS_F_ERRED): a write or a commit, and a READ or SEEK that first has   *)
(* to write out what is pending.  A marked object is synced and closed     *)
(* without an error and without a commit until a write on it succeeds.     *)
(* Opening with CREAT makes the entry at once.                             *)
(*                                                                         *)
(* Two things are assumed of the 65C02 programs, and the Pico enforces     *)
(* neither: they write only through handles opened for writing, and they   *)
(* do not change a file by path, or open it again, while a handle writes   *)
(* it, since LittleFS objects of one file do not see each other.           *)
(***************************************************************************)
EXTENDS Integers, Sequences, FiniteSetsExt

CONSTANTS
    Path, File,  \* path strings; the directory entries they may lead to
    Entry,       \* the entry of each path: several paths may share one
    Handle,      \* 0 .. MAX_OPEN_FILES - 1
    Data,        \* the values of file bytes; 0 fills holes
    Chunk,       \* the data one request can carry: sequences over Data
    Count,       \* the numbers a request can carry: lengths and positions
    RespSpace,   \* sizeof(resp_buf) - 3
    MaxLen,      \* bound: the longest file
    Faults       \* the LittleFS calls that may fail, and "power"

FileAssumption ==
    /\ Path = DOMAIN Entry /\ 1 \in Path /\ Entry \in [Path -> File]
    /\ Handle \subseteq Nat /\ Handle # {} /\ Data \subseteq Nat /\ 0 \in Data
    /\ Chunk \subseteq Seq(Data) \ {<<>>} /\ Count \subseteq Nat
    /\ RespSpace \in Nat \ {0} /\ MaxLen \in Nat
    /\ Faults \subseteq {"mount", "format", "open", "probe", "read", "write", "commit",
                         "entry", "power"}
ASSUME FileAssumption

VARIABLES
    fs_mounted,
    used,        \* the handles whose open_files[h].used is set
    open,        \* the LittleFS object of each handle
    formatted,   \* the flash holds a file system
    dir, disk,   \* the entries it has, and their committed contents
    reply,       \* the last request and its answer
    \* history
    told,        \* the open handles on which a request has been answered ERR
                 \* since the last WRITE on them was answered OK
    blind        \* the last command was a COPY whose probe has failed

tableVars == <<fs_mounted, used, open>>
flashVars == <<formatted, dir, disk>>
historyVars == <<told, blind>>
vars == <<tableVars, flashVars, reply, historyVars>>

Object == [st : {"closed", "ro", "rw"}, file : File, pos : Nat,
           view : Seq(Data), dirty : BOOLEAN, erred : BOOLEAN]
Closed == [st |-> "closed", file |-> Entry[1], pos |-> 0, view |-> <<>>,
           dirty |-> FALSE, erred |-> FALSE]
AllClosed == [h \in Handle |-> Closed]

\* What the programs see: the view of a handle that writes, else the flash.
seen == [f \in File |->
    IF \E h \in Handle : open[h].st = "rw" /\ open[h].file = f
    THEN open[CHOOSE h \in Handle : open[h].st = "rw" /\ open[h].file = f].view
    ELSE disk[f]]
opened == [h \in Handle |->
    [st |-> open[h].st, file |-> open[h].file, pos |-> open[h].pos]]

Store == INSTANCE FileStore
         WITH names <- dir, store <- seen, fds <- opened, up <- fs_mounted

OK == 0
ERR == 255
NO_FILE == 2

FileCommands == {"open", "close", "read", "write", "seek", "tell", "sync", "stat",
                 "touch", "append", "remove", "rename", "copy"}
HandleCommands == {"close", "read", "write", "seek", "tell", "sync"}

StateOK ==
    /\ fs_mounted \in BOOLEAN /\ used \subseteq Handle
    /\ open \in [Handle -> Object]
    /\ formatted \in BOOLEAN /\ dir \subseteq File
    /\ disk \in [File -> Seq(Data)]

TypeOK == StateOK /\ told \subseteq Handle /\ blind \in BOOLEAN
-----------------------------------------------------------------------------
(* LittleFS.                                                               *)

\* The flash after the objects of hs are committed, which may fail for each.
Commits(h) == open[h].dirty /\ ~open[h].erred
Committed(hs) ==
    {[f \in File |->
        IF \E h \in done : Commits(h) /\ open[h].file = f
        THEN open[CHOOSE h \in done : Commits(h) /\ open[h].file = f].view
        ELSE disk[f]]
     : done \in IF "commit" \in Faults THEN SUBSET hs ELSE {hs}}

MountResults(good) ==
    (IF good THEN {TRUE} ELSE {}) \cup
    (IF good /\ "mount" \notin Faults THEN {} ELSE {FALSE})

Update(h, p, v, d, e) ==
    open' = [open EXCEPT ![h] = [st |-> open[h].st, file |-> open[h].file, pos |-> p,
                                 view |-> v, dirty |-> d, erred |-> e]]
MoveTo(h, p) == Update(h, p, open[h].view, open[h].dirty, open[h].erred)
\* Pending data cannot be written out: the copying of what follows it has
\* moved the position, and a failed write marks the object (lfs_file_flush).
FlushFails(h) ==
    /\ open[h].dirty
    /\ \E p \in open[h].pos..Store!Larger(open[h].pos, Len(open[h].view)), e \in BOOLEAN :
         Update(h, p, open[h].view, TRUE, open[h].erred \/ e)

CloseObject(h) == open' = [open EXCEPT ![h] = Closed]
-----------------------------------------------------------------------------
Answer(c, as, st, d) == Store!Answered(c, as, st, d)

\* A refused request that leaves everything alone.
Refuse(c, as, st) == Answer(c, as, st, <<>>) /\ UNCHANGED <<tableVars, flashVars>>

\* Every file command looks at fs_mounted first.
NotMounted == ~fs_mounted /\ \E c \in FileCommands : Refuse(c, <<>>, ERR)

\* The commands on a handle look it up in the table.
BadHandle ==
    /\ fs_mounted
    /\ \E h \in Handle \ used, c \in HandleCommands : Refuse(c, <<h>>, ERR)

UsesPath(p) == fs_mounted /\ p \in Path
UsesHandle(h) == fs_mounted /\ h \in used
Unopened(p) == \A h \in Handle : open[h].st # "closed" => open[h].file # Entry[p]
Unwritten(p) == \A h \in Handle : open[h].st = "rw" => open[h].file # Entry[p]

\* A call that creates the entry of p fails, before or after it has done so.
CreateFails(c, p) ==
    /\ "open" \in Faults
    /\ dir' \in {dir, dir \cup {Entry[p]}}
    /\ Answer(c, <<p>>, ERR, <<>>)
    /\ UNCHANGED <<tableVars, formatted, disk>>
-----------------------------------------------------------------------------
(* Handles.                                                                *)

OpenNone(p) == UsesPath(p) /\ used = Handle /\ Refuse("open", <<p>>, ERR)

OpenMissing(p) ==
    /\ UsesPath(p) /\ used # Handle /\ Entry[p] \notin dir
    /\ Refuse("open", <<p>>, NO_FILE)

OpenFails(p, mode) ==
    /\ UsesPath(p) /\ used # Handle
    /\ IF mode = "rw" THEN Unopened(p) /\ CreateFails("open", p)
       ELSE "open" \in Faults /\ Refuse("open", <<p>>, ERR)

\* Mutant of FreeHandle: the first slot, free or not.
FreeHandleAny == Min(Handle)

\* The first free slot of open_files.
FreeHandle == Min(Handle \ used)

OpenFile(p, mode) ==
    /\ UsesPath(p) /\ used # Handle
    /\ IF mode = "rw" THEN Unopened(p) ELSE Unwritten(p) /\ Entry[p] \in dir
    /\ used' = used \cup {FreeHandle}
    /\ open' = [open EXCEPT ![FreeHandle] =
                   [st |-> mode, file |-> Entry[p], pos |-> 0,
                    view |-> disk[Entry[p]], dirty |-> FALSE, erred |-> FALSE]]
    /\ dir' = dir \cup {Entry[p]}
    /\ Answer("open", <<p>>, OK, <<FreeHandle, Len(disk[Entry[p]])>>)
    /\ UNCHANGED <<fs_mounted, formatted, disk>>

\* The result of the close is not looked at.
CloseFile(h) ==
    /\ UsesHandle(h)
    /\ disk' \in Committed({h})
    /\ CloseObject(h) /\ used' = used \ {h}
    /\ Answer("close", <<h>>, OK, <<>>)
    /\ UNCHANGED <<fs_mounted, formatted, dir>>

ReadFile(h, n) ==
    /\ UsesHandle(h)
    /\ LET d == Store!Slice(open[h].view, open[h].pos, Store!Smaller(n, RespSpace)) IN
       \/ /\ MoveTo(h, open[h].pos + Len(d))
          /\ Answer("read", <<h, n>>, OK, d)
       \/ /\ "read" \in Faults
          /\ \E k \in 0..Len(d) : MoveTo(h, open[h].pos + k)
          /\ Answer("read", <<h, n>>, ERR, <<>>)
       \/ "write" \in Faults /\ FlushFails(h) /\ Answer("read", <<h, n>>, ERR, <<>>)
    /\ UNCHANGED <<fs_mounted, used, flashVars>>

WriteFile(h, d) ==
    /\ UsesHandle(h) /\ open[h].st = "rw"
    /\ open[h].pos + Len(d) <= MaxLen
    \* a hole is filled byte by byte before the data
    /\ LET start == Store!Smaller(open[h].pos, Len(open[h].view))
           bytes == [i \in 1..(open[h].pos - start) |-> 0] \o d
           After(n) == Store!Overwrite(open[h].view, start, SubSeq(bytes, 1, n)) IN
       \/ /\ Update(h, open[h].pos + Len(d), After(Len(bytes)), TRUE, FALSE)
          /\ Answer("write", <<h>>, OK, <<>>)
       \/ /\ "write" \in Faults
          /\ \E n \in 0..(Len(bytes) - 1) :
               Update(h, start + n, After(n), open[h].dirty \/ n > 0, TRUE)
          /\ Answer("write", <<h>>, ERR, <<>>)
    /\ UNCHANGED <<fs_mounted, used, flashVars>>

\* LFS_SEEK_SET, LFS_SEEK_CUR, LFS_SEEK_END
SeekTargets(h) ==
    LET bases == {0, open[h].pos, Len(open[h].view)} IN
    {b + n : b \in bases, n \in Count} \cup {b - n : b \in bases, n \in Count}

\* Mutant of SeekFile: a position before the start is accepted.
SeekFileUnchecked(h) ==
    /\ UsesHandle(h)
    /\ \E p \in SeekTargets(h) :
         /\ p \in Count \/ p < 0
         /\ MoveTo(h, p)
         /\ Answer("seek", <<h>>, OK, <<p>>)
    /\ UNCHANGED <<fs_mounted, used, flashVars>>

SeekFile(h) ==
    /\ UsesHandle(h)
    /\ \E p \in SeekTargets(h) :
         \/ /\ p \in Count
            /\ MoveTo(h, p)
            /\ Answer("seek", <<h>>, OK, <<p>>)
         \/ p < 0 /\ Answer("seek", <<h>>, ERR, <<>>) /\ UNCHANGED open
         \/ /\ p \in Count /\ p # open[h].pos /\ "write" \in Faults
            /\ FlushFails(h) /\ Answer("seek", <<h>>, ERR, <<>>)
    /\ UNCHANGED <<fs_mounted, used, flashVars>>

TellFile(h) ==
    /\ UsesHandle(h)
    /\ Answer("tell", <<h>>, OK, <<open[h].pos>>)
    /\ UNCHANGED <<tableVars, flashVars>>

\* Mutant of SyncFile: the result of lfs_file_sync is not looked at.
SyncFileUnchecked(h) ==
    /\ UsesHandle(h)
    /\ disk' \in Committed({h})
    /\ Update(h, open[h].pos, open[h].view, FALSE, open[h].erred)
    /\ Answer("sync", <<h>>, OK, <<>>)
    /\ UNCHANGED <<fs_mounted, used, formatted, dir>>

SyncFile(h) ==
    /\ UsesHandle(h)
    /\ \/ /\ disk' = IF Commits(h) THEN [disk EXCEPT ![open[h].file] = open[h].view] ELSE disk
          /\ Update(h, open[h].pos, open[h].view,
                    open[h].dirty /\ open[h].erred, open[h].erred)
          /\ Answer("sync", <<h>>, OK, <<>>)
       \/ /\ Commits(h) /\ "commit" \in Faults
          /\ \/ FlushFails(h) /\ open'[h].erred
             \/ \E e \in BOOLEAN : Update(h, open[h].pos, open[h].view, TRUE, e)
          /\ Answer("sync", <<h>>, ERR, <<>>)
          /\ UNCHANGED disk
    /\ UNCHANGED <<fs_mounted, used, formatted, dir>>
-----------------------------------------------------------------------------
(* Whole files.                                                            *)

StatFile(p) ==
    /\ UsesPath(p) /\ Unwritten(p)
    /\ \/ Entry[p] \in dir /\ Answer("stat", <<p>>, OK, <<Len(disk[Entry[p]])>>)
       \/ Entry[p] \notin dir /\ Answer("stat", <<p>>, NO_FILE, <<>>)
       \/ "entry" \in Faults /\ Answer("stat", <<p>>, ERR, <<>>)
    /\ UNCHANGED <<tableVars, flashVars>>

TouchFile(p) ==
    /\ UsesPath(p)
    /\ \/ CreateFails("touch", p)
       \/ /\ dir' = dir \cup {Entry[p]}
          /\ Answer("touch", <<p>>, OK, <<>>)
          /\ UNCHANGED <<tableVars, formatted, disk>>

\* The results of the write and the close are not looked at.
AppendFile(p, d) ==
    /\ UsesPath(p) /\ Unopened(p)
    /\ Len(disk[Entry[p]]) + Len(d) <= MaxLen
    /\ \/ CreateFails("append", p)
       \/ /\ dir' = dir \cup {Entry[p]}
          /\ \/ disk' = [disk EXCEPT ![Entry[p]] = @ \o d]
             \/ Faults \cap {"write", "commit"} # {} /\ UNCHANGED disk
          /\ Answer("append", <<p>>, OK, <<>>)
          /\ UNCHANGED <<tableVars, formatted>>

RemoveFile(p) ==
    /\ UsesPath(p) /\ Unopened(p)
    /\ \/ Entry[p] \notin dir /\ Refuse("remove", <<p>>, NO_FILE)
       \/ "entry" \in Faults /\ Refuse("remove", <<p>>, ERR)
       \/ /\ Entry[p] \in dir
          /\ dir' = dir \ {Entry[p]} /\ disk' = [disk EXCEPT ![Entry[p]] = <<>>]
          /\ Answer("remove", <<p>>, OK, <<>>)
          /\ UNCHANGED <<tableVars, formatted>>

RenameFile(p, q) ==
    /\ UsesPath(p) /\ UsesPath(q) /\ Unopened(p) /\ Unopened(q)
    /\ \/ Entry[p] \notin dir /\ Refuse("rename", <<p, q>>, NO_FILE)
       \/ "entry" \in Faults /\ Refuse("rename", <<p, q>>, ERR)
       \/ /\ Entry[p] \in dir
          /\ dir' = (dir \ {Entry[p]}) \cup {Entry[q]}
          /\ disk' = [f \in File |-> IF f = Entry[q] THEN disk[Entry[p]]
                                     ELSE IF f = Entry[p] THEN <<>> ELSE disk[f]]
          /\ Answer("rename", <<p, q>>, OK, <<>>)
          /\ UNCHANGED <<tableVars, formatted>>

CopyUses(p, q) ==
    UsesPath(p) /\ UsesPath(q) /\ Unwritten(p) /\ (Entry[q] # Entry[p] => Unopened(q))

\* Mutant of SelfCopy: the paths are compared.
SelfCopyByName(p, q) == p = q

\* The probe opens the destination as it is and compares directory entries.
SelfCopy(p, q) == Entry[p] = Entry[q]

CopyRefused(p, q) ==
    /\ CopyUses(p, q)
    /\ \/ Entry[p] \notin dir /\ Refuse("copy", <<p, q>>, NO_FILE)
       \/ Entry[p] \in dir /\ SelfCopy(p, q) /\ Refuse("copy", <<p, q>>, ERR)
       \/ "open" \in Faults /\ Refuse("copy", <<p, q>>, ERR)

\* The destination is truncated and closed after the loop, whose last read
\* or write may fail; a failed write keeps the close from committing, a
\* failed read does not.  The result of the close is not looked at.
Copies(p, q) ==
    /\ CopyUses(p, q) /\ Entry[p] \in dir
    /\ dir' = dir \cup {Entry[q]}
    /\ LET source == disk[Entry[p]]
           Leaves(c) == disk' \in {[disk EXCEPT ![Entry[q]] = c]}
                               \cup (IF "commit" \in Faults THEN {disk} ELSE {}) IN
       \/ Leaves(source) /\ Answer("copy", <<p, q>>, OK, <<>>)
       \/ /\ "read" \in Faults
          /\ \E n \in 0..Len(source) : Leaves(SubSeq(source, 1, n))
          /\ Answer("copy", <<p, q>>, ERR, <<>>)
       \/ /\ Faults \cap {"write", "open"} # {}
          /\ Answer("copy", <<p, q>>, ERR, <<>>) /\ UNCHANGED disk
    /\ UNCHANGED <<tableVars, formatted>>

CopyFile(p, q) == ~SelfCopy(p, q) /\ Copies(p, q)

\* Whatever makes the probe fail, the destination is taken for one that
\* does not exist, also when it is the source.
CopyBlind(p, q) == "probe" \in Faults /\ Copies(p, q)
-----------------------------------------------------------------------------
(* Mounting, and restarts of the Pico.                                     *)

FormatAndMount(c) ==
    \/ /\ formatted' = TRUE /\ dir' = {} /\ disk' = [f \in File |-> <<>>]
       /\ \E good \in MountResults(TRUE) :
            /\ fs_mounted' = good
            /\ Answer(c, <<>>, IF good THEN OK ELSE ERR, <<>>)
    \* a failed format: the old file system is there, or none
    \/ /\ "format" \in Faults
       /\ \/ UNCHANGED flashVars
          \/ formatted' = FALSE /\ dir' = {} /\ disk' = [f \in File |-> <<>>]
       /\ fs_mounted' = FALSE
       /\ Answer(c, <<>>, ERR, <<>>)

\* Whatever makes the mount fail, the flash is formatted.
Mount ==
    /\ \/ fs_mounted /\ Refuse("mount", <<>>, OK)
       \/ /\ ~fs_mounted
          /\ \/ /\ TRUE \in MountResults(formatted)
                /\ fs_mounted' = TRUE /\ Answer("mount", <<>>, OK, <<>>)
                /\ UNCHANGED flashVars
             \/ FALSE \in MountResults(formatted) /\ FormatAndMount("mount")
          /\ UNCHANGED <<used, open>>

Format ==
    /\ used' = {} /\ open' = AllClosed
    /\ FormatAndMount("format")

\* Mutant of Unmount: the slots stay marked.
UnmountKeepsUsed ==
    \/ ~fs_mounted /\ Refuse("unmount", <<>>, OK)
    \/ /\ fs_mounted
       /\ disk' \in Committed(used)
       /\ open' = AllClosed /\ fs_mounted' = FALSE
       /\ Answer("unmount", <<>>, OK, <<>>)
       /\ UNCHANGED <<used, formatted, dir>>

Unmount ==
    \/ ~fs_mounted /\ Refuse("unmount", <<>>, OK)
    \/ /\ fs_mounted
       /\ disk' \in Committed(used)
       /\ used' = {} /\ open' = AllClosed
       /\ fs_mounted' = FALSE
       /\ Answer("unmount", <<>>, OK, <<>>)
       /\ UNCHANGED <<formatted, dir>>

\* init_handles and the two attempts to mount at the start of main
Boot == used' = {} /\ open' = AllClosed /\ fs_mounted' \in MountResults(formatted)

\* CMD_RESET closes the files and unmounts; 100 ms later the watchdog
\* restarts the Pico.  The one program that sends it waits over a second.
Reset ==
    /\ disk' \in IF fs_mounted THEN Committed(used) ELSE {disk}
    /\ Boot
    /\ Answer("reset", <<>>, OK, <<>>)
    /\ UNCHANGED <<formatted, dir>>

PowerLoss ==
    /\ "power" \in Faults
    /\ Boot
    /\ Answer("boot", <<>>, OK, <<>>)
    /\ UNCHANGED flashVars
-----------------------------------------------------------------------------
Init ==
    /\ used = {} /\ open = AllClosed
    /\ formatted \in BOOLEAN
    /\ dir \in IF formatted THEN SUBSET File ELSE {{}}
    /\ disk \in [File -> {c \in Chunk \cup {<<>>} : Len(c) <= MaxLen}]
    /\ \A f \in File \ dir : disk[f] = <<>>
    /\ fs_mounted \in MountResults(formatted)
    /\ reply = [to |-> "boot", args |-> <<>>, st |-> OK, data |-> <<>>]
    /\ told = {} /\ blind = FALSE

OnHandle(h) ==
    \/ CloseFile(h) \/ SeekFile(h) \/ TellFile(h) \/ SyncFile(h)
    \/ \E n \in Count : ReadFile(h, n)
    \/ \E d \in Chunk : WriteFile(h, d)

OnPath(p) ==
    \/ OpenNone(p) \/ OpenMissing(p)
    \/ \E mode \in {"ro", "rw"} : OpenFails(p, mode) \/ OpenFile(p, mode)
    \/ StatFile(p) \/ TouchFile(p) \/ RemoveFile(p)
    \/ \E d \in Chunk : AppendFile(p, d)
    \/ \E q \in Path : RenameFile(p, q) \/ CopyRefused(p, q) \/ CopyFile(p, q)

Command ==
    \/ NotMounted \/ BadHandle
    \/ \E h \in Handle : OnHandle(h)
    \/ \E p \in Path : OnPath(p)
    \/ Mount \/ Format \/ Unmount \/ Reset \/ PowerLoss

BlindCopy == \E p, q \in Path : CopyBlind(p, q)

\* The history: what the programs have been told of their open handles.
Tells ==
    LET About(h) == reply'.to \in HandleCommands /\ reply'.args[1] = h IN
    told' = {h \in used' :
        \/ About(h) /\ reply'.st = ERR
        \/ h \in told /\ ~(About(h) /\ reply'.to = "write")}

Next == \/ Command /\ Tells /\ blind' = FALSE
        \/ BlindCopy /\ Tells /\ blind' = TRUE

Spec == Init /\ [][Next]_vars
-----------------------------------------------------------------------------
(* Properties.                                                             *)

\* A slot of open_files is marked used exactly while LittleFS has the slot's
\* object in its list of open files, and nothing is open without a mounted
\* file system: a slot given out twice, or forgotten by an unmount or a
\* format, would link one object twice or leave a dead one in the list.
HandleTable ==
    /\ \A h \in Handle : h \in used <=> open[h].st # "closed"
    /\ fs_mounted => formatted
    /\ ~fs_mounted => used = {}

\* A handle with nothing to commit shows what the flash holds, and the
\* entry it is open on exists.
CleanView ==
    \A h \in used : /\ open[h].file \in dir
                    /\ ~open[h].dirty => open[h].view = disk[open[h].file]

\* What an answer of OK to SYNC is worth.  On a handle that has told no
\* failure since the last good WRITE, everything the handle shows is in the
\* flash.  After a READ, WRITE, SEEK or SYNC answered ERR it is all or
\* nothing: LittleFS leaves a marked object alone and reports no error, so
\* that OK may mean that nothing was stored.
SyncedIsStored ==
    [][\A h \in Handle :
         reply'.to = "sync" /\ reply'.args = <<h>> /\ reply'.st = OK /\ open[h].st = "rw" =>
             \/ disk'[open[h].file] = open[h].view
             \/ h \in told /\ disk' = disk]_vars

\* COPY leaves its source as it is, whatever the two paths look like and
\* whatever fails while it runs, with one exception: a copy of a file onto
\* itself whose probe has failed may cut the file short.  It says ERR then.
CopyKeepsSource ==
    [][\A p, q \in Path :
         reply'.to = "copy" /\ reply'.args = <<p, q>> =>
             \/ disk'[Entry[p]] = disk[Entry[p]]
             \/ /\ blind' /\ Entry[p] = Entry[q] /\ reply'.st = ERR
                /\ \E n \in 0..Len(disk[Entry[p]]) :
                     disk'[Entry[p]] = SubSeq(disk[Entry[p]], 1, n)]_vars

\* As long as nothing but an open or a directory change fails, the programs
\* see the plain files of FileStore: views, commits and restarts are hidden.
ImplementsFileStore == Store!StoreSpec
=============================================================================
