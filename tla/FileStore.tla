----------------------------- MODULE FileStore -----------------------------
(***************************************************************************)
(* What the file commands of the Pico promise to the programs of the 65C02 *)
(* (main.c, CMD_FS_OPEN to CMD_FS_UNMOUNT): files that are changed at once *)
(* by every write that is answered OK, and that outlive handles, unmounts  *)
(* and restarts.  Nothing is said of caches, commits and LittleFS objects. *)
(* FileService is shown to implement it.                                   *)
(***************************************************************************)
EXTENDS Naturals, Sequences

CONSTANTS
    Path, File,  \* path strings; the directory entries they may lead to
    Entry,       \* the entry of each path: several paths may share one
    Handle,      \* 0 .. MAX_OPEN_FILES - 1
    Data,        \* the values of file bytes; 0 fills holes
    Chunk,       \* the data one request can carry: sequences over Data
    Count        \* the numbers a request can carry: lengths and positions

VARIABLES
    names,       \* the entries that exist
    store,       \* their contents, empty for the others
    fds,         \* what each handle is open on
    up,          \* a file system is mounted
    reply        \* the last request and its answer

storeVars == <<names, store, fds, up, reply>>

OK == 0
ERR == 255
NO_FILE == 2

Free == [st |-> "closed", file |-> Entry[1], pos |-> 0]

StoreTypeOK ==
    /\ names \subseteq File /\ store \in [File -> Seq(Data)]
    /\ fds \in [Handle -> [st : {"closed", "ro", "rw"}, file : File, pos : Nat]]
    /\ up \in BOOLEAN

Larger(m, n) == IF m >= n THEN m ELSE n
Smaller(m, n) == IF m <= n THEN m ELSE n

\* s after d has been written at position p; a hole is filled with zeros.
Overwrite(s, p, d) ==
    [i \in 1..Larger(Len(s), p + Len(d)) |->
        IF i \in (p + 1)..(p + Len(d)) THEN d[i - p]
        ELSE IF i <= Len(s) THEN s[i] ELSE 0]

\* n bytes of s from position p on, as many as there are
Slice(s, p, n) == SubSeq(s, p + 1, Smaller(Len(s), p + n))

Answered(c, as, st, d) == reply' = [to |-> c, args |-> as, st |-> st, data |-> d]

\* No handle is open on entry f; none that may write is.
Unopened(f) == \A h \in Handle : fds[h].st # "closed" => fds[h].file # f
Unwritten(f) == \A h \in Handle : fds[h].st = "rw" => fds[h].file # f
-----------------------------------------------------------------------------
StoreInit ==
    /\ names \subseteq File
    /\ store \in [File -> Seq(Data)]
    /\ fds = [h \in Handle |-> Free]
    /\ up \in BOOLEAN
    /\ reply = [to |-> "boot", args |-> <<>>, st |-> OK, data |-> <<>>]

\* A request that is refused changes nothing, but one that should have
\* created a file may have created it, empty.
Refused ==
    /\ reply'.st \in {ERR, NO_FILE} /\ reply'.data = <<>>
    /\ \/ names' = names
       \/ up /\ reply'.st = ERR /\ \E f \in File : names' = names \cup {f}
    /\ UNCHANGED <<store, fds, up>>

\* The handle given out is nobody else's.
Open(p, mode, h) ==
    /\ Answered("open", <<p>>, OK, <<h, Len(store[Entry[p]])>>)
    /\ up /\ fds[h].st = "closed"
    /\ mode = "ro" => Entry[p] \in names
    /\ names' = names \cup {Entry[p]}
    /\ fds' = [fds EXCEPT ![h] = [st |-> mode, file |-> Entry[p], pos |-> 0]]
    /\ UNCHANGED <<store, up>>

Close(h) ==
    /\ Answered("close", <<h>>, OK, <<>>)
    /\ fds[h].st # "closed"
    /\ fds' = [fds EXCEPT ![h] = Free]
    /\ UNCHANGED <<names, store, up>>

MoveTo(h, p) ==
    fds' = [fds EXCEPT ![h] = [st |-> fds[h].st, file |-> fds[h].file, pos |-> p]]

\* At most n bytes, and at least one if there is one.
Read(h, n) ==
    /\ fds[h].st # "closed"
    /\ \E m \in 0..n :
         LET d == Slice(store[fds[h].file], fds[h].pos, m) IN
         /\ Answered("read", <<h, n>>, OK, d)
         /\ n > 0 => m > 0
         /\ MoveTo(h, fds[h].pos + Len(d))
    /\ UNCHANGED <<names, store, up>>

Write(h, d) ==
    /\ Answered("write", <<h>>, OK, <<>>)
    /\ fds[h].st = "rw"
    /\ store' = [store EXCEPT ![fds[h].file] = Overwrite(@, fds[h].pos, d)]
    /\ MoveTo(h, fds[h].pos + Len(d))
    /\ UNCHANGED <<names, up>>

\* The new position is answered, wherever it was counted from.
Seek(h, p) ==
    /\ fds[h].st # "closed"
    /\ Answered("seek", <<h>>, OK, <<p>>) /\ MoveTo(h, p)
    /\ UNCHANGED <<names, store, up>>

Tell(h) ==
    /\ Answered("tell", <<h>>, OK, <<fds[h].pos>>)
    /\ fds[h].st # "closed"
    /\ UNCHANGED <<names, store, fds, up>>

Sync(h) ==
    /\ Answered("sync", <<h>>, OK, <<>>)
    /\ fds[h].st # "closed"
    /\ UNCHANGED <<names, store, fds, up>>

Stat(p) ==
    /\ Answered("stat", <<p>>, OK, <<Len(store[Entry[p]])>>)
    /\ up /\ Entry[p] \in names
    /\ UNCHANGED <<names, store, fds, up>>

Touch(p) ==
    /\ Answered("touch", <<p>>, OK, <<>>) /\ up
    /\ names' = names \cup {Entry[p]}
    /\ UNCHANGED <<store, fds, up>>

AppendTo(p, d) ==
    /\ Answered("append", <<p>>, OK, <<>>)
    /\ up /\ Unopened(Entry[p])
    /\ names' = names \cup {Entry[p]}
    /\ store' = [store EXCEPT ![Entry[p]] = @ \o d]
    /\ UNCHANGED <<fds, up>>

Remove(p) ==
    /\ Answered("remove", <<p>>, OK, <<>>)
    /\ up /\ Entry[p] \in names /\ Unopened(Entry[p])
    /\ names' = names \ {Entry[p]}
    /\ store' = [store EXCEPT ![Entry[p]] = <<>>]
    /\ UNCHANGED <<fds, up>>

Rename(p, q) ==
    /\ Answered("rename", <<p, q>>, OK, <<>>)
    /\ up /\ Entry[p] \in names
    /\ Unopened(Entry[p]) /\ Unopened(Entry[q])
    /\ IF Entry[p] = Entry[q] THEN UNCHANGED <<names, store>>
       ELSE /\ names' = (names \ {Entry[p]}) \cup {Entry[q]}
            /\ store' = [store EXCEPT ![Entry[p]] = <<>>,
                                      ![Entry[q]] = store[Entry[p]]]
    /\ UNCHANGED <<fds, up>>

\* A file is never copied onto itself, by whatever paths.
Copy(p, q) ==
    /\ Answered("copy", <<p, q>>, OK, <<>>)
    /\ up /\ Entry[p] \in names /\ Entry[p] # Entry[q]
    /\ Unwritten(Entry[p]) /\ Unopened(Entry[q])
    /\ names' = names \cup {Entry[q]}
    /\ store' = [store EXCEPT ![Entry[q]] = store[Entry[p]]]
    /\ UNCHANGED <<fds, up>>
-----------------------------------------------------------------------------
AllFree == fds' = [h \in Handle |-> Free]

Mount ==
    /\ Answered("mount", <<>>, OK, <<>>) /\ up' = TRUE
    /\ UNCHANGED <<names, store, fds>>

Unmount ==
    /\ Answered("unmount", <<>>, OK, <<>>) /\ up' = FALSE /\ AllFree
    /\ UNCHANGED <<names, store>>

Format ==
    /\ Answered("format", <<>>, OK, <<>>)
    /\ up' = TRUE /\ AllFree
    /\ names' = {} /\ store' = [f \in File |-> <<>>]

\* CMD_RESET: the Pico restarts, and mounts the file system if it can.
Restart ==
    /\ Answered("reset", <<>>, OK, <<>>) /\ up' \in BOOLEAN /\ AllFree
    /\ UNCHANGED <<names, store>>

StoreNext ==
    \/ \E p \in Path : \/ \E m \in {"ro", "rw"}, h \in Handle : Open(p, m, h)
                       \/ \E d \in Chunk : AppendTo(p, d)
                       \/ Stat(p) \/ Touch(p) \/ Remove(p)
                       \/ \E q \in Path : Rename(p, q) \/ Copy(p, q)
    \/ \E h \in Handle : \/ Close(h) \/ Tell(h) \/ Sync(h)
                         \/ \E n \in Count : Read(h, n) \/ Seek(h, n)
                         \/ \E d \in Chunk : Write(h, d)
    \/ Mount \/ Unmount \/ Format \/ Restart
    \/ Refused

StoreSpec == StoreInit /\ [][StoreNext]_storeVars
=============================================================================
