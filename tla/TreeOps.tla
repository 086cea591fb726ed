------------------------------ MODULE TreeOps ------------------------------
(***************************************************************************)
(* The commands of main.c that walk a directory tree: REMOVE_RECURSIVE,    *)
(* DELETE_CONTENTS and TREE, with MKDIR, on the directories of LittleFS.   *)
(*                                                                         *)
(* A LittleFS directory is a list of blocks (metadata pairs), each with    *)
(* its entries in order.  An open lfs_dir_t is a cursor: the block it is   *)
(* in and the id of the next entry there.  recursive_remove deletes the    *)
(* entries of the directory it is reading, so that it relies on the        *)
(* "fixmlist" part of lfs_dir_relocatingcommit, which moves the cursors of *)
(* all open directories when an entry goes or a block is dropped.          *)
(*                                                                         *)
(* Every call of LittleFS is a step; between two the power may go.  Names  *)
(* and paths are the nodes they lead to; the entries "." and "..", which   *)
(* the walks skip, and the superblock entry of the root are left out.      *)
(***************************************************************************)
EXTENDS Naturals, Sequences, FiniteSets, SequencesExt

CONSTANTS
    Root, Dirs,  \* the directories, Root among them
    Files,
    Layouts,     \* the directories there may be on the flash at the start
    Ops,         \* the commands the user gives
    Faults       \* the calls that may fail: "open", "read", "unlink", "malloc", "mkdir"

AllOps == {"remove", "contents", "tree", "mkdir"}
Nodes == Dirs \cup Files
Disks == [Dirs -> Seq(Seq(Nodes))]

\* The entries of a list of blocks.
EntriesIn(blocks) == UNION {Range(blocks[b]) : b \in DOMAIN blocks}

\* Every node is in one directory at most, a directory with entries is in
\* another one or is the root, and none is below itself: every set of them has
\* one that is in no other of the set.
IsTree(l) ==
    /\ \A d \in Dirs : EntriesIn(l[d]) # {} => d = Root \/ \E e \in Dirs : d \in EntriesIn(l[e])
    /\ \A d, e \in Dirs : EntriesIn(l[d]) \cap EntriesIn(l[e]) # {} => d = e
    /\ \A s \in SUBSET Dirs : s # {} => \E d \in s : \A e \in s : d \notin EntriesIn(l[e])

\* A list of blocks has an entry only once, and only its first block may be empty.
Once(x) ==
    \A b, c \in DOMAIN x : \A i \in DOMAIN x[b], j \in DOMAIN x[c] :
        x[b][i] = x[c][j] => b = c /\ i = j
Tidy(x) == x # <<>> /\ \A b \in DOMAIN x : b > 1 => x[b] # <<>>

TreeAssumption ==
    /\ Root \in Dirs /\ Dirs \cap Files = {} /\ IsFiniteSet(Nodes)
    /\ \A l \in Layouts : /\ l \in Disks /\ IsTree(l)
                          /\ \A d \in Dirs : Once(l[d]) /\ Tidy(l[d])
    /\ Ops \subseteq AllOps
    /\ Faults \subseteq {"open", "read", "unlink", "malloc", "mkdir"}
ASSUME TreeAssumption

VARIABLES
    disk,    \* disk[d]: the blocks of directory d
    before,  \* the disk when the command began
    op, path,
    pc,
    target,  \* the node the next call is about
    stack,   \* the calls of the walker, innermost first: their lfs_dir_t
    mlist,   \* the directories whose lfs_dir_t LittleFS has in its list
    ret,     \* what the call that has just returned gives
    listed,  \* TREE: the frames that were sent
    faulty,  \* a call of LittleFS, or malloc, has failed
    reply

walkVars == <<op, path, before>>
vars == <<disk, walkVars, pc, target, stack, mlist, ret, listed, faulty, reply>>

Entries(d) == EntriesIn(disk[d])
EntriesBefore(d) == EntriesIn(before[d])
Exists(n) == n = Root \/ \E d \in Dirs : n \in Entries(d)
ExistsBefore(n) == n = Root \/ \E d \in Dirs : n \in EntriesBefore(d)

\* The nodes below path, and path itself, when the command began: those in
\* every set that has path and, with a directory, its entries.
Closed(s) == path \in s /\ \A d \in Dirs \cap s : EntriesBefore(d) \subseteq s
Under == {n \in Nodes : ExistsBefore(path) /\ \A s \in SUBSET Nodes : Closed(s) => n \in s}

Results == {"ok", "noent", "fail", "notempty", "inval", "exist"}
TypeOK ==
    /\ disk \in Disks /\ before \in Disks
    /\ op \in AllOps \cup {"none"} /\ path \in Nodes
    /\ pc \in {"idle", "open", "read", "unlink", "close", "mkdir", "return"}
    /\ target \in Nodes
    /\ stack \in Seq([at : Dirs, blk : Nat \ {0}, id : Nat])
    /\ mlist \subseteq Dirs /\ ret \in Results /\ listed \in Seq(Nodes) /\ faulty \in BOOLEAN
    /\ reply \in {"none", "OK", "ERR", "NO_FILE", "EXIST"}
-----------------------------------------------------------------------------
(***************************************************************************)
(* LittleFS.                                                               *)
(***************************************************************************)
CanFail(f) == f \in Faults
Fault(f) == CanFail(f) /\ faulty' = TRUE
NoFault == UNCHANGED faulty

\* An lfs_dir_t of directory d: id entries of block blk are behind it.
Opened(d) == [at |-> d, blk |-> 1, id |-> 0]

\* The blocks in which c still has something to read.
Unread(c) == {b \in DOMAIN disk[c.at] :
                 IF b = c.blk THEN c.id < Len(disk[c.at][b])
                              ELSE b > c.blk /\ disk[c.at][b] # <<>>}

\* lfs_dir_read: at the end of a block it goes on to the next one.
Advanced(c) ==
    LET b == CHOOSE x \in Unread(c) : \A y \in Unread(c) : x <= y IN
    [c EXCEPT !.blk = b, !.id = IF b = c.blk THEN c.id + 1 ELSE 1]
EntryAt(c) == disk[c.at][c.blk][c.id]

\* Mutants of Settled: the cursor moves on by a block when one is dropped; the
\* cursors of all directories are moved.
SettledTwice(c, d, b, i, blocks) ==
    IF c.at # d \/ c.blk < b THEN c
    ELSE IF Len(blocks) < Len(disk[d]) THEN [c EXCEPT !.blk = @ + 1, !.id = 0]
    ELSE [c EXCEPT !.id = c.id - 1]
SettledAll(c, d, b, i, blocks) == [c EXCEPT !.id = c.id - 1]

\* The fixmlist part of lfs_dir_relocatingcommit, for a cursor c of directory
\* d when entry i of block b is deleted; blocks are what is left of d.  A
\* cursor behind the entry moves back; if it is then behind its block, it goes
\* on to the next one.
Settled(c, d, b, i, blocks) ==
    LET id == IF c.id >= i THEN c.id - 1 ELSE c.id IN
    IF c.at # d \/ c.blk < b THEN c
    ELSE IF c.blk > b THEN [c EXCEPT !.blk = c.blk + Len(blocks) - Len(disk[d])]
    ELSE IF Len(blocks) < Len(disk[d]) THEN [c EXCEPT !.id = id]
    ELSE IF id >= Len(blocks[b]) /\ b < Len(blocks)
         THEN [c EXCEPT !.blk = b + 1, !.id = id - Len(blocks[b])]
    ELSE [c EXCEPT !.id = id]

\* A commit to block b may compact it, and split it in two.
Halves(blocks, b) ==
    {blocks} \cup
    {SubSeq(blocks, 1, b - 1)
     \o <<SubSeq(blocks[b], 1, i), SubSeq(blocks[b], i + 1, Len(blocks[b]))>>
     \o SubSeq(blocks, b + 1, Len(blocks)) : i \in 1..Len(blocks[b]) - 1}

\* What is left of d without entry i of block b: a block that becomes empty
\* is dropped, unless it is the first one.
Deleted(d, b, i) ==
    LET left == [disk[d] EXCEPT ![b] = RemoveAt(@, i)] IN
    IF b > 1 /\ left[b] = <<>> THEN {RemoveAt(left, b)} ELSE Halves(left, b)

\* The commit that deletes the entry of node n.
Delete(n) ==
    \E d \in Dirs : \E b \in DOMAIN disk[d] : \E i \in DOMAIN disk[d][b] :
        /\ disk[d][b][i] = n
        /\ \E blocks \in Deleted(d, b, i) :
              /\ disk' = [disk EXCEPT ![d] = blocks]
              /\ stack' = [k \in DOMAIN stack |-> Settled(stack[k], d, b, i, blocks)]
-----------------------------------------------------------------------------
(***************************************************************************)
(* The commands.                                                           *)
(***************************************************************************)
Return(r) == pc' = "return" /\ ret' = r
Same == UNCHANGED <<walkVars, reply>>

Give(o, n) ==
    /\ pc = "idle" /\ o \in Ops /\ (o = "mkdir" => n \in Dirs \/ Exists(n))
    /\ op' = o /\ path' = n /\ before' = disk /\ target' = n
    /\ pc' = IF o = "mkdir" THEN "mkdir" ELSE "open"
    /\ listed' = <<>> /\ faulty' = FALSE /\ reply' = "none"
    /\ UNCHANGED <<disk, stack, mlist, ret>>

OpenDir ==
    /\ pc = "open" /\ target \in Dirs /\ Exists(target)
    /\ stack' = <<Opened(target)>> \o stack /\ mlist' = mlist \cup {target}
    /\ pc' = "read"
    /\ UNCHANGED <<disk, target, ret, listed, faulty>> /\ Same

\* What cannot be opened as a directory is removed as a file; TREE leaves
\* it out, DELETE_CONTENTS of it fails.
OpenFails ==
    /\ pc = "open"
    /\ \/ ~(target \in Dirs /\ Exists(target)) /\ NoFault
       \/ Fault("open")
    /\ CASE op = "tree" -> Return("ok")
         [] op = "contents" /\ stack = <<>> ->
              Return(IF Exists(target) THEN "fail" ELSE "noent")
         [] OTHER -> pc' = "unlink" /\ UNCHANGED ret
    /\ UNCHANGED <<disk, target, stack, mlist, listed>> /\ Same

\* An entry: TREE sends a frame for it and descends, the others remove it.
ReadEntry ==
    /\ pc = "read" /\ Unread(Head(stack)) # {}
    /\ stack' = <<Advanced(Head(stack))>> \o Tail(stack)
    /\ target' = EntryAt(stack'[1])
    /\ IF op = "tree"
       THEN /\ listed' = Append(listed, target')
            /\ pc' = IF target' \in Dirs THEN "open" ELSE "read"
       ELSE /\ pc' = IF target' \in Dirs THEN "open" ELSE "unlink"
            /\ UNCHANGED listed
    /\ UNCHANGED <<disk, mlist, ret, faulty>> /\ Same

ReadEnd ==
    /\ pc = "read" /\ Unread(Head(stack)) = {}
    /\ pc' = "close"
    /\ UNCHANGED <<disk, target, stack, mlist, ret, listed, faulty>> /\ Same

\* The innermost call is left: lfs_dir_close.
Leave == stack' = Tail(stack) /\ mlist' = mlist \ {Head(stack).at}

\* Mutant of ReadFails: the directory is not closed.
ReadFailsOpen ==
    /\ pc = "read"
    /\ Fault("read") \/ (op # "tree" /\ Fault("malloc"))
    /\ stack' = Tail(stack) /\ UNCHANGED mlist
    /\ Return(IF op = "tree" THEN "ok" ELSE "fail")
    /\ UNCHANGED <<disk, target, listed>> /\ Same

\* The read fails, or there is no memory for the path of the entry.
ReadFails ==
    /\ pc = "read"
    /\ Fault("read") \/ (op # "tree" /\ Fault("malloc"))
    /\ Leave /\ Return(IF op = "tree" THEN "ok" ELSE "fail")
    /\ UNCHANGED <<disk, target, listed>> /\ Same

\* Mutant of Close: DELETE_CONTENTS removes the directory as well.
CloseUnlinks ==
    /\ pc = "close" /\ Leave
    /\ IF op = "tree" THEN Return("ok") /\ UNCHANGED target
       ELSE pc' = "unlink" /\ target' = Head(stack).at /\ UNCHANGED ret
    /\ UNCHANGED <<disk, listed, faulty>> /\ Same

\* The end of the directory: recursive_remove goes on to remove it.
Close ==
    /\ pc = "close" /\ Leave
    /\ IF op = "tree" \/ (op = "contents" /\ Len(stack) = 1)
       THEN Return("ok") /\ UNCHANGED target
       ELSE pc' = "unlink" /\ target' = Head(stack).at /\ UNCHANGED ret
    /\ UNCHANGED <<disk, listed, faulty>> /\ Same

\* A directory with entries, or with a second block, is not removed.
Removable(n) == Exists(n) /\ n # Root /\ (n \in Dirs => disk[n] = <<<<>>>>)

\* Mutant of Unlink: without the NOTEMPTY check.
UnlinkAnything ==
    /\ pc = "unlink" /\ NoFault
    /\ IF Exists(target) /\ target # Root
       THEN Delete(target) /\ Return("ok")
       ELSE Return(IF Exists(target) THEN "inval" ELSE "noent") /\ UNCHANGED <<disk, stack>>
    /\ UNCHANGED <<target, mlist, listed>> /\ Same

\* lfs_remove.  It may fail before its commit or, for a directory, after it.
Unlink ==
    /\ pc = "unlink"
    /\ \/ Removable(target) /\ NoFault /\ Delete(target) /\ Return("ok")
       \/ Removable(target) /\ target \in Dirs /\ Fault("unlink") /\ Delete(target) /\ Return("fail")
       \/ Fault("unlink") /\ Return("fail") /\ UNCHANGED <<disk, stack>>
       \/ /\ ~Removable(target) /\ NoFault /\ UNCHANGED <<disk, stack>>
          /\ Return(CASE ~Exists(target) -> "noent"
                      [] target = Root -> "inval"
                      [] OTHER -> "notempty")
    /\ UNCHANGED <<target, mlist, listed>> /\ Same

Reply(r) ==
    CASE op = "tree" \/ r = "ok" -> "OK"
      [] op \in {"remove", "contents"} /\ r = "noent" -> "NO_FILE"
      [] op = "mkdir" /\ r = "exist" -> "EXIST"
      [] OTHER -> "ERR"
Answer(r) == reply' = Reply(r) /\ pc' = "idle" /\ UNCHANGED walkVars

\* Mutants of Back: an error is ignored; the call is made again.
BackAnyway ==
    /\ pc = "return"
    /\ IF stack = <<>> THEN Answer(ret) ELSE pc' = "read" /\ Same
    /\ UNCHANGED <<disk, target, stack, mlist, ret, listed, faulty>>
BackRetries ==
    /\ pc = "return"
    /\ IF stack = <<>> THEN Answer(ret)
       ELSE pc' = (IF ret = "ok" THEN "read" ELSE "unlink") /\ Same
    /\ UNCHANGED <<disk, target, stack, mlist, ret, listed, faulty>>

\* A call returns: the walker reads on, or closes and gives the error up.
Back ==
    /\ pc = "return"
    /\ \/ stack = <<>> /\ Answer(ret) /\ UNCHANGED <<stack, mlist>>
       \/ stack # <<>> /\ ret = "ok" /\ pc' = "read" /\ UNCHANGED <<stack, mlist>> /\ Same
       \/ stack # <<>> /\ ret # "ok" /\ Leave /\ UNCHANGED pc /\ Same
    /\ UNCHANGED <<disk, target, ret, listed, faulty>>

\* What the commit of a new entry makes of a list of blocks.
Inserted(blocks, n) ==
    UNION {UNION {Halves([blocks EXCEPT ![b] = InsertAt(@, i, n)], b)
                  : i \in 1..Len(blocks[b]) + 1} : b \in DOMAIN blocks}

\* lfs_mkdir of path in a directory d, which may not be there.
Mkdir ==
    /\ pc = "mkdir"
    /\ \/ Exists(path) /\ Return("exist") /\ NoFault /\ UNCHANGED disk
       \/ ~Exists(path) /\ Return("noent") /\ NoFault /\ UNCHANGED disk
       \/ Fault("mkdir") /\ Return("fail") /\ UNCHANGED disk
       \/ /\ ~Exists(path) /\ path \in Dirs /\ Return("ok") /\ NoFault
          /\ \E d \in Dirs : /\ Exists(d)
                             /\ \E blocks \in Inserted(disk[d], path) :
                                   disk' = [disk EXCEPT ![d] = blocks]
    /\ UNCHANGED <<target, stack, mlist, listed>> /\ Same

\* The power goes; the flash keeps what was committed.
PowerLoss ==
    /\ pc # "idle"
    /\ UNCHANGED disk /\ before' = disk
    /\ op' = "none" /\ path' = Root /\ pc' = "idle" /\ target' = Root
    /\ stack' = <<>> /\ mlist' = {} /\ ret' = "ok" /\ listed' = <<>>
    /\ faulty' = FALSE /\ reply' = "none"
-----------------------------------------------------------------------------
Init ==
    /\ disk \in Layouts /\ before = disk
    /\ op = "none" /\ path = Root /\ pc = "idle" /\ target = Root
    /\ stack = <<>> /\ mlist = {} /\ ret = "ok" /\ listed = <<>>
    /\ faulty = FALSE /\ reply = "none"

Walk ==
    \/ OpenDir \/ OpenFails \/ ReadEntry \/ ReadEnd \/ ReadFails
    \/ Close \/ Unlink \/ Back \/ Mkdir
Next ==
    \/ \E o \in Ops, n \in Nodes : Give(o, n)
    \/ Walk
    \/ PowerLoss
Spec == Init /\ [][Next]_vars
FairSpec == Spec /\ WF_vars(Walk)
-----------------------------------------------------------------------------
\* Nodes a command has no business with: TREE and MKDIR take nothing away,
\* DELETE_CONTENTS keeps the directory itself.
Spared(n) ==
    \/ op \in {"tree", "mkdir"} \/ n \notin Under
    \/ op = "contents" /\ n = path

\* Whatever fails, and at every moment of a walk, what the command does not
\* name stays in the directory it was in: a path that is built wrong, or a
\* walker that goes on above the directory it was given, would break this.
OthersStay ==
    op # "none" =>
        \A d \in Dirs : \A n \in EntriesBefore(d) \ Entries(d) : ~Spared(n)

\* The power may go and calls may fail in the middle of a removal: a
\* directory is never taken away before its entries, no node is in two
\* places, so that everything on the flash can still be reached.
NothingOrphaned == IsTree(disk)

\* A removal that is answered with OK has removed all it was to remove: the
\* errors of the inner calls come back through every level of the recursion.
\* While no call fails it is answered with OK: the entries removed under the
\* reading cursor never make it skip one, which would leave a directory that
\* cannot be removed.  The root itself cannot be removed.
RemovalIsTrue ==
    pc = "idle" /\ op \in {"remove", "contents"} =>
        /\ reply = "OK" => \A n \in Under : Exists(n) <=> Spared(n)
        /\ ~faulty /\ ExistsBefore(path) /\ (IF op = "remove" THEN path # Root ELSE path \in Dirs) =>
              reply = "OK"

\* TREE lists everything below its directory once, a directory before what
\* is in it, unless a call fails; then it ends early and still says OK.
TreeListsAll ==
    pc = "idle" /\ op = "tree" /\ ~faulty /\ path \in Dirs /\ ExistsBefore(path) =>
        /\ Range(listed) = Under \ {path} /\ IsInjective(listed)
        /\ \A i, j \in DOMAIN listed :
              listed[i] \in Dirs /\ listed[j] \in Entries(listed[i]) => i < j

\* What a command that walks a tree tells is true, and it does all of it.
WalkIsTrue == RemovalIsTrue /\ TreeListsAll

\* The entries a cursor has gone past and that are still there.
Behind(c) ==
    {n \in Entries(c.at) : \E b \in DOMAIN disk[c.at] : \E i \in DOMAIN disk[c.at][b] :
        disk[c.at][b][i] = n /\ (b < c.blk \/ (b = c.blk /\ i <= c.id))}

\* Behind the cursor of every level of a removal there is only the entry that
\* is being removed, through every deletion and dropped block, until an error
\* ends the walk: nothing is skipped, however the blocks are cut.
CursorsHold ==
    op \in {"remove", "contents"} /\ ~(pc = "return" /\ ret # "ok") =>
        \A i \in DOMAIN stack :
            Behind(stack[i]) \subseteq (IF i > 1 THEN {stack[i - 1].at}
                                        ELSE IF pc \in {"read", "close"} THEN {} ELSE {target})

\* The lfs_dir_t of a walker are local variables: LittleFS has in its list
\* those of the calls that run, and none of one that has returned, also when
\* errors end the walk.  With one left the next commit writes into dead stack.
MlistBalanced == mlist = {stack[i].at : i \in DOMAIN stack}

\* Every command ends: removing entries under its own cursor never makes the
\* walker meet the same entries again and again.
CommandEnds == pc # "idle" ~> pc = "idle"
=============================================================================
