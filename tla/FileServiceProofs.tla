------------------------- MODULE FileServiceProofs -------------------------
(***************************************************************************)
(* Proofs about FileService, for every number of handles, every set of     *)
(* files and paths, and every choice of the calls that may fail: the type  *)
(* invariant, the handle table, that every slot given out was free, what   *)
(* the handles show of the flash, and that the service implements          *)
(* FileStore.                                                              *)
(***************************************************************************)
EXTENDS FileService, SequenceTheorems, FiniteSetTheorems, TLAPS

\* Every nonempty set of natural numbers has a least one: the set of the
\* numbers below it is minimal among finite sets ordered by inclusion.
LEMMA LeastNatural ==
    ASSUME NEW S, S \subseteq Nat, S # {}
    PROVE  Min(S) \in S /\ \A y \in S : Min(S) <= y
<1> DEFINE Below(x) == {y \in S : y < x}
           T == {Below(x) : x \in S}
<1>1. T \subseteq FiniteSubsetsOf(S)
  <2> SUFFICES ASSUME NEW x \in S PROVE Below(x) \in FiniteSubsetsOf(S)
    OBVIOUS
  <2>1. IsFiniteSet(0..x)
    BY FS_Interval
  <2>2. \A z \in Below(x) : z \in 0..x
    BY \A z \in S : z \in Nat
  <2>3. IsFiniteSet(Below(x))
    BY <2>1, <2>2, FS_Subset, Below(x) \in SUBSET (0..x)
  <2> QED
    BY <2>3 DEF FiniteSubsetsOf
<1>2. T # {}
  OBVIOUS
<1>3. PICK t \in T : \A u \in T : ~(<<u, t>> \in StrictSubsetOrdering(S))
  BY <1>1, <1>2, FS_StrictSubsetOrderingWellFounded, WFMin
<1>4. PICK x \in S : t = Below(x)
  BY <1>3
<1>5. \A y \in S : x <= y
  <2> SUFFICES ASSUME NEW y \in S, y < x PROVE FALSE
    OBVIOUS
  <2>0. x \in Nat /\ y \in Nat /\ \A z \in S : z \in Nat
    OBVIOUS
  <2>1. \A z \in S : z < y => z < x
    BY <2>0
  <2>2. Below(y) \subseteq Below(x)
    BY <2>1
  <2>3. y \in Below(x) /\ y \notin Below(y)
    BY <2>0
  <2>4. <<Below(y), Below(x)>> \in StrictSubsetOrdering(S)
    BY <2>2, <2>3 DEF StrictSubsetOrdering
  <2> QED
    BY <2>4, <1>3, <1>4
<1> QED
  BY <1>5 DEF Min

\* What a write makes of a file is a file.
LEMMA OverwriteType ==
    ASSUME NEW s \in Seq(Data), NEW p \in Nat, NEW d \in Seq(Data)
    PROVE  Store!Overwrite(s, p, d) \in Seq(Data)
<1>1. 0 \in Data
  BY FileAssumption DEF FileAssumption
<1>2. Len(s) \in Nat /\ Len(d) \in Nat
  OBVIOUS
<1>3. Store!Larger(Len(s), p + Len(d)) \in Nat
  BY <1>2 DEF Store!Larger
<1>4. \A i \in 1..Store!Larger(Len(s), p + Len(d)) :
        (IF i \in (p + 1)..(p + Len(d)) THEN d[i - p]
         ELSE IF i <= Len(s) THEN s[i] ELSE 0) \in Data
  BY <1>1, <1>2, <1>3
<1> QED
  BY <1>3, <1>4 DEF Store!Overwrite

\* The part of a hole and of the data that a write gets to is a sequence.
LEMMA FilledType ==
    ASSUME NEW n \in Nat, NEW d \in Seq(Data), NEW m \in Nat
    PROVE  LET bytes == [i \in 1..n |-> 0] \o d IN
           /\ bytes \in Seq(Data) /\ Len(bytes) = n + Len(d)
           /\ m <= Len(bytes) => SubSeq(bytes, 1, m) \in Seq(Data)
<1> DEFINE zeros == [i \in 1..n |-> 0]
           bytes == zeros \o d
<1>1. zeros \in Seq(Data) /\ Len(zeros) = n
  BY FileAssumption DEF FileAssumption
<1> HIDE DEF zeros
<1>2. bytes \in Seq(Data) /\ Len(bytes) = n + Len(d)
  BY <1>1
<1> HIDE DEF bytes
<1>3. m <= Len(bytes) => SubSeq(bytes, 1, m) \in Seq(Data)
  BY <1>2
<1> QED
  BY <1>2, <1>3 DEF bytes, zeros

LEMMA UpdateType ==
    ASSUME open \in [Handle -> Object], NEW h \in Handle, NEW p \in Nat,
           NEW v \in Seq(Data), NEW d \in BOOLEAN, NEW e \in BOOLEAN,
           Update(h, p, v, d, e)
    PROVE  /\ open' \in [Handle -> Object]
           /\ \A k \in Handle : open'[k].st = open[k].st
<1> DEFINE new == [st |-> open[h].st, file |-> open[h].file, pos |-> p,
                   view |-> v, dirty |-> d, erred |-> e]
<1>1. open[h] \in Object
  OBVIOUS
<1>2. open[h].st \in {"closed", "ro", "rw"} /\ open[h].file \in File
  BY <1>1 DEF Object
<1>3. new \in Object
  BY <1>2 DEF Object
<1>4. open' = [open EXCEPT ![h] = new]
  BY DEF Update
<1>5. new.st = open[h].st
  OBVIOUS
<1> HIDE DEF new
<1> QED
  BY <1>3, <1>4, <1>5

LEMMA ClosedType == Closed \in Object /\ Closed.st = "closed"
  BY FileAssumption DEF Closed, Object, FileAssumption

LEMMA CommittedType ==
    ASSUME StateOK, NEW hs \in SUBSET Handle, NEW c \in Committed(hs)
    PROVE  c \in [File -> Seq(Data)]
<1>1. PICK done \in SUBSET Handle :
        c = [f \in File |->
               IF \E h \in done : Commits(h) /\ open[h].file = f
               THEN open[CHOOSE h \in done : Commits(h) /\ open[h].file = f].view
               ELSE disk[f]]
  BY DEF Committed
<1>2. \A h \in done : open[h].view \in Seq(Data)
  BY DEF StateOK, Object
<1>3. ASSUME NEW f \in File PROVE c[f] \in Seq(Data)
  BY <1>1, <1>2 DEF StateOK
<1> QED
  BY <1>1, <1>3
-----------------------------------------------------------------------------
(* One step.                                                               *)

Table == StateOK /\ HandleTable

LEMMA InitTable == Init => Table
<1> SUFFICES ASSUME Init PROVE Table
  OBVIOUS
<1>1. open \in [Handle -> Object] /\ \A h \in Handle : open[h].st = "closed"
  BY ClosedType DEF Init, AllClosed
<1>2. disk \in [File -> Seq(Data)]
  <2>1. Chunk \subseteq Seq(Data)
    BY FileAssumption DEF FileAssumption
  <2>2. <<>> \in Seq(Data)
    OBVIOUS
  <2>3. \A c \in Chunk \cup {<<>>} : c \in Seq(Data)
    BY <2>1, <2>2
  <2> QED
    BY <2>3 DEF Init
<1>3. dir \subseteq File
  BY DEF Init
<1>4. fs_mounted \in BOOLEAN /\ (fs_mounted => formatted)
  BY DEF Init, MountResults
<1> QED
  BY <1>1, <1>2, <1>3, <1>4 DEF Init, Table, StateOK, HandleTable

\* The slot that OPEN gives out was free.
LEMMA FreeHandleIsFree ==
    ASSUME used \subseteq Handle, used # Handle
    PROVE  FreeHandle \in Handle \ used
  BY LeastNatural, FileAssumption DEF FreeHandle, FileAssumption

LEMMA KeepsTable ==
    ASSUME Table, UNCHANGED <<tableVars, flashVars>>
    PROVE  Table'
  BY DEF Table, StateOK, HandleTable, tableVars, flashVars

\* Steps that leave the mount state and the set of open slots alone.
LEMMA SameSlots ==
    ASSUME Table, UNCHANGED <<fs_mounted, used, formatted>>,
           open' \in [Handle -> Object],
           \A h \in Handle : open'[h].st = open[h].st,
           dir' \subseteq File, disk' \in [File -> Seq(Data)]
    PROVE  Table'
  BY DEF Table, StateOK, HandleTable

LEMMA EntryType == ASSUME NEW p \in Path PROVE Entry[p] \in File
  BY FileAssumption DEF FileAssumption

LEMMA CreateFailsTable ==
    ASSUME Table, NEW c, NEW p \in Path, CreateFails(c, p)
    PROVE  Table'
  BY SameSlots, EntryType DEF CreateFails, tableVars, Table, StateOK

LEMMA OpenFileTable ==
    ASSUME Table, NEW p \in Path, NEW mode \in {"ro", "rw"}, OpenFile(p, mode)
    PROVE  Table'
<1> DEFINE h == FreeHandle
           new == [st |-> mode, file |-> Entry[p], pos |-> 0,
                   view |-> disk[Entry[p]], dirty |-> FALSE, erred |-> FALSE]
<1>1. h \in Handle \ used
  BY FreeHandleIsFree DEF OpenFile, Table, StateOK
<1>2. new \in Object /\ new.st # "closed"
  BY EntryType DEF Object, Table, StateOK
<1>3. open' = [open EXCEPT ![h] = new] /\ used' = used \cup {h}
  BY DEF OpenFile
<1> HIDE DEF new, h
<1>4. open' \in [Handle -> Object] /\ used' \subseteq Handle
  BY <1>1, <1>2, <1>3 DEF Table, StateOK
<1>5. \A k \in Handle : k \in used' <=> open'[k].st # "closed"
  BY <1>1, <1>2, <1>3 DEF Table, StateOK, HandleTable
<1>6. dir' \subseteq File /\ UNCHANGED <<fs_mounted, formatted, disk>> /\ fs_mounted
  BY EntryType DEF OpenFile, UsesPath, Table, StateOK
<1> QED
  BY <1>4, <1>5, <1>6 DEF Table, StateOK, HandleTable

LEMMA CloseFileTable ==
    ASSUME Table, NEW h \in Handle, CloseFile(h)
    PROVE  Table'
<1>1. open' = [open EXCEPT ![h] = Closed] /\ used' = used \ {h}
  BY DEF CloseFile, CloseObject
<1>2. open' \in [Handle -> Object] /\ used' \subseteq Handle
  BY <1>1, ClosedType DEF Table, StateOK
<1>3. \A k \in Handle : k \in used' <=> open'[k].st # "closed"
  BY <1>1, ClosedType DEF Table, StateOK, HandleTable
<1>4. disk' \in [File -> Seq(Data)]
  BY CommittedType DEF CloseFile, Table
<1>5. UNCHANGED <<fs_mounted, formatted, dir>> /\ fs_mounted
  BY DEF CloseFile, UsesHandle
<1> QED
  BY <1>2, <1>3, <1>4, <1>5 DEF Table, StateOK, HandleTable

LEMMA FlushFailsType ==
    ASSUME Table, NEW h \in Handle, FlushFails(h)
    PROVE  /\ open' \in [Handle -> Object]
           /\ \A k \in Handle : open'[k].st = open[k].st
<1>1. /\ open \in [Handle -> Object] /\ open[h].view \in Seq(Data) /\ open[h].pos \in Nat
      /\ open[h].erred \in BOOLEAN
  BY DEF Table, StateOK, Object
<1>2. Store!Larger(open[h].pos, Len(open[h].view)) \in Nat
  BY <1>1 DEF Store!Larger
<1>3. \A q \in open[h].pos..Store!Larger(open[h].pos, Len(open[h].view)) : q \in Nat
  BY <1>1, <1>2
<1>4. PICK q \in Nat, e \in BOOLEAN : Update(h, q, open[h].view, TRUE, open[h].erred \/ e)
  BY <1>3 DEF FlushFails
<1>5. (open[h].erred \/ e) \in BOOLEAN
  OBVIOUS
<1> QED
  BY <1>1, <1>4, <1>5, UpdateType

LEMMA ReadFileTable ==
    ASSUME Table, NEW h \in Handle, NEW n \in Count, ReadFile(h, n)
    PROVE  Table'
<1> DEFINE d == Store!Slice(open[h].view, open[h].pos, Store!Smaller(n, RespSpace))
<1>1. open[h] \in Object /\ open \in [Handle -> Object]
  BY DEF Table, StateOK
<1>2. Len(d) \in Nat
  <2>1. Store!Smaller(n, RespSpace) \in Nat
    BY FileAssumption DEF FileAssumption, Store!Smaller
  <2>2. open[h].view \in Seq(Data) /\ open[h].pos \in Nat /\ Len(open[h].view) \in Nat
    BY <1>1 DEF Object
  <2>3. Store!Smaller(Len(open[h].view), open[h].pos + Store!Smaller(n, RespSpace)) \in Nat
    BY <2>1, <2>2 DEF Store!Smaller
  <2>4. Store!Smaller(Len(open[h].view), open[h].pos + Store!Smaller(n, RespSpace))
          <= Len(open[h].view)
    BY <2>1, <2>2 DEF Store!Smaller
  <2> QED
    BY <2>2, <2>3, <2>4, SubSeqProperties DEF Store!Slice
<1> HIDE DEF d
<1>3. FlushFails(h) \/ \E k \in Nat : MoveTo(h, open[h].pos + k)
  BY <1>2 DEF ReadFile, d
<1>4. /\ \A k \in Nat : open[h].pos + k \in Nat
      /\ open[h].view \in Seq(Data)
      /\ open[h].dirty \in BOOLEAN /\ open[h].erred \in BOOLEAN
  BY <1>1 DEF Object
<1>5. open' \in [Handle -> Object] /\ \A i \in Handle : open'[i].st = open[i].st
  <2>1. CASE FlushFails(h)
    BY <2>1, FlushFailsType
  <2>2. CASE \E k \in Nat : MoveTo(h, open[h].pos + k)
    BY <1>1, <1>4, <2>2, UpdateType DEF MoveTo
  <2> QED
    BY <1>3, <2>1, <2>2
<1> QED
  BY <1>5, SameSlots DEF ReadFile, flashVars, Table, StateOK

LEMMA WriteFileTable ==
    ASSUME Table, NEW h \in Handle, NEW d \in Chunk, WriteFile(h, d)
    PROVE  Table'
<1> DEFINE start == Store!Smaller(open[h].pos, Len(open[h].view))
           hole == open[h].pos - start
           bytes == [i \in 1..hole |-> 0] \o d
           After(n) == Store!Overwrite(open[h].view, start, SubSeq(bytes, 1, n))
<1>1. /\ open \in [Handle -> Object] /\ open[h] \in Object
      /\ open[h].view \in Seq(Data) /\ open[h].pos \in Nat
      /\ open[h].dirty \in BOOLEAN
  BY DEF Table, StateOK, Object
<1>2. d \in Seq(Data)
  BY FileAssumption DEF FileAssumption
<1>3. start \in Nat /\ hole \in Nat
  BY <1>1 DEF Store!Smaller
<1> HIDE DEF start, hole
<1>4. bytes \in Seq(Data)
      /\ \A m \in Nat : m <= Len(bytes) => SubSeq(bytes, 1, m) \in Seq(Data)
  BY <1>2, <1>3, FilledType
<1> HIDE DEF bytes
<1>5. Len(bytes) \in Nat /\ Len(d) \in Nat
  BY <1>2, <1>4
<1>6. \A n \in Nat : n <= Len(bytes) => After(n) \in Seq(Data)
  BY <1>1, <1>3, <1>4, OverwriteType
<1> HIDE DEF After
<1>7. \E q \in Nat, v \in Seq(Data), x, y \in BOOLEAN : Update(h, q, v, x, y)
  <2>1. CASE Update(h, open[h].pos + Len(d), After(Len(bytes)), TRUE, FALSE)
    <3>1. open[h].pos + Len(d) \in Nat /\ After(Len(bytes)) \in Seq(Data)
      BY <1>1, <1>5, <1>6
    <3> QED
      BY <2>1, <3>1
  <2>2. CASE \E n \in 0..(Len(bytes) - 1) :
               Update(h, start + n, After(n), open[h].dirty \/ n > 0, TRUE)
    <3>1. PICK n \in 0..(Len(bytes) - 1) :
               Update(h, start + n, After(n), open[h].dirty \/ n > 0, TRUE)
      BY <2>2
    <3>2. start + n \in Nat /\ After(n) \in Seq(Data)
      BY <1>3, <1>5, <1>6
    <3>3. (open[h].dirty \/ n > 0) \in BOOLEAN
      OBVIOUS
    <3> QED
      BY <3>1, <3>2, <3>3
  <2>3. \/ Update(h, open[h].pos + Len(d), After(Len(bytes)), TRUE, FALSE)
        \/ \E n \in 0..(Len(bytes) - 1) :
               Update(h, start + n, After(n), open[h].dirty \/ n > 0, TRUE)
    BY DEF WriteFile, start, hole, bytes, After
  <2> QED
    BY <2>1, <2>2, <2>3
<1>8. open' \in [Handle -> Object] /\ \A i \in Handle : open'[i].st = open[i].st
  BY <1>1, <1>7, UpdateType
<1> QED
  BY <1>8, SameSlots DEF WriteFile, flashVars, Table, StateOK

LEMMA SeekFileTable ==
    ASSUME Table, NEW h \in Handle, SeekFile(h)
    PROVE  Table'
<1>1. /\ open \in [Handle -> Object] /\ open[h].view \in Seq(Data)
      /\ open[h].dirty \in BOOLEAN /\ open[h].erred \in BOOLEAN
  BY DEF Table, StateOK, Object
<1>2. UNCHANGED open \/ FlushFails(h) \/ \E p \in Nat : MoveTo(h, p)
  BY FileAssumption DEF SeekFile, FileAssumption
<1>3. open' \in [Handle -> Object] /\ \A i \in Handle : open'[i].st = open[i].st
  BY <1>1, <1>2, UpdateType, FlushFailsType DEF MoveTo
<1> QED
  BY <1>3, SameSlots DEF SeekFile, flashVars, Table, StateOK

LEMMA SyncFileTable ==
    ASSUME Table, NEW h \in Handle, SyncFile(h)
    PROVE  Table'
<1>1. /\ open \in [Handle -> Object] /\ open[h].view \in Seq(Data) /\ open[h].pos \in Nat
      /\ open[h].file \in File /\ open[h].dirty \in BOOLEAN /\ open[h].erred \in BOOLEAN
  BY DEF Table, StateOK, Object
<1>2. FlushFails(h) \/ \E x, y \in BOOLEAN : Update(h, open[h].pos, open[h].view, x, y)
  <2>1. CASE Update(h, open[h].pos, open[h].view, open[h].dirty /\ open[h].erred, open[h].erred)
    <3>1. (open[h].dirty /\ open[h].erred) \in BOOLEAN
      OBVIOUS
    <3> QED
      BY <1>1, <2>1, <3>1
  <2>2. CASE \E e \in BOOLEAN : Update(h, open[h].pos, open[h].view, TRUE, e)
    BY <2>2
  <2> QED
    BY <2>1, <2>2 DEF SyncFile
<1>3. open' \in [Handle -> Object] /\ \A i \in Handle : open'[i].st = open[i].st
  BY <1>1, <1>2, UpdateType, FlushFailsType
<1>4. disk' \in [File -> Seq(Data)]
  BY <1>1 DEF SyncFile, Table, StateOK
<1> QED
  BY <1>3, <1>4, SameSlots DEF SyncFile, Table, StateOK

LEMMA AppendFileTable ==
    ASSUME Table, NEW p \in Path, NEW d \in Chunk, AppendFile(p, d)
    PROVE  Table'
<1>1. CASE CreateFails("append", p)
  BY <1>1, CreateFailsTable
<1>2. CASE ~CreateFails("append", p)
  <2>1. Entry[p] \in File /\ d \in Seq(Data) /\ disk \in [File -> Seq(Data)]
    BY EntryType, FileAssumption DEF FileAssumption, Table, StateOK
  <2>2. disk[Entry[p]] \o d \in Seq(Data)
    BY <2>1
  <2>3. [disk EXCEPT ![Entry[p]] = @ \o d] \in [File -> Seq(Data)]
    BY <2>1, <2>2
  <2>4. dir' \subseteq File /\ disk' \in [File -> Seq(Data)]
        /\ UNCHANGED <<fs_mounted, used, open, formatted>>
    BY <1>2, <2>1, <2>3 DEF AppendFile, tableVars, Table, StateOK
  <2> QED
    BY <2>4, SameSlots DEF Table, StateOK
<1> QED
  BY <1>1, <1>2

\* The commands on one or two files.
LEMMA PathTable ==
    ASSUME Table, NEW p \in Path, NEW q \in Path,
           TouchFile(p) \/ RemoveFile(p) \/ RenameFile(p, q) \/ Copies(p, q)
    PROVE  Table'
<1> DEFINE Frame == UNCHANGED <<tableVars, formatted>>
<1>1. Entry[p] \in File /\ Entry[q] \in File /\ <<>> \in Seq(Data)
  BY EntryType
<1>2. disk \in [File -> Seq(Data)] /\ dir \subseteq File /\ open \in [Handle -> Object]
  BY DEF Table, StateOK
<1>3. ASSUME Frame, dir' \subseteq File, disk' \in [File -> Seq(Data)] PROVE Table'
  BY <1>2, <1>3, SameSlots DEF tableVars
<1>4. CASE TouchFile(p)
  <2>1. CASE CreateFails("touch", p)
    BY <2>1, CreateFailsTable
  <2> QED
    BY <1>1, <1>2, <1>3, <1>4, <2>1 DEF TouchFile
<1>5. CASE RemoveFile(p)
  BY <1>1, <1>2, <1>3, <1>5, KeepsTable DEF RemoveFile, Refuse
<1>6. CASE RenameFile(p, q)
  BY <1>1, <1>2, <1>3, <1>6, KeepsTable DEF RenameFile, Refuse
<1>7. CASE Copies(p, q)
  <2>1. dir' \subseteq File /\ Frame
    BY <1>1, <1>2, <1>7 DEF Copies
  <2>2. \A n \in 0..Len(disk[Entry[p]]) : SubSeq(disk[Entry[p]], 1, n) \in Seq(Data)
    BY <1>1, <1>2
  <2>3. ASSUME NEW c \in Seq(Data) PROVE [disk EXCEPT ![Entry[q]] = c] \in [File -> Seq(Data)]
    BY <1>1, <1>2
  <2>4. disk' \in [File -> Seq(Data)]
    BY <1>1, <1>2, <1>7, <2>2, <2>3 DEF Copies
  <2> QED
    BY <1>3, <2>1, <2>4
<1> QED
  BY <1>4, <1>5, <1>6, <1>7

\* All handles are closed and the mount state is known.
LEMMA ClosedTable ==
    ASSUME used' = {}, open' = AllClosed, fs_mounted' \in BOOLEAN,
           formatted' \in BOOLEAN, fs_mounted' => formatted',
           dir' \subseteq File, disk' \in [File -> Seq(Data)]
    PROVE  Table'
<1>1. AllClosed \in [Handle -> Object] /\ \A h \in Handle : AllClosed[h].st = "closed"
  BY ClosedType DEF AllClosed
<1> QED
  BY <1>1 DEF Table, StateOK, HandleTable

LEMMA FormatAndMountType ==
    ASSUME Table, NEW c, FormatAndMount(c)
    PROVE  /\ fs_mounted' \in BOOLEAN /\ formatted' \in BOOLEAN
           /\ fs_mounted' => formatted'
           /\ dir' \subseteq File /\ disk' \in [File -> Seq(Data)]
<1>1. [f \in File |-> <<>>] \in [File -> Seq(Data)]
  OBVIOUS
<1>2. \A b \in MountResults(TRUE) : b \in BOOLEAN
  BY DEF MountResults
<1>3. fs_mounted' \in BOOLEAN /\ formatted' \in BOOLEAN /\ (fs_mounted' => formatted')
  BY <1>2 DEF FormatAndMount, flashVars, Table, StateOK
<1>4. dir' \subseteq File /\ disk' \in [File -> Seq(Data)]
  BY <1>1 DEF FormatAndMount, flashVars, Table, StateOK
<1> QED
  BY <1>3, <1>4

\* MOUNT, FORMAT, UNMOUNT and the restarts.
LEMMA MountTable ==
    ASSUME Table, Mount \/ Format \/ Unmount \/ Reset \/ PowerLoss
    PROVE  Table'
<1>1. \A b \in MountResults(formatted) : b \in BOOLEAN /\ (b => formatted)
  BY DEF MountResults
<1>2. formatted \in BOOLEAN /\ dir \subseteq File /\ disk \in [File -> Seq(Data)]
  BY DEF Table, StateOK
<1>3. CASE Mount
  <2>1. CASE Refuse("mount", <<>>, OK)
    BY <2>1, KeepsTable DEF Refuse
  <2>2. CASE ~fs_mounted /\ UNCHANGED <<used, open>> /\ FormatAndMount("mount")
    BY <2>2, FormatAndMountType DEF Table, StateOK, HandleTable
  <2>3. CASE /\ TRUE \in MountResults(formatted) /\ fs_mounted' = TRUE
             /\ ~fs_mounted /\ UNCHANGED <<used, open, flashVars>>
    BY <1>1, <2>3 DEF Table, StateOK, HandleTable, flashVars
  <2> QED
    BY <1>3, <2>1, <2>2, <2>3 DEF Mount
<1>4. CASE Format
  BY <1>4, FormatAndMountType, ClosedTable DEF Format
<1>5. CASE Unmount
  <2>1. CASE Refuse("unmount", <<>>, OK)
    BY <2>1, KeepsTable DEF Refuse
  <2>2. CASE ~Refuse("unmount", <<>>, OK)
    <3>1. disk' \in [File -> Seq(Data)]
      BY <1>5, <2>2, CommittedType DEF Unmount, Table, StateOK
    <3> QED
      BY <1>2, <1>5, <2>2, <3>1, ClosedTable DEF Unmount
  <2> QED
    BY <2>1, <2>2
<1>6. CASE Reset
  <2>1. disk' \in [File -> Seq(Data)]
    BY <1>2, <1>6, CommittedType DEF Reset, Table, StateOK
  <2> QED
    BY <1>1, <1>2, <1>6, <2>1, ClosedTable DEF Reset, Boot
<1>7. CASE PowerLoss
  BY <1>1, <1>2, <1>7, ClosedTable DEF PowerLoss, Boot, flashVars
<1> QED
  BY <1>3, <1>4, <1>5, <1>6, <1>7

\* What a step is, without its history.
LEMMA StepIs ==
    ASSUME [Next]_vars
    PROVE  Command \/ BlindCopy \/ UNCHANGED <<tableVars, flashVars>>
  BY DEF Next, vars

LEMMA StepTable == Table /\ [Next]_vars => Table'
<1> SUFFICES ASSUME Table, [Next]_vars PROVE Table'
  OBVIOUS
<1>0. used \subseteq Handle
  BY DEF Table, StateOK
<1>1. CASE UNCHANGED <<tableVars, flashVars>>
  BY <1>1, KeepsTable
<1>2. CASE NotMounted \/ BadHandle
  BY <1>2, KeepsTable DEF NotMounted, BadHandle, Refuse
<1>3. ASSUME NEW h \in Handle, OnHandle(h) PROVE Table'
  <2>1. CASE TellFile(h)
    BY <2>1, KeepsTable DEF TellFile
  <2> QED
    BY <1>3, <2>1, CloseFileTable, SeekFileTable, SyncFileTable, ReadFileTable,
       WriteFileTable DEF OnHandle
<1>4. ASSUME NEW p \in Path, OnPath(p) PROVE Table'
  <2>1. CASE OpenNone(p) \/ OpenMissing(p) \/ StatFile(p)
    BY <2>1, KeepsTable DEF OpenNone, OpenMissing, StatFile, Refuse
  <2>2. CASE \E q \in Path : CopyRefused(p, q)
    BY <2>2, KeepsTable DEF CopyRefused, Refuse
  <2>3. CASE \E mode \in {"ro", "rw"} : OpenFails(p, mode)
    BY <2>3, KeepsTable, CreateFailsTable DEF OpenFails, Refuse
  <2>4. CASE \E mode \in {"ro", "rw"} : OpenFile(p, mode)
    BY <2>4, OpenFileTable
  <2>5. CASE \E d \in Chunk : AppendFile(p, d)
    BY <2>5, AppendFileTable
  <2>6. CASE TouchFile(p) \/ RemoveFile(p) \/ \E q \in Path : RenameFile(p, q) \/ CopyFile(p, q)
    BY <2>6, PathTable DEF CopyFile
  <2> QED
    BY <1>4, <2>1, <2>2, <2>3, <2>4, <2>5, <2>6 DEF OnPath
<1>5. CASE Mount \/ Format \/ Unmount \/ Reset \/ PowerLoss
  BY <1>5, MountTable
<1>6. CASE BlindCopy
  BY <1>6, PathTable DEF BlindCopy, CopyBlind
<1> QED
  BY <1>1, <1>2, <1>3, <1>4, <1>5, <1>6, StepIs DEF Command

\* The types of the mount state, the table, the objects and the flash.
THEOREM TypeCorrect == Spec => []TypeOK
<1>1. Init => TypeOK
  BY InitTable DEF Init, Table, TypeOK
<1>2. Table' /\ TypeOK /\ [Next]_vars => TypeOK'
  <2> SUFFICES ASSUME Table', TypeOK, [Next]_vars PROVE TypeOK'
    OBVIOUS
  <2>1. StateOK' /\ used' \subseteq Handle
    BY DEF Table, StateOK
  <2>2. told' \subseteq Handle /\ blind' \in BOOLEAN
    BY <2>1 DEF Next, Tells, vars, historyVars, TypeOK
  <2> QED
    BY <2>1, <2>2 DEF TypeOK
<1> QED
  BY <1>1, <1>2, InitTable, StepTable, PTL DEF Spec

\* A slot of open_files is marked exactly while its LittleFS object is open,
\* and nothing is open on an unmounted file system, whatever fails.
THEOREM HandlesMatch == Spec => []HandleTable
<1>1. Table => HandleTable
  BY DEF Table
<1> QED
  BY <1>1, InitTable, StepTable, PTL DEF Spec
-----------------------------------------------------------------------------
(***************************************************************************)
(* What the handles show and what reaches the flash: clean views, syncs    *)
(* that are answered OK, and copies.                                       *)
(***************************************************************************)
\* A handle that writes has its file to itself, and only such handles have
\* anything to commit: no commit can undo another handle's view.
OneWriter ==
    /\ \A h, k \in used :
         h # k /\ open[h].st = "rw" => open[h].file # open[k].file
    /\ \A h \in used : open[h].dirty => open[h].st = "rw"

\* A COPY of a file onto itself whose probe has failed goes on under the
\* handles that read the file; they then show what it was.
Watched(h) == open[h].st = "rw" \/ "probe" \notin Faults

Clean ==
    \A h \in used : /\ open[h].file \in dir
                    /\ ~open[h].dirty /\ Watched(h) => open[h].view = disk[open[h].file]

Views == Table /\ OneWriter /\ Clean

\* What each handle that stays open has to show for a step to keep Views.
LEMMA ViewsKept ==
    ASSUME Views, Table', used' \subseteq used,
           \A k \in used' :
              /\ open'[k].st = open[k].st /\ open'[k].file = open[k].file
              /\ open[k].file \in dir'
              /\ open'[k].dirty => open[k].st = "rw"
              /\ ~open'[k].dirty /\ Watched(k) => open'[k].view = disk'[open[k].file]
    PROVE  Views'
  BY DEF Views, OneWriter, Clean, Watched

\* Steps that move no handle and leave the files of the open ones alone.
LEMMA OthersKept ==
    ASSUME Views, Table', UNCHANGED <<used, open>>,
           \A k \in used : /\ open[k].file \in dir => open[k].file \in dir'
                           /\ Watched(k) => disk'[open[k].file] = disk[open[k].file]
    PROVE  Views'
<1>1. \A k \in used : /\ open[k].file \in dir'
                      /\ open[k].dirty => open[k].st = "rw"
                      /\ ~open[k].dirty /\ Watched(k) => open[k].view = disk'[open[k].file]
  BY DEF Views, OneWriter, Clean
<1> QED
  BY <1>1, ViewsKept

LEMMA RefusedKeepsViews ==
    ASSUME Views, UNCHANGED <<tableVars, flashVars>>
    PROVE  Views'
<1>1. Table'
  BY KeepsTable DEF Views
<1> QED
  BY <1>1, OthersKept DEF tableVars, flashVars

LEMMA CreateFailsViews ==
    ASSUME Views, Table', NEW c, NEW p, CreateFails(c, p)
    PROVE  Views'
  BY OthersKept DEF CreateFails, tableVars

\* Commits of other handles do not touch the file of handle k.
LEMMA CommitsApart ==
    ASSUME Views, NEW h \in used, NEW k \in used, h # k,
           NEW c \in Committed({h})
    PROVE  c[open[k].file] = disk[open[k].file]
<1>1. PICK done \in SUBSET {h} :
        c = [f \in File |->
               IF \E i \in done : Commits(i) /\ open[i].file = f
               THEN open[CHOOSE i \in done : Commits(i) /\ open[i].file = f].view
               ELSE disk[f]]
  BY DEF Committed
<1>2. open[k].file \in File
  BY DEF Views, Table, StateOK, Object
<1>3. ~ \E i \in done : Commits(i) /\ open[i].file = open[k].file
  BY DEF Views, OneWriter, Commits
<1> QED
  BY <1>1, <1>2, <1>3

LEMMA UpdateEffect ==
    ASSUME Views, NEW h \in Handle, NEW p, NEW v, NEW d, NEW e, Update(h, p, v, d, e)
    PROVE  /\ open'[h].st = open[h].st /\ open'[h].file = open[h].file
           /\ open'[h].view = v /\ open'[h].dirty = d
           /\ \A k \in Handle \ {h} : open'[k] = open[k]
<1> DEFINE new == [st |-> open[h].st, file |-> open[h].file, pos |-> p,
                   view |-> v, dirty |-> d, erred |-> e]
<1>1. new.st = open[h].st /\ new.file = open[h].file /\ new.view = v /\ new.dirty = d
  OBVIOUS
<1>2. open' = [open EXCEPT ![h] = new] /\ open \in [Handle -> Object]
  BY DEF Update, Views, Table, StateOK
<1> HIDE DEF new
<1>3. open'[h] = new /\ \A k \in Handle \ {h} : open'[k] = open[k]
  BY <1>2
<1> QED
  BY <1>1, <1>3

LEMMA DirtyEffect ==
    ASSUME Views, NEW h \in Handle, NEW p, NEW v, NEW e, Update(h, p, v, TRUE, e)
    PROVE  /\ open'[h].st = open[h].st /\ open'[h].file = open[h].file
           /\ open'[h].dirty
           /\ \A k \in Handle \ {h} : open'[k] = open[k]
<1> DEFINE new == [st |-> open[h].st, file |-> open[h].file, pos |-> p,
                   view |-> v, dirty |-> TRUE, erred |-> e]
<1>1. new.st = open[h].st /\ new.file = open[h].file /\ new.dirty
  OBVIOUS
<1>2. open' = [open EXCEPT ![h] = new] /\ open \in [Handle -> Object]
  BY DEF Update, Views, Table, StateOK
<1> HIDE DEF new
<1>3. open'[h] = new /\ \A k \in Handle \ {h} : open'[k] = open[k]
  BY <1>2
<1> QED
  BY <1>1, <1>3
-----------------------------------------------------------------------------
LEMMA OpenFileViews ==
    ASSUME Views, Table', NEW p \in Path, NEW mode \in {"ro", "rw"}, OpenFile(p, mode)
    PROVE  Views'
<1> DEFINE h == FreeHandle
           new == [st |-> mode, file |-> Entry[p], pos |-> 0,
                   view |-> disk[Entry[p]], dirty |-> FALSE, erred |-> FALSE]
<1>1. h \in Handle \ used
  BY FreeHandleIsFree DEF OpenFile, Views, Table, StateOK
<1>2. /\ used' = used \cup {h} /\ disk' = disk /\ dir' = dir \cup {Entry[p]}
      /\ open' = [open EXCEPT ![h] = new] /\ open \in [Handle -> Object]
      /\ used \subseteq Handle
  BY DEF OpenFile, Views, Table, StateOK
<1>3. /\ new.st = mode /\ new.file = Entry[p] /\ new.view = disk[Entry[p]]
      /\ ~new.dirty
  OBVIOUS
<1>4. \A k \in used : open[k].st = "rw" \/ mode = "rw" => open[k].file # Entry[p]
  BY DEF OpenFile, Unopened, Unwritten, Views, Table, StateOK, HandleTable
<1> HIDE DEF new, h
<1>5. open'[h] = new /\ \A k \in used : k # h /\ open'[k] = open[k]
  BY <1>1, <1>2
<1>6. OneWriter'
  BY <1>2, <1>3, <1>4, <1>5 DEF Views, OneWriter
<1>7. Clean'
  BY <1>2, <1>3, <1>5 DEF Views, Clean, Watched
<1> QED
  BY <1>6, <1>7 DEF Views

LEMMA CloseFileViews ==
    ASSUME Views, Table', NEW h \in Handle, CloseFile(h)
    PROVE  Views'
<1>1. /\ open' = [open EXCEPT ![h] = Closed] /\ used' = used \ {h} /\ dir' = dir
      /\ open \in [Handle -> Object] /\ used \subseteq Handle /\ h \in used
  BY DEF CloseFile, CloseObject, UsesHandle, Views, Table, StateOK
<1>2. \A k \in used' : open'[k] = open[k] /\ disk'[open[k].file] = disk[open[k].file]
  BY <1>1, CommitsApart DEF CloseFile
<1>3. \A k \in used : /\ open[k].file \in dir
                      /\ open[k].dirty => open[k].st = "rw"
                      /\ ~open[k].dirty /\ Watched(k) => open[k].view = disk[open[k].file]
  BY DEF Views, OneWriter, Clean
<1> QED
  BY <1>1, <1>2, <1>3, ViewsKept

\* One handle moves and is as clean as it was.
LEMMA MoveToViews ==
    ASSUME Views, Table', NEW h \in Handle, NEW p, MoveTo(h, p),
           UNCHANGED <<used, dir, disk>>
    PROVE  Views'
<1>1. /\ open'[h].st = open[h].st /\ open'[h].file = open[h].file
      /\ open'[h].view = open[h].view /\ open'[h].dirty = open[h].dirty
      /\ \A k \in Handle \ {h} : open'[k] = open[k]
  BY UpdateEffect DEF MoveTo
<1>2. used \subseteq Handle
  BY DEF Views, Table, StateOK
<1>3. \A k \in used : /\ open[k].file \in dir
                      /\ open[k].dirty => open[k].st = "rw"
                      /\ ~open[k].dirty /\ Watched(k) => open[k].view = disk[open[k].file]
  BY DEF Views, OneWriter, Clean
<1> QED
  BY <1>1, <1>2, <1>3, ViewsKept

\* A write that gets nowhere changes nothing.
LEMMA OverwriteNothing ==
    ASSUME NEW s \in Seq(Data), NEW p \in Nat, p <= Len(s), NEW d, Len(d) = 0
    PROVE  Store!Overwrite(s, p, d) = s
<1>1. Len(s) \in Nat
  OBVIOUS
<1>2. Store!Larger(Len(s), p + Len(d)) = Len(s)
  BY <1>1 DEF Store!Larger
<1>3. \A i \in 1..Len(s) : i \notin (p + 1)..(p + Len(d)) /\ i <= Len(s)
  BY <1>1
<1>4. Store!Overwrite(s, p, d) = [i \in 1..Len(s) |-> s[i]]
  BY <1>2, <1>3 DEF Store!Overwrite
<1> QED
  BY <1>4

LEMMA WriteFileViews ==
    ASSUME Views, Table', NEW h \in Handle, NEW d \in Chunk, WriteFile(h, d)
    PROVE  Views'
<1> DEFINE start == Store!Smaller(open[h].pos, Len(open[h].view))
           bytes == [i \in 1..(open[h].pos - start) |-> 0] \o d
           After(n) == Store!Overwrite(open[h].view, start, SubSeq(bytes, 1, n))
<1>1. /\ open[h].view \in Seq(Data) /\ open[h].pos \in Nat /\ h \in used
      /\ open[h].st = "rw" /\ used \subseteq Handle /\ UNCHANGED <<used, dir, disk>>
  BY DEF WriteFile, UsesHandle, flashVars, Views, Table, StateOK, Object
<1>2. \A k \in used : /\ open[k].file \in dir
                      /\ open[k].dirty => open[k].st = "rw"
                      /\ ~open[k].dirty /\ Watched(k) => open[k].view = disk[open[k].file]
  BY DEF Views, OneWriter, Clean
<1>3. start \in Nat /\ start <= Len(open[h].view)
  BY <1>1 DEF Store!Smaller
<1>4. After(0) = open[h].view
  <2>1. Len(SubSeq(bytes, 1, 0)) = 0
    BY SubSeqEmpty
  <2> QED
    BY <1>1, <1>3, <2>1, OverwriteNothing
<1> HIDE DEF start, After
<1>5. CASE Update(h, open[h].pos + Len(d), After(Len(bytes)), TRUE, FALSE)
  <2>1. /\ open'[h].st = open[h].st /\ open'[h].file = open[h].file
        /\ open'[h].dirty
        /\ \A k \in Handle \ {h} : open'[k] = open[k]
    BY <1>5, DirtyEffect
  <2> QED
    BY <1>1, <1>2, <2>1, ViewsKept
<1>6. CASE \E n \in 0..(Len(bytes) - 1) :
             Update(h, start + n, After(n), open[h].dirty \/ n > 0, TRUE)
  <2>1. PICK n \in 0..(Len(bytes) - 1) :
             Update(h, start + n, After(n), open[h].dirty \/ n > 0, TRUE)
    BY <1>6
  <2> DEFINE x == open[h].dirty \/ n > 0
             q == start + n
  <2>5. Update(h, q, After(n), x, TRUE)
    BY <2>1
  <2> HIDE DEF x, q
  <2>2. /\ open'[h].st = open[h].st /\ open'[h].file = open[h].file
        /\ open'[h].view = After(n) /\ open'[h].dirty = x
        /\ \A k \in Handle \ {h} : open'[k] = open[k]
    BY <2>5, UpdateEffect
  <2>3. CASE n = 0
    <3>1. ~(n > 0)
      BY <2>3
    <3>2. open[h].dirty <=> open'[h].dirty
      BY <2>2, <3>1 DEF x
    <3>3. open'[h].view = open[h].view
      BY <1>4, <2>2, <2>3
    <3> QED
      BY <1>1, <1>2, <2>2, <3>2, <3>3, ViewsKept
  <2>4. CASE n # 0
    <3>1. n > 0
      BY <2>4
    <3>2. open'[h].dirty
      BY <2>2, <3>1 DEF x
    <3> QED
      BY <1>1, <1>2, <2>2, <3>2, ViewsKept
  <2> QED
    BY <2>3, <2>4
<1> QED
  BY <1>5, <1>6 DEF WriteFile, start, After

\* One handle keeps what it has to commit.
LEMMA FlushFailsViews ==
    ASSUME Views, Table', NEW h \in used, FlushFails(h), UNCHANGED <<used, dir, disk>>
    PROVE  Views'
<1>1. used \subseteq Handle
  BY DEF Views, Table, StateOK
<1>2. PICK p, e : Update(h, p, open[h].view, TRUE, e)
  BY DEF FlushFails
<1>3. /\ open'[h].st = open[h].st /\ open'[h].file = open[h].file
      /\ open'[h].dirty /\ open[h].dirty
      /\ \A k \in Handle \ {h} : open'[k] = open[k]
  BY <1>1, <1>2, DirtyEffect DEF FlushFails
<1>4. \A k \in used : /\ open[k].file \in dir
                      /\ open[k].dirty => open[k].st = "rw"
                      /\ ~open[k].dirty /\ Watched(k) => open[k].view = disk[open[k].file]
  BY DEF Views, OneWriter, Clean
<1> QED
  BY <1>1, <1>3, <1>4, ViewsKept

LEMMA SyncFileViews ==
    ASSUME Views, Table', NEW h \in Handle, SyncFile(h)
    PROVE  Views'
<1>1. /\ h \in used /\ used \subseteq Handle /\ UNCHANGED <<used, dir>>
      /\ open[h].file \in File /\ disk \in [File -> Seq(Data)]
  BY DEF SyncFile, UsesHandle, Views, Table, StateOK, Object
<1>2. \A k \in used : /\ open[k].file \in dir
                      /\ open[k].dirty => open[k].st = "rw"
                      /\ ~open[k].dirty /\ Watched(k) => open[k].view = disk[open[k].file]
  BY DEF Views, OneWriter, Clean
<1>3. CASE /\ disk' = IF Commits(h) THEN [disk EXCEPT ![open[h].file] = open[h].view] ELSE disk
           /\ Update(h, open[h].pos, open[h].view, open[h].dirty /\ open[h].erred, open[h].erred)
  <2>1. /\ open'[h].st = open[h].st /\ open'[h].file = open[h].file
        /\ open'[h].view = open[h].view /\ open'[h].dirty = (open[h].dirty /\ open[h].erred)
        /\ \A k \in Handle \ {h} : open'[k] = open[k]
    BY <1>3, UpdateEffect
  <2>2. \A k \in used \ {h} : disk'[open[k].file] = disk[open[k].file]
    BY <1>1, <1>3 DEF Views, OneWriter, Commits
  <2>3. ~open'[h].dirty /\ Watched(h) => open[h].view = disk'[open[h].file]
    <3>1. CASE Commits(h)
      BY <1>1, <1>3, <3>1
    <3>2. CASE ~Commits(h)
      BY <1>1, <1>2, <1>3, <2>1, <3>2 DEF Commits
    <3> QED
      BY <3>1, <3>2
  <2>4. open'[h].dirty => open[h].st = "rw"
    BY <1>1, <1>2, <2>1
  <2> QED
    BY <1>1, <1>2, <2>1, <2>2, <2>3, <2>4, ViewsKept
<1>4. CASE UNCHANGED disk
           /\ \E e \in BOOLEAN : Commits(h) /\ Update(h, open[h].pos, open[h].view, TRUE, e)
  <2>1. /\ open'[h].st = open[h].st /\ open'[h].file = open[h].file
        /\ open'[h].dirty /\ open[h].dirty
        /\ \A k \in Handle \ {h} : open'[k] = open[k]
    BY <1>4, DirtyEffect DEF Commits
  <2> QED
    BY <1>1, <1>2, <1>4, <2>1, ViewsKept
<1>5. CASE UNCHANGED disk /\ FlushFails(h)
  BY <1>1, <1>5, FlushFailsViews
<1> QED
  BY <1>3, <1>4, <1>5 DEF SyncFile

\* A command that changes the contents of one or two files that no handle
\* is open on, and may create one file.
LEMMA PathViews ==
    ASSUME Views, Table', NEW p \in Path, NEW q \in Path,
           TouchFile(p) \/ RemoveFile(p) \/ RenameFile(p, q) \/ CopyFile(p, q) \/ CopyBlind(p, q)
    PROVE  Views'
<1>1. /\ \A k \in used : open[k].file \in File /\ open[k].st # "closed" /\ k \in Handle
      /\ disk \in [File -> Seq(Data)]
  BY DEF Views, Table, StateOK, HandleTable, Object
<1>2. ASSUME UNCHANGED <<tableVars, formatted>>,
             \A k \in used : /\ open[k].file \in dir => open[k].file \in dir'
                             /\ Watched(k) => disk'[open[k].file] = disk[open[k].file]
      PROVE  Views'
  BY <1>2, OthersKept DEF tableVars
<1>3. CASE TouchFile(p)
  <2>1. CASE CreateFails("touch", p)
    BY <2>1, CreateFailsViews
  <2> QED
    BY <1>2, <1>3, <2>1 DEF TouchFile
<1>4. CASE RemoveFile(p)
  <2>1. \A k \in used : open[k].file # Entry[p]
    BY <1>1, <1>4 DEF RemoveFile, Unopened
  <2> QED
    BY <1>1, <1>2, <1>4, <2>1, RefusedKeepsViews DEF RemoveFile, Refuse
<1>5. CASE RenameFile(p, q)
  <2>1. \A k \in used : open[k].file # Entry[p] /\ open[k].file # Entry[q]
    BY <1>1, <1>5 DEF RenameFile, Unopened
  <2>2. CASE UNCHANGED <<tableVars, flashVars>>
    BY <2>2, RefusedKeepsViews
  <2>3. CASE /\ dir' = (dir \ {Entry[p]}) \cup {Entry[q]}
             /\ disk' = [f \in File |-> IF f = Entry[q] THEN disk[Entry[p]]
                                        ELSE IF f = Entry[p] THEN <<>> ELSE disk[f]]
             /\ UNCHANGED <<tableVars, formatted>>
    BY <1>1, <1>2, <2>1, <2>3
  <2> QED
    BY <1>5, <2>2, <2>3 DEF RenameFile, Refuse
<1>6. CASE CopyFile(p, q) \/ CopyBlind(p, q)
  <2>1. Copies(p, q) /\ (Entry[q] = Entry[p] => "probe" \in Faults)
    BY <1>6 DEF CopyFile, CopyBlind, SelfCopy
  <2>2. \A k \in used : Watched(k) => open[k].file # Entry[q]
    BY <1>1, <2>1 DEF Copies, CopyUses, Unopened, Unwritten, Watched
  <2>3. \A f \in File \ {Entry[q]} : disk'[f] = disk[f]
    BY <1>1, <2>1 DEF Copies
  <2>4. dir' = dir \cup {Entry[q]} /\ UNCHANGED <<tableVars, formatted>>
    BY <2>1 DEF Copies
  <2> QED
    BY <1>1, <1>2, <2>2, <2>3, <2>4
<1> QED
  BY <1>3, <1>4, <1>5, <1>6

LEMMA AppendFileViews ==
    ASSUME Views, Table', NEW p \in Path, NEW d \in Chunk, AppendFile(p, d)
    PROVE  Views'
<1>1. CASE CreateFails("append", p)
  BY <1>1, CreateFailsViews
<1>2. CASE ~CreateFails("append", p)
  <2>1. \A k \in used : open[k].file # Entry[p] /\ open[k].file \in File
    BY DEF AppendFile, Unopened, Views, Table, StateOK, HandleTable, Object
  <2>2. \A k \in used : disk'[open[k].file] = disk[open[k].file]
    BY <1>2, <2>1 DEF AppendFile, Views, Table, StateOK
  <2>3. dir' = dir \cup {Entry[p]} /\ UNCHANGED <<used, open>>
    BY <1>2 DEF AppendFile, tableVars
  <2> QED
    BY <2>2, <2>3, OthersKept
<1> QED
  BY <1>1, <1>2

\* With no handle open there is nothing to show.
LEMMA NoHandles == ASSUME Table', used' = {} PROVE Views'
  BY DEF Views, OneWriter, Clean

LEMMA MountViews ==
    ASSUME Views, Table', Mount \/ Format \/ Unmount \/ Reset \/ PowerLoss
    PROVE  Views'
<1>1. CASE Refuse("mount", <<>>, OK) \/ Refuse("unmount", <<>>, OK)
  BY <1>1, RefusedKeepsViews DEF Refuse
<1>2. CASE ~(Refuse("mount", <<>>, OK) \/ Refuse("unmount", <<>>, OK))
  <2>1. used' = {}
    BY <1>2 DEF Mount, Format, Unmount, Reset, PowerLoss, Boot, Views, Table, HandleTable
  <2> QED
    BY <2>1, NoHandles
<1> QED
  BY <1>1, <1>2

LEMMA StepViews == Views /\ [Next]_vars => Views'
<1> SUFFICES ASSUME Views, [Next]_vars PROVE Views'
  OBVIOUS
<1>0. Table' /\ used \subseteq Handle
  BY StepTable DEF Views, Table, StateOK
<1>1. CASE UNCHANGED <<tableVars, flashVars>>
  BY <1>1, RefusedKeepsViews
<1>2. CASE NotMounted \/ BadHandle
  BY <1>2, RefusedKeepsViews DEF NotMounted, BadHandle, Refuse
<1>3. ASSUME NEW h \in Handle, OnHandle(h) PROVE Views'
  <2>1. CASE TellFile(h)
    BY <2>1, RefusedKeepsViews DEF TellFile
  <2>2. CASE \E n \in Count : ReadFile(h, n)
    BY <1>0, <2>2, MoveToViews, FlushFailsViews DEF ReadFile, UsesHandle, flashVars
  <2>3. CASE SeekFile(h)
    <3>1. CASE UNCHANGED open
      BY <2>3, <3>1, RefusedKeepsViews DEF SeekFile, tableVars
    <3>2. CASE \E p \in Count : MoveTo(h, p)
      BY <1>0, <2>3, <3>2, MoveToViews DEF SeekFile, flashVars
    <3>3. CASE FlushFails(h)
      BY <1>0, <2>3, <3>3, FlushFailsViews DEF SeekFile, UsesHandle, flashVars
    <3> QED
      BY <2>3, <3>1, <3>2, <3>3 DEF SeekFile
  <2> QED
    BY <1>0, <1>3, <2>1, <2>2, <2>3, CloseFileViews, SyncFileViews, WriteFileViews
       DEF OnHandle
<1>4. ASSUME NEW p \in Path, OnPath(p) PROVE Views'
  <2>1. CASE OpenNone(p) \/ OpenMissing(p) \/ StatFile(p)
    BY <2>1, RefusedKeepsViews DEF OpenNone, OpenMissing, StatFile, Refuse
  <2>2. CASE \E q \in Path : CopyRefused(p, q)
    BY <2>2, RefusedKeepsViews DEF CopyRefused, Refuse
  <2>3. CASE \E mode \in {"ro", "rw"} : OpenFails(p, mode)
    BY <1>0, <2>3, RefusedKeepsViews, CreateFailsViews DEF OpenFails, Refuse
  <2>4. CASE \E mode \in {"ro", "rw"} : OpenFile(p, mode)
    BY <1>0, <2>4, OpenFileViews
  <2>5. CASE \E d \in Chunk : AppendFile(p, d)
    BY <1>0, <2>5, AppendFileViews
  <2>6. CASE TouchFile(p) \/ RemoveFile(p) \/ \E q \in Path : RenameFile(p, q) \/ CopyFile(p, q)
    BY <1>0, <2>6, PathViews
  <2> QED
    BY <1>4, <2>1, <2>2, <2>3, <2>4, <2>5, <2>6 DEF OnPath
<1>5. CASE Mount \/ Format \/ Unmount \/ Reset \/ PowerLoss
  BY <1>0, <1>5, MountViews
<1>6. CASE BlindCopy
  BY <1>0, <1>6, PathViews DEF BlindCopy
<1> QED
  BY <1>1, <1>2, <1>3, <1>4, <1>5, <1>6, StepIs DEF Command

LEMMA InitViews == Init => Views
  BY InitTable DEF Init, Views, OneWriter, Clean
-----------------------------------------------------------------------------
\* A handle with nothing to commit shows what the flash holds, whatever
\* fails, as long as COPY can look its destination up.
THEOREM ViewsAreClean ==
    ASSUME "probe" \notin Faults
    PROVE  Spec => []CleanView
<1>1. Views => CleanView
  BY DEF Views, Clean, Watched, CleanView
<1> QED
  BY <1>1, InitViews, StepViews, PTL DEF Spec
-----------------------------------------------------------------------------
LEMMA AnswerIs ==
    ASSUME NEW c, NEW as, NEW st, NEW d, Answer(c, as, st, d)
    PROVE  reply'.to = c /\ reply'.args = as /\ reply'.st = st
  BY DEF Answer, Store!Answered

\* Which steps answer a SYNC or a COPY.
LEMMA WhoAnswers ==
    ASSUME Command, reply'.to \in {"sync", "copy"}
    PROVE  \/ disk' = disk /\ (reply'.to = "sync" => reply'.st = ERR)
           \/ \E h \in used : SyncFile(h) /\ reply'.to = "sync" /\ reply'.args = <<h>>
           \/ \E p, q \in Path :
                CopyFile(p, q) /\ reply'.to = "copy" /\ reply'.args = <<p, q>>
<1>1. CASE NotMounted \/ BadHandle
  BY <1>1, AnswerIs DEF NotMounted, BadHandle, Refuse, flashVars
<1>2. ASSUME NEW h \in Handle, OnHandle(h)
      PROVE  h \in used /\ SyncFile(h) /\ reply'.to = "sync" /\ reply'.args = <<h>>
  <2>1. ~CloseFile(h)
    BY AnswerIs DEF CloseFile
  <2>2. ~SeekFile(h)
    BY AnswerIs DEF SeekFile
  <2>3. ~TellFile(h)
    BY AnswerIs DEF TellFile
  <2>4. \A n \in Count : ~ReadFile(h, n)
    BY AnswerIs DEF ReadFile
  <2>5. \A d \in Chunk : ~WriteFile(h, d)
    BY AnswerIs DEF WriteFile
  <2>6. SyncFile(h)
    BY <1>2, <2>1, <2>2, <2>3, <2>4, <2>5 DEF OnHandle
  <2> QED
    BY <2>6, AnswerIs DEF SyncFile, UsesHandle
<1>3. ASSUME NEW p \in Path, OnPath(p)
      PROVE  \/ disk' = disk /\ reply'.to = "copy"
             \/ \E q \in Path :
                  CopyFile(p, q) /\ reply'.to = "copy" /\ reply'.args = <<p, q>>
  <2>1. ~OpenNone(p) /\ ~OpenMissing(p) /\ ~StatFile(p)
    BY AnswerIs DEF OpenNone, OpenMissing, StatFile, Refuse
  <2>2. \A mode \in {"ro", "rw"} : ~OpenFails(p, mode) /\ ~OpenFile(p, mode)
    BY AnswerIs DEF OpenFails, OpenFile, CreateFails, Refuse
  <2>3. ~TouchFile(p) /\ ~RemoveFile(p)
    BY AnswerIs DEF TouchFile, RemoveFile, CreateFails, Refuse
  <2>4. \A d \in Chunk : ~AppendFile(p, d)
    BY AnswerIs DEF AppendFile, CreateFails
  <2>5. \A q \in Path : ~RenameFile(p, q)
    BY AnswerIs DEF RenameFile, Refuse
  <2>6. PICK q \in Path : CopyRefused(p, q) \/ CopyFile(p, q)
    BY <1>3, <2>1, <2>2, <2>3, <2>4, <2>5 DEF OnPath
  <2>7. CASE CopyRefused(p, q)
    BY <2>7, AnswerIs DEF CopyRefused, Refuse, flashVars
  <2>8. CASE CopyFile(p, q)
    BY <2>8, AnswerIs DEF CopyFile, Copies
  <2> QED
    BY <2>6, <2>7, <2>8
<1>4. ~Mount /\ ~Format
  BY AnswerIs DEF Mount, Format, FormatAndMount, Refuse
<1>5. ~Unmount /\ ~Reset /\ ~PowerLoss
  BY AnswerIs DEF Unmount, Reset, PowerLoss, Refuse
<1> QED
  BY <1>1, <1>2, <1>3, <1>4, <1>5 DEF Command

\* An object is marked only by a command that has said so, and a WRITE that
\* is answered OK leaves its own object unmarked.
Says(h, c) == reply'.to = c /\ reply'.args[1] = h
KeepsMark(h) == h \in used /\ open[h].erred /\ ~Says(h, "write")
TellsMark(h) == (\E c \in HandleCommands : Says(h, c)) /\ reply'.st = ERR

\* Where nothing is marked anew, and no WRITE is answered.
LEMMA QuietMarks ==
    ASSUME NEW h \in used', open'[h].erred, reply'.to # "write", used' \subseteq used,
           open'[h].erred = open[h].erred
    PROVE  KeepsMark(h)
  BY DEF KeepsMark, Says

\* An answer on one handle that changes no other object.
LEMMA OtherMarks ==
    ASSUME NEW h \in used', NEW k \in Handle, h # k, open'[h].erred, used' \subseteq used,
           open'[h] = open[h], reply'.args[1] = k
    PROVE  KeepsMark(h)
  BY DEF KeepsMark, Says

LEMMA UpdateAll ==
  ASSUME Table, NEW h \in Handle, NEW p, NEW v, NEW d, NEW e, Update(h, p, v, d, e)
  PROVE  /\ open'[h].st = open[h].st /\ open'[h].file = open[h].file
         /\ open'[h].pos = p /\ open'[h].view = v /\ open'[h].erred = e
         /\ \A k \in Handle \ {h} : open'[k] = open[k]
<1> DEFINE new == [st |-> open[h].st, file |-> open[h].file, pos |-> p,
                   view |-> v, dirty |-> d, erred |-> e]
<1>1. /\ new.st = open[h].st /\ new.file = open[h].file /\ new.pos = p
      /\ new.view = v /\ new.erred = e
  OBVIOUS
<1>2. open' = [open EXCEPT ![h] = new] /\ open \in [Handle -> Object]
  BY DEF Update, Table, StateOK
<1> HIDE DEF new
<1>3. open'[h] = new /\ \A k \in Handle \ {h} : open'[k] = open[k]
  BY <1>2
<1> QED
  BY <1>1, <1>3

\* An answer on a handle whose object is moved or marked.
LEMMA UpdateMarks ==
    ASSUME Table, NEW k \in Handle, NEW p, NEW v, NEW d, NEW e, Update(k, p, v, d, e),
           NEW h \in used', h \in used, used' = used, open'[h].erred,
           NEW c \in HandleCommands, Says(k, c),
           reply'.st = ERR \/ (~e \/ (c # "write" /\ e = open[k].erred))
    PROVE  KeepsMark(h) \/ TellsMark(h)
<1>1. open'[k].erred = e /\ \A i \in Handle \ {k} : open'[i] = open[i]
  BY UpdateAll
<1>2. h \in Handle
  BY DEF Table, StateOK
<1>3. CASE h # k
  BY <1>1, <1>2, <1>3, OtherMarks DEF Says
<1>4. CASE h = k
  <2>1. CASE reply'.st = ERR
    BY <1>4, <2>1 DEF TellsMark
  <2>2. CASE c # "write" /\ e = open[k].erred
    BY <1>1, <1>4, <2>2 DEF KeepsMark, Says
  <2>3. CASE ~e
    BY <1>1, <1>4, <2>3
  <2> QED
    BY <2>1, <2>2, <2>3
<1> QED
  BY <1>3, <1>4

LEMMA SaysIt ==
    ASSUME NEW c, NEW k, NEW n, NEW st, NEW d,
           Answer(c, <<k>>, st, d) \/ Answer(c, <<k, n>>, st, d)
    PROVE  Says(k, c) /\ reply'.st = st
<1>1. reply'.to = c /\ reply'.st = st /\ (reply'.args = <<k>> \/ reply'.args = <<k, n>>)
  BY AnswerIs
<1> QED
  BY <1>1 DEF Says

LEMMA HandleMarks ==
    ASSUME Table, Table', NEW k \in Handle, OnHandle(k), NEW h \in used', open'[h].erred
    PROVE  KeepsMark(h) \/ TellsMark(h)
<1>0. h \in Handle /\ open \in [Handle -> Object]
  BY DEF Table, StateOK
<1>1. CASE CloseFile(k)
  <2>1. h # k /\ open'[h] = open[h] /\ used' \subseteq used
    BY <1>0, <1>1 DEF CloseFile, CloseObject
  <2>2. Says(k, "close")
    BY <1>1, SaysIt DEF CloseFile
  <2> QED
    BY <2>1, <2>2, OtherMarks DEF Says
<1>2. CASE TellFile(k)
  <2>1. UNCHANGED <<used, open>> /\ reply'.to = "tell"
    BY <1>2, AnswerIs DEF TellFile, tableVars
  <2> QED
    BY <2>1, QuietMarks
<1>3. CASE SeekFile(k)
  <2>1. used' = used
    BY <1>3 DEF SeekFile
  <2>2. ASSUME NEW p, MoveTo(k, p), Answer("seek", <<k>>, OK, <<p>>)
        PROVE  KeepsMark(h) \/ TellsMark(h)
    BY <2>1, <2>2, SaysIt, UpdateMarks DEF MoveTo, HandleCommands
  <2>3. CASE UNCHANGED open /\ Answer("seek", <<k>>, ERR, <<>>)
    BY <2>1, <2>3, AnswerIs, QuietMarks
  <2>4. CASE FlushFails(k) /\ Answer("seek", <<k>>, ERR, <<>>)
    <3>1. PICK p, e : Update(k, p, open[k].view, TRUE, e)
      BY <2>4 DEF FlushFails
    <3> QED
      BY <2>1, <2>4, <3>1, SaysIt, UpdateMarks DEF HandleCommands
  <2> QED
    BY <1>3, <2>2, <2>3, <2>4 DEF SeekFile
<1>4. CASE SyncFile(k)
  <2>1. used' = used
    BY <1>4 DEF SyncFile
  <2>2. CASE Update(k, open[k].pos, open[k].view, open[k].dirty /\ open[k].erred, open[k].erred)
             /\ Answer("sync", <<k>>, OK, <<>>)
    <3>1. PICK d : Update(k, open[k].pos, open[k].view, d, open[k].erred)
      BY <2>2
    <3>2. Says(k, "sync")
      BY <2>2, SaysIt
    <3> QED
      BY <2>1, <3>1, <3>2, UpdateMarks DEF HandleCommands
  <2>3. ASSUME Answer("sync", <<k>>, ERR, <<>>), NEW p, NEW e,
               Update(k, p, open[k].view, TRUE, e)
        PROVE  KeepsMark(h) \/ TellsMark(h)
    BY <2>1, <2>3, SaysIt, UpdateMarks DEF HandleCommands
  <2>4. FlushFails(k) => \E p, e : Update(k, p, open[k].view, TRUE, e)
    BY DEF FlushFails
  <2> QED
    BY <1>4, <2>2, <2>3, <2>4 DEF SyncFile
<1>5. ASSUME NEW n \in Count, ReadFile(k, n) PROVE KeepsMark(h) \/ TellsMark(h)
  <2>1. used' = used
    BY <1>5 DEF ReadFile
  <2>2. \E st, d : Answer("read", <<k, n>>, st, d)
    BY <1>5 DEF ReadFile
  <2>3. Says(k, "read")
    BY <2>2, SaysIt
  <2>4. CASE \E p : MoveTo(k, p)
    BY <2>1, <2>3, <2>4, UpdateMarks DEF MoveTo, HandleCommands
  <2>5. CASE FlushFails(k) /\ Answer("read", <<k, n>>, ERR, <<>>)
    <3>1. PICK p, e : Update(k, p, open[k].view, TRUE, e)
      BY <2>5 DEF FlushFails
    <3> QED
      BY <2>1, <2>5, <3>1, SaysIt, UpdateMarks DEF HandleCommands
  <2> QED
    BY <1>5, <2>4, <2>5 DEF ReadFile
<1>6. ASSUME NEW d \in Chunk, WriteFile(k, d) PROVE KeepsMark(h) \/ TellsMark(h)
  <2>1. used' = used
    BY <1>6 DEF WriteFile
  <2>2. PICK p, v, b, e : /\ Update(k, p, v, b, e)
                          /\ \/ Answer("write", <<k>>, OK, <<>>) /\ ~e
                             \/ Answer("write", <<k>>, ERR, <<>>)
    BY <1>6 DEF WriteFile
  <2>3. Says(k, "write") /\ (reply'.st = ERR \/ ~e)
    BY <2>2, SaysIt
  <2> QED
    BY <2>1, <2>2, <2>3, UpdateMarks DEF HandleCommands
<1> QED
  BY <1>1, <1>2, <1>3, <1>4, <1>5, <1>6 DEF OnHandle

LEMMA PathMarks ==
    ASSUME Table, Table', NEW p \in Path, OnPath(p), NEW h \in used', open'[h].erred
    PROVE  KeepsMark(h)
<1>0. h \in Handle /\ used \subseteq Handle /\ open \in [Handle -> Object]
  BY DEF Table, StateOK
<1>1. CASE \E mode \in {"ro", "rw"} : OpenFile(p, mode)
  <2>1. PICK mode : OpenFile(p, mode)
    BY <1>1
  <2>2. FreeHandle \in Handle
    BY <1>0, <2>1, FreeHandleIsFree DEF OpenFile, UsesPath
  <2>3. h # FreeHandle
    BY <1>0, <2>1, <2>2 DEF OpenFile
  <2>4. h \in used /\ open'[h] = open[h] /\ reply'.to = "open"
    BY <1>0, <2>1, <2>2, <2>3, AnswerIs DEF OpenFile
  <2> QED
    BY <2>4 DEF KeepsMark, Says
<1>2. ASSUME reply'.to # "write", UNCHANGED tableVars PROVE KeepsMark(h)
  BY <1>2, QuietMarks DEF tableVars
<1>3. CASE OpenNone(p) \/ OpenMissing(p) \/ StatFile(p)
  BY <1>2, <1>3, AnswerIs DEF OpenNone, OpenMissing, StatFile, Refuse
<1>4. CASE \E mode \in {"ro", "rw"} : OpenFails(p, mode)
  BY <1>2, <1>4, AnswerIs DEF OpenFails, CreateFails, Refuse
<1>5. CASE TouchFile(p) \/ RemoveFile(p) \/ \E d \in Chunk : AppendFile(p, d)
  BY <1>2, <1>5, AnswerIs DEF TouchFile, RemoveFile, AppendFile, CreateFails, Refuse
<1>6. CASE \E q \in Path : RenameFile(p, q) \/ CopyRefused(p, q) \/ CopyFile(p, q)
  BY <1>2, <1>6, AnswerIs DEF RenameFile, CopyRefused, CopyFile, Copies, Refuse
<1> QED
  BY <1>1, <1>3, <1>4, <1>5, <1>6 DEF OnPath

\* An object that is marked has told it.
Marks == \A h \in used : open[h].erred => h \in told

LEMMA StepMarks == Table /\ Marks /\ [Next]_vars => Marks'
<1> SUFFICES ASSUME Table, Marks, [Next]_vars, NEW h \in used', open'[h].erred
             PROVE  h \in told'
  BY DEF Marks
<1>0. Table'
  BY StepTable
<1>1. CASE UNCHANGED vars
  BY <1>1 DEF vars, tableVars, historyVars, Marks
<1>2. CASE Next
  <2>0. Tells
    BY <1>2 DEF Next
  <2>1. CASE KeepsMark(h)
    BY <2>0, <2>1 DEF KeepsMark, Says, Tells, Marks
  <2>2. CASE TellsMark(h)
    BY <2>0, <2>2 DEF TellsMark, Says, Tells
  <2>3. KeepsMark(h) \/ TellsMark(h)
    <3>1. CASE NotMounted
      BY <3>1 DEF NotMounted, Refuse, tableVars, Table, HandleTable
    <3>2. CASE BadHandle
      <4>1. PICK k \in Handle \ used, c \in HandleCommands : Refuse(c, <<k>>, ERR)
        BY <3>2 DEF BadHandle
      <4>2. UNCHANGED <<used, open>> /\ reply'.args[1] = k
        BY <4>1, AnswerIs DEF Refuse, tableVars
      <4> QED
        BY <4>2, OtherMarks
    <3>3. CASE \E k \in Handle : OnHandle(k)
      BY <1>0, <3>3, HandleMarks
    <3>4. CASE \E p \in Path : OnPath(p)
      BY <1>0, <3>4, PathMarks
    <3>5. CASE Mount \/ Format \/ Unmount \/ Reset \/ PowerLoss
      <4>1. used' = {} \/ (UNCHANGED <<used, open>> /\ reply'.to # "write")
        BY <3>5, AnswerIs DEF Mount, Format, Unmount, Reset, PowerLoss, Boot, Refuse,
           FormatAndMount, tableVars
      <4> QED
        BY <4>1, QuietMarks
    <3>6. CASE BlindCopy
      BY <3>6, AnswerIs, QuietMarks DEF BlindCopy, CopyBlind, Copies, tableVars
    <3> QED
      BY <1>2, <3>1, <3>2, <3>3, <3>4, <3>5, <3>6 DEF Next, Command
  <2> QED
    BY <2>1, <2>2, <2>3
<1> QED
  BY <1>1, <1>2

LEMMA SyncStores ==
    ASSUME Views, Marks, Next, NEW h \in Handle, reply'.to = "sync", reply'.args = <<h>>,
           reply'.st = OK, open[h].st = "rw"
    PROVE  disk'[open[h].file] = open[h].view \/ (h \in told /\ disk' = disk)
<1>0. h \in used
  BY DEF Views, Table, HandleTable
<1>1. /\ open[h].file \in File /\ disk \in [File -> Seq(Data)]
      /\ ~open[h].dirty => open[h].view = disk[open[h].file]
  BY <1>0 DEF Views, Clean, Watched, Table, StateOK, Object
<1>2. ~BlindCopy
  BY AnswerIs DEF BlindCopy, CopyBlind, Copies
<1>3. SyncFile(h)
  BY <1>2, WhoAnswers DEF Next, OK, ERR
<1>4. ~Answer("sync", <<h>>, ERR, <<>>)
  <2> SUFFICES ASSUME Answer("sync", <<h>>, ERR, <<>>) PROVE FALSE
    OBVIOUS
  <2>1. reply'.st = ERR
    BY AnswerIs
  <2> QED
    BY <2>1 DEF OK, ERR
<1>5. disk' = IF Commits(h) THEN [disk EXCEPT ![open[h].file] = open[h].view] ELSE disk
  BY <1>3, <1>4 DEF SyncFile
<1>6. CASE open[h].erred
  BY <1>0, <1>5, <1>6 DEF Marks, Commits
<1>7. CASE ~open[h].erred
  <2>1. ~Commits(h) => ~open[h].dirty
    BY <1>7 DEF Commits
  <2> QED
    BY <1>1, <1>5, <2>1
<1> QED
  BY <1>6, <1>7

\* A SYNC answered OK has put into the flash all that its handle shows,
\* unless a request on the handle has been answered ERR since its last good
\* WRITE; it has then stored everything or nothing.  Whatever fails.
THEOREM SyncsAreStored == Spec => SyncedIsStored
<1>1. Init => Marks
  BY DEF Init, Marks
<1>2. Views => Table
  BY DEF Views
<1>3. Views /\ Marks /\ [Next]_vars =>
        [\A h \in Handle :
           reply'.to = "sync" /\ reply'.args = <<h>> /\ reply'.st = OK /\ open[h].st = "rw" =>
             \/ disk'[open[h].file] = open[h].view
             \/ h \in told /\ disk' = disk]_vars
  BY SyncStores
<1> QED
  BY <1>1, <1>2, <1>3, InitViews, StepViews, StepMarks, PTL DEF Spec, SyncedIsStored

\* COPY never changes the file it copies, whatever paths lead to the two
\* files and whatever fails, unless its probe has failed and the two are
\* one; it then says ERR and leaves the beginning of the file.
THEOREM CopiesKeepSource == Spec => CopyKeepsSource
<1>1. Table /\ [Next]_vars =>
        [\A p, q \in Path : reply'.to = "copy" /\ reply'.args = <<p, q>> =>
             \/ disk'[Entry[p]] = disk[Entry[p]]
             \/ /\ blind' /\ Entry[p] = Entry[q] /\ reply'.st = ERR
                /\ \E n \in 0..Len(disk[Entry[p]]) :
                     disk'[Entry[p]] = SubSeq(disk[Entry[p]], 1, n)]_vars
  <2> SUFFICES ASSUME Table, Next, NEW p \in Path, NEW q \in Path,
                      reply'.to = "copy", reply'.args = <<p, q>>,
                      disk'[Entry[p]] # disk[Entry[p]]
               PROVE  /\ blind' /\ Entry[p] = Entry[q] /\ reply'.st = ERR
                      /\ \E n \in 0..Len(disk[Entry[p]]) :
                           disk'[Entry[p]] = SubSeq(disk[Entry[p]], 1, n)
    OBVIOUS
  <2>0. Entry[p] \in File /\ Entry[q] \in File /\ disk \in [File -> Seq(Data)]
    BY EntryType DEF Table, StateOK
  <2>1. ASSUME Copies(p, q)
        PROVE  Entry[p] = Entry[q] /\ reply'.st = ERR
               /\ \E n \in 0..Len(disk[Entry[p]]) :
                    disk'[Entry[p]] = SubSeq(disk[Entry[p]], 1, n)
    <3> DEFINE Leaves(c) == disk' \in {[disk EXCEPT ![Entry[q]] = c]}
                              \cup (IF "commit" \in Faults THEN {disk} ELSE {})
    <3>1. PICK c : Leaves(c) /\ (c = disk[Entry[p]] \/ (reply'.st = ERR
                     /\ \E n \in 0..Len(disk[Entry[p]]) : c = SubSeq(disk[Entry[p]], 1, n)))
      BY <2>1, AnswerIs DEF Copies
    <3>2. disk' = [disk EXCEPT ![Entry[q]] = c]
      BY <3>1
    <3>3. Entry[p] = Entry[q] /\ disk'[Entry[p]] = c
      BY <2>0, <3>2
    <3> QED
      BY <3>1, <3>3
  <2>2. CASE BlindCopy /\ blind' = TRUE
    <3>1. PICK x, y \in Path : CopyBlind(x, y)
      BY <2>2 DEF BlindCopy
    <3>2. Copies(x, y) /\ reply'.args = <<x, y>>
      BY <3>1, AnswerIs DEF CopyBlind, Copies
    <3>3. x = p /\ y = q
      BY <3>2
    <3> QED
      BY <2>1, <2>2, <3>2, <3>3
  <2>3. ~Command
    <3> SUFFICES ASSUME Command PROVE FALSE
      OBVIOUS
    <3>1. PICK x, y \in Path : CopyFile(x, y) /\ reply'.args = <<x, y>>
      BY WhoAnswers
    <3>2. x = p /\ y = q
      BY <3>1
    <3> QED
      BY <2>1, <3>1, <3>2 DEF CopyFile, SelfCopy
  <2> QED
    BY <2>2, <2>3 DEF Next
<1> QED
  BY <1>1, InitTable, StepTable, PTL DEF Spec, CopyKeepsSource

-----------------------------------------------------------------------------
(***************************************************************************)
(* FileService implements FileStore, for every number of files, paths and  *)
(* handles, any data and any request: what the programs of the 65C02 see   *)
(* through views, commits, unmounts and restarts are plain files.  Each    *)
(* command is shown to be the command of FileStore with the same answer.   *)
(***************************************************************************)

\* Only an open or a change of a directory may fail.  A failed read moves the
\* position, a failed write leaves a part of its data, a failed commit or
\* mount loses data under OK, and so does a loss of power before a commit:
\* the files are not plain then.
OnlyOpensFail == Faults \subseteq {"open", "entry"}

\* A flash without a file system holds nothing.
Blank == ~formatted => dir = {} /\ disk = [f \in File |-> <<>>]

\* No object is marked, and one that is closed is as init_handles left it.
Unmarked ==
    \A h \in Handle : ~open[h].erred /\ (open[h].st = "closed" => open[h] = Closed)

\* The inductive invariant.
Plain == Views /\ Blank /\ Unmarked

\* A handle that writes has its file to itself.
Alone(o) ==
    \A h, k \in Handle :
        o[h].st = "rw" /\ o[k].st # "closed" /\ o[k].file = o[h].file => h = k

\* What objects o on a flash d show of file f.
Shows(o, d, f) ==
    IF \E h \in Handle : o[h].st = "rw" /\ o[h].file = f
    THEN o[CHOOSE h \in Handle : o[h].st = "rw" /\ o[h].file = f].view
    ELSE d[f]

\* The programs see what the objects show, before and after a step.
LEMMA SeenShows ==
  /\ seen = [f \in File |-> Shows(open, disk, f)]
  /\ seen' = [f \in File |-> Shows(open', disk', f)]
BY DEF seen, Shows

\* A file that is written shows the view of its writer,
LEMMA ShowsWriter ==
  ASSUME NEW o, NEW d, Alone(o), NEW h \in Handle, o[h].st = "rw"
  PROVE  Shows(o, d, o[h].file) = o[h].view
<1> DEFINE w == CHOOSE k \in Handle : o[k].st = "rw" /\ o[k].file = o[h].file
<1>1. w \in Handle /\ o[w].st = "rw" /\ o[w].file = o[h].file
  OBVIOUS
<1>2. w = h
  BY <1>1 DEF Alone
<1> QED
  BY <1>2 DEF Shows

\* any other what the flash holds.
LEMMA ShowsFlash ==
  ASSUME NEW o, NEW d, NEW f, \A h \in Handle : o[h].st = "rw" => o[h].file # f
  PROVE  Shows(o, d, f) = d[f]
BY DEF Shows

\* A file shows the same if its writer does, or if it has none and the flash
\* holds the same.
LEMMA ShowsSame ==
  ASSUME NEW o, NEW d, NEW p, NEW e, NEW f, Alone(o), Alone(p),
         \A h \in Handle : o[h].st = "rw" /\ o[h].file = f =>
            p[h].st = "rw" /\ p[h].file = f /\ p[h].view = o[h].view,
         (\A h \in Handle : o[h].st = "rw" => o[h].file # f) =>
            e[f] = d[f] /\ \A h \in Handle : p[h].st = "rw" => p[h].file # f
  PROVE  Shows(p, e, f) = Shows(o, d, f)
<1>1. CASE \E h \in Handle : o[h].st = "rw" /\ o[h].file = f
  <2>1. PICK h \in Handle : o[h].st = "rw" /\ o[h].file = f
    BY <1>1
  <2>2. p[h].st = "rw" /\ p[h].file = f /\ p[h].view = o[h].view
    BY <2>1
  <2>3. Shows(o, d, f) = o[h].view
    BY <2>1, ShowsWriter
  <2>4. Shows(p, e, f) = p[h].view
    BY <2>2, ShowsWriter
  <2> QED
    BY <2>2, <2>3, <2>4
<1>2. CASE \A h \in Handle : o[h].st = "rw" => o[h].file # f
  BY <1>2, ShowsFlash
<1> QED
  BY <1>1, <1>2

\* Every writer is alone, and so is it after a step that keeps Views.
LEMMA WritersAlone ==
  ASSUME Views
  PROVE  Alone(open)
BY DEF Views, Table, StateOK, HandleTable, OneWriter, Alone

\* A handle without uncommitted data shows its file as the programs see it,
\* and so does one with them.
LEMMA HandleShows ==
  ASSUME OnlyOpensFail, Views, NEW h \in used
  PROVE  seen[open[h].file] = open[h].view
<1>1. Alone(open) /\ open[h].file \in File /\ h \in Handle /\ open[h].st # "closed"
  BY WritersAlone DEF Views, Table, StateOK, HandleTable, Object
<1>2. seen[open[h].file] = Shows(open, disk, open[h].file)
  BY <1>1, SeenShows
<1>3. CASE open[h].st = "rw"
  BY <1>1, <1>2, <1>3, ShowsWriter
<1>4. CASE open[h].st # "rw"
  <2>1. open[h].view = disk[open[h].file]
    BY <1>4 DEF Views, OneWriter, Clean, Watched, OnlyOpensFail
  <2>2. \A k \in Handle : open[k].st = "rw" => open[k].file # open[h].file
    BY <1>1, <1>4 DEF Alone
  <2> QED
    BY <1>2, <2>1, <2>2, ShowsFlash
<1> QED
  BY <1>3, <1>4

\* A path no handle writes shows the flash.
LEMMA PathShows ==
  ASSUME NEW p \in Path, Unwritten(p)
  PROVE  seen[Entry[p]] = disk[Entry[p]]
<1>1. Entry[p] \in File
  BY EntryType
<1>2. Shows(open, disk, Entry[p]) = disk[Entry[p]]
  BY ShowsFlash DEF Unwritten
<1> QED
  BY <1>1, <1>2, SeenShows

\* What each handle is to the programs.
LEMMA OpenedIs ==
  ASSUME NEW h \in Handle
  PROVE  /\ opened[h].st = open[h].st /\ opened[h].file = open[h].file
         /\ opened[h].pos = open[h].pos
BY DEF opened

\* The guards of the commands on files mean the same to the programs.
LEMMA GuardsAgree ==
  ASSUME NEW p \in Path
  PROVE  /\ Unopened(p) <=> Store!Unopened(Entry[p])
         /\ Unwritten(p) <=> Store!Unwritten(Entry[p])
         /\ Unopened(p) => Unwritten(p)
BY OpenedIs DEF Unopened, Unwritten, Store!Unopened, Store!Unwritten

\* Steps that leave objects and flash alone show the same.
LEMMA ShowsStill ==
  ASSUME UNCHANGED <<open, disk>>
  PROVE  seen' = seen /\ opened' = opened
BY DEF seen, opened
-----------------------------------------------------------------------------
(***************************************************************************)
(* The invariant.                                                          *)
(***************************************************************************)
\* What a step does to the object of one handle.
\* An object in use that is not marked keeps the table unmarked,
LEMMA UpdateUnmarked ==
  ASSUME Table, Unmarked, NEW h \in used, NEW p, NEW v, NEW d, NEW e, ~e, Update(h, p, v, d, e)
  PROVE  Unmarked'
<1>1. h \in Handle /\ open[h].st # "closed"
  BY DEF Table, StateOK, HandleTable
<1>2. /\ open'[h].st = open[h].st /\ open'[h].erred = e
      /\ \A k \in Handle \ {h} : open'[k] = open[k]
  BY <1>1, UpdateAll
<1> QED
  BY <1>1, <1>2 DEF Unmarked

\* and so does one that is put in, or taken out.
LEMMA PutUnmarked ==
  ASSUME Table, Unmarked, NEW h \in Handle, NEW new, open' = [open EXCEPT ![h] = new],
         ~new.erred, new.st = "closed" => new = Closed
  PROVE  Unmarked'
<1>1. open'[h] = new /\ \A k \in Handle \ {h} : open'[k] = open[k]
  BY DEF Table, StateOK
<1> QED
  BY <1>1 DEF Unmarked

\* and so do all of them, taken out.
LEMMA ClosedUnmarked ==
  ASSUME open' = AllClosed
  PROVE  Unmarked'
<1>1. ~Closed.erred
  BY DEF Closed
<1> QED
  BY <1>1 DEF Unmarked, AllClosed

\* The commands on a handle,
LEMMA HandleKeepsUnmarked ==
  ASSUME OnlyOpensFail, Table, Unmarked, NEW h \in Handle, OnHandle(h)
  PROVE  Unmarked'
<1>1. CASE TellFile(h)
  BY <1>1 DEF TellFile, tableVars, Unmarked
<1>2. CASE CloseFile(h)
  <2>1. ~Closed.erred /\ Closed.st = "closed"
    BY DEF Closed
  <2> QED
    BY <1>2, <2>1, PutUnmarked DEF CloseFile, CloseObject
<1>3. (h \in used /\ ~open[h].erred) \/ TellFile(h)
  BY DEF OnHandle, CloseFile, SeekFile, SyncFile, ReadFile, WriteFile, UsesHandle, Unmarked
<1>4. ASSUME h \in used, ~open[h].erred, NEW p, MoveTo(h, p) PROVE Unmarked'
  BY <1>4, UpdateUnmarked DEF MoveTo
<1>5. CASE SeekFile(h)
  <2>1. UNCHANGED open \/ \E p \in Count : MoveTo(h, p)
    BY <1>5 DEF SeekFile, OnlyOpensFail
  <2>2. CASE UNCHANGED open
    BY <2>2 DEF Unmarked
  <2> QED
    BY <1>1, <1>3, <1>4, <2>1, <2>2
<1>6. ASSUME NEW n \in Count, ReadFile(h, n) PROVE Unmarked'
  BY <1>1, <1>3, <1>4, <1>6 DEF ReadFile, OnlyOpensFail
<1>7. ASSUME NEW d \in Chunk, WriteFile(h, d) PROVE Unmarked'
  <2>1. \E p, v : Update(h, p, v, TRUE, FALSE)
    BY <1>7 DEF WriteFile, OnlyOpensFail
  <2> QED
    BY <1>7, <2>1, UpdateUnmarked DEF WriteFile, UsesHandle
<1>8. CASE SyncFile(h)
  <2>1. Update(h, open[h].pos, open[h].view, open[h].dirty /\ open[h].erred, open[h].erred)
    BY <1>8 DEF SyncFile, OnlyOpensFail
  <2>2. \E d : Update(h, open[h].pos, open[h].view, d, open[h].erred)
    BY <2>1
  <2>3. h \in used /\ ~open[h].erred
    BY <1>8 DEF SyncFile, UsesHandle, Unmarked, Table, StateOK
  <2> QED
    BY <2>2, <2>3, UpdateUnmarked
<1> QED
  BY <1>1, <1>2, <1>5, <1>6, <1>7, <1>8 DEF OnHandle

\* those on files,
LEMMA PathKeepsUnmarked ==
  ASSUME Table, Unmarked, NEW p \in Path, OnPath(p)
  PROVE  Unmarked'
<1>1. ASSUME NEW mode \in {"ro", "rw"}, OpenFile(p, mode) PROVE Unmarked'
  <2> DEFINE new == [st |-> mode, file |-> Entry[p], pos |-> 0,
                     view |-> disk[Entry[p]], dirty |-> FALSE, erred |-> FALSE]
  <2>1. FreeHandle \in Handle /\ open' = [open EXCEPT ![FreeHandle] = new]
    BY <1>1, FreeHandleIsFree DEF OpenFile, Table, StateOK
  <2>2. ~new.erred /\ new.st # "closed"
    OBVIOUS
  <2> QED
    BY <2>1, <2>2, PutUnmarked
<1>2. CASE UNCHANGED open
  BY <1>2 DEF Unmarked
<1>3. UNCHANGED open \/ \E mode \in {"ro", "rw"} : OpenFile(p, mode)
  BY DEF OnPath, OpenNone, OpenMissing, OpenFails, StatFile, TouchFile, RemoveFile, AppendFile,
     RenameFile, CopyRefused, CopyFile, Copies, CreateFails, Refuse, tableVars
<1> QED
  BY <1>1, <1>2, <1>3

\* and mounting.
LEMMA MountKeepsUnmarked ==
  ASSUME Unmarked, Mount \/ Format \/ Unmount \/ Reset \/ PowerLoss
  PROVE  Unmarked'
<1>1. CASE UNCHANGED open
  BY <1>1 DEF Unmarked
<1> QED
  BY <1>1, ClosedUnmarked DEF Mount, Format, Unmount, Reset, PowerLoss, Boot, Refuse, tableVars

\* No probe fails.
LEMMA CommandsOnly ==
  ASSUME OnlyOpensFail, [Next]_vars
  PROVE  Command \/ UNCHANGED vars
BY DEF Next, BlindCopy, CopyBlind, OnlyOpensFail

\* Nothing is put on a flash that holds no file system.
LEMMA StepBlank ==
  ASSUME OnlyOpensFail, Table, Blank, [Next]_vars
  PROVE  Blank'
<1>1. fs_mounted => formatted
  BY DEF Table, HandleTable
<1>2. CASE UNCHANGED flashVars
  BY <1>2 DEF flashVars, Blank
<1>3. CASE fs_mounted /\ UNCHANGED formatted
  BY <1>1, <1>3 DEF Blank
<1>4. CASE NotMounted \/ BadHandle \/ UNCHANGED vars
  BY <1>2, <1>4 DEF NotMounted, BadHandle, Refuse, vars
<1>5. ASSUME NEW h \in Handle, OnHandle(h) PROVE Blank'
  BY <1>3, <1>5 DEF OnHandle, CloseFile, SeekFile, TellFile, SyncFile, ReadFile, WriteFile,
     UsesHandle, flashVars
<1>6. ASSUME NEW p \in Path, OnPath(p) PROVE Blank'
  BY <1>3, <1>6 DEF OnPath, OpenNone, OpenMissing, OpenFails, OpenFile, StatFile, TouchFile,
     RemoveFile, AppendFile, RenameFile, CopyRefused, CopyFile, Copies, CopyUses,
     CreateFails, Refuse, UsesPath, flashVars
<1>7. CASE Mount \/ Format
  BY <1>2, <1>7 DEF Mount, Format, FormatAndMount, Refuse, OnlyOpensFail, Blank
<1>8. CASE Unmount \/ Reset
  <2>1. UNCHANGED formatted /\ (fs_mounted \/ UNCHANGED flashVars)
    BY <1>8 DEF Unmount, Reset, Refuse, flashVars
  <2> QED
    BY <1>2, <1>3, <2>1
<1>9. CASE PowerLoss
  BY <1>2, <1>9 DEF PowerLoss
<1> QED
  BY <1>4, <1>5, <1>6, <1>7, <1>8, <1>9, CommandsOnly DEF Command

\* Plain is inductive.
LEMMA StepPlain ==
  ASSUME OnlyOpensFail, Plain, [Next]_vars
  PROVE  Plain'
<1>1. Views' /\ Table
  BY StepViews DEF OnlyOpensFail, Plain, Views
<1>2. Blank'
  BY <1>1, StepBlank DEF Plain
<1>3. Unmarked'
  <2>1. CASE UNCHANGED open
    BY <2>1 DEF Plain, Unmarked
  <2>2. CASE NotMounted \/ BadHandle \/ UNCHANGED vars
    BY <2>1, <2>2 DEF NotMounted, BadHandle, Refuse, vars, tableVars
  <2> QED
    BY <1>1, <2>2, HandleKeepsUnmarked, PathKeepsUnmarked, MountKeepsUnmarked, CommandsOnly DEF Plain, Command
<1> QED
  BY <1>1, <1>2, <1>3 DEF Plain

\* It holds at the start.
LEMMA InitPlain == Init => Plain
<1> SUFFICES ASSUME Init PROVE Plain
  OBVIOUS
<1>1. ~formatted => disk = [f \in File |-> <<>>] /\ dir = {}
  BY DEF Init
<1>2. ~Closed.erred /\ open = AllClosed
  BY DEF Init, Closed
<1> QED
  BY <1>1, <1>2, InitViews DEF Plain, Blank, Unmarked, AllClosed
-----------------------------------------------------------------------------
(***************************************************************************)
(* Each command is one of FileStore's.                                     *)
(***************************************************************************)
\* A refusal is one,
LEMMA RefuseIsRefused ==
  ASSUME NEW c, NEW as, NEW st \in {ERR, NO_FILE}, Refuse(c, as, st)
  PROVE  Store!Refused
<1>1. reply'.st = st /\ reply'.data = <<>>
  BY DEF Refuse, Answer, Store!Answered
<1>2. UNCHANGED <<dir, seen, opened, fs_mounted>>
  BY ShowsStill DEF Refuse, tableVars, flashVars
<1> QED
  BY <1>1, <1>2 DEF Store!Refused, ERR, NO_FILE, Store!ERR, Store!NO_FILE

\* also where it may have made the entry.
LEMMA CreateFailsIsRefused ==
  ASSUME NEW c, NEW p \in Path, fs_mounted, CreateFails(c, p)
  PROVE  Store!Refused
<1>1. reply'.st = ERR /\ reply'.data = <<>>
  BY DEF CreateFails, Answer, Store!Answered
<1>2. UNCHANGED <<seen, opened, fs_mounted>>
  BY ShowsStill DEF CreateFails, tableVars
<1>3. dir' = dir \/ \E f \in File : dir' = dir \cup {f}
  BY EntryType DEF CreateFails
<1> QED
  BY <1>1, <1>2, <1>3 DEF Store!Refused, ERR, Store!ERR

\* The status words are the same.
LEMMA AnswersAgree ==
  ASSUME NEW c, NEW as, NEW d
  PROVE  Answer(c, as, OK, d) <=> Store!Answered(c, as, Store!OK, d)
BY DEF Answer, OK, Store!OK

\* A writer is alone after the step, too.
LEMMA WritersAloneNext ==
  ASSUME Views'
  PROVE  Alone(open')
BY DEF Views, Table, StateOK, HandleTable, OneWriter, Alone

\* Two ways of showing a sequence of files are equal if they agree on each.
LEMMA SeenSame ==
  ASSUME \A f \in File : Shows(open', disk', f) = Shows(open, disk, f)
  PROVE  seen' = seen
BY SeenShows

\* The slot given out is free, and an empty view is laid over nothing.
LEMMA OpenIsOpen ==
  ASSUME Plain, Plain', NEW p \in Path, NEW mode \in {"ro", "rw"}, OpenFile(p, mode)
  PROVE  \E h \in Handle : Store!Open(p, mode, h)
<1> DEFINE h == FreeHandle
           new == [st |-> mode, file |-> Entry[p], pos |-> 0,
                   view |-> disk[Entry[p]], dirty |-> FALSE, erred |-> FALSE]
<1>0. Table /\ Alone(open) /\ Alone(open') /\ Entry[p] \in File
  BY WritersAlone, WritersAloneNext, EntryType DEF Plain, Views
<1>1. h \in Handle /\ open[h].st = "closed"
  BY <1>0, FreeHandleIsFree DEF OpenFile, Table, StateOK, HandleTable
<1>2. /\ new.st = mode /\ new.file = Entry[p] /\ new.view = disk[Entry[p]] /\ new.pos = 0
      /\ open' = [open EXCEPT ![h] = new] /\ open \in [Handle -> Object]
      /\ UNCHANGED <<fs_mounted, disk>> /\ fs_mounted
      /\ dir' = dir \cup {Entry[p]} /\ (mode = "ro" => Entry[p] \in dir)
      /\ IF mode = "rw" THEN Unopened(p) ELSE Unwritten(p)
      /\ Answer("open", <<p>>, OK, <<h, Len(disk[Entry[p]])>>)
  BY <1>0 DEF OpenFile, UsesPath, Table, StateOK
<1> HIDE DEF new, h
<1>3. open'[h] = new /\ \A k \in Handle \ {h} : open'[k] = open[k]
  BY <1>1, <1>2
<1>4. seen[Entry[p]] = disk[Entry[p]]
  BY <1>2, PathShows, GuardsAgree
<1>5. seen' = seen
  <2>1. SUFFICES ASSUME NEW f \in File PROVE Shows(open', disk', f) = Shows(open, disk, f)
    BY SeenSame
  <2>2. CASE f = Entry[p] /\ mode = "rw"
    <3>1. open'[h].st = "rw" /\ open'[h].file = f /\ open'[h].view = disk[f]
      BY <1>2, <1>3, <2>2
    <3>2. Shows(open', disk', open'[h].file) = open'[h].view
      BY <1>0, <1>1, <3>1, ShowsWriter
    <3>3. Shows(open', disk', f) = disk[f]
      BY <3>1, <3>2
    <3>4. Shows(open, disk, f) = disk[f]
      BY <1>0, <1>4, <2>2, SeenShows
    <3> QED
      BY <3>3, <3>4
  <2>3. CASE f # Entry[p] \/ mode = "ro"
    <3>1. \A k \in Handle : open[k].st = "rw" /\ open[k].file = f =>
            open'[k].st = "rw" /\ open'[k].file = f /\ open'[k].view = open[k].view
      <4>1. \A k \in Handle : open[k].st = "rw" => open'[k] = open[k]
        BY <1>1, <1>3
      <4> QED
        BY <4>1
    <3>2. ASSUME \A k \in Handle : open[k].st = "rw" => open[k].file # f
          PROVE  disk'[f] = disk[f] /\ \A k \in Handle : open'[k].st = "rw" => open'[k].file # f
      <4>1. open'[h].st = "rw" => open'[h].file # f
        BY <1>2, <1>3, <2>3
      <4> QED
        BY <1>2, <1>3, <3>2, <4>1
    <3> QED
      BY <1>0, <3>1, <3>2, ShowsSame
  <2> QED
    BY <2>2, <2>3
<1>6. opened' = [opened EXCEPT ![h] = [st |-> mode, file |-> Entry[p], pos |-> 0]]
  BY <1>1, <1>2, <1>3 DEF opened
<1>7. opened[h].st = "closed"
  BY <1>1, OpenedIs
<1>8. Store!Answered("open", <<p>>, Store!OK, <<h, Len(seen[Entry[p]])>>)
  BY <1>2, <1>4, AnswersAgree
<1>9. Store!Open(p, mode, h)
  BY <1>2, <1>5, <1>6, <1>7, <1>8 DEF Store!Open
<1> QED
  BY <1>1, <1>9

\* A handle moves: what is read or sought, told or synced.
LEMMA UpdateMoves ==
  ASSUME Table, NEW h \in Handle, NEW p, NEW v, NEW d, NEW e, Update(h, p, v, d, e)
  PROVE  Store!MoveTo(h, p)
<1>1. /\ open'[h].st = open[h].st /\ open'[h].file = open[h].file /\ open'[h].pos = p
      /\ \A k \in Handle \ {h} : open'[k] = open[k]
  BY UpdateAll
<1>2. opened' = [opened EXCEPT ![h] = [st |-> opened[h].st, file |-> opened[h].file, pos |-> p]]
  BY <1>1 DEF opened
<1> QED
  BY <1>2 DEF Store!MoveTo

\* A handle that keeps its view, while the flash changes at most its file.
LEMMA UpdateShows ==
  ASSUME Plain, Plain', NEW h \in used, NEW p, NEW d, NEW e, Update(h, p, open[h].view, d, e),
         \A f \in File : disk'[f] = disk[f] \/ (f = open[h].file /\ open[h].st = "rw")
  PROVE  seen' = seen
<1>0. Table /\ Alone(open) /\ Alone(open') /\ h \in Handle
  BY WritersAlone, WritersAloneNext DEF Plain, Views, Table, StateOK
<1>1. /\ open'[h].st = open[h].st /\ open'[h].file = open[h].file /\ open'[h].view = open[h].view
      /\ \A k \in Handle \ {h} : open'[k] = open[k]
  BY <1>0, UpdateAll
<1>2. SUFFICES ASSUME NEW f \in File PROVE Shows(open', disk', f) = Shows(open, disk, f)
  BY SeenSame
<1>3. \A k \in Handle : open'[k].st = open[k].st /\ open'[k].file = open[k].file
                        /\ open'[k].view = open[k].view
  BY <1>1
<1> QED
  BY <1>0, <1>3, ShowsSame

\* What a SYNC commits is what the programs saw already.
LEMMA SyncIsSync ==
  ASSUME OnlyOpensFail, Plain, Plain', NEW h \in Handle, SyncFile(h)
  PROVE  Store!Sync(h)
<1>1. /\ disk' = IF Commits(h) THEN [disk EXCEPT ![open[h].file] = open[h].view] ELSE disk
      /\ Update(h, open[h].pos, open[h].view, open[h].dirty /\ open[h].erred, open[h].erred)
      /\ Answer("sync", <<h>>, OK, <<>>)
      /\ h \in used /\ UNCHANGED <<dir, fs_mounted>>
  BY DEF SyncFile, OnlyOpensFail, UsesHandle
<1>2. Table /\ open[h].st # "closed" /\ (Commits(h) => open[h].st = "rw")
      /\ disk \in [File -> Seq(Data)]
  BY <1>1 DEF Plain, Views, Table, StateOK, HandleTable, OneWriter, Commits
<1>3. PICK d : d = (open[h].dirty /\ open[h].erred)
  OBVIOUS
<1>4. Update(h, open[h].pos, open[h].view, d, open[h].erred)
  BY <1>1, <1>3
<1>5. seen' = seen
  <2>1. \A f \in File : disk'[f] = disk[f] \/ (f = open[h].file /\ open[h].st = "rw")
    BY <1>1, <1>2
  <2> QED
    BY <1>1, <1>4, <2>1, UpdateShows
<1>6. opened' = opened
  <2>1. /\ open'[h].st = open[h].st /\ open'[h].file = open[h].file /\ open'[h].pos = open[h].pos
        /\ \A k \in Handle \ {h} : open'[k] = open[k]
    BY <1>2, <1>4, UpdateAll
  <2> QED
    BY <2>1 DEF opened
<1>7. opened[h].st # "closed" /\ Store!Answered("sync", <<h>>, Store!OK, <<>>)
  BY <1>1, <1>2, OpenedIs, AnswersAgree
<1> QED
  BY <1>1, <1>5, <1>6, <1>7 DEF Store!Sync

LEMMA TellIsTell ==
  ASSUME Plain, NEW h \in Handle, TellFile(h)
  PROVE  Store!Tell(h)
<1>1. /\ h \in used /\ Answer("tell", <<h>>, OK, <<open[h].pos>>)
      /\ UNCHANGED <<open, disk, dir, fs_mounted>>
  BY DEF TellFile, UsesHandle, tableVars, flashVars
<1>2. opened[h].st # "closed" /\ opened[h].pos = open[h].pos
  BY <1>1, OpenedIs DEF Plain, Views, Table, HandleTable
<1>3. Store!Answered("tell", <<h>>, Store!OK, <<opened[h].pos>>)
  BY <1>1, <1>2, AnswersAgree
<1> QED
  BY <1>1, <1>2, <1>3, ShowsStill DEF Store!Tell

LEMMA SeekIsSeek ==
  ASSUME OnlyOpensFail, Plain, Plain', NEW h \in Handle, SeekFile(h)
  PROVE  Store!Refused \/ \E p \in Count : Store!Seek(h, p)
<1>0. Table /\ h \in used /\ UNCHANGED <<fs_mounted, used, dir, disk, formatted>>
  BY DEF SeekFile, UsesHandle, flashVars, Plain, Views
<1>1. PICK p : \/ p \in Count /\ MoveTo(h, p) /\ Answer("seek", <<h>>, OK, <<p>>)
               \/ Answer("seek", <<h>>, ERR, <<>>) /\ UNCHANGED open
  BY DEF SeekFile, OnlyOpensFail
<1>2. CASE p \in Count /\ MoveTo(h, p) /\ Answer("seek", <<h>>, OK, <<p>>)
  <2>1. seen' = seen
    BY <1>0, <1>2, UpdateShows DEF MoveTo
  <2>2. Store!MoveTo(h, p)
    BY <1>0, <1>2, UpdateMoves DEF MoveTo
  <2>3. opened[h].st # "closed" /\ Store!Answered("seek", <<h>>, Store!OK, <<p>>)
    BY <1>0, <1>2, OpenedIs, AnswersAgree DEF Table, HandleTable
  <2> QED
    BY <1>0, <1>2, <2>1, <2>2, <2>3 DEF Store!Seek
<1>3. CASE Answer("seek", <<h>>, ERR, <<>>) /\ UNCHANGED open
  <2>1. Refuse("seek", <<h>>, ERR)
    BY <1>0, <1>3 DEF Refuse, tableVars, flashVars
  <2> QED
    BY <2>1, RefuseIsRefused
<1> QED
  BY <1>1, <1>2, <1>3

\* What a READ may deliver: a response has room for a byte at least.
LEMMA ReadIsRead ==
  ASSUME OnlyOpensFail, Plain, Plain', NEW h \in Handle, NEW n \in Count, ReadFile(h, n)
  PROVE  Store!Read(h, n)
<1> DEFINE m == Store!Smaller(n, RespSpace)
           d == Store!Slice(open[h].view, open[h].pos, m)
<1>0. Table /\ h \in used /\ UNCHANGED <<fs_mounted, used, dir, disk, formatted>>
  BY DEF ReadFile, UsesHandle, flashVars, Plain, Views
<1>1. MoveTo(h, open[h].pos + Len(d)) /\ Answer("read", <<h, n>>, OK, d)
  BY DEF ReadFile, OnlyOpensFail
<1>2. m \in 0..n /\ (n > 0 => m > 0)
  BY FileAssumption DEF FileAssumption, Store!Smaller
<1> HIDE DEF m
<1>3. seen[opened[h].file] = open[h].view /\ opened[h].pos = open[h].pos /\ opened[h].st # "closed"
  BY <1>0, HandleShows, OpenedIs DEF Plain, Table, HandleTable
<1>4. d = Store!Slice(seen[opened[h].file], opened[h].pos, m)
  BY <1>3
<1> HIDE DEF d
<1>5. seen' = seen
  BY <1>0, <1>1, UpdateShows DEF MoveTo
<1>6. Store!MoveTo(h, opened[h].pos + Len(d))
  BY <1>0, <1>1, <1>3, UpdateMoves DEF MoveTo
<1>7. Store!Answered("read", <<h, n>>, Store!OK, d)
  BY <1>1, AnswersAgree
<1> QED
  BY <1>0, <1>2, <1>3, <1>4, <1>5, <1>6, <1>7 DEF Store!Read

\* A commit of some objects leaves on the flash what the programs see of them.
LEMMA CommitsShow ==
  ASSUME OnlyOpensFail, Plain, NEW hs \in SUBSET used, disk' \in Committed(hs), NEW f \in File
  PROVE  /\ \A h \in hs : open[h].st = "rw" /\ open[h].file = f => disk'[f] = open[h].view
         /\ (\A h \in hs : open[h].st = "rw" => open[h].file # f) => disk'[f] = disk[f]
<1> DEFINE Writes(h) == Commits(h) /\ open[h].file = f
           w == CHOOSE h \in hs : Writes(h)
<1>1. disk'[f] = IF \E h \in hs : Writes(h) THEN open[w].view ELSE disk[f]
  BY DEF Committed, OnlyOpensFail
<1>2. hs \subseteq Handle /\ Alone(open) /\ \A h \in hs : open[h].st # "closed"
  BY WritersAlone DEF Plain, Views, Table, StateOK, HandleTable
<1>3. \A h \in hs : open[h].dirty => open[h].st = "rw"
  BY DEF Plain, Views, OneWriter
<1>4. ASSUME NEW h \in hs, open[h].st = "rw", open[h].file = f
      PROVE  disk'[f] = open[h].view
  <2>1. CASE Writes(h)
    <3>1. w \in hs /\ Writes(w)
      BY <2>1
    <3> HIDE DEF w
    <3>2. w = h
      BY <1>2, <1>3, <1>4, <3>1 DEF Alone, Commits
    <3> QED
      BY <1>1, <2>1, <3>2
  <2>2. CASE ~Writes(h)
    <3>1. ~open[h].dirty
      BY <1>2, <1>4, <2>2 DEF Commits, Plain, Unmarked
    <3>2. open[h].view = disk[f]
      BY <1>4, <3>1 DEF Plain, Views, Clean, Watched, OnlyOpensFail
    <3>3. \A k \in hs : ~Writes(k)
      BY <1>2, <1>3, <1>4, <2>2 DEF Alone, Commits
    <3> QED
      BY <1>1, <3>2, <3>3
  <2> QED
    BY <2>1, <2>2
<1>5. ASSUME \A h \in hs : open[h].st = "rw" => open[h].file # f
      PROVE  disk'[f] = disk[f]
  BY <1>1, <1>3, <1>5 DEF Commits
<1> QED
  BY <1>4, <1>5

\* All of them: the flash is what the programs see.
LEMMA AllCommitted ==
  ASSUME OnlyOpensFail, Plain, disk' \in Committed(used)
  PROVE  disk' = seen
<1>1. disk' = [f \in File |-> disk'[f]]
  BY DEF Committed
<1>2. ASSUME NEW f \in File PROVE disk'[f] = Shows(open, disk, f)
  <2>1. CASE \E h \in Handle : open[h].st = "rw" /\ open[h].file = f
    <3>1. PICK h \in Handle : open[h].st = "rw" /\ open[h].file = f
      BY <2>1
    <3>2. h \in used
      BY <3>1 DEF Plain, Views, Table, HandleTable
    <3>3. disk'[f] = open[h].view
      BY <3>1, <3>2, CommitsShow
    <3>4. Alone(open)
      BY WritersAlone DEF Plain
    <3>5. Shows(open, disk, open[h].file) = open[h].view
      BY <3>1, <3>4, ShowsWriter
    <3> QED
      BY <3>1, <3>3, <3>5
  <2>2. CASE \A h \in Handle : open[h].st = "rw" => open[h].file # f
    <3>1. used \subseteq Handle
      BY DEF Plain, Views, Table, StateOK
    <3>2. disk'[f] = disk[f]
      BY <2>2, <3>1, CommitsShow
    <3> QED
      BY <2>2, <3>2, ShowsFlash
  <2> QED
    BY <2>1, <2>2
<1> QED
  BY <1>1, <1>2, SeenShows

\* So is what a CLOSE commits.
LEMMA CloseIsClose ==
  ASSUME OnlyOpensFail, Plain, Plain', NEW h \in Handle, CloseFile(h)
  PROVE  Store!Close(h)
<1>1. /\ h \in used /\ disk' \in Committed({h}) /\ Answer("close", <<h>>, OK, <<>>)
      /\ UNCHANGED <<dir, fs_mounted>> /\ open' = [open EXCEPT ![h] = Closed]
  BY DEF CloseFile, UsesHandle, CloseObject
<1>2. /\ open' = [open EXCEPT ![h] = Closed] /\ open \in [Handle -> Object]
      /\ open[h].st # "closed" /\ Alone(open) /\ Alone(open')
      /\ Closed.st = "closed" /\ Closed.file = Entry[1] /\ Closed.pos = 0
  BY <1>1, WritersAlone, WritersAloneNext DEF Plain, Views, Table, StateOK, HandleTable, Closed
<1>3. open'[h] = Closed /\ \A k \in Handle \ {h} : open'[k] = open[k]
  BY <1>2
<1>4. seen' = seen
  <2>1. SUFFICES ASSUME NEW f \in File PROVE Shows(open', disk', f) = Shows(open, disk, f)
    BY SeenSame
  <2>2. /\ open[h].st = "rw" /\ open[h].file = f => disk'[f] = open[h].view
        /\ (open[h].st = "rw" => open[h].file # f) => disk'[f] = disk[f]
    BY <1>1, CommitsShow
  <2>3. CASE open[h].st = "rw" /\ open[h].file = f
    <3>1. Shows(open, disk, open[h].file) = open[h].view
      BY <1>2, <2>3, ShowsWriter
    <3>2. \A k \in Handle : open'[k].st = "rw" => open'[k].file # f
      BY <1>2, <1>3, <2>3 DEF Alone
    <3>3. Shows(open', disk', f) = disk'[f]
      BY <3>2, ShowsFlash
    <3> QED
      BY <2>2, <2>3, <3>1, <3>3
  <2>4. CASE open[h].st = "rw" => open[h].file # f
    <3>1. \A k \in Handle : open[k].st = "rw" /\ open[k].file = f =>
            open'[k].st = "rw" /\ open'[k].file = f /\ open'[k].view = open[k].view
      <4>1. \A k \in Handle : open[k].st = "rw" /\ open[k].file = f => open'[k] = open[k]
        BY <1>3, <2>4
      <4> QED
        BY <4>1
    <3>2. ASSUME \A k \in Handle : open[k].st = "rw" => open[k].file # f
          PROVE  disk'[f] = disk[f] /\ \A k \in Handle : open'[k].st = "rw" => open'[k].file # f
      BY <1>2, <1>3, <2>2, <2>4, <3>2
    <3>3. Alone(open) /\ Alone(open')
      BY <1>2
    <3> QED
      BY <3>1, <3>2, <3>3, ShowsSame
  <2> QED
    BY <2>3, <2>4
<1>5. opened' = [opened EXCEPT ![h] = Store!Free]
  BY <1>2, <1>3 DEF opened, Store!Free
<1>6. opened[h].st # "closed" /\ Store!Answered("close", <<h>>, Store!OK, <<>>)
  BY <1>1, <1>2, OpenedIs, AnswersAgree
<1> QED
  BY <1>1, <1>4, <1>5, <1>6 DEF Store!Close

\* A hole filled byte by byte before the data is a write past the end.
LEMMA FilledIsOverwrite ==
  ASSUME NEW s \in Seq(Data), NEW p \in Nat, NEW d \in Seq(Data), Len(d) > 0
  PROVE  LET start == Store!Smaller(p, Len(s))
             bytes == [i \in 1..(p - start) |-> 0] \o d IN
         Store!Overwrite(s, start, SubSeq(bytes, 1, Len(bytes))) = Store!Overwrite(s, p, d)
<1> DEFINE start == Store!Smaller(p, Len(s))
           hole == p - start
           zeros == [i \in 1..hole |-> 0]
           bytes == zeros \o d
<1>1. /\ Len(s) \in Nat /\ Len(d) \in Nat
      /\ start \in Nat /\ hole \in Nat /\ start + hole = p /\ (hole > 0 => start = Len(s))
      /\ start <= Len(s)
  BY DEF Store!Smaller
<1> HIDE DEF start, hole
<1>2. zeros \in Seq(Data) /\ Len(zeros) = hole /\ \A i \in 1..hole : zeros[i] = 0
  <2>1. 0 \in Data
    BY FileAssumption DEF FileAssumption
  <2> QED
    BY <1>1, <2>1
<1> HIDE DEF zeros
<1>3. bytes \in Seq(Data) /\ Len(bytes) = hole + Len(d)
  BY <1>1, <1>2
<1>4. \A i \in 1..(hole + Len(d)) : bytes[i] = IF i <= hole THEN 0 ELSE d[i - hole]
  BY <1>1, <1>2
<1> HIDE DEF bytes
<1>5. SubSeq(bytes, 1, Len(bytes)) = bytes
  BY <1>3, SubSeqFull
<1>6. Store!Larger(Len(s), start + Len(bytes)) = Store!Larger(Len(s), p + Len(d))
  <2>1. start + Len(bytes) = p + Len(d)
    BY <1>1, <1>3
  <2> QED
    BY <2>1
<1>7. Store!Larger(Len(s), p + Len(d)) \in Nat
  BY <1>1 DEF Store!Larger
<1>8. ASSUME NEW i \in 1..Store!Larger(Len(s), p + Len(d))
      PROVE  (IF i \in (start + 1)..(start + Len(bytes)) THEN bytes[i - start]
              ELSE IF i <= Len(s) THEN s[i] ELSE 0)
             = (IF i \in (p + 1)..(p + Len(d)) THEN d[i - p]
                ELSE IF i <= Len(s) THEN s[i] ELSE 0)
  <2>1. i \in Nat /\ i > 0
    BY <1>7
  <2>2. CASE i > p
    <3>1. i - start > hole /\ (i <= p + Len(d) <=> i <= start + Len(bytes))
          /\ i - start - hole = i - p /\ i - start \in Nat
      BY <1>1, <1>3, <2>1, <2>2
    <3>2. i <= p + Len(d) => bytes[i - start] = d[i - p]
      BY <1>1, <1>3, <1>4, <2>1, <2>2, <3>1
    <3> QED
      BY <1>1, <1>3, <2>1, <2>2, <3>1, <3>2
  <2>3. CASE i <= p /\ i > start
    <3>1. i - start \in 1..hole /\ i > Len(s) /\ i <= start + Len(bytes)
      BY <1>1, <1>3, <2>1, <2>3
    <3>2. bytes[i - start] = 0
      BY <1>1, <1>3, <1>4, <3>1
    <3> QED
      BY <1>1, <1>3, <2>1, <2>3, <3>1, <3>2
  <2>4. CASE i <= start
    BY <1>1, <1>3, <2>1, <2>4
  <2> QED
    BY <1>1, <2>1, <2>2, <2>3, <2>4
<1>9. Store!Overwrite(s, start, bytes) = Store!Overwrite(s, p, d)
  BY <1>6, <1>8 DEF Store!Overwrite
<1> QED
  BY <1>5, <1>9 DEF bytes, zeros, hole, start

\* A WRITE changes the file the handle is open on, where it stands.
LEMMA WriteIsWrite ==
  ASSUME OnlyOpensFail, Plain, Plain', NEW h \in Handle, NEW d \in Chunk, WriteFile(h, d)
  PROVE  Store!Write(h, d)
<1> DEFINE start == Store!Smaller(open[h].pos, Len(open[h].view))
           bytes == [i \in 1..(open[h].pos - start) |-> 0] \o d
           after == Store!Overwrite(open[h].view, start, SubSeq(bytes, 1, Len(bytes)))
           written == Store!Overwrite(open[h].view, open[h].pos, d)
<1>1. /\ h \in used /\ open[h].st = "rw" /\ UNCHANGED <<fs_mounted, used, dir, disk, formatted>>
      /\ Answer("write", <<h>>, OK, <<>>)
      /\ Update(h, open[h].pos + Len(d), after, TRUE, FALSE)
  BY DEF WriteFile, OnlyOpensFail, UsesHandle, flashVars
<1>2. /\ open[h].view \in Seq(Data) /\ open[h].pos \in Nat /\ d \in Seq(Data) /\ Len(d) > 0
      /\ open[h].file \in File /\ Table /\ Alone(open) /\ Alone(open')
  <2>1. d \in Seq(Data) /\ d # <<>>
    BY FileAssumption DEF FileAssumption
  <2>2. Len(d) > 0
    BY <2>1
  <2>3. Table /\ Alone(open) /\ Alone(open')
    BY WritersAlone, WritersAloneNext DEF Plain, Views
  <2>4. open[h].view \in Seq(Data) /\ open[h].pos \in Nat /\ open[h].file \in File
    BY <2>3 DEF Table, StateOK, Object
  <2> QED
    BY <2>1, <2>2, <2>3, <2>4
<1>3. after = written
  BY <1>2, FilledIsOverwrite
<1> HIDE DEF after, written
<1>4. /\ open'[h].st = open[h].st /\ open'[h].file = open[h].file /\ open'[h].view = written
      /\ \A k \in Handle \ {h} : open'[k] = open[k]
  <2>1. \E x, e : Update(h, open[h].pos + Len(d), written, x, e)
    BY <1>1, <1>3
  <2> QED
    BY <1>2, <2>1, UpdateAll
<1>5. seen[open[h].file] = open[h].view
  BY <1>1, HandleShows DEF Plain
<1>6. Shows(open', disk', open[h].file) = written
  BY <1>1, <1>2, <1>4, ShowsWriter
<1>7. ASSUME NEW f \in File \ {open[h].file} PROVE Shows(open', disk', f) = Shows(open, disk, f)
  <2>1. \A k \in Handle : open[k].st = "rw" /\ open[k].file = f => open'[k] = open[k]
    BY <1>4
  <2>2. \A k \in Handle : open[k].st = "rw" /\ open[k].file = f =>
          open'[k].st = "rw" /\ open'[k].file = f /\ open'[k].view = open[k].view
    BY <2>1
  <2>3. ASSUME \A k \in Handle : open[k].st = "rw" => open[k].file # f
        PROVE  disk'[f] = disk[f] /\ \A k \in Handle : open'[k].st = "rw" => open'[k].file # f
    BY <1>1, <1>4, <2>3
  <2> QED
    BY <1>2, <2>2, <2>3, ShowsSame
<1>8. seen' = [seen EXCEPT ![open[h].file] = written]
  BY <1>2, <1>6, <1>7, SeenShows
<1>9. seen' = [seen EXCEPT ![opened[h].file] = Store!Overwrite(@, opened[h].pos, d)]
  BY <1>2, <1>5, <1>8, OpenedIs DEF written
<1>10. Store!MoveTo(h, opened[h].pos + Len(d))
  <2>1. opened[h].pos = open[h].pos
    BY OpenedIs
  <2> QED
    BY <1>1, <1>2, <2>1, UpdateMoves
<1>11. opened[h].st = "rw" /\ Store!Answered("write", <<h>>, Store!OK, <<>>)
  BY <1>1, OpenedIs, AnswersAgree
<1> QED
  BY <1>1, <1>9, <1>10, <1>11 DEF Store!Write

\* What a change of the flash alone does to what the programs see: a file no
\* handle writes shows it, and one that is not changed shows the same.
LEMMA FlashShows ==
  ASSUME UNCHANGED open
  PROVE  /\ opened' = opened
         /\ \A p \in Path : Unwritten(p) => /\ seen[Entry[p]] = disk[Entry[p]]
                                            /\ seen'[Entry[p]] = disk'[Entry[p]]
         /\ \A f \in File : disk'[f] = disk[f] => seen'[f] = seen[f]
         /\ seen = [f \in File |-> seen[f]] /\ seen' = [f \in File |-> seen'[f]]
<1>1. ASSUME NEW p \in Path, Unwritten(p)
      PROVE  seen[Entry[p]] = disk[Entry[p]] /\ seen'[Entry[p]] = disk'[Entry[p]]
  <2>1. Entry[p] \in File
    BY EntryType
  <2>2. \A h \in Handle : open[h].st = "rw" => open[h].file # Entry[p]
    BY <1>1 DEF Unwritten
  <2>3. Shows(open, disk, Entry[p]) = disk[Entry[p]] /\ Shows(open', disk', Entry[p]) = disk'[Entry[p]]
    BY <2>2, ShowsFlash
  <2> QED
    BY <2>1, <2>3, SeenShows
<1>2. ASSUME NEW f \in File, disk'[f] = disk[f] PROVE seen'[f] = seen[f]
  <2>1. Shows(open', disk', f) = Shows(open, disk, f)
    BY <1>2 DEF Shows
  <2> QED
    BY <2>1, SeenShows
<1>3. opened' = opened
  BY DEF opened
<1>4. seen = [f \in File |-> seen[f]] /\ seen' = [f \in File |-> seen'[f]]
  BY SeenShows
<1> QED
  BY <1>1, <1>2, <1>3, <1>4

LEMMA StatIsStat ==
  ASSUME NEW p \in Path, StatFile(p)
  PROVE  Store!Refused \/ Store!Stat(p)
<1>1. CASE Entry[p] \in dir /\ Answer("stat", <<p>>, OK, <<Len(disk[Entry[p]])>>)
  <2>1. /\ fs_mounted /\ Answer("stat", <<p>>, OK, <<Len(seen[Entry[p]])>>)
        /\ UNCHANGED <<open, disk, dir, fs_mounted>>
    BY <1>1, PathShows DEF StatFile, UsesPath, tableVars, flashVars
  <2>2. Store!Answered("stat", <<p>>, Store!OK, <<Len(seen[Entry[p]])>>)
    BY <2>1, AnswersAgree
  <2> QED
    BY <1>1, <2>1, <2>2, ShowsStill DEF Store!Stat
<1>2. ASSUME NEW st \in {ERR, NO_FILE}, Answer("stat", <<p>>, st, <<>>) PROVE Store!Refused
  <2>1. Refuse("stat", <<p>>, st)
    BY <1>2 DEF StatFile, Refuse
  <2> QED
    BY <2>1, RefuseIsRefused
<1> QED
  BY <1>1, <1>2 DEF StatFile

LEMMA TouchIsTouch ==
  ASSUME NEW p \in Path, TouchFile(p)
  PROVE  Store!Refused \/ Store!Touch(p)
<1>0. fs_mounted
  BY DEF TouchFile, UsesPath
<1>1. CASE CreateFails("touch", p)
  BY <1>0, <1>1, CreateFailsIsRefused
<1>2. CASE ~CreateFails("touch", p)
  <2>1. /\ dir' = dir \cup {Entry[p]} /\ Answer("touch", <<p>>, OK, <<>>)
        /\ UNCHANGED <<open, disk, fs_mounted>>
    BY <1>2 DEF TouchFile, tableVars
  <2>2. Store!Answered("touch", <<p>>, Store!OK, <<>>)
    BY <2>1, AnswersAgree
  <2> QED
    BY <1>0, <2>1, <2>2, ShowsStill DEF Store!Touch
<1> QED
  BY <1>1, <1>2

LEMMA AppendIsAppend ==
  ASSUME OnlyOpensFail, Plain, NEW p \in Path, NEW d \in Chunk, AppendFile(p, d)
  PROVE  Store!Refused \/ Store!AppendTo(p, d)
<1>0. fs_mounted /\ Unopened(p) /\ Entry[p] \in File /\ disk \in [File -> Seq(Data)]
  BY EntryType DEF AppendFile, UsesPath, Plain, Views, Table, StateOK
<1>1. CASE CreateFails("append", p)
  BY <1>0, <1>1, CreateFailsIsRefused
<1>2. CASE ~CreateFails("append", p)
  <2>1. /\ dir' = dir \cup {Entry[p]} /\ Answer("append", <<p>>, OK, <<>>)
        /\ UNCHANGED <<open, fs_mounted>>
        /\ disk' = [disk EXCEPT ![Entry[p]] = @ \o d]
    BY <1>2 DEF AppendFile, OnlyOpensFail, tableVars
  <2>2. /\ disk'[Entry[p]] = disk[Entry[p]] \o d
        /\ \A f \in File : f # Entry[p] => disk'[f] = disk[f]
    BY <1>0, <2>1
  <2>3. opened' = opened /\ seen' = [seen EXCEPT ![Entry[p]] = @ \o d]
    <3>1. seen[Entry[p]] = disk[Entry[p]] /\ seen'[Entry[p]] = disk'[Entry[p]]
      BY <1>0, <2>1, FlashShows, GuardsAgree
    <3>2. \A f \in File : f # Entry[p] => seen'[f] = seen[f]
      BY <2>1, <2>2, FlashShows
    <3>3. seen = [f \in File |-> seen[f]] /\ seen' = [f \in File |-> seen'[f]] /\ opened' = opened
      BY <2>1, FlashShows
    <3> QED
      BY <2>2, <3>1, <3>2, <3>3
  <2>4. Store!Answered("append", <<p>>, Store!OK, <<>>)
    BY <2>1, AnswersAgree
  <2> QED
    BY <1>0, <2>1, <2>3, <2>4, GuardsAgree DEF Store!AppendTo
<1> QED
  BY <1>1, <1>2

LEMMA RemoveIsRemove ==
  ASSUME Plain, NEW p \in Path, RemoveFile(p)
  PROVE  Store!Refused \/ Store!Remove(p)
<1>0. fs_mounted /\ Unopened(p) /\ Entry[p] \in File /\ disk \in [File -> Seq(Data)]
  BY EntryType DEF RemoveFile, UsesPath, Plain, Views, Table, StateOK
<1>1. CASE \E st \in {ERR, NO_FILE} : Refuse("remove", <<p>>, st)
  BY <1>1, RefuseIsRefused
<1>2. CASE ~\E st \in {ERR, NO_FILE} : Refuse("remove", <<p>>, st)
  <2>1. /\ Entry[p] \in dir /\ dir' = dir \ {Entry[p]} /\ Answer("remove", <<p>>, OK, <<>>)
        /\ UNCHANGED <<open, fs_mounted>>
        /\ disk' = [disk EXCEPT ![Entry[p]] = <<>>]
    BY <1>2 DEF RemoveFile, tableVars
  <2>2. disk'[Entry[p]] = <<>> /\ \A f \in File : f # Entry[p] => disk'[f] = disk[f]
    BY <1>0, <2>1
  <2>3. opened' = opened /\ seen' = [seen EXCEPT ![Entry[p]] = <<>>]
    <3>1. seen'[Entry[p]] = disk'[Entry[p]]
      BY <1>0, <2>1, FlashShows, GuardsAgree
    <3>2. \A f \in File : f # Entry[p] => seen'[f] = seen[f]
      BY <2>1, <2>2, FlashShows
    <3>3. seen = [f \in File |-> seen[f]] /\ seen' = [f \in File |-> seen'[f]] /\ opened' = opened
      BY <2>1, FlashShows
    <3> QED
      BY <2>2, <3>1, <3>2, <3>3
  <2>4. Store!Answered("remove", <<p>>, Store!OK, <<>>)
    BY <2>1, AnswersAgree
  <2> QED
    BY <1>0, <2>1, <2>3, <2>4, GuardsAgree DEF Store!Remove
<1> QED
  BY <1>1, <1>2

\* A RENAME onto the same entry changes nothing.
LEMMA RenameIsRename ==
  ASSUME Plain, NEW p \in Path, NEW q \in Path, RenameFile(p, q)
  PROVE  Store!Refused \/ Store!Rename(p, q)
<1>0. /\ fs_mounted /\ Unopened(p) /\ Unopened(q)
      /\ Entry[p] \in File /\ Entry[q] \in File /\ disk \in [File -> Seq(Data)]
  BY EntryType DEF RenameFile, UsesPath, Plain, Views, Table, StateOK
<1>1. CASE \E st \in {ERR, NO_FILE} : Refuse("rename", <<p, q>>, st)
  BY <1>1, RefuseIsRefused
<1>2. CASE ~\E st \in {ERR, NO_FILE} : Refuse("rename", <<p, q>>, st)
  <2>1. /\ Entry[p] \in dir /\ dir' = (dir \ {Entry[p]}) \cup {Entry[q]}
        /\ Answer("rename", <<p, q>>, OK, <<>>)
        /\ UNCHANGED <<open, fs_mounted>>
        /\ disk' = [f \in File |-> IF f = Entry[q] THEN disk[Entry[p]]
                                   ELSE IF f = Entry[p] THEN <<>> ELSE disk[f]]
    BY <1>2 DEF RenameFile, tableVars
  <2>2. /\ disk'[Entry[q]] = disk[Entry[p]] /\ (Entry[p] # Entry[q] => disk'[Entry[p]] = <<>>)
        /\ \A f \in File : f \notin {Entry[p], Entry[q]} => disk'[f] = disk[f]
    BY <1>0, <2>1
  <2>3. opened' = opened
        /\ IF Entry[p] = Entry[q] THEN UNCHANGED <<dir, seen>>
           ELSE seen' = [seen EXCEPT ![Entry[p]] = <<>>, ![Entry[q]] = seen[Entry[p]]]
    <3>1. /\ seen[Entry[p]] = disk[Entry[p]] /\ seen'[Entry[p]] = disk'[Entry[p]]
          /\ seen'[Entry[q]] = disk'[Entry[q]]
      BY <1>0, <2>1, FlashShows, GuardsAgree
    <3>2. \A f \in File : f \notin {Entry[p], Entry[q]} => seen'[f] = seen[f]
      BY <2>1, <2>2, FlashShows
    <3>3. seen = [f \in File |-> seen[f]] /\ seen' = [f \in File |-> seen'[f]] /\ opened' = opened
      BY <2>1, FlashShows
    <3>4. CASE Entry[p] = Entry[q]
      <4>1. \A f \in File : seen'[f] = seen[f]
        BY <2>2, <3>1, <3>2, <3>4
      <4>2. seen' = seen
        BY <3>3, <4>1
      <4> QED
        BY <2>1, <3>3, <3>4, <4>2
    <3>5. CASE Entry[p] # Entry[q]
      BY <1>0, <2>2, <3>1, <3>2, <3>3, <3>5
    <3> QED
      BY <3>4, <3>5
  <2>4. Store!Answered("rename", <<p, q>>, Store!OK, <<>>)
    BY <2>1, AnswersAgree
  <2> QED
    BY <1>0, <2>1, <2>3, <2>4, GuardsAgree DEF Store!Rename
<1> QED
  BY <1>1, <1>2

\* The probe keeps a file from being copied onto itself.
LEMMA CopyIsCopy ==
  ASSUME OnlyOpensFail, Plain, NEW p \in Path, NEW q \in Path, CopyFile(p, q)
  PROVE  Store!Refused \/ Store!Copy(p, q)
<1>0. /\ fs_mounted /\ Unwritten(p) /\ Unopened(q) /\ Entry[p] # Entry[q] /\ Entry[p] \in dir
      /\ Entry[p] \in File /\ Entry[q] \in File /\ disk \in [File -> Seq(Data)]
      /\ dir' = dir \cup {Entry[q]} /\ UNCHANGED <<open, fs_mounted>>
  BY EntryType DEF CopyFile, Copies, CopyUses, SelfCopy, OnlyOpensFail, UsesPath, tableVars,
                   Plain, Views, Table, StateOK
<1>1. CASE Answer("copy", <<p, q>>, ERR, <<>>) /\ UNCHANGED disk
  <2>1. UNCHANGED <<seen, opened>>
    BY <1>0, <1>1, ShowsStill
  <2>2. reply'.st = ERR /\ reply'.data = <<>>
    BY <1>1 DEF Answer, Store!Answered
  <2>3. \E f \in File : dir' = dir \cup {f}
    BY <1>0
  <2>4. Store!Refused
    BY <1>0, <2>1, <2>2, <2>3 DEF Store!Refused, ERR, Store!ERR
  <2> QED
    BY <2>4
<1>2. CASE /\ disk' = [disk EXCEPT ![Entry[q]] = disk[Entry[p]]]
           /\ Answer("copy", <<p, q>>, OK, <<>>)
  <2>2. disk'[Entry[q]] = disk[Entry[p]] /\ \A f \in File : f # Entry[q] => disk'[f] = disk[f]
    BY <1>0, <1>2
  <2>3. opened' = opened /\ seen' = [seen EXCEPT ![Entry[q]] = seen[Entry[p]]]
    <3>1. seen[Entry[p]] = disk[Entry[p]] /\ seen'[Entry[q]] = disk'[Entry[q]]
      BY <1>0, FlashShows, GuardsAgree
    <3>2. \A f \in File : f # Entry[q] => seen'[f] = seen[f]
      BY <1>0, <2>2, FlashShows
    <3>3. seen = [f \in File |-> seen[f]] /\ seen' = [f \in File |-> seen'[f]] /\ opened' = opened
      BY <1>0, FlashShows
    <3> QED
      BY <2>2, <3>1, <3>2, <3>3
  <2>4. Store!Answered("copy", <<p, q>>, Store!OK, <<>>)
    BY <1>2, AnswersAgree
  <2> QED
    BY <1>0, <2>3, <2>4, GuardsAgree DEF Store!Copy
<1> QED
  BY <1>1, <1>2 DEF CopyFile, Copies, OnlyOpensFail

\* Without handles the programs see the flash.
LEMMA NoneOpen ==
  ASSUME open' = AllClosed, disk' = [f \in File |-> disk'[f]]
  PROVE  Store!AllFree /\ seen' = disk'
<1>1. \A h \in Handle : open'[h] = Closed
  BY DEF AllClosed
<1>2. Closed.st = "closed" /\ Closed.file = Entry[1] /\ Closed.pos = 0
  BY DEF Closed
<1>3. opened' = [h \in Handle |-> Store!Free]
  BY <1>1, <1>2 DEF opened, Store!Free
<1>4. \A f \in File : Shows(open', disk', f) = disk'[f]
  BY <1>1, <1>2, ShowsFlash
<1> QED
  BY <1>3, <1>4, SeenShows DEF Store!AllFree

\* An unmounted file system has no handle open.
LEMMA UnmountedSeen ==
  ASSUME Plain, ~fs_mounted
  PROVE  seen = disk
<1>1. \A h \in Handle : open[h].st = "closed"
  BY DEF Plain, Views, Table, HandleTable
<1>2. \A f \in File : Shows(open, disk, f) = disk[f]
  BY <1>1, ShowsFlash
<1>3. disk = [f \in File |-> disk[f]]
  BY DEF Plain, Views, Table, StateOK
<1> QED
  BY <1>2, <1>3, SeenShows

\* What a mount formats held nothing.
LEMMA MountIsMount ==
  ASSUME OnlyOpensFail, Plain, Mount
  PROVE  Store!Mount
<1>0. Answer("mount", <<>>, OK, <<>>) /\ fs_mounted' = TRUE /\ UNCHANGED <<open, dir, disk>>
  <2>1. CASE fs_mounted /\ Refuse("mount", <<>>, OK)
    BY <2>1 DEF Refuse, tableVars, flashVars
  <2>2. CASE /\ TRUE \in MountResults(formatted) /\ fs_mounted' = TRUE
             /\ Answer("mount", <<>>, OK, <<>>) /\ UNCHANGED flashVars /\ UNCHANGED open
    BY <2>2 DEF flashVars
  <2>3. CASE FALSE \in MountResults(formatted) /\ FormatAndMount("mount") /\ UNCHANGED open
    <3>1. ~formatted /\ MountResults(TRUE) = {TRUE}
      BY <2>3 DEF MountResults, OnlyOpensFail
    <3>2. dir = {} /\ disk = [f \in File |-> <<>>]
      BY <3>1 DEF Plain, Blank
    <3> QED
      BY <2>3, <3>1, <3>2 DEF FormatAndMount, OnlyOpensFail
  <2> QED
    BY <2>1, <2>2, <2>3 DEF Mount
<1>1. Store!Answered("mount", <<>>, Store!OK, <<>>)
  BY <1>0, AnswersAgree
<1> QED
  BY <1>0, <1>1, ShowsStill DEF Store!Mount

LEMMA FormatIsFormat ==
  ASSUME OnlyOpensFail, Format
  PROVE  Store!Format
<1>1. /\ open' = AllClosed /\ fs_mounted' = TRUE /\ dir' = {} /\ disk' = [f \in File |-> <<>>]
      /\ Answer("format", <<>>, OK, <<>>)
  <2>1. MountResults(TRUE) = {TRUE}
    BY DEF MountResults, OnlyOpensFail
  <2> QED
    BY <2>1 DEF Format, FormatAndMount, OnlyOpensFail
<1>2. Store!AllFree /\ seen' = disk'
  BY <1>1, NoneOpen
<1>3. Store!Answered("format", <<>>, Store!OK, <<>>)
  BY <1>1, AnswersAgree
<1> QED
  BY <1>1, <1>2, <1>3 DEF Store!Format

\* An unmount commits everything, and so does a restart on request.
LEMMA UnmountIsUnmount ==
  ASSUME OnlyOpensFail, Plain, Plain', Unmount
  PROVE  Store!Unmount
<1>1. /\ Answer("unmount", <<>>, OK, <<>>) /\ fs_mounted' = FALSE /\ dir' = dir
      /\ open' = AllClosed /\ disk' = seen
  <2>1. CASE fs_mounted
    <3>1. /\ disk' \in Committed(used) /\ open' = AllClosed /\ fs_mounted' = FALSE /\ dir' = dir
          /\ Answer("unmount", <<>>, OK, <<>>)
      BY <2>1 DEF Unmount
    <3> QED
      BY <3>1, AllCommitted
  <2>2. CASE ~fs_mounted
    <3>1. Answer("unmount", <<>>, OK, <<>>) /\ UNCHANGED <<fs_mounted, open, dir, disk>>
      BY <2>2 DEF Unmount, Refuse, tableVars, flashVars
    <3>2. open \in [Handle -> Object] /\ \A h \in Handle : open[h] = Closed
      BY <2>2 DEF Plain, Views, Table, StateOK, HandleTable, Unmarked
    <3>3. open = AllClosed
      BY <3>2 DEF AllClosed
    <3>4. fs_mounted' = FALSE
      BY <2>2, <3>1 DEF Plain, Views, Table, StateOK
    <3> QED
      BY <2>2, <3>1, <3>3, <3>4, UnmountedSeen
  <2> QED
    BY <2>1, <2>2
<1>2. disk' = [f \in File |-> disk'[f]]
  BY <1>1 DEF seen
<1>3. Store!AllFree /\ seen' = seen
  BY <1>1, <1>2, NoneOpen
<1>4. Store!Answered("unmount", <<>>, Store!OK, <<>>)
  BY <1>1, AnswersAgree
<1> QED
  BY <1>1, <1>3, <1>4 DEF Store!Unmount

LEMMA ResetIsRestart ==
  ASSUME OnlyOpensFail, Plain, Reset
  PROVE  Store!Restart
<1>1. /\ disk' \in (IF fs_mounted THEN Committed(used) ELSE {disk})
      /\ open' = AllClosed /\ fs_mounted' \in MountResults(formatted) /\ dir' = dir
      /\ Answer("reset", <<>>, OK, <<>>)
  BY DEF Reset, Boot
<1>2. disk' = seen
  BY <1>1, AllCommitted, UnmountedSeen
<1>3. fs_mounted' \in BOOLEAN
  BY <1>1 DEF MountResults
<1>4. disk' = [f \in File |-> disk'[f]]
  BY <1>2 DEF seen
<1>5. Store!AllFree /\ seen' = seen
  BY <1>1, <1>2, <1>4, NoneOpen
<1>6. Store!Answered("reset", <<>>, Store!OK, <<>>)
  BY <1>1, AnswersAgree
<1> QED
  BY <1>1, <1>3, <1>5, <1>6 DEF Store!Restart
-----------------------------------------------------------------------------
LEMMA HandleStores ==
  ASSUME OnlyOpensFail, Plain, Plain', NEW h \in Handle, OnHandle(h)
  PROVE  Store!StoreNext
<1>1. \/ Store!Close(h) \/ Store!Tell(h) \/ Store!Sync(h) \/ Store!Refused
      \/ \E n \in Count : Store!Read(h, n) \/ Store!Seek(h, n)
      \/ \E d \in Chunk : Store!Write(h, d)
  BY CloseIsClose, TellIsTell, SyncIsSync, SeekIsSeek, ReadIsRead, WriteIsWrite DEF OnHandle
<1> QED
  BY <1>1 DEF Store!StoreNext

LEMMA PathStores ==
  ASSUME OnlyOpensFail, Plain, Plain', NEW p \in Path, OnPath(p)
  PROVE  Store!StoreNext
<1>1. CASE OpenNone(p) \/ OpenMissing(p)
  <2>1. Store!Refused
    BY <1>1, RefuseIsRefused DEF OpenNone, OpenMissing
  <2> QED
    BY <2>1 DEF Store!StoreNext
<1>2. ASSUME NEW mode \in {"ro", "rw"}, OpenFails(p, mode) PROVE Store!StoreNext
  <2>1. Store!Refused
    BY <1>2, RefuseIsRefused, CreateFailsIsRefused DEF OpenFails, UsesPath
  <2> QED
    BY <2>1 DEF Store!StoreNext
<1>3. ASSUME NEW mode \in {"ro", "rw"}, OpenFile(p, mode) PROVE Store!StoreNext
  <2>1. \E h \in Handle : Store!Open(p, mode, h)
    BY <1>3, OpenIsOpen
  <2> QED
    BY <2>1 DEF Store!StoreNext
<1>4. CASE StatFile(p) \/ TouchFile(p) \/ RemoveFile(p)
  <2>1. Store!Refused \/ Store!Stat(p) \/ Store!Touch(p) \/ Store!Remove(p)
    BY <1>4, StatIsStat, TouchIsTouch, RemoveIsRemove
  <2> QED
    BY <2>1 DEF Store!StoreNext
<1>5. ASSUME NEW d \in Chunk, AppendFile(p, d) PROVE Store!StoreNext
  <2>1. Store!Refused \/ Store!AppendTo(p, d)
    BY <1>5, AppendIsAppend
  <2> QED
    BY <2>1 DEF Store!StoreNext
<1>6. ASSUME NEW q \in Path, RenameFile(p, q) \/ CopyRefused(p, q) \/ CopyFile(p, q)
      PROVE  Store!StoreNext
  <2>1. CopyRefused(p, q) => Store!Refused
    BY RefuseIsRefused DEF CopyRefused
  <2>2. Store!Refused \/ Store!Rename(p, q) \/ Store!Copy(p, q)
    BY <1>6, <2>1, RenameIsRename, CopyIsCopy
  <2> QED
    BY <2>2 DEF Store!StoreNext
<1> QED
  BY <1>1, <1>2, <1>3, <1>4, <1>5, <1>6 DEF OnPath

\* Every step is one of FileStore, or none.
LEMMA StepStores ==
  ASSUME OnlyOpensFail, Plain, Plain', [Next]_vars
  PROVE  [Store!StoreNext]_(Store!storeVars)
<1>1. CASE NotMounted \/ BadHandle
  <2>1. Store!Refused
    BY <1>1, RefuseIsRefused DEF NotMounted, BadHandle
  <2> QED
    BY <2>1 DEF Store!StoreNext
<1>2. CASE Mount \/ Format \/ Unmount \/ Reset
  <2>1. Store!Mount \/ Store!Format \/ Store!Unmount \/ Store!Restart
    BY <1>2, MountIsMount, FormatIsFormat, UnmountIsUnmount, ResetIsRestart
  <2> QED
    BY <2>1 DEF Store!StoreNext
<1>3. CASE UNCHANGED vars
  BY <1>3, ShowsStill DEF vars, tableVars, flashVars, Store!storeVars
<1>4. ~PowerLoss
  BY DEF PowerLoss, OnlyOpensFail
<1> QED
  BY <1>1, <1>2, <1>3, <1>4, HandleStores, PathStores, CommandsOnly DEF Command

LEMMA InitStores == Init => Store!StoreInit
<1> SUFFICES ASSUME Init PROVE Store!StoreInit
  OBVIOUS
<1>1. Plain /\ open = AllClosed /\ reply = [to |-> "boot", args |-> <<>>, st |-> OK, data |-> <<>>]
  BY InitPlain DEF Init
<1>2. dir \subseteq File /\ disk \in [File -> Seq(Data)] /\ fs_mounted \in BOOLEAN
  BY <1>1 DEF Plain, Views, Table, StateOK
<1>3. \A h \in Handle : open[h] = Closed
  BY <1>1 DEF AllClosed
<1>4. Closed.st = "closed" /\ Closed.file = Entry[1] /\ Closed.pos = 0
  BY DEF Closed
<1>5. \A f \in File : Shows(open, disk, f) = disk[f]
  BY <1>3, <1>4, ShowsFlash
<1>6. seen \in [File -> Seq(Data)]
  BY <1>2, <1>5, SeenShows
<1>7. opened = [h \in Handle |-> Store!Free]
  BY <1>3, <1>4 DEF opened, Store!Free
<1> QED
  BY <1>1, <1>2, <1>6, <1>7 DEF Store!StoreInit, OK, Store!OK

\* As long as nothing but an open or a change of a directory fails, the
\* programs see the plain files of FileStore.
THEOREM FilesAreStored ==
  ASSUME OnlyOpensFail
  PROVE  Spec => ImplementsFileStore
<1>1. Plain /\ Plain' /\ [Next]_vars => [Store!StoreNext]_(Store!storeVars)
  BY StepStores
<1>2. Plain /\ [Next]_vars => Plain'
  BY StepPlain
<1> QED
  BY <1>1, <1>2, InitPlain, InitStores, PTL DEF Spec, ImplementsFileStore, Store!StoreSpec
=============================================================================
