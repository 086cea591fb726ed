----------------------------- MODULE MCTreeOps -----------------------------
(***************************************************************************)
(* A root with two directories, one in the other or side by side, and two  *)
(* files below the root; every way to cut a directory into blocks.         *)
(***************************************************************************)
EXTENDS TreeOps

CONSTANTS root, dir1, dir2, file1, file2
MCDirs == {root, dir1, dir2}
MCFiles == {file1, file2}

\* Entries are kept in the order of their names.
Names == <<dir1, dir2, file1, file2>>

\* The ways to cut s into blocks, of which only the first may be empty.
Blocks(s) ==
    LET Cut(at) == LET ends == SetToSortSeq(at \cup {Len(s)}, <) IN
                   [k \in DOMAIN ends |-> SubSeq(s, IF k = 1 THEN 1 ELSE ends[k - 1] + 1, ends[k])] IN
    {Cut(at) : at \in SUBSET (0..Len(s) - 1)}

Parents ==
    {p \in [Range(Names) -> MCDirs] :
        p[dir1] = root /\ p[dir2] \in {root, dir1} /\ p[file1] # root}
In(p, d) == Blocks(SelectSeq(Names, LAMBDA n : p[n] = d))
MCLayouts ==
    UNION {{[d \in MCDirs |-> CASE d = root -> x [] d = dir1 -> y [] d = dir2 -> z] :
              x \in In(p, root), y \in In(p, dir1), z \in In(p, dir2)} : p \in Parents}
=============================================================================
