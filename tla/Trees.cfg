SPECIFICATION FairSpec
CONSTANTS
    root = root
    dir1 = dir1
    dir2 = dir2
    file1 = file1
    file2 = file2
    Root = root
    Dirs <- MCDirs
    Files <- MCFiles
    Layouts <- MCLayouts
    Ops = {"remove", "contents", "tree", "mkdir"}
    Faults = {"open", "read", "unlink", "malloc", "mkdir"}
INVARIANTS TypeOK OthersStay NothingOrphaned WalkIsTrue CursorsHold MlistBalanced
PROPERTIES CommandEnds
