------------------------------- MODULE Editor -------------------------------
(***************************************************************************)
(* WRITE, the text editor of the 65C02 (commands/write/write.s): a text of *)
(* bytes in one buffer that ends with a NUL, a cursor in it, and the line  *)
(* numbers the screen is drawn from.  It loads its file through a handle   *)
(* and saves with SAVEMEM; a key is one action.                            *)
(*                                                                         *)
(* What is drawn is left out, as are the detection of the screen's size    *)
(* and the spelling of names.  Keys come whole: an arrow key is not torn   *)
(* into its bytes.                                                         *)
(***************************************************************************)
EXTENDS TextTools

CONSTANTS
    EditBuf,    \* 4096: the text buffer
    EditChunk,  \* 250: what a READ asks for
    Wide,       \* 256: line, column and top line are bytes
    Height,     \* the lines of the viewport
    PageLines,  \* 16
    Letters,    \* what is typed, a space included
    Searches,   \* what is looked for
    EditFiles,  \* what the two files may hold
    MaxKeys     \* bound: the keys of a behaviour

EditAssumption ==
    /\ EditBuf \in Nat \ {0} /\ EditChunk \in Nat \ {0} /\ Wide \in Nat \ {0}
    /\ Height \in 2..Wide - 1 /\ PageLines \in Nat \ {0} /\ MaxKeys \in Nat
    /\ {NL, "\r", NUL} \cap Letters = {} /\ " " \in Letters
    /\ HoldTexts(EditFiles) /\ \A w \in Searches : w \in Seq(Range(w))
ASSUME EditAssumption

VARIABLES
    buf, cur,           \* text_buffer_fixed; the cursor, t_str_ptr1
    line, col, top,     \* current_line, current_col, top_line_num
    fname,              \* filename_buf: one of the files, or 0 for none
    left                \* the keys still to come

text == <<buf, cur>>
shown == <<line, col, top>>
editVars == <<text, shown, fname, left>>
Memory == 0..EditBuf - 1

\* The NUL at which the text ends.
TextEnd == CHOOSE e \in Memory : buf[e] = NUL /\ \A i \in 0..e - 1 : buf[i] # NUL
Text == [i \in 1..TextEnd |-> buf[i - 1]]
-----------------------------------------------------------------------------
(***************************************************************************)
(* try_load_file.                                                          *)
(***************************************************************************)
\* OPEN without a mode: a file that is not there is created.  Two bytes of
\* its size are taken, and no more of it than the buffer holds.
LoadOpen ==
    /\ At("write", "wopen") /\ UNCHANGED <<out, editVars>>
    /\ \/ \E h \in {0, 1} :
            /\ Store!Open(fname, "rw", h) /\ UNCHANGED faulty /\ handles' = <<h>>
            /\ LET length == reply'.data[2] % (Wide * Wide) IN
               size' = IF length >= EditBuf THEN EditBuf - 1 ELSE length
            /\ kept' = size' /\ tpc' = IF kept' = 0 THEN "wclose" ELSE "wread"
       \/ Fails("open") /\ tpc' = "edit" /\ UNCHANGED <<handles, size, kept>>

\* kept is bytes_remaining.  After a READ that fails the text is what has come.
LoadRead ==
    /\ At("write", "wread") /\ UNCHANGED <<handles, size, out, cur, shown, fname, left>>
    /\ \/ /\ Reads(handles[1], IF kept < EditChunk THEN kept ELSE EditChunk)
          /\ LET at == size - kept  d == reply'.data IN
             buf' = [i \in Memory |-> IF i - at + 1 \in DOMAIN d THEN d[i - at + 1] ELSE buf[i]]
          /\ kept' = kept - Len(reply'.data) /\ tpc' = IF kept' = 0 THEN "wclose" ELSE "wread"
       \/ Fails("read") /\ tpc' = "wclose" /\ UNCHANGED <<kept, buf>>

LoadClose ==
    /\ At("write", "wclose") /\ Store!Close(handles[1])
    /\ handles' = <<>> /\ tpc' = "edit" /\ UNCHANGED <<size, kept, out, faulty, editVars>>
-----------------------------------------------------------------------------
(***************************************************************************)
(* loop_continue: the line and the column of the cursor are counted anew,  *)
(* and the viewport follows.                                               *)
(***************************************************************************)
\* Mutant of Scrolled: one line too few, the cursor is below the last one.
ScrolledShort(l) ==
    IF l < top THEN l
    ELSE IF l < (top + Height) % Wide THEN top
    ELSE (l - Height) % Wide

\* check_scroll.  The carry that the subtraction leaves is added as well.
Scrolled(l) ==
    IF l < top THEN l
    ELSE IF l < (top + Height) % Wide THEN top
    ELSE (l - Height + (IF l >= Height THEN 2 ELSE 1)) % Wide

LoopContinue ==
    LET ends == {i \in 0..cur' - 1 : buf'[i] = NL} IN
    /\ line' = (1 + Cardinality(ends)) % Wide
    /\ col' = (IF ends = {} THEN 1 + cur' ELSE cur' - Max(ends)) % Wide
    /\ top' = Scrolled(line')

\* A key that is no plain letter, and what it does to the text and the cursor.
Pressed == At("write", "edit") /\ left > 0 /\ left' = left - 1
Key(b, c) ==
    /\ Pressed /\ buf' = b /\ cur' = c /\ LoopContinue
    /\ UNCHANGED <<fileVars, tpc, handles, size, kept, out, faulty, fname>>
MovesTo(c) == Key(buf, c)
-----------------------------------------------------------------------------
(***************************************************************************)
(* Keys that change the text.                                              *)
(***************************************************************************)
\* insert_char_mem does not look for the end of the buffer: typing into a full
\* one goes on behind it, and is left out.
Room == TextEnd < EditBuf - 1

\* Mutant of Inserted: the bytes are moved from the front.
InsertedForwards(c) ==
    LET moved == cur + 1..TextEnd IN
    [i \in Memory |-> IF i = cur THEN c ELSE IF i \in moved THEN buf[cur] ELSE buf[i]]

\* insert_char_mem moves the text behind the cursor up by one, over its NUL:
\* what follows is the byte that lies there.
Inserted(c) ==
    LET moved == cur + 1..TextEnd IN
    [i \in Memory |-> IF i = cur THEN c ELSE IF i \in moved THEN buf[i - 1] ELSE buf[i]]

\* shift_buffer_left, up to the NUL.
Removed(p) ==
    LET moved == p..TextEnd - 1 IN [i \in Memory |-> IF i \in moved THEN buf[i + 1] ELSE buf[i]]

\* A letter: line and column are not counted anew.
Type(c) ==
    /\ Pressed /\ Room /\ buf' = Inserted(c) /\ cur' = cur + 1 /\ col' = (col + 1) % Wide
    /\ UNCHANGED <<fileVars, tpc, handles, size, kept, out, faulty, fname, line, top>>

Enter == Room /\ Key(Inserted(NL), cur + 1)
Tab == Room /\ Key(Inserted(" "), cur + 1)
Backspace == IF cur = 0 THEN MovesTo(cur) ELSE Key(Removed(cur - 1), cur - 1)
Delete == Key(Removed(cur), cur)
-----------------------------------------------------------------------------
(***************************************************************************)
(* Keys that move the cursor.  A carriage return ends a line for them.     *)
(***************************************************************************)
\* move_to_bol and move_to_eol, from position p
BolOf(p) == Max({0} \cup {i + 1 : i \in {j \in 0..p - 1 : buf[j] \in {NL, "\r"}}})
EolOf(p) == Min({i \in p..TextEnd : buf[i] \in {NL, "\r", NUL}})

\* apply_column
Along(p, column) == IF p + column < EolOf(p) THEN p + column ELSE EolOf(p)

\* The start of the line behind the one that ends at e.
Behind(e) ==
    CASE buf[e] = NUL -> e
      [] buf[e] = "\r" /\ buf[e + 1] = NL -> e + 2
      [] OTHER -> e + 1

Left == MovesTo(IF cur = 0 THEN 0 ELSE cur - 1)
Right == MovesTo(IF buf[cur] = NUL THEN cur ELSE cur + 1)
Home == MovesTo(BolOf(cur))
ToEnd == MovesTo(EolOf(cur))

\* From the first line the cursor goes to its start, from the last to its end.
Up == LET bol == BolOf(cur) IN
      MovesTo(IF bol = 0 THEN 0 ELSE Along(BolOf(bol - 1), cur - bol))
Down == LET e == EolOf(cur) IN
        MovesTo(IF buf[e] = NUL \/ (buf[e] = "\r" /\ buf[e + 1] # NL) THEN Behind(e)
                ELSE Along(Behind(e), cur - BolOf(cur)))

PageUp ==
    LET after[n \in 0..PageLines] ==
            IF n = 0 THEN BolOf(cur)
            ELSE IF after[n - 1] = 0 THEN 0 ELSE BolOf(after[n - 1] - 1) IN
    MovesTo(after[PageLines])
PageDown ==
    LET after[n \in 0..PageLines] == IF n = 0 THEN cur ELSE Behind(EolOf(after[n - 1])) IN
    MovesTo(after[PageLines])

\* handle_find: from the cursor on, then from the start.
Matching(w) ==
    LET end == TextEnd IN
    {i \in 0..end - 1 : \A k \in DOMAIN w : i + k <= end /\ buf[i + k - 1] = w[k]}
Find(w) ==
    LET m == Matching(w)  ahead == {i \in m : i >= cur} IN
    MovesTo(IF ahead # {} THEN Min(ahead) ELSE IF m # {} THEN Min(m) ELSE cur)
-----------------------------------------------------------------------------
(***************************************************************************)
(* Saving and leaving.                                                     *)
(***************************************************************************)
\* perform_save.  SAVEMEM refuses a text of no bytes, and the name 0, which is
\* a directory; when it fails the file has what it had, and may be new.
Saves(n) ==
    \/ /\ n # 0 /\ Text # <<>> /\ Store!Answered("savemem", <<n>>, Store!OK, <<>>) /\ UNCHANGED <<fds, up, faulty>>
       /\ names' = names \cup {n} /\ store' = [store EXCEPT ![n] = Text]
    \/ (n = 0 \/ Text = <<>>) /\ Refuses(Store!ERR) /\ UNCHANGED faulty
    \/ /\ n # 0 /\ "save" \in ToolFaults /\ faulty' = TRUE /\ Store!Answered("savemem", <<n>>, Store!ERR, <<>>)
       /\ names' \in {names, names \cup {n}} /\ UNCHANGED <<store, fds, up>>

\* handle_save_as
SaveAs(n) ==
    /\ Pressed /\ Saves(n) /\ fname' = n /\ UNCHANGED text /\ LoopContinue
    /\ UNCHANGED <<tpc, handles, size, kept, out>>

\* ESC leaves what was typed in filename_buf: another name, it may be.
SaveAsLeft(n) ==
    /\ Pressed /\ fname' = n /\ UNCHANGED text /\ LoopContinue
    /\ UNCHANGED <<fileVars, tpc, handles, size, kept, out, faulty>>

\* exit_check.  The editor ends, whether it has saved or not.
Exit(n) ==
    /\ Pressed /\ tpc' = "done"
    /\ n \in (IF fname = 0 THEN {0, 1, 2} ELSE {0, fname})
    /\ IF n = 0 THEN UNCHANGED <<fileVars, faulty, fname>> ELSE Saves(n) /\ fname' = n
    /\ UNCHANGED <<handles, size, kept, out, text, shown>>
-----------------------------------------------------------------------------
EditInit ==
    /\ tool = "write" /\ out = <<>> /\ handles = <<>> /\ size = 0 /\ faulty = FALSE
    /\ arg = <<>> /\ kept = 0
    /\ store \in EditFiles /\ names \in {{1, 2}, {2}} /\ (1 \notin names => store[1] = <<>>)
    /\ fds = [h \in {0, 1} |-> Store!Free] /\ up = TRUE
    /\ reply = [to |-> "mount", args |-> <<>>, st |-> Store!OK, data |-> <<>>]
    /\ fname \in {0, 1} /\ tpc = IF fname = 0 THEN "edit" ELSE "wopen"
    /\ buf = [i \in Memory |-> NUL] /\ cur = 0 /\ line = 1 /\ col = 1 /\ top = 1
    /\ left = MaxKeys

EditNext ==
    \/ LoadOpen \/ LoadRead \/ LoadClose
    \/ (\E c \in Letters : Type(c)) \/ Enter \/ Tab \/ Backspace \/ Delete
    \/ Left \/ Right \/ Up \/ Down \/ Home \/ ToEnd \/ PageUp \/ PageDown
    \/ \E w \in Searches : Find(w)
    \/ \E n \in {0, 1, 2} : SaveAs(n) \/ SaveAsLeft(n) \/ Exit(n)

EditSpec == EditInit /\ [][EditNext]_<<toolVars, editVars>>
-----------------------------------------------------------------------------
(***************************************************************************)
(* Properties: what the keys do, said of a text of lines.                  *)
(***************************************************************************)
\* The positions at which the lines of text t start, the line of position p,
\* and where line r starts and ends.
Starts(t) == {p \in 0..Len(t) : p = 0 \/ t[p] = NL}
Row(t, p) == Cardinality({q \in Starts(t) : q <= p})
Start(t, r) == CHOOSE p \in Starts(t) : Row(t, p) = r
Stop(t, r) == IF r = Row(t, Len(t)) THEN Len(t) ELSE Start(t, r + 1) - 1
Place(t, r, column) == Min({Start(t, r) + column, Stop(t, r)})

Before(p) == SubSeq(Text, 1, p)
After(p) == SubSeq(Text, p + 1, Len(Text))
Becomes(t, p) == Text' = t /\ cur' = p
GoesTo(p) == Becomes(Text, p)

\* The first place of w behind position p, cyclically.
NextAt(w, p) ==
    LET at == {i \in 0..Len(Text) - 1 : IsPrefix(w, After(i))}
        distance == {(i - p + Len(Text) + 1) % (Len(Text) + 1) : i \in at} IN
    IF at = {} THEN p ELSE (p + Min(distance)) % (Len(Text) + 1)

TextKeysRight ==
    /\ \A c \in Letters : Type(c) => Becomes(Before(cur) \o <<c>> \o After(cur), cur + 1)
    /\ Enter => Becomes(Before(cur) \o <<NL>> \o After(cur), cur + 1)
    /\ Tab => Becomes(Before(cur) \o <<" ">> \o After(cur), cur + 1)
    /\ Backspace => IF cur = 0 THEN GoesTo(0) ELSE Becomes(Before(cur - 1) \o After(cur), cur - 1)
    /\ Delete => Becomes(Before(cur) \o After(cur + 1), cur)

CursorKeysRight ==
    LET r == Row(Text, cur)  last == Row(Text, Len(Text))  column == cur - Start(Text, r) IN
    /\ Left => GoesTo(IF cur = 0 THEN 0 ELSE cur - 1)
    /\ Right => GoesTo(IF cur = Len(Text) THEN cur ELSE cur + 1)
    /\ Home => GoesTo(Start(Text, r))
    /\ ToEnd => GoesTo(Stop(Text, r))
    /\ Up => GoesTo(IF r = 1 THEN 0 ELSE Place(Text, r - 1, column))
    /\ Down => GoesTo(IF r = last THEN Len(Text) ELSE Place(Text, r + 1, column))
    /\ PageUp => GoesTo(Start(Text, Max({1, r - PageLines})))
    /\ PageDown => GoesTo(IF r + PageLines > last THEN Len(Text) ELSE Start(Text, r + PageLines))
    /\ \A w \in Searches : Find(w) => GoesTo(NextAt(w, cur))

\* A text whose lines end with LF, and nothing but NULs behind it.
Clean == (\A i \in TextEnd..EditBuf - 1 : buf[i] = NUL) /\ (\A i \in Memory : buf[i] # "\r")

\* The text is what was in the file, or its first bytes, and what is saved is
\* the text; nothing else is written, and nothing at all without OK.
FilesRight ==
    /\ LoadClose /\ ~faulty /\ Len(store[fname]) < Wide * Wide /\ NUL \notin Range(store[fname]) =>
          /\ Text' = Store!Slice(store[fname], 0, EditBuf - 1)
          /\ "\r" \notin Range(store[fname]) => Clean'
    /\ store' # store => reply'.st = Store!OK
    /\ \A n \in {1, 2} : (SaveAs(n) \/ (Exit(n) /\ n # 0)) =>
          store' = IF reply'.st = Store!OK THEN [store EXCEPT ![n] = Text] ELSE store

\* Every key does to the text what its name says, through shifts of the buffer
\* and searches for line ends in it, and leaves nothing but NULs behind the
\* text, on which the next insertion relies.  So for texts whose lines end
\* with LF, without a NUL; files come and go as they are.
EditsAreRight ==
    [][FilesRight /\ (Clean /\ tpc = "edit" => TextKeysRight /\ CursorKeysRight /\ Clean')
      ]_<<toolVars, editVars>>

\* The cursor is on the screen, at the line and the column that are shown:
\* counted from the whole text after most keys, counted on after a letter.
\* Up to a line number that fits its byte, on a screen of half as many lines
\* at most.
CursorInView ==
    LET starts == {p \in 0..Len(Text) : p <= cur /\ (p = 0 \/ Text[p] = NL)}
        r == Cardinality(starts) IN
    tool = "write" /\ r < Wide =>
        /\ line = r /\ col = (cur - Max(starts) + 1) % Wide
        /\ 2 * Height <= Wide => r \in top..top + Height - 1
=============================================================================
