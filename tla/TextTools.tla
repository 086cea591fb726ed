------------------------------ MODULE TextTools ------------------------------
(***************************************************************************)
(* The programs of the 65C02 that read text files: HEAD, TAIL, WC, GREP    *)
(* and DIFF.  Each opens its file, asks for chunks that fit its buffer,    *)
(* works through them byte by byte with what it keeps from one chunk to    *)
(* the next, and closes the file.  They are clients of FileStore: a        *)
(* command of theirs is an action of it.                                   *)
(*                                                                         *)
(* How paths are put together and numbers are printed is left out.  The    *)
(* buffers are as short as the cases allow.                                *)
(***************************************************************************)
EXTENDS Integers, Sequences, FiniteSets, SequencesExt

CONSTANTS
    Tools,      \* the programs that are run
    ToolFiles,  \* ToolFiles[t]: what the two files may hold, TRUE for the first being there
    Patterns,   \* what GREP may be asked for
    Stale,      \* what GREP may find in its line buffer
    Lines,      \* 10: what HEAD and TAIL show
    HeadChunk, ReadChunk, Window,  \* 64; 128 for WC, GREP and DIFF; 512 for TAIL
    LineBuf,    \* 128: GREP's line with its terminator
    ToolFaults  \* the commands that may fail: "open", "seek", "read"; "save" in Editor

NL == "\n"
NUL == "nul"
Spaces == {" ", "\t", "\r", NL}

\* What two files may hold: texts of any bytes.
HoldTexts(files) == \A s \in files : DOMAIN s = {1, 2} /\ \A f \in {1, 2} : s[f] \in Seq(Range(s[f]))

AllTools == {"head", "tail", "wc", "grep", "diff"}
ToolAssumption ==
    /\ Tools \subseteq AllTools /\ ToolFaults \subseteq {"open", "seek", "read", "save"}
    /\ Lines \in Nat \ {0} /\ LineBuf \in Nat \ {0}
    /\ HeadChunk \in Nat \ {0} /\ ReadChunk \in Nat \ {0} /\ Window \in Nat \ {0}
    /\ \A s \in Stale : s \in Seq(Range(s)) /\ Len(s) = LineBuf
    /\ \A p \in Patterns : p \in Seq(Range(p)) /\ p # <<>> /\ NUL \notin Range(p)
    /\ \A t \in Tools : HoldTexts(ToolFiles[t])
ASSUME ToolAssumption

VARIABLES
    names, store, fds, up, reply,  \* the files: FileStore
    tool, tpc,
    arg,        \* the files named: 1, or 1 and another
    handles,    \* their handles, as far as they are open
    size,       \* TAIL: the size OPEN has given
    kept,       \* what the program keeps between chunks
    out,        \* what it has printed
    faulty      \* a command has failed

fileVars == <<names, store, fds, up, reply>>
toolVars == <<fileVars, tool, tpc, arg, handles, size, kept, out, faulty>>

Store == INSTANCE FileStore
         WITH Path <- {1, 2}, File <- {1, 2}, Entry <- <<1, 2>>, Handle <- {0, 1},
              Data <- {}, Chunk <- {}, Count <- {}
-----------------------------------------------------------------------------
(***************************************************************************)
(* The commands.                                                           *)
(***************************************************************************)
\* READ, which gives all that was asked for when the file has it.
Reads(h, n) ==
    /\ Store!Read(h, n) /\ UNCHANGED faulty
    /\ reply'.data = Store!Slice(store[fds[h].file], fds[h].pos, n)

\* A command that is refused changes nothing.
Refuses(st) == Store!Answered(tool, <<>>, st, <<>>) /\ UNCHANGED names /\ Store!Refused
Fails(f) == f \in ToolFaults /\ Refuses(Store!ERR) /\ faulty' = TRUE
Missing == arg[1] \notin names /\ Refuses(Store!NO_FILE) /\ UNCHANGED faulty

At(t, p) == tool = t /\ tpc = p /\ UNCHANGED <<tool, arg>>

AfterOpen == [head |-> "read", tail |-> "seek", wc |-> "read", grep |-> "read", diff |-> "open2"]
Open ==
    /\ At(tool, "open") /\ UNCHANGED <<kept, out>>
    /\ \/ \E h \in {0, 1} :
            /\ Store!Open(arg[1], "ro", h) /\ UNCHANGED faulty
            /\ handles' = <<h>> /\ size' = reply'.data[2] /\ tpc' = AfterOpen[tool]
       \/ (Missing \/ Fails("open")) /\ tpc' = "done" /\ UNCHANGED <<handles, size>>

\* Mutant of OpenSecond: the first file stays open when the second fails.
OpenSecondLeaks ==
    /\ At("diff", "open2") /\ Fails("open") /\ tpc' = "done"
    /\ UNCHANGED <<handles, size, kept, out>>

\* DIFF closes its first file when the second one cannot be opened.
OpenSecond ==
    /\ At("diff", "open2") /\ UNCHANGED <<size, kept, out>>
    /\ \/ \E h \in {0, 1} :
            /\ Store!Open(arg[2], "ro", h) /\ UNCHANGED faulty
            /\ handles' = Append(handles, h) /\ tpc' = "read"
       \/ Fails("open") /\ tpc' = "close" /\ UNCHANGED handles

\* WC prints what it has counted when its file is closed.
Close ==
    /\ At(tool, "close") /\ Store!Close(Head(handles))
    /\ handles' = Tail(handles) /\ tpc' = IF handles' = <<>> THEN "done" ELSE "close"
    /\ out' = IF tool = "wc" THEN <<kept.lines, kept.words, kept.chars>> ELSE out
    /\ UNCHANGED <<size, kept, faulty>>

\* A READ that fails ends a program like the end of its file.
ReadFails ==
    /\ At(tool, "read") /\ tool # "diff" /\ Fails("read") /\ tpc' = "close"
    /\ UNCHANGED <<handles, size, kept, out>>
-----------------------------------------------------------------------------
(***************************************************************************)
(* HEAD and TAIL.                                                          *)
(***************************************************************************)
Newlines(s) == {i \in DOMAIN s : s[i] = NL}

\* HEAD: the bytes of a chunk up to the newline at which it has its lines.
Shown(d, left) ==
    SubSeq(d, 1, Cardinality({i \in DOMAIN d : Cardinality(Newlines(SubSeq(d, 1, i - 1))) < left}))

HeadReads ==
    /\ At("head", "read") /\ Reads(handles[1], HeadChunk)
    /\ LET d == reply'.data
           shown == Shown(d, kept) IN
       /\ out' = out \o shown
       /\ kept' = kept - Cardinality(Newlines(shown))
       /\ tpc' = IF d = <<>> \/ kept' = 0 THEN "close" ELSE "read"
    /\ UNCHANGED <<handles, size>>

\* TAIL goes to the last bytes of the file; if it cannot, it shows nothing.
TailSeeks ==
    /\ At("tail", "seek") /\ UNCHANGED <<handles, size, kept, out>>
    /\ \/ /\ Store!Seek(handles[1], IF size > Window THEN size - Window ELSE 0)
          /\ UNCHANGED faulty /\ tpc' = "read"
       \/ Fails("seek") /\ tpc' = "close"

\* Mutant of TailStart: the tenth newline is looked for.
TailStartEarly(d) ==
    LET ends == {i \in Newlines(d) : Cardinality(Newlines(SubSeq(d, i, Len(d)))) = Lines} IN
    IF ends = {} THEN 1 ELSE 1 + CHOOSE i \in ends : TRUE

\* Behind the eleventh newline from the end, or the start of what was read.
TailStart(d) ==
    LET ends == {i \in Newlines(d) : Cardinality(Newlines(SubSeq(d, i, Len(d)))) = Lines + 1} IN
    IF ends = {} THEN 1 ELSE 1 + CHOOSE i \in ends : TRUE

TailReads ==
    /\ At("tail", "read") /\ Reads(handles[1], Window)
    /\ out' = SubSeq(reply'.data, TailStart(reply'.data), Len(reply'.data)) /\ tpc' = "close"
    /\ UNCHANGED <<handles, size, kept>>
-----------------------------------------------------------------------------
(***************************************************************************)
(* WC and GREP.                                                            *)
(***************************************************************************)
Counted(w, c) ==
    [in_word |-> c \notin Spaces,
     lines |-> w.lines + (IF c = NL THEN 1 ELSE 0),
     words |-> w.words + (IF c \notin Spaces /\ ~w.in_word THEN 1 ELSE 0),
     chars |-> w.chars + 1]

WcReads ==
    /\ At("wc", "read") /\ Reads(handles[1], ReadChunk)
    /\ LET d == reply'.data
           w[i \in 0..Len(d)] == IF i = 0 THEN kept ELSE Counted(w[i - 1], d[i]) IN
       kept' = w[Len(d)]
    /\ tpc' = IF reply'.data = <<>> THEN "close" ELSE "read"
    /\ UNCHANGED <<handles, size, out>>

\* strstr: it looks at the end of the line only after its first byte, so that
\* in an empty line it goes on with what the line buffer held before.
Matches(buf, pattern, h) ==
    \A i \in DOMAIN pattern : h + i - 1 <= LineBuf /\ buf[h + i - 1] = pattern[i]
Found(buf, pattern) ==
    \E h \in 1..LineBuf : (\A k \in 2..h : buf[k] # NUL) /\ Matches(buf, pattern, h)

\* process_line: the line is printed if it has the pattern.
LineDone(w) ==
    LET buf == [w.line_buf EXCEPT ![w.line_idx + 1] = NUL] IN
    [w EXCEPT !.line_buf = buf, !.line_idx = 0,
              !.printed = IF Found(buf, w.pattern) THEN Append(@, SubSeq(buf, 1, w.line_idx)) ELSE @]

\* A byte that finds the line buffer full ends the line, and is lost.
GrepByte(w, c) ==
    IF c = NL \/ w.line_idx >= LineBuf - 1 THEN LineDone(w)
    ELSE [w EXCEPT !.line_buf[w.line_idx + 1] = c, !.line_idx = @ + 1]

GrepReads ==
    /\ At("grep", "read") /\ Reads(handles[1], ReadChunk)
    /\ LET d == reply'.data
           w[i \in 0..Len(d)] == IF i = 0 THEN kept ELSE GrepByte(w[i - 1], d[i]) IN
       kept' = IF d = <<>> /\ kept.line_idx > 0 THEN LineDone(kept) ELSE w[Len(d)]
    /\ out' = kept'.printed
    /\ tpc' = IF reply'.data = <<>> THEN "close" ELSE "read"
    /\ UNCHANGED <<handles, size>>
-----------------------------------------------------------------------------
(***************************************************************************)
(* DIFF: a chunk of the first file, a chunk of the second.  A READ that    *)
(* fails counts as the end of its file.                                    *)
(***************************************************************************)
DiffReadsFirst ==
    /\ At("diff", "read") /\ tpc' = "read2" /\ UNCHANGED <<handles, size, out>>
    /\ \/ Reads(handles[1], ReadChunk) /\ kept' = [kept EXCEPT !.chunk = reply'.data]
       \/ Fails("read") /\ kept' = [kept EXCEPT !.chunk = <<>>]

DiffCompares(c, d) ==
    LET common == IF Len(c) < Len(d) THEN Len(c) ELSE Len(d)
        differ == {i \in 1..common : c[i] # d[i]}
        Ends(result) == out' = result /\ tpc' = "close" /\ UNCHANGED kept IN
    IF differ # {} THEN Ends(<<kept.offset + (CHOOSE i \in differ : \A j \in differ : i <= j) - 1>>)
    ELSE IF Len(c) # Len(d) THEN Ends(<<"differ in size">>)
    ELSE IF c = <<>> THEN Ends(<<"identical">>)
    ELSE kept' = [kept EXCEPT !.offset = @ + Len(c)] /\ tpc' = "read" /\ UNCHANGED out

DiffReadsSecond ==
    /\ At("diff", "read2") /\ UNCHANGED <<handles, size>>
    /\ \/ Reads(handles[2], ReadChunk) /\ DiffCompares(kept.chunk, reply'.data)
       \/ Fails("read") /\ DiffCompares(kept.chunk, <<>>)
-----------------------------------------------------------------------------
\* What a program has in its variables when it starts.
Fresh(t) ==
    CASE t = "head" -> {Lines}
      [] t = "wc" -> {[in_word |-> FALSE, lines |-> 0, words |-> 0, chars |-> 0]}
      [] t = "grep" -> {[pattern |-> p, line_buf |-> s, line_idx |-> 0, printed |-> <<>>] :
                           p \in Patterns, s \in Stale}
      [] t = "diff" -> {[chunk |-> <<>>, offset |-> 0]}
      [] OTHER -> {<<>>}

ToolInit ==
    /\ tool \in Tools /\ tpc = "open" /\ out = <<>> /\ handles = <<>> /\ size = 0 /\ faulty = FALSE
    /\ store \in ToolFiles[tool] /\ names \in {{1, 2}, {2}} /\ (1 \notin names => store[1] = <<>>)
    /\ fds = [h \in {0, 1} |-> Store!Free] /\ up = TRUE
    /\ reply = [to |-> "mount", args |-> <<>>, st |-> Store!OK, data |-> <<>>]
    /\ arg \in IF tool = "diff" THEN {<<1, 1>>, <<1, 2>>} ELSE {<<1>>}
    /\ kept \in Fresh(tool)

ToolNext ==
    \/ Open \/ OpenSecond \/ Close \/ ReadFails
    \/ HeadReads \/ TailSeeks \/ TailReads \/ WcReads \/ GrepReads
    \/ DiffReadsFirst \/ DiffReadsSecond

ToolSpec == ToolInit /\ [][ToolNext]_toolVars
-----------------------------------------------------------------------------
(***************************************************************************)
(* Properties: what the programs print, from the whole of a file.          *)
(***************************************************************************)
\* Where the lines of a text end, and where its i-th line does.
LineEnds(s) == Newlines(s) \cup ({Len(s)} \ {0})
LineEnd(s, i) == CHOOSE e \in LineEnds(s) : Cardinality({d \in LineEnds(s) : d <= e}) = i

\* The lines of a text, with their newlines; the last one may have none.
LinesOf(s) ==
    [i \in 1..Cardinality(LineEnds(s)) |->
        SubSeq(s, (IF i = 1 THEN 0 ELSE LineEnd(s, i - 1)) + 1, LineEnd(s, i))]
Bare(l) == IF Last(l) = NL THEN Front(l) ELSE l

HasPattern(l, p) == \E i \in DOMAIN l : i + Len(p) - 1 <= Len(l) /\ SubSeq(l, i, i + Len(p) - 1) = p
WithPattern(s, p) ==
    LET w[i \in 0..Len(LinesOf(s))] ==
          IF i = 0 THEN <<>>
          ELSE LET l == Bare(LinesOf(s)[i]) IN IF HasPattern(l, p) THEN Append(w[i - 1], l) ELSE w[i - 1] IN
    w[Len(LinesOf(s))]

FirstLines(s) ==
    LET l == LinesOf(s) IN FlattenSeq(SubSeq(l, 1, IF Len(l) < Lines THEN Len(l) ELSE Lines))
LastLines(s) ==
    LET l == LinesOf(s) IN FlattenSeq(SubSeq(l, IF Len(l) > Lines THEN Len(l) - Lines + 1 ELSE 1, Len(l)))
Words(s) == Cardinality({i \in DOMAIN s : s[i] \notin Spaces /\ (i = 1 \/ s[i - 1] \in Spaces)})
Verdict(s, t) ==
    LET differ == {i \in DOMAIN s \cap DOMAIN t : s[i] # t[i]} IN
    IF s = t THEN <<"identical">>
    ELSE IF differ = {} THEN <<"differ in size">>
    ELSE <<(CHOOSE i \in differ : \A j \in differ : i <= j) - 1>>

\* TAIL counts on a newline at the end of the file, and sees its last 512
\* bytes only.  GREP loses a byte of a line that fills its buffer, finds what
\* the buffer held before in an empty one, and ends a line at a NUL.
Fits(s) ==
    /\ tool = "tail" /\ s # <<>> => Last(s) = NL /\ Len(LastLines(s)) <= Window
    /\ tool = "grep" => NUL \notin Range(s) /\ \A i \in DOMAIN LinesOf(s) : Len(Bare(LinesOf(s)[i])) \in 1..LineBuf - 1

Wanted(s) ==
    CASE tool = "head" -> FirstLines(s)
      [] tool = "tail" -> LastLines(s)
      [] tool = "wc" -> <<Cardinality(Newlines(s)), Words(s), Len(s)>>
      [] tool = "grep" -> WithPattern(s, kept.pattern)
      [] tool = "diff" -> Verdict(s, store[arg[2]])

\* The programs print what they are for, wherever the ends of their chunks
\* are: in a line, in a word, in a pattern, at a newline, at the end of one
\* of two files.
OutputRight ==
    tpc = "done" /\ tool \in AllTools /\ ~faulty /\ 1 \in names /\ Fits(store[1]) => out = Wanted(store[1])

\* A program that ends, and one that is edited with, has closed what it has
\* opened, also after an error: there are four handles, and nothing but an
\* unmount would free them.
HandlesClosed == tpc \in {"edit", "done"} => \A h \in DOMAIN fds : fds[h].st = "closed"
=============================================================================
