------------------------------ MODULE WebText ------------------------------
(***************************************************************************)
(* What main.c makes of the bytes a server sends: the receive callbacks    *)
(* that strip the HTTP header (http_recv_cb for a file, weather_recv_cb    *)
(* for the bus) and the one that picks the titles out of a news feed       *)
(* (news_recv_cb).  TCP cuts a page into packets anywhere; the callbacks   *)
(* keep what they need from one to the next in the request record.         *)
(*                                                                         *)
(* Buffers and the tag are as short as the cases allow: Tag stands for     *)
(* "<title>", ParseBuf for the 512 bytes of parse_buf, EntityBuf for the   *)
(* ten of entity_buf.  A feed is given by its pieces, so that what its     *)
(* titles are can be said without reading bytes.                           *)
(***************************************************************************)
EXTENDS Naturals, Sequences, FiniteSets, SequencesExt

CONSTANTS
    Tag,          \* the bytes of the opening tag, in small letters
    Lower,        \* the small letters of the capital ones
    Entities,     \* the entities that are known, with their character
    ParseBuf, EntityBuf,
    Texts,        \* the answers header and body may have, as bytes
    Feeds,        \* the feeds there may be, as sequences of pieces
    PacketSizes   \* how many bytes a packet may have

\* A byte of the feed as the search for the tag sees it.
Small(c) == IF c \in DOMAIN Lower THEN Lower[c] ELSE c

\* What a feed is made of: tags, characters written as entities that fit
\* entity_buf, and text between them.
Within(p, first, last) ==
    Len(p) > 1 /\ \A i \in DOMAIN p : (p[i] = first <=> i = 1) /\ (p[i] = last <=> i = Len(p))
IsPiece(p) ==
    \/ Within(p, "<", ">")
    \/ Within(p, "&", ";") /\ Len(p) <= EntityBuf /\ "<" \notin Range(p)
    \/ p # <<>> /\ Range(p) \cap {"<", "&"} = {}
IsOpening(p) == Len(p) = Len(Tag) /\ \A i \in DOMAIN p : Small(p[i]) = Tag[i]

\* The rest of a tag that closes a title, which would be the opening tag
\* behind the start of one.
IsRest(p) == Len(p) <= Len(Tag) /\ \A i \in 2..Len(p) : Small(p[i]) = Tag[Len(Tag) - Len(p) + i]

\* If an entity stands for "<" a title may end with the start of a tag; it must
\* not go on behind the title, as the callback does not empty its buffer there.
IsFeed(f) ==
    /\ \A i \in DOMAIN f : IsPiece(f[i])
    /\ "<" \in Range(Entities) =>
          /\ \A i \in DOMAIN f : f[i][1] = "<" /\ IsRest(f[i]) => IsOpening(f[i])
          /\ \A i, k \in DOMAIN f : i < k /\ IsOpening(f[i]) /\ IsOpening(f[k]) =>
                \E m \in i + 1..k - 1 : f[m][1] = "<"

TextAssumption ==
    /\ Tag \in Seq(Range(Tag)) /\ Within(Tag, "<", ">")
    /\ {"<", ">"} \cap (DOMAIN Lower \cup Range(Lower)) = {}
    /\ ParseBuf \in Nat /\ ParseBuf > Len(Tag) /\ EntityBuf \in Nat \ {0}
    /\ \A e \in DOMAIN Entities : Len(e) < EntityBuf
    /\ \A s \in Texts : s \in Seq(Range(s))
    /\ \A f \in Feeds : f \in Seq(Range(f)) /\ IsFeed(f) /\ \A i \in DOMAIN f : f[i] \in Seq(Range(f[i]))
    /\ PacketSizes \subseteq Nat \ {0}
ASSUME TextAssumption

VARIABLES
    callback,      \* "file", "forecast" or "news"
    pieces,        \* the feed, for "news"
    page,          \* the bytes of the answer
    at,            \* those that have come
    header_state,
    sent,          \* the bytes written to the file or to the bus
    in_title, parse_buf, entity_buf,
    frames,        \* the titles sent to the 65C02
    beyond         \* the places behind entity_buf that have been written to

title == <<in_title, parse_buf, entity_buf, frames, beyond>>
vars == <<callback, pieces, page, at, header_state, sent, title>>

CR == "\r"
LF == "\n"
\* The types.  parse_buf always has room for the NUL that ends a title.  The
\* news callback writes behind entity_buf: the NUL that ends an entity, if it
\* fills the buffer.  That is one byte, the next member of the record, and no
\* place but that one is ever written to.
TypeOK ==
    /\ callback \in {"file", "forecast", "news"}
    /\ at \in 0..Len(page) /\ header_state \in 0..4
    /\ in_title \in BOOLEAN
    /\ Len(parse_buf) < ParseBuf /\ Len(entity_buf) <= EntityBuf
    /\ beyond \subseteq {EntityBuf + 1}
-----------------------------------------------------------------------------
(***************************************************************************)
(* The header strippers.                                                   *)
(***************************************************************************)
\* The next state of the search for the empty line; broken is where a byte
\* leads that does not belong to it.
Follow(state, c, broken) ==
    CASE state = 0 /\ c = CR -> 1
      [] state = 1 /\ c = LF -> 2
      [] state = 2 /\ c = CR -> 3
      [] state = 3 /\ c = LF -> 4
      [] OTHER -> broken

\* Mutant of Stripped: a broken sequence always starts from nothing.
StrippedPlain(state, c) == Follow(state, c, 0)

\* http_recv_cb: a carriage return that breaks a sequence begins another.
Stripped(state, c) == Follow(state, c, IF c = CR THEN 1 ELSE 0)

\* weather_recv_cb: it does not.
StrippedForecast(state, c) == Follow(state, c, 0)

\* The states of the search before and after each byte of a packet.
States(packet) ==
    LET s[i \in 0..Len(packet)] ==
            IF i = 0 THEN header_state
            ELSE IF s[i - 1] = 4 THEN 4
            ELSE IF callback = "file" THEN Stripped(s[i - 1], packet[i])
            ELSE StrippedForecast(s[i - 1], packet[i]) IN s

\* The bytes of a packet behind the header.
Body(packet) ==
    SubSeq(packet, 1 + Cardinality({i \in DOMAIN packet : States(packet)[i - 1] # 4}), Len(packet))

HeaderPacket(packet) ==
    /\ callback \in {"file", "forecast"}
    /\ header_state' = States(packet)[Len(packet)]
    /\ sent' = sent \o Body(packet)
    /\ UNCHANGED title
-----------------------------------------------------------------------------
(***************************************************************************)
(* The titles.                                                             *)
(***************************************************************************)
\* Mutant of Put: without the check of the buffer's end.
PutAlways(buf, c) == Append(buf, c)

\* A byte of a title, as long as there is room.
Put(buf, c) == IF Len(buf) < ParseBuf - 1 THEN Append(buf, c) ELSE buf

\* Mutant of Shifted: the buffer is emptied.
ShiftedAway(buf) == IF Len(buf) >= ParseBuf THEN <<>> ELSE buf

\* Outside a title the buffer keeps the last bytes, in which a tag may begin.
Shifted(buf) == IF Len(buf) >= ParseBuf THEN SubSeq(buf, Len(buf) - Len(Tag) + 1, Len(buf)) ELSE buf

\* The title ends; what there is of an entity belongs to its text.
EndTitle(t) ==
    LET e == t.entity_buf
        text[i \in 0..Len(e)] == IF i = 0 THEN t.parse_buf ELSE Put(text[i - 1], e[i]) IN
    [in_title |-> FALSE, parse_buf |-> text[Len(e)], entity_buf |-> <<>>,
     frames |-> Append(t.frames, text[Len(e)]), beyond |-> t.beyond]

\* A byte of an entity; at the semicolon a NUL is put behind it, and it is
\* decoded, or left out.  Behind a full buffer the NUL falls on entity_fill,
\* which is set to 0 anyway as soon as the entity has been compared.
Outlying(places) == places \ 1..EntityBuf
EntityByte(t, c) ==
    LET e == Append(t.entity_buf, c) IN
    IF c # ";" THEN [t EXCEPT !.entity_buf = e, !.beyond = @ \cup Outlying({Len(e)})]
    ELSE [t EXCEPT !.entity_buf = <<>>, !.beyond = @ \cup Outlying({Len(e), Len(e) + 1}),
                   !.parse_buf = IF e \in DOMAIN Entities THEN Put(@, Entities[e]) ELSE @]

\* A byte outside the titles.
Outside(t, c) ==
    LET buf == Append(t.parse_buf, Small(c)) IN
    IF IsSuffix(Tag, buf)
    THEN [t EXCEPT !.in_title = TRUE, !.parse_buf = <<>>]
    ELSE [t EXCEPT !.parse_buf = Shifted(buf)]

TitleByte(t, c) ==
    CASE ~t.in_title -> Outside(t, c)
      [] t.in_title /\ c = "<" -> EndTitle(t)
      [] t.in_title /\ c = "&" -> [t EXCEPT !.entity_buf = <<"&">>]
      [] t.in_title /\ c \notin {"<", "&"} /\ Len(t.entity_buf) \in 1..EntityBuf - 1 -> EntityByte(t, c)
      [] OTHER -> [t EXCEPT !.parse_buf = Put(@, c)]

NewsPacket(packet) ==
    LET start == [in_title |-> in_title, parse_buf |-> parse_buf,
                  entity_buf |-> entity_buf, frames |-> frames, beyond |-> beyond]
        t[i \in 0..Len(packet)] == IF i = 0 THEN start ELSE TitleByte(t[i - 1], packet[i])
        last == t[Len(packet)] IN
    /\ callback = "news"
    /\ in_title' = last.in_title /\ parse_buf' = last.parse_buf
    /\ entity_buf' = last.entity_buf /\ frames' = last.frames /\ beyond' = last.beyond
    /\ UNCHANGED <<header_state, sent>>
-----------------------------------------------------------------------------
\* The next packet.
Arrives ==
    \E n \in PacketSizes :
        LET packet == SubSeq(page, at + 1, at + n) IN
        /\ at + n <= Len(page) /\ at' = at + n
        /\ HeaderPacket(packet) \/ NewsPacket(packet)
        /\ UNCHANGED <<callback, pieces, page>>

Init ==
    /\ \/ callback \in {"file", "forecast"} /\ pieces = <<>> /\ page \in Texts
       \/ callback = "news" /\ pieces \in Feeds /\ page = FlattenSeq(pieces)
    /\ at = 0 /\ header_state = 0 /\ sent = <<>>
    /\ in_title = FALSE /\ parse_buf = <<>> /\ entity_buf = <<>> /\ frames = <<>> /\ beyond = {}

Next == Arrives
Spec == Init /\ [][Next]_vars
-----------------------------------------------------------------------------
Come == SubSeq(page, 1, at)

\* What follows the first empty line of a text.
AfterHeader(text) ==
    LET ends == {i \in 4..Len(text) : SubSeq(text, i - 3, i) = <<CR, LF, CR, LF>>} IN
    IF ends = {} THEN <<>>
    ELSE SubSeq(text, 1 + CHOOSE i \in ends : \A j \in ends : i <= j, Len(text))

\* The file of GET and the frames of WEATHER hold what follows the first empty
\* line, no byte more or less, wherever TCP cuts the answer.  For WEATHER this
\* is so if no carriage return of the header follows another: behind two of
\* them weather_recv_cb misses the line's end.
BodyIsKept ==
    /\ callback = "file" => sent = AfterHeader(Come)
    /\ callback = "forecast" /\ (\A i \in 2..at : page[i - 1] = CR => page[i] # CR) =>
          sent = AfterHeader(Come)

\* The title that is open behind the first n pieces of the feed, given by its
\* opening tag, or 0.  Any tag closes it.
Opened[n \in 0..Len(pieces)] ==
    IF n = 0 THEN 0
    ELSE IF pieces[n][1] # "<" THEN Opened[n - 1]
    ELSE IF Opened[n - 1] = 0 /\ IsOpening(pieces[n]) THEN n ELSE 0

\* The text of the pieces o + 1 to n, as much of it as there is room for.
TextOf(p) == IF p[1] # "&" THEN p ELSE IF p \in DOMAIN Entities THEN <<Entities[p]>> ELSE <<>>
Fitting(s) == SubSeq(s, 1, IF Len(s) < ParseBuf THEN Len(s) ELSE ParseBuf - 1)
Between(o, n) == FlattenSeq([k \in 1..n - o |-> TextOf(pieces[o + k])])

\* The titles in the first n pieces.
Titles[n \in 0..Len(pieces)] ==
    IF n = 0 THEN <<>>
    ELSE IF pieces[n][1] = "<" /\ Opened[n - 1] # 0
         THEN Append(Titles[n - 1], Fitting(Between(Opened[n - 1], n - 1)))
         ELSE Titles[n - 1]

\* NEWS: the frames are the titles of the feed, in order, with the entities
\* decoded, the ones it does not know left out and what does not fit cut off,
\* wherever packets end: in a tag, in an entity, at a full buffer.
TitlesRight == callback = "news" /\ at = Len(page) => frames = Titles[Len(pieces)]

\* However TCP cuts the answer of a server into packets, what comes through is
\* what the whole of it calls for.
PageIsRight == BodyIsKept /\ TitlesRight
=============================================================================
