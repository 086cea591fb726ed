----------------------------- MODULE TextProofs -----------------------------
(***************************************************************************)
(* Proofs about the texts that come in pieces, for texts of any bytes and  *)
(* any length, and packets, chunks and buffers of any size:                *)
(*                                                                         *)
(*   WebText    no byte but one goes behind the end of a buffer, the header    *)
(*              is stripped and the titles are found;                      *)
(*   TextTools  HEAD, TAIL, WC, GREP and DIFF print what is in the files,  *)
(*              and close them;                                            *)
(*   Editor     every key does to the text and the cursor what its name    *)
(*              says, loading and saving carry the text, the cursor stays  *)
(*              in view, and a file that is opened is closed.              *)
(*                                                                         *)
(* What a program makes of a piece is a recursive function of its bytes;   *)
(* that the function exists and what holds of it is proved by a least      *)
(* counterexample, with the lemmas of TextLemmas.                          *)
(***************************************************************************)
EXTENDS WebText, Editor, TextLemmas, SequenceTheorems, FiniteSetTheorems, WellFoundedInduction, TLAPS

-----------------------------------------------------------------------------
(***************************************************************************)
(* The titles: what is written stays in its buffer, but for one NUL.       *)
(***************************************************************************)
\* The bytes there are: those of the page, and what they are replaced by.
Bytes == Range(page) \cup Range(Lower) \cup Range(Entities) \cup {"&"}
Parsed == {s \in Seq(Bytes) : Len(s) < ParseBuf}
Entity == {s \in Seq(Bytes) : Len(s) <= EntityBuf}
Beyond == SUBSET {EntityBuf + 1}
Titling == [in_title : BOOLEAN, parse_buf : Parsed, entity_buf : Entity,
            frames : Seq(Seq(Bytes)), beyond : Beyond]

LEMMA TagIs ==
    /\ Len(Tag) \in Nat /\ Len(Tag) > 1 /\ ParseBuf \in Nat /\ ParseBuf > Len(Tag)
    /\ \A i \in 1..Len(Tag) : (Tag[i] = "<" <=> i = 1) /\ (Tag[i] = ">" <=> i = Len(Tag))
    /\ Tag \in Seq(Range(Tag))
  BY TextAssumption DEF TextAssumption, Within

LEMMA PutType ==
    ASSUME NEW s \in Parsed, NEW c \in Bytes
    PROVE  Put(s, c) \in Parsed
  BY TextAssumption DEF TextAssumption, Put, Parsed

LEMMA SmallType == ASSUME NEW c \in Bytes PROVE Small(c) \in Bytes
  BY DEF Small, Bytes, Range

LEMMA ShiftedType ==
    ASSUME NEW s \in Parsed, NEW c \in Bytes
    PROVE  Shifted(Append(s, c)) \in Parsed
<1> DEFINE u == Append(s, c)  k == Len(u) - Len(Tag) + 1
<1>1. u \in Seq(Bytes) /\ Len(u) <= ParseBuf /\ Len(u) \in Nat
  BY TextAssumption DEF TextAssumption, Parsed
<1>2. Len(Tag) \in Nat \ {0} /\ ParseBuf > Len(Tag) /\ ParseBuf \in Nat
  BY TagIs
<1> HIDE DEF u
<1>3. CASE Len(u) >= ParseBuf
  <2>1. k \in Nat /\ 1 <= k /\ k <= Len(u) /\ Len(u) - k + 1 = Len(Tag)
    BY <1>1, <1>2, <1>3
  <2> HIDE DEF k
  <2>2. SubSeq(u, k, Len(u)) \in Seq(Bytes) /\ Len(SubSeq(u, k, Len(u))) = Len(Tag)
    BY <1>1, <2>1, PartIs
  <2>3. Shifted(u) = SubSeq(u, k, Len(u))
    BY <1>3 DEF Shifted, k
  <2> QED
    BY <1>2, <2>2, <2>3 DEF Parsed, u
<1>4. CASE Len(u) < ParseBuf
  <2>1. Shifted(u) = u
    BY <1>1, <1>2, <1>4 DEF Shifted
  <2> QED
    BY <1>1, <1>4, <2>1 DEF Parsed, u
<1> QED
  BY <1>1, <1>2, <1>3, <1>4

\* What is left of an entity goes into the title, byte by byte.
LEMMA EndTitleType ==
    ASSUME NEW t \in Titling
    PROVE  EndTitle(t) \in Titling
<1> DEFINE e == t.entity_buf  n == Len(e)  s == t.parse_buf
           titled == CHOOSE w : w = [i \in 0..n |-> IF i = 0 THEN s ELSE Put(w[i - 1], e[i])]
           step == [p \in Parsed \X (0 + 1..n) |-> Put(p[1], e[p[2]])]
<1>9. EndTitle(t) = [in_title |-> FALSE, parse_buf |-> titled[n], entity_buf |-> <<>>,
                     frames |-> Append(t.frames, titled[n]), beyond |-> t.beyond]
  BY DEF EndTitle
<1>1. e \in Seq(Bytes) /\ s \in Parsed /\ t.frames \in Seq(Seq(Bytes)) /\ n \in Nat /\ t.beyond \in Beyond
      /\ \A i \in 0 + 1..n : e[i] \in Bytes
  BY DEF Titling, Entity
<1> HIDE DEF e, n, s
<1>2. step \in [Parsed \X (0 + 1..n) -> Parsed]
      /\ \A u \in Parsed, i \in 0 + 1..n : step[<<u, i>>] = Put(u, e[i])
  BY <1>1, PutType
<1> HIDE DEF step
<1>3. PICK w : IsIterate(w, Parsed, 0, n, s, step)
  BY <1>1, <1>2, Iterates, 0 \in Nat
<1>4. w = [i \in 0..n |-> IF i = 0 THEN s ELSE Put(w[i - 1], e[i])]
  <2>0. w \in [0..n -> Parsed] /\ \A i \in 0..n : w[i] = IF i = 0 THEN s ELSE step[<<w[i - 1], i>>]
    BY <1>3 DEF IsIterate
  <2>1. \A i \in 0..n : i # 0 => i \in 0 + 1..n /\ w[i - 1] \in Parsed
    BY <1>1, <2>0
  <2>2. \A i \in 0..n : i # 0 => step[<<w[i - 1], i>>] = Put(w[i - 1], e[i])
    BY <1>2, <2>1
  <2> QED
    BY <2>0, <2>2
<1>5. titled = [i \in 0..n |-> IF i = 0 THEN s ELSE Put(titled[i - 1], e[i])]
  BY <1>4
<1> HIDE DEF titled
<1>6. titled[0] \in Parsed /\ \A i \in 0 + 1..n : titled[i] = Put(titled[i - 1], e[i])
  <2>1. \A i \in 0 + 1..n : i \in 0..n /\ i # 0
    BY <1>1
  <2>2. 0 \in 0..n
    BY <1>1
  <2>3. \A i \in 0..n : titled[i] = IF i = 0 THEN s ELSE Put(titled[i - 1], e[i])
    BY <1>5
  <2> QED
    BY <1>1, <2>1, <2>2, <2>3
<1>7. \A i \in 0 + 1..n : titled[i - 1] \in Parsed => titled[i] \in Parsed
  BY <1>1, <1>6, PutType
<1>8. \A i \in 0..n : titled[i] \in Parsed
  BY <1>1, <1>6, <1>7, Stays, 0 \in Nat
<1>10. titled[n] \in Parsed /\ <<>> \in Entity /\ t.beyond \in Beyond
  BY <1>1, <1>8, TextAssumption DEF Entity, TextAssumption
<1>11. Append(t.frames, titled[n]) \in Seq(Seq(Bytes))
  BY <1>1, <1>10 DEF Parsed
<1> QED
  BY <1>9, <1>10, <1>11 DEF Titling

LEMMA TitleByteType ==
    ASSUME NEW t \in Titling, NEW c \in Bytes
    PROVE  TitleByte(t, c) \in Titling
<1>1. t.parse_buf \in Parsed /\ t.entity_buf \in Entity /\ t.in_title \in BOOLEAN
  BY DEF Titling
<1>2. <<>> \in Parsed /\ <<>> \in Entity /\ <<"&">> \in Entity
  BY TextAssumption DEF TextAssumption, Parsed, Entity, Bytes
<1>3. ASSUME ~t.in_title PROVE Outside(t, c) \in Titling
  <2>1. Shifted(Append(t.parse_buf, Small(c))) \in Parsed
    BY <1>1, SmallType, ShiftedType
  <2> QED
    BY <1>2, <2>1, Zenon DEF Outside, Titling
<1>4. ASSUME Len(t.entity_buf) \in 1..EntityBuf - 1 PROVE EntityByte(t, c) \in Titling
  <2> DEFINE x == Append(t.entity_buf, c)
  <2>1. x \in Entity /\ Len(x) \in 2..EntityBuf
    BY <1>1, <1>4, TextAssumption DEF Entity, TextAssumption
  <2> HIDE DEF x
  <2>3. /\ t.beyond \cup Outlying({Len(x)}) \in Beyond
        /\ t.beyond \cup Outlying({Len(x), Len(x) + 1}) \in Beyond
    <3>1. t.beyond \in Beyond /\ EntityBuf \in Nat
      BY TextAssumption DEF TextAssumption, Titling
    <3> QED
      BY <2>1, <3>1 DEF Outlying, Beyond
  <2>2. \A e \in DOMAIN Entities : Put(t.parse_buf, Entities[e]) \in Parsed
    BY <1>1, PutType DEF Bytes, Range
  <2> QED
    BY <1>1, <1>2, <2>1, <2>2, <2>3 DEF EntityByte, Titling, x
<1>5. Put(t.parse_buf, c) \in Parsed
  BY <1>1, PutType
<1> QED
  BY <1>2, <1>3, <1>4, <1>5, EndTitleType DEF TitleByte, Titling
\* The parser as the request record keeps it, and from byte to byte of a packet.
Parser == [in_title |-> in_title, parse_buf |-> parse_buf,
           entity_buf |-> entity_buf, frames |-> frames, beyond |-> beyond]
IsParse(w, packet) ==
    /\ w[0] = Parser /\ \A i \in 0 + 1..Len(packet) : w[i] = TitleByte(w[i - 1], packet[i])
    /\ \A i \in 0..Len(packet) : w[i] \in Titling
    /\ w[Len(packet)] = Parser'

LEMMA NewsSteps ==
    ASSUME NEW packet \in Seq(Bytes), NewsPacket(packet), Parser \in Titling
    PROVE  \E w : IsParse(w, packet)
<1> DEFINE n == Len(packet)
           s == [in_title |-> in_title, parse_buf |-> parse_buf,
                 entity_buf |-> entity_buf, frames |-> frames, beyond |-> beyond]
           t == CHOOSE w : w = [i \in 0..n |-> IF i = 0 THEN s ELSE TitleByte(w[i - 1], packet[i])]
           step == [p \in Titling \X (0 + 1..n) |-> TitleByte(p[1], packet[p[2]])]
<1>9. /\ in_title' = t[n].in_title /\ parse_buf' = t[n].parse_buf
      /\ entity_buf' = t[n].entity_buf /\ frames' = t[n].frames /\ beyond' = t[n].beyond
  BY DEF NewsPacket
<1>1. s \in Titling /\ n \in Nat /\ \A i \in 0 + 1..n : packet[i] \in Bytes
  BY DEF Parser
<1>0. s = Parser
  BY DEF Parser
<1> HIDE DEF n, s
<1>2. step \in [Titling \X (0 + 1..n) -> Titling]
      /\ \A u \in Titling, i \in 0 + 1..n : step[<<u, i>>] = TitleByte(u, packet[i])
  BY <1>1, TitleByteType
<1> HIDE DEF step
<1>3. PICK w : IsIterate(w, Titling, 0, n, s, step)
  BY <1>1, <1>2, Iterates, 0 \in Nat
<1>4. w = [i \in 0..n |-> IF i = 0 THEN s ELSE TitleByte(w[i - 1], packet[i])]
  <2>0. w \in [0..n -> Titling] /\ \A i \in 0..n : w[i] = IF i = 0 THEN s ELSE step[<<w[i - 1], i>>]
    BY <1>3 DEF IsIterate
  <2>1. \A i \in 0..n : i # 0 => i \in 0 + 1..n /\ w[i - 1] \in Titling
    BY <1>1, <2>0
  <2>2. \A i \in 0..n : i # 0 => step[<<w[i - 1], i>>] = TitleByte(w[i - 1], packet[i])
    BY <1>2, <2>1
  <2> QED
    BY <2>0, <2>2
<1>5. t = [i \in 0..n |-> IF i = 0 THEN s ELSE TitleByte(t[i - 1], packet[i])]
  BY <1>4
<1> HIDE DEF t
<1>6. t[0] = s /\ \A i \in 0 + 1..n : t[i] = TitleByte(t[i - 1], packet[i])
  <2>1. \A i \in 0 + 1..n : i \in 0..n /\ i # 0
    BY <1>1
  <2>2. 0 \in 0..n
    BY <1>1
  <2>3. \A i \in 0..n : t[i] = IF i = 0 THEN s ELSE TitleByte(t[i - 1], packet[i])
    BY <1>5
  <2> QED
    BY <1>1, <2>1, <2>2, <2>3
<1>7. \A i \in 0 + 1..n : t[i - 1] \in Titling => t[i] \in Titling
  BY <1>1, <1>6, TitleByteType
<1>8. \A i \in 0..n : t[i] \in Titling
  BY <1>1, <1>6, <1>7, Stays, 0 \in Nat
<1>10. t[n] \in Titling
  BY <1>1, <1>8
<1>11. t[n] = Parser'
  BY <1>9, <1>10 DEF Titling, Parser
<1>12. IsParse(t, packet)
  BY <1>0, <1>6, <1>8, <1>11 DEF IsParse, n
<1> QED
  BY <1>12

\* What the news callback makes of a packet.
LEMMA NewsPacketType ==
    ASSUME NEW packet \in Seq(Bytes), NewsPacket(packet), Parser \in Titling
    PROVE  in_title' \in BOOLEAN /\ parse_buf' \in Parsed /\ entity_buf' \in Entity
           /\ frames' \in Seq(Seq(Bytes)) /\ beyond' \in Beyond
<1>1. PICK w : IsParse(w, packet)
  BY NewsSteps
<1>2. Len(packet) \in 0..Len(packet)
  OBVIOUS
<1>3. w[Len(packet)] \in Titling /\ w[Len(packet)] = Parser'
  BY <1>1, <1>2 DEF IsParse
<1> QED
  BY <1>3 DEF Titling, Parser

LEMMA PageIsText == Init => page \in Seq(Range(page))
<1> SUFFICES ASSUME Init PROVE page \in Seq(Range(page))
  OBVIOUS
<1>1. CASE page \in Texts
  BY <1>1, TextAssumption DEF TextAssumption
<1>2. CASE pieces \in Feeds /\ page = FlattenSeq(pieces)
  <2> DEFINE B == UNION {Range(pieces[i]) : i \in DOMAIN pieces}
  <2>1. pieces \in Seq(Range(pieces)) /\ \A i \in DOMAIN pieces : pieces[i] \in Seq(Range(pieces[i]))
    BY <1>2, TextAssumption DEF TextAssumption
  <2>2. \A i \in DOMAIN pieces : pieces[i] \in Seq(B)
    <3> SUFFICES ASSUME NEW i \in DOMAIN pieces PROVE pieces[i] \in Seq(B)
      OBVIOUS
    <3>1. Range(pieces[i]) \subseteq B
      OBVIOUS
    <3> QED
      BY <2>1, <3>1, SeqMonotonic
  <2> HIDE DEF B
  <2>3. pieces \in Seq(Seq(B))
    BY <2>1, <2>2 DEF Range
  <2> QED
    BY <1>2, <2>3, FlattenType, SeqOfRange
<1> QED
  BY <1>1, <1>2 DEF Init
-----------------------------------------------------------------------------
(***************************************************************************)
(* The header.                                                             *)
(***************************************************************************)
\* Where the search for the empty line goes with a byte.
Searching(s, c) ==
    IF s = 4 THEN 4 ELSE IF callback = "file" THEN Stripped(s, c) ELSE StrippedForecast(s, c)

LEMMA StatesAre ==
    ASSUME NEW B, NEW packet \in Seq(B), header_state \in 0..4
    PROVE  /\ States(packet)[0] = header_state
           /\ \A i \in 0..Len(packet) : States(packet)[i] \in 0..4
           /\ \A i \in 1..Len(packet) : States(packet)[i] = Searching(States(packet)[i - 1], packet[i])
<1> DEFINE n == Len(packet)
           t == CHOOSE w : w = [i \in 0..n |->
                   IF i = 0 THEN header_state
                   ELSE IF w[i - 1] = 4 THEN 4
                   ELSE IF callback = "file" THEN Stripped(w[i - 1], packet[i])
                   ELSE StrippedForecast(w[i - 1], packet[i])]
           step == [p \in (0..4) \X (0 + 1..n) |-> Searching(p[1], packet[p[2]])]
<1>9. States(packet) = t
  BY DEF States
<1>1. n \in Nat
  OBVIOUS
<1> HIDE DEF n
<1>0. \A c, s : s \in 0..4 => Searching(s, c) \in 0..4
  BY DEF Searching, Stripped, StrippedForecast, Follow
<1>2. step \in [(0..4) \X (0 + 1..n) -> 0..4]
      /\ \A u \in 0..4, i \in 0 + 1..n : step[<<u, i>>] = Searching(u, packet[i])
  BY <1>0
<1> HIDE DEF step
<1>3. PICK w : IsIterate(w, 0..4, 0, n, header_state, step)
  BY <1>1, <1>2, Iterates, 0 \in Nat
<1>4. w = [i \in 0..n |-> IF i = 0 THEN header_state
                   ELSE IF w[i - 1] = 4 THEN 4
                   ELSE IF callback = "file" THEN Stripped(w[i - 1], packet[i])
                   ELSE StrippedForecast(w[i - 1], packet[i])]
  <2>0. w \in [0..n -> 0..4] /\ \A i \in 0..n : w[i] = IF i = 0 THEN header_state ELSE step[<<w[i - 1], i>>]
    BY <1>3 DEF IsIterate
  <2>1. \A i \in 0..n : i # 0 => i \in 0 + 1..n /\ w[i - 1] \in 0..4
    BY <1>1, <2>0
  <2>2. \A i \in 0..n : i # 0 => step[<<w[i - 1], i>>] = Searching(w[i - 1], packet[i])
    BY <1>2, <2>1
  <2>3. \A i \in 0..n : w[i] = IF i = 0 THEN header_state
                   ELSE IF w[i - 1] = 4 THEN 4
                   ELSE IF callback = "file" THEN Stripped(w[i - 1], packet[i])
                   ELSE StrippedForecast(w[i - 1], packet[i])
    BY <2>0, <2>2 DEF Searching
  <2> QED
    BY <2>0, <2>3
<1>5. t = [i \in 0..n |-> IF i = 0 THEN header_state
                   ELSE IF t[i - 1] = 4 THEN 4
                   ELSE IF callback = "file" THEN Stripped(t[i - 1], packet[i])
                   ELSE StrippedForecast(t[i - 1], packet[i])]
  BY <1>4
<1> HIDE DEF t
<1>6. t[0] = header_state /\ \A i \in 0 + 1..n : t[i] = Searching(t[i - 1], packet[i])
  <2>1. \A i \in 0 + 1..n : i \in 0..n /\ i # 0
    BY <1>1
  <2>2. 0 \in 0..n
    BY <1>1
  <2>3. \A i \in 0..n : t[i] = IF i = 0 THEN header_state ELSE Searching(t[i - 1], packet[i])
    BY <1>5 DEF Searching
  <2> QED
    BY <2>1, <2>2, <2>3
<1>7. \A i \in 0 + 1..n : t[i - 1] \in 0..4 => t[i] \in 0..4
  BY <1>0, <1>6
<1>8. \A i \in 0..n : t[i] \in 0..4
  BY <1>1, <1>6, <1>7, Stays, 0 \in Nat
<1> QED
  BY <1>6, <1>8, <1>9 DEF n
-----------------------------------------------------------------------------
(***************************************************************************)
(* Types.                                                                  *)
(***************************************************************************)
Typed ==
    /\ callback \in {"file", "forecast", "news"}
    /\ page \in Seq(Range(page)) /\ at \in 0..Len(page) /\ header_state \in 0..4
    /\ in_title \in BOOLEAN /\ parse_buf \in Parsed /\ entity_buf \in Entity /\ frames \in Seq(Seq(Bytes))
    /\ beyond \in Beyond
    /\ sent \in Seq(Bytes)

\* A packet is the next part of the page.
LEMMA PacketIs ==
    ASSUME page \in Seq(Range(page)), at \in Nat, NEW n \in PacketSizes, at + n <= Len(page)
    PROVE  LET packet == SubSeq(page, at + 1, at + n) IN
           /\ n \in Nat \ {0} /\ packet \in Seq(Bytes) /\ Len(packet) = n
           /\ \A i \in 1..n : packet[i] = page[at + i]
<1>1. n \in Nat \ {0}
  BY TextAssumption DEF TextAssumption
<1>2. PICK a \in Nat, b \in Nat : a = at + 1 /\ b = at + n
  BY <1>1
<1>3. Len(page) \in Nat /\ 1 <= a /\ b <= Len(page) /\ a <= b /\ b - a + 1 = n
  BY <1>1, <1>2
<1> DEFINE packet == SubSeq(page, a, b)
<1>4. packet \in Seq(Range(page)) /\ Len(packet) = n /\ \A i \in 1..n : packet[i] = page[a + i - 1]
  BY <1>3, PartIs
<1> HIDE DEF packet
<1>5. packet \in Seq(Bytes)
  BY <1>4, SeqMonotonic DEF Bytes
<1>6. \A i \in 1..n : a + i - 1 = at + i
  BY <1>1, <1>2
<1> QED
  BY <1>1, <1>2, <1>4, <1>5, <1>6 DEF packet

LEMMA BodyType ==
    ASSUME NEW packet \in Seq(Bytes), header_state \in 0..4
    PROVE  Body(packet) \in Seq(Bytes)
<1> DEFINE s == {i \in DOMAIN packet : States(packet)[i - 1] # 4}
<1>1. s \subseteq 1..Len(packet) /\ Len(packet) \in Nat
  OBVIOUS
<1> HIDE DEF s
<1>2. IsFiniteSet(s) /\ Cardinality(s) \in Nat
  <2>1. PICK k \in Nat : k = Len(packet)
    BY <1>1
  <2>2. IsFiniteSet(1..k)
    BY FS_Interval
  <2>3. IsFiniteSet(s)
    BY <1>1, <2>1, <2>2, FS_Subset
  <2> QED
    BY <2>3, FS_CardinalityType
<1>3. PICK a \in Nat : a = 1 + Cardinality(s) /\ 1 <= a
  BY <1>2
<1>4. SubSeq(packet, a, Len(packet)) \in Seq(Bytes)
  BY <1>1, <1>3, PartIs
<1> QED
  BY <1>3, <1>4 DEF Body, s

LEMMA HeaderPacketType ==
    ASSUME NEW packet \in Seq(Bytes), header_state \in 0..4, sent \in Seq(Bytes), HeaderPacket(packet)
    PROVE  header_state' \in 0..4 /\ sent' \in Seq(Bytes)
<1>1. \A i \in 0..Len(packet) : States(packet)[i] \in 0..4
  BY StatesAre
<1>2. Len(packet) \in 0..Len(packet)
  OBVIOUS
<1>3. header_state' \in 0..4
  BY <1>1, <1>2 DEF HeaderPacket
<1>4. sent \o Body(packet) \in Seq(Bytes)
  BY BodyType, ConcatProperties
<1> QED
  BY <1>3, <1>4 DEF HeaderPacket

LEMMA InitTyped == Init => Typed
<1> SUFFICES ASSUME Init PROVE Typed
  OBVIOUS
<1>1. <<>> \in Parsed /\ <<>> \in Entity /\ <<>> \in Seq(Bytes) /\ <<>> \in Seq(Seq(Bytes))
  BY TextAssumption DEF TextAssumption, Parsed, Entity
<1>2. page \in Seq(Range(page)) /\ 0 \in 0..Len(page) /\ 0 \in 0..4
  BY PageIsText
<1>3. callback \in {"file", "forecast", "news"} /\ in_title \in BOOLEAN
  BY DEF Init
<1> QED
  BY <1>1, <1>2, <1>3, Zenon DEF Init, Typed, Beyond

LEMMA StepTyped == Typed /\ [Next]_vars => Typed'
<1> SUFFICES ASSUME Typed, [Next]_vars PROVE Typed'
  OBVIOUS
<1>1. CASE UNCHANGED vars
  BY <1>1 DEF Typed, vars, title, Bytes, Parsed, Entity, Beyond
<1>2. CASE Arrives
  <2>1. PICK n \in PacketSizes :
            /\ at + n <= Len(page) /\ at' = at + n
            /\ HeaderPacket(SubSeq(page, at + 1, at + n)) \/ NewsPacket(SubSeq(page, at + 1, at + n))
            /\ UNCHANGED <<callback, pieces, page>>
    BY <1>2 DEF Arrives
  <2> DEFINE packet == SubSeq(page, at + 1, at + n)
  <2>2. packet \in Seq(Bytes) /\ n \in Nat
    BY <2>1, PacketIs DEF Typed
  <2> HIDE DEF packet
  <2>3. Bytes' = Bytes /\ Parsed' = Parsed /\ Entity' = Entity /\ Beyond' = Beyond
    BY <2>1 DEF Bytes, Parsed, Entity, Beyond
  <2>4. at' \in 0..Len(page')
    BY <2>1, <2>2 DEF Typed
  <2>5. CASE HeaderPacket(packet)
    <3>1. header_state' \in 0..4 /\ sent' \in Seq(Bytes)
      BY <2>2, <2>5, HeaderPacketType DEF Typed
    <3> QED
      BY <2>1, <2>3, <2>4, <2>5, <3>1 DEF Typed, HeaderPacket, title
  <2>6. CASE NewsPacket(packet)
    <3>1. in_title' \in BOOLEAN /\ parse_buf' \in Parsed /\ entity_buf' \in Entity
           /\ frames' \in Seq(Seq(Bytes)) /\ beyond' \in Beyond
      BY <2>2, <2>6, NewsPacketType DEF Typed, Titling, Parser
    <3>2. UNCHANGED <<header_state, sent>>
      BY <2>6 DEF NewsPacket
    <3> QED
      BY <2>1, <2>3, <2>4, <3>1, <3>2 DEF Typed
  <2> QED
    BY <2>1, <2>5, <2>6 DEF packet
<1> QED
  BY <1>1, <1>2 DEF Next

\* Whatever a server sends, and in what packets, no byte is written behind
\* parse_buf, and behind entity_buf only the NUL of an entity that fills it, on
\* the one place that follows the buffer.
THEOREM TypeCorrect == Spec => []TypeOK
<1>1. Typed => TypeOK
  BY DEF Typed, TypeOK, Parsed, Entity, Beyond
<1> QED
  BY <1>1, InitTyped, StepTyped, PTL DEF Spec
-----------------------------------------------------------------------------
(***************************************************************************)
(* The state of the search says how much of an empty line the bytes that   *)
(* have come end with.                                                     *)
(***************************************************************************)
Return(k) == k >= 1 /\ page[k] = CR
Line(k) == Return(k - 1) /\ page[k] = LF
Second(k) == Line(k - 1) /\ page[k] = CR
Ends(k) == Second(k - 1) /\ page[k] = LF

Searched(k, s) ==
    /\ s = 4 <=> \E e \in 1..k : Ends(e)
    /\ s # 4 => (s \in {1, 3} <=> Return(k)) /\ (s = 2 <=> Line(k)) /\ (s = 3 <=> Second(k))

\* In a forecast's header no carriage return follows another.
Tidy(k) == callback = "file" \/ \A i \in 2..k : page[i - 1] = CR => page[i] # CR

LEMMA EndsLate == ASSUME NEW e \in Nat, Ends(e) PROVE e >= 4
  BY DEF Ends, Second, Line, Return

LEMMA SearchStep ==
    ASSUME NEW k \in Nat, NEW s \in 0..4, Searched(k, s), Tidy(k + 1)
    PROVE  Searched(k + 1, Searching(s, page[k + 1]))
<1> DEFINE c == page[k + 1]  r == Searching(s, c)
<1>1. /\ Return(k + 1) <=> c = CR
      /\ Line(k + 1) <=> Return(k) /\ c = LF
      /\ Second(k + 1) <=> Line(k) /\ c = CR
      /\ Ends(k + 1) <=> Second(k) /\ c = LF
  <2>1. (k + 1) - 1 = k /\ k + 1 >= 1
    OBVIOUS
  <2> QED
    BY <2>1 DEF Return, Line, Second, Ends
<1>2. (\E e \in 1..k + 1 : Ends(e)) <=> (\E e \in 1..k : Ends(e)) \/ Ends(k + 1)
  OBVIOUS
<1>3. callback = "file" \/ ~(Return(k) /\ c = CR)
  <2> SUFFICES ASSUME callback # "file", Return(k), c = CR PROVE FALSE
    OBVIOUS
  <2>1. k + 1 \in 2..k + 1 /\ (k + 1) - 1 = k
    BY DEF Return
  <2> QED
    BY <2>1 DEF Tidy, Return
<1>4. CR # LF
  BY DEF CR, LF
<1>5. ~(Return(k) /\ Line(k)) /\ (Second(k) => Return(k))
  BY <1>4 DEF Line, Second, Return
<1> HIDE DEF c
<1>6. CASE s = 4
  BY <1>2, <1>6 DEF Searched, Searching
<1>7. CASE s = 3
  <2>1. r = IF c = LF THEN 4 ELSE IF c = CR /\ callback = "file" THEN 1 ELSE 0
    BY <1>7, <1>4 DEF Searching, Stripped, StrippedForecast, Follow
  <2> QED
    BY <1>1, <1>2, <1>3, <1>4, <1>5, <1>7, <2>1 DEF Searched, c
<1>8. CASE s = 2
  <2>1. r = IF c = CR THEN 3 ELSE 0
    BY <1>8, <1>4 DEF Searching, Stripped, StrippedForecast, Follow
  <2> QED
    BY <1>1, <1>2, <1>3, <1>4, <1>5, <1>8, <2>1 DEF Searched, c
<1>9. CASE s = 1
  <2>1. r = IF c = LF THEN 2 ELSE IF c = CR /\ callback = "file" THEN 1 ELSE 0
    BY <1>9, <1>4 DEF Searching, Stripped, StrippedForecast, Follow
  <2> QED
    BY <1>1, <1>2, <1>3, <1>4, <1>5, <1>9, <2>1 DEF Searched, c
<1>10. CASE s = 0
  <2>1. r = IF c = CR THEN 1 ELSE 0
    BY <1>10, <1>4 DEF Searching, Stripped, StrippedForecast, Follow
  <2> QED
    BY <1>1, <1>2, <1>3, <1>4, <1>5, <1>10, <2>1 DEF Searched, c
<1> QED
  BY <1>6, <1>7, <1>8, <1>9, <1>10

\* A packet is searched byte by byte.
LEMMA SearchPacket ==
    ASSUME NEW B, NEW packet \in Seq(B), header_state \in 0..4, at \in Nat,
           \A i \in 1..Len(packet) : packet[i] = page[at + i],
           Searched(at, header_state), Tidy(at + Len(packet))
    PROVE  \A i \in 0..Len(packet) : Searched(at + i, States(packet)[i])
<1> DEFINE n == Len(packet)  t == States(packet)
           Good == {i \in Nat : i <= n => Searched(at + i, t[i])}
<1>1. /\ t[0] = header_state /\ \A i \in 0..n : t[i] \in 0..4
      /\ \A i \in 1..n : t[i] = Searching(t[i - 1], packet[i])
  BY StatesAre
<1>2. n \in Nat
  OBVIOUS
<1> HIDE DEF n, t
<1>3. 0 \in Good
  BY <1>1
<1>4. ASSUME NEW i \in Nat, i \in Good PROVE i + 1 \in Good
  <2> SUFFICES ASSUME i + 1 <= n PROVE Searched(at + (i + 1), t[i + 1])
    OBVIOUS
  <2>1. PICK k \in Nat, j \in 1..n : k = at + i /\ j = i + 1 /\ j - 1 = i /\ k + 1 = at + j /\ k + 1 <= at + n
    <3>1. at + i \in Nat /\ i + 1 \in 1..n /\ (i + 1) - 1 = i /\ (at + i) + 1 = at + (i + 1) /\ (at + i) + 1 <= at + n
      BY <1>2
    <3> QED
      BY <3>1
  <2>2. t[i] \in 0..4 /\ Searched(k, t[i])
    BY <1>1, <1>2, <1>4, <2>1
  <2>3. t[j] = Searching(t[i], page[k + 1])
    BY <1>1, <2>1 DEF n
  <2>4. Tidy(k + 1)
    <3>1. \A x \in 2..k + 1 : x \in 2..at + n
      BY <1>2, <2>1
    <3>2. Tidy(at + n)
      BY DEF n
    <3> QED
      BY <3>1, <3>2 DEF Tidy
  <2>5. Searched(k + 1, Searching(t[i], page[k + 1]))
    BY <2>2, <2>4, SearchStep
  <2> QED
    BY <2>1, <2>3, <2>5
<1> HIDE DEF Good
<1>5. Nat \subseteq Good
  BY <1>3, <1>4, FromZero
<1> QED
  BY <1>2, <1>5 DEF Good, n, t
-----------------------------------------------------------------------------
(***************************************************************************)
(* What comes through is what follows the first empty line.                *)
(***************************************************************************)
First(e) == Ends(e) /\ \A d \in 1..e - 1 : ~Ends(d)

\* If the bytes that have come hold an empty line, they hold a first one.
LEMMA FirstEnd ==
    ASSUME NEW k \in Nat
    PROVE  (\E e \in 1..k : Ends(e)) <=> \E e \in 1..k : First(e)
<1> SUFFICES ASSUME \E e \in 1..k : Ends(e) PROVE \E e \in 1..k : First(e)
  BY DEF First
<1> DEFINE E == {e \in 1..k : Ends(e)}
<1>1. PICK e \in E : \A d \in E : e <= d
  BY Least, E \subseteq Nat, E # {}
<1>2. \A d \in 1..e - 1 : d \in 1..k /\ ~(e <= d)
  BY <1>1
<1>3. e \in 1..k /\ First(e)
  BY <1>1, <1>2 DEF First
<1> QED
  BY <1>3

\* What a packet of the answer has behind the empty line.
LEMMA BodyIs ==
    ASSUME page \in Seq(Range(page)), at \in Nat, NEW n \in PacketSizes, at + n <= Len(page),
           header_state \in 0..4, Searched(at, header_state), Tidy(at + n)
    PROVE  LET packet == SubSeq(page, at + 1, at + n) IN
           /\ header_state = 4 => Body(packet) = packet
           /\ ~(\E e \in 1..at + n : Ends(e)) => Body(packet) = <<>>
           /\ \A e \in at + 1..at + n : First(e) => Body(packet) = SubSeq(page, e + 1, at + n)
           /\ Searched(at + n, States(packet)[Len(packet)])
<1> DEFINE packet == SubSeq(page, at + 1, at + n)  t == States(packet)
           D == {i \in DOMAIN packet : t[i - 1] # 4}
<1>1. n \in Nat \ {0} /\ packet \in Seq(Bytes) /\ Len(packet) = n /\ \A i \in 1..n : packet[i] = page[at + i]
  BY PacketIs
<1>2. PICK a \in Nat, b \in Nat : a = at + 1 /\ b = at + n /\ 1 <= a /\ a <= b /\ b <= Len(page) /\ b - a + 1 = n
  <2>1. at + 1 \in Nat /\ at + n \in Nat /\ at + 1 <= at + n /\ 1 <= at + 1 /\ (at + n) - (at + 1) + 1 = n
    BY <1>1
  <2> QED
    BY <2>1, Zenon
<1>3. packet = SubSeq(page, a, b)
  BY <1>2
<1> HIDE DEF packet
<1>4. /\ t[0] = header_state /\ \A i \in 0..n : t[i] \in 0..4
      /\ \A i \in 1..n : t[i] = Searching(t[i - 1], packet[i])
  BY <1>1, StatesAre
<1>5. \A i \in 0..n : Searched(at + i, t[i])
  BY <1>1, SearchPacket
<1>6. DOMAIN packet = 1..n
  BY <1>1
<1>7. Body(packet) = SubSeq(packet, 1 + Cardinality(D), n)
  BY <1>1 DEF Body
<1>8. \A i \in 1..n : i \in D <=> ~\E e \in 1..at + (i - 1) : Ends(e)
  <2> SUFFICES ASSUME NEW i \in 1..n PROVE i \in D <=> ~\E e \in 1..at + (i - 1) : Ends(e)
    OBVIOUS
  <2>1. i - 1 \in 0..n
    BY <1>1
  <2>2. Searched(at + (i - 1), t[i - 1])
    BY <1>5, <2>1
  <2> HIDE DEF t
  <2> QED
    BY <1>6, <2>2 DEF Searched
<1>9. D \subseteq 1..n
  BY <1>6
<1> HIDE DEF D, t
<1>10. ASSUME header_state = 4 PROVE Body(packet) = packet
  <2>1. \E e \in 1..at : Ends(e)
    BY <1>10 DEF Searched
  <2>2. D = {}
    <3> SUFFICES ASSUME NEW i \in D PROVE FALSE
      OBVIOUS
    <3>1. i \in 1..n /\ ~\E e \in 1..at + (i - 1) : Ends(e)
      BY <1>8, <1>9
    <3>2. \A e \in 1..at : e \in 1..at + (i - 1)
      BY <1>1, <3>1
    <3> QED
      BY <2>1, <3>1, <3>2
  <2>3. Cardinality(D) = 0
    BY <2>2, FS_EmptySet
  <2>4. Body(packet) = SubSeq(packet, 1, n)
    BY <1>7, <2>3
  <2>5. SubSeq(SubSeq(page, a, b), 1, n) = SubSeq(page, a + 1 - 1, a + n - 1)
    <3>1. page \in Seq(Range(page)) /\ b <= Len(page) /\ 1 <= a /\ a <= b + 1
      BY <1>1, <1>2
    <3>2. n \in Nat /\ 1 <= n + 1 /\ a + n <= b + 1 /\ 1 \in Nat /\ 1 <= 1
      BY <1>1, <1>2
    <3> QED
      BY <3>1, <3>2, PartOfPart
  <2>6. a + 1 - 1 = a /\ a + n - 1 = b
    BY <1>1, <1>2
  <2> QED
    BY <1>3, <2>4, <2>5, <2>6
<1>11. ASSUME ~\E e \in 1..at + n : Ends(e) PROVE Body(packet) = <<>>
  <2>1. D = 1..n
    <3> SUFFICES ASSUME NEW i \in 1..n PROVE i \in D
      BY <1>9
    <3>1. \A e \in 1..at + (i - 1) : e \in 1..at + n
      BY <1>1
    <3> QED
      BY <1>8, <1>11, <3>1
  <2>2. Cardinality(1..n) = n
    BY <1>1, FS_Interval
  <2>3. Body(packet) = SubSeq(packet, 1 + n, n)
    BY <1>7, <2>1, <2>2
  <2>4. PICK m \in Nat : m = 1 + n /\ 1 <= m
    BY <1>1
  <2>5. SubSeq(packet, m, n) \in Seq(Bytes) /\ Len(SubSeq(packet, m, n)) = IF m <= n THEN n - m + 1 ELSE 0
    BY <1>1, <2>4, PartIs
  <2>6. Len(SubSeq(packet, m, n)) = 0
    BY <1>1, <2>4, <2>5
  <2> HIDE DEF packet
  <2>7. SubSeq(packet, m, n) = <<>>
    BY <2>5, <2>6, EmptySeq
  <2> QED
    BY <2>3, <2>4, <2>7
<1>12. ASSUME NEW e \in at + 1..at + n, First(e) PROVE Body(packet) = SubSeq(page, e + 1, at + n)
  <2>1. PICK m \in Nat : m = e - at /\ 1 <= m /\ m <= n /\ e = at + m
    BY <1>1, <1>12
  <2>2. D = 1..m
    <3>1. ASSUME NEW i \in 1..n PROVE i \in D <=> i <= m
      <4>1. CASE i <= m
        <5>1. \A d \in 1..at + (i - 1) : d \in 1..e - 1
          BY <1>1, <2>1, <4>1
        <5> QED
          BY <1>8, <1>12, <4>1, <5>1 DEF First
      <4>2. CASE i > m
        <5>1. e \in 1..at + (i - 1)
          BY <1>1, <2>1, <4>2
        <5> QED
          BY <1>1, <1>8, <1>12, <2>1, <4>2, <5>1 DEF First
      <4> QED
        BY <1>1, <2>1, <4>1, <4>2
    <3>2. \A i \in 1..m : i \in 1..n /\ i <= m
      BY <1>1, <2>1
    <3>3. \A i \in 1..n : i <= m => i \in 1..m
      BY <1>1, <2>1
    <3> QED
      BY <1>9, <3>1, <3>2, <3>3, Zenon
  <2>3. Cardinality(1..m) = m
    BY <2>1, FS_Interval
  <2>4. Body(packet) = SubSeq(packet, 1 + m, n)
    BY <1>7, <2>2, <2>3
  <2>5. PICK l \in Nat : l = 1 + m /\ 1 <= l /\ l <= n + 1
    BY <1>1, <2>1
  <2>6. SubSeq(SubSeq(page, a, b), l, n) = SubSeq(page, a + l - 1, a + n - 1)
    <3>1. a <= b + 1 /\ n \in Nat /\ a + n <= b + 1
      BY <1>1, <1>2
    <3> QED
      BY <1>2, <2>5, <3>1, PartOfPart
  <2>7. a + l - 1 = e + 1 /\ a + n - 1 = at + n
    BY <1>1, <1>2, <2>1, <2>5
  <2> QED
    BY <1>3, <2>4, <2>5, <2>6, <2>7
<1>13. Searched(at + n, States(packet)[Len(packet)])
  BY <1>1, <1>5, n \in 0..n DEF t
<1> QED
  BY <1>10, <1>11, <1>12, <1>13 DEF packet

\* What has come through, for every state of the search.
Kept ==
    callback # "news" /\ Tidy(at) =>
        /\ Searched(at, header_state)
        /\ ~(\E e \in 1..at : Ends(e)) => sent = <<>>
        /\ \A e \in 1..at : First(e) => sent = SubSeq(page, e + 1, at)

LEMMA InitKept == Init => Kept
<1> SUFFICES ASSUME Init PROVE Kept
  OBVIOUS
<1>1. at = 0 /\ header_state = 0 /\ sent = <<>> /\ 1..0 = {}
  BY DEF Init
<1>2. ~Return(0) /\ ~Line(0) /\ ~Second(0)
  BY DEF Return, Line, Second
<1> QED
  BY <1>1, <1>2 DEF Kept, Searched

LEMMA PacketKept ==
    ASSUME Typed, Kept, NEW n \in PacketSizes, at + n <= Len(page), at' = at + n,
           HeaderPacket(SubSeq(page, at + 1, at + n)), UNCHANGED <<callback, pieces, page>>
    PROVE  Kept'
<1> DEFINE packet == SubSeq(page, at + 1, at + n)
<1>1. n \in Nat \ {0} /\ at \in Nat /\ page \in Seq(Range(page)) /\ header_state \in 0..4 /\ Len(page) \in Nat
  BY PacketIs DEF Typed
<1>2. callback' = callback /\ page' = page
      /\ header_state' = States(packet)[Len(packet)] /\ sent' = sent \o Body(packet)
  BY DEF HeaderPacket
<1>3. packet \in Seq(Bytes)
  BY <1>1, PacketIs
<1> SUFFICES ASSUME callback # "news", Tidy(at + n)
             PROVE  /\ Searched(at + n, header_state')
                    /\ ~(\E e \in 1..at + n : Ends(e)) => sent' = <<>>
                    /\ \A e \in 1..at + n : First(e) => sent' = SubSeq(page, e + 1, at + n)
  <2>1. \A k : Ends(k)' <=> Ends(k)
    BY <1>2 DEF Ends, Second, Line, Return
  <2>2. \A k : First(k)' <=> First(k)
    BY <2>1 DEF First
  <2>3. (Searched(at, header_state))' <=> Searched(at + n, header_state')
    BY <1>2, <2>1 DEF Searched, Second, Line, Return
  <2>4. (Tidy(at))' <=> Tidy(at + n)
    BY <1>2 DEF Tidy
  <2> HIDE DEF packet
  <2> QED
    BY <1>2, <2>1, <2>2, <2>3, <2>4 DEF Kept
<1>4. Tidy(at)
  BY <1>1 DEF Tidy
<1>5. /\ Searched(at, header_state)
      /\ ~(\E e \in 1..at : Ends(e)) => sent = <<>>
      /\ \A e \in 1..at : First(e) => sent = SubSeq(page, e + 1, at)
  BY <1>4 DEF Kept
<1>6. /\ header_state = 4 => Body(packet) = packet
      /\ ~(\E e \in 1..at + n : Ends(e)) => Body(packet) = <<>>
      /\ \A e \in at + 1..at + n : First(e) => Body(packet) = SubSeq(page, e + 1, at + n)
      /\ Searched(at + n, States(packet)[Len(packet)])
  BY <1>1, <1>5, BodyIs
<1>7. Body(packet) \in Seq(Bytes) /\ sent \in Seq(Bytes)
  BY <1>1, <1>3, BodyType DEF Typed
<1>8. ASSUME ~\E e \in 1..at + n : Ends(e) PROVE sent' = <<>>
  <2>1. ~\E e \in 1..at : Ends(e)
    BY <1>1, <1>8
  <2> QED
    BY <1>2, <1>5, <1>6, <1>8, <2>1
<1>9. ASSUME NEW e \in 1..at + n, First(e) PROVE sent' = SubSeq(page, e + 1, at + n)
  <2>1. CASE e <= at
    <3>1. e \in 1..at /\ Ends(e)
      BY <1>1, <1>9, <2>1 DEF First
    <3>2. header_state = 4 /\ sent = SubSeq(page, e + 1, at)
      BY <1>5, <1>9, <3>1 DEF Searched
    <3>3. sent' = SubSeq(page, e + 1, at) \o packet
      BY <1>2, <1>6, <3>2
    <3>4. PICK a \in Nat, c \in Nat : a = e + 1 /\ c = at + n /\ 1 <= a /\ a <= at + 1 /\ at <= c /\ c <= Len(page)
      BY <1>1, <2>1
    <3>5. SubSeq(page, a, at) \o SubSeq(page, at + 1, c) = SubSeq(page, a, c)
      BY <1>1, <3>4, PartsMeet
    <3> QED
      BY <3>3, <3>4, <3>5
  <2>2. CASE e > at
    <3>1. e \in at + 1..at + n /\ ~\E d \in 1..at : Ends(d)
      BY <1>1, <1>9, <2>2 DEF First
    <3>2. sent = <<>> /\ Body(packet) = SubSeq(page, e + 1, at + n)
      BY <1>5, <1>6, <1>9, <3>1
    <3>3. sent' = <<>> \o Body(packet)
      BY <1>2, <3>2
    <3> QED
      BY <1>7, <3>2, <3>3
  <2> QED
    BY <1>1, <2>1, <2>2
<1> QED
  BY <1>2, <1>6, <1>8, <1>9

LEMMA StepKept == Typed /\ Kept /\ [Next]_vars => Kept'
<1> SUFFICES ASSUME Typed, Kept, [Next]_vars PROVE Kept'
  OBVIOUS
<1>1. CASE UNCHANGED vars
  BY <1>1 DEF Kept, vars, Tidy, Searched, First, Ends, Second, Line, Return
<1>2. CASE Arrives
  <2>1. PICK n \in PacketSizes :
            /\ at + n <= Len(page) /\ at' = at + n
            /\ HeaderPacket(SubSeq(page, at + 1, at + n)) \/ NewsPacket(SubSeq(page, at + 1, at + n))
            /\ UNCHANGED <<callback, pieces, page>>
    BY <1>2 DEF Arrives
  <2>2. CASE HeaderPacket(SubSeq(page, at + 1, at + n))
    BY <2>1, <2>2, PacketKept
  <2>3. CASE NewsPacket(SubSeq(page, at + 1, at + n))
    BY <2>1, <2>3 DEF NewsPacket, Kept
  <2> QED
    BY <2>1, <2>2, <2>3
<1> QED
  BY <1>1, <1>2 DEF Next

\* What follows the first empty line of the bytes that have come.
LEMMA AfterHeaderIs ==
    ASSUME page \in Seq(Range(page)), at \in 0..Len(page)
    PROVE  /\ ~(\E e \in 1..at : Ends(e)) => AfterHeader(Come) = <<>>
           /\ \A e \in 1..at : First(e) => AfterHeader(Come) = SubSeq(page, e + 1, at)
<1> DEFINE ends == {i \in 4..Len(Come) : SubSeq(Come, i - 3, i) = <<CR, LF, CR, LF>>}
<1>1. at \in Nat /\ at <= Len(page) /\ Len(page) \in Nat
  OBVIOUS
<1>2. Come \in Seq(Range(page)) /\ Len(Come) = at /\ \A i \in 1..at : Come[i] = page[i]
  <2>1. Len(Come) = IF 1 <= at THEN at - 1 + 1 ELSE 0
    BY <1>1, PartIs DEF Come
  <2>2. Come \in Seq(Range(page)) /\ \A i \in 1..at - 1 + 1 : Come[i] = page[1 + i - 1]
    BY <1>1, PartIs DEF Come
  <2>3. at - 1 + 1 = at /\ \A i \in 1..at : 1 + i - 1 = i
    BY <1>1
  <2> QED
    BY <1>1, <2>1, <2>2, <2>3
<1> HIDE DEF Come
<1>3. \A i \in 4..at : SubSeq(Come, i - 3, i) = <<CR, LF, CR, LF>> <=> Ends(i)
  <2> SUFFICES ASSUME NEW i \in 4..at PROVE SubSeq(Come, i - 3, i) = <<CR, LF, CR, LF>> <=> Ends(i)
    OBVIOUS
  <2>1. PICK a \in Nat : a = i - 3 /\ 1 <= a /\ a <= i /\ i - a + 1 = 4 /\ i \in Nat /\ i <= at
    BY <1>1
  <2> DEFINE p == SubSeq(Come, a, i)  q == <<CR, LF, CR, LF>>
  <2>2. p \in Seq(Range(page)) /\ Len(p) = 4 /\ \A j \in 1..4 : p[j] = Come[a + j - 1]
    <3>1. (IF a <= i THEN i - a + 1 ELSE 0) = 4
      BY <2>1
    <3> QED
      BY <1>2, <2>1, <3>1, PartIs
  <2>3. /\ p[1] = page[i - 3] /\ p[2] = page[i - 2] /\ p[3] = page[i - 1] /\ p[4] = page[i]
    <3>1. \A j \in 1..4 : a + j - 1 \in 1..at /\ p[j] = page[a + j - 1]
      <4> SUFFICES ASSUME NEW j \in 1..4 PROVE a + j - 1 \in 1..at /\ p[j] = page[a + j - 1]
        OBVIOUS
      <4>1. a + j - 1 \in 1..at
        BY <1>1, <2>1
      <4>2. p[j] = Come[a + j - 1]
        BY <2>2
      <4> HIDE DEF p
      <4> QED
        BY <1>2, <4>1, <4>2
    <3>2. a + 1 - 1 = i - 3 /\ a + 2 - 1 = i - 2 /\ a + 3 - 1 = i - 1 /\ a + 4 - 1 = i
      BY <2>1
    <3> QED
      BY <3>1, <3>2
  <2> HIDE DEF p
  <2>4. p = q <=> p[1] = CR /\ p[2] = LF /\ p[3] = CR /\ p[4] = LF
    <3>1. q \in Seq({CR, LF}) /\ Len(q) = 4 /\ q[1] = CR /\ q[2] = LF /\ q[3] = CR /\ q[4] = LF
      OBVIOUS
    <3> HIDE DEF q
    <3>2. ASSUME p[1] = CR, p[2] = LF, p[3] = CR, p[4] = LF PROVE p = q
      <4>1. \A j \in 1..4 : j = 1 \/ j = 2 \/ j = 3 \/ j = 4
        OBVIOUS
      <4>2. \A j \in 1..4 : p[j] = q[j]
        BY <3>1, <3>2, <4>1
      <4>3. \A j \in 1..Len(p) : p[j] = q[j]
        BY <2>2, <4>2
      <4>4. p \in Seq(Range(page) \cup {CR, LF}) /\ q \in Seq(Range(page) \cup {CR, LF})
        BY <2>2, <3>1, SeqMonotonic, Range(page) \subseteq Range(page) \cup {CR, LF},
           {CR, LF} \subseteq Range(page) \cup {CR, LF}
      <4>5. Len(p) = Len(q)
        BY <2>2, <3>1
      <4> QED
        BY <4>3, <4>4, <4>5, SeqEqual
    <3> QED
      BY <3>1, <3>2
  <2>5. Ends(i) <=> page[i - 3] = CR /\ page[i - 2] = LF /\ page[i - 1] = CR /\ page[i] = LF
    <3>1. (i - 1) - 1 = i - 2 /\ (i - 2) - 1 = i - 3 /\ i - 3 >= 1
      BY <2>1
    <3> QED
      BY <3>1 DEF Ends, Second, Line, Return
  <2> QED
    BY <2>1, <2>3, <2>4, <2>5 DEF p, q
<1>4. ends = {i \in 4..at : Ends(i)}
  BY <1>2, <1>3
<1>5. \A e \in 1..at : Ends(e) => e \in 4..at
  BY <1>1, EndsLate
<1>6. AfterHeader(Come) = IF ends = {} THEN <<>>
                          ELSE SubSeq(Come, 1 + CHOOSE i \in ends : \A j \in ends : i <= j, Len(Come))
  BY DEF AfterHeader
<1> HIDE DEF ends
<1>7. ASSUME ~\E e \in 1..at : Ends(e) PROVE AfterHeader(Come) = <<>>
  <2>1. ends = {}
    BY <1>1, <1>4, <1>7
  <2> QED
    BY <1>6, <2>1
<1>8. ASSUME NEW e \in 1..at, First(e) PROVE AfterHeader(Come) = SubSeq(page, e + 1, at)
  <2>1. e \in ends
    BY <1>4, <1>5, <1>8 DEF First
  <2>2. \A j \in ends : e <= j
    BY <1>1, <1>4, <1>8 DEF First
  <2>3. \A i \in ends : (\A j \in ends : i <= j) => i = e
    BY <1>1, <1>4, <2>1, <2>2
  <2>4. e = CHOOSE i \in ends : \A j \in ends : i <= j
    BY <2>1, <2>2, <2>3
  <2>5. AfterHeader(Come) = SubSeq(Come, 1 + e, at)
    BY <1>2, <1>6, <2>1, <2>4
  <2>6. PICK l \in Nat : l = 1 + e /\ 1 <= l /\ l <= at + 1 /\ 1 + l - 1 = e + 1
    BY <1>1
  <2>7. SubSeq(SubSeq(page, 1, at), l, at) = SubSeq(page, 1 + l - 1, 1 + at - 1)
    <3>1. 1 <= at + 1 /\ 1 + at <= at + 1 /\ 1 \in Nat
      BY <1>1
    <3> QED
      BY <1>1, <2>6, <3>1, PartOfPart
  <2>8. 1 + at - 1 = at
    BY <1>1
  <2> QED
    BY <2>5, <2>6, <2>7, <2>8 DEF Come
<1> QED
  BY <1>7, <1>8

LEMMA KeptIsRight == Typed /\ Kept => BodyIsKept
<1> SUFFICES ASSUME Typed, Kept, callback # "news", Tidy(at) PROVE sent = AfterHeader(Come)
  BY DEF BodyIsKept, Tidy
<1>1. at \in Nat
  BY DEF Typed
<1>2. CASE \E e \in 1..at : First(e)
  <2>1. PICK e \in 1..at : First(e)
    BY <1>2
  <2>2. AfterHeader(Come) = SubSeq(page, e + 1, at)
    BY <2>1, AfterHeaderIs DEF Typed
  <2> QED
    BY <2>1, <2>2 DEF Kept
<1>3. CASE ~\E e \in 1..at : First(e)
  <2>1. ~\E e \in 1..at : Ends(e)
    BY <1>1, <1>3, FirstEnd
  <2> QED
    BY <2>1, AfterHeaderIs DEF Kept, Typed
<1> QED
  BY <1>2, <1>3
-----------------------------------------------------------------------------
(***************************************************************************)
(* When the buffer ends with the opening tag.                              *)
(***************************************************************************)
\* What can follow is no opening tag: each "<" is followed by a ">".
Quiet(s) == \A i \in 1..Len(s) : s[i] = "<" => \E l \in i + 1..Len(s) : s[l] = ">"
NoTag(s) == \A i \in 1..Len(s) : s[i] # "<"

\* The buffer ends with the bytes a to j of a piece, or as many as a tag has.
Trails(s, p, a, j) ==
    \A i \in a..j : j - i < Len(Tag) => Len(s) - (j - i) >= 1 /\ s[Len(s) - (j - i)] = Small(p[i])

LEMMA SmallIs == \A c : (Small(c) = "<" <=> c = "<") /\ (Small(c) = ">" <=> c = ">")
<1>1. \A c \in DOMAIN Lower : c \notin {"<", ">"} /\ Lower[c] \notin {"<", ">"}
  BY TextAssumption DEF TextAssumption, Range
<1> QED
  BY <1>1 DEF Small

LEMMA MatchIs ==
    ASSUME NEW B, NEW s \in Seq(B)
    PROVE  IsSuffix(Tag, s) <=>
              Len(Tag) <= Len(s) /\ \A i \in 1..Len(Tag) : Tag[i] = s[Len(s) - Len(Tag) + i]
<1>1. Tag \in Seq(B \cup Range(Tag)) /\ s \in Seq(B \cup Range(Tag))
  <2>1. Range(Tag) \subseteq B \cup Range(Tag) /\ B \subseteq B \cup Range(Tag)
    OBVIOUS
  <2>2. Tag \in Seq(Range(Tag))
    BY TagIs
  <2> QED
    BY <2>1, <2>2, SeqMonotonic
<1> QED
  BY <1>1, SuffixIs

\* Only a ">" completes a tag.
LEMMA NoMatchBefore ==
    ASSUME NEW B, NEW s \in Seq(B), NEW c \in B, c # ">"
    PROVE  ~IsSuffix(Tag, Append(s, c))
<1> SUFFICES ASSUME IsSuffix(Tag, Append(s, c)) PROVE FALSE
  OBVIOUS
<1> DEFINE u == Append(s, c)  m == Len(Tag)
<1>1. u \in Seq(B) /\ Len(u) \in Nat /\ u[Len(u)] = c
  OBVIOUS
<1> HIDE DEF u
<1>2. m <= Len(u) /\ \A i \in 1..m : Tag[i] = u[Len(u) - m + i]
  BY <1>1, MatchIs DEF u
<1>3. m \in 1..m /\ Len(u) - m + m = Len(u)
  BY <1>1, TagIs
<1>4. Tag[m] = u[Len(u)]
  BY <1>2, <1>3
<1> QED
  BY <1>1, <1>3, <1>4, TagIs

LEMMA NoMatchNoTag ==
    ASSUME NEW B, NEW s \in Seq(B), NoTag(s)
    PROVE  ~IsSuffix(Tag, s)
<1> SUFFICES ASSUME IsSuffix(Tag, s) PROVE FALSE
  OBVIOUS
<1> DEFINE m == Len(Tag)
<1>1. m <= Len(s) /\ \A i \in 1..m : Tag[i] = s[Len(s) - m + i]
  BY MatchIs
<1>2. 1 \in 1..m /\ Len(s) - m + 1 \in 1..Len(s)
  BY <1>1, TagIs
<1>3. Tag[1] = s[Len(s) - m + 1] /\ Tag[1] = "<"
  BY <1>1, <1>2, TagIs
<1> QED
  BY <1>2, <1>3 DEF NoTag

LEMMA NoMatchQuiet ==
    ASSUME NEW B, NEW s \in Seq(B), NEW c \in B, Quiet(s), c # "<"
    PROVE  ~IsSuffix(Tag, Append(s, c))
<1> SUFFICES ASSUME IsSuffix(Tag, Append(s, c)) PROVE FALSE
  OBVIOUS
<1> DEFINE u == Append(s, c)  m == Len(Tag)  n == Len(s)
<1>1. u \in Seq(B) /\ n \in Nat /\ Len(u) = n + 1 /\ u[n + 1] = c /\ \A i \in 1..n : u[i] = s[i]
  OBVIOUS
<1> HIDE DEF u, n
<1>2. m <= n + 1 /\ \A i \in 1..m : Tag[i] = u[n + 1 - m + i]
  <2>1. IsSuffix(Tag, u)
    BY DEF u
  <2>2. m <= Len(u) /\ \A i \in 1..m : Tag[i] = u[Len(u) - m + i]
    BY <1>1, <2>1, MatchIs
  <2> QED
    BY <1>1, <2>2
<1>3. PICK g \in 1..n : g = n + 1 - m + 1
  <2>1. n + 1 - m + 1 \in 1..n
    BY <1>1, <1>2, TagIs
  <2> QED
    BY <2>1
<1>4. 1 \in 1..m
  BY TagIs
<1>5. s[g] = "<"
  BY <1>1, <1>2, <1>3, <1>4, TagIs
<1>6. PICK l \in g + 1..n : s[l] = ">"
  BY <1>3, <1>5 DEF Quiet, n
<1>7. PICK i \in 1..m : l = n + 1 - m + i /\ i # m
  <2>1. l - (n + 1 - m) \in 1..m /\ l = n + 1 - m + (l - (n + 1 - m)) /\ l - (n + 1 - m) # m
    BY <1>1, <1>2, <1>3, TagIs
  <2> QED
    BY <2>1
<1>8. l \in 1..n
  BY <1>1, <1>3
<1>9. Tag[i] = ">"
  BY <1>1, <1>2, <1>6, <1>7, <1>8
<1> QED
  BY <1>7, <1>9, TagIs

\* Through a tag of the feed: it is the opening one, or the rest of one.
LEMMA MatchBehind ==
    ASSUME NEW B, NEW s \in Seq(B), NEW p, Len(p) \in Nat, DOMAIN p = 1..Len(p), Within(p, "<", ">"),
           Trails(s, p, 1, Len(p))
    PROVE  IsSuffix(Tag, s) <=> IsOpening(p)
<1> DEFINE m == Len(Tag)  l == Len(p)  n == Len(s)
<1>1. n \in Nat /\ m \in Nat /\ m > 1 /\ l \in Nat /\ l > 1
  BY TagIs DEF Within
<1>2. \A i \in 1..l : l - i < m => n - (l - i) >= 1 /\ s[n - (l - i)] = Small(p[i])
  BY DEF Trails
<1>3. IsSuffix(Tag, s) <=> m <= n /\ \A i \in 1..m : Tag[i] = s[n - m + i]
  BY MatchIs
<1>4. \A i \in 1..l : p[i] = "<" => i = 1
  BY DEF Within
<1>5. p[1] = "<"
  BY <1>1 DEF Within
<1> HIDE DEF m, l, n
<1>6. ASSUME l = m, \A i \in 1..m : Small(p[i]) = Tag[i] PROVE IsSuffix(Tag, s)
  <2>1. 1 \in 1..l /\ l - 1 < m /\ n - (l - 1) >= 1
    BY <1>1, <1>2, <1>6
  <2>2. m <= n
    BY <1>1, <1>6, <2>1
  <2>3. ASSUME NEW i \in 1..m PROVE Tag[i] = s[n - m + i]
    <3>1. i \in 1..l /\ l - i < m /\ n - (l - i) = n - m + i
      BY <1>1, <1>6
    <3> QED
      BY <1>2, <1>6, <3>1
  <2> QED
    BY <1>3, <2>2, <2>3
<1>7. ASSUME IsSuffix(Tag, s) PROVE l = m /\ \A i \in 1..m : Small(p[i]) = Tag[i]
  <2>1. m <= n /\ \A i \in 1..m : Tag[i] = s[n - m + i]
    BY <1>3, <1>7
  <2>2. ASSUME l > m PROVE FALSE
    <3>1. PICK i \in 2..l : i = l - m + 1 /\ l - i = m - 1
      <4>1. l - m + 1 \in 2..l /\ l - (l - m + 1) = m - 1
        BY <1>1, <2>2
      <4> QED
        BY <4>1
    <3>2. i \in 1..l /\ l - i < m /\ n - (l - i) = n - m + 1 /\ 1 \in 1..m
      BY <1>1, <3>1
    <3>3. Small(p[i]) = Tag[1]
      BY <1>2, <2>1, <3>2
    <3> QED
      BY <1>4, <3>1, <3>2, <3>3, SmallIs, TagIs DEF m
  <2>3. ASSUME l < m PROVE FALSE
    <3>1. PICK k \in 2..m : k = m - l + 1 /\ n - m + k = n - (l - 1)
      <4>1. m - l + 1 \in 2..m /\ n - m + (m - l + 1) = n - (l - 1)
        BY <1>1, <2>3
      <4> QED
        BY <4>1
    <3>2. 1 \in 1..l /\ l - 1 < m /\ k \in 1..m
      BY <1>1, <2>3, <3>1
    <3>3. Tag[k] = Small(p[1])
      BY <1>2, <2>1, <3>1, <3>2
    <3> QED
      BY <1>5, <3>1, <3>2, <3>3, SmallIs, TagIs DEF m
  <2>4. l = m
    BY <1>1, <2>2, <2>3
  <2>5. ASSUME NEW i \in 1..m PROVE Small(p[i]) = Tag[i]
    <3>1. i \in 1..l /\ l - i < m /\ n - (l - i) = n - m + i
      BY <1>1, <2>4
    <3> QED
      BY <1>2, <2>1, <3>1
  <2> QED
    BY <2>4, <2>5
<1>8. IsOpening(p) <=> l = m /\ \A i \in 1..l : Small(p[i]) = Tag[i]
  BY DEF IsOpening, m, l
<1> QED
  BY <1>6, <1>7, <1>8

LEMMA NoMatchRest ==
    ASSUME NEW B, NEW s \in Seq(B), NEW p, Len(p) \in Nat, DOMAIN p = 1..Len(p), Within(p, "<", ">"),
           Trails(s, p, 2, Len(p)), ~IsRest(p)
    PROVE  ~IsSuffix(Tag, s)
<1> SUFFICES ASSUME IsSuffix(Tag, s) PROVE FALSE
  OBVIOUS
<1> DEFINE m == Len(Tag)  l == Len(p)  n == Len(s)
<1>1. n \in Nat /\ m \in Nat /\ m > 1 /\ l \in Nat /\ l > 1
  BY TagIs DEF Within
<1>2. \A i \in 2..l : l - i < m => s[n - (l - i)] = Small(p[i])
  BY DEF Trails
<1>3. m <= n /\ \A i \in 1..m : Tag[i] = s[n - m + i]
  BY MatchIs
<1>4. \A i \in 1..l : p[i] = "<" => i = 1
  BY DEF Within
<1>5. ~(l <= m /\ \A i \in 2..l : Small(p[i]) = Tag[m - l + i])
  BY DEF IsRest
<1> HIDE DEF m, l, n
<1>6. ASSUME l > m PROVE FALSE
  <2>1. PICK i \in 2..l : i = l - m + 1 /\ l - i = m - 1
    <3>1. l - m + 1 \in 2..l /\ l - (l - m + 1) = m - 1
      BY <1>1, <1>6
    <3> QED
      BY <3>1
  <2>2. i \in 1..l /\ l - i < m /\ n - (l - i) = n - m + 1 /\ 1 \in 1..m
    BY <1>1, <2>1
  <2>3. Small(p[i]) = Tag[1]
    BY <1>2, <1>3, <2>1, <2>2
  <2> QED
    BY <1>4, <2>1, <2>2, <2>3, SmallIs, TagIs DEF m
<1>7. ASSUME l <= m, NEW i \in 2..l PROVE Small(p[i]) = Tag[m - l + i]
  <2>1. PICK k \in 1..m : k = m - l + i /\ n - m + k = n - (l - i) /\ l - i < m
    <3>1. m - l + i \in 1..m /\ n - m + (m - l + i) = n - (l - i) /\ l - i < m
      BY <1>1, <1>7
    <3> QED
      BY <3>1
  <2>2. Small(p[i]) = s[n - (l - i)] /\ Tag[k] = s[n - m + k]
    BY <1>2, <1>3, <2>1
  <2> QED
    BY <2>1, <2>2
<1> QED
  BY <1>1, <1>5, <1>6, <1>7

\* What one more byte, and a shift of the buffer, leave of these.
LEMMA BufferGrows ==
    ASSUME NEW B, NEW s \in Seq(B), NEW c \in B
    PROVE  /\ Quiet(s) /\ c # "<" => Quiet(Append(s, c))
           /\ c = ">" => Quiet(Append(s, c))
           /\ NoTag(s) /\ c # "<" => NoTag(Append(s, c))
<1> DEFINE u == Append(s, c)  n == Len(s)
<1>1. n \in Nat /\ Len(u) = n + 1 /\ u[n + 1] = c /\ \A i \in 1..n : u[i] = s[i]
  OBVIOUS
<1> HIDE DEF u, n
<1>2. ASSUME Quiet(s), c # "<" PROVE Quiet(u)
  <2> SUFFICES ASSUME NEW i \in 1..n + 1, u[i] = "<" PROVE \E l \in i + 1..n + 1 : u[l] = ">"
    BY <1>1 DEF Quiet
  <2>1. i \in 1..n /\ s[i] = "<"
    BY <1>1, <1>2
  <2>2. PICK l \in i + 1..n : s[l] = ">"
    BY <1>2, <2>1 DEF Quiet, n
  <2>3. l \in 1..n /\ l \in i + 1..n + 1
    BY <1>1
  <2> QED
    BY <1>1, <2>2, <2>3
<1>3. ASSUME c = ">" PROVE Quiet(u)
  <2> SUFFICES ASSUME NEW i \in 1..n + 1, u[i] = "<" PROVE \E l \in i + 1..n + 1 : u[l] = ">"
    BY <1>1 DEF Quiet
  <2>1. i # n + 1
    BY <1>1, <1>3
  <2>2. n + 1 \in i + 1..n + 1
    BY <1>1, <2>1
  <2> QED
    BY <1>1, <1>3, <2>2
<1>4. ASSUME NoTag(s), c # "<" PROVE NoTag(u)
  <2> SUFFICES ASSUME NEW i \in 1..n + 1 PROVE u[i] # "<"
    BY <1>1 DEF NoTag
  <2>1. i = n + 1 \/ i \in 1..n
    BY <1>1
  <2> QED
    BY <1>1, <1>4, <2>1 DEF NoTag, n
<1> QED
  BY <1>2, <1>3, <1>4 DEF u

LEMMA TrailsGrows ==
    ASSUME NEW B, NEW s \in Seq(B), NEW p, NEW a \in Nat, NEW j \in Nat, Trails(s, p, a, j), Small(p[j + 1]) \in B
    PROVE  Trails(Append(s, Small(p[j + 1])), p, a, j + 1)
<1> DEFINE c == Small(p[j + 1])  u == Append(s, c)  n == Len(s)
<1>1. n \in Nat /\ Len(u) = n + 1 /\ u[n + 1] = c /\ \A i \in 1..n : u[i] = s[i]
  OBVIOUS
<1>a. c = Small(p[j + 1])
  OBVIOUS
<1> HIDE DEF u, n, c
<1>4. ASSUME NEW i \in a..j + 1, j + 1 - i < Len(Tag)
      PROVE  n + 1 - (j + 1 - i) >= 1 /\ u[n + 1 - (j + 1 - i)] = Small(p[i])
  <2>1. CASE i = j + 1
    <3>1. n + 1 - (j + 1 - i) = n + 1
      BY <1>1, <2>1
    <3>2. u[n + 1 - (j + 1 - i)] = c
      BY <1>1, <3>1
    <3> QED
      BY <1>1, <1>a, <2>1, <3>1, <3>2
  <2>2. CASE i # j + 1
    <3>1. i \in a..j /\ j - i < Len(Tag) /\ n + 1 - (j + 1 - i) = n - (j - i)
      BY <1>1, <1>4, <2>2, TagIs
    <3>2. n - (j - i) >= 1 /\ s[n - (j - i)] = Small(p[i])
      BY <3>1 DEF Trails, n
    <3>3. n - (j - i) \in 1..n
      BY <1>1, <3>1, <3>2
    <3> QED
      BY <1>1, <3>1, <3>2, <3>3
  <2> QED
    BY <2>1, <2>2
<1>5. Trails(u, p, a, j + 1)
  BY <1>1, <1>4 DEF Trails
<1> QED
  BY <1>5 DEF u, c

LEMMA ShiftedIs ==
    ASSUME NEW B, NEW u \in Seq(B)
    PROVE  \E d \in Nat : /\ Shifted(u) \in Seq(B) /\ Len(u) = d + Len(Shifted(u))
                          /\ \A i \in 1..Len(Shifted(u)) : Shifted(u)[i] = u[d + i]
                          /\ d = 0 \/ Len(Shifted(u)) = Len(Tag)
<1>1. CASE Len(u) >= ParseBuf
  <2>0. PICK d \in Nat : d = Len(u) - Len(Tag)
    <3>1. Len(u) - Len(Tag) \in Nat
      BY <1>1, TagIs
    <3> QED
      BY <3>1
  <2>1. PICK k \in Nat : k = Len(u) - Len(Tag) + 1 /\ k = d + 1 /\ 1 <= k /\ k <= Len(u)
                          /\ Len(u) - k + 1 = Len(Tag) /\ Len(u) = d + Len(Tag)
    <3>1. d + 1 \in Nat /\ d + 1 = Len(u) - Len(Tag) + 1 /\ 1 <= d + 1 /\ d + 1 <= Len(u)
          /\ Len(u) - (d + 1) + 1 = Len(Tag) /\ Len(u) = d + Len(Tag)
      BY <2>0, TagIs
    <3> QED
      BY <3>1
  <2> DEFINE v == SubSeq(u, k, Len(u))
  <2>2. v \in Seq(B) /\ Len(v) = Len(Tag) /\ \A i \in 1..Len(Tag) : v[i] = u[k + i - 1]
    BY <2>1, PartIs
  <2>3. Shifted(u) = v
    BY <1>1, <2>1 DEF Shifted
  <2> HIDE DEF v
  <2>4. \A i \in 1..Len(Tag) : k + i - 1 = d + i
    BY <2>1
  <2>5. v \in Seq(B) /\ Len(u) = d + Len(v) /\ (\A i \in 1..Len(v) : v[i] = u[d + i]) /\ Len(v) = Len(Tag)
    BY <2>1, <2>2, <2>4
  <2> QED
    BY <2>3, <2>5
<1>2. CASE ~(Len(u) >= ParseBuf)
  <2>1. Shifted(u) = u /\ \A i \in 1..Len(u) : 0 + i = i
    BY <1>2 DEF Shifted
  <2> QED
    BY <2>1
<1> QED
  BY <1>1, <1>2

LEMMA ShiftKeeps ==
    ASSUME NEW B, NEW u \in Seq(B)
    PROVE  /\ Quiet(u) => Quiet(Shifted(u))
           /\ NoTag(u) => NoTag(Shifted(u))
           /\ \A p, a, j : a \in Nat /\ j \in Nat /\ Trails(u, p, a, j) => Trails(Shifted(u), p, a, j)
<1> DEFINE v == Shifted(u)  n == Len(v)
<1>1. PICK d \in Nat : /\ v \in Seq(B) /\ Len(u) = d + n /\ \A i \in 1..n : v[i] = u[d + i]
                       /\ d = 0 \/ n = Len(Tag)
  BY ShiftedIs
<1> HIDE DEF v
<1>2. n \in Nat
  BY <1>1
<1> HIDE DEF n
<1>3. ASSUME Quiet(u) PROVE Quiet(v)
  <2> SUFFICES ASSUME NEW i \in 1..n, v[i] = "<" PROVE \E l \in i + 1..n : v[l] = ">"
    BY DEF Quiet, n
  <2>1. d + i \in 1..d + n /\ u[d + i] = "<"
    BY <1>1, <1>2
  <2>2. PICK l \in d + i + 1..d + n : u[l] = ">"
    BY <1>1, <1>3, <2>1 DEF Quiet
  <2>3. PICK k \in i + 1..n : k = l - d /\ l = d + k /\ k \in 1..n
    <3>1. l - d \in i + 1..n /\ l = d + (l - d) /\ l - d \in 1..n
      BY <1>2
    <3> QED
      BY <3>1
  <2> QED
    BY <1>1, <2>2, <2>3
<1>4. ASSUME NoTag(u) PROVE NoTag(v)
  <2> SUFFICES ASSUME NEW i \in 1..n PROVE v[i] # "<"
    BY DEF NoTag, n
  <2>1. d + i \in 1..d + n
    BY <1>2
  <2> QED
    BY <1>1, <1>4, <2>1 DEF NoTag
<1>5. ASSUME NEW p, NEW a \in Nat, NEW j \in Nat, Trails(u, p, a, j) PROVE Trails(v, p, a, j)
  <2> SUFFICES ASSUME NEW i \in a..j, j - i < Len(Tag) PROVE n - (j - i) >= 1 /\ v[n - (j - i)] = Small(p[i])
    BY DEF Trails, n
  <2>0. Len(u) - (j - i) >= 1 /\ u[Len(u) - (j - i)] = Small(p[i])
    BY <1>5 DEF Trails
  <2>9. Len(u) = d + n
    BY <1>1
  <2>1. d + n - (j - i) >= 1 /\ u[d + n - (j - i)] = Small(p[i])
    BY <1>2, <2>0, <2>9
  <2>2. n - (j - i) >= 1
    BY <1>1, <1>2, <2>1, TagIs
  <2>3. PICK x \in 1..n : x = n - (j - i) /\ d + x = d + n - (j - i)
    <3>1. n - (j - i) \in 1..n /\ d + (n - (j - i)) = d + n - (j - i)
      BY <1>2, <2>2
    <3> QED
      BY <3>1
  <2> QED
    BY <1>1, <2>1, <2>2, <2>3
<1> QED
  BY <1>3, <1>4, <1>5 DEF v
-----------------------------------------------------------------------------
(***************************************************************************)
(* The feed: its pieces, and the titles in the first of them.              *)
(***************************************************************************)
Feeding == pieces \in Feeds /\ page = FlattenSeq(pieces)
Count == Len(pieces)

LEMMA PiecesAre ==
    ASSUME Feeding
    PROVE  /\ pieces \in Seq(Seq(Bytes)) /\ Count \in Nat /\ IsFeed(pieces)
           /\ \E b : AreJoined(pieces, page, b)
<1>1. /\ pieces \in Seq(Range(pieces)) /\ IsFeed(pieces)
      /\ \A i \in DOMAIN pieces : pieces[i] \in Seq(Range(pieces[i]))
  BY TextAssumption DEF TextAssumption, Feeding
<1> DEFINE B == UNION {Range(pieces[i]) : i \in DOMAIN pieces}
<1>2. \A i \in DOMAIN pieces : pieces[i] \in Seq(B)
  <2> SUFFICES ASSUME NEW i \in DOMAIN pieces PROVE pieces[i] \in Seq(B)
    OBVIOUS
  <2>1. Range(pieces[i]) \subseteq B
    OBVIOUS
  <2> QED
    BY <1>1, <2>1, SeqMonotonic
<1> HIDE DEF B
<1>3. pieces \in Seq(Seq(B))
  BY <1>1, <1>2, SeqDef
<1>4. PICK b : AreJoined(pieces, page, b)
  BY <1>3, FlatJoins DEF Feeding
<1>5. page \in Seq(B)
  BY <1>3, FlattenType DEF Feeding
<1>6. ASSUME NEW i \in 1..Len(pieces) PROVE pieces[i] \in Seq(Bytes)
  <2>1. ASSUME NEW j \in 1..Len(pieces[i]) PROVE pieces[i][j] \in Bytes
    <3>1. page[b[i - 1] + j] = pieces[i][j] /\ b[i] = b[i - 1] + Len(pieces[i])
      BY <1>4 DEF AreJoined
    <3>2. b[i - 1] \in 0..Len(page) /\ b[i] \in 0..Len(page)
      <4>1. i - 1 \in 0..Len(pieces) /\ i \in 0..Len(pieces)
        BY <1>3
      <4> QED
        BY <1>4, <4>1 DEF AreJoined
    <3>3. Len(page) \in Nat /\ DOMAIN page = 1..Len(page) /\ Len(pieces[i]) \in Nat
      BY <1>3, <1>5
    <3>4. b[i - 1] + j \in DOMAIN page
      BY <3>1, <3>2, <3>3
    <3> QED
      BY <3>1, <3>4 DEF Bytes, Range
  <2>2. pieces[i] \in Seq(B)
    BY <1>3
  <2> QED
    BY <2>1, <2>2, SeqDef
<1>7. pieces \in Seq(Seq(Bytes))
  <2>1. Len(pieces) \in Nat /\ pieces \in [1..Len(pieces) -> Seq(B)]
    BY <1>3, LenProperties
  <2>2. pieces \in [1..Len(pieces) -> Seq(Bytes)]
    BY <1>6, <2>1
  <2> QED
    BY <2>1, <2>2, SeqDef
<1> QED
  BY <1>1, <1>4, <1>7 DEF Count

\* The three kinds of pieces.
Kinds(p) ==
    /\ p \in Seq(Bytes) /\ Len(p) \in Nat \ {0} /\ DOMAIN p = 1..Len(p)
    /\ p[1] = "<" => Within(p, "<", ">")
    /\ p[1] = "&" => Within(p, "&", ";") /\ Len(p) <= EntityBuf
    /\ p[1] # "<" => \A i \in 1..Len(p) : p[i] # "<"
    /\ p[1] \notin {"<", "&"} => \A i \in 1..Len(p) : p[i] \notin {"<", "&"}

LEMMA PieceIs == ASSUME Feeding, NEW k \in 0..Count - 1 PROVE Kinds(pieces[k + 1])
<1> DEFINE p == pieces[k + 1]
<1>1. pieces \in Seq(Seq(Bytes)) /\ Count \in Nat /\ IsFeed(pieces)
  BY PiecesAre
<1>2. k + 1 \in 1..Len(pieces)
  BY <1>1 DEF Count
<1>3. p \in Seq(Bytes) /\ IsPiece(p)
  BY <1>1, <1>2 DEF IsFeed
<1> HIDE DEF p
<1>4. DOMAIN p = 1..Len(p) /\ Len(p) \in Nat
  BY <1>3
<1>5. \A x, y : Within(p, x, y) => Len(p) > 1 /\ p[1] = x
  <2> SUFFICES ASSUME NEW x, NEW y, Within(p, x, y) PROVE Len(p) > 1 /\ p[1] = x
    OBVIOUS
  <2>1. Len(p) > 1
    BY DEF Within
  <2>2. 1 \in DOMAIN p
    BY <1>4, <2>1
  <2> QED
    BY <2>1, <2>2 DEF Within
<1>6. \A i \in 1..Len(p) : p[i] \in Range(p)
  BY <1>4 DEF Range
<1>7. ASSUME Within(p, "<", ">") PROVE Kinds(p)
  <2>1. Len(p) \in Nat \ {0} /\ p[1] = "<"
    BY <1>4, <1>5, <1>7
  <2> QED
    BY <1>3, <1>4, <1>7, <2>1 DEF Kinds
<1>8. ASSUME Within(p, "&", ";"), Len(p) <= EntityBuf, "<" \notin Range(p) PROVE Kinds(p)
  <2>0. Len(p) > 1 /\ p[1] = "&"
    BY <1>5, <1>8, Zenon
  <2>1. Len(p) \in Nat \ {0} /\ p[1] = "&"
    BY <1>4, <2>0
  <2>2. \A i \in 1..Len(p) : p[i] # "<"
    BY <1>6, <1>8
  <2> QED
    BY <1>3, <1>4, <1>8, <2>1, <2>2 DEF Kinds
<1>9. ASSUME p # <<>>, Range(p) \cap {"<", "&"} = {} PROVE Kinds(p)
  <2>1. Len(p) \in Nat \ {0} /\ 1 \in 1..Len(p)
    BY <1>3, <1>9
  <2>2. \A i \in 1..Len(p) : p[i] \notin {"<", "&"}
    BY <1>6, <1>9
  <2> QED
    BY <1>3, <1>4, <2>1, <2>2 DEF Kinds
<1> QED
  BY <1>3, <1>7, <1>8, <1>9 DEF IsPiece, p

LEMMA OpenedIs ==
    ASSUME Feeding
    PROVE  /\ Opened[0] = 0
           /\ \A k \in 0..Count - 1 :
                 Opened[k + 1] = IF pieces[k + 1][1] # "<" THEN Opened[k]
                                 ELSE IF Opened[k] = 0 /\ IsOpening(pieces[k + 1]) THEN k + 1 ELSE 0
<1> DEFINE n == Count
           Go(o, i) == IF pieces[i][1] # "<" THEN o
                       ELSE IF o = 0 /\ IsOpening(pieces[i]) THEN i ELSE 0
           g == CHOOSE w : w = [i \in 0..n |-> IF i = 0 THEN 0 ELSE Go(w[i - 1], i)]
           step == [p \in Nat \X (0 + 1..n) |-> Go(p[1], p[2])]
<1>1. n \in Nat
  BY PiecesAre
<1>9. Opened = g
  BY DEF Opened, Count
<1>2. step \in [Nat \X (0 + 1..n) -> Nat]
      /\ \A u \in Nat, i \in 0 + 1..n : step[<<u, i>>] = Go(u, i)
  BY <1>1
<1> HIDE DEF step, n, Go
<1>3. PICK w : IsIterate(w, Nat, 0, n, 0, step)
  BY <1>1, <1>2, Iterates, 0 \in Nat
<1>4. w = [i \in 0..n |-> IF i = 0 THEN 0 ELSE Go(w[i - 1], i)]
  <2>0. w \in [0..n -> Nat] /\ \A i \in 0..n : w[i] = IF i = 0 THEN 0 ELSE step[<<w[i - 1], i>>]
    BY <1>3 DEF IsIterate
  <2>1. \A i \in 0..n : i # 0 => i \in 0 + 1..n /\ w[i - 1] \in Nat
    BY <1>1, <2>0
  <2>2. \A i \in 0..n : i # 0 => step[<<w[i - 1], i>>] = Go(w[i - 1], i)
    BY <1>2, <2>1
  <2> QED
    BY <2>0, <2>2
<1>5. g = [i \in 0..n |-> IF i = 0 THEN 0 ELSE Go(g[i - 1], i)]
  BY <1>4
<1> HIDE DEF g
<1>6. g[0] = 0
  BY <1>1, <1>5
<1>7. ASSUME NEW k \in 0..n - 1 PROVE g[k + 1] = Go(g[k], k + 1)
  <2>1. k + 1 \in 0..n /\ (k + 1) - 1 = k /\ k + 1 # 0
    BY <1>1
  <2> QED
    BY <1>5, <2>1
<1> QED
  BY <1>6, <1>7, <1>9 DEF n, Go

\* The open title begins with an opening tag, and no tag has come since.
IsOpen(k) ==
    /\ Opened[k] \in 0..k
    /\ Opened[k] # 0 => /\ IsOpening(pieces[Opened[k]])
                        /\ \A m \in Opened[k] + 1..k : pieces[m][1] # "<"

LEMMA OpenNext ==
    ASSUME Feeding, NEW k \in 0..Count - 1, IsOpen(k)
    PROVE  IsOpen(k + 1)
<1>1. Opened[k + 1] = IF pieces[k + 1][1] # "<" THEN Opened[k]
                      ELSE IF Opened[k] = 0 /\ IsOpening(pieces[k + 1]) THEN k + 1 ELSE 0
  BY OpenedIs
<1>2. k \in Nat
  BY PiecesAre
<1>3. PICK o \in 0..k : o = Opened[k]
  BY DEF IsOpen
<1>4. CASE pieces[k + 1][1] # "<"
  <2>1. Opened[k + 1] = o
    BY <1>1, <1>3, <1>4
  <2>2. \A m \in o + 1..k + 1 : m = k + 1 \/ m \in o + 1..k
    BY <1>2
  <2>3. o # 0 => IsOpening(pieces[o]) /\ \A m \in o + 1..k : pieces[m][1] # "<"
    BY <1>3 DEF IsOpen
  <2>4. o \in 0..k + 1
    BY <1>2
  <2> QED
    BY <1>4, <2>1, <2>2, <2>3, <2>4 DEF IsOpen
<1>5. CASE ~(pieces[k + 1][1] # "<") /\ Opened[k] = 0 /\ IsOpening(pieces[k + 1])
  <2>1. Opened[k + 1] = k + 1 /\ k + 1 \in 0..k + 1 /\ (k + 1) + 1..k + 1 = {}
    BY <1>1, <1>2, <1>5
  <2> QED
    BY <1>5, <2>1 DEF IsOpen
<1>6. CASE ~(pieces[k + 1][1] # "<") /\ ~(Opened[k] = 0 /\ IsOpening(pieces[k + 1]))
  <2>1. Opened[k + 1] = 0 /\ 0 \in 0..k + 1
    BY <1>1, <1>2, <1>6
  <2> QED
    BY <2>1 DEF IsOpen
<1> QED
  BY <1>4, <1>5, <1>6

LEMMA OpenedStays ==
    ASSUME Feeding
    PROVE  \A k \in 0..Count : IsOpen(k)
<1> DEFINE Good == {k \in Nat : k <= Count => IsOpen(k)}
<1>1. 0 \in Good
  BY OpenedIs DEF IsOpen
<1>2. ASSUME NEW k \in Nat, k \in Good PROVE k + 1 \in Good
  <2> SUFFICES ASSUME k + 1 <= Count PROVE IsOpen(k + 1)
    OBVIOUS
  <2>1. k \in 0..Count - 1 /\ k <= Count
    BY PiecesAre
  <2> QED
    BY <1>2, <2>1, OpenNext
<1> HIDE DEF Good
<1>3. Nat \subseteq Good
  BY <1>1, <1>2, FromZero
<1> SUFFICES ASSUME NEW k \in 0..Count PROVE IsOpen(k)
  OBVIOUS
<1>4. k \in Good /\ k <= Count
  BY <1>3, PiecesAre
<1> QED
  BY <1>4 DEF Good

\* What closes a title cannot be taken for an opening tag.
LEMMA CloserIs ==
    ASSUME Feeding, NEW k \in 0..Count - 1, Opened[k] # 0, pieces[k + 1][1] = "<", "<" \in Range(Entities)
    PROVE  ~IsRest(pieces[k + 1])
<1>1. k \in 0..Count /\ Count \in Nat /\ IsFeed(pieces) /\ DOMAIN pieces = 1..Count /\ k \in Nat
  BY PiecesAre DEF Count
<1>2. PICK o \in 1..k : IsOpening(pieces[o]) /\ \A m \in o + 1..k : pieces[m][1] # "<"
  <2>1. IsOpen(k)
    BY <1>1, OpenedStays
  <2>2. Opened[k] \in 1..k
    BY <1>1, <2>1 DEF IsOpen
  <2> QED
    BY <2>1, <2>2 DEF IsOpen
<1> SUFFICES ASSUME IsRest(pieces[k + 1]) PROVE FALSE
  OBVIOUS
<1>3. k + 1 \in DOMAIN pieces /\ o \in DOMAIN pieces /\ o < k + 1 /\ (k + 1) - 1 = k
  BY <1>1
<1>4. IsOpening(pieces[k + 1])
  BY <1>1, <1>3 DEF IsFeed
<1>5. PICK m \in o + 1..(k + 1) - 1 : pieces[m][1] = "<"
  BY <1>1, <1>2, <1>3, <1>4 DEF IsFeed
<1> QED
  BY <1>2, <1>3, <1>5
-----------------------------------------------------------------------------
\* The text of a title, and what of it there is room for.
LEMMA TextOfType ==
    ASSUME Feeding, NEW k \in 0..Count - 1
    PROVE  TextOf(pieces[k + 1]) \in Seq(Bytes)
<1>1. pieces[k + 1] \in Seq(Bytes)
  BY PieceIs DEF Kinds
<1>2. \A e \in DOMAIN Entities : Entities[e] \in Bytes
  BY DEF Bytes, Range
<1> QED
  BY <1>1, <1>2 DEF TextOf

LEMMA BetweenNext ==
    ASSUME Feeding, NEW o \in Nat, NEW k \in o..Count - 1
    PROVE  Between(o, k + 1) = Between(o, k) \o TextOf(pieces[k + 1]) /\ Between(o, k) \in Seq(Bytes)
<1> DEFINE m == k - o  x == TextOf(pieces[k + 1])
           f == [i \in 1..m |-> TextOf(pieces[o + i])]
           h == [i \in 1..m + 1 |-> TextOf(pieces[o + i])]
<1>0. Count \in Nat
  BY PiecesAre
<1>1. m \in Nat /\ o + (m + 1) = k + 1 /\ (k + 1) - o = m + 1
  BY <1>0
<1> HIDE DEF m
<1>2. \A i \in 1..m + 1 : TextOf(pieces[o + i]) \in Seq(Bytes)
  <2> SUFFICES ASSUME NEW i \in 1..m + 1 PROVE TextOf(pieces[o + i]) \in Seq(Bytes)
    OBVIOUS
  <2>1. PICK j \in 0..Count - 1 : o + i = j + 1
    <3>1. (o + i) - 1 \in 0..Count - 1 /\ o + i = ((o + i) - 1) + 1
      BY <1>0, <1>1
    <3> QED
      BY <3>1
  <2> QED
    BY <2>1, TextOfType
<1>3. f \in Seq(Seq(Bytes)) /\ Len(f) = m /\ \A i \in 1..m : f[i] = TextOf(pieces[o + i])
  <2>1. \A i \in 1..m : TextOf(pieces[o + i]) \in Seq(Bytes)
    BY <1>1, <1>2
  <2>2. f \in [1..m -> Seq(Bytes)]
    BY <2>1
  <2> QED
    BY <1>1, <2>2
<1>4. h \in Seq(Seq(Bytes)) /\ Len(h) = m + 1 /\ \A i \in 1..m + 1 : h[i] = TextOf(pieces[o + i])
  <2>1. m + 1 \in Nat
    BY <1>1
  <2>2. h \in [1..m + 1 -> Seq(Bytes)]
    BY <1>2
  <2>4. DOMAIN h = 1..m + 1 /\ \A i \in 1..m + 1 : h[i] = TextOf(pieces[o + i])
    OBVIOUS
  <2> HIDE DEF h
  <2>3. h \in Seq(Seq(Bytes))
    BY <2>1, <2>2, SeqDef
  <2>5. Len(h) = m + 1
    BY <2>1, <2>3, <2>4, LenProperties
  <2> QED
    BY <2>3, <2>4, <2>5
<1>5. x \in Seq(Bytes) /\ x = TextOf(pieces[o + (m + 1)])
  BY <1>1, TextOfType, o \in Nat
<1> HIDE DEF f, h, x
<1>6. Append(f, x) \in Seq(Seq(Bytes)) /\ Len(Append(f, x)) = m + 1
  BY <1>1, <1>3, <1>5
<1>7. \A i \in 1..m + 1 : h[i] = Append(f, x)[i]
  <2> SUFFICES ASSUME NEW i \in 1..m + 1 PROVE h[i] = Append(f, x)[i]
    OBVIOUS
  <2>1. i = m + 1 \/ i \in 1..m
    BY <1>1
  <2> QED
    BY <1>3, <1>4, <1>5, <2>1
<1>8. h = Append(f, x)
  BY <1>4, <1>6, <1>7, SeqEqual
<1>9. FlattenSeq(h) = FlattenSeq(f) \o x /\ FlattenSeq(f) \in Seq(Bytes)
  BY <1>3, <1>5, <1>8, FlatNext, FlattenType
<1>10. Between(o, k + 1) = FlattenSeq(h) /\ Between(o, k) = FlattenSeq(f)
  <2>1. Between(o, k + 1) = FlattenSeq(h)
    BY <1>1 DEF Between, h
  <2>2. Between(o, k) = FlattenSeq(f)
    BY DEF Between, f, m
  <2> QED
    BY <2>1, <2>2
<1> QED
  BY <1>9, <1>10 DEF x

LEMMA BetweenNone == ASSUME NEW o \in Nat PROVE Between(o, o) = <<>>
<1>1. o - o = 0 /\ 1..0 = {}
  OBVIOUS
<1>2. [i \in 1..0 |-> TextOf(pieces[o + i])] = <<>>
  OBVIOUS
<1> QED
  BY <1>1, <1>2 DEF Between, FlattenSeq

LEMMA FitIs ==
    ASSUME NEW B, NEW s \in Seq(B)
    PROVE  /\ Fitting(s) \in Seq(B)
           /\ Len(Fitting(s)) = IF Len(s) < ParseBuf THEN Len(s) ELSE ParseBuf - 1
           /\ \A i \in 1..Len(Fitting(s)) : Fitting(s)[i] = s[i]
<1>1. PICK m \in Nat : m = (IF Len(s) < ParseBuf THEN Len(s) ELSE ParseBuf - 1) /\ m <= Len(s)
  <2>1. (IF Len(s) < ParseBuf THEN Len(s) ELSE ParseBuf - 1) \in Nat
        /\ (IF Len(s) < ParseBuf THEN Len(s) ELSE ParseBuf - 1) <= Len(s)
    BY TagIs
  <2> QED
    BY <2>1
<1>2. (IF 1 <= m THEN m - 1 + 1 ELSE 0) = m /\ \A i \in 1..m : 1 + i - 1 = i
  OBVIOUS
<1>3. /\ SubSeq(s, 1, m) \in Seq(B) /\ Len(SubSeq(s, 1, m)) = m
      /\ \A i \in 1..m : SubSeq(s, 1, m)[i] = s[1 + i - 1]
  BY <1>1, <1>2, PartIs
<1>4. Fitting(s) = SubSeq(s, 1, m)
  BY <1>1 DEF Fitting
<1> QED
  BY <1>1, <1>2, <1>3, <1>4

LEMMA FitNext ==
    ASSUME NEW B, NEW s \in Seq(B), NEW c \in B
    PROVE  Put(Fitting(s), c) = Fitting(Append(s, c))
<1> DEFINE v == Fitting(s)  u == Append(s, c)  w == Fitting(u)  n == Len(s)
<1>0. n \in Nat /\ u \in Seq(B) /\ Len(u) = n + 1 /\ u[n + 1] = c /\ \A i \in 1..n : u[i] = s[i]
  OBVIOUS
<1> HIDE DEF u
<1>1. v \in Seq(B) /\ Len(v) = (IF n < ParseBuf THEN n ELSE ParseBuf - 1) /\ \A i \in 1..Len(v) : v[i] = s[i]
  BY FitIs
<1>2. w \in Seq(B) /\ Len(w) = (IF n + 1 < ParseBuf THEN n + 1 ELSE ParseBuf - 1) /\ \A i \in 1..Len(w) : w[i] = u[i]
  BY <1>0, FitIs
<1> HIDE DEF v, w, n
<1>3. CASE n + 1 < ParseBuf
  <2>1. Len(v) = n /\ Len(w) = n + 1 /\ Len(v) < ParseBuf - 1
    BY <1>0, <1>1, <1>2, <1>3, TagIs
  <2>2. Put(v, c) = Append(v, c)
    BY <2>1 DEF Put
  <2>3. Append(v, c) \in Seq(B) /\ Len(Append(v, c)) = n + 1
    BY <1>1, <2>1
  <2>4. \A i \in 1..n + 1 : Append(v, c)[i] = w[i]
    <3> SUFFICES ASSUME NEW i \in 1..n + 1 PROVE Append(v, c)[i] = w[i]
      OBVIOUS
    <3>1. i = n + 1 \/ i \in 1..n
      BY <1>0
    <3> QED
      BY <1>0, <1>1, <1>2, <2>1, <3>1
  <2>5. Append(v, c) = w
    BY <1>2, <2>1, <2>3, <2>4, SeqEqual
  <2> QED
    BY <2>2, <2>5 DEF v, w, u
<1>4. CASE ~(n + 1 < ParseBuf)
  <2>1. Len(v) = ParseBuf - 1 /\ Len(w) = ParseBuf - 1 /\ ParseBuf - 1 <= n
    BY <1>0, <1>1, <1>2, <1>4, TagIs
  <2>2. Put(v, c) = v
    BY <2>1, TagIs DEF Put
  <2>3. \A i \in 1..ParseBuf - 1 : i \in 1..n
    BY <1>0, <2>1, TagIs
  <2>4. \A i \in 1..Len(v) : v[i] = w[i]
    BY <1>0, <1>1, <1>2, <2>1, <2>3
  <2>5. v = w
    BY <1>1, <1>2, <2>1, <2>4, SeqEqual
  <2> QED
    BY <2>2, <2>5 DEF v, w, u
<1> QED
  BY <1>3, <1>4

LEMMA FitNone == Fitting(<<>>) = <<>>
<1>1. PICK s \in Seq({}) : s = <<>> /\ Len(s) = 0 /\ Len(s) < ParseBuf
  <2>1. <<>> \in Seq({}) /\ Len(<<>>) = 0 /\ 0 < ParseBuf
    BY TagIs
  <2> QED
    BY <2>1
<1>2. Fitting(s) \in Seq({}) /\ Len(Fitting(s)) = 0
  BY <1>1, FitIs
<1> QED
  BY <1>1, <1>2

LEMMA TitlesAre ==
    ASSUME Feeding
    PROVE  /\ Titles[0] = <<>> /\ \A k \in 0..Count : Titles[k] \in Seq(Seq(Bytes))
           /\ \A k \in 0..Count - 1 :
                 Titles[k + 1] = IF pieces[k + 1][1] = "<" /\ Opened[k] # 0
                                 THEN Append(Titles[k], Fitting(Between(Opened[k], k))) ELSE Titles[k]
<1> DEFINE n == Count  R == Seq(Seq(Bytes))
           Go(o, i) == IF pieces[i][1] = "<" /\ Opened[i - 1] # 0
                       THEN Append(o, Fitting(Between(Opened[i - 1], i - 1))) ELSE o
           g == CHOOSE w : w = [i \in 0..n |-> IF i = 0 THEN <<>> ELSE Go(w[i - 1], i)]
           step == [p \in R \X (0 + 1..n) |-> Go(p[1], p[2])]
<1>1. n \in Nat
  BY PiecesAre
<1>9. Titles = g
  BY DEF Titles, Count
<1>0. <<>> \in R
  OBVIOUS
<1>b. \A u \in R, i \in 0 + 1..n : Go(u, i) \in R
  <2> SUFFICES ASSUME NEW u \in R, NEW i \in 0 + 1..n, Opened[i - 1] # 0
               PROVE  Append(u, Fitting(Between(Opened[i - 1], i - 1))) \in R
    OBVIOUS
  <2>1. PICK k \in 0..Count - 1 : k = i - 1 /\ k \in 0..Count
    <3>1. i - 1 \in 0..Count - 1 /\ i - 1 \in 0..Count
      BY <1>1
    <3> QED
      BY <3>1
  <2>2. Opened[k] \in 0..k
    BY <2>1, OpenedStays DEF IsOpen
  <2>3. Opened[k] \in Nat /\ k \in Opened[k]..Count - 1
    BY <2>1, <2>2
  <2>4. Between(Opened[k], k) \in Seq(Bytes)
    BY <2>3, BetweenNext
  <2>5. Fitting(Between(Opened[k], k)) \in Seq(Bytes)
    BY <2>4, FitIs
  <2> QED
    BY <2>1, <2>5
<1> HIDE DEF R
<1>2. step \in [R \X (0 + 1..n) -> R]
      /\ \A u \in R, i \in 0 + 1..n : step[<<u, i>>] = Go(u, i)
  BY <1>b
<1> HIDE DEF step, n, Go
<1>3. PICK w : IsIterate(w, R, 0, n, <<>>, step)
  BY <1>0, <1>1, <1>2, Iterates, 0 \in Nat
<1>4. w = [i \in 0..n |-> IF i = 0 THEN <<>> ELSE Go(w[i - 1], i)]
  <2>0. w \in [0..n -> R] /\ \A i \in 0..n : w[i] = IF i = 0 THEN <<>> ELSE step[<<w[i - 1], i>>]
    BY <1>3 DEF IsIterate
  <2>1. \A i \in 0..n : i # 0 => i \in 0 + 1..n /\ w[i - 1] \in R
    BY <1>1, <2>0
  <2>2. \A i \in 0..n : i # 0 => step[<<w[i - 1], i>>] = Go(w[i - 1], i)
    BY <1>2, <2>1
  <2> QED
    BY <2>0, <2>2
<1>5. g = [i \in 0..n |-> IF i = 0 THEN <<>> ELSE Go(g[i - 1], i)]
  BY <1>4
<1> HIDE DEF g
<1>6. g[0] = <<>>
  BY <1>1, <1>5
<1>7. ASSUME NEW k \in 0..n - 1 PROVE g[k + 1] = Go(g[k], k + 1)
  <2>1. k + 1 \in 0..n /\ (k + 1) - 1 = k /\ k + 1 # 0
    BY <1>1
  <2> QED
    BY <1>5, <2>1
<1>8. \A i \in 0 + 1..n : g[i - 1] \in R => g[i] \in R
  <2> SUFFICES ASSUME NEW i \in 0 + 1..n, g[i - 1] \in R PROVE g[i] \in R
    OBVIOUS
  <2>1. i - 1 \in 0..n - 1 /\ (i - 1) + 1 = i
    BY <1>1
  <2>2. g[i] = Go(g[i - 1], i)
    BY <1>7, <2>1
  <2> QED
    BY <1>b, <2>2 DEF Go
<1>10. \A i \in 0..n : g[i] \in R
  BY <1>0, <1>1, <1>6, <1>8, Stays, 0 \in Nat
<1>11. \A k \in 0..n - 1 : (k + 1) - 1 = k
  BY <1>1
<1> QED
  BY <1>6, <1>7, <1>9, <1>10, <1>11 DEF n, Go, R
-----------------------------------------------------------------------------
(***************************************************************************)
(* What a byte does.                                                       *)
(***************************************************************************)
OutsideDone(t, c, r) ==
    LET u == Append(t.parse_buf, Small(c)) IN
    /\ r.entity_buf = t.entity_buf /\ r.frames = t.frames
    /\ IsSuffix(Tag, u) => r.in_title /\ r.parse_buf = <<>>
    /\ ~IsSuffix(Tag, u) => ~r.in_title /\ r.parse_buf = Shifted(u)
Changed(t, r, buf_, entity_) ==
    /\ r.in_title /\ r.frames = t.frames
    /\ r.parse_buf = buf_ /\ r.entity_buf = entity_

LEMMA ByteOutside ==
    ASSUME NEW t \in Titling, ~t.in_title, NEW c
    PROVE  OutsideDone(t, c, TitleByte(t, c))
<1>1. TitleByte(t, c) = Outside(t, c)
  BY DEF TitleByte
<1> QED
  BY <1>1 DEF Titling, Outside, OutsideDone

LEMMA ByteEnds ==
    ASSUME NEW t \in Titling, t.in_title, t.entity_buf = <<>>
    PROVE  LET r == TitleByte(t, "<") IN
           /\ ~r.in_title /\ r.parse_buf = t.parse_buf /\ r.entity_buf = <<>>
           /\ r.frames = Append(t.frames, t.parse_buf)
<1>1. TitleByte(t, "<") = EndTitle(t)
  BY DEF TitleByte
<1> DEFINE s == t.parse_buf
           w == CHOOSE w : w = [i \in 0..Len(t.entity_buf) |->
                                   IF i = 0 THEN s ELSE Put(w[i - 1], t.entity_buf[i])]
<1>2. Len(t.entity_buf) = 0
  BY Len(<<>>) = 0
<1>3. EndTitle(t) = [in_title |-> FALSE, parse_buf |-> w[0], entity_buf |-> <<>>,
                     frames |-> Append(t.frames, w[0]), beyond |-> t.beyond]
  BY <1>2 DEF EndTitle
<1>4. w = [i \in 0..0 |-> IF i = 0 THEN s ELSE Put(w[i - 1], t.entity_buf[i])]
  <2> DEFINE v == [i \in 0..0 |-> s]
  <2>1. v = [i \in 0..0 |-> IF i = 0 THEN s ELSE Put(v[i - 1], t.entity_buf[i])]
    OBVIOUS
  <2> HIDE DEF v
  <2> QED
    BY <1>2, <2>1
<1> HIDE DEF w
<1>5. w[0] = s
  BY <1>4
<1> QED
  BY <1>1, <1>3, <1>5

LEMMA ByteOfText ==
    ASSUME NEW t \in Titling, t.in_title, t.entity_buf = <<>>, NEW c, c \notin {"<", "&"}
    PROVE  Changed(t, TitleByte(t, c), Put(t.parse_buf, c), <<>>)
<1>1. Len(t.entity_buf) = 0
  BY Len(<<>>) = 0
<1>2. ~(Len(t.entity_buf) \in 1..EntityBuf - 1)
  BY <1>1
<1>3. TitleByte(t, c) = [t EXCEPT !.parse_buf = Put(@, c)]
  BY <1>2 DEF TitleByte
<1> QED
  BY <1>3 DEF Titling, Changed

LEMMA ByteStartsEntity ==
    ASSUME NEW t \in Titling, t.in_title
    PROVE  Changed(t, TitleByte(t, "&"), t.parse_buf, <<"&">>)
<1>1. TitleByte(t, "&") = [t EXCEPT !.entity_buf = <<"&">>]
  BY DEF TitleByte
<1> QED
  BY <1>1 DEF Titling, Changed

LEMMA ByteOfEntity ==
    ASSUME NEW t \in Titling, t.in_title, Len(t.entity_buf) \in 1..EntityBuf - 1, NEW c, c \notin {"<", "&"}
    PROVE  LET r == TitleByte(t, c)  e == Append(t.entity_buf, c) IN
           /\ c # ";" => Changed(t, r, t.parse_buf, e)
           /\ c = ";" => Changed(t, r, IF e \in DOMAIN Entities THEN Put(t.parse_buf, Entities[e])
                                       ELSE t.parse_buf, <<>>)
<1>1. TitleByte(t, c) = EntityByte(t, c)
  BY DEF TitleByte
<1>2. ASSUME c # ";" PROVE Changed(t, EntityByte(t, c), t.parse_buf, Append(t.entity_buf, c))
  BY <1>2 DEF Titling, Changed, EntityByte
<1>3. ASSUME c = ";"
      PROVE  Changed(t, EntityByte(t, c), IF Append(t.entity_buf, c) \in DOMAIN Entities
                                          THEN Put(t.parse_buf, Entities[Append(t.entity_buf, c)])
                                          ELSE t.parse_buf, <<>>)
  BY <1>3 DEF Titling, Changed, EntityByte
<1> QED
  BY <1>1, <1>2, <1>3
-----------------------------------------------------------------------------
(***************************************************************************)
(* Where the parser is between two pieces, and in one of each kind.        *)
(***************************************************************************)
\* If no entity stands for "<", a title has none.
Sure(s) == "<" \notin Range(Entities) => NoTag(s)
Titled(k) == Fitting(Between(Opened[k], k))

Ready(t, k) ==
    /\ t.entity_buf = <<>> /\ t.frames = Titles[k] /\ (t.in_title <=> Opened[k] # 0)
    /\ Opened[k] # 0 => t.parse_buf = Titled(k) /\ Sure(t.parse_buf)
    /\ Opened[k] = 0 => Quiet(t.parse_buf)
AtOutside(t, k, j) ==
    /\ ~t.in_title /\ t.entity_buf = <<>> /\ t.frames = Titles[k]
    /\ IF pieces[k + 1][1] = "<" THEN Trails(t.parse_buf, pieces[k + 1], 1, j) ELSE Quiet(t.parse_buf)
AtCloser(t, k, j) ==
    /\ ~t.in_title /\ t.entity_buf = <<>> /\ t.frames = Titles[k + 1]
    /\ Trails(t.parse_buf, pieces[k + 1], 2, j) /\ Sure(t.parse_buf)
AtEntity(t, k, j) ==
    /\ t.in_title /\ t.frames = Titles[k] /\ t.entity_buf = SubSeq(pieces[k + 1], 1, j)
    /\ t.parse_buf = Titled(k) /\ Sure(t.parse_buf)
AtText(t, k, j) ==
    /\ t.in_title /\ t.frames = Titles[k] /\ t.entity_buf = <<>>
    /\ t.parse_buf = Fitting(Between(Opened[k], k) \o SubSeq(pieces[k + 1], 1, j)) /\ Sure(t.parse_buf)

LEMMA PartGrows ==
    ASSUME NEW B, NEW p \in Seq(B), NEW j \in 0..Len(p) - 1
    PROVE  /\ SubSeq(p, 1, j) \in Seq(B) /\ Len(SubSeq(p, 1, j)) = j
           /\ SubSeq(p, 1, j + 1) = Append(SubSeq(p, 1, j), p[j + 1])
           /\ SubSeq(p, 1, 0) = <<>> /\ SubSeq(p, 1, Len(p)) = p
<1> DEFINE v == SubSeq(p, 1, j)  w == SubSeq(p, 1, j + 1)
<1>1. j \in Nat /\ j + 1 \in Nat /\ j <= Len(p) /\ j + 1 <= Len(p) /\ 1 <= j + 1 /\ p[j + 1] \in B
  OBVIOUS
<1>2. (IF 1 <= j THEN j - 1 + 1 ELSE 0) = j /\ (IF 1 <= j + 1 THEN j + 1 - 1 + 1 ELSE 0) = j + 1
      /\ (\A i \in 1..j : 1 + i - 1 = i) /\ \A i \in 1..j + 1 : 1 + i - 1 = i
  BY <1>1
<1>3. v \in Seq(B) /\ Len(v) = j /\ \A i \in 1..j : v[i] = p[1 + i - 1]
  BY <1>1, <1>2, PartIs
<1>4. w \in Seq(B) /\ Len(w) = j + 1 /\ \A i \in 1..j + 1 : w[i] = p[1 + i - 1]
  BY <1>1, <1>2, PartIs
<1> HIDE DEF v, w
<1>5. Append(v, p[j + 1]) \in Seq(B) /\ Len(Append(v, p[j + 1])) = j + 1
  BY <1>1, <1>3
<1>6. ASSUME NEW i \in 1..j + 1 PROVE w[i] = Append(v, p[j + 1])[i]
  <2>1. i = j + 1 \/ i \in 1..j
    BY <1>1
  <2> QED
    BY <1>1, <1>2, <1>3, <1>4, <2>1
<1>7. w = Append(v, p[j + 1])
  BY <1>4, <1>5, <1>6, SeqEqual
<1>8. SubSeq(p, 1, 0) = <<>> /\ SubSeq(p, 1, Len(p)) = p
  OBVIOUS
<1> QED
  BY <1>3, <1>7, <1>8 DEF v, w

LEMMA AppendBehind ==
    ASSUME NEW B, NEW s \in Seq(B), NEW v \in Seq(B), NEW c \in B
    PROVE  /\ s \o Append(v, c) = Append(s \o v, c) /\ s \o v \in Seq(B)
           /\ s \o <<c>> = Append(s, c) /\ s \o <<>> = s
  OBVIOUS

LEMMA PutSure ==
    ASSUME NEW B, NEW s \in Seq(B), Sure(s), NEW c \in B, "<" \notin Range(Entities) => c # "<"
    PROVE  Sure(Put(s, c))
<1>1. NoTag(s) /\ c # "<" => NoTag(Append(s, c))
  BY BufferGrows
<1> QED
  BY <1>1 DEF Sure, Put

LEMMA PieceByte ==
    ASSUME Feeding, NEW k \in 0..Count - 1, NEW j \in 0..Len(pieces[k + 1]) - 1
    PROVE  /\ pieces[k + 1][j + 1] \in Bytes /\ Small(pieces[k + 1][j + 1]) \in Bytes
           /\ j \in Nat /\ j + 1 \in 1..Len(pieces[k + 1])
<1>1. pieces[k + 1] \in Seq(Bytes)
  BY PieceIs DEF Kinds
<1> QED
  BY <1>1, SmallType

LEMMA OutsideStep ==
    ASSUME Feeding, NEW k \in 0..Count - 1, NEW j \in 0..Len(pieces[k + 1]) - 1, NEW t \in Titling,
           Opened[k] = 0, AtOutside(t, k, j)
    PROVE  LET r == TitleByte(t, pieces[k + 1][j + 1]) IN
           /\ j + 1 < Len(pieces[k + 1]) => AtOutside(r, k, j + 1)
           /\ j + 1 = Len(pieces[k + 1]) => Ready(r, k + 1)
<1> DEFINE p == pieces[k + 1]  c == p[j + 1]  s == t.parse_buf  u == Append(s, Small(c))  r == TitleByte(t, c)
<1>1. Kinds(p)
  BY PieceIs
<1>2. c \in Bytes /\ Small(c) \in Bytes /\ j \in Nat /\ j + 1 \in 1..Len(p)
  BY PieceByte
<1>3. s \in Seq(Bytes)
  BY DEF Titling, Parsed
<1>4. ~t.in_title /\ t.entity_buf = <<>> /\ t.frames = Titles[k]
      /\ (p[1] = "<" => Trails(s, p, 1, j)) /\ (p[1] # "<" => Quiet(s))
  BY DEF AtOutside
<1>5. /\ r.entity_buf = <<>> /\ r.frames = Titles[k]
      /\ IsSuffix(Tag, u) => r.in_title /\ r.parse_buf = <<>>
      /\ ~IsSuffix(Tag, u) => ~r.in_title /\ r.parse_buf = Shifted(u)
  BY <1>4, ByteOutside DEF OutsideDone
<1>6. Titles[k + 1] = Titles[k]
  BY TitlesAre
<1>7. Opened[k + 1] = IF p[1] = "<" /\ IsOpening(p) THEN k + 1 ELSE 0
  BY OpenedIs
<1> HIDE DEF r, s
<1>8. u \in Seq(Bytes)
  BY <1>2, <1>3
<1>9. CASE p[1] # "<"
  <2>0. \A i \in 1..Len(p) : p[i] # "<"
    BY <1>1, <1>9 DEF Kinds
  <2>01. c # "<"
    BY <1>2, <2>0
  <2>1. Small(c) # "<"
    BY <2>01, SmallIs
  <2>2. ~IsSuffix(Tag, u)
    BY <1>2, <1>3, <1>4, <1>9, <2>1, NoMatchQuiet
  <2>3. Quiet(u)
    BY <1>2, <1>3, <1>4, <1>9, <2>1, BufferGrows
  <2>4. Quiet(Shifted(u))
    BY <1>8, <2>3, ShiftKeeps
  <2>5. AtOutside(r, k, j + 1)
    BY <1>5, <1>9, <2>2, <2>4 DEF AtOutside
  <2>6. Ready(r, k + 1)
    BY <1>5, <1>6, <1>7, <1>9, <2>2, <2>4 DEF Ready
  <2> QED
    BY <2>5, <2>6 DEF r
<1>10. CASE p[1] = "<"
  <2>1. Within(p, "<", ">") /\ DOMAIN p = 1..Len(p) /\ Len(p) \in Nat
    BY <1>1, <1>10 DEF Kinds
  <2>2. Trails(u, p, 1, j + 1)
    BY <1>2, <1>3, <1>4, <1>10, TrailsGrows
  <2>3. ASSUME j + 1 < Len(p) PROVE AtOutside(r, k, j + 1)
    <3>1. c # ">"
      BY <1>2, <2>1, <2>3 DEF Within
    <3>2. ~IsSuffix(Tag, u)
      BY <1>2, <1>3, <3>1, NoMatchBefore, SmallIs
    <3>3. Trails(Shifted(u), p, 1, j + 1)
      BY <1>2, <1>8, <2>2, ShiftKeeps, j + 1 \in Nat
    <3> QED
      BY <1>5, <1>10, <3>2, <3>3 DEF AtOutside
  <2>4. ASSUME j + 1 = Len(p) PROVE Ready(r, k + 1)
    <3>1. IsSuffix(Tag, u) <=> IsOpening(p)
      BY <1>8, <2>1, <2>2, <2>4, MatchBehind
    <3>2. CASE IsOpening(p)
      <4>1. Opened[k + 1] = k + 1 /\ k + 1 # 0 /\ k + 1 \in Nat
        BY <1>7, <1>10, <3>2, PiecesAre
      <4>2. Titled(k + 1) = <<>>
        BY <4>1, BetweenNone, FitNone DEF Titled
      <4>3. Sure(<<>>)
        BY DEF Sure, NoTag
      <4> QED
        BY <1>5, <1>6, <3>1, <3>2, <4>1, <4>2, <4>3 DEF Ready
    <3>3. CASE ~IsOpening(p)
      <4>1. Opened[k + 1] = 0
        BY <1>7, <3>3
      <4>2. c = ">"
        BY <1>2, <2>1, <2>4 DEF Within
      <4>3. Quiet(u)
        BY <1>2, <1>3, <4>2, BufferGrows, SmallIs
      <4>4. Quiet(Shifted(u))
        BY <1>8, <4>3, ShiftKeeps
      <4> QED
        BY <1>5, <1>6, <3>1, <3>3, <4>1, <4>4 DEF Ready
    <3> QED
      BY <3>2, <3>3
  <2> QED
    BY <2>3, <2>4 DEF r
<1> QED
  BY <1>9, <1>10

LEMMA CloserStarts ==
    ASSUME Feeding, NEW k \in 0..Count - 1, NEW t \in Titling,
           Opened[k] # 0, pieces[k + 1][1] = "<", Ready(t, k)
    PROVE  1 < Len(pieces[k + 1]) /\ AtCloser(TitleByte(t, "<"), k, 1)
<1> DEFINE p == pieces[k + 1]  r == TitleByte(t, "<")
<1>1. Within(p, "<", ">") /\ Len(p) \in Nat
  BY PieceIs DEF Kinds
<1>2. t.in_title /\ t.entity_buf = <<>> /\ t.frames = Titles[k] /\ t.parse_buf = Titled(k) /\ Sure(t.parse_buf)
  BY DEF Ready
<1>3. ~r.in_title /\ r.parse_buf = t.parse_buf /\ r.entity_buf = <<>> /\ r.frames = Append(t.frames, t.parse_buf)
  BY <1>2, ByteEnds
<1>4. Titles[k + 1] = Append(Titles[k], Titled(k))
  BY TitlesAre DEF Titled
<1> HIDE DEF r
<1>5. Trails(r.parse_buf, p, 2, 1)
  BY 2..1 = {} DEF Trails
<1>6. AtCloser(r, k, 1)
  BY <1>2, <1>3, <1>4, <1>5 DEF AtCloser
<1> QED
  BY <1>1, <1>6 DEF Within, r

LEMMA CloserStep ==
    ASSUME Feeding, NEW k \in 0..Count - 1, NEW j \in 1..Len(pieces[k + 1]) - 1, NEW t \in Titling,
           Opened[k] # 0, pieces[k + 1][1] = "<", AtCloser(t, k, j)
    PROVE  LET r == TitleByte(t, pieces[k + 1][j + 1]) IN
           /\ j + 1 < Len(pieces[k + 1]) => AtCloser(r, k, j + 1)
           /\ j + 1 = Len(pieces[k + 1]) => Ready(r, k + 1)
<1> DEFINE p == pieces[k + 1]  c == p[j + 1]  s == t.parse_buf  u == Append(s, Small(c))  r == TitleByte(t, c)
<1>1. Within(p, "<", ">") /\ DOMAIN p = 1..Len(p) /\ Len(p) \in Nat
  BY PieceIs DEF Kinds
<1>0. j \in 0..Len(p) - 1 /\ j # 0
  OBVIOUS
<1>2. c \in Bytes /\ Small(c) \in Bytes /\ j \in Nat /\ j + 1 \in 1..Len(p)
  BY <1>0, PieceByte
<1>3. s \in Seq(Bytes)
  BY DEF Titling, Parsed
<1>4. ~t.in_title /\ t.entity_buf = <<>> /\ t.frames = Titles[k + 1] /\ Trails(s, p, 2, j) /\ Sure(s)
  BY DEF AtCloser
<1>5. /\ r.entity_buf = <<>> /\ r.frames = Titles[k + 1]
      /\ ~IsSuffix(Tag, u) => ~r.in_title /\ r.parse_buf = Shifted(u)
  BY <1>4, ByteOutside DEF OutsideDone
<1>6. Opened[k + 1] = 0
  BY OpenedIs
<1> HIDE DEF r, s
<1>8. u \in Seq(Bytes)
  BY <1>2, <1>3
<1>9. Small(c) # "<"
  BY <1>0, <1>1, <1>2, SmallIs DEF Within
<1>10. Trails(u, p, 2, j + 1)
  BY <1>2, <1>3, <1>4, TrailsGrows, 2 \in Nat
<1>11. Sure(u)
  BY <1>2, <1>3, <1>4, <1>9, BufferGrows DEF Sure
<1>12. ASSUME j + 1 < Len(p) PROVE AtCloser(r, k, j + 1)
  <2>1. c # ">"
    BY <1>1, <1>2, <1>12 DEF Within
  <2>2. ~IsSuffix(Tag, u)
    BY <1>2, <1>3, <2>1, NoMatchBefore, SmallIs
  <2>3. Trails(Shifted(u), p, 2, j + 1)
    BY <1>2, <1>8, <1>10, ShiftKeeps, j + 1 \in Nat, 2 \in Nat
  <2>4. Sure(Shifted(u))
    BY <1>8, <1>11, ShiftKeeps DEF Sure
  <2> QED
    BY <1>5, <2>2, <2>3, <2>4 DEF AtCloser
<1>13. ASSUME j + 1 = Len(p) PROVE Ready(r, k + 1)
  <2>1. ~IsSuffix(Tag, u)
    <3>1. CASE "<" \in Range(Entities)
      <4>1. ~IsRest(p)
        BY <3>1, CloserIs
      <4> QED
        BY <1>1, <1>8, <1>10, <1>13, <4>1, NoMatchRest
    <3>2. CASE "<" \notin Range(Entities)
      BY <1>8, <1>11, <3>2, NoMatchNoTag DEF Sure
    <3> QED
      BY <3>1, <3>2
  <2>2. c = ">"
    BY <1>1, <1>2, <1>13 DEF Within
  <2>3. Quiet(u)
    BY <1>2, <1>3, <2>2, BufferGrows, SmallIs
  <2>4. Quiet(Shifted(u))
    BY <1>8, <2>3, ShiftKeeps
  <2> QED
    BY <1>5, <1>6, <2>1, <2>4 DEF Ready
<1> QED
  BY <1>12, <1>13 DEF r

\* What a piece inside a title leaves as it is, and adds to its text.
LEMMA InTitle ==
    ASSUME Feeding, NEW k \in 0..Count - 1, Opened[k] # 0, pieces[k + 1][1] # "<"
    PROVE  /\ Opened[k + 1] = Opened[k] /\ Titles[k + 1] = Titles[k]
           /\ Between(Opened[k], k) \in Seq(Bytes)
           /\ Titled(k + 1) = Fitting(Between(Opened[k], k) \o TextOf(pieces[k + 1]))
<1>1. Opened[k + 1] = Opened[k] /\ Titles[k + 1] = Titles[k]
  BY OpenedIs, TitlesAre
<1>2. k \in 0..Count
  BY PiecesAre
<1>3. Opened[k] \in 0..k
  BY <1>2, OpenedStays DEF IsOpen
<1>4. Opened[k] \in Nat /\ k \in Opened[k]..Count - 1
  BY <1>3, PiecesAre
<1>5. Between(Opened[k], k + 1) = Between(Opened[k], k) \o TextOf(pieces[k + 1])
      /\ Between(Opened[k], k) \in Seq(Bytes)
  BY <1>4, BetweenNext
<1> QED
  BY <1>1, <1>5 DEF Titled

LEMMA EntityStep ==
    ASSUME Feeding, NEW k \in 0..Count - 1, NEW j \in 0..Len(pieces[k + 1]) - 1, NEW t \in Titling,
           Opened[k] # 0, pieces[k + 1][1] = "&", AtEntity(t, k, j)
    PROVE  LET r == TitleByte(t, pieces[k + 1][j + 1]) IN
           /\ j + 1 < Len(pieces[k + 1]) => AtEntity(r, k, j + 1)
           /\ j + 1 = Len(pieces[k + 1]) => Ready(r, k + 1)
<1> DEFINE p == pieces[k + 1]  c == p[j + 1]  s == t.parse_buf  r == TitleByte(t, c)  b == Between(Opened[k], k)
<1>1. Within(p, "&", ";") /\ DOMAIN p = 1..Len(p) /\ Len(p) \in Nat /\ Len(p) <= EntityBuf
      /\ p \in Seq(Bytes) /\ \A i \in 1..Len(p) : p[i] # "<"
  BY PieceIs DEF Kinds
<1>2. c \in Bytes /\ j \in Nat /\ j + 1 \in 1..Len(p)
  BY PieceByte
<1>3. t.in_title /\ t.frames = Titles[k] /\ t.entity_buf = SubSeq(p, 1, j) /\ s = Titled(k) /\ Sure(s)
  BY DEF AtEntity
<1>4. SubSeq(p, 1, j) \in Seq(Bytes) /\ Len(SubSeq(p, 1, j)) = j /\ SubSeq(p, 1, 0) = <<>>
      /\ SubSeq(p, 1, j + 1) = Append(SubSeq(p, 1, j), c) /\ SubSeq(p, 1, Len(p)) = p
  BY <1>1, PartGrows
<1>5. s \in Seq(Bytes)
  BY DEF Titling, Parsed
<1>6. /\ Opened[k + 1] = Opened[k] /\ Titles[k + 1] = Titles[k] /\ b \in Seq(Bytes)
      /\ Titled(k + 1) = Fitting(b \o TextOf(p))
  BY InTitle
<1>7. Titled(k) = Fitting(b)
  BY DEF Titled
<1>10. Len(p) > 1 /\ \A i \in 1..Len(p) : (p[i] = "&" <=> i = 1) /\ (p[i] = ";" <=> i = Len(p))
  BY <1>1 DEF Within
<1>11. PICK n \in Nat : n = Len(p) /\ n > 1 /\ n <= EntityBuf
  BY <1>1, <1>10
<1>12. j + 1 \in 1..n /\ j \in Nat
  BY <1>2, <1>11
<1>13. EntityBuf \in Nat
  BY TextAssumption DEF TextAssumption
<1> HIDE DEF p, s, b
<1>8. CASE j = 0
  <2>01. j + 1 = 1 /\ 1 < n
    BY <1>8, <1>11
  <2>0. j + 1 = 1 /\ j + 1 < Len(p)
    BY <1>11, <2>01
  <2>1. c = "&"
    BY <1>2, <1>10, <2>0
  <2>2. Changed(t, r, s, <<"&">>)
    BY <1>3, <2>1, ByteStartsEntity DEF s
  <2>3. SubSeq(p, 1, j + 1) = <<"&">>
    <3>1. SubSeq(p, 1, j) = <<>>
      BY <1>4, <1>8
    <3>2. SubSeq(p, 1, j + 1) = Append(<<>>, "&")
      BY <1>4, <2>1, <3>1
    <3> QED
      BY <3>2
  <2>4. AtEntity(r, k, j + 1)
    BY <1>3, <2>2, <2>3 DEF AtEntity, Changed, p
  <2> QED
    BY <2>0, <2>4 DEF p
<1>9. CASE j # 0
  <2>0. j + 1 # 1 /\ j \in 1..EntityBuf - 1
    BY <1>9, <1>11, <1>12, <1>13
  <2>01. c # "<"
    BY <1>1, <1>2
  <2>02. c # "&"
    BY <1>2, <1>10, <2>0
  <2>03. c = ";" <=> j + 1 = Len(p)
    BY <1>2, <1>10
  <2>1. c \notin {"<", "&"} /\ (c = ";" <=> j + 1 = Len(p))
    BY <2>01, <2>02, <2>03
  <2>2. Len(t.entity_buf) \in 1..EntityBuf - 1
    <3>2. Len(t.entity_buf) = j
      BY <1>3, <1>4
    <3> QED
      BY <2>0, <3>2
  <2>3. /\ c # ";" => Changed(t, r, s, SubSeq(p, 1, j + 1))
        /\ c = ";" => Changed(t, r, IF SubSeq(p, 1, j + 1) \in DOMAIN Entities
                                    THEN Put(s, Entities[SubSeq(p, 1, j + 1)]) ELSE s, <<>>)
    BY <1>3, <1>4, <2>1, <2>2, ByteOfEntity DEF s
  <2> HIDE DEF r, c
  <2>4. ASSUME j + 1 < Len(p) PROVE AtEntity(r, k, j + 1)
    <3>0. j + 1 # n
      BY <1>11, <1>12, <2>4
    <3>1. Changed(t, r, s, SubSeq(p, 1, j + 1))
      BY <1>11, <2>1, <2>3, <3>0
    <3> QED
      BY <1>3, <3>1 DEF AtEntity, Changed, p
  <2>5. ASSUME j + 1 = Len(p) PROVE Ready(r, k + 1)
    <3>1. Changed(t, r, IF p \in DOMAIN Entities THEN Put(s, Entities[p]) ELSE s, <<>>)
      BY <1>4, <2>1, <2>3, <2>5
    <3>2. TextOf(p) = IF p \in DOMAIN Entities THEN <<Entities[p]>> ELSE <<>>
      <4>1. p[1] = "&"
        BY DEF p
      <4> QED
        BY <4>1 DEF TextOf
    <3>3. CASE p \in DOMAIN Entities
      <4>1. Entities[p] \in Bytes /\ Entities[p] \in Range(Entities)
        BY <3>3 DEF Bytes, Range
      <4> DEFINE x == Entities[p]
      <4> HIDE DEF x
      <4>5. x \in Bytes /\ TextOf(p) = <<x>>
        BY <3>2, <3>3, <4>1 DEF x
      <4>6. b \o <<x>> = Append(b, x)
        BY <1>6, <4>5
      <4>2. Titled(k + 1) = Fitting(Append(b, Entities[p]))
        BY <1>6, <4>5, <4>6 DEF x
      <4>3. Titled(k + 1) = Put(s, Entities[p])
        BY <1>3, <1>6, <1>7, <4>1, <4>2, FitNext
      <4>4. Sure(Put(s, Entities[p]))
        BY <1>3, <1>5, <4>1, PutSure
      <4> QED
        BY <1>3, <1>6, <3>1, <3>3, <4>3, <4>4 DEF Ready, Changed
    <3>4. CASE p \notin DOMAIN Entities
      <4>0. b \o <<>> = b
        BY <1>6
      <4>1. Titled(k + 1) = s
        BY <1>3, <1>6, <1>7, <3>2, <3>4, <4>0
      <4> QED
        BY <1>3, <1>6, <3>1, <3>4, <4>1 DEF Ready, Changed
    <3> QED
      BY <3>3, <3>4
  <2> QED
    BY <2>4, <2>5 DEF r, c, p
<1> QED
  BY <1>8, <1>9

LEMMA TextStep ==
    ASSUME Feeding, NEW k \in 0..Count - 1, NEW j \in 0..Len(pieces[k + 1]) - 1, NEW t \in Titling,
           Opened[k] # 0, pieces[k + 1][1] \notin {"<", "&"}, AtText(t, k, j)
    PROVE  LET r == TitleByte(t, pieces[k + 1][j + 1]) IN
           /\ j + 1 < Len(pieces[k + 1]) => AtText(r, k, j + 1)
           /\ j + 1 = Len(pieces[k + 1]) => Ready(r, k + 1)
<1> DEFINE p == pieces[k + 1]  c == p[j + 1]  s == t.parse_buf  r == TitleByte(t, c)  b == Between(Opened[k], k)
           v == SubSeq(p, 1, j)
<1>1. DOMAIN p = 1..Len(p) /\ Len(p) \in Nat /\ p \in Seq(Bytes) /\ \A i \in 1..Len(p) : p[i] \notin {"<", "&"}
  BY PieceIs DEF Kinds
<1>2. c \in Bytes /\ j \in Nat /\ j + 1 \in 1..Len(p)
  BY PieceByte
<1>3. t.in_title /\ t.frames = Titles[k] /\ t.entity_buf = <<>> /\ s = Fitting(b \o v) /\ Sure(s)
  BY DEF AtText
<1>4. v \in Seq(Bytes) /\ SubSeq(p, 1, j + 1) = Append(v, c) /\ SubSeq(p, 1, Len(p)) = p
  BY <1>1, PartGrows
<1>5. s \in Seq(Bytes)
  BY DEF Titling, Parsed
<1>6. /\ Opened[k + 1] = Opened[k] /\ Titles[k + 1] = Titles[k] /\ b \in Seq(Bytes)
      /\ Titled(k + 1) = Fitting(b \o TextOf(p))
  BY InTitle
<1>7. c \notin {"<", "&"} /\ TextOf(p) = p
  BY <1>1, <1>2 DEF TextOf
<1>8. Changed(t, r, Put(s, c), <<>>)
  BY <1>3, <1>7, ByteOfText
<1> HIDE DEF s, b, v, r, c
<1>9. Put(s, c) = Fitting(b \o SubSeq(p, 1, j + 1))
  <2>1. b \o Append(v, c) = Append(b \o v, c) /\ b \o v \in Seq(Bytes)
    BY <1>2, <1>4, <1>6, AppendBehind
  <2>2. Put(Fitting(b \o v), c) = Fitting(Append(b \o v, c))
    BY <1>2, <2>1, FitNext
  <2> QED
    BY <1>3, <1>4, <2>1, <2>2
<1>10. Sure(Put(s, c))
  BY <1>2, <1>3, <1>5, <1>7, PutSure
<1>11. AtText(r, k, j + 1)
  BY <1>3, <1>8, <1>9, <1>10 DEF AtText, Changed, b
<1>12. ASSUME j + 1 = Len(p) PROVE Ready(r, k + 1)
  <2>1. Titled(k + 1) = Put(s, c)
    BY <1>4, <1>6, <1>7, <1>9, <1>12
  <2> QED
    BY <1>3, <1>6, <1>8, <1>10, <2>1 DEF Ready, Changed
<1> QED
  BY <1>11, <1>12 DEF r, c
-----------------------------------------------------------------------------
(***************************************************************************)
(* From byte to byte, through the feed.                                    *)
(***************************************************************************)
\* Through j bytes of the piece that follows the first k.
Inside(t, k, j) ==
    IF Opened[k] = 0 THEN AtOutside(t, k, j)
    ELSE IF pieces[k + 1][1] = "<" THEN AtCloser(t, k, j)
    ELSE IF pieces[k + 1][1] = "&" THEN AtEntity(t, k, j)
    ELSE AtText(t, k, j)
Reached(t, k, j) ==
    /\ k \in 0..Count
    /\ IF j = 0 THEN Ready(t, k)
       ELSE k < Count /\ j \in 1..Len(pieces[k + 1]) - 1 /\ Inside(t, k, j)

LEMMA ReadyInside ==
    ASSUME Feeding, NEW k \in 0..Count - 1, NEW t, Ready(t, k), Opened[k] = 0 \/ pieces[k + 1][1] # "<"
    PROVE  Inside(t, k, 0)
<1> DEFINE p == pieces[k + 1]  b == Between(Opened[k], k)
<1>1. Len(p) \in Nat \ {0} /\ p \in Seq(Bytes)
  BY PieceIs DEF Kinds
<1>2. SubSeq(p, 1, 0) = <<>>
  OBVIOUS
<1>3. CASE Opened[k] = 0
  <2>1. Trails(t.parse_buf, p, 1, 0)
    BY 1..0 = {} DEF Trails
  <2> QED
    BY <1>3, <2>1 DEF Ready, Inside, AtOutside
<1>4. CASE Opened[k] # 0 /\ p[1] # "<" /\ p[1] = "&"
  BY <1>2, <1>4 DEF Ready, Inside, AtEntity
<1>5. CASE Opened[k] # 0 /\ p[1] # "<" /\ p[1] # "&"
  <2>1. b \in Seq(Bytes)
    BY <1>5, InTitle
  <2> HIDE DEF b
  <2>2. b \o <<>> = b
    BY <2>1
  <2>3. Titled(k) = Fitting(b \o SubSeq(p, 1, 0))
    BY <1>2, <2>2 DEF Titled, b
  <2> QED
    BY <1>5, <2>3 DEF Ready, Inside, AtText, b
<1> QED
  BY <1>3, <1>4, <1>5

LEMMA ReachedNext ==
    ASSUME Feeding, NEW k \in 0..Count - 1, NEW j \in 0..Len(pieces[k + 1]) - 1, NEW t \in Titling,
           Reached(t, k, j)
    PROVE  LET r == TitleByte(t, pieces[k + 1][j + 1]) IN
           /\ j + 1 < Len(pieces[k + 1]) => Reached(r, k, j + 1)
           /\ j + 1 = Len(pieces[k + 1]) => Reached(r, k + 1, 0)
<1> DEFINE p == pieces[k + 1]  r == TitleByte(t, p[j + 1])
<1>0. Count \in Nat /\ Len(p) \in Nat \ {0}
  BY PiecesAre, PieceIs DEF Kinds
<1>1. /\ j + 1 < Len(p) => Inside(r, k, j + 1)
      /\ j + 1 = Len(p) => Ready(r, k + 1)
  <2>1. CASE j = 0 /\ Opened[k] # 0 /\ p[1] = "<"
    <3>1. Ready(t, k)
      BY <2>1 DEF Reached
    <3>2. p[j + 1] = "<"
      BY <2>1
    <3>3. 1 < Len(p) /\ AtCloser(r, k, 1)
      BY <2>1, <3>1, <3>2, CloserStarts
    <3>4. j + 1 = 1 /\ j + 1 # Len(p)
      <4>1. j + 1 = 1
        BY <2>1
      <4>2. PICK n \in Nat : n = Len(p)
        BY <1>0
      <4>4. 1 < n
        BY <3>3, <4>2
      <4>3. n # 1
        BY <4>4
      <4> QED
        BY <4>1, <4>2, <4>3
    <3> QED
      BY <2>1, <3>3, <3>4 DEF Inside
  <2>2. CASE j # 0 \/ Opened[k] = 0 \/ p[1] # "<"
    <3>1. Inside(t, k, j)
      BY <2>2, ReadyInside DEF Reached
    <3>2. CASE Opened[k] = 0
      BY <3>1, <3>2, OutsideStep DEF Inside
    <3>3. CASE Opened[k] # 0 /\ p[1] = "<"
      <4>1. j \in 1..Len(p) - 1
        BY <1>0, <2>2, <3>3
      <4> QED
        BY <3>1, <3>3, <4>1, CloserStep DEF Inside
    <3>4. CASE Opened[k] # 0 /\ p[1] = "&"
      BY <3>1, <3>4, EntityStep DEF Inside
    <3>5. CASE Opened[k] # 0 /\ p[1] \notin {"<", "&"}
      BY <3>1, <3>5, TextStep DEF Inside
    <3> QED
      BY <3>2, <3>3, <3>4, <3>5
  <2> QED
    BY <2>1, <2>2
<1> HIDE DEF r
<1>2. k \in 0..Count /\ k + 1 \in 0..Count /\ k < Count
  BY <1>0
<1>3. ASSUME j + 1 < Len(p) PROVE Reached(r, k, j + 1)
  <2>1. j + 1 \in 1..Len(p) - 1 /\ j + 1 # 0
    BY <1>0, <1>3
  <2> QED
    BY <1>1, <1>2, <1>3, <2>1 DEF Reached
<1>4. ASSUME j + 1 = Len(p) PROVE Reached(r, k + 1, 0)
  BY <1>1, <1>2, <1>4 DEF Reached
<1> QED
  BY <1>3, <1>4 DEF r

\* The parser behind the first x bytes, if b is where the pieces end.
Through(b, t, x) == \E k, j \in Nat : x = b[k] + j /\ Reached(t, k, j)

LEMMA ThroughNext ==
    ASSUME Feeding, NEW b, AreJoined(pieces, page, b), NEW x \in 0..Len(page) - 1,
           NEW t \in Titling, Through(b, t, x)
    PROVE  Through(b, TitleByte(t, page[x + 1]), x + 1)
<1>1. PICK k \in Nat, j \in Nat : x = b[k] + j /\ Reached(t, k, j)
  BY DEF Through
<1>2. Count \in Nat /\ pieces \in Seq(Seq(Bytes))
  BY PiecesAre
<1>3. Len(page) \in Nat
  <2>1. page \in Seq(Bytes)
    BY <1>2, FlattenType DEF Feeding
  <2> QED
    BY <2>1
<1>4. b \in [0..Count -> 0..Len(page)] /\ b[Count] = Len(page)
  BY DEF AreJoined, Count
<1>5. k < Count
  <2> SUFFICES ASSUME k = Count PROVE FALSE
    BY <1>1, <1>2 DEF Reached
  <2>1. j = 0
    BY <1>1, <1>2 DEF Reached
  <2> QED
    BY <1>1, <1>3, <1>4, <2>1
<1>6. k \in 0..Count - 1 /\ k + 1 \in 1..Count /\ (k + 1) - 1 = k /\ k \in 0..Count
  BY <1>2, <1>5
<1> DEFINE p == pieces[k + 1]  l == Len(p)  r == TitleByte(t, page[x + 1])
<1>7. l \in Nat \ {0}
  BY <1>6, PieceIs DEF Kinds
<1>8. j \in 0..l - 1
  BY <1>1, <1>7 DEF Reached
<1>9. b[k + 1] = b[k] + l /\ \A i \in 1..l : page[b[k] + i] = p[i]
  BY <1>6 DEF AreJoined, Count
<1>10. b[k] \in Nat
  BY <1>3, <1>4, <1>6
<1>11. page[x + 1] = p[j + 1]
  <2>1. j + 1 \in 1..l /\ x + 1 = b[k] + (j + 1)
    BY <1>1, <1>7, <1>8, <1>10
  <2> QED
    BY <1>9, <2>1
<1>12. /\ j + 1 < l => Reached(r, k, j + 1)
       /\ j + 1 = l => Reached(r, k + 1, 0)
  BY <1>1, <1>6, <1>8, <1>11, ReachedNext
<1> HIDE DEF r, l
<1>13. CASE j + 1 < l
  <2>1. x + 1 = b[k] + (j + 1) /\ j + 1 \in Nat
    BY <1>1, <1>10
  <2>2. Through(b, r, x + 1)
    BY <1>12, <1>13, <2>1 DEF Through
  <2> QED
    BY <2>2 DEF r
<1>14. CASE j + 1 = l
  <2>1. x + 1 = b[k + 1] + 0 /\ k + 1 \in Nat /\ 0 \in Nat
    BY <1>1, <1>9, <1>10, <1>14
  <2>2. Through(b, r, x + 1)
    BY <1>12, <1>14, <2>1 DEF Through
  <2> QED
    BY <2>2 DEF r
<1> QED
  BY <1>7, <1>8, <1>13, <1>14

\* When the whole feed has come, its titles have been sent.
LEMMA ThroughAll ==
    ASSUME Feeding, NEW b, AreJoined(pieces, page, b), NEW t, Through(b, t, Len(page))
    PROVE  t.frames = Titles[Count]
<1>1. PICK k \in Nat, j \in Nat : Len(page) = b[k] + j /\ Reached(t, k, j)
  BY DEF Through
<1>2. Count \in Nat /\ pieces \in Seq(Seq(Bytes))
  BY PiecesAre
<1>3. page \in Seq(Bytes)
  BY <1>2, FlattenType DEF Feeding
<1>4. b \in [0..Count -> 0..Len(page)]
  BY DEF AreJoined, Count
<1>5. CASE k = Count
  <2>1. j = 0
    BY <1>1, <1>2, <1>5 DEF Reached
  <2> QED
    BY <1>1, <1>5, <2>1 DEF Reached, Ready
<1>6. CASE k # Count
  <2>1. k \in 0..Count - 1 /\ k + 1 \in 1..Count /\ (k + 1) - 1 = k /\ k + 1 \in 0..Count /\ k \in 0..Count
    BY <1>1, <1>2, <1>6 DEF Reached
  <2> DEFINE l == Len(pieces[k + 1])
  <2>2. l \in Nat \ {0}
    BY <2>1, PieceIs DEF Kinds
  <2>3. j < l
    BY <1>1, <2>2 DEF Reached
  <2>4. b[k + 1] = b[k] + l
    BY <2>1 DEF AreJoined, Count
  <2> HIDE DEF l
  <2>5. PICK m \in Nat, n \in Nat, q \in Nat : m = b[k] /\ n = b[k + 1] /\ q = Len(page) /\ n <= q
    <3>1. Len(page) \in Nat
      BY <1>3
    <3>2. b[k] \in 0..Len(page) /\ b[k + 1] \in 0..Len(page)
      BY <1>4, <2>1
    <3> QED
      BY <3>1, <3>2
  <2>6. FALSE
    BY <1>1, <2>2, <2>3, <2>4, <2>5
  <2> QED
    BY <2>6
<1> QED
  BY <1>5, <1>6

LEMMA ParseThrough ==
    ASSUME Feeding, NEW b, AreJoined(pieces, page, b), at \in Nat, NEW packet \in Seq(Bytes),
           at + Len(packet) <= Len(page), \A i \in 1..Len(packet) : packet[i] = page[at + i],
           NEW w, IsParse(w, packet), Through(b, Parser, at)
    PROVE  Through(b, Parser', at + Len(packet))
<1> DEFINE n == Len(packet)  Good == {i \in Nat : i <= n => Through(b, w[i], at + i)}
<1>1. n \in Nat
  OBVIOUS
<1>2. 0 \in Good
  <2>1. w[0] = Parser /\ at + 0 = at
    BY DEF IsParse
  <2> QED
    BY <2>1
<1>3. ASSUME NEW i \in Nat, i \in Good PROVE i + 1 \in Good
  <2> SUFFICES ASSUME i + 1 <= n PROVE Through(b, w[i + 1], at + (i + 1))
    OBVIOUS
  <2>1. i <= n /\ i \in 0..n /\ i + 1 \in 0 + 1..n /\ i + 1 \in 1..n /\ (i + 1) - 1 = i
    BY <1>1
  <2>2. PICK q \in Nat : q = Len(page)
    <3>1. page \in Seq(Bytes)
      BY PiecesAre, FlattenType DEF Feeding
    <3> QED
      BY <3>1
  <2>3. PICK x \in 0..Len(page) - 1 : x = at + i /\ x + 1 = at + (i + 1)
    <3>1. at + i \in 0..q - 1 /\ (at + i) + 1 = at + (i + 1)
      BY <1>1, <2>1, <2>2
    <3> QED
      BY <2>2, <3>1
  <2>4. w[i] \in Titling /\ w[i + 1] = TitleByte(w[i], packet[i + 1])
    BY <2>1 DEF IsParse
  <2>5. packet[i + 1] = page[x + 1]
    BY <2>1, <2>3
  <2>6. Through(b, w[i], x)
    BY <1>3, <2>1, <2>3
  <2>7. Through(b, TitleByte(w[i], page[x + 1]), x + 1)
    BY <2>4, <2>6, ThroughNext
  <2> QED
    BY <2>3, <2>4, <2>5, <2>7
<1> HIDE DEF Good
<1>4. n \in Good
  BY <1>1, <1>2, <1>3, FromZero
<1>5. Through(b, w[n], at + n)
  BY <1>1, <1>4 DEF Good
<1> QED
  BY <1>5 DEF IsParse

-----------------------------------------------------------------------------
\* The parser is behind the bytes of the feed that have come.
Read ==
    callback = "news" =>
        Feeding /\ \E b : AreJoined(pieces, page, b) /\ Through(b, Parser, at)

LEMMA InitRead == Init => Read
<1> SUFFICES ASSUME Init, callback = "news" PROVE Feeding /\ \E b : AreJoined(pieces, page, b) /\ Through(b, Parser, at)
  BY DEF Read
<1>1. Feeding /\ at = 0
  BY DEF Init, Feeding
<1>2. PICK b : AreJoined(pieces, page, b)
  BY <1>1, PiecesAre
<1>3. Ready(Parser, 0)
  <2>1. Parser.entity_buf = <<>> /\ Parser.frames = <<>> /\ ~Parser.in_title /\ Parser.parse_buf = <<>>
    BY DEF Init, Parser
  <2>2. Quiet(<<>>)
    BY DEF Quiet
  <2>3. Opened[0] = 0 /\ Titles[0] = <<>>
    BY <1>1, OpenedIs, TitlesAre
  <2> QED
    BY <2>1, <2>2, <2>3 DEF Ready
<1>4. Reached(Parser, 0, 0)
  <2>1. 0 \in 0..Count
    BY <1>1, PiecesAre
  <2> QED
    BY <1>3, <2>1 DEF Reached
<1>5. at = b[0] + 0
  BY <1>1, <1>2 DEF AreJoined
<1>6. Through(b, Parser, at)
  BY <1>4, <1>5, 0 \in Nat DEF Through
<1> QED
  BY <1>1, <1>2, <1>6

\* What is said of the feed is said of it after a step.
LEMMA SameFeed ==
    ASSUME UNCHANGED <<pieces, page>>
    PROVE  /\ Opened' = Opened /\ Titles' = Titles
           /\ \A k : Titled(k)' = Titled(k)
           /\ \A o, n : Between(o, n)' = Between(o, n)
<1>1. Opened' = Opened
  BY DEF Opened
<1>2. \A o, n : Between(o, n)' = Between(o, n)
  BY DEF Between
<1>3. Titles' = Titles
  BY <1>1, <1>2 DEF Titles
<1>4. \A k : Titled(k)' = Titled(k)
  BY <1>1, <1>2 DEF Titled
<1> QED
  BY <1>1, <1>2, <1>3, <1>4

LEMMA SameReached ==
    ASSUME UNCHANGED <<pieces, page>>, NEW t, NEW k, NEW j, Reached(t, k, j)
    PROVE  Reached(t, k, j)'
<1>1. Ready(t, k) => Ready(t, k)'
  BY SameFeed DEF Ready
<1>2. AtOutside(t, k, j) => AtOutside(t, k, j)'
  BY SameFeed DEF AtOutside
<1>3. AtCloser(t, k, j) => AtCloser(t, k, j)'
  BY SameFeed DEF AtCloser
<1>4. AtEntity(t, k, j) => AtEntity(t, k, j)'
  BY SameFeed DEF AtEntity
<1>5. AtText(t, k, j) => AtText(t, k, j)'
  BY SameFeed DEF AtText
<1>6. Inside(t, k, j) => Inside(t, k, j)'
  BY <1>2, <1>3, <1>4, <1>5, SameFeed DEF Inside
<1> QED
  BY <1>1, <1>6 DEF Reached, Count

LEMMA SameThrough ==
    ASSUME UNCHANGED <<pieces, page>>, NEW b, Through(b, Parser', at')
    PROVE  Through(b, Parser, at)'
<1>1. PICK k \in Nat, j \in Nat : at' = b[k] + j /\ Reached(Parser', k, j)
  BY DEF Through
<1>2. PICK t : t = Parser'
  OBVIOUS
<1>3. Reached(t, k, j)'
  BY <1>1, <1>2, SameReached
<1> QED
  BY <1>1, <1>2, <1>3 DEF Through

LEMMA StepRead == Typed /\ Read /\ [Next]_vars => Read'
<1> SUFFICES ASSUME Typed, Read, [Next]_vars, callback' = "news"
             PROVE  (Feeding /\ \E b : AreJoined(pieces, page, b) /\ Through(b, Parser, at))'
  BY DEF Read
<1>1. UNCHANGED <<callback, pieces, page>>
  BY DEF Next, Arrives, vars
<1>2. Feeding /\ Feeding'
  BY <1>1 DEF Read, Feeding
<1>3. PICK b : AreJoined(pieces, page, b) /\ Through(b, Parser, at)
  BY <1>1 DEF Read
<1>4. AreJoined(pieces, page, b)'
  BY <1>1, <1>3
<1>5. Through(b, Parser', at')
  <2>1. CASE UNCHANGED vars
    <3>1. Parser' = Parser /\ at' = at
      BY <2>1 DEF vars, title, Parser
    <3> QED
      BY <1>3, <3>1
  <2>2. CASE Arrives
    <3>1. PICK n \in PacketSizes :
              /\ at + n <= Len(page) /\ at' = at + n
              /\ HeaderPacket(SubSeq(page, at + 1, at + n)) \/ NewsPacket(SubSeq(page, at + 1, at + n))
      BY <2>2 DEF Arrives
    <3> DEFINE packet == SubSeq(page, at + 1, at + n)
    <3>2. at \in Nat /\ page \in Seq(Range(page))
      BY DEF Typed
    <3>3. packet \in Seq(Bytes) /\ Len(packet) = n /\ \A i \in 1..n : packet[i] = page[at + i]
      BY <3>1, <3>2, PacketIs
    <3>4. NewsPacket(packet)
      BY <1>1, <3>1 DEF HeaderPacket
    <3>5. Parser \in Titling
      BY DEF Typed, Parser, Titling
    <3> HIDE DEF packet
    <3>6. PICK w : IsParse(w, packet)
      BY <3>3, <3>4, <3>5, NewsSteps
    <3>7. at + Len(packet) <= Len(page) /\ \A i \in 1..Len(packet) : packet[i] = page[at + i]
      BY <3>1, <3>3
    <3>8. Through(b, Parser', at + Len(packet))
      BY <1>2, <1>3, <3>2, <3>3, <3>6, <3>7, ParseThrough
    <3> QED
      BY <3>1, <3>3, <3>8
  <2> QED
    BY <2>1, <2>2 DEF Next
<1>6. Through(b, Parser, at)'
  BY <1>1, <1>5, SameThrough
<1> QED
  BY <1>2, <1>4, <1>6

LEMMA ReadIsRight == Read => TitlesRight
<1> SUFFICES ASSUME Read, callback = "news", at = Len(page) PROVE frames = Titles[Len(pieces)]
  BY DEF TitlesRight
<1>1. PICK b : AreJoined(pieces, page, b) /\ Through(b, Parser, at)
  BY DEF Read
<1>2. Parser.frames = Titles[Count]
  BY <1>1, ThroughAll DEF Read
<1> QED
  BY <1>2 DEF Parser, Count

\* The file of GET and the frames of WEATHER hold what follows the first empty
\* line of the answer, no byte more or less, and the frames of NEWS are the
\* titles of the feed, in order, decoded and cut off where there is no room,
\* wherever TCP cuts what the server sends.
THEOREM PagesAreRight == Spec => []PageIsRight
<1>1. Typed /\ Kept /\ Read => PageIsRight
  BY KeptIsRight, ReadIsRight DEF PageIsRight
<1> QED
  BY <1>1, InitTyped, StepTyped, InitKept, StepKept, InitRead, StepRead, PTL DEF Spec
-----------------------------------------------------------------------------
(***************************************************************************)
(* Which handles are open: those a program has in its hands.  All other    *)
(* fields of the table are what FileStore makes of them.                   *)
(***************************************************************************)
Hands == {<<>>} \cup {<<h>> : h \in {0, 1}} \cup {<<0, 1>>, <<1, 0>>}
Held(hs) == {hs[i] : i \in DOMAIN hs}

\* The inductive invariant of both.
Holding ==
    /\ DOMAIN fds = {0, 1} /\ handles \in Hands
    /\ \A h \in {0, 1} : fds[h].st # "closed" <=> h \in Held(handles)

\* How many handles a program has where it is.
ToolHands ==
    /\ tpc \in {"open", "open2", "seek", "read", "read2", "close", "done"}
    /\ tpc \in {"open", "done"} <=> handles = <<>>
    /\ tpc \in {"open2", "seek"} => Len(handles) = 1
    /\ tpc = "read2" \/ (tpc = "read" /\ tool = "diff") => Len(handles) = 2
EditHands ==
    /\ tpc \in {"edit", "wopen", "wread", "wclose", "done"}
    /\ tpc \in {"wread", "wclose"} => Len(handles) = 1
    /\ tpc \in {"edit", "wopen", "done"} => handles = <<>>

ToolHolding == Holding /\ tool \in AllTools /\ ToolHands
EditHolding == Holding /\ tool = "write" /\ EditHands

LEMMA HeldIs ==
    /\ Held(<<>>) = {}
    /\ \A a : Held(<<a>>) = {a}
    /\ \A a, b : Held(<<a, b>>) = {a, b}
  BY DEF Held

LEMMA Tuples ==
    ASSUME NEW a, NEW b
    PROVE  /\ Append(<<a>>, b) = <<a, b>> /\ Append(<<>>, a) = <<a>>
           /\ Tail(<<a, b>>) = <<b>> /\ Tail(<<a>>) = <<>> /\ Head(<<a, b>>) = a /\ Head(<<a>>) = a
           /\ Len(<<a>>) = 1 /\ Len(<<a, b>>) = 2 /\ Len(<<>>) = 0 /\ <<a>> # <<>> /\ <<a, b>> # <<>>
<1>1. Append(<<a>>, b) = <<a, b>>
  <2> DEFINE s == <<a>>
  <2>1. s \in Seq({a, b}) /\ Len(s) = 1 /\ s[1] = a /\ <<a, b>> \in Seq({a, b})
    OBVIOUS
  <2> HIDE DEF s
  <2>2. /\ Append(s, b) \in Seq({a, b}) /\ Len(Append(s, b)) = 2
        /\ Append(s, b)[1] = a /\ Append(s, b)[2] = b
    <3>1. /\ Append(s, b) \in Seq({a, b}) /\ Len(Append(s, b)) = Len(s) + 1
          /\ \A i \in 1..Len(s) : Append(s, b)[i] = s[i]
          /\ Append(s, b)[Len(s) + 1] = b
      <4> DEFINE S == {a, b}
      <4>1. s \in Seq(S) /\ b \in S
        BY <2>1
      <4> HIDE DEF S
      <4>2. /\ Append(s, b) \in Seq(S) /\ Len(Append(s, b)) = Len(s) + 1
            /\ \A i \in 1..Len(s) : Append(s, b)[i] = s[i]
            /\ Append(s, b)[Len(s) + 1] = b
        BY <4>1, AppendProperties
      <4> QED
        BY <4>2 DEF S
    <3> QED
      BY <3>1, <2>1
  <2>3. Len(<<a, b>>) = 2 /\ <<a, b>>[1] = a /\ <<a, b>>[2] = b
    OBVIOUS
  <2>4. Append(s, b) = <<a, b>>
    <3> DEFINE u == Append(s, b)  v == <<a, b>>
    <3>1. /\ u \in Seq({a, b}) /\ v \in Seq({a, b}) /\ Len(u) = Len(v) /\ Len(v) = 2
          /\ u[1] = v[1] /\ u[2] = v[2]
      BY <2>1, <2>2, <2>3
    <3> HIDE DEF u, v
    <3>2. \A i \in 1..Len(u) : u[i] = v[i]
      BY <3>1
    <3>3. u = v
      BY <3>1, <3>2, SeqEqual
    <3> QED
      BY <3>3 DEF u, v
  <2> QED
    BY <2>4 DEF s
<1>5. Append(<<>>, a) = <<a>>
  OBVIOUS
<1>6. Len(<<a>>) = 1 /\ Len(<<a, b>>) = 2 /\ Len(<<>>) = 0
  OBVIOUS
<1>7. <<a>> # <<>> /\ <<a, b>> # <<>>
  OBVIOUS
<1>4. Head(<<a, b>>) = a /\ Head(<<a>>) = a
  OBVIOUS
<1>2. Tail(<<a>>) = <<>>
  OBVIOUS
<1>3. Tail(<<a, b>>) = <<b>>
  <2> DEFINE s == <<a, b>>
  <2>1. s \in Seq({a, b}) /\ s # <<>> /\ Len(s) = 2 /\ s[2] = b
    OBVIOUS
  <2> HIDE DEF s
  <2>2. Tail(s) \in Seq({a, b}) /\ Len(Tail(s)) = 1 /\ Tail(s)[1] = s[2]
    BY <2>1
  <2> QED
    BY <2>1, <2>2 DEF s
<1> QED
  BY <1>1, <1>2, <1>3, <1>4, <1>5, <1>6, <1>7

LEMMA FewHands ==
    ASSUME handles \in Hands
    PROVE  /\ Len(handles) = 0 => handles = <<>>
           /\ Len(handles) = 1 => \E h \in {0, 1} : handles = <<h>>
           /\ Len(handles) = 2 => handles = <<0, 1>> \/ handles = <<1, 0>>
           /\ Len(handles) \in 0..2
  BY DEF Hands

\* What an OPEN, a CLOSE and all other steps do to the hands.
LEMMA OpenHolds ==
    ASSUME Holding, Len(handles) <= 1, NEW p, NEW m \in {"ro", "rw"}, NEW h \in {0, 1},
           Store!Open(p, m, h), handles' = Append(handles, h)
    PROVE  Holding' /\ Len(handles') = Len(handles) + 1
<1>0. /\ fds[h].st = "closed" /\ DOMAIN fds' = {0, 1} /\ fds'[h].st # "closed"
      /\ \A k \in {0, 1} \ {h} : fds'[k] = fds[k]
  BY DEF Store!Open, Holding
<1>1. CASE handles = <<>>
  <2>1. handles' = <<h>>
    BY <1>1
  <2> QED
    BY <1>0, <1>1, <2>1, HeldIs DEF Holding, Hands
<1>2. CASE Len(handles) = 1
  <2>1. PICK k \in {0, 1} : handles = <<k>>
    BY <1>2, FewHands DEF Holding
  <2>2. handles' = <<k, h>>
    BY <2>1, Tuples
  <2>3. k # h
    BY <1>0, <2>1, HeldIs DEF Holding
  <2>4. \A l \in {0, 1} : fds'[l].st # "closed" <=> l \in {k, h}
    BY <1>0, <2>1, HeldIs DEF Holding
  <2>5. handles' \in Hands /\ Len(handles') = 2
    BY <2>2, <2>3, Tuples DEF Hands
  <2> QED
    BY <1>0, <1>2, <2>2, <2>4, <2>5, HeldIs DEF Holding
<1> QED
  BY <1>1, <1>2, FewHands DEF Holding

LEMMA CloseHolds ==
    ASSUME Holding, handles # <<>>, Store!Close(Head(handles)), handles' = Tail(handles)
    PROVE  Holding' /\ Len(handles') = Len(handles) - 1
<1>1. \A h \in {0, 1} : Head(handles) = h =>
         /\ DOMAIN fds' = {0, 1} /\ fds'[h].st = "closed"
         /\ \A k \in {0, 1} \ {h} : fds'[k] = fds[k]
  BY DEF Store!Close, Store!Free, Holding
<1>2. CASE \E k \in {0, 1} : handles = <<k>>
  <2>1. PICK k \in {0, 1} : handles = <<k>>
    BY <1>2
  <2>2. handles' = <<>> /\ Head(handles) = k /\ Len(handles) = 1
    BY <2>1, Tuples
  <2>3. \A l \in {0, 1} : fds'[l].st = "closed"
    BY <1>1, <2>1, <2>2, HeldIs DEF Holding
  <2>4. handles' \in Hands /\ Len(handles') = 0
    BY <2>2, Tuples DEF Hands
  <2>5. DOMAIN fds' = {0, 1} /\ Held(handles') = {}
    BY <1>1, <2>2, HeldIs
  <2> QED
    BY <2>2, <2>3, <2>4, <2>5 DEF Holding
<1>3. CASE handles = <<0, 1>> \/ handles = <<1, 0>>
  <2>1. PICK a \in {0, 1}, k \in {0, 1} : handles = <<a, k>> /\ k # a
    BY <1>3
  <2>2. handles' = <<k>> /\ Head(handles) = a /\ Len(handles) = 2
    BY <2>1, Tuples
  <2>3. \A l \in {0, 1} : fds'[l].st # "closed" <=> l = k
    BY <1>1, <2>1, <2>2, HeldIs DEF Holding
  <2>4. handles' \in Hands /\ Len(handles') = 1
    BY <2>1, <2>2, Tuples DEF Hands
  <2>5. DOMAIN fds' = {0, 1}
    BY <1>1, <2>2
  <2>6. Held(handles') = {k}
    BY <2>2, HeldIs
  <2> QED
    BY <2>2, <2>3, <2>4, <2>5, <2>6 DEF Holding
<1> QED
  BY <1>2, <1>3 DEF Holding, Hands

LEMMA KeepsHolding ==
    ASSUME Holding, UNCHANGED handles, DOMAIN fds' = {0, 1},
           \A h \in {0, 1} : fds'[h].st = fds[h].st
    PROVE  Holding'
  BY DEF Holding

LEMMA MoveHolds ==
    ASSUME Holding, UNCHANGED handles, NEW h, NEW p, Store!MoveTo(h, p)
    PROVE  Holding'
  BY KeepsHolding DEF Holding, Store!MoveTo

LEMMA ReadHolds ==
    ASSUME Holding, UNCHANGED handles, NEW h, NEW n, Reads(h, n) \/ Store!Seek(h, n)
    PROVE  Holding'
  BY MoveHolds DEF Reads, Store!Read, Store!Seek

LEMMA RefusedHolds ==
    ASSUME Holding, UNCHANGED handles,
           (\E st : Refuses(st)) \/ (\E f : Fails(f)) \/ Missing
    PROVE  Holding'
  BY KeepsHolding DEF Holding, Fails, Missing, Refuses, Store!Refused
-----------------------------------------------------------------------------
LEMMA ToolStepHolds == ToolHolding /\ [ToolNext]_toolVars => ToolHolding'
<1> SUFFICES ASSUME ToolHolding, [ToolNext]_toolVars PROVE ToolHolding'
  OBVIOUS
<1> USE DEF ToolHolding, ToolHands, At
<1>0. Len(handles) \in 0..2 /\ (Len(handles) = 0 <=> handles = <<>>)
  BY FewHands, Tuples DEF Holding
<1>a. Holding' => Len(handles') \in 0..2 /\ (Len(handles') = 0 <=> handles' = <<>>)
  BY Tuples DEF Holding, Hands
<1>1. CASE Open
  <2>1. ASSUME NEW h \in {0, 1}, Store!Open(arg[1], "ro", h), handles' = <<h>>, tpc' = AfterOpen[tool]
        PROVE  ToolHolding'
    <3>1. handles = <<>> /\ handles' = Append(handles, h)
      BY <1>1, <2>1, FewHands DEF Open, Holding
    <3>2. Holding' /\ Len(handles') = 1
      BY <2>1, <3>1, OpenHolds
    <3> QED
      BY <1>1, <2>1, <3>2 DEF Open, AfterOpen, AllTools
  <2>2. ASSUME Missing \/ Fails("open"), UNCHANGED handles, tpc' = "done"
        PROVE  ToolHolding'
    BY <1>1, <2>2, RefusedHolds DEF Open
  <2> QED
    BY <1>1, <2>1, <2>2 DEF Open
<1>2. CASE OpenSecond
  <2>1. ASSUME NEW h \in {0, 1}, Store!Open(arg[2], "ro", h), handles' = Append(handles, h), tpc' = "read"
        PROVE  ToolHolding'
    <3>0. Len(handles) = 1
      BY <1>2 DEF OpenSecond
    <3>1. Holding' /\ Len(handles') = 2
      BY <3>0, <2>1, OpenHolds
    <3> QED
      BY <1>2, <2>1, <3>1, <1>a DEF OpenSecond
  <2>2. ASSUME Fails("open"), UNCHANGED handles, tpc' = "close"
        PROVE  ToolHolding'
    BY <1>2, <2>2, RefusedHolds DEF OpenSecond
  <2> QED
    BY <1>2, <2>1, <2>2 DEF OpenSecond
<1>3. CASE Close
  <2>1. Holding' /\ Len(handles') = Len(handles) - 1
    BY <1>3, CloseHolds DEF Close
  <2> QED
    BY <1>0, <1>a, <1>3, <2>1 DEF Close
<1>4. CASE ReadFails
  BY <1>4, RefusedHolds DEF ReadFails
<1>5. CASE HeadReads \/ TailReads \/ WcReads \/ GrepReads
  <2>1. Holding' /\ UNCHANGED <<handles, tool>> /\ tpc = "read" /\ tpc' \in {"read", "close"}
    BY <1>5, ReadHolds DEF HeadReads, TailReads, WcReads, GrepReads
  <2> QED
    BY <2>1
<1>6. CASE TailSeeks
  BY <1>6, ReadHolds, RefusedHolds DEF TailSeeks
<1>7. CASE DiffReadsFirst
  <2>1. Holding' /\ UNCHANGED <<handles, tool>> /\ tpc = "read" /\ tool = "diff" /\ tpc' = "read2"
    BY <1>7, ReadHolds, RefusedHolds DEF DiffReadsFirst
  <2> QED
    BY <2>1
<1>8. CASE DiffReadsSecond
  BY <1>8, ReadHolds, RefusedHolds DEF DiffReadsSecond, DiffCompares
<1>9. CASE UNCHANGED toolVars
  BY <1>9, KeepsHolding DEF toolVars, fileVars, Holding
<1> QED
  BY <1>1, <1>2, <1>3, <1>4, <1>5, <1>6, <1>7, <1>8, <1>9 DEF ToolNext
LEMMA EditStepHolds == EditHolding /\ [EditNext]_<<toolVars, editVars>> => EditHolding'
<1> SUFFICES ASSUME EditHolding, [EditNext]_<<toolVars, editVars>> PROVE EditHolding'
  OBVIOUS
<1> USE DEF EditHolding, EditHands, At
<1>0. Len(handles) = 0 <=> handles = <<>>
  BY FewHands, Tuples DEF Holding
<1>1. CASE LoadOpen
  <2>1. ASSUME NEW h \in {0, 1}, Store!Open(fname, "rw", h), handles' = <<h>>, tpc' \in {"wclose", "wread"}
        PROVE  EditHolding'
    <3>1. handles = <<>> /\ handles' = Append(handles, h)
      BY <1>1, <2>1, Tuples DEF LoadOpen
    <3>2. Holding' /\ Len(handles') = 1
      BY <2>1, <3>1, OpenHolds, Tuples
    <3> QED
      BY <1>1, <2>1, <3>2 DEF LoadOpen
  <2> QED
    BY <1>1, <2>1, RefusedHolds DEF LoadOpen
<1>2. CASE LoadRead
  BY <1>2, ReadHolds, RefusedHolds DEF LoadRead
<1>3. CASE LoadClose
  <2>1. PICK h \in {0, 1} : handles = <<h>>
    BY <1>3, FewHands DEF LoadClose, Holding
  <2>2. handles # <<>> /\ Head(handles) = handles[1] /\ handles' = Tail(handles)
    BY <1>3, <2>1, Tuples DEF LoadClose
  <2>3. Holding'
    BY <1>3, <2>2, CloseHolds DEF LoadClose
  <2> QED
    BY <1>3, <2>3 DEF LoadClose
<1>4. ASSUME Pressed, tpc' \in {"edit", "done"}, UNCHANGED handles, fds' = fds
      PROVE  EditHolding'
  BY <1>4, KeepsHolding DEF Pressed, Holding
<1>5. CASE \E n \in {0, 1, 2} : SaveAs(n) \/ SaveAsLeft(n) \/ Exit(n)
  <2>1. fds' = fds
    BY <1>5 DEF SaveAs, SaveAsLeft, Exit, Saves, Refuses, Store!Refused, fileVars
  <2> QED
    BY <1>4, <1>5, <2>1 DEF SaveAs, SaveAsLeft, Exit, Pressed
<1>6. CASE \E c \in Letters : Type(c)
  BY <1>4, <1>6 DEF Type, fileVars, Pressed
<1>7. ASSUME NEW b, NEW c, Key(b, c) PROVE EditHolding'
  BY <1>4, <1>7 DEF Key, fileVars, Pressed
<1>8. CASE UNCHANGED <<toolVars, editVars>>
  BY <1>8, KeepsHolding DEF toolVars, fileVars, Holding
<1>9. CASE Enter \/ Tab \/ Backspace \/ Delete
  BY <1>7, <1>9 DEF Enter, Tab, Backspace, Delete, MovesTo
<1>10. CASE Left \/ Right \/ Up \/ Down \/ Home \/ ToEnd
  BY <1>7, <1>10 DEF Left, Right, Up, Down, Home, ToEnd, MovesTo
<1>11. CASE PageUp \/ PageDown \/ \E w \in Searches : Find(w)
  BY <1>7, <1>11 DEF PageUp, PageDown, Find, MovesTo
<1> QED
  BY <1>1, <1>2, <1>3, <1>5, <1>6, <1>8, <1>9, <1>10, <1>11 DEF EditNext

LEMMA InitHolds == ToolInit \/ EditInit => Holding /\ handles = <<>>
  BY HeldIs DEF ToolInit, EditInit, Holding, Hands, Store!Free

\* HEAD, TAIL, WC, GREP and DIFF close what they have opened, whichever of
\* their commands fails.
THEOREM ToolsCloseHandles == ToolSpec => []HandlesClosed
<1>1. ToolInit => ToolHolding
  BY InitHolds, ToolAssumption DEF ToolInit, ToolHolding, ToolHands, ToolAssumption
<1>2. ToolHolding => HandlesClosed
  BY HeldIs DEF ToolHolding, ToolHands, Holding, HandlesClosed, AllTools
<1> QED
  BY <1>1, <1>2, ToolStepHolds, PTL DEF ToolSpec

\* WRITE has no handle open while it is edited with, and none when it ends.
THEOREM EditorClosesHandle == EditSpec => []HandlesClosed
<1>1. EditInit => EditHolding
  BY InitHolds DEF EditInit, EditHolding, EditHands
<1>2. EditHolding => HandlesClosed
  BY HeldIs DEF EditHolding, EditHands, Holding, HandlesClosed
<1> QED
  BY <1>1, <1>2, EditStepHolds, PTL DEF EditSpec
-----------------------------------------------------------------------------
(***************************************************************************)
(* What the programs read.                                                 *)
(***************************************************************************)
\* The files stay what they are, and a failure is not forgotten.
LEMMA ToolKeeps ==
    ASSUME ToolHolding, [ToolNext]_toolVars
    PROVE  store' = store /\ names' = names /\ tool' = tool /\ arg' = arg /\ (faulty => faulty')
<1>a. ASSUME NEW p, NEW h, Store!Open(p, "ro", h) PROVE names' = names /\ store' = store
  BY <1>a DEF Store!Open
<1>b. ASSUME NEW h, NEW n, Reads(h, n) PROVE names' = names /\ store' = store /\ faulty' = faulty
  BY <1>b DEF Reads, Store!Read
<1>c. ASSUME Missing \/ (\E f : Fails(f)) PROVE names' = names /\ store' = store /\ (faulty => faulty')
  BY <1>c DEF Missing, Fails, Refuses, Store!Refused
<1>d. ASSUME NEW h, NEW n, Store!Seek(h, n) PROVE names' = names /\ store' = store
  BY <1>d DEF Store!Seek
<1> USE DEF At
<1>1. CASE Open
  BY <1>1, <1>a, <1>c DEF Open
<1>2. CASE OpenSecond
  BY <1>2, <1>a, <1>c DEF OpenSecond
<1>3. CASE Close
  BY <1>3 DEF Close, Store!Close
<1>4. CASE ReadFails
  BY <1>4, <1>c DEF ReadFails
<1>5. CASE HeadReads
  BY <1>5, <1>b DEF HeadReads
<1>6. CASE TailSeeks \/ TailReads
  BY <1>6, <1>b, <1>c, <1>d DEF TailReads, TailSeeks
<1>7. CASE WcReads
  BY <1>7, <1>b DEF WcReads
<1>8. CASE GrepReads
  BY <1>8, <1>b DEF GrepReads
<1>9. CASE DiffReadsFirst
  BY <1>9, <1>b, <1>c DEF DiffReadsFirst
<1>10. CASE DiffReadsSecond
  BY <1>10, <1>b, <1>c DEF DiffReadsSecond
<1>11. CASE UNCHANGED toolVars
  BY <1>11 DEF toolVars, fileVars
<1> QED
  BY <1>1, <1>2, <1>3, <1>4, <1>5, <1>6, <1>7, <1>8, <1>9, <1>10, <1>11 DEF ToolNext

\* What a READ of a program gives: the next bytes of the file.
IsNext(s, p, n, d) ==
    /\ d \in Seq(Range(s)) /\ Len(d) = IF p + n <= Len(s) THEN n ELSE Len(s) - p
    /\ \A i \in 1..Len(d) : d[i] = s[p + i]
    /\ p + Len(d) \in 0..Len(s) /\ d = SubSeq(s, p + 1, p + Len(d))

LEMMA NextBytes ==
    ASSUME NEW s, s \in Seq(Range(s)), NEW p \in 0..Len(s), NEW n \in Nat \ {0}
    PROVE  IsNext(s, p, n, Store!Slice(s, p, n))
<1> DEFINE d == Store!Slice(s, p, n)  B == Range(s)
<1>1. PICK l \in Nat : l = Len(s)
  OBVIOUS
<1>2. PICK b \in Nat, a \in Nat : b = (IF p + n <= l THEN p + n ELSE l) /\ a = p + 1
  <2>1. (IF p + n <= l THEN p + n ELSE l) \in Nat /\ p + 1 \in Nat
    BY <1>1
  <2> QED
    BY <2>1
<1>3. p \in Nat /\ 1 <= a /\ b <= l /\ p <= b /\ b - a + 1 = b - p /\ (IF a <= b THEN b - a + 1 ELSE 0) = b - p
  BY <1>1, <1>2
<1>4. Store!Smaller(Len(s), p + n) = b
  BY <1>1, <1>2 DEF Store!Smaller
<1>5. d = SubSeq(s, a, b)
  BY <1>2, <1>4 DEF Store!Slice
<1> HIDE DEF d
<1>6. d \in Seq(B) /\ Len(d) = (IF a <= b THEN b - a + 1 ELSE 0) /\ \A i \in 1..b - a + 1 : d[i] = s[a + i - 1]
  BY <1>1, <1>3, <1>5, PartIs
<1>7. PICK m \in Nat : m = Len(d) /\ m = b - p /\ b = p + m
  BY <1>3, <1>6
<1>8. \A i \in 1..m : d[i] = s[p + i]
  <2>1. \A i \in 1..m : i \in 1..b - a + 1 /\ a + i - 1 = p + i
    BY <1>2, <1>3, <1>7
  <2> QED
    BY <1>6, <2>1
<1>9. m = IF p + n <= l THEN n ELSE l - p
  BY <1>2, <1>3, <1>7
<1> QED
  BY <1>1, <1>2, <1>3, <1>5, <1>6, <1>7, <1>8, <1>9 DEF IsNext, d

GetsNext(h, n) ==
    LET d == reply'.data IN
    /\ IsNext(store[fds[h].file], fds[h].pos, n, d)
    /\ fds'[h].pos = fds[h].pos + Len(d) /\ fds'[h].file = fds[h].file

Readable(h) ==
    store[fds[h].file] \in Seq(Range(store[fds[h].file])) /\ fds[h].pos \in 0..Len(store[fds[h].file])

LEMMA ReadsAre ==
    ASSUME Holding, NEW h \in {0, 1}, NEW n \in Nat \ {0}, Reads(h, n), Readable(h)
    PROVE  GetsNext(h, n)
<1> DEFINE s == store[fds[h].file]  p == fds[h].pos  d == reply'.data
<1>1. s \in Seq(Range(s)) /\ p \in 0..Len(s)
  BY DEF Readable
<1>2. d = Store!Slice(s, p, n) /\ DOMAIN fds = {0, 1}
  BY DEF Reads, Holding
<1>9. Store!MoveTo(h, p + Len(d))
  <2>1. Store!Read(h, n)
    BY DEF Reads
  <2>2. PICK m \in 0..n : LET e == Store!Slice(store[fds[h].file], fds[h].pos, m) IN
               /\ Store!Answered("read", <<h, n>>, Store!OK, e)
               /\ Store!MoveTo(h, fds[h].pos + Len(e))
    BY <2>1 DEF Store!Read
  <2>3. Store!Slice(store[fds[h].file], fds[h].pos, m) = d
    BY <2>2 DEF Store!Answered
  <2> QED
    BY <2>2, <2>3, Zenon
<1>10. fds'[h].pos = p + Len(d) /\ fds'[h].file = fds[h].file
  BY <1>2, <1>9 DEF Store!MoveTo
<1> HIDE DEF s, p
<1>11. IsNext(s, p, n, Store!Slice(s, p, n))
  BY <1>1, NextBytes
<1>12. IsNext(s, p, n, d)
  BY <1>2, <1>11
<1> QED
  BY <1>10, <1>12 DEF GetsNext, s, p

LEMMA OthersStay ==
    ASSUME Holding, NEW h \in {0, 1}, NEW n, Reads(h, n), NEW k \in {0, 1} \ {h}
    PROVE  fds'[k] = fds[k]
<1>1. Store!Read(h, n) /\ DOMAIN fds = {0, 1}
  BY DEF Reads, Holding
<1> QED
  BY <1>1 DEF Store!Read, Store!MoveTo

\* The files hold texts from the start on.
LEMMA ToolTexts == ToolInit => HoldTexts({store})
  BY ToolAssumption DEF ToolInit, ToolAssumption, HoldTexts

LEMMA FirstHand ==
    ASSUME ToolHolding, tpc = "read" \/ tpc = "read2" \/ tpc = "seek" \/ tpc = "close"
    PROVE  handles[1] \in {0, 1}
<1>1. handles \in Hands /\ handles # <<>>
  BY DEF ToolHolding, Holding, ToolHands
<1> QED
  BY <1>1 DEF Hands

\* A file that is opened is read from its start.
LEMMA OpenIs ==
    ASSUME Holding, NEW p \in {1, 2}, NEW m, NEW h \in {0, 1}, Store!Open(p, m, h)
    PROVE  /\ fds'[h].file = p /\ fds'[h].pos = 0 /\ fds[h].st = "closed"
           /\ \A k \in {0, 1} \ {h} : fds'[k] = fds[k]
<1>1. <<1, 2>>[p] = p
  OBVIOUS
<1> QED
  BY <1>1 DEF Holding, Store!Open
-----------------------------------------------------------------------------
(***************************************************************************)
(* WC counts what is there, wherever a chunk ends.                         *)
(***************************************************************************)
NewlinesTo(s, p) == {i \in 1..p : s[i] = NL}
StartsTo(s, p) == {i \in 1..p : s[i] \notin Spaces /\ (i = 1 \/ s[i - 1] \in Spaces)}
WcOf(s, p) ==
    [in_word |-> p # 0 /\ s[p] \notin Spaces,
     lines |-> Cardinality(NewlinesTo(s, p)),
     words |-> Cardinality(StartsTo(s, p)),
     chars |-> p]

LEMMA OneMore ==
    ASSUME NEW p \in Nat, NEW S, S \subseteq 1..p
    PROVE  /\ IsFiniteSet(S) /\ Cardinality(S) \in Nat
           /\ Cardinality(S \cup {p + 1}) = Cardinality(S) + 1
<1>1. IsFiniteSet(1..p)
  BY FS_Interval
<1>2. IsFiniteSet(S)
  BY <1>1, FS_Subset
<1>3. Cardinality(S) \in Nat
  BY <1>2, FS_CardinalityType
<1>4. p + 1 \notin S
  OBVIOUS
<1> QED
  BY <1>2, <1>3, <1>4, FS_AddElement

LEMMA WcNext ==
    ASSUME NEW s, NEW p \in Nat
    PROVE  Counted(WcOf(s, p), s[p + 1]) = WcOf(s, p + 1)
<1> DEFINE c == s[p + 1]  w == WcOf(s, p)
<1>1. NewlinesTo(s, p + 1) = NewlinesTo(s, p) \cup (IF c = NL THEN {p + 1} ELSE {})
  BY DEF NewlinesTo
<1>2. Cardinality(NewlinesTo(s, p + 1)) = Cardinality(NewlinesTo(s, p)) + (IF c = NL THEN 1 ELSE 0)
  <2>1. NewlinesTo(s, p) \subseteq 1..p
    BY DEF NewlinesTo
  <2>2. Cardinality(NewlinesTo(s, p)) \in Nat /\ Cardinality(NewlinesTo(s, p) \cup {p + 1}) = Cardinality(NewlinesTo(s, p)) + 1
    BY <2>1, OneMore
  <2> HIDE DEF c
  <2>3. CASE c = NL
    BY <1>1, <2>2, <2>3
  <2>4. CASE c # NL
    <3>1. NewlinesTo(s, p + 1) = NewlinesTo(s, p)
      BY <1>1, <2>4
    <3> QED
      BY <2>2, <2>4, <3>1
  <2> QED
    BY <2>3, <2>4
<1>3. c \notin Spaces /\ ~w.in_word <=> c \notin Spaces /\ (p + 1 = 1 \/ s[p] \in Spaces)
  <2>1. w.in_word = (p # 0 /\ s[p] \notin Spaces)
    BY DEF WcOf
  <2>2. p + 1 = 1 <=> p = 0
    OBVIOUS
  <2> HIDE DEF w, c
  <2> QED
    BY <2>1, <2>2, Zenon
<1>4. StartsTo(s, p + 1) = StartsTo(s, p) \cup (IF c \notin Spaces /\ ~w.in_word THEN {p + 1} ELSE {})
  <2>1. (p + 1) - 1 = p /\ \A i \in 1..p + 1 : i \in 1..p \/ i = p + 1
    OBVIOUS
  <2> QED
    BY <1>3, <2>1 DEF StartsTo
<1>5. Cardinality(StartsTo(s, p + 1)) = Cardinality(StartsTo(s, p)) + (IF c \notin Spaces /\ ~w.in_word THEN 1 ELSE 0)
  <2>1. StartsTo(s, p) \subseteq 1..p
    BY DEF StartsTo
  <2>2. Cardinality(StartsTo(s, p)) \in Nat /\ Cardinality(StartsTo(s, p) \cup {p + 1}) = Cardinality(StartsTo(s, p)) + 1
    BY <2>1, OneMore
  <2> HIDE DEF c, w
  <2>3. CASE c \notin Spaces /\ ~w.in_word
    BY <1>4, <2>2, <2>3
  <2>4. CASE ~(c \notin Spaces /\ ~w.in_word)
    <3>1. StartsTo(s, p + 1) = StartsTo(s, p)
      BY <1>4, <2>4
    <3> QED
      BY <2>2, <2>4, <3>1
  <2> QED
    BY <2>3, <2>4
<1>6. w.lines = Cardinality(NewlinesTo(s, p)) /\ w.words = Cardinality(StartsTo(s, p)) /\ w.chars = p
  BY DEF WcOf
<1>7. p + 1 # 0
  OBVIOUS
<1> HIDE DEF w, c
<1>8. Counted(w, c) = [in_word |-> c \notin Spaces, lines |-> Cardinality(NewlinesTo(s, p + 1)),
                       words |-> Cardinality(StartsTo(s, p + 1)), chars |-> p + 1]
  BY <1>2, <1>5, <1>6 DEF Counted
<1> QED
  BY <1>7, <1>8 DEF WcOf, w, c

\* A chunk is counted byte by byte.
WcRun(w0, d, n) == LET w[i \in 0..n] == IF i = 0 THEN w0 ELSE Counted(w[i - 1], d[i]) IN w[n]

LEMMA WcChunk ==
    ASSUME NEW s, NEW p \in Nat, NEW n \in Nat, NEW d, \A i \in 1..n : d[i] = s[p + i]
    PROVE  WcRun(WcOf(s, p), d, n) = WcOf(s, p + n)
<1> DEFINE t == CHOOSE w : w = [i \in 0..n |-> IF i = 0 THEN WcOf(s, p) ELSE Counted(w[i - 1], d[i])]
           v == [i \in 0..n |-> WcOf(s, p + i)]
<1>1. \A i \in 0..n : i # 0 => i - 1 \in 0..n /\ i \in 1..n
  OBVIOUS
<1>2. \A i \in 0..n : v[i] = IF i = 0 THEN WcOf(s, p) ELSE Counted(v[i - 1], d[i])
  <2> SUFFICES ASSUME NEW i \in 0..n PROVE v[i] = IF i = 0 THEN WcOf(s, p) ELSE Counted(v[i - 1], d[i])
    OBVIOUS
  <2>1. CASE i = 0
    <3>1. p + i = p
      BY <2>1
    <3> QED
      BY <2>1, <3>1
  <2>2. CASE i # 0
    <3>1. PICK k \in Nat : k = p + (i - 1) /\ k + 1 = p + i
      <4>1. p + (i - 1) \in Nat /\ (p + (i - 1)) + 1 = p + i
        BY <2>2
      <4> QED
        BY <4>1
    <3>2. v[i - 1] = WcOf(s, k) /\ v[i] = WcOf(s, k + 1) /\ d[i] = s[k + 1]
      BY <1>1, <2>2, <3>1
    <3>3. Counted(WcOf(s, k), s[k + 1]) = WcOf(s, k + 1)
      BY WcNext
    <3> QED
      BY <2>2, <3>2, <3>3
  <2> QED
    BY <2>1, <2>2
<1>3. v = [i \in 0..n |-> IF i = 0 THEN WcOf(s, p) ELSE Counted(v[i - 1], d[i])]
  <2>1. v = [i \in 0..n |-> v[i]]
    OBVIOUS
  <2> HIDE DEF v
  <2> QED
    BY <1>2, <2>1
<1>4. t = [i \in 0..n |-> IF i = 0 THEN WcOf(s, p) ELSE Counted(t[i - 1], d[i])]
  BY <1>3
<1> HIDE DEF v, t
<1> DEFINE Good == {i \in Nat : i <= n => t[i] = WcOf(s, p + i)}
<1>5. 0 \in Good
  <2>1. 0 \in 0..n /\ p + 0 = p
    OBVIOUS
  <2>2. t[0] = WcOf(s, p)
    BY <1>4, <2>1
  <2> QED
    BY <2>1, <2>2
<1>6. ASSUME NEW i \in Nat, i \in Good PROVE i + 1 \in Good
  <2> SUFFICES ASSUME i + 1 <= n PROVE t[i + 1] = WcOf(s, p + (i + 1))
    OBVIOUS
  <2>1. PICK j \in 1..n, k \in Nat : j = i + 1 /\ j - 1 = i /\ k = p + i /\ k + 1 = p + j
    <3>1. i + 1 \in 1..n /\ p + i \in Nat /\ (i + 1) - 1 = i /\ (p + i) + 1 = p + (i + 1)
      OBVIOUS
    <3> QED
      BY <3>1
  <2>2. j \in 0..n /\ j # 0
    BY <2>1
  <2>3. t[j] = Counted(t[i], d[j])
    BY <1>4, <2>1, <2>2
  <2>4. t[i] = WcOf(s, k) /\ d[j] = s[k + 1]
    BY <1>6, <2>1
  <2>5. Counted(WcOf(s, k), s[k + 1]) = WcOf(s, k + 1)
    BY WcNext
  <2> QED
    BY <2>1, <2>3, <2>4, <2>5
<1> HIDE DEF Good
<1>7. Nat \subseteq Good
  BY <1>5, <1>6, FromZero
<1>8. t[n] = WcOf(s, p + n)
  BY <1>7 DEF Good
<1> QED
  BY <1>8 DEF t, WcRun

Printed(s) == <<Cardinality(Newlines(s)), Words(s), Len(s)>>

\* What WC has counted.
WcHolds ==
    tool = "wc" =>
        /\ arg = <<1>> /\ HoldTexts({store})
        /\ tpc = "open" => kept = WcOf(store[1], 0)
        /\ tpc = "read" =>
              /\ fds[handles[1]].file = 1 /\ fds[handles[1]].pos \in 0..Len(store[1])
              /\ kept = WcOf(store[1], fds[handles[1]].pos)
        /\ tpc = "close" /\ ~faulty => kept = WcOf(store[1], Len(store[1]))
        /\ tpc = "done" /\ ~faulty /\ 1 \in names => out = Printed(store[1])

LEMMA WcPrints ==
    ASSUME NEW B, NEW s \in Seq(B)
    PROVE  <<WcOf(s, Len(s)).lines, WcOf(s, Len(s)).words, WcOf(s, Len(s)).chars>> = Printed(s)
<1>1. DOMAIN s = 1..Len(s)
  OBVIOUS
<1> QED
  BY <1>1 DEF WcOf, Printed, Newlines, NewlinesTo, Words, StartsTo

LEMMA WcStep == ToolHolding /\ WcHolds /\ [ToolNext]_toolVars => WcHolds'
<1> SUFFICES ASSUME ToolHolding, WcHolds, [ToolNext]_toolVars, tool = "wc" PROVE WcHolds'
  BY ToolKeeps DEF WcHolds
<1> DEFINE s == store[1]  h == handles[1]
<1>1. store' = store /\ names' = names /\ tool' = tool /\ arg' = arg /\ (faulty => faulty')
  BY ToolKeeps
<1>2. arg = <<1>> /\ HoldTexts({store}) /\ s \in Seq(Range(s)) /\ arg[1] = 1
  BY DEF WcHolds, HoldTexts
<1>3. HoldTexts({store'}) /\ arg' = <<1>>
  BY <1>1, <1>2
<1>4. Holding
  BY DEF ToolHolding
<1>5. CASE Open
  <2>1. ASSUME NEW k \in {0, 1}, Store!Open(arg[1], "ro", k), handles' = <<k>>, tpc' = AfterOpen[tool], UNCHANGED kept
        PROVE  WcHolds'
    <3>1. fds'[k].file = 1 /\ fds'[k].pos = 0
      BY <1>2, <1>4, <2>1, OpenIs
    <3>2. handles'[1] = k /\ tpc' = "read" /\ tpc = "open"
      BY <1>5, <2>1 DEF AfterOpen, Open, At
    <3>3. kept' = WcOf(s, 0) /\ 0 \in 0..Len(s)
      BY <1>2, <2>1, <3>2 DEF WcHolds
    <3> QED
      BY <1>1, <1>3, <3>1, <3>2, <3>3 DEF WcHolds
  <2>2. ASSUME Missing \/ Fails("open"), tpc' = "done" PROVE WcHolds'
    <3>1. 1 \notin names' \/ faulty'
      BY <1>1, <1>2, <2>2 DEF Missing, Fails
    <3> QED
      BY <1>3, <2>2, <3>1 DEF WcHolds
  <2> QED
    BY <1>5, <2>1, <2>2 DEF Open
<1>6. CASE Close
  <2>1. tpc = "close" /\ out' = <<kept.lines, kept.words, kept.chars>> /\ UNCHANGED <<kept, faulty>>
        /\ tpc' \in {"done", "close"}
    BY <1>6 DEF Close, At
  <2>2. ASSUME ~faulty PROVE kept = WcOf(s, Len(s)) /\ out' = Printed(s)
    <3>1. kept = WcOf(s, Len(s))
      BY <2>1, <2>2 DEF WcHolds
    <3> QED
      BY <1>2, <2>1, <3>1, WcPrints
  <2> QED
    BY <1>1, <1>3, <2>1, <2>2 DEF WcHolds
<1>7. CASE ReadFails
  BY <1>3, <1>7 DEF ReadFails, Fails, WcHolds
<1>8. CASE WcReads
  <2>1. /\ Reads(h, ReadChunk) /\ tpc = "read" /\ handles' = handles
        /\ tpc' = IF reply'.data = <<>> THEN "close" ELSE "read"
        /\ faulty' = faulty
    BY <1>8 DEF WcReads, At, Reads
  <2>2. h \in {0, 1}
    BY <2>1, FirstHand
  <2>3. PICK p \in 0..Len(s) : p = fds[h].pos /\ fds[h].file = 1 /\ kept = WcOf(s, p)
    BY <2>1 DEF WcHolds
  <2>4. ReadChunk \in Nat \ {0}
    BY ToolAssumption DEF ToolAssumption
  <2>5. PICK d : d = reply'.data
    OBVIOUS
  <2> HIDE DEF h, s
  <2>6. s = store[fds[h].file]
    BY <2>3 DEF s
  <2>12. Reads(h, ReadChunk)
    BY <2>1
  <2>13. IsNext(s, p, ReadChunk, d) /\ fds'[h].pos = p + Len(d) /\ fds'[h].file = 1
    <3>1. Readable(h)
      BY <1>2, <2>3, <2>6 DEF Readable
    <3>2. GetsNext(h, ReadChunk)
      BY <1>4, <2>2, <2>4, <2>12, <3>1, ReadsAre
    <3> QED
      BY <2>3, <2>5, <2>6, <3>2 DEF GetsNext
  <2>7. /\ d \in Seq(Range(s)) /\ Len(d) = IF p + ReadChunk <= Len(s) THEN ReadChunk ELSE Len(s) - p
        /\ \A i \in 1..Len(d) : d[i] = s[p + i]
        /\ p + Len(d) \in 0..Len(s) /\ fds'[h].pos = p + Len(d) /\ fds'[h].file = 1
    BY <2>13 DEF IsNext
  <2>8. PICK n \in Nat : n = Len(d)
    BY <2>7
  <2>9. kept' = WcOf(s, p + n)
    <3>1. kept' = WcRun(WcOf(s, p), d, n)
      BY <1>8, <2>3, <2>5, <2>8 DEF WcReads, WcRun
    <3>2. p \in Nat /\ \A i \in 1..n : d[i] = s[p + i]
      BY <2>7, <2>8
    <3> QED
      BY <3>1, <3>2, WcChunk
  <2>10. d = <<>> => p + n = Len(s)
    BY <1>2, <2>4, <2>7, <2>8
  <2>11. handles'[1] = h
    BY <2>1 DEF h
  <2> QED
    BY <1>1, <1>3, <2>1, <2>5, <2>7, <2>8, <2>9, <2>10, <2>11 DEF WcHolds, s
<1>9. CASE UNCHANGED toolVars
  BY <1>9 DEF WcHolds, toolVars, fileVars, HoldTexts, Printed
<1> QED
  BY <1>5, <1>6, <1>7, <1>8, <1>9
  DEF ToolNext, OpenSecond, HeadReads, TailSeeks, TailReads, GrepReads, DiffReadsFirst, DiffReadsSecond, At
-----------------------------------------------------------------------------
(***************************************************************************)
(* DIFF finds the first difference, chunk by chunk.                        *)
(***************************************************************************)
Common(c, d) == IF Len(c) < Len(d) THEN Len(c) ELSE Len(d)
Differ(c, d) == {i \in 1..Common(c, d) : c[i] # d[i]}
LeastOf(S) == CHOOSE i \in S : \A j \in S : i <= j
SameTo(s, t, p) == p \in 0..Len(s) /\ p \in 0..Len(t) /\ \A i \in 1..p : s[i] = t[i]

LEMMA LeastOfIs ==
    ASSUME NEW S, S \subseteq Nat, NEW x \in S, \A y \in S : x <= y
    PROVE  LeastOf(S) = x
<1>1. \A y \in S : (\A z \in S : y <= z) => y = x
  OBVIOUS
<1> QED
  BY <1>1 DEF LeastOf

\* What two chunks at p say of the texts they are from.
Tells(s, t, p, c, d) ==
    /\ Differ(c, d) # {} => Verdict(s, t) = <<p + LeastOf(Differ(c, d)) - 1>>
    /\ Differ(c, d) = {} /\ Len(c) # Len(d) => Verdict(s, t) = <<"differ in size">>
    /\ Differ(c, d) = {} /\ Len(c) = Len(d) /\ c = <<>> => Verdict(s, t) = <<"identical">>
    /\ Differ(c, d) = {} /\ Len(c) = Len(d) => SameTo(s, t, p + Len(c))

\* The next chunks of two texts that are the same so far.
LEMMA ChunksTell ==
    ASSUME NEW s, s \in Seq(Range(s)), NEW t, t \in Seq(Range(t)), NEW p, SameTo(s, t, p),
           NEW n \in Nat \ {0}, NEW c, IsNext(s, p, n, c), NEW d, IsNext(t, p, n, d)
    PROVE  Tells(s, t, p, c, d)
<1> DEFINE k == Len(s)  l == Len(t)  m == Common(c, d)  D == {i \in DOMAIN s \cap DOMAIN t : s[i] # t[i]}
<1>1. /\ k \in Nat /\ l \in Nat /\ p \in 0..k /\ p \in 0..l /\ \A i \in 1..p : s[i] = t[i]
      /\ DOMAIN s = 1..k /\ DOMAIN t = 1..l
  BY DEF SameTo
<1>2. /\ c \in Seq(Range(s)) /\ Len(c) = (IF p + n <= k THEN n ELSE k - p) /\ p + Len(c) \in 0..k /\ Len(c) \in Nat
      /\ \A i \in 1..Len(c) : c[i] = s[p + i]
  BY DEF IsNext
<1>3. /\ d \in Seq(Range(t)) /\ Len(d) = (IF p + n <= l THEN n ELSE l - p) /\ p + Len(d) \in 0..l /\ Len(d) \in Nat
      /\ \A i \in 1..Len(d) : d[i] = t[p + i]
  BY DEF IsNext
<1>4. m \in Nat /\ m <= Len(c) /\ m <= Len(d) /\ (m = Len(c) \/ m = Len(d))
  BY <1>2, <1>3 DEF Common
<1>5. Verdict(s, t) = IF s = t THEN <<"identical">> ELSE IF D = {} THEN <<"differ in size">> ELSE <<LeastOf(D) - 1>>
  BY DEF Verdict, LeastOf
<1>6. D = {i \in (1..k) \cap (1..l) : s[i] # t[i]}
  BY <1>1
<1>7. Differ(c, d) = {i \in 1..m : c[i] # d[i]}
  BY DEF Differ
<1> HIDE DEF k, l, m, D
<1>8. \A i \in 1..m : c[i] = s[p + i] /\ d[i] = t[p + i]
  <2>1. \A i \in 1..m : i \in 1..Len(c) /\ i \in 1..Len(d)
    BY <1>2, <1>3, <1>4
  <2> QED
    BY <1>2, <1>3, <2>1
<1>9. \A i \in 1..m : i \in Differ(c, d) <=> p + i \in D
  <2>1. \A i \in 1..m : p + i \in (1..k) \cap (1..l)
    BY <1>1, <1>2, <1>3, <1>4
  <2> QED
    BY <1>6, <1>7, <1>8, <2>1
<1>10. \A j \in D : j > p
  BY <1>1, <1>6
<1>11. D \subseteq Nat /\ Differ(c, d) \subseteq Nat /\ Differ(c, d) \subseteq 1..m
  BY <1>1, <1>6, <1>7
<1>12. ASSUME Differ(c, d) # {} PROVE Verdict(s, t) = <<p + LeastOf(Differ(c, d)) - 1>>
  <2>1. PICK x \in Differ(c, d) : \A y \in Differ(c, d) : x <= y
    BY <1>11, <1>12, Least
  <2>2. x \in 1..m /\ p + x \in D /\ p + x \in Nat
    BY <1>1, <1>9, <1>11, <2>1
  <2>3. \A j \in D : p + x <= j
    <3> SUFFICES ASSUME NEW j \in D, ~(p + x <= j) PROVE FALSE
      OBVIOUS
    <3>1. PICK y \in 1..m : p + y = j /\ y < x
      <4>1. j - p \in 1..m /\ p + (j - p) = j /\ j - p < x
        BY <1>1, <1>4, <1>10, <1>11, <2>2
      <4> QED
        BY <4>1
    <3>2. y \in Differ(c, d)
      BY <1>9, <3>1
    <3>3. x <= y
      BY <2>1, <3>2
    <3> QED
      BY <2>2, <3>1, <3>3
  <2>4. LeastOf(D) = p + x
    BY <1>11, <2>2, <2>3, LeastOfIs
  <2>5. LeastOf(Differ(c, d)) = x
    BY <1>11, <2>1, LeastOfIs
  <2>6. s # t
    BY <1>6, <2>2
  <2>7. Verdict(s, t) = <<LeastOf(D) - 1>>
    BY <1>5, <2>2, <2>6
  <2>8. p \in Nat /\ x \in Nat
    BY <1>1, <1>11, <2>1
  <2> HIDE DEF Differ, LeastOf
  <2> QED
    BY <2>4, <2>5, <2>7, <2>8
<1>13. ASSUME Differ(c, d) = {} PROVE \A i \in 1..p + m : s[i] = t[i]
  <2> SUFFICES ASSUME NEW i \in 1..p + m PROVE s[i] = t[i]
    OBVIOUS
  <2>1. CASE i <= p
    BY <1>1, <2>1
  <2>2. CASE i > p
    <3>1. PICK y \in 1..m : p + y = i
      <4>1. i - p \in 1..m /\ p + (i - p) = i
        BY <1>1, <1>4, <2>2
      <4> QED
        BY <4>1
    <3>2. y \notin Differ(c, d)
      BY <1>13
    <3> QED
      BY <1>7, <1>8, <3>1, <3>2
  <2> QED
    BY <1>1, <2>1, <2>2
<1>14. ASSUME Differ(c, d) = {}, Len(c) # Len(d) PROVE Verdict(s, t) = <<"differ in size">>
  <2>1. k # l /\ (p + m = k \/ p + m = l) /\ p + m <= k /\ p + m <= l
    BY <1>1, <1>2, <1>3, <1>4, <1>14
  <2>2. s # t
    BY <2>1 DEF k, l
  <2>3. D = {}
    <3>1. \A i \in (1..k) \cap (1..l) : i \in 1..p + m
      BY <1>1, <1>4, <2>1
    <3> QED
      BY <1>6, <1>13, <1>14, <3>1
  <2> QED
    BY <1>5, <2>2, <2>3
<1>15. ASSUME Differ(c, d) = {}, Len(c) = Len(d), c = <<>> PROVE Verdict(s, t) = <<"identical">>
  <2>1. Len(c) = 0
    BY <1>15
  <2>2. k = p /\ l = p
    BY <1>1, <1>2, <1>3, <1>15, <2>1
  <2>3. s = t
    <3>1. s \in Seq(Range(s) \cup Range(t)) /\ t \in Seq(Range(s) \cup Range(t))
      BY SeqMonotonic
    <3>2. Len(s) = Len(t) /\ \A i \in 1..Len(s) : s[i] = t[i]
      BY <1>1, <2>2 DEF k, l
    <3> QED
      BY <3>1, <3>2, SeqEqual
  <2> QED
    BY <1>5, <2>3
<1>16. ASSUME Differ(c, d) = {}, Len(c) = Len(d) PROVE SameTo(s, t, p + Len(c))
  <2>1. m = Len(c)
    BY <1>4, <1>16
  <2> QED
    BY <1>2, <1>3, <1>13, <1>16, <2>1 DEF SameTo, k, l
<1> QED
  BY <1>12, <1>14, <1>15, <1>16 DEF Tells

\* How far DIFF has come.
Level ==
    LET a == handles[1]  b == handles[2] IN
    /\ fds[a].file = 1 /\ fds[b].file = arg[2] /\ fds[b].pos = kept.offset
    /\ SameTo(store[1], store[arg[2]], kept.offset)
    /\ kept = [chunk |-> kept.chunk, offset |-> kept.offset]
    /\ tpc = "read" => fds[a].pos = kept.offset
    /\ tpc = "read2" => IsNext(store[1], kept.offset, ReadChunk, kept.chunk)
                        /\ fds[a].pos = kept.offset + Len(kept.chunk)

DiffHolds ==
    tool = "diff" =>
        /\ arg \in {<<1, 1>>, <<1, 2>>} /\ HoldTexts({store})
        /\ tpc \in {"open", "open2"} => kept = [chunk |-> <<>>, offset |-> 0]
        /\ tpc = "open2" => fds[handles[1]].file = 1 /\ fds[handles[1]].pos = 0
        /\ tpc \in {"read", "read2"} /\ ~faulty => Level
        /\ tpc = "close" /\ ~faulty => out = Verdict(store[1], store[arg[2]])
        /\ tpc = "done" /\ ~faulty /\ 1 \in names => out = Verdict(store[1], store[arg[2]])

LEMMA TwoHands ==
    ASSUME ToolHolding, tool = "diff", tpc = "read" \/ tpc = "read2"
    PROVE  handles[1] \in {0, 1} /\ handles[2] \in {0, 1} /\ handles[1] # handles[2]
<1>1. handles \in Hands /\ Len(handles) = 2
  BY DEF ToolHolding, Holding, ToolHands
<1>2. handles = <<0, 1>> \/ handles = <<1, 0>>
  BY <1>1, FewHands
<1> QED
  BY <1>2

LEMMA DiffStep == ToolHolding /\ DiffHolds /\ [ToolNext]_toolVars => DiffHolds'
<1> SUFFICES ASSUME ToolHolding, DiffHolds, [ToolNext]_toolVars, tool = "diff" PROVE DiffHolds'
  BY ToolKeeps DEF DiffHolds
<1> DEFINE s == store[1]  t == store[arg[2]]
<1>1. store' = store /\ names' = names /\ tool' = tool /\ arg' = arg /\ (faulty => faulty')
  BY ToolKeeps
<1>2. arg \in {<<1, 1>>, <<1, 2>>} /\ HoldTexts({store}) /\ arg[1] = 1 /\ arg[2] \in {1, 2}
  BY DEF DiffHolds
<1>3. HoldTexts({store'}) /\ arg' \in {<<1, 1>>, <<1, 2>>}
  BY <1>1, <1>2
<1>a. s \in Seq(Range(s)) /\ t \in Seq(Range(t))
  BY <1>2 DEF HoldTexts
<1>4. Holding /\ ReadChunk \in Nat \ {0}
  BY ToolAssumption DEF ToolHolding, ToolAssumption
<1>5. CASE Open
  <2>1. ASSUME NEW k \in {0, 1}, Store!Open(arg[1], "ro", k), handles' = <<k>>, tpc' = AfterOpen[tool], UNCHANGED kept
        PROVE  DiffHolds'
    <3>1. fds'[k].file = 1 /\ fds'[k].pos = 0
      BY <1>2, <1>4, <2>1, OpenIs
    <3>2. handles'[1] = k /\ tpc' = "open2" /\ tpc = "open"
      BY <1>5, <2>1 DEF AfterOpen, Open, At
    <3>3. kept' = [chunk |-> <<>>, offset |-> 0]
      BY <2>1, <3>2 DEF DiffHolds
    <3> QED
      BY <1>3, <3>1, <3>2, <3>3 DEF DiffHolds
  <2>2. ASSUME Missing \/ Fails("open"), tpc' = "done" PROVE DiffHolds'
    <3>1. 1 \notin names' \/ faulty'
      BY <1>1, <1>2, <2>2 DEF Missing, Fails
    <3> QED
      BY <1>3, <2>2, <3>1 DEF DiffHolds
  <2> QED
    BY <1>5, <2>1, <2>2 DEF Open
<1>6. CASE OpenSecond
  <2>0. tpc = "open2" /\ UNCHANGED <<kept, out>>
    BY <1>6 DEF OpenSecond, At
  <2>1. ASSUME NEW k \in {0, 1}, Store!Open(arg[2], "ro", k), handles' = Append(handles, k), tpc' = "read"
        PROVE  DiffHolds'
    <3>1. fds'[k].file = arg[2] /\ fds'[k].pos = 0 /\ fds[k].st = "closed" /\ \A l \in {0, 1} \ {k} : fds'[l] = fds[l]
      BY <1>2, <1>4, <2>1, OpenIs
    <3>2. PICK l \in {0, 1} : handles = <<l>>
      BY <2>0, FewHands DEF ToolHolding, Holding, ToolHands
    <3>3. handles' = <<l, k>> /\ fds[l].file = 1 /\ fds[l].pos = 0
      <4>1. handles' = <<l, k>>
        BY <2>1, <3>2, Tuples
      <4>2. handles[1] = l
        BY <3>2
      <4>3. fds[handles[1]].file = 1 /\ fds[handles[1]].pos = 0
        BY <2>0 DEF DiffHolds
      <4> QED
        BY <4>1, <4>2, <4>3
    <3>4. l # k
      BY <1>4, <3>1, <3>2, HeldIs DEF Holding
    <3>5. handles'[1] = l /\ handles'[2] = k /\ fds'[l].file = 1 /\ fds'[l].pos = 0
      BY <3>1, <3>3, <3>4
    <3>6. kept' = [chunk |-> <<>>, offset |-> 0]
      BY <2>0 DEF DiffHolds
    <3>7. SameTo(store'[1], store'[arg'[2]], 0)
      BY <1>1, <1>a DEF SameTo
    <3>8. Level'
      BY <1>1, <2>1, <3>1, <3>5, <3>6, <3>7 DEF Level
    <3> QED
      BY <1>3, <2>1, <3>8 DEF DiffHolds
  <2>2. ASSUME Fails("open"), tpc' = "close" PROVE DiffHolds'
    BY <1>3, <2>2 DEF DiffHolds, Fails
  <2> QED
    BY <1>6, <2>1, <2>2 DEF OpenSecond
<1>7. CASE Close
  <2>1. tpc = "close" /\ out' = out /\ faulty' = faulty /\ tpc' \in {"done", "close"}
    BY <1>7 DEF Close, At
  <2> QED
    BY <1>1, <1>3, <2>1 DEF DiffHolds
<1>8. CASE DiffReadsFirst
  <2>1. tpc = "read" /\ tpc' = "read2" /\ handles' = handles
    BY <1>8 DEF DiffReadsFirst, At
  <2>2. CASE Fails("read")
    BY <1>3, <2>1, <2>2 DEF DiffHolds, Fails
  <2>3. CASE Reads(handles[1], ReadChunk) /\ kept' = [kept EXCEPT !.chunk = reply'.data]
    <3> SUFFICES ASSUME ~faulty' PROVE Level'
      BY <1>3, <2>1 DEF DiffHolds
    <3>1. Level /\ handles[1] \in {0, 1} /\ handles[2] \in {0, 1} \ {handles[1]}
      BY <1>1, <2>1, TwoHands DEF DiffHolds
    <3>2. PICK a \in {0, 1}, b \in {0, 1} : a = handles[1] /\ b = handles[2]
      BY <3>1
    <3>3. PICK p \in 0..Len(s) : p = kept.offset
      BY <3>1 DEF Level, SameTo
    <3>4. /\ fds[a].file = 1 /\ fds[b].file = arg[2] /\ fds[b].pos = p /\ SameTo(s, t, p)
          /\ kept = [chunk |-> kept.chunk, offset |-> p] /\ fds[a].pos = p
          /\ b \in {0, 1} \ {a}
      BY <2>1, <3>1, <3>2, <3>3 DEF Level
    <3>5. PICK d : d = reply'.data
      OBVIOUS
    <3>6. Reads(a, ReadChunk) /\ kept' = [chunk |-> d, offset |-> p]
      BY <2>3, <3>2, <3>4, <3>5
    <3>7. p = fds[a].pos
      BY <3>4
    <3>11. Reads(a, ReadChunk)
      BY <3>6
    <3>12. ReadChunk \in Nat \ {0} /\ s \in Seq(Range(s))
      BY <1>4, <1>a
    <3>13. Holding
      BY <1>4
    <3>8. s = store[fds[a].file]
      BY <3>4
    <3> HIDE DEF s, t
    <3>9. IsNext(s, p, ReadChunk, d) /\ fds'[a].pos = p + Len(d) /\ fds'[a].file = fds[a].file
      <4>1. Readable(a)
        BY <3>7, <3>8, <3>12 DEF Readable
      <4>2. GetsNext(a, ReadChunk)
        BY <3>11, <3>12, <3>13, <4>1, ReadsAre
      <4> QED
        BY <3>5, <3>7, <3>8, <4>2 DEF GetsNext
    <3>14. fds'[b] = fds[b]
      BY <3>4, <3>11, <3>13, OthersStay
    <3>10. handles'[1] = a /\ handles'[2] = b /\ fds'[b] = fds[b]
      BY <2>1, <3>2, <3>14
    <3> QED
      BY <1>1, <2>1, <3>4, <3>6, <3>9, <3>10 DEF Level, s, t
  <2> QED
    BY <1>8, <2>2, <2>3 DEF DiffReadsFirst
<1>9. CASE DiffReadsSecond
  <2>1. tpc = "read2" /\ handles' = handles
    BY <1>9 DEF DiffReadsSecond, At
  <2>2. CASE Fails("read") /\ DiffCompares(kept.chunk, <<>>)
    <3>1. tpc' \in {"close", "read"} /\ faulty'
      BY <2>2 DEF Fails, DiffCompares
    <3> QED
      BY <1>3, <3>1 DEF DiffHolds
  <2>3. CASE Reads(handles[2], ReadChunk) /\ DiffCompares(kept.chunk, reply'.data)
    <3>0. tpc' \in {"close", "read"}
      BY <2>3 DEF DiffCompares
    <3> SUFFICES ASSUME ~faulty'
                 PROVE  (tpc' = "read" => Level') /\ (tpc' = "close" => out' = Verdict(s, t))
      BY <1>1, <1>3, <3>0 DEF DiffHolds
    <3>1. Level /\ handles[1] \in {0, 1} /\ handles[2] \in {0, 1} \ {handles[1]}
      BY <1>1, <2>1, TwoHands DEF DiffHolds
    <3>2. PICK a \in {0, 1}, b \in {0, 1} : a = handles[1] /\ b = handles[2]
      BY <3>1
    <3>22. PICK p \in 0..Len(t) : p = kept.offset
      BY <3>1 DEF Level, SameTo
    <3>23. PICK c, d : c = kept.chunk /\ d = reply'.data
      OBVIOUS
    <3>3. p = kept.offset /\ c = kept.chunk /\ d = reply'.data
      BY <3>22, <3>23
    <3>4. /\ fds[a].file = 1 /\ fds[b].file = arg[2] /\ fds[b].pos = p /\ SameTo(s, t, p)
          /\ kept = [chunk |-> c, offset |-> p] /\ fds[a].pos = p + Len(c) /\ IsNext(s, p, ReadChunk, c)
          /\ a \in {0, 1} \ {b}
      BY <2>1, <3>1, <3>2, <3>3 DEF Level
    <3>6. Reads(b, ReadChunk) /\ DiffCompares(c, d)
      BY <2>3, <3>2, <3>3
    <3>7. p \in Nat /\ Len(c) \in Nat
      BY <3>4 DEF IsNext
    <3>16. p = fds[b].pos /\ d = reply'.data
      BY <3>3, <3>4
    <3>17. Reads(b, ReadChunk)
      BY <3>6
    <3>18. ReadChunk \in Nat \ {0} /\ s \in Seq(Range(s)) /\ t \in Seq(Range(t))
      BY <1>4, <1>a
    <3>19. Holding
      BY <1>4
    <3>20. SameTo(s, t, p) /\ IsNext(s, p, ReadChunk, c)
      BY <3>4
    <3>8. t = store[fds[b].file]
      BY <3>4
    <3> HIDE DEF s, t
    <3>9. IsNext(t, p, ReadChunk, d) /\ fds'[b].pos = p + Len(d) /\ fds'[b].file = fds[b].file
      <4>1. Readable(b)
        BY <3>8, <3>16, <3>18 DEF Readable
      <4>2. GetsNext(b, ReadChunk)
        BY <3>17, <3>18, <3>19, <4>1, ReadsAre
      <4> QED
        BY <3>8, <3>16, <4>2 DEF GetsNext
    <3>21. fds'[a] = fds[a]
      BY <3>4, <3>17, <3>19, OthersStay
    <3>10. handles'[1] = a /\ handles'[2] = b /\ fds'[a] = fds[a]
      BY <2>1, <3>2, <3>21
    <3>11. Tells(s, t, p, c, d)
      BY <3>9, <3>18, <3>20, ChunksTell
    <3>12. CASE Differ(c, d) # {}
      <4>1. out' = <<p + LeastOf(Differ(c, d)) - 1>> /\ tpc' = "close"
        BY <3>3, <3>6, <3>12 DEF DiffCompares, Differ, Common, LeastOf
      <4> QED
        BY <3>11, <3>12, <4>1 DEF Tells
    <3>13. CASE Differ(c, d) = {} /\ Len(c) # Len(d)
      <4>1. out' = <<"differ in size">> /\ tpc' = "close"
        BY <3>6, <3>13 DEF DiffCompares, Differ, Common
      <4> QED
        BY <3>11, <3>13, <4>1 DEF Tells
    <3>14. CASE Differ(c, d) = {} /\ Len(c) = Len(d) /\ c = <<>>
      <4>1. out' = <<"identical">> /\ tpc' = "close"
        BY <3>6, <3>14 DEF DiffCompares, Differ, Common
      <4> QED
        BY <3>11, <3>14, <4>1 DEF Tells
    <3>15. CASE Differ(c, d) = {} /\ Len(c) = Len(d) /\ c # <<>>
      <4>1. kept' = [kept EXCEPT !.offset = @ + Len(c)] /\ tpc' = "read"
        BY <3>6, <3>15 DEF DiffCompares, Differ, Common
      <4>2. kept' = [chunk |-> c, offset |-> p + Len(c)]
        BY <3>4, <4>1
      <4>3. SameTo(s, t, p + Len(c))
        BY <3>11, <3>15 DEF Tells
      <4>4. Level'
        BY <1>1, <3>4, <3>9, <3>10, <3>15, <4>1, <4>2, <4>3 DEF Level, s, t
      <4> QED
        BY <4>1, <4>4
    <3> QED
      BY <3>12, <3>13, <3>14, <3>15
  <2> QED
    BY <1>9, <2>2, <2>3 DEF DiffReadsSecond
<1>10. CASE UNCHANGED toolVars
  <2>1. /\ tpc' = tpc /\ fds' = fds /\ handles' = handles /\ kept' = kept /\ out' = out /\ faulty' = faulty
    BY <1>10 DEF toolVars, fileVars
  <2>2. Level => Level'
    BY <1>1, <2>1 DEF Level
  <2> QED
    BY <1>1, <1>3, <2>1, <2>2 DEF DiffHolds
<1> QED
  BY <1>5, <1>6, <1>7, <1>8, <1>9, <1>10
  DEF ToolNext, ReadFails, HeadReads, TailSeeks, TailReads, GrepReads, WcReads, At
-----------------------------------------------------------------------------
(***************************************************************************)
(* Where the lines of a text end.                                          *)
(***************************************************************************)
LEMMA TextPlaces ==
    ASSUME NEW s, s \in Seq(Range(s))
    PROVE  /\ Places(Newlines(s), Len(s)) /\ Places(LineEnds(s), Len(s))
           /\ DOMAIN s = 1..Len(s) /\ Len(s) \in Nat
<1>1. DOMAIN s = 1..Len(s) /\ Len(s) \in Nat
  OBVIOUS
<1>2. \A e \in Newlines(s) : e \in 1..Len(s)
  BY <1>1 DEF Newlines
<1>3. \A e \in LineEnds(s) : e \in 1..Len(s)
  BY <1>1, <1>2 DEF LineEnds
<1> QED
  BY <1>1, <1>2, <1>3 DEF Places

\* A newline ends the line whose number it has.
LEMMA EndsRank ==
    ASSUME NEW s, s \in Seq(Range(s)), NEW e \in Newlines(s)
    PROVE  e \in LineEnds(s) /\ Rank(LineEnds(s), e) = Rank(Newlines(s), e)
<1>3. e \in Nat /\ e <= Len(s) /\ Len(s) \in Nat
  BY TextPlaces, PlacesAre
<1>1. \A d \in LineEnds(s) : d <= e => d \in Newlines(s)
  BY <1>3 DEF LineEnds
<1>2. {d \in LineEnds(s) : d <= e} = {d \in Newlines(s) : d <= e}
  BY <1>1 DEF LineEnds
<1> QED
  BY <1>2 DEF Rank, LineEnds

LEMMA LineEndIs ==
    ASSUME NEW s, s \in Seq(Range(s))
    PROVE  /\ \A i : LineEnd(s, i) = Nth(LineEnds(s), i)
           /\ \A e \in LineEnds(s) : LineEnd(s, Rank(LineEnds(s), e)) = e
           /\ \A i \in 1..Cardinality(LineEnds(s)) :
                 LineEnd(s, i) \in LineEnds(s) /\ Rank(LineEnds(s), LineEnd(s, i)) = i
<1>1. \A i : LineEnd(s, i) = Nth(LineEnds(s), i)
  BY DEF LineEnd, Nth, Rank
<1>2. Places(LineEnds(s), Len(s))
  BY TextPlaces
<1> QED
  BY <1>1, <1>2, NthOf, NthIs

\* The last line ends where the text does.
LEMMA LastEnd ==
    ASSUME NEW s, s \in Seq(Range(s)), s # <<>>
    PROVE  /\ Len(s) \in LineEnds(s) /\ Rank(LineEnds(s), Len(s)) = Cardinality(LineEnds(s))
           /\ LineEnd(s, Cardinality(LineEnds(s))) = Len(s) /\ Cardinality(LineEnds(s)) # 0
<1>1. Len(s) # 0 /\ Len(s) \in Nat
  BY EmptySeq
<1>2. Len(s) \in LineEnds(s)
  BY <1>1 DEF LineEnds
<1>3. Rank(LineEnds(s), Len(s)) = Cardinality(LineEnds(s))
  BY <1>1, TextPlaces, RankTo
<1>4. IsFiniteSet(LineEnds(s))
  BY TextPlaces, PlacesFinite
<1>5. Cardinality(LineEnds(s)) # 0
  BY <1>2, <1>4, FS_EmptySet
<1> QED
  BY <1>2, <1>3, <1>5, LineEndIs

\* There is one line more than newlines if the last one has none.
LEMMA EndsCount ==
    ASSUME NEW s, s \in Seq(Range(s))
    PROVE  /\ Cardinality(Newlines(s)) \in Nat /\ Cardinality(LineEnds(s)) \in Nat
           /\ LineEnds(s) = Newlines(s) => Cardinality(LineEnds(s)) = Cardinality(Newlines(s))
           /\ LineEnds(s) # Newlines(s) => Cardinality(LineEnds(s)) = Cardinality(Newlines(s)) + 1
<1>1. IsFiniteSet(Newlines(s)) /\ Cardinality(Newlines(s)) \in Nat /\ Cardinality(LineEnds(s)) \in Nat
  BY TextPlaces, PlacesFinite
<1>2. LineEnds(s) # Newlines(s) => LineEnds(s) = Newlines(s) \cup {Len(s)} /\ Len(s) \notin Newlines(s)
  BY DEF LineEnds
<1>3. Len(s) \notin Newlines(s) => Cardinality(Newlines(s) \cup {Len(s)}) = Cardinality(Newlines(s)) + 1
  BY <1>1, FS_AddElement
<1> QED
  BY <1>1, <1>2, <1>3

\* The lines are the text, cut where they end.
Bounds(s) == [i \in 0..Cardinality(LineEnds(s)) |-> IF i = 0 THEN 0 ELSE LineEnd(s, i)]

LEMMA LinesCut ==
    ASSUME NEW s, s \in Seq(Range(s))
    PROVE  IsCut(LinesOf(s), s, Bounds(s), Cardinality(LineEnds(s)))
<1> DEFINE n == Cardinality(LineEnds(s))  b == Bounds(s)
<1>1. n \in Nat /\ Len(s) \in Nat
  BY EndsCount, TextPlaces
<1>2. \A i \in 1..n : LineEnd(s, i) \in 1..Len(s) /\ Rank(LineEnds(s), LineEnd(s, i)) = i
  BY LineEndIs, TextPlaces, PlacesAre
<1> HIDE DEF n
<1>3. b = [i \in 0..n |-> IF i = 0 THEN 0 ELSE LineEnd(s, i)]
  BY DEF n, Bounds
<1> HIDE DEF b
<1>4. b \in [0..n -> 0..Len(s)]
  <2>1. \A i \in 0..n : i # 0 => i \in 1..n
    BY <1>1
  <2> QED
    BY <1>1, <1>2, <1>3, <2>1
<1>5. ASSUME NEW i \in 1..n
      PROVE  b[i - 1] <= b[i] /\ b[i - 1] = (IF i = 1 THEN 0 ELSE LineEnd(s, i - 1)) /\ b[i] = LineEnd(s, i)
  <2>1. i - 1 \in 0..n /\ i \in 0..n /\ i # 0
    BY <1>1
  <2>2. b[i] = LineEnd(s, i) /\ b[i - 1] = (IF i = 1 THEN 0 ELSE LineEnd(s, i - 1))
    BY <1>3, <2>1
  <2>3. CASE i = 1
    BY <1>1, <1>2, <2>2, <2>3
  <2>4. CASE i # 1
    <3>1. i - 1 \in 1..n
      BY <1>1, <2>4
    <3>2. PICK e \in Nat, d \in Nat : e = b[i] /\ d = b[i - 1]
      BY <1>2, <2>2, <2>4, <3>1
    <3>3. Rank(LineEnds(s), e) = i /\ Rank(LineEnds(s), d) = i - 1
      BY <1>2, <2>2, <2>4, <3>1, <3>2
    <3>4. e <= d => Rank(LineEnds(s), e) <= Rank(LineEnds(s), d)
      BY TextPlaces, RankGrows
    <3> QED
      BY <1>1, <2>2, <3>2, <3>3, <3>4
  <2> QED
    BY <2>2, <2>3, <2>4
<1>6. LinesOf(s) = [i \in 1..n |-> SubSeq(s, b[i - 1] + 1, b[i])]
  BY <1>5 DEF LinesOf, n
<1>7. IsCut(LinesOf(s), s, b, n)
  BY <1>1, <1>4, <1>5, <1>6 DEF IsCut
<1> QED
  BY <1>7 DEF b, n

LEMMA BoundsAre ==
    ASSUME NEW s, s \in Seq(Range(s))
    PROVE  /\ Bounds(s)[0] = 0
           /\ \A i \in 1..Cardinality(LineEnds(s)) : Bounds(s)[i] = LineEnd(s, i)
<1>1. Cardinality(LineEnds(s)) \in Nat
  BY EndsCount
<1> QED
  BY <1>1 DEF Bounds

\* Some lines of a text, one behind the other.
LEMMA LinesFrom ==
    ASSUME NEW s, s \in Seq(Range(s)), NEW x \in 1..Cardinality(LineEnds(s)), NEW y \in x..Cardinality(LineEnds(s))
    PROVE  FlattenSeq(SubSeq(LinesOf(s), x, y)) = SubSeq(s, Bounds(s)[x - 1] + 1, LineEnd(s, y))
<1>1. FlattenSeq(SubSeq(LinesOf(s), x, y)) = SubSeq(s, Bounds(s)[x - 1] + 1, Bounds(s)[y])
  BY LinesCut, FlatPart
<1>2. y \in 1..Cardinality(LineEnds(s))
  BY EndsCount
<1> QED
  BY <1>1, <1>2, BoundsAre

LEMMA NoLines ==
    ASSUME NEW s, s \in Seq(Range(s)), NEW x \in Nat, NEW y \in Nat, y < x
    PROVE  FlattenSeq(SubSeq(LinesOf(s), x, y)) = <<>>
<1>1. SubSeq(LinesOf(s), x, y) = <<>>
  BY SubSeqEmpty
<1> QED
  BY <1>1 DEF FlattenSeq

\* How many newlines there are in a part.
LEMMA PartNewlines ==
    ASSUME NEW s, s \in Seq(Range(s)), NEW a \in Nat, NEW b \in Nat, 1 <= a, a <= b + 1, b <= Len(s)
    PROVE  Cardinality(Newlines(SubSeq(s, a, b))) = Rank(Newlines(s), b) - Rank(Newlines(s), a - 1)
<1> DEFINE u == SubSeq(s, a, b)  N == Newlines(s)  U == Newlines(u)
<1>1. PICK m \in Nat, c \in Nat : m = b - a + 1 /\ c = a - 1 /\ c + m = b
  <2>1. b - a + 1 \in Nat /\ a - 1 \in Nat /\ (a - 1) + (b - a + 1) = b
    OBVIOUS
  <2> QED
    BY <2>1
<1>2. u \in Seq(Range(s)) /\ Len(u) = m /\ \A i \in 1..m : u[i] = s[c + i]
  <2>1. (IF a <= b THEN b - a + 1 ELSE 0) = m
    BY <1>1
  <2>2. \A i \in 1..m : a + i - 1 = c + i
    BY <1>1
  <2> QED
    BY <1>1, <2>1, <2>2, PartIs
<1>3. Places(N, Len(s)) /\ DOMAIN s = 1..Len(s) /\ Len(s) \in Nat
  BY TextPlaces
<1> HIDE DEF u
<1>4. DOMAIN u = 1..m
  BY <1>2
<1>5. Places(U, m)
  BY <1>4 DEF Places, Newlines
<1>6. \A i \in 1..m : i \in U <=> c + i \in N
  <2>1. \A i \in 1..m : c + i \in 1..Len(s)
    BY <1>1, <1>3
  <2> QED
    BY <1>2, <1>3, <1>4, <2>1 DEF Newlines
<1> HIDE DEF U, N
<1> DEFINE Good == {j \in Nat : j <= m => Rank(U, j) = Rank(N, c + j) - Rank(N, c)}
<1>7. \A j \in Nat : Rank(U, j) \in Nat /\ Rank(N, j) \in Nat /\ Rank(N, c + j) \in Nat
  BY <1>3, <1>5, RankType
<1>8. 0 \in Good
  <2>1. Rank(U, 0) = 0 /\ c + 0 = c /\ Rank(N, c) \in Nat
    BY <1>5, <1>7, RankZero
  <2> QED
    BY <2>1
<1>9. ASSUME NEW j \in Nat, j \in Good PROVE j + 1 \in Good
  <2> SUFFICES ASSUME j + 1 <= m PROVE Rank(U, j + 1) = Rank(N, c + (j + 1)) - Rank(N, c)
    OBVIOUS
  <2>1. PICK k \in Nat : k = c + j /\ k + 1 = c + (j + 1)
    <3>1. c + j \in Nat /\ (c + j) + 1 = c + (j + 1)
      OBVIOUS
    <3> QED
      BY <3>1
  <2>2. Rank(U, j) = Rank(N, k) - Rank(N, c)
    BY <1>9, <2>1
  <2>3. Rank(U, j + 1) = Rank(U, j) + (IF j + 1 \in U THEN 1 ELSE 0)
    BY <1>5, RankNext
  <2>4. Rank(N, k + 1) = Rank(N, k) + (IF k + 1 \in N THEN 1 ELSE 0)
    BY <1>3, RankNext
  <2>5. j + 1 \in U <=> k + 1 \in N
    <3>1. j + 1 \in 1..m
      OBVIOUS
    <3> QED
      BY <1>6, <2>1, <3>1
  <2>6. Rank(N, c) \in Nat /\ Rank(N, k) \in Nat
    BY <1>7
  <2> QED
    BY <2>1, <2>2, <2>3, <2>4, <2>5, <2>6
<1> HIDE DEF Good
<1>10. Nat \subseteq Good
  BY <1>8, <1>9, FromZero
<1>11. Rank(U, m) = Rank(N, b) - Rank(N, c)
  BY <1>1, <1>10 DEF Good
<1>12. Rank(U, m) = Cardinality(U)
  BY <1>5, RankTo
<1> QED
  BY <1>1, <1>11, <1>12 DEF u, U, N
-----------------------------------------------------------------------------
(***************************************************************************)
(* HEAD shows the first lines.                                             *)
(***************************************************************************)
LEMMA FewLines ==
    ASSUME NEW s, s \in Seq(Range(s)), NEW k \in Nat, Cardinality(LineEnds(s)) <= k
    PROVE  LET l == LinesOf(s) IN FlattenSeq(SubSeq(l, 1, Cardinality(LineEnds(s)))) = s
<1>1. CASE s = <<>>
  <2>1. Len(s) = 0
    BY <1>1
  <2>2. LineEnds(s) = {}
    BY <2>1, TextPlaces DEF LineEnds, Newlines
  <2>3. Cardinality(LineEnds(s)) = 0
    BY <2>2, FS_EmptySet
  <2>4. FlattenSeq(SubSeq(LinesOf(s), 1, 0)) = <<>>
    BY NoLines
  <2> QED
    BY <1>1, <2>3, <2>4
<1>2. CASE s # <<>>
  <2>1. PICK n \in Nat : n = Cardinality(LineEnds(s)) /\ 1 \in 1..n /\ n \in 1..n
    BY <1>2, LastEnd, EndsCount
  <2>2. FlattenSeq(SubSeq(LinesOf(s), 1, n)) = SubSeq(s, Bounds(s)[1 - 1] + 1, LineEnd(s, n))
    BY <2>1, LinesFrom
  <2>3. Bounds(s)[1 - 1] = 0 /\ LineEnd(s, n) = Len(s)
    BY <1>2, <2>1, BoundsAre, LastEnd
  <2>4. FlattenSeq(SubSeq(LinesOf(s), 1, n)) = SubSeq(s, 1, Len(s))
    BY <2>2, <2>3
  <2> QED
    BY <2>1, <2>4, SubSeqFull
<1> QED
  BY <1>1, <1>2

LEMMA FirstLinesAre ==
    ASSUME NEW s, s \in Seq(Range(s))
    PROVE  /\ Cardinality(Newlines(s)) < Lines => FirstLines(s) = s
           /\ \A q \in Newlines(s) : Rank(Newlines(s), q) = Lines => FirstLines(s) = SubSeq(s, 1, q)
<1> DEFINE n == Cardinality(LineEnds(s))
<1>1. n \in Nat /\ Lines \in Nat \ {0} /\ Len(LinesOf(s)) = n /\ Cardinality(Newlines(s)) \in Nat
  BY LinesCut, CutLength, EndsCount, ToolAssumption DEF ToolAssumption
<1>2. FirstLines(s) = FlattenSeq(SubSeq(LinesOf(s), 1, IF n < Lines THEN n ELSE Lines))
  BY <1>1 DEF FirstLines
<1>3. ASSUME Cardinality(Newlines(s)) < Lines PROVE FirstLines(s) = s
  <2>1. n <= Lines
    BY <1>1, <1>3, EndsCount
  <2>2. (IF n < Lines THEN n ELSE Lines) = n
    BY <1>1, <2>1
  <2> QED
    BY <1>1, <1>2, <2>1, <2>2, FewLines
<1>4. ASSUME NEW q \in Newlines(s), Rank(Newlines(s), q) = Lines PROVE FirstLines(s) = SubSeq(s, 1, q)
  <2>1. q \in LineEnds(s) /\ Rank(LineEnds(s), q) = Lines
    BY <1>4, EndsRank
  <2>2. LineEnd(s, Lines) = q
    BY <2>1, LineEndIs
  <2>3. Lines <= n
    <3>1. q \in Nat /\ Len(s) \in Nat /\ q <= Len(s)
      BY <2>1, TextPlaces, PlacesAre
    <3>2. Rank(LineEnds(s), q) <= Rank(LineEnds(s), Len(s))
      BY <3>1, TextPlaces, RankGrows
    <3>3. Rank(LineEnds(s), Len(s)) = n
      BY <3>1, TextPlaces, RankTo
    <3> QED
      BY <2>1, <3>2, <3>3
  <2>4. (IF n < Lines THEN n ELSE Lines) = Lines /\ 1 \in 1..n /\ Lines \in 1..n
    BY <1>1, <2>3
  <2>5. FlattenSeq(SubSeq(LinesOf(s), 1, Lines)) = SubSeq(s, Bounds(s)[1 - 1] + 1, LineEnd(s, Lines))
    BY <2>4, LinesFrom
  <2>6. Bounds(s)[1 - 1] = 0
    BY BoundsAre
  <2> QED
    BY <1>2, <2>2, <2>4, <2>5, <2>6
<1> QED
  BY <1>3, <1>4

\* What HEAD shows of a chunk, and what it has left: it goes on behind the
\* chunk, or has seen its lines.
HeadGoes(s, p, d, togo, o) ==
    LET seen == Shown(d, togo)
        more == togo - Cardinality(Newlines(seen)) IN
    \/ /\ Rank(Newlines(s), p + Len(d)) < Lines /\ more = Lines - Rank(Newlines(s), p + Len(d))
       /\ o \o seen = SubSeq(s, 1, p + Len(d))
    \/ more = 0 /\ o \o seen = FirstLines(s)

LEMMA HeadChunkIs ==
    ASSUME NEW s, s \in Seq(Range(s)), NEW p \in Nat, NEW n, NEW d, IsNext(s, p, n, d),
           Rank(Newlines(s), p) < Lines
    PROVE  HeadGoes(s, p, d, Lines - Rank(Newlines(s), p), SubSeq(s, 1, p))
<1> DEFINE N == Newlines(s)  togo == Lines - Rank(N, p)
           S == {i \in DOMAIN d : Cardinality(Newlines(SubSeq(d, 1, i - 1))) < togo}
<1>1. PICK m \in Nat, l \in Nat : m = Len(d) /\ l = Len(s) /\ p + m <= l
  BY DEF IsNext
<1>2. d \in Seq(Range(s)) /\ d = SubSeq(s, p + 1, p + m) /\ DOMAIN d = 1..m
  BY <1>1 DEF IsNext
<1>3. Lines \in Nat /\ Places(N, l) /\ \A j \in Nat : Rank(N, j) \in Nat
  BY <1>1, TextPlaces, RankType, ToolAssumption DEF ToolAssumption
<1>4. \A j \in 0..m : SubSeq(d, 1, j) = SubSeq(s, p + 1, p + j)
  <2> SUFFICES ASSUME NEW j \in 0..m PROVE SubSeq(d, 1, j) = SubSeq(s, p + 1, p + j)
    OBVIOUS
  <2>1. PICK a \in Nat, b \in Nat : a = p + 1 /\ b = p + m
    OBVIOUS
  <2>2. /\ 1 <= a /\ b <= Len(s) /\ a <= b + 1 /\ j \in Nat /\ 1 \in Nat /\ 1 <= j + 1 /\ a + j <= b + 1
        /\ a + 1 - 1 = p + 1 /\ a + j - 1 = p + j
    BY <1>1, <2>1
  <2>3. SubSeq(SubSeq(s, a, b), 1, j) = SubSeq(s, a + 1 - 1, a + j - 1)
    BY <2>2, PartOfPart
  <2> QED
    BY <1>2, <2>1, <2>2, <2>3
<1>5. \A j \in 0..m : Cardinality(Newlines(SubSeq(d, 1, j))) = Rank(N, p + j) - Rank(N, p)
  <2> SUFFICES ASSUME NEW j \in 0..m PROVE Cardinality(Newlines(SubSeq(d, 1, j))) = Rank(N, p + j) - Rank(N, p)
    OBVIOUS
  <2>1. PICK a \in Nat, b \in Nat : a = p + 1 /\ b = p + j
    BY <1>1
  <2>2. 1 <= a /\ a <= b + 1 /\ b <= Len(s) /\ a - 1 = p
    BY <1>1, <2>1
  <2>3. Cardinality(Newlines(SubSeq(s, a, b))) = Rank(Newlines(s), b) - Rank(Newlines(s), a - 1)
    BY <2>2, PartNewlines
  <2> QED
    BY <1>4, <2>1, <2>2, <2>3
<1>6. \A j \in 0..m : SubSeq(s, 1, p) \o SubSeq(d, 1, j) = SubSeq(s, 1, p + j)
  <2> SUFFICES ASSUME NEW j \in 0..m PROVE SubSeq(s, 1, p) \o SubSeq(d, 1, j) = SubSeq(s, 1, p + j)
    OBVIOUS
  <2>1. PICK c \in Nat : c = p + j /\ p <= c /\ c <= Len(s)
    <3>1. p + j \in Nat /\ p <= p + j /\ p + j <= Len(s)
      BY <1>1
    <3> QED
      BY <3>1
  <2>2. 1 <= p + 1 /\ 1 <= 1 /\ 1 \in Nat
    OBVIOUS
  <2>3. SubSeq(s, 1, p) \o SubSeq(s, p + 1, c) = SubSeq(s, 1, c)
    BY <2>1, <2>2, PartsMeet
  <2> QED
    BY <1>4, <2>1, <2>3
<1>7. S = {i \in 1..m : Rank(N, p + (i - 1)) < Lines}
  <2>1. \A i \in 1..m : i - 1 \in 0..m /\ p + (i - 1) \in Nat
    BY <1>1
  <2>2. \A i \in 1..m : Cardinality(Newlines(SubSeq(d, 1, i - 1))) < togo <=> Rank(N, p + (i - 1)) < Lines
    <3> SUFFICES ASSUME NEW i \in 1..m
                 PROVE  Cardinality(Newlines(SubSeq(d, 1, i - 1))) < togo <=> Rank(N, p + (i - 1)) < Lines
      OBVIOUS
    <3>1. PICK x \in Nat, y \in Nat : x = Rank(N, p + (i - 1)) /\ y = Rank(N, p)
      BY <1>3, <2>1
    <3>2. Cardinality(Newlines(SubSeq(d, 1, i - 1))) = x - y
      BY <1>5, <2>1, <3>1
    <3>3. togo = Lines - y /\ Lines \in Nat
      BY <1>3, <3>1
    <3> HIDE DEF togo, N
    <3>4. x - y < Lines - y <=> x < Lines
      BY <3>3
    <3> QED
      BY <3>1, <3>2, <3>3, <3>4
  <2> QED
    BY <1>2, <2>2
<1>8. Shown(d, togo) = SubSeq(d, 1, Cardinality(S))
  BY DEF Shown
<1> HIDE DEF S, N
<1>9. CASE Rank(N, p + m) < Lines
  <2>1. \A i \in 1..m : Rank(N, p + (i - 1)) < Lines
    <3> SUFFICES ASSUME NEW i \in 1..m PROVE Rank(N, p + (i - 1)) < Lines
      OBVIOUS
    <3>1. p + (i - 1) \in Nat /\ p + m \in Nat /\ p + (i - 1) <= p + m
      BY <1>1
    <3>2. Rank(N, p + (i - 1)) <= Rank(N, p + m)
      BY <1>3, <3>1, RankGrows
    <3> QED
      BY <1>3, <1>9, <3>1, <3>2
  <2>2. S = 1..m
    BY <1>7, <2>1
  <2>3. Cardinality(S) = m
    <3>1. Cardinality(1..m) = IF 1 > m THEN 0 ELSE m - 1 + 1
      BY FS_Interval, 1 \in Int, m \in Int
    <3>2. (IF 1 > m THEN 0 ELSE m - 1 + 1) = m
      OBVIOUS
    <3> QED
      BY <2>2, <3>1, <3>2
  <2>4. m \in 0..m
    BY <1>1
  <2>5. Cardinality(Newlines(Shown(d, togo))) = Rank(N, p + m) - Rank(N, p)
    BY <1>5, <1>8, <2>3, <2>4
  <2>6. SubSeq(s, 1, p) \o Shown(d, togo) = SubSeq(s, 1, p + m)
    BY <1>6, <1>8, <2>3, <2>4
  <2>7. Rank(N, p + m) \in Nat /\ Rank(N, p) \in Nat
    BY <1>1, <1>3
  <2>8. togo - Cardinality(Newlines(Shown(d, togo))) = Lines - Rank(N, p + m)
    <3>1. PICK x \in Nat, y \in Nat : x = Rank(N, p + m) /\ y = Rank(N, p)
      BY <2>7
    <3>2. togo = Lines - y
      BY <3>1
    <3> HIDE DEF togo
    <3> QED
      BY <1>3, <2>5, <3>1, <3>2
  <2> QED
    BY <1>1, <1>9, <2>6, <2>8 DEF HeadGoes, N
<1>10. CASE ~(Rank(N, p + m) < Lines)
  <2>0. Lines \in Nat \ {0}
    BY ToolAssumption DEF ToolAssumption
  <2>a. p + m \in Nat
    BY <1>1
  <2>b. Rank(N, p + m) \in Nat
    BY <1>3, <2>a
  <2>1. Lines <= Rank(N, p + m) /\ p + m \in Nat /\ 1 <= Lines /\ Lines \in Nat
    BY <1>10, <2>0, <2>a, <2>b
  <2>2. PICK q \in N : q <= p + m /\ Rank(N, q) = Lines
    BY <1>3, <2>1, RankHit
  <2>3. q \in Nat
    BY <1>3, PlacesAre
  <2>4. p < q
    <3>1. q <= p => Rank(N, q) <= Rank(N, p)
      BY <1>3, <2>3, RankGrows
    <3> QED
      BY <1>3, <2>2, <2>3, <3>1 DEF N
  <2>5. PICK x \in 1..m : q = p + x
    <3>1. q - p \in 1..m /\ q = p + (q - p)
      BY <1>1, <2>2, <2>3, <2>4
    <3> QED
      BY <3>1
  <2>6. \A i \in 1..m : Rank(N, p + (i - 1)) < Lines <=> i <= x
    <3> SUFFICES ASSUME NEW i \in 1..m PROVE Rank(N, p + (i - 1)) < Lines <=> i <= x
      OBVIOUS
    <3>1. PICK r \in Nat : r = p + (i - 1)
      <4>1. p + (i - 1) \in Nat
        OBVIOUS
      <4> QED
        BY <4>1
    <3>2. i <= x => r < q
      BY <2>5, <3>1
    <3>3. ~(i <= x) => q <= r
      BY <2>5, <3>1
    <3>4. r < q => Rank(N, r) < Rank(N, q)
      BY <1>3, RankSteps
    <3>5. q <= r => Rank(N, q) <= Rank(N, r)
      BY <1>3, <2>3, RankGrows
    <3>6. Rank(N, r) \in Nat /\ Lines \in Nat
      BY <1>3
    <3>7. i \in Nat /\ x \in Nat
      OBVIOUS
    <3>8. Rank(N, r) < Lines <=> i <= x
      BY <2>2, <3>2, <3>3, <3>4, <3>5, <3>6, <3>7
    <3> QED
      BY <3>1, <3>8
  <2>7. S = 1..x
    BY <1>1, <1>7, <2>6
  <2>8. Cardinality(S) = x /\ x \in 0..m
    <3>1. Cardinality(1..x) = IF 1 > x THEN 0 ELSE x - 1 + 1
      BY FS_Interval, 1 \in Int, x \in Int
    <3>2. (IF 1 > x THEN 0 ELSE x - 1 + 1) = x
      OBVIOUS
    <3> QED
      BY <1>1, <2>7, <3>1, <3>2
  <2>9. Cardinality(Newlines(Shown(d, togo))) = Rank(N, p + x) - Rank(N, p)
    BY <1>5, <1>8, <2>8
  <2>10. SubSeq(s, 1, p) \o Shown(d, togo) = SubSeq(s, 1, p + x)
    BY <1>6, <1>8, <2>8
  <2>11. togo - Cardinality(Newlines(Shown(d, togo))) = 0
    <3>1. PICK y \in Nat : y = Rank(N, p)
      BY <1>3
    <3>2. togo = Lines - y /\ Cardinality(Newlines(Shown(d, togo))) = Lines - y
      BY <2>2, <2>5, <2>9, <3>1
    <3> HIDE DEF togo
    <3> QED
      BY <1>3, <3>1, <3>2
  <2>12. FirstLines(s) = SubSeq(s, 1, q)
    BY <2>2, FirstLinesAre DEF N
  <2> QED
    BY <2>5, <2>10, <2>11, <2>12 DEF HeadGoes, N
<1> QED
  BY <1>9, <1>10

HeadHolds ==
    tool = "head" =>
        /\ arg = <<1>> /\ HoldTexts({store})
        /\ tpc = "open" => kept = Lines /\ out = <<>>
        /\ tpc = "read" =>
              LET s == store[1]  p == fds[handles[1]].pos IN
              /\ fds[handles[1]].file = 1 /\ p \in 0..Len(s)
              /\ Rank(Newlines(s), p) < Lines /\ kept = Lines - Rank(Newlines(s), p) /\ out = SubSeq(s, 1, p)
        /\ tpc = "close" /\ ~faulty => out = FirstLines(store[1])
        /\ tpc = "done" /\ ~faulty /\ 1 \in names => out = FirstLines(store[1])

LEMMA HeadStep == ToolHolding /\ HeadHolds /\ [ToolNext]_toolVars => HeadHolds'
<1> SUFFICES ASSUME ToolHolding, HeadHolds, [ToolNext]_toolVars, tool = "head" PROVE HeadHolds'
  BY ToolKeeps DEF HeadHolds
<1> DEFINE s == store[1]  h == handles[1]
<1>1. store' = store /\ names' = names /\ tool' = tool /\ arg' = arg /\ (faulty => faulty')
  BY ToolKeeps
<1>2. arg = <<1>> /\ HoldTexts({store}) /\ s \in Seq(Range(s)) /\ arg[1] = 1
  BY DEF HeadHolds, HoldTexts
<1>3. HoldTexts({store'}) /\ arg' = <<1>>
  BY <1>1, <1>2
<1>4. Holding
  BY DEF ToolHolding
<1>5. CASE Open
  <2>1. ASSUME NEW k \in {0, 1}, Store!Open(arg[1], "ro", k), handles' = <<k>>, tpc' = AfterOpen[tool],
               UNCHANGED <<kept, out>>
        PROVE  HeadHolds'
    <3>1. fds'[k].file = 1 /\ fds'[k].pos = 0
      BY <1>2, <1>4, <2>1, OpenIs
    <3>2. handles'[1] = k /\ tpc' = "read" /\ tpc = "open"
      BY <1>5, <2>1 DEF AfterOpen, Open, At
    <3>3. kept' = Lines /\ out' = <<>> /\ 0 \in 0..Len(s)
      BY <1>2, <2>1, <3>2 DEF HeadHolds
    <3>4. Rank(Newlines(s), 0) = 0 /\ Lines \in Nat \ {0}
      BY <1>2, TextPlaces, RankZero, ToolAssumption DEF ToolAssumption
    <3>5. SubSeq(s, 1, 0) = <<>>
      BY SubSeqEmpty
    <3>6. Rank(Newlines(s), 0) < Lines /\ kept' = Lines - Rank(Newlines(s), 0)
      BY <3>3, <3>4
    <3> QED
      BY <1>1, <1>3, <3>1, <3>2, <3>3, <3>5, <3>6 DEF HeadHolds
  <2>2. ASSUME Missing \/ Fails("open"), tpc' = "done" PROVE HeadHolds'
    <3>1. 1 \notin names' \/ faulty'
      BY <1>1, <1>2, <2>2 DEF Missing, Fails
    <3> QED
      BY <1>3, <2>2, <3>1 DEF HeadHolds
  <2> QED
    BY <1>5, <2>1, <2>2 DEF Open
<1>6. CASE Close
  <2>1. tpc = "close" /\ out' = out /\ faulty' = faulty /\ tpc' \in {"done", "close"}
    BY <1>6 DEF Close, At
  <2> QED
    BY <1>1, <1>3, <2>1 DEF HeadHolds
<1>7. CASE ReadFails
  BY <1>3, <1>7 DEF ReadFails, Fails, HeadHolds
<1>8. CASE HeadReads
  <2>1. /\ Reads(h, HeadChunk) /\ tpc = "read" /\ handles' = handles
        /\ tpc' = IF reply'.data = <<>> \/ kept' = 0 THEN "close" ELSE "read"
        /\ faulty' = faulty /\ out' = out \o Shown(reply'.data, kept)
        /\ kept' = kept - Cardinality(Newlines(Shown(reply'.data, kept)))
    BY <1>8 DEF HeadReads, At, Reads
  <2>2. h \in {0, 1} /\ HeadChunk \in Nat \ {0}
    BY <2>1, FirstHand, ToolAssumption DEF ToolAssumption
  <2>3. PICK p \in 0..Len(s) : /\ p = fds[h].pos /\ fds[h].file = 1 /\ Rank(Newlines(s), p) < Lines
                               /\ kept = Lines - Rank(Newlines(s), p) /\ out = SubSeq(s, 1, p)
    BY <2>1 DEF HeadHolds
  <2>5. PICK d : d = reply'.data
    OBVIOUS
  <2> HIDE DEF h, s
  <2>6. s = store[fds[h].file]
    BY <2>3 DEF s
  <2>7. IsNext(s, p, HeadChunk, d) /\ fds'[h].pos = p + Len(d) /\ fds'[h].file = 1
    <3>1. Readable(h)
      BY <1>2, <2>3, <2>6 DEF Readable
    <3>2. Reads(h, HeadChunk)
      BY <2>1
    <3>3. GetsNext(h, HeadChunk)
      BY <1>4, <2>2, <3>1, <3>2, ReadsAre
    <3> QED
      BY <2>3, <2>5, <2>6, <3>3 DEF GetsNext
  <2>8. /\ Len(d) \in Nat /\ Len(d) = (IF p + HeadChunk <= Len(s) THEN HeadChunk ELSE Len(s) - p)
        /\ p + Len(d) \in 0..Len(s) /\ p \in Nat /\ Len(s) \in Nat
    BY <1>2, <2>7, TextPlaces DEF IsNext
  <2>9. HeadGoes(s, p, d, Lines - Rank(Newlines(s), p), SubSeq(s, 1, p))
    BY <1>2, <2>3, <2>7, <2>8, HeadChunkIs
  <2>10. HeadGoes(s, p, d, kept, out)
    BY <2>3, <2>9
  <2>11. handles'[1] = h
    BY <2>1 DEF h
  <2>12. ASSUME Rank(Newlines(s), p + Len(d)) < Lines, kept' = Lines - Rank(Newlines(s), p + Len(d)),
                out' = SubSeq(s, 1, p + Len(d))
         PROVE  HeadHolds'
    <3>1. CASE d = <<>>
      <4>1. Len(d) = 0 /\ p = Len(s) /\ p + Len(d) = Len(s)
        BY <2>2, <2>8, <3>1
      <4>2. out' = s
        BY <1>2, <2>12, <4>1, SubSeqFull
      <4>3. Rank(Newlines(s), Len(s)) = Cardinality(Newlines(s))
        BY <1>2, <2>8, TextPlaces, RankTo
      <4>4. out' = FirstLines(s)
        BY <1>2, <2>12, <4>1, <4>2, <4>3, FirstLinesAre
      <4>5. tpc' = "close"
        BY <2>1, <2>5, <3>1
      <4> QED
        BY <1>1, <1>3, <4>4, <4>5 DEF HeadHolds, s
    <3>2. CASE d # <<>>
      <4>1. Rank(Newlines(s), p + Len(d)) \in Nat /\ Lines \in Nat
        BY <1>2, TextPlaces, RankType, ToolAssumption DEF ToolAssumption
      <4>2. kept' # 0
        BY <2>12, <4>1
      <4>3. tpc' = "read"
        BY <2>1, <2>5, <3>2, <4>2
      <4> QED
        BY <1>1, <1>3, <2>7, <2>8, <2>11, <2>12, <4>3 DEF HeadHolds, s
    <3> QED
      BY <3>1, <3>2
  <2>13. ASSUME kept' = 0, out' = FirstLines(s) PROVE HeadHolds'
    <3>1. tpc' = "close"
      BY <2>1, <2>13
    <3> QED
      BY <1>1, <1>3, <2>13, <3>1 DEF HeadHolds, s
  <2> QED
    BY <2>1, <2>5, <2>10, <2>12, <2>13 DEF HeadGoes
<1>9. CASE UNCHANGED toolVars
  BY <1>9 DEF HeadHolds, toolVars, fileVars, HoldTexts
<1> QED
  BY <1>5, <1>6, <1>7, <1>8, <1>9
  DEF ToolNext, OpenSecond, WcReads, TailSeeks, TailReads, GrepReads, DiffReadsFirst, DiffReadsSecond, At

LEMMA HeadInit == ToolInit => HeadHolds
  BY ToolTexts DEF HeadHolds, ToolInit, Fresh
-----------------------------------------------------------------------------
(***************************************************************************)
(* TAIL shows the last lines.                                              *)
(***************************************************************************)
LEMMA LastLinesAre ==
    ASSUME NEW s, s \in Seq(Range(s))
    PROVE  /\ Cardinality(LineEnds(s)) <= Lines => LastLines(s) = s
           /\ Cardinality(LineEnds(s)) > Lines =>
                 LastLines(s) = SubSeq(s, LineEnd(s, Cardinality(LineEnds(s)) - Lines) + 1, Len(s))
<1> DEFINE n == Cardinality(LineEnds(s))
<1>1. n \in Nat /\ Lines \in Nat \ {0} /\ Len(LinesOf(s)) = n
  BY LinesCut, CutLength, EndsCount, ToolAssumption DEF ToolAssumption
<1>2. LastLines(s) = FlattenSeq(SubSeq(LinesOf(s), IF n > Lines THEN n - Lines + 1 ELSE 1, n))
  BY <1>1 DEF LastLines
<1>3. CASE n <= Lines
  <2>1. (IF n > Lines THEN n - Lines + 1 ELSE 1) = 1
    BY <1>1, <1>3
  <2> QED
    BY <1>1, <1>2, <1>3, <2>1, FewLines
<1>4. CASE n > Lines
  <2>1. PICK x \in 1..n : x = n - Lines + 1 /\ n \in x..n /\ x - 1 = n - Lines /\ x - 1 \in 1..n
    <3>1. n - Lines + 1 \in 1..n /\ n \in n - Lines + 1..n /\ (n - Lines + 1) - 1 = n - Lines /\ n - Lines \in 1..n
      BY <1>1, <1>4
    <3> QED
      BY <3>1
  <2>2. FlattenSeq(SubSeq(LinesOf(s), x, n)) = SubSeq(s, Bounds(s)[x - 1] + 1, LineEnd(s, n))
    BY <2>1, LinesFrom
  <2>3. Bounds(s)[x - 1] = LineEnd(s, n - Lines)
    BY <2>1, BoundsAre
  <2>4. s # <<>>
    <3>1. s = <<>> => LineEnds(s) = {}
      BY TextPlaces DEF LineEnds, Newlines
    <3>2. n = 0 => FALSE
      BY <1>1, <1>4
    <3> QED
      BY <3>1, <3>2, FS_EmptySet
  <2>5. LineEnd(s, n) = Len(s)
    BY <2>4, LastEnd
  <2> QED
    BY <1>1, <1>2, <1>4, <2>1, <2>2, <2>3, <2>5
<1> QED
  BY <1>1, <1>3, <1>4

\* What TAIL can show: a text that ends with a newline, and lines that fit.
TailFits(s) == (s # <<>> => Last(s) = NL) /\ Len(LastLines(s)) <= Window

SeekTo(s) == IF Len(s) > Window THEN Len(s) - Window ELSE 0

TailChunk(s, d) == s \in Seq(Range(s)) /\ d = SubSeq(s, SeekTo(s) + 1, Len(s))

LEMMA TailChunkIs ==
    ASSUME NEW s, TailFits(s), NEW d, TailChunk(s, d)
    PROVE  SubSeq(d, TailStart(d), Len(d)) = LastLines(s)
<1> DEFINE N == Newlines(s)  n == Cardinality(N)
           F == {i \in Newlines(d) : Cardinality(Newlines(SubSeq(d, i, Len(d)))) = Lines + 1}
<1>0. s \in Seq(Range(s)) /\ d = SubSeq(s, SeekTo(s) + 1, Len(s))
  BY DEF TailChunk
<1>1. PICK l \in Nat, o \in Nat : l = Len(s) /\ o = SeekTo(s) /\ o <= l
  <2>1. Len(s) \in Nat /\ Window \in Nat \ {0}
    BY <1>0, ToolAssumption DEF ToolAssumption
  <2>2. SeekTo(s) \in Nat /\ SeekTo(s) <= Len(s)
    BY <2>1 DEF SeekTo
  <2> QED
    BY <2>1, <2>2
<1>2. Lines \in Nat \ {0} /\ Window \in Nat \ {0}
  BY ToolAssumption DEF ToolAssumption
<1>3. N = LineEnds(s)
  <2>1. CASE s = <<>>
    BY <1>0, <2>1, TextPlaces DEF LineEnds, Newlines
  <2>2. CASE s # <<>>
    <3>1. s[Len(s)] = NL /\ Len(s) # 0
      BY <1>0, <2>2, EmptySeq DEF TailFits, Last
    <3>2. Len(s) \in N
      BY <1>0, <3>1, TextPlaces DEF Newlines
    <3> QED
      BY <3>2 DEF LineEnds
  <2> QED
    BY <2>1, <2>2
<1>a. Places(N, l) /\ l <= l
  BY <1>0, <1>1, TextPlaces
<1>4. Places(N, l) /\ n \in Nat /\ Rank(N, l) = n /\ \A p : Rank(N, p) \in Nat
  <2> HIDE DEF N
  <2> QED
    BY <1>a, PlacesFinite, RankTo, RankType
<1>5. PICK m \in Nat : m = l - o
  BY <1>1
<1>6. d \in Seq(Range(s)) /\ Len(d) = m /\ DOMAIN d = 1..m /\ d = SubSeq(s, o + 1, l)
      /\ \A i \in 1..m : d[i] = s[o + i]
  <2>1. PICK a \in Nat : a = o + 1 /\ 1 <= a
    OBVIOUS
  <2>2. (IF a <= l THEN l - a + 1 ELSE 0) = m /\ l - a + 1 = m /\ \A i \in 1..m : a + i - 1 = o + i
    BY <1>1, <1>5, <2>1
  <2>3. d = SubSeq(s, a, l) /\ l <= Len(s)
    BY <1>0, <1>1, <2>1
  <2>4. /\ SubSeq(s, a, l) \in Seq(Range(s))
        /\ Len(SubSeq(s, a, l)) = IF a <= l THEN l - a + 1 ELSE 0
        /\ \A i \in 1..l - a + 1 : SubSeq(s, a, l)[i] = s[a + i - 1]
    BY <1>0, <2>1, <2>3, PartIs
  <2>5. d \in Seq(Range(s)) /\ Len(d) = m /\ \A i \in 1..m : d[i] = s[o + i]
    BY <2>2, <2>3, <2>4
  <2> QED
    BY <2>1, <2>3, <2>5
<1>7. \A i \in 1..m + 1 : SubSeq(d, i, Len(d)) = SubSeq(s, o + i, l)
  <2> SUFFICES ASSUME NEW i \in 1..m + 1 PROVE SubSeq(d, i, Len(d)) = SubSeq(s, o + i, l)
    OBVIOUS
  <2>1. PICK a \in Nat : a = o + 1
    OBVIOUS
  <2>a. l <= Len(s) /\ o <= l
    BY <1>1
  <2>b. i \in Nat /\ 1 <= i /\ i <= m + 1
    OBVIOUS
  <2>2. 1 <= a /\ a <= l + 1 /\ a + m <= l + 1 /\ a + i - 1 = o + i /\ a + m - 1 = l
    BY <1>5, <2>1, <2>a, <2>b
  <2>3. SubSeq(SubSeq(s, a, l), i, m) = SubSeq(s, a + i - 1, a + m - 1)
    BY <1>0, <2>2, <2>a, <2>b, PartOfPart
  <2> QED
    BY <1>6, <2>1, <2>2, <2>3
<1>8. \A i \in 1..m : i \in Newlines(d) <=> o + i \in N
  <2>1. \A i \in 1..m : o + i \in 1..Len(s)
    BY <1>1, <1>5
  <2> QED
    BY <1>0, <1>6, <2>1, TextPlaces DEF Newlines
<1>9. Newlines(d) \subseteq 1..m
  BY <1>6 DEF Newlines
<1>10. \A i \in 1..m : Cardinality(Newlines(SubSeq(d, i, Len(d)))) = n - Rank(N, o + i - 1)
  <2> SUFFICES ASSUME NEW i \in 1..m PROVE Cardinality(Newlines(SubSeq(d, i, Len(d)))) = n - Rank(N, o + i - 1)
    OBVIOUS
  <2>1. PICK a \in Nat : a = o + i /\ 1 <= a /\ a <= l + 1
    <3>1. o + i \in Nat /\ 1 <= o + i /\ o + i <= l + 1
      BY <1>1, <1>5
    <3> QED
      BY <3>1
  <2>2. Cardinality(Newlines(SubSeq(s, a, l))) = Rank(Newlines(s), l) - Rank(Newlines(s), a - 1)
    BY <1>0, <1>1, <2>1, PartNewlines
  <2>3. SubSeq(d, i, Len(d)) = SubSeq(s, a, l)
    BY <1>7, <2>1
  <2> QED
    BY <1>4, <2>1, <2>2, <2>3
<1> HIDE DEF N, n
\* A newline of the chunk with Lines + 1 newlines from it on is the one of that rank.
<1>11. \A i \in F : o + i \in N /\ Rank(N, o + i) = n - Lines /\ i \in 1..m
  <2> SUFFICES ASSUME NEW i \in Newlines(d), Cardinality(Newlines(SubSeq(d, i, Len(d)))) = Lines + 1
               PROVE  o + i \in N /\ Rank(N, o + i) = n - Lines /\ i \in 1..m
    OBVIOUS
  <2>1. i \in 1..m /\ o + i \in N
    BY <1>8, <1>9
  <2>2. PICK r \in Nat : r = o + i - 1 /\ r + 1 = o + i
    <3>1. o + i - 1 \in Nat /\ (o + i - 1) + 1 = o + i
      BY <2>1
    <3> QED
      BY <3>1
  <2>3. Rank(N, r + 1) = Rank(N, r) + 1
    BY <1>4, <2>1, <2>2, RankNext
  <2>4. n - Rank(N, r) = Lines + 1
    BY <1>10, <2>1, <2>2
  <2>5. Rank(N, r) \in Nat /\ n \in Nat /\ Lines \in Nat
    BY <1>2, <1>4
  <2>6. Rank(N, r + 1) = n - Lines
    BY <2>3, <2>4, <2>5
  <2> QED
    BY <2>1, <2>2, <2>6
<1>12. TailStart(d) = IF F = {} THEN 1 ELSE 1 + CHOOSE i \in F : TRUE
  BY DEF TailStart
<1>13. CASE n <= Lines
  <2>1. LastLines(s) = s
    BY <1>0, <1>3, <1>13, LastLinesAre DEF n
  <2>2. o = 0 /\ d = s
    <3>1. Len(s) <= Window
      BY <2>1 DEF TailFits
    <3>2. o = 0
      BY <1>1, <1>2, <3>1 DEF SeekTo
    <3> QED
      BY <1>0, <1>1, <1>6, <3>2, SubSeqFull
  <2>3. F = {}
    <3> SUFFICES ASSUME NEW i \in F PROVE FALSE
      OBVIOUS
    <3>1. o + i \in N /\ Rank(N, o + i) = n - Lines /\ o + i \in Nat
      <4>1. o + i \in N
        BY <1>11
      <4> HIDE DEF F
      <4> QED
        BY <1>4, <1>11, <4>1, PlacesAre
    <3>2. 0 < o + i => Rank(N, 0) < Rank(N, o + i)
      BY <1>4, <3>1, RankSteps
    <3>3. 0 < o + i
      BY <1>4, <3>1, PlacesAre
    <3>4. Rank(N, 0) \in Nat /\ n - Lines <= 0
      BY <1>2, <1>4, <1>13
    <3>5. PICK x \in Nat : x = Rank(N, o + i)
      BY <1>4
    <3> QED
      BY <1>2, <1>4, <3>1, <3>2, <3>3, <3>4, <3>5
  <2>4. TailStart(d) = 1
    BY <1>12, <2>3
  <2>5. SubSeq(s, 1, Len(s)) = s
    BY <1>0, SubSeqFull
  <2> QED
    BY <2>1, <2>2, <2>4, <2>5
<1>14. CASE n > Lines
  <2>1. PICK k \in Nat : k = n - Lines /\ k \in 1..n
    <3>1. n - Lines \in Nat /\ n - Lines \in 1..n
      BY <1>2, <1>4, <1>14
    <3> QED
      BY <3>1
  <2>2. PICK e \in N : e = LineEnd(s, k) /\ Rank(N, e) = k
    BY <1>0, <1>3, <2>1, LineEndIs DEF n
  <2>3. LastLines(s) = SubSeq(s, e + 1, l)
    BY <1>0, <1>1, <1>3, <1>14, <2>1, <2>2, LastLinesAre DEF n
  <2>4. e \in Nat /\ 1 <= e /\ e <= l
    BY <1>4, PlacesAre
  <2>5. o <= e
    <3>1. PICK a \in Nat : a = e + 1 /\ 1 <= a
      BY <2>4
    <3>2. Len(SubSeq(s, a, l)) = IF a <= l THEN l - a + 1 ELSE 0
      BY <1>0, <1>1, <3>1, PartIs
    <3>3. Len(SubSeq(s, a, l)) <= Window
      BY <2>3, <3>1 DEF TailFits
    <3>4. l - e <= Window
      BY <1>2, <2>4, <3>1, <3>2, <3>3
    <3> QED
      BY <1>1, <1>2, <2>4, <3>4 DEF SeekTo
  <2>6. CASE o = e
    <3>1. F = {}
      <4> SUFFICES ASSUME NEW i \in F PROVE FALSE
        OBVIOUS
      <4>1. o + i \in N /\ Rank(N, o + i) = k /\ i \in 1..m
        BY <1>11, <2>1
      <4>2. o + i = e
        BY <1>4, <2>2, <4>1, RankOnce
      <4> QED
        BY <2>4, <2>6, <4>1, <4>2
    <3>2. TailStart(d) = 1
      BY <1>12, <3>1
    <3>3. SubSeq(d, 1, Len(d)) = d
      BY <1>6, SubSeqFull
    <3> QED
      BY <1>6, <2>3, <2>6, <3>2, <3>3
  <2>7. CASE o # e
    <3>1. PICK x \in 1..m : e = o + x /\ x + 1 \in 1..m + 1
      <4>1. e - o \in 1..m /\ e = o + (e - o) /\ (e - o) + 1 \in 1..m + 1
        <5>1. PICK g \in Nat : g = e /\ o <= g /\ g <= l /\ o # g
          BY <2>4, <2>5, <2>7
        <5>2. g - o \in 1..m /\ g = o + (g - o) /\ (g - o) + 1 \in 1..m + 1
          BY <1>5, <5>1
        <5> QED
          BY <5>1, <5>2
      <4> QED
        BY <4>1
    <3>2. x \in F
      <4>1. x \in Newlines(d)
        BY <1>8, <3>1
      <4>2. PICK r \in Nat : r = o + x - 1 /\ r + 1 = e
        <5>1. o + x - 1 \in Nat /\ (o + x - 1) + 1 = o + x
          OBVIOUS
        <5> QED
          BY <3>1, <5>1
      <4>3. Rank(N, r + 1) = Rank(N, r) + 1
        BY <1>4, <4>2, RankNext
      <4>4. Rank(N, r) = k - 1
        <5>1. PICK y \in Nat : y = Rank(N, r)
          BY <1>4
        <5> QED
          BY <2>1, <2>2, <4>2, <4>3, <5>1
      <4>5. Cardinality(Newlines(SubSeq(d, x, Len(d)))) = n - (k - 1)
        BY <1>10, <4>2, <4>4
      <4>6. n - (k - 1) = Lines + 1
        BY <1>2, <1>4, <2>1
      <4> QED
        BY <4>1, <4>5, <4>6
    <3>3. \A i \in F : i = x
      <4> SUFFICES ASSUME NEW i \in F PROVE i = x
        OBVIOUS
      <4>1. o + i \in N /\ Rank(N, o + i) = k /\ i \in 1..m
        BY <1>11, <2>1
      <4>2. o + i = e
        BY <1>4, <2>2, <4>1, RankOnce
      <4> QED
        BY <3>1, <4>1, <4>2
    <3>4. (CHOOSE i \in F : TRUE) = x
      BY <3>2, <3>3
    <3>5. TailStart(d) = x + 1
      <4>1. F # {}
        BY <3>2
      <4> HIDE DEF F
      <4> QED
        BY <1>12, <3>4, <4>1, x + 1 = 1 + x
    <3>6. SubSeq(d, x + 1, Len(d)) = SubSeq(s, o + (x + 1), l)
      BY <1>7, <3>1
    <3>7. o + (x + 1) = e + 1
      BY <3>1
    <3> QED
      BY <2>3, <3>5, <3>6, <3>7
  <2> QED
    BY <2>6, <2>7
<1> QED
  BY <1>2, <1>4, <1>13, <1>14

TailHolds ==
    tool = "tail" =>
        /\ arg = <<1>> /\ HoldTexts({store})
        /\ tpc = "seek" => fds[handles[1]].file = 1 /\ size = Len(store[1])
        /\ tpc = "read" /\ ~faulty => fds[handles[1]].file = 1 /\ fds[handles[1]].pos = SeekTo(store[1])
        /\ tpc = "close" /\ ~faulty /\ TailFits(store[1]) => out = LastLines(store[1])
        /\ tpc = "done" /\ ~faulty /\ 1 \in names /\ TailFits(store[1]) => out = LastLines(store[1])

LEMMA TailStep == ToolHolding /\ TailHolds /\ [ToolNext]_toolVars => TailHolds'
<1> SUFFICES ASSUME ToolHolding, TailHolds, [ToolNext]_toolVars, tool = "tail" PROVE TailHolds'
  BY ToolKeeps DEF TailHolds
<1> DEFINE s == store[1]  h == handles[1]
<1>1. store' = store /\ names' = names /\ tool' = tool /\ arg' = arg /\ (faulty => faulty')
  BY ToolKeeps
<1>2. arg = <<1>> /\ HoldTexts({store}) /\ s \in Seq(Range(s)) /\ arg[1] = 1
  BY DEF TailHolds, HoldTexts
<1>3. HoldTexts({store'}) /\ arg' = <<1>>
  BY <1>1, <1>2
<1>4. Holding
  BY DEF ToolHolding
<1>5. CASE Open
  <2>1. ASSUME NEW k \in {0, 1}, Store!Open(arg[1], "ro", k), handles' = <<k>>, tpc' = AfterOpen[tool],
               size' = reply'.data[2]
        PROVE  TailHolds'
    <3>1. fds'[k].file = 1
      BY <1>2, <1>4, <2>1, OpenIs
    <3>2. handles'[1] = k /\ tpc' = "seek"
      BY <2>1 DEF AfterOpen
    <3>3. reply'.data = <<k, Len(s)>>
      <4>1. <<1, 2>>[1] = 1
        OBVIOUS
      <4> QED
        BY <1>2, <2>1, <4>1 DEF Store!Open, Store!Answered
    <3>4. size' = Len(s)
      BY <2>1, <3>3
    <3> QED
      BY <1>1, <1>3, <3>1, <3>2, <3>4 DEF TailHolds
  <2>2. ASSUME Missing \/ Fails("open"), tpc' = "done" PROVE TailHolds'
    <3>1. 1 \notin names' \/ faulty'
      BY <1>1, <1>2, <2>2 DEF Missing, Fails
    <3> QED
      BY <1>3, <2>2, <3>1 DEF TailHolds
  <2> QED
    BY <1>5, <2>1, <2>2 DEF Open
<1>6. CASE Close
  <2>1. tpc = "close" /\ out' = out /\ faulty' = faulty /\ tpc' \in {"done", "close"}
    BY <1>6 DEF Close, At
  <2> QED
    BY <1>1, <1>3, <2>1 DEF TailHolds
<1>7. CASE ReadFails
  BY <1>3, <1>7 DEF ReadFails, Fails, TailHolds
<1>8. CASE TailSeeks
  <2>1. tpc = "seek" /\ handles' = handles /\ h \in {0, 1}
    BY <1>8, FirstHand DEF TailSeeks, At
  <2>2. CASE Fails("seek") /\ tpc' = "close"
    BY <1>3, <2>2 DEF Fails, TailHolds
  <2>3. CASE Store!Seek(handles[1], IF size > Window THEN size - Window ELSE 0) /\ tpc' = "read"
    <3>1. fds[h].file = 1 /\ size = Len(s)
      BY <2>1 DEF TailHolds
    <3>2. (IF size > Window THEN size - Window ELSE 0) = SeekTo(s)
      BY <3>1 DEF SeekTo
    <3>3. Store!MoveTo(h, SeekTo(s))
      BY <2>3, <3>2 DEF Store!Seek
    <3>4. fds'[h].file = 1 /\ fds'[h].pos = SeekTo(s)
      BY <1>4, <2>1, <3>1, <3>3 DEF Store!MoveTo, Holding
    <3> QED
      BY <1>1, <1>3, <2>1, <2>3, <3>4 DEF TailHolds
  <2> QED
    BY <1>8, <2>2, <2>3 DEF TailSeeks
<1>9. CASE TailReads
  <2>1. /\ Reads(h, Window) /\ tpc = "read" /\ tpc' = "close" /\ faulty' = faulty
        /\ out' = SubSeq(reply'.data, TailStart(reply'.data), Len(reply'.data))
    BY <1>9 DEF TailReads, At, Reads
  <2> SUFFICES ASSUME ~faulty', TailFits(s) PROVE out' = LastLines(s)
    BY <1>1, <1>3, <2>1 DEF TailHolds
  <2>2. h \in {0, 1} /\ Window \in Nat \ {0}
    BY <2>1, FirstHand, ToolAssumption DEF ToolAssumption
  <2>3. fds[h].file = 1 /\ fds[h].pos = SeekTo(s)
    BY <2>1 DEF TailHolds
  <2>4. PICK d : d = reply'.data
    OBVIOUS
  <2> HIDE DEF h, s
  <2>5. Len(s) \in Nat
    BY <1>2
  <2>6. PICK p \in 0..Len(s) : p = SeekTo(s) /\ Len(s) <= p + Window
    <3>1. SeekTo(s) \in 0..Len(s) /\ Len(s) <= SeekTo(s) + Window
      BY <2>2, <2>5 DEF SeekTo
    <3> QED
      BY <3>1
  <2>7. s = store[fds[h].file]
    BY <2>3 DEF s
  <2>8. IsNext(s, p, Window, d)
    <3>1. Readable(h)
      BY <1>2, <2>3, <2>6, <2>7 DEF Readable
    <3>2. Reads(h, Window)
      BY <2>1
    <3>3. GetsNext(h, Window)
      BY <1>4, <2>2, <3>1, <3>2, ReadsAre
    <3> QED
      BY <2>3, <2>4, <2>6, <2>7, <3>3 DEF GetsNext
  <2>9. d = SubSeq(s, p + 1, p + Len(d)) /\ Len(d) = (IF p + Window <= Len(s) THEN Window ELSE Len(s) - p)
    BY <2>8 DEF IsNext
  <2>10. p + Len(d) = Len(s)
    BY <2>2, <2>5, <2>6, <2>9
  <2>11. d = SubSeq(s, SeekTo(s) + 1, Len(s))
    BY <2>6, <2>9, <2>10
  <2>12. TailChunk(s, d)
    BY <1>2, <2>11 DEF TailChunk
  <2> QED
    BY <2>1, <2>4, <2>12, TailChunkIs
<1>10. CASE UNCHANGED toolVars
  BY <1>10 DEF TailHolds, toolVars, fileVars, HoldTexts
<1> QED
  BY <1>5, <1>6, <1>7, <1>8, <1>9, <1>10
  DEF ToolNext, OpenSecond, WcReads, HeadReads, GrepReads, DiffReadsFirst, DiffReadsSecond, At

LEMMA TailInit == ToolInit => TailHolds
  BY ToolTexts DEF TailHolds, ToolInit
-----------------------------------------------------------------------------
(***************************************************************************)
(* GREP prints the lines that have its pattern.                            *)
(***************************************************************************)
\* A chunk is gone through byte by byte.
IsGrepRun(w, w0, d, n) == w = [i \in 0..n |-> IF i = 0 THEN w0 ELSE GrepByte(w[i - 1], d[i])]
GrepRun(w0, d, n) == LET w[i \in 0..n] == IF i = 0 THEN w0 ELSE GrepByte(w[i - 1], d[i]) IN w[n]

LEMMA GrepRuns == ASSUME NEW w0, NEW d, NEW n \in Nat PROVE \E w : IsGrepRun(w, w0, d, n)
<1> DEFINE Good == {k \in Nat : \E w : IsGrepRun(w, w0, d, k)}
<1>1. 0 \in Good
  <2> DEFINE w == [i \in 0..0 |-> w0]
  <2>1. \A i \in 0..0 : i = 0 /\ w[i] = w0
    OBVIOUS
  <2>2. w = [i \in 0..0 |-> IF i = 0 THEN w0 ELSE GrepByte(w[i - 1], d[i])]
    BY <2>1
  <2>3. IsGrepRun(w, w0, d, 0)
    BY <2>2 DEF IsGrepRun
  <2> QED
    BY <2>3
<1>2. ASSUME NEW k \in Nat, k \in Good PROVE k + 1 \in Good
  <2>1. PICK v : IsGrepRun(v, w0, d, k)
    BY <1>2
  <2>2. PICK j \in Nat : j = k + 1 /\ j - 1 = k /\ j # 0
    OBVIOUS
  <2>3. \A i \in 0..k : v[i] = IF i = 0 THEN w0 ELSE GrepByte(v[i - 1], d[i])
    BY <2>1 DEF IsGrepRun
  <2> DEFINE w == [i \in 0..j |-> IF i = j THEN GrepByte(v[k], d[j]) ELSE v[i]]
  <2>4. w[k] = v[k] /\ w[j] = GrepByte(v[k], d[j]) /\ \A i \in 0..k : w[i] = v[i]
    BY <2>2
  <2>5. ASSUME NEW i \in 0..j PROVE w[i] = IF i = 0 THEN w0 ELSE GrepByte(w[i - 1], d[i])
    <3> HIDE DEF w
    <3>1. CASE i = j
      BY <2>2, <2>4, <3>1
    <3>2. CASE i # j
      <4>1. i \in 0..k /\ (i # 0 => i - 1 \in 0..k)
        BY <2>2, <3>2
      <4> QED
        BY <2>3, <2>4, <4>1
    <3> QED
      BY <3>1, <3>2
  <2>6. w = [i \in 0..j |-> w[i]]
    OBVIOUS
  <2> HIDE DEF w
  <2>7. w = [i \in 0..j |-> IF i = 0 THEN w0 ELSE GrepByte(w[i - 1], d[i])]
    BY <2>5, <2>6
  <2>8. IsGrepRun(w, w0, d, k + 1)
    BY <2>2, <2>7 DEF IsGrepRun
  <2> QED
    BY <2>8
<1> HIDE DEF Good
<1>3. Nat \subseteq Good
  BY <1>1, <1>2, FromZero
<1> QED
  BY <1>3 DEF Good

LEMMA GrepRunIs ==
    ASSUME NEW w0, NEW d, NEW n \in Nat
    PROVE  \E w : IsGrepRun(w, w0, d, n) /\ GrepRun(w0, d, n) = w[n]
<1> DEFINE t == CHOOSE w : w = [i \in 0..n |-> IF i = 0 THEN w0 ELSE GrepByte(w[i - 1], d[i])]
<1>1. \E w : w = [i \in 0..n |-> IF i = 0 THEN w0 ELSE GrepByte(w[i - 1], d[i])]
  <2>1. \E w : IsGrepRun(w, w0, d, n)
    BY GrepRuns
  <2>2. PICK v : IsGrepRun(v, w0, d, n)
    BY <2>1
  <2> QED
    BY <2>2 DEF IsGrepRun
<1>2. t = [i \in 0..n |-> IF i = 0 THEN w0 ELSE GrepByte(t[i - 1], d[i])]
  BY <1>1
<1>3. GrepRun(w0, d, n) = t[n]
  BY DEF GrepRun
<1> HIDE DEF t
<1>4. IsGrepRun(t, w0, d, n)
  BY <1>2 DEF IsGrepRun
<1> QED
  BY <1>3, <1>4

\* The lines up to the i-th that have the pattern.
OneMoreLine(s, p, o, i) ==
    LET l == Bare(LinesOf(s)[i]) IN IF HasPattern(l, p) THEN Append(o, l) ELSE o
Picked(s, p) ==
    CHOOSE w : w = [i \in 0..Len(LinesOf(s)) |-> IF i = 0 THEN <<>> ELSE OneMoreLine(s, p, w[i - 1], i)]
IsPicked(w, s, p, n) == w = [i \in 0..n |-> IF i = 0 THEN <<>> ELSE OneMoreLine(s, p, w[i - 1], i)]

LEMMA PickedExists == ASSUME NEW s, NEW p, NEW n \in Nat PROVE \E w : IsPicked(w, s, p, n)
<1> DEFINE Good == {k \in Nat : \E w : IsPicked(w, s, p, k)}
<1>1. 0 \in Good
  <2> DEFINE w == [i \in 0..0 |-> <<>>]
  <2>1. \A i \in 0..0 : i = 0 /\ w[i] = <<>>
    OBVIOUS
  <2>2. w = [i \in 0..0 |-> IF i = 0 THEN <<>> ELSE OneMoreLine(s, p, w[i - 1], i)]
    BY <2>1
  <2>3. IsPicked(w, s, p, 0)
    BY <2>2 DEF IsPicked
  <2> QED
    BY <2>3
<1>2. ASSUME NEW k \in Nat, k \in Good PROVE k + 1 \in Good
  <2>1. PICK v : IsPicked(v, s, p, k)
    BY <1>2
  <2>2. PICK j \in Nat : j = k + 1 /\ j - 1 = k /\ j # 0
    OBVIOUS
  <2>3. \A i \in 0..k : v[i] = IF i = 0 THEN <<>> ELSE OneMoreLine(s, p, v[i - 1], i)
    BY <2>1 DEF IsPicked
  <2> DEFINE w == [i \in 0..j |-> IF i = j THEN OneMoreLine(s, p, v[k], j) ELSE v[i]]
  <2>4. w[k] = v[k] /\ w[j] = OneMoreLine(s, p, v[k], j) /\ \A i \in 0..k : w[i] = v[i]
    BY <2>2
  <2>5. ASSUME NEW i \in 0..j PROVE w[i] = IF i = 0 THEN <<>> ELSE OneMoreLine(s, p, w[i - 1], i)
    <3> HIDE DEF w
    <3>1. CASE i = j
      BY <2>2, <2>4, <3>1
    <3>2. CASE i # j
      <4>1. i \in 0..k /\ (i # 0 => i - 1 \in 0..k)
        BY <2>2, <3>2
      <4> QED
        BY <2>3, <2>4, <4>1
    <3> QED
      BY <3>1, <3>2
  <2>6. w = [i \in 0..j |-> w[i]]
    OBVIOUS
  <2> HIDE DEF w
  <2>7. w = [i \in 0..j |-> IF i = 0 THEN <<>> ELSE OneMoreLine(s, p, w[i - 1], i)]
    BY <2>5, <2>6
  <2>8. IsPicked(w, s, p, k + 1)
    BY <2>2, <2>7 DEF IsPicked
  <2> QED
    BY <2>8
<1> HIDE DEF Good
<1>3. Nat \subseteq Good
  BY <1>1, <1>2, FromZero
<1> QED
  BY <1>3 DEF Good

LEMMA PickedIs ==
    ASSUME NEW s, s \in Seq(Range(s)), NEW p
    PROVE  /\ Picked(s, p)[0] = <<>>
           /\ \A i \in 1..Cardinality(LineEnds(s)) : Picked(s, p)[i] = OneMoreLine(s, p, Picked(s, p)[i - 1], i)
           /\ WithPattern(s, p) = Picked(s, p)[Cardinality(LineEnds(s))]
<1> DEFINE t == Picked(s, p)
<1>1. PICK n \in Nat : n = Cardinality(LineEnds(s)) /\ Len(LinesOf(s)) = n
  BY LinesCut, CutLength
<1>2. \E w : w = [i \in 0..n |-> IF i = 0 THEN <<>> ELSE OneMoreLine(s, p, w[i - 1], i)]
  <2>1. \E w : IsPicked(w, s, p, n)
    BY PickedExists
  <2>2. PICK v : IsPicked(v, s, p, n)
    BY <2>1
  <2> QED
    BY <2>2 DEF IsPicked
<1>3. t = [i \in 0..n |-> IF i = 0 THEN <<>> ELSE OneMoreLine(s, p, t[i - 1], i)]
  BY <1>1, <1>2 DEF Picked
<1>4. WithPattern(s, p) = t[n]
  BY <1>1 DEF WithPattern, Picked, OneMoreLine
<1> HIDE DEF t
<1>5. t[0] = <<>> /\ \A i \in 1..n : t[i] = OneMoreLine(s, p, t[i - 1], i)
  <2>1. 0 \in 0..n /\ \A i \in 1..n : i \in 0..n /\ i # 0
    OBVIOUS
  <2> QED
    BY <1>3, <2>1
<1> QED
  BY <1>1, <1>4, <1>5 DEF t

\* strstr finds the pattern in the buffer if it is in the line before the NUL.
IsText(p) == p \in Seq(Range(p)) /\ p # <<>> /\ NUL \notin Range(p)
InBuffer(u, l, m) ==
    /\ m \in 1..LineBuf - 1 /\ Len(l) = m /\ u[m + 1] = NUL
    /\ \A i \in 1..m : u[i] = l[i] /\ l[i] # NUL

LEMMA FoundIs ==
    ASSUME NEW l, l \in Seq(Range(l)), NEW u, NEW m, InBuffer(u, l, m), NEW p, IsText(p)
    PROVE  Found(u, p) <=> HasPattern(l, p)
<1>1. m \in Nat /\ LineBuf \in Nat /\ 1 <= m /\ m + 1 <= LineBuf /\ Len(l) = m /\ DOMAIN l = 1..m
  BY ToolAssumption DEF InBuffer, ToolAssumption
<1>2. u[m + 1] = NUL /\ \A i \in 1..m : u[i] = l[i] /\ l[i] # NUL
  BY DEF InBuffer
<1>3. PICK n \in Nat : n = Len(p) /\ n # 0 /\ DOMAIN p = 1..n
  BY EmptySeq DEF IsText
<1>4. \A i \in 1..n : p[i] # NUL
  BY <1>3 DEF IsText, Range
<1>5. ASSUME Found(u, p) PROVE HasPattern(l, p)
  <2>1. PICK h \in 1..LineBuf : (\A k \in 2..h : u[k] # NUL) /\ Matches(u, p, h)
    BY <1>5 DEF Found
  <2>2. h <= m
    <3>1. ~(h <= m) => m + 1 \in 2..h
      BY <1>1
    <3> QED
      BY <1>2, <2>1, <3>1
  <2>3. \A i \in 1..n : u[h + i - 1] = p[i]
    BY <1>3, <2>1 DEF Matches
  <2>4. h + n - 1 <= m
    <3> SUFFICES ASSUME ~(h + n - 1 <= m) PROVE FALSE
      OBVIOUS
    <3>1. PICK i \in 1..n : h + i - 1 = m + 1
      <4>1. m + 2 - h \in 1..n /\ h + (m + 2 - h) - 1 = m + 1
        BY <1>1, <2>2
      <4> QED
        BY <4>1
    <3> QED
      BY <1>2, <1>4, <2>3, <3>1
  <2>5. SubSeq(l, h, h + n - 1) = p
    <3>1. PICK b \in Nat : b = h + n - 1
      <4>1. h + n - 1 \in Nat
        BY <1>3
      <4> QED
        BY <4>1
    <3>2. h \in Nat /\ 1 <= h /\ b <= Len(l) /\ h <= b /\ b - h + 1 = n
      BY <1>1, <1>3, <2>4, <3>1
    <3> DEFINE v == SubSeq(l, h, b)
    <3>3. v \in Seq(Range(l)) /\ Len(v) = (IF h <= b THEN b - h + 1 ELSE 0) /\ \A i \in 1..b - h + 1 : v[i] = l[h + i - 1]
      BY <3>2, PartIs
    <3> HIDE DEF v
    <3>4. \A i \in 1..n : v[i] = p[i]
      <4> SUFFICES ASSUME NEW i \in 1..n PROVE v[i] = p[i]
        OBVIOUS
      <4>1. PICK j \in 1..m : j = h + i - 1
        <5>1. h + i - 1 \in 1..m
          BY <1>1, <2>4, <3>2
        <5> QED
          BY <5>1
      <4>2. v[i] = l[j] /\ u[j] = p[i]
        BY <2>3, <3>2, <3>3, <4>1
      <4> QED
        BY <1>2, <4>2
    <3>5. v \in Seq(Range(l) \cup Range(p)) /\ p \in Seq(Range(l) \cup Range(p))
      BY <3>3, SeqMonotonic DEF IsText
    <3>6. Len(v) = n
      BY <3>2, <3>3
    <3>7. v = p
      BY <1>3, <3>4, <3>5, <3>6, SeqEqual
    <3> QED
      BY <3>1, <3>7 DEF v
  <2>6. h \in DOMAIN l
    BY <1>1, <2>2
  <2> QED
    BY <1>1, <1>3, <2>4, <2>5, <2>6 DEF HasPattern
<1>6. ASSUME HasPattern(l, p) PROVE Found(u, p)
  <2>1. PICK h \in 1..m : h + n - 1 <= m /\ SubSeq(l, h, h + n - 1) = p
    BY <1>1, <1>3, <1>6 DEF HasPattern
  <2>2. h \in 1..LineBuf
    BY <1>1
  <2>3. \A k \in 2..h : u[k] # NUL
    <3>1. \A k \in 2..h : k \in 1..m
      BY <1>1
    <3> QED
      BY <1>2, <3>1
  <2>4. \A i \in 1..n : h + i - 1 <= LineBuf /\ u[h + i - 1] = p[i]
    <3> SUFFICES ASSUME NEW i \in 1..n PROVE h + i - 1 <= LineBuf /\ u[h + i - 1] = p[i]
      OBVIOUS
    <3>1. PICK j \in 1..m : j = h + i - 1
      <4>1. h + i - 1 \in 1..m
        BY <1>1, <2>1
      <4> QED
        BY <4>1
    <3>2. PICK b \in Nat : b = h + n - 1
      <4>1. h + n - 1 \in Nat
        BY <1>3
      <4> QED
        BY <4>1
    <3>3. h \in Nat /\ 1 <= h /\ b <= Len(l) /\ b - h + 1 = n
      BY <1>1, <2>1, <3>2
    <3>4. \A x \in 1..b - h + 1 : SubSeq(l, h, b)[x] = l[h + x - 1]
      BY <3>2, <3>3, PartIs
    <3>5. p[i] = l[j]
      BY <2>1, <3>1, <3>2, <3>3, <3>4
    <3>6. j <= LineBuf
      BY <1>1
    <3> QED
      BY <1>2, <3>1, <3>5, <3>6
  <2>5. Matches(u, p, h)
    BY <1>3, <2>4 DEF Matches
  <2> QED
    BY <2>2, <2>3, <2>5 DEF Found
<1> QED
  BY <1>5, <1>6

\* Where the line begins that goes on behind the p-th byte.
LineStart(s, p) == Bounds(s)[Rank(Newlines(s), p)]

LEMMA CurrentLine ==
    ASSUME NEW s, s \in Seq(Range(s)), NEW p \in Nat, p < Len(s), NEW k, k = Rank(Newlines(s), p)
    PROVE  /\ k \in Nat /\ k + 1 \in 1..Cardinality(LineEnds(s))
           /\ LineStart(s, p) \in 0..p
           /\ LineEnd(s, k + 1) \in Nat /\ p < LineEnd(s, k + 1) /\ LineEnd(s, k + 1) <= Len(s)
           /\ p + 1 \in LineEnds(s) => LineEnd(s, k + 1) = p + 1
           /\ LinesOf(s)[k + 1] = SubSeq(s, LineStart(s, p) + 1, LineEnd(s, k + 1))
<1> DEFINE E == LineEnds(s)  c == Cardinality(LineEnds(s))
<1>1. Places(Newlines(s), Len(s)) /\ Places(E, Len(s)) /\ Len(s) \in Nat /\ c \in Nat
  BY TextPlaces, EndsCount
<1>2. Rank(E, p) = k
  <2>1. {e \in E : e <= p} = {e \in Newlines(s) : e <= p}
    BY <1>1 DEF LineEnds
  <2> QED
    BY <2>1 DEF Rank
<1>3. k \in Nat
  BY <1>1, <1>2, RankType
<1>4. k < c
  <2>1. s # <<>>
    BY <1>1
  <2>2. Len(s) \in E /\ Rank(E, Len(s)) = c
    BY <2>1, LastEnd
  <2>3. Rank(E, p) < Rank(E, Len(s))
    BY <1>1, <2>2, RankSteps
  <2> QED
    BY <1>2, <2>2, <2>3
<1>5. PICK j \in 1..c : j = k + 1 /\ j - 1 = k
  <2>1. k + 1 \in 1..c /\ (k + 1) - 1 = k
    BY <1>1, <1>3, <1>4
  <2> QED
    BY <2>1
<1>6. PICK e \in E : e = LineEnd(s, j) /\ Rank(E, e) = j
  BY LineEndIs
<1>7. e \in Nat /\ e <= Len(s)
  BY <1>1, PlacesAre
<1>8. p < e
  <2>1. e <= p => Rank(E, e) <= Rank(E, p)
    BY <1>1, <1>7, RankGrows
  <2>2. ~(j <= k)
    BY <1>3, <1>5
  <2> QED
    BY <1>2, <1>6, <1>7, <2>1, <2>2
<1>9. p + 1 \in E => e = p + 1
  <2> SUFFICES ASSUME p + 1 \in E PROVE e = p + 1
    OBVIOUS
  <2>1. Rank(E, p + 1) = k + 1
    BY <1>1, <1>2, RankNext
  <2> QED
    BY <1>1, <1>5, <1>6, <2>1, RankOnce
<1>10. LineStart(s, p) \in 0..p
  <2>1. LineStart(s, p) = Bounds(s)[k]
    BY DEF LineStart
  <2>2. CASE k = 0
    BY <2>1, <2>2, BoundsAre
  <2>3. CASE k # 0
    <3>1. 1 <= k /\ k <= Rank(E, p) /\ k \in 1..c
      BY <1>1, <1>2, <1>3, <1>4, <2>3
    <3>2. PICK d \in E : d <= p /\ Rank(E, d) = k
      BY <1>1, <1>3, <3>1, RankHit
    <3>3. LineEnd(s, k) = d
      BY <3>2, LineEndIs
    <3>4. d \in Nat
      BY <1>1, PlacesAre
    <3>5. Bounds(s)[k] = d
      BY <3>1, <3>3, BoundsAre
    <3> QED
      BY <2>1, <3>2, <3>4, <3>5
  <2> QED
    BY <2>2, <2>3
<1>11. LinesOf(s)[j] = SubSeq(s, Bounds(s)[j - 1] + 1, Bounds(s)[j]) /\ Bounds(s)[j] = LineEnd(s, j)
  BY LinesCut, CutIs, BoundsAre
<1>12. LineStart(s, p) = Bounds(s)[j - 1]
  BY <1>5 DEF LineStart
<1> QED
  BY <1>3, <1>5, <1>6, <1>7, <1>8, <1>9, <1>10, <1>11, <1>12

\* A line without its newline.
BareIs(s, b, e) ==
    /\ s[e] = NL => Bare(SubSeq(s, b + 1, e)) = SubSeq(s, b + 1, e - 1)
    /\ s[e] # NL => Bare(SubSeq(s, b + 1, e)) = SubSeq(s, b + 1, e)
    /\ s[e] = NL => Len(Bare(SubSeq(s, b + 1, e))) = e - 1 - b
    /\ s[e] # NL => Len(Bare(SubSeq(s, b + 1, e))) = e - b

LEMMA BareLine ==
    ASSUME NEW s, s \in Seq(Range(s)), NEW b \in Nat, NEW e \in Nat, b < e, e <= Len(s)
    PROVE  BareIs(s, b, e)
<1> DEFINE l == SubSeq(s, b + 1, e)
<1>1. PICK a \in Nat, m \in Nat : a = b + 1 /\ m = e - b /\ 1 <= a /\ a <= e /\ m # 0 /\ e - a + 1 = m /\ a + m - 1 = e
  <2>1. b + 1 \in Nat /\ e - b \in Nat /\ 1 <= b + 1 /\ b + 1 <= e /\ e - b # 0 /\ e - (b + 1) + 1 = e - b
        /\ (b + 1) + (e - b) - 1 = e
    OBVIOUS
  <2> QED
    BY <2>1
<1>2. l \in Seq(Range(s)) /\ Len(l) = m /\ \A i \in 1..m : l[i] = s[a + i - 1]
  <2>1. l = SubSeq(s, a, e) /\ (IF a <= e THEN e - a + 1 ELSE 0) = m
    BY <1>1
  <2>2. /\ SubSeq(s, a, e) \in Seq(Range(s))
        /\ Len(SubSeq(s, a, e)) = IF a <= e THEN e - a + 1 ELSE 0
        /\ \A i \in 1..e - a + 1 : SubSeq(s, a, e)[i] = s[a + i - 1]
    BY <1>1, PartIs
  <2> HIDE DEF l
  <2> QED
    BY <1>1, <2>1, <2>2
<1>3. m \in 1..m
  BY <1>1
<1>4. Last(l) = s[e]
  BY <1>1, <1>2, <1>3 DEF Last
<1>5. Front(l) = SubSeq(s, a, e - 1) /\ Len(Front(l)) = m - 1
  <2>1. Front(l) = SubSeq(l, 1, m - 1)
    BY <1>2 DEF Front
  <2>2. PICK n \in Nat : n = m - 1 /\ a + 1 - 1 = a /\ a + n - 1 = e - 1 /\ 1 <= n + 1 /\ a + n <= e + 1 /\ a <= e + 1
    <3>1. m - 1 \in Nat /\ a + 1 - 1 = a /\ a + (m - 1) - 1 = e - 1 /\ 1 <= (m - 1) + 1 /\ a + (m - 1) <= e + 1 /\ a <= e + 1
      BY <1>1
    <3> QED
      BY <3>1
  <2>3. SubSeq(SubSeq(s, a, e), 1, n) = SubSeq(s, a + 1 - 1, a + n - 1)
    BY <1>1, <2>2, PartOfPart
  <2>4. Len(SubSeq(l, 1, n)) = IF 1 <= n THEN n - 1 + 1 ELSE 0
    BY <1>2, <2>2, PartIs
  <2>5. l = SubSeq(s, a, e)
    BY <1>1
  <2>6. Front(l) = SubSeq(s, a, e - 1)
    BY <2>1, <2>2, <2>3, <2>5
  <2> HIDE DEF l
  <2>7. (IF 1 <= n THEN n - 1 + 1 ELSE 0) = m - 1
    BY <2>2
  <2>8. Len(Front(l)) = m - 1
    BY <2>1, <2>2, <2>4, <2>7
  <2> QED
    BY <2>6, <2>8
<1> HIDE DEF l
<1>6. m - 1 = e - 1 - b
  BY <1>1
<1> QED
  BY <1>1, <1>2, <1>4, <1>5, <1>6 DEF l, Bare, BareIs

-----------------------------------------------------------------------------
\* What GREP keeps behind the p-th byte.
GrepRec(pt, u, m, o) == [pattern |-> pt, line_buf |-> u, line_idx |-> m, printed |-> o]
IsBuf(u) == u \in Seq(Range(u)) /\ Len(u) = LineBuf

PutAt(u, i, c) == [u EXCEPT ![i] = c]

IsPut(v, u, i, c) == IsBuf(v) /\ v[i] = c /\ \A j \in 1..LineBuf : j # i => v[j] = u[j]

LEMMA BufSet ==
    ASSUME NEW u, IsBuf(u), NEW i \in 1..LineBuf, NEW c
    PROVE  IsPut(PutAt(u, i, c), u, i, c)
<1> DEFINE v == [u EXCEPT ![i] = c]  B == Range(u) \cup {c}
<1>1. LineBuf \in Nat
  BY ToolAssumption DEF ToolAssumption
<1>2. u \in Seq(B) /\ i \in 1..Len(u) /\ c \in B
  BY SeqMonotonic DEF IsBuf
<1>3. v \in Seq(B) /\ Len(v) = LineBuf /\ \A j \in 1..LineBuf : v[j] = IF j = i THEN c ELSE u[j]
  BY <1>2, ExceptSeq DEF IsBuf
<1> HIDE DEF v, B
<1>4. v \in Seq(Range(v))
  <2>1. \A j \in 1..LineBuf : v[j] \in Range(v)
    BY <1>1, <1>3 DEF Range
  <2> QED
    BY <1>1, <1>3, <2>1, SeqOfRange
<1>5. IsBuf(v)
  BY <1>3, <1>4 DEF IsBuf
<1> QED
  BY <1>3, <1>5 DEF v, PutAt, IsPut

GrepState(s, p, pt, u, m, o) ==
    /\ IsText(pt) /\ IsBuf(u)
    /\ m \in 0..LineBuf - 1 /\ LineStart(s, p) \in Nat /\ LineStart(s, p) + m = p
    /\ \A i \in 1..m : u[i] = s[LineStart(s, p) + i]
    /\ o = Picked(s, pt)[Rank(Newlines(s), p)]

\* What GREP can read: no NUL, and lines that are not empty and fit its buffer.
GrepFits(s) == NUL \notin Range(s) /\ \A i \in DOMAIN LinesOf(s) : Len(Bare(LinesOf(s)[i])) \in 1..LineBuf - 1
GrepText(s) == s \in Seq(Range(s)) /\ GrepFits(s)

\* The changes of a record and of a buffer, as operators.
EndRec(w, x, y, z) == [w EXCEPT !.line_buf = x, !.line_idx = y, !.printed = z]
GrowRec(w, x, c, y) == [w EXCEPT !.line_buf[x] = c, !.line_idx = y]

LEMMA RecSet ==
    ASSUME NEW pt, NEW u, NEW m, NEW o, NEW x, NEW y, NEW z
    PROVE  EndRec(GrepRec(pt, u, m, o), x, y, z) = GrepRec(pt, x, y, z)
<1> DEFINE w == GrepRec(pt, u, m, o)  f == [w EXCEPT !.line_buf = x, !.line_idx = y, !.printed = z]
<1>1. w = [i \in {"pattern", "line_buf", "line_idx", "printed"} |-> w[i]]
  BY DEF GrepRec
<1>2. f = [i \in {"pattern", "line_buf", "line_idx", "printed"} |-> f[i]]
  BY <1>1
<1>3. f.pattern = pt /\ f.line_buf = x /\ f.line_idx = y /\ f.printed = z
  BY DEF GrepRec
<1> HIDE DEF f
<1>4. f = GrepRec(f.pattern, f.line_buf, f.line_idx, f.printed)
  BY <1>2 DEF GrepRec
<1> QED
  BY <1>3, <1>4 DEF f, EndRec

LEMMA RecPut ==
    ASSUME NEW pt, NEW u, NEW m, NEW o, NEW x, NEW c, NEW y
    PROVE  GrowRec(GrepRec(pt, u, m, o), x, c, y) = GrepRec(pt, PutAt(u, x, c), y, o)
<1> DEFINE w == GrepRec(pt, u, m, o)  f == [w EXCEPT !.line_buf[x] = c, !.line_idx = y]
<1>1. w = [i \in {"pattern", "line_buf", "line_idx", "printed"} |-> w[i]]
  BY DEF GrepRec
<1>2. f = [i \in {"pattern", "line_buf", "line_idx", "printed"} |-> f[i]]
  BY <1>1
<1>3. f.pattern = pt /\ f.line_buf = PutAt(u, x, c) /\ f.line_idx = y /\ f.printed = o
  BY DEF GrepRec, PutAt
<1> HIDE DEF f
<1>4. f = GrepRec(f.pattern, f.line_buf, f.line_idx, f.printed)
  BY <1>2 DEF GrepRec
<1> QED
  BY <1>3, <1>4 DEF f, GrowRec

LEMMA DoneIs ==
    ASSUME NEW pt, NEW u, NEW m, NEW o, NEW v, v = PutAt(u, m + 1, NUL)
    PROVE  LineDone(GrepRec(pt, u, m, o)) =
             GrepRec(pt, v, 0, IF Found(v, pt) THEN Append(o, SubSeq(v, 1, m)) ELSE o)
<1> DEFINE w == GrepRec(pt, u, m, o)
<1>1. w.pattern = pt /\ w.line_buf = u /\ w.line_idx = m /\ w.printed = o
  BY DEF GrepRec
<1>2. EndRec(w, v, 0, IF Found(v, pt) THEN Append(o, SubSeq(v, 1, m)) ELSE o)
        = GrepRec(pt, v, 0, IF Found(v, pt) THEN Append(o, SubSeq(v, 1, m)) ELSE o)
  BY RecSet
<1> HIDE DEF w
<1>3. LineDone(w) = EndRec(w, v, 0, IF Found(v, pt) THEN Append(o, SubSeq(v, 1, m)) ELSE o)
  BY <1>1 DEF LineDone, EndRec, PutAt
<1> QED
  BY <1>2, <1>3 DEF w

LEMMA ByteIs ==
    ASSUME NEW pt, NEW u, NEW m, NEW o, NEW c
    PROVE  GrepByte(GrepRec(pt, u, m, o), c) =
             IF c = NL \/ m >= LineBuf - 1 THEN LineDone(GrepRec(pt, u, m, o))
             ELSE GrepRec(pt, PutAt(u, m + 1, c), m + 1, o)
<1> DEFINE w == GrepRec(pt, u, m, o)
<1>1. w.line_idx = m
  BY DEF GrepRec
<1>2. GrowRec(w, m + 1, c, m + 1) = GrepRec(pt, PutAt(u, m + 1, c), m + 1, o)
  BY RecPut
<1> HIDE DEF w
<1>3. GrepByte(w, c) = IF c = NL \/ m >= LineBuf - 1 THEN LineDone(w)
                       ELSE GrowRec(w, m + 1, c, m + 1)
  BY <1>1 DEF GrepByte, GrowRec
<1> QED
  BY <1>2, <1>3 DEF w

\* The line that has ended is printed if it has the pattern.
LineThere(s, p, i) ==
    /\ i \in 1..Cardinality(LineEnds(s)) /\ i - 1 = Rank(Newlines(s), p)
    /\ Bare(LinesOf(s)[i]) = SubSeq(s, LineStart(s, p) + 1, p)

LEMMA LineIsDone ==
    ASSUME NEW s, GrepText(s), NEW p \in 0..Len(s), NEW pt, NEW u, NEW m, NEW o,
           GrepState(s, p, pt, u, m, o), m # 0, NEW i, LineThere(s, p, i)
    PROVE  \E v : IsBuf(v) /\ LineDone(GrepRec(pt, u, m, o)) = GrepRec(pt, v, 0, Picked(s, pt)[i])
<1> DEFINE b == LineStart(s, p)
<1>1. LineBuf \in Nat /\ Len(s) \in Nat /\ s \in Seq(Range(s)) /\ NUL \notin Range(s) /\ DOMAIN s = 1..Len(s)
  BY ToolAssumption, TextPlaces DEF ToolAssumption, GrepText, GrepFits
<1>2. /\ IsText(pt) /\ IsBuf(u) /\ m \in Nat /\ m <= LineBuf - 1 /\ b \in Nat /\ b + m = p
      /\ \A j \in 1..m : u[j] = s[b + j]
      /\ o = Picked(s, pt)[i - 1]
  BY <1>1 DEF GrepState, LineThere
<1>3. PICK x \in 1..LineBuf : x = m + 1
  <2>1. m + 1 \in 1..LineBuf
    BY <1>1, <1>2
  <2> QED
    BY <2>1
<1> DEFINE v == PutAt(u, x, NUL)
<1>4. IsBuf(v) /\ v[m + 1] = NUL /\ \A j \in 1..m : v[j] = u[j]
  <2>1. \A j \in 1..m : j \in 1..LineBuf /\ j # x
    BY <1>1, <1>2, <1>3
  <2>2. IsPut(PutAt(u, x, NUL), u, x, NUL)
    BY <1>2, BufSet
  <2> HIDE DEF v
  <2>3. IsBuf(v) /\ v[x] = NUL /\ \A j \in 1..LineBuf : j # x => v[j] = u[j]
    BY <2>2 DEF v, IsPut
  <2> QED
    BY <1>3, <2>1, <2>3
<1> HIDE DEF v, b
<1> DEFINE l == Bare(LinesOf(s)[i])
<1>5. l \in Seq(Range(s)) /\ Len(l) = m /\ \A j \in 1..m : l[j] = s[b + j]
  <2>1. PICK a \in Nat : a = b + 1 /\ 1 <= a /\ a <= p /\ p - a + 1 = m /\ \A j \in 1..m : a + j - 1 = b + j
    <3>1. b + 1 \in Nat /\ 1 <= b + 1 /\ b + 1 <= p /\ p - (b + 1) + 1 = m /\ \A j \in 1..m : (b + 1) + j - 1 = b + j
      BY <1>2
    <3> QED
      BY <3>1
  <2>2. l = SubSeq(s, a, p)
    BY <2>1 DEF LineThere, b
  <2>3. (IF a <= p THEN p - a + 1 ELSE 0) = m
    BY <2>1
  <2> HIDE DEF l
  <2>4. l \in Seq(Range(s)) /\ Len(l) = m /\ \A j \in 1..m : l[j] = s[a + j - 1]
    BY <1>1, <2>1, <2>2, <2>3, PartIs
  <2> QED
    BY <2>1, <2>4
<1> HIDE DEF l
<1>6. \A j \in 1..m : v[j] = l[j] /\ l[j] # NUL
  <2> SUFFICES ASSUME NEW j \in 1..m PROVE v[j] = l[j] /\ l[j] # NUL
    OBVIOUS
  <2>1. v[j] = s[b + j] /\ l[j] = s[b + j] /\ b + j \in 1..Len(s)
    BY <1>1, <1>2, <1>4, <1>5
  <2> QED
    BY <1>1, <2>1 DEF Range
<1>7. InBuffer(v, l, m)
  BY <1>1, <1>2, <1>4, <1>5, <1>6 DEF InBuffer
<1>8. l \in Seq(Range(l))
  BY <1>5, SeqOfRange DEF Range
<1>9. Found(v, pt) <=> HasPattern(l, pt)
  BY <1>2, <1>7, <1>8, FoundIs
<1>10. SubSeq(v, 1, m) = l
  <2>1. v \in Seq(Range(v)) /\ 1 <= m /\ m <= Len(v) /\ m - 1 + 1 = m
    BY <1>1, <1>2, <1>4 DEF IsBuf
  <2>2. \A j \in 1..m : 1 + j - 1 = j
    OBVIOUS
  <2>3. SubSeq(v, 1, m) \in Seq(Range(v)) /\ Len(SubSeq(v, 1, m)) = m /\ \A j \in 1..m : SubSeq(v, 1, m)[j] = v[j]
    BY <1>2, <2>1, <2>2, PartIs
  <2>4. SubSeq(v, 1, m) \in Seq(Range(v) \cup Range(l)) /\ l \in Seq(Range(v) \cup Range(l))
    BY <1>8, <2>3, SeqMonotonic
  <2> QED
    BY <1>5, <1>6, <2>3, <2>4, SeqEqual
<1>11. Picked(s, pt)[i] = OneMoreLine(s, pt, Picked(s, pt)[i - 1], i)
  BY <1>1, PickedIs DEF LineThere
<1>12. Picked(s, pt)[i] = IF Found(v, pt) THEN Append(o, SubSeq(v, 1, m)) ELSE o
  BY <1>2, <1>9, <1>10, <1>11 DEF OneMoreLine, l
<1>13. LineDone(GrepRec(pt, u, m, o)) = GrepRec(pt, v, 0, IF Found(v, pt) THEN Append(o, SubSeq(v, 1, m)) ELSE o)
  <2>1. v = PutAt(u, m + 1, NUL)
    BY <1>3 DEF v
  <2> QED
    BY <2>1, DoneIs
<1> QED
  BY <1>4, <1>12, <1>13

GrepAt(s, w, p, pt) == \E u, m, o : w = GrepRec(pt, u, m, o) /\ GrepState(s, p, pt, u, m, o)

LEMMA GrepNext ==
    ASSUME NEW s, GrepText(s), NEW p \in Nat, p < Len(s), NEW pt, NEW w, GrepAt(s, w, p, pt)
    PROVE  GrepAt(s, GrepByte(w, s[p + 1]), p + 1, pt)
<1>1. PICK u, m, o : w = GrepRec(pt, u, m, o) /\ GrepState(s, p, pt, u, m, o)
  BY DEF GrepAt
<1>2. LineBuf \in Nat /\ Len(s) \in Nat /\ s \in Seq(Range(s)) /\ NUL \notin Range(s) /\ DOMAIN s = 1..Len(s)
      /\ Places(Newlines(s), Len(s)) /\ p \in 0..Len(s)
  BY ToolAssumption, TextPlaces DEF ToolAssumption, GrepText, GrepFits
<1>3. PICK b \in Nat : b = LineStart(s, p) /\ b + m = p /\ m \in Nat /\ m <= LineBuf - 1
  BY <1>1, <1>2 DEF GrepState
<1>4. /\ IsText(pt) /\ IsBuf(u) /\ \A j \in 1..m : u[j] = s[b + j]
      /\ o = Picked(s, pt)[Rank(Newlines(s), p)]
  BY <1>1, <1>3 DEF GrepState
<1>5. PICK k : k = Rank(Newlines(s), p)
  OBVIOUS
<1>6. k \in Nat /\ k + 1 \in 1..Cardinality(LineEnds(s))
  BY <1>2, <1>5, CurrentLine
<1>7. PICK i \in 1..Cardinality(LineEnds(s)) : i = k + 1 /\ i - 1 = k
  <2>1. (k + 1) - 1 = k
    BY <1>6
  <2> QED
    BY <1>6, <2>1
<1>8. PICK e \in Nat : e = LineEnd(s, i) /\ p < e /\ e <= Len(s) /\ (p + 1 \in LineEnds(s) => e = p + 1)
                       /\ LinesOf(s)[i] = SubSeq(s, b + 1, e)
  <2>1. /\ LineEnd(s, k + 1) \in Nat /\ p < LineEnd(s, k + 1) /\ LineEnd(s, k + 1) <= Len(s)
        /\ p + 1 \in LineEnds(s) => LineEnd(s, k + 1) = p + 1
        /\ LinesOf(s)[k + 1] = SubSeq(s, LineStart(s, p) + 1, LineEnd(s, k + 1))
    BY <1>2, <1>5, CurrentLine
  <2> QED
    BY <1>3, <1>7, <2>1
<1>9. b < e
  BY <1>3, <1>8
<1>10. PICK q \in 1..Len(s) : q = p + 1 /\ q - 1 = p
  <2>1. p + 1 \in 1..Len(s) /\ (p + 1) - 1 = p
    BY <1>2
  <2> QED
    BY <2>1
<1>11. Len(Bare(LinesOf(s)[i])) \in 1..LineBuf - 1
  <2>1. i \in DOMAIN LinesOf(s)
    BY <1>2, LinesCut, CutLength
  <2> QED
    BY <2>1 DEF GrepText, GrepFits
<1>a. PICK y \in Nat : y = Len(Bare(LinesOf(s)[i])) /\ 1 <= y /\ y <= LineBuf - 1
  BY <1>2, <1>11
<1>b. /\ s[e] = NL => Bare(SubSeq(s, b + 1, e)) = SubSeq(s, b + 1, e - 1)
      /\ s[e] = NL => Len(Bare(SubSeq(s, b + 1, e))) = e - 1 - b
      /\ s[e] # NL => Len(Bare(SubSeq(s, b + 1, e))) = e - b
  <2>1. BareIs(s, b, e)
    BY <1>2, <1>8, <1>9, BareLine
  <2> QED
    BY <2>1 DEF BareIs
<1>c. q \in Nat
  BY <1>2
<1>d. PICK g \in Nat, f \in Nat : g = m /\ f = LineBuf /\ b + g = p
  BY <1>2, <1>3
<1>12. CASE s[q] = NL
  <2>1. q \in Newlines(s) /\ q \in LineEnds(s)
    BY <1>2, <1>12 DEF Newlines, LineEnds
  <2>2. e = q
    BY <1>8, <1>10, <2>1
  <2>3. Bare(LinesOf(s)[i]) = SubSeq(s, b + 1, p) /\ y = e - 1 - b
    BY <1>8, <1>10, <1>12, <1>a, <1>b, <2>2
  <2>4. m # 0
    BY <1>10, <1>a, <1>c, <1>d, <2>2, <2>3
  <2>5. LineThere(s, p, i)
    BY <1>3, <1>5, <1>7, <2>3 DEF LineThere
  <2>6. PICK v : IsBuf(v) /\ LineDone(GrepRec(pt, u, m, o)) = GrepRec(pt, v, 0, Picked(s, pt)[i])
    BY <1>1, <1>2, <2>4, <2>5, LineIsDone
  <2>7. GrepByte(w, s[q]) = GrepRec(pt, v, 0, Picked(s, pt)[i])
    BY <1>1, <1>12, <2>6, ByteIs
  <2>8. Rank(Newlines(s), q) = i
    <3>1. Rank(Newlines(s), p + 1) = Rank(Newlines(s), p) + 1
      BY <1>2, <1>10, <2>1, RankNext
    <3> QED
      BY <1>5, <1>7, <1>10, <3>1
  <2>9. LineStart(s, q) = q
    BY <1>2, <1>8, <2>2, <2>8, BoundsAre DEF LineStart
  <2>10. GrepState(s, q, pt, v, 0, Picked(s, pt)[i])
    <3>1. 0 \in 0..LineBuf - 1 /\ q + 0 = q /\ q \in Nat /\ \A j \in 1..0 : v[j] = s[q + j]
      BY <1>2, <1>3, <2>4
    <3> QED
      BY <1>4, <2>6, <2>8, <2>9, <3>1 DEF GrepState
  <2> QED
    BY <1>10, <2>7, <2>10 DEF GrepAt
<1>13. CASE s[q] # NL
  <2>1. q \notin Newlines(s)
    BY <1>13 DEF Newlines
  <2>2. m < LineBuf - 1
    <3>1. CASE s[e] = NL
      <4>1. y = e - 1 - b
        BY <1>8, <1>a, <1>b, <3>1
      <4>2. e # q
        BY <1>13, <3>1
      <4>3. y <= f - 1 /\ p < e
        BY <1>8, <1>a, <1>d
      <4>4. g < f - 1
        BY <1>10, <1>c, <1>d, <4>1, <4>2, <4>3
      <4> QED
        BY <1>d, <4>4
    <3>2. CASE s[e] # NL
      <4>1. y = e - b
        BY <1>8, <1>a, <1>b, <3>2
      <4> QED
        BY <1>2, <1>3, <1>8, <1>a, <4>1
    <3> QED
      BY <3>1, <3>2
  <2>3. PICK x \in 1..LineBuf : x = m + 1 /\ x \in 0..LineBuf - 1 /\ b + x = q
    <3>1. m + 1 \in 1..LineBuf /\ m + 1 \in 0..LineBuf - 1 /\ b + (m + 1) = q
      BY <1>2, <1>3, <1>10, <2>2
    <3> QED
      BY <3>1
  <2>4. PICK v : v = PutAt(u, x, s[q])
    OBVIOUS
  <2>5. IsBuf(v) /\ v[x] = s[q] /\ \A j \in 1..LineBuf : j # x => v[j] = u[j]
    BY <1>4, <2>4, BufSet DEF IsPut
  <2>6. GrepByte(w, s[q]) = GrepRec(pt, v, x, o)
    <3>1. ~(m >= LineBuf - 1)
      BY <1>2, <1>3, <2>2
    <3> QED
      BY <1>1, <1>13, <2>3, <2>4, <3>1, ByteIs
  <2>7. Rank(Newlines(s), q) = k
    <3>1. Rank(Newlines(s), p + 1) = Rank(Newlines(s), p) + 0
      BY <1>2, <1>10, <2>1, RankNext
    <3> QED
      BY <1>5, <1>6, <1>10, <3>1
  <2>8. LineStart(s, q) = b
    BY <1>3, <1>5, <2>7 DEF LineStart
  <2>9. \A j \in 1..x : v[j] = s[b + j]
    <3> SUFFICES ASSUME NEW j \in 1..x PROVE v[j] = s[b + j]
      OBVIOUS
    <3>1. j # x => j \in 1..m /\ j \in 1..LineBuf
      BY <1>2, <1>3, <2>3
    <3> QED
      BY <1>4, <2>3, <2>5, <3>1
  <2>10. GrepState(s, q, pt, v, x, o)
    BY <1>4, <1>5, <2>3, <2>5, <2>7, <2>8, <2>9 DEF GrepState
  <2> QED
    BY <1>10, <2>6, <2>10 DEF GrepAt
<1> QED
  BY <1>12, <1>13

\* The text is over.
LEMMA GrepOver ==
    ASSUME NEW s, GrepText(s), NEW pt, NEW u, NEW m, NEW o, GrepState(s, Len(s), pt, u, m, o)
    PROVE  /\ m = 0 => o = WithPattern(s, pt)
           /\ m # 0 => \E v : LineDone(GrepRec(pt, u, m, o)) = GrepRec(pt, v, 0, WithPattern(s, pt))
<1> DEFINE N == Newlines(s)  E == LineEnds(s)  c == Cardinality(LineEnds(s))
<1>1. LineBuf \in Nat /\ s \in Seq(Range(s)) /\ DOMAIN s = 1..Len(s) /\ Len(s) \in Nat
      /\ Places(N, Len(s)) /\ Places(E, Len(s)) /\ c \in Nat
  BY ToolAssumption, TextPlaces, EndsCount DEF ToolAssumption, GrepText, GrepFits
<1>2. PICK n \in Nat : n = Len(s)
  BY <1>1
<1>3. PICK b \in Nat : b = LineStart(s, n) /\ b + m = n /\ m \in Nat
  BY <1>1, <1>2 DEF GrepState
<1>4. PICK k \in Nat : k = Rank(N, n) /\ k = Cardinality(N)
  <2>1. Places(N, n) /\ n <= n
    BY <1>1, <1>2
  <2>2. Rank(N, n) \in Nat /\ Rank(N, n) = Cardinality(N)
    BY <2>1, RankType, RankTo
  <2> QED
    BY <2>2
<1>5. o = Picked(s, pt)[k] /\ WithPattern(s, pt) = Picked(s, pt)[c]
  BY <1>1, <1>2, <1>4, PickedIs DEF GrepState
<1>6. k # 0 /\ k <= c => LineEnd(s, k) = b
  <2>1. k # 0 /\ k <= c => k \in 1..c
    BY <1>1
  <2> QED
    BY <1>1, <1>3, <1>4, <2>1, BoundsAre DEF LineStart
<1>7. k = 0 => b = 0
  BY <1>1, <1>3, <1>4, BoundsAre DEF LineStart
<1>8. c = k \/ (c = k + 1 /\ E # N)
  BY <1>1, <1>4, EndsCount
<1>9. n # 0 => n \in E /\ Rank(E, n) = c
  <2>1. n # 0 => s # <<>>
    BY <1>1, <1>2
  <2> QED
    BY <1>1, <1>2, <2>1, LastEnd
<1>10. CASE m = 0
  <2>1. b = n
    BY <1>3, <1>10
  <2>2. k = c
    <3>1. CASE k = 0
      <4>1. Len(s) = 0
        BY <1>2, <1>7, <2>1, <3>1
      <4>2. E = {}
        BY <1>1, <4>1, PlacesAre
      <4> QED
        BY <3>1, <4>2, FS_EmptySet
    <3>2. CASE k # 0
      <4>1. k \in 1..c
        BY <1>1, <1>8, <3>2
      <4>2. LineEnd(s, k) \in E /\ Rank(E, LineEnd(s, k)) = k
        BY <1>1, <4>1, LineEndIs
      <4>3. LineEnd(s, k) = n
        BY <1>1, <1>6, <2>1, <4>1
      <4>4. n # 0
        BY <1>1, <4>2, <4>3, PlacesAre
      <4> QED
        BY <1>9, <4>2, <4>3, <4>4
    <3> QED
      BY <3>1, <3>2
  <2> QED
    BY <1>5, <1>10, <2>2
<1>11. CASE m # 0
  <2>1. b < n /\ n # 0
    BY <1>3, <1>11
  <2>2. c # k
    <3> SUFFICES ASSUME c = k PROVE FALSE
      OBVIOUS
    <3>1. c # 0
      <4>1. s # <<>>
        BY <1>1, <1>2, <2>1
      <4> QED
        BY <1>1, <4>1, LastEnd
    <3>2. LineEnd(s, c) = b
      BY <1>1, <1>6, <3>1
    <3>3. s # <<>>
      BY <1>1, <1>2, <2>1
    <3>4. LineEnd(s, c) = n
      BY <1>1, <1>2, <3>3, LastEnd
    <3> QED
      BY <2>1, <3>2, <3>4
  <2>3. c = k + 1 /\ n \notin N
    <3>1. E # N
      BY <1>8, <2>2
    <3>2. n \notin N
      BY <1>2, <3>1 DEF LineEnds
    <3> QED
      BY <1>8, <2>2, <3>2
  <2>4. PICK p \in Nat : p = n - 1 /\ p < n /\ p + 1 = n
    <3>1. n - 1 \in Nat /\ n - 1 < n /\ (n - 1) + 1 = n
      BY <2>1
    <3> QED
      BY <3>1
  <2>5. Rank(N, p) = k
    <3>1. Rank(N, p + 1) = Rank(N, p) + 0
      BY <1>1, <2>3, <2>4, RankNext
    <3>2. PICK x \in Nat : x = Rank(N, p)
      BY <1>1, RankType
    <3>3. Rank(N, n) = Rank(N, p) + 0
      BY <2>4, <3>1
    <3> HIDE DEF N
    <3>4. k = x + 0
      BY <1>4, <3>2, <3>3
    <3>5. k = x
      BY <3>4
    <3> QED
      BY <3>2, <3>5
  <2>6. PICK i \in 1..c : i = k + 1 /\ i - 1 = k /\ i = c
    <3>1. k + 1 \in 1..c /\ (k + 1) - 1 = k
      BY <1>1, <2>3
    <3> QED
      BY <2>3, <3>1
  <2>7. LineStart(s, p) = b
    BY <1>3, <1>4, <2>5 DEF LineStart
  <2>8. PICK e : e = LineEnd(s, i) /\ LinesOf(s)[i] = SubSeq(s, b + 1, e) /\ (n \in E => e = n)
    <3>1. p < Len(s) /\ k = Rank(Newlines(s), p)
      BY <1>2, <2>4, <2>5
    <3>2. /\ p + 1 \in LineEnds(s) => LineEnd(s, k + 1) = p + 1
          /\ LinesOf(s)[k + 1] = SubSeq(s, LineStart(s, p) + 1, LineEnd(s, k + 1))
      BY <1>1, <3>1, CurrentLine
    <3> QED
      BY <2>4, <2>6, <2>7, <3>2
  <2>9. e = n
    BY <1>9, <2>1, <2>8
  <2>10. s[n] # NL
    BY <1>1, <1>2, <2>1, <2>3 DEF Newlines
  <2>11. Bare(LinesOf(s)[i]) = SubSeq(s, b + 1, n)
    <3>1. n <= Len(s)
      BY <1>2
    <3>2. BareIs(s, b, n)
      BY <1>1, <2>1, <3>1, BareLine
    <3>3. Bare(SubSeq(s, b + 1, n)) = SubSeq(s, b + 1, n)
      BY <2>10, <3>2 DEF BareIs
    <3> QED
      BY <2>8, <2>9, <3>3
  <2>12. LineThere(s, n, i)
    BY <1>3, <1>4, <2>6, <2>11 DEF LineThere
  <2>13. n \in 0..Len(s) /\ GrepState(s, n, pt, u, m, o)
    BY <1>2
  <2>14. \E v : IsBuf(v) /\ LineDone(GrepRec(pt, u, m, o)) = GrepRec(pt, v, 0, Picked(s, pt)[i])
    BY <1>11, <2>12, <2>13, LineIsDone
  <2> QED
    BY <1>5, <1>11, <2>6, <2>14
<1> QED
  BY <1>10, <1>11

\* What GREP keeps behind a chunk.
LEMMA GrepChunk ==
    ASSUME NEW s, GrepText(s), NEW p \in Nat, NEW n \in Nat, p + n <= Len(s),
           NEW d, \A i \in 1..n : d[i] = s[p + i], NEW pt, NEW w0, GrepAt(s, w0, p, pt)
    PROVE  GrepAt(s, GrepRun(w0, d, n), p + n, pt)
<1>1. PICK w : IsGrepRun(w, w0, d, n) /\ GrepRun(w0, d, n) = w[n]
  <2>1. \E w : IsGrepRun(w, w0, d, n) /\ GrepRun(w0, d, n) = w[n]
    BY GrepRunIs
  <2> QED
    BY <2>1
<1>2. w[0] = w0 /\ \A i \in 1..n : w[i] = GrepByte(w[i - 1], d[i])
  <2>1. 0 \in 0..n /\ \A i \in 1..n : i \in 0..n /\ i # 0
    OBVIOUS
  <2> QED
    BY <1>1, <2>1 DEF IsGrepRun
<1>3. Len(s) \in Nat
  BY TextPlaces DEF GrepText
<1> DEFINE Good == {i \in Nat : i <= n => GrepAt(s, w[i], p + i, pt)}
<1>4. 0 \in Good
  <2>1. p + 0 = p
    OBVIOUS
  <2> QED
    BY <1>2, <2>1
<1>5. ASSUME NEW i \in Nat, i \in Good PROVE i + 1 \in Good
  <2> SUFFICES ASSUME i + 1 <= n PROVE GrepAt(s, w[i + 1], p + (i + 1), pt)
    OBVIOUS
  <2>1. PICK j \in 1..n, q \in Nat : j = i + 1 /\ j - 1 = i /\ q = p + i /\ q + 1 = p + j /\ q < Len(s)
    <3>1. i + 1 \in 1..n /\ p + i \in Nat /\ (i + 1) - 1 = i /\ (p + i) + 1 = p + (i + 1) /\ p + i < Len(s)
      BY <1>3
    <3> QED
      BY <3>1
  <2>2. w[j] = GrepByte(w[i], d[j]) /\ d[j] = s[p + j]
    BY <1>2, <2>1
  <2>3. GrepAt(s, w[i], q, pt)
    BY <1>5, <2>1
  <2>4. GrepAt(s, GrepByte(w[i], s[q + 1]), q + 1, pt)
    BY <2>1, <2>3, GrepNext
  <2> QED
    BY <2>1, <2>2, <2>4
<1> HIDE DEF Good
<1>6. Nat \subseteq Good
  BY <1>4, <1>5, FromZero
<1>7. GrepAt(s, w[n], p + n, pt)
  BY <1>6 DEF Good
<1> QED
  BY <1>1, <1>7

\* What GREP has kept and printed.
GrepDone(s) == GrepFits(s) => out = WithPattern(s, kept.pattern)
GrepHolds ==
    tool = "grep" =>
        /\ arg = <<1>> /\ HoldTexts({store})
        /\ tpc = "open" => (GrepFits(store[1]) => GrepAt(store[1], kept, 0, kept.pattern))
        /\ tpc = "read" =>
              /\ fds[handles[1]].file = 1 /\ fds[handles[1]].pos \in 0..Len(store[1])
              /\ GrepFits(store[1]) => GrepAt(store[1], kept, fds[handles[1]].pos, kept.pattern)
        /\ tpc = "close" /\ ~faulty => GrepDone(store[1])
        /\ tpc = "done" /\ ~faulty /\ 1 \in names => GrepDone(store[1])

LEMMA GrepEnds ==
    ASSUME NEW s, GrepText(s), NEW w, NEW pt, GrepAt(s, w, Len(s), pt),
           NEW v, v = IF w.line_idx > 0 THEN LineDone(w) ELSE w
    PROVE  v.printed = WithPattern(s, v.pattern)
<1>1. PICK u, m, o : w = GrepRec(pt, u, m, o) /\ GrepState(s, Len(s), pt, u, m, o)
  BY DEF GrepAt
<1>2. w.line_idx = m /\ w.pattern = pt /\ w.printed = o
  BY <1>1 DEF GrepRec
<1>3. m \in 0..LineBuf - 1
  BY <1>1 DEF GrepState
<1>4. CASE m = 0
  <2>1. o = WithPattern(s, pt)
    BY <1>1, <1>4, GrepOver
  <2>2. ~(w.line_idx > 0)
    BY <1>2, <1>4
  <2> QED
    BY <1>2, <2>1, <2>2
<1>5. CASE m # 0
  <2>1. PICK x : LineDone(GrepRec(pt, u, m, o)) = GrepRec(pt, x, 0, WithPattern(s, pt))
    BY <1>1, <1>5, GrepOver
  <2>2. w.line_idx > 0
    BY <1>2, <1>3, <1>5
  <2>3. v = GrepRec(pt, x, 0, WithPattern(s, pt))
    BY <1>1, <2>1, <2>2
  <2> QED
    BY <2>3 DEF GrepRec
<1> QED
  BY <1>4, <1>5

LEMMA GrepStep == ToolHolding /\ GrepHolds /\ [ToolNext]_toolVars => GrepHolds'
<1> SUFFICES ASSUME ToolHolding, GrepHolds, [ToolNext]_toolVars, tool = "grep" PROVE GrepHolds'
  BY ToolKeeps DEF GrepHolds
<1> DEFINE s == store[1]  h == handles[1]
<1>1. store' = store /\ names' = names /\ tool' = tool /\ arg' = arg /\ (faulty => faulty')
  BY ToolKeeps
<1>2. arg = <<1>> /\ HoldTexts({store}) /\ s \in Seq(Range(s)) /\ arg[1] = 1
  BY DEF GrepHolds, HoldTexts
<1>3. HoldTexts({store'}) /\ arg' = <<1>>
  BY <1>1, <1>2
<1>4. Holding
  BY DEF ToolHolding
<1>5. CASE Open
  <2>1. ASSUME NEW k \in {0, 1}, Store!Open(arg[1], "ro", k), handles' = <<k>>, tpc' = AfterOpen[tool], UNCHANGED kept
        PROVE  GrepHolds'
    <3>1. fds'[k].file = 1 /\ fds'[k].pos = 0
      BY <1>2, <1>4, <2>1, OpenIs
    <3>2. handles'[1] = k /\ tpc' = "read" /\ tpc = "open"
      BY <1>5, <2>1 DEF AfterOpen, Open, At
    <3>3. kept' = kept /\ 0 \in 0..Len(s) /\ (GrepFits(s) => GrepAt(s, kept, 0, kept.pattern))
      BY <1>2, <2>1, <3>2 DEF GrepHolds
    <3> QED
      BY <1>1, <1>3, <3>1, <3>2, <3>3 DEF GrepHolds
  <2>2. ASSUME Missing \/ Fails("open"), tpc' = "done" PROVE GrepHolds'
    <3>1. 1 \notin names' \/ faulty'
      BY <1>1, <1>2, <2>2 DEF Missing, Fails
    <3> QED
      BY <1>3, <2>2, <3>1 DEF GrepHolds
  <2> QED
    BY <1>5, <2>1, <2>2 DEF Open
<1>6. CASE Close
  <2>1. tpc = "close" /\ out' = out /\ UNCHANGED <<kept, faulty>> /\ tpc' \in {"done", "close"}
    BY <1>6 DEF Close, At
  <2> QED
    BY <1>1, <1>3, <2>1 DEF GrepHolds, GrepDone
<1>7. CASE ReadFails
  BY <1>3, <1>7 DEF ReadFails, Fails, GrepHolds
<1>8. CASE GrepReads
  <2>1. /\ Reads(h, ReadChunk) /\ tpc = "read" /\ handles' = handles
        /\ tpc' = IF reply'.data = <<>> THEN "close" ELSE "read"
        /\ faulty' = faulty /\ out' = kept'.printed
    BY <1>8 DEF GrepReads, At, Reads
  <2>2. h \in {0, 1}
    BY <2>1, FirstHand
  <2>3. PICK p \in 0..Len(s) : p = fds[h].pos /\ fds[h].file = 1
                               /\ (GrepFits(s) => GrepAt(s, kept, p, kept.pattern))
    BY <2>1 DEF GrepHolds
  <2>4. ReadChunk \in Nat \ {0}
    BY ToolAssumption DEF ToolAssumption
  <2>5. PICK d : d = reply'.data
    OBVIOUS
  <2> HIDE DEF h, s
  <2>6. s = store[fds[h].file]
    BY <2>3 DEF s
  <2>7. Reads(h, ReadChunk)
    BY <2>1
  <2>8. IsNext(s, p, ReadChunk, d) /\ fds'[h].pos = p + Len(d) /\ fds'[h].file = 1
    <3>1. Readable(h)
      BY <1>2, <2>3, <2>6 DEF Readable
    <3>2. GetsNext(h, ReadChunk)
      BY <1>4, <2>2, <2>4, <2>7, <3>1, ReadsAre
    <3> QED
      BY <2>3, <2>5, <2>6, <3>2 DEF GetsNext
  <2>9. /\ d \in Seq(Range(s)) /\ Len(d) = IF p + ReadChunk <= Len(s) THEN ReadChunk ELSE Len(s) - p
        /\ \A i \in 1..Len(d) : d[i] = s[p + i]
        /\ p + Len(d) \in 0..Len(s) /\ fds'[h].pos = p + Len(d) /\ fds'[h].file = 1
    BY <2>8 DEF IsNext
  <2>10. PICK n \in Nat : n = Len(d)
    BY <2>9
  <2>11. kept' = IF d = <<>> /\ kept.line_idx > 0 THEN LineDone(kept) ELSE GrepRun(kept, d, n)
    BY <1>8, <2>5, <2>10 DEF GrepReads, GrepRun
  <2>12. ASSUME GrepFits(s) PROVE GrepAt(s, GrepRun(kept, d, n), p + n, kept.pattern)
    <3>1. p \in Nat /\ p + n <= Len(s) /\ \A i \in 1..n : d[i] = s[p + i]
      BY <2>9, <2>10
    <3>2. GrepText(s) /\ GrepAt(s, kept, p, kept.pattern)
      BY <1>2, <2>3, <2>12 DEF GrepText, s
    <3> QED
      BY <3>1, <3>2, GrepChunk
  <2>13. handles'[1] = h
    BY <2>1 DEF h
  <2>14. CASE d # <<>>
    <3>1. kept' = GrepRun(kept, d, n) /\ tpc' = "read"
      BY <2>1, <2>5, <2>11, <2>14
    <3>2. ASSUME GrepFits(s) PROVE GrepAt(s, kept', p + n, kept'.pattern)
      <4>1. PICK u, m, o : kept' = GrepRec(kept.pattern, u, m, o)
        BY <2>12, <3>1, <3>2 DEF GrepAt
      <4>2. kept'.pattern = kept.pattern
        BY <4>1 DEF GrepRec
      <4> QED
        BY <2>12, <3>1, <3>2, <4>2
    <3> QED
      BY <1>1, <1>3, <2>9, <2>10, <2>13, <3>1, <3>2 DEF GrepHolds, s
  <2>15. CASE d = <<>>
    <3>1. n = 0 /\ p + n = Len(s) /\ tpc' = "close" /\ p = Len(s)
      BY <1>2, <2>1, <2>4, <2>5, <2>9, <2>10, <2>15 DEF s
    <3>2. GrepRun(kept, d, 0) = kept
      <4>1. PICK w : IsGrepRun(w, kept, d, 0) /\ GrepRun(kept, d, 0) = w[0]
        BY GrepRunIs
      <4> QED
        BY <4>1 DEF IsGrepRun
    <3>3. kept' = IF kept.line_idx > 0 THEN LineDone(kept) ELSE kept
      BY <2>11, <2>15, <3>1, <3>2
    <3>4. ASSUME GrepFits(s) PROVE out' = WithPattern(s, kept'.pattern)
      <4>1. GrepText(s) /\ GrepAt(s, kept, Len(s), kept.pattern)
        BY <1>2, <2>3, <3>1, <3>4 DEF GrepText, s
      <4>2. PICK w, v, t : w = kept /\ v = kept' /\ t = kept.pattern
        OBVIOUS
      <4>3. GrepAt(s, w, Len(s), t) /\ v = IF w.line_idx > 0 THEN LineDone(w) ELSE w
        BY <3>3, <4>1, <4>2
      <4>4. v.printed = WithPattern(s, v.pattern)
        BY <4>1, <4>3, GrepEnds
      <4> QED
        BY <2>1, <4>2, <4>4
    <3> QED
      BY <1>1, <1>3, <3>1, <3>4 DEF GrepHolds, GrepDone, s
  <2> QED
    BY <2>14, <2>15
<1>9. CASE UNCHANGED toolVars
  BY <1>9 DEF GrepHolds, GrepDone, toolVars, fileVars, HoldTexts
<1> QED
  BY <1>5, <1>6, <1>7, <1>8, <1>9
  DEF ToolNext, OpenSecond, HeadReads, TailSeeks, TailReads, WcReads, DiffReadsFirst, DiffReadsSecond, At

LEMMA GrepInit == ToolInit => GrepHolds
<1> SUFFICES ASSUME ToolInit, tool = "grep" PROVE GrepHolds
  BY DEF GrepHolds
<1>1. arg = <<1>> /\ tpc = "open"
  BY DEF ToolInit
<1>2. PICK pt \in Patterns, u \in Stale : kept = GrepRec(pt, u, 0, <<>>)
  BY DEF ToolInit, Fresh, GrepRec
<1>3. IsText(pt) /\ IsBuf(u) /\ LineBuf \in Nat \ {0}
  BY ToolAssumption DEF ToolAssumption, IsText, IsBuf
<1>4. kept.pattern = pt
  BY <1>2 DEF GrepRec
<1>5. PICK s : s = store[1]
  OBVIOUS
<1>6. HoldTexts({store}) /\ s \in Seq(Range(s))
  BY <1>5, ToolTexts DEF HoldTexts
<1>7. Rank(Newlines(s), 0) = 0 /\ LineStart(s, 0) = 0
  BY <1>6, TextPlaces, RankZero, BoundsAre DEF LineStart
<1>8. Picked(s, pt)[0] = <<>>
  BY <1>6, PickedIs
<1>9. GrepState(s, 0, pt, u, 0, <<>>)
  BY <1>3, <1>7, <1>8 DEF GrepState
<1>10. GrepAt(s, kept, 0, kept.pattern)
  BY <1>2, <1>4, <1>9 DEF GrepAt
<1> QED
  BY <1>1, <1>5, <1>6, <1>10 DEF GrepHolds
-----------------------------------------------------------------------------
LEMMA NothingYet == ASSUME NEW s PROVE WcOf(s, 0) = [in_word |-> FALSE, lines |-> 0, words |-> 0, chars |-> 0]
<1>1. NewlinesTo(s, 0) = {} /\ StartsTo(s, 0) = {}
  BY DEF NewlinesTo, StartsTo
<1>2. Cardinality(NewlinesTo(s, 0)) = 0 /\ Cardinality(StartsTo(s, 0)) = 0
  BY <1>1, FS_EmptySet
<1>3. (0 # 0 /\ s[0] \notin Spaces) = FALSE
  OBVIOUS
<1> QED
  BY <1>2, <1>3 DEF WcOf

LEMMA WcInit == ToolInit => WcHolds
<1> SUFFICES ASSUME ToolInit, tool = "wc" PROVE WcHolds
  BY DEF WcHolds
<1>1. arg = <<1>> /\ tpc = "open"
  BY DEF ToolInit
<1>2. kept = [in_word |-> FALSE, lines |-> 0, words |-> 0, chars |-> 0]
  BY DEF ToolInit, Fresh
<1> QED
  BY <1>1, <1>2, ToolTexts, NothingYet DEF WcHolds

LEMMA DiffInit == ToolInit => DiffHolds
<1> SUFFICES ASSUME ToolInit, tool = "diff" PROVE DiffHolds
  BY DEF DiffHolds
<1>1. arg \in {<<1, 1>>, <<1, 2>>} /\ tpc = "open"
  BY DEF ToolInit
<1>2. kept = [chunk |-> <<>>, offset |-> 0]
  BY DEF ToolInit, Fresh
<1> QED
  BY <1>1, <1>2, ToolTexts DEF DiffHolds

LEMMA ToolHoldsInit == ToolInit => ToolHolding
  BY InitHolds, ToolAssumption DEF ToolInit, ToolHolding, ToolHands, ToolAssumption

LEMMA EmptyFits == ASSUME NEW s, s \in Seq(Range(s)), Fits(s), tool = "tail" PROVE TailFits(s)
<1>1. CASE s # <<>>
  BY <1>1 DEF Fits, TailFits
<1>2. CASE s = <<>>
  <2>1. LineEnds(s) = {} /\ Len(s) = 0
    BY <1>2, TextPlaces DEF LineEnds, Newlines
  <2>0. Lines \in Nat \ {0} /\ Cardinality({}) = 0
    BY FS_EmptySet, ToolAssumption DEF ToolAssumption
  <2>a. Cardinality(LineEnds(s)) <= Lines
    BY <2>0, <2>1
  <2>2. LastLines(s) = s
    BY <2>a, LastLinesAre
  <2> QED
    BY <1>2, <2>1, <2>2, ToolAssumption DEF TailFits, ToolAssumption
<1> QED
  BY <1>1, <1>2

\* Each of them for its own output.
LEMMA AllPrint ==
    ASSUME tpc = "done", tool \in AllTools, ~faulty, 1 \in names, Fits(store[1]),
           HeadHolds, TailHolds, WcHolds, GrepHolds, DiffHolds
    PROVE  out = Wanted(store[1])
<1>1. CASE tool = "head"
  BY <1>1 DEF HeadHolds, Wanted
<1>2. CASE tool = "tail"
  <2>1. store[1] \in Seq(Range(store[1]))
    BY <1>2 DEF TailHolds, HoldTexts
  <2>2. TailFits(store[1])
    BY <1>2, <2>1, EmptyFits
  <2> QED
    BY <1>2, <2>2 DEF TailHolds, Wanted
<1>3. CASE tool = "wc"
  BY <1>3 DEF WcHolds, Printed, Wanted
<1>4. CASE tool = "grep"
  <2>1. GrepFits(store[1])
    BY <1>4 DEF Fits, GrepFits
  <2> QED
    BY <1>4, <2>1 DEF GrepHolds, GrepDone, Wanted
<1>5. CASE tool = "diff"
  BY <1>5 DEF DiffHolds, Wanted
<1> QED
  BY <1>1, <1>2, <1>3, <1>4, <1>5 DEF AllTools

\* The programs print what they are for, with chunks of any size, so that a
\* line, a word or a pattern may lie across two of them: HEAD the first lines,
\* WC how many lines, words and bytes there are, DIFF where two files differ
\* first, for files of any bytes and any length; TAIL the last lines of an empty
\* file or one that ends with a newline and has those lines in its window; GREP
\* the lines with its pattern, if no byte is a NUL and every line has at least
\* one byte and fits its buffer.  Of other files, and where a command has
\* failed, it says nothing.
THEOREM ToolsPrintRight == ToolSpec => []OutputRight
<1> DEFINE I == ToolHolding /\ HeadHolds /\ TailHolds /\ WcHolds /\ GrepHolds /\ DiffHolds
<1>1. ToolInit => I
  BY HeadInit, TailInit, WcInit, GrepInit, DiffInit, ToolHoldsInit
<1>2. I /\ [ToolNext]_toolVars => I'
  BY ToolStepHolds, HeadStep, TailStep, WcStep, GrepStep, DiffStep
<1>3. I => OutputRight
  BY AllPrint DEF OutputRight
<1> HIDE DEF I
<1> QED
  BY <1>1, <1>2, <1>3, PTL DEF ToolSpec
-----------------------------------------------------------------------------
(***************************************************************************)
(* The cursor of WRITE is in the text, and the text ends in the buffer.    *)
(***************************************************************************)
\* The buffer b holds a text that ends with a NUL, and position c is in it.
TextHolds(b, c) ==
    /\ b = [i \in Memory |-> b[i]] /\ b[EditBuf - 1] = NUL
    /\ c \in Memory /\ \A i \in 0..c - 1 : b[i] # NUL

LEMMA Constants ==
    /\ EditBuf \in Nat \ {0} /\ EditChunk \in Nat \ {0} /\ Wide \in Nat \ {0} /\ Height \in Nat
    /\ Height >= 2 /\ Height < Wide /\ PageLines \in Nat \ {0}
    /\ {NL, "\r", NUL} \cap Letters = {} /\ HoldTexts(EditFiles)
<1>1. Wide \in Nat \ {0} /\ Height \in 2..Wide - 1
  BY EditAssumption, Zenon DEF EditAssumption
<1>2. Height \in Nat /\ Height >= 2 /\ Height < Wide
  BY <1>1
<1> QED
  BY <1>1, <1>2, EditAssumption, Zenon DEF EditAssumption

LEMMA TextEndIs ==
    ASSUME TextHolds(buf, cur)
    PROVE  /\ TextEnd \in Memory /\ buf[TextEnd] = NUL /\ \A i \in 0..TextEnd - 1 : buf[i] # NUL
           /\ cur \in 0..TextEnd
<1> DEFINE S == {e \in Memory : buf[e] = NUL}
<1>1. EditBuf - 1 \in S /\ S \subseteq Nat
  BY Constants DEF TextHolds, Memory
<1>2. PICK e \in S : \A i \in S : e <= i
  BY <1>1, Least
<1>3. e \in Memory /\ buf[e] = NUL /\ \A i \in 0..e - 1 : buf[i] # NUL
  <2>1. \A i \in 0..e - 1 : i \in Memory /\ ~(e <= i)
    BY Constants DEF Memory
  <2> QED
    BY <1>2, <2>1
<1>4. TextEnd \in Memory /\ buf[TextEnd] = NUL /\ \A i \in 0..TextEnd - 1 : buf[i] # NUL
  BY <1>3 DEF TextEnd
<1>5. cur \in Nat /\ TextEnd \in Nat /\ \A i \in 0..cur - 1 : buf[i] # NUL
  <2>1. cur \in Memory /\ \A i \in 0..cur - 1 : buf[i] # NUL
    BY DEF TextHolds
  <2> QED
    BY <1>4, <2>1, Constants DEF Memory
<1>6. cur <= TextEnd
  <2> SUFFICES ASSUME ~(cur <= TextEnd) PROVE FALSE
    OBVIOUS
  <2>1. TextEnd \in 0..cur - 1
    BY <1>5
  <2> QED
    BY <1>4, <1>5, <2>1
<1> QED
  BY <1>4, <1>5, <1>6

\* A cursor may be anywhere in the text.
LEMMA AnywhereHolds ==
    ASSUME TextHolds(buf, cur), NEW c \in 0..TextEnd
    PROVE  TextHolds(buf, c)
<1>1. TextEnd \in Memory /\ \A i \in 0..TextEnd - 1 : buf[i] # NUL
  BY TextEndIs
<1>2. c \in Memory /\ \A i \in 0..c - 1 : i \in 0..TextEnd - 1
  BY <1>1, Constants DEF Memory
<1> QED
  BY <1>1, <1>2 DEF TextHolds

LEMMA LettersAre == NL # NUL /\ " " # NUL /\ " " # NL /\ \A c \in Letters : c # NL /\ c # NUL
<1>1. {NL, "\r", NUL} \cap Letters = {}
  BY Constants
<1> QED
  BY <1>1 DEF NL, NUL

LEMMA InsertedHolds ==
    ASSUME TextHolds(buf, cur), Room, NEW c, c # NUL
    PROVE  /\ TextHolds(Inserted(c), cur + 1) /\ Inserted(c)[cur] = c
           /\ \A i \in 0..cur - 1 : Inserted(c)[i] = buf[i]
<1>1. TextEnd \in Memory /\ cur \in 0..TextEnd /\ TextEnd < EditBuf - 1 /\ EditBuf \in Nat \ {0}
  BY TextEndIs, Constants DEF Room
<1>2. PICK b : b = Inserted(c)
  OBVIOUS
<1>3. b = [i \in Memory |-> IF i = cur THEN c ELSE IF i \in cur + 1..TextEnd THEN buf[i - 1] ELSE buf[i]]
  BY <1>2 DEF Inserted
<1>4. EditBuf - 1 \in Memory /\ EditBuf - 1 # cur /\ EditBuf - 1 \notin cur + 1..TextEnd /\ cur \in Memory
  BY <1>1 DEF Memory
<1>5. b[EditBuf - 1] = NUL /\ b[cur] = c /\ b = [i \in Memory |-> b[i]]
  BY <1>3, <1>4 DEF TextHolds
<1>6. \A i \in 0..cur - 1 : b[i] = buf[i]
  <2>1. \A i \in 0..cur - 1 : i \in Memory /\ i # cur /\ i \notin cur + 1..TextEnd
    BY <1>1 DEF Memory
  <2> QED
    BY <1>3, <2>1
<1>7. cur + 1 \in Memory /\ \A i \in 0..(cur + 1) - 1 : i = cur \/ i \in 0..cur - 1
  BY <1>1 DEF Memory
<1> QED
  BY <1>2, <1>5, <1>6, <1>7 DEF TextHolds

LEMMA RemovedHolds ==
    ASSUME TextHolds(buf, cur), NEW p \in 0..cur
    PROVE  TextHolds(Removed(p), p)
<1>1. TextEnd \in Memory /\ cur \in 0..TextEnd /\ EditBuf \in Nat \ {0}
  BY TextEndIs, Constants
<1>2. PICK b : b = Removed(p)
  OBVIOUS
<1>3. b = [i \in Memory |-> IF i \in p..TextEnd - 1 THEN buf[i + 1] ELSE buf[i]]
  BY <1>2 DEF Removed
<1>4. EditBuf - 1 \in Memory /\ EditBuf - 1 \notin p..TextEnd - 1 /\ p \in Memory
  BY <1>1 DEF Memory
<1>5. b[EditBuf - 1] = NUL /\ b = [i \in Memory |-> b[i]]
  BY <1>3, <1>4 DEF TextHolds
<1>6. \A i \in 0..p - 1 : b[i] = buf[i] /\ buf[i] # NUL
  <2>1. \A i \in 0..p - 1 : i \in Memory /\ i \notin p..TextEnd - 1 /\ i \in 0..cur - 1
    BY <1>1 DEF Memory
  <2> QED
    BY <1>3, <2>1 DEF TextHolds
<1> QED
  BY <1>2, <1>4, <1>5, <1>6 DEF TextHolds
-----------------------------------------------------------------------------
(***************************************************************************)
(* Where the keys put the cursor: nowhere behind the end of the text.      *)
(***************************************************************************)
LEMMA BolOfType == ASSUME NEW p \in Nat PROVE BolOf(p) \in 0..p
<1> DEFINE S == {0} \cup {i + 1 : i \in {j \in 0..p - 1 : buf[j] \in {NL, "\r"}}}
<1>1. S \subseteq 0..p /\ S # {}
  OBVIOUS
<1>2. BolOf(p) = Max(S)
  BY DEF BolOf
<1> QED
  BY <1>1, <1>2, GreatestIs

LEMMA EolOfType ==
    ASSUME TextHolds(buf, cur), NEW p \in 0..TextEnd
    PROVE  EolOf(p) \in p..TextEnd
<1>1. TextEnd \in Nat /\ buf[TextEnd] = NUL
  BY TextEndIs, Constants DEF Memory
<1> DEFINE S == {i \in p..TextEnd : buf[i] \in {NL, "\r", NUL}}
<1>2. S \subseteq Nat /\ TextEnd \in S
  BY <1>1
<1>3. Min(S) \in S
  BY <1>2, LeastIs
<1> QED
  BY <1>3 DEF EolOf

LEMMA AlongType ==
    ASSUME TextHolds(buf, cur), NEW p \in 0..TextEnd, NEW column \in Nat
    PROVE  Along(p, column) \in 0..TextEnd
<1>1. TextEnd \in Nat
  BY TextEndIs, Constants DEF Memory
<1>2. EolOf(p) \in p..TextEnd
  BY EolOfType
<1> QED
  BY <1>1, <1>2 DEF Along

LEMMA BehindType ==
    ASSUME TextHolds(buf, cur), NEW e \in 0..TextEnd
    PROVE  Behind(e) \in 0..TextEnd
<1>1. TextEnd \in Nat /\ buf[TextEnd] = NUL
  BY TextEndIs, Constants DEF Memory
<1>2. buf[e] # NUL => e + 1 \in 0..TextEnd
  BY <1>1
<1>3. ASSUME buf[e] # NUL, buf[e + 1] = NL PROVE e + 2 \in 0..TextEnd
  <2>1. PICK f \in 0..TextEnd : f = e + 1
    BY <1>2, <1>3
  <2>2. buf[f] # NUL
    BY <1>3, <2>1, LettersAre
  <2>3. f # TextEnd
    BY <1>1, <2>2
  <2> QED
    BY <1>1, <2>1, <2>3
<1>4. "\r" # NUL
  BY DEF NUL
<1>5. CASE buf[e] = NUL
  BY <1>4, <1>5 DEF Behind
<1>6. CASE buf[e] = "\r" /\ buf[e + 1] = NL
  BY <1>3, <1>4, <1>6 DEF Behind
<1>7. CASE buf[e] # NUL /\ ~(buf[e] = "\r" /\ buf[e + 1] = NL)
  BY <1>2, <1>7 DEF Behind
<1> QED
  BY <1>5, <1>6, <1>7

LEMMA MatchingType ==
    ASSUME TextHolds(buf, cur), NEW w
    PROVE  Matching(w) \subseteq 0..TextEnd /\ Matching(w) \subseteq Nat
<1>1. TextEnd \in Nat
  BY TextEndIs, Constants DEF Memory
<1> QED
  BY <1>1 DEF Matching

\* The pages: sixteen lines up, sixteen lines down.
LEMMA PageUpGoes ==
    ASSUME TextHolds(buf, cur)
    PROVE  \E t :
           /\ t[PageLines] = (LET after[n \in 0..PageLines] ==
                                       IF n = 0 THEN BolOf(cur)
                                       ELSE IF after[n - 1] = 0 THEN 0 ELSE BolOf(after[n - 1] - 1) IN
                               after[PageLines])
           /\ t[0] = BolOf(cur) /\ \A i \in 0 + 1..PageLines : t[i] = IF t[i - 1] = 0 THEN 0 ELSE BolOf(t[i - 1] - 1)
           /\ \A i \in 0..PageLines : t[i] \in 0..TextEnd
<1> DEFINE m == PageLines  R == 0..TextEnd  s == BolOf(cur)
           Go(p) == IF p = 0 THEN 0 ELSE BolOf(p - 1)
           t == CHOOSE w : w = [n \in 0..m |-> IF n = 0 THEN BolOf(cur)
                                               ELSE IF w[n - 1] = 0 THEN 0 ELSE BolOf(w[n - 1] - 1)]
           step == [p \in R \X (0 + 1..m) |-> Go(p[1])]
<1>1. m \in Nat \ {0} /\ TextEnd \in Nat /\ cur \in R
  BY TextEndIs, Constants DEF Memory
<1>2. s \in R /\ \A p \in R : Go(p) \in R
  <2>1. s \in 0..cur
    BY <1>1, BolOfType
  <2>2. ASSUME NEW p \in R, p # 0 PROVE BolOf(p - 1) \in R
    <3>1. p - 1 \in Nat
      BY <1>1, <2>2
    <3>2. BolOf(p - 1) \in 0..p - 1
      BY <3>1, BolOfType
    <3> QED
      BY <1>1, <3>1, <3>2
  <2> QED
    BY <1>1, <2>1, <2>2
<1> HIDE DEF m, s
<1>3. step \in [R \X (0 + 1..m) -> R] /\ \A p \in R, i \in 0 + 1..m : step[<<p, i>>] = Go(p)
  BY <1>2
<1> HIDE DEF step, R, Go
<1>4. PICK w : IsIterate(w, R, 0, m, s, step)
  BY <1>1, <1>2, <1>3, Iterates, 0 \in Nat
<1>5. w = [n \in 0..m |-> IF n = 0 THEN s ELSE Go(w[n - 1])]
  <2>0. w \in [0..m -> R] /\ \A i \in 0..m : w[i] = IF i = 0 THEN s ELSE step[<<w[i - 1], i>>]
    BY <1>4 DEF IsIterate
  <2>1. \A i \in 0..m : i # 0 => i \in 0 + 1..m /\ w[i - 1] \in R
    BY <1>1, <2>0
  <2>2. \A i \in 0..m : i # 0 => step[<<w[i - 1], i>>] = Go(w[i - 1])
    BY <1>3, <2>1
  <2> QED
    BY <2>0, <2>2
<1>6. t = [n \in 0..m |-> IF n = 0 THEN s ELSE Go(t[n - 1])]
  BY <1>5 DEF Go, s
<1>7. /\ t[0] = s /\ \A i \in 0 + 1..m : t[i] = Go(t[i - 1])
      /\ \A i \in 0..m : t[i] \in R
  <2> HIDE DEF t
  <2>1. t[0] = s /\ \A i \in 0 + 1..m : t[i] = Go(t[i - 1])
    <3>1. \A i \in 0 + 1..m : i \in 0..m /\ i # 0
      BY <1>1
    <3>2. 0 \in 0..m
      BY <1>1
    <3>3. \A n \in 0..m : t[n] = IF n = 0 THEN s ELSE Go(t[n - 1])
      BY <1>6
    <3> QED
      BY <3>1, <3>2, <3>3
  <2>2. \A i \in 0 + 1..m : t[i - 1] \in R => t[i] \in R
    BY <1>2, <2>1
  <2>3. \A i \in 0..m : t[i] \in R
    BY <1>1, <1>2, <2>1, <2>2, Stays, 0 \in Nat
  <2> QED
    BY <2>1, <2>3
<1> QED
  BY <1>7 DEF R, m, Go, s

LEMMA PageUpType ==
    ASSUME TextHolds(buf, cur)
    PROVE  LET after[n \in 0..PageLines] ==
                   IF n = 0 THEN BolOf(cur)
                   ELSE IF after[n - 1] = 0 THEN 0 ELSE BolOf(after[n - 1] - 1) IN
           after[PageLines] \in 0..TextEnd
<1>1. PICK t : /\ t[PageLines] = (LET after[n \in 0..PageLines] ==
                                       IF n = 0 THEN BolOf(cur)
                                       ELSE IF after[n - 1] = 0 THEN 0 ELSE BolOf(after[n - 1] - 1) IN
                               after[PageLines])
               /\ \A i \in 0..PageLines : t[i] \in 0..TextEnd
  BY PageUpGoes
<1>2. PageLines \in 0..PageLines
  BY Constants
<1> QED
  BY <1>1, <1>2

LEMMA PageDownGoes ==
    ASSUME TextHolds(buf, cur)
    PROVE  \E t :
           /\ t[PageLines] = (LET after[n \in 0..PageLines] == IF n = 0 THEN cur ELSE Behind(EolOf(after[n - 1])) IN
                               after[PageLines])
           /\ t[0] = cur /\ \A i \in 0 + 1..PageLines : t[i] = Behind(EolOf(t[i - 1]))
           /\ \A i \in 0..PageLines : t[i] \in 0..TextEnd
<1> DEFINE m == PageLines  R == 0..TextEnd
           Go(p) == Behind(EolOf(p))
           t == CHOOSE w : w = [n \in 0..m |-> IF n = 0 THEN cur ELSE Behind(EolOf(w[n - 1]))]
           step == [p \in R \X (0 + 1..m) |-> Go(p[1])]
<1>1. m \in Nat \ {0} /\ TextEnd \in Nat /\ cur \in R
  BY TextEndIs, Constants DEF Memory
<1>2. \A p \in R : Go(p) \in R
  <2> SUFFICES ASSUME NEW p \in R PROVE Go(p) \in R
    OBVIOUS
  <2>1. EolOf(p) \in p..TextEnd
    BY EolOfType
  <2>2. EolOf(p) \in R
    BY <1>1, <2>1
  <2> QED
    BY <2>2, BehindType
<1> HIDE DEF m
<1>3. step \in [R \X (0 + 1..m) -> R] /\ \A p \in R, i \in 0 + 1..m : step[<<p, i>>] = Go(p)
  BY <1>2
<1> HIDE DEF step, R, Go
<1>4. PICK w : IsIterate(w, R, 0, m, cur, step)
  BY <1>1, <1>2, <1>3, Iterates, 0 \in Nat
<1>5. w = [n \in 0..m |-> IF n = 0 THEN cur ELSE Go(w[n - 1])]
  <2>0. w \in [0..m -> R] /\ \A i \in 0..m : w[i] = IF i = 0 THEN cur ELSE step[<<w[i - 1], i>>]
    BY <1>4 DEF IsIterate
  <2>1. \A i \in 0..m : i # 0 => i \in 0 + 1..m /\ w[i - 1] \in R
    BY <1>1, <2>0
  <2>2. \A i \in 0..m : i # 0 => step[<<w[i - 1], i>>] = Go(w[i - 1])
    BY <1>3, <2>1
  <2> QED
    BY <2>0, <2>2
<1>6. t = [n \in 0..m |-> IF n = 0 THEN cur ELSE Go(t[n - 1])]
  BY <1>5 DEF Go
<1>7. /\ t[0] = cur /\ \A i \in 0 + 1..m : t[i] = Go(t[i - 1])
      /\ \A i \in 0..m : t[i] \in R
  <2> HIDE DEF t
  <2>1. t[0] = cur /\ \A i \in 0 + 1..m : t[i] = Go(t[i - 1])
    <3>1. \A i \in 0 + 1..m : i \in 0..m /\ i # 0
      BY <1>1
    <3>2. 0 \in 0..m
      BY <1>1
    <3>3. \A n \in 0..m : t[n] = IF n = 0 THEN cur ELSE Go(t[n - 1])
      BY <1>6
    <3> QED
      BY <3>1, <3>2, <3>3
  <2>2. \A i \in 0 + 1..m : t[i - 1] \in R => t[i] \in R
    BY <1>2, <2>1
  <2>3. \A i \in 0..m : t[i] \in R
    BY <1>1, <1>2, <2>1, <2>2, Stays, 0 \in Nat
  <2> QED
    BY <2>1, <2>3
<1> QED
  BY <1>7 DEF R, m, Go

LEMMA PageDownType ==
    ASSUME TextHolds(buf, cur)
    PROVE  LET after[n \in 0..PageLines] == IF n = 0 THEN cur ELSE Behind(EolOf(after[n - 1])) IN
           after[PageLines] \in 0..TextEnd
<1>1. PICK t : /\ t[PageLines] = (LET after[n \in 0..PageLines] == IF n = 0 THEN cur ELSE Behind(EolOf(after[n - 1])) IN
                               after[PageLines])
               /\ \A i \in 0..PageLines : t[i] \in 0..TextEnd
  BY PageDownGoes
<1>2. PageLines \in 0..PageLines
  BY Constants
<1> QED
  BY <1>1, <1>2
-----------------------------------------------------------------------------
(***************************************************************************)
(* Line, column and top line.                                              *)
(***************************************************************************)
\* The newlines before position c of buffer b.
EndsIn(b, c) == {i \in 0..c - 1 : b[i] = NL}
Column(b, c) == IF EndsIn(b, c) = {} THEN 1 + c ELSE c - Max(EndsIn(b, c))

Counts(b, c, l, k) == l = (1 + Cardinality(EndsIn(b, c))) % Wide /\ k = Column(b, c) % Wide
Views(l, t) == t \in 0..Wide - 1 /\ (2 * Height <= Wide => l \in t..t + Height - 1)

LEMMA EndsInType ==
    ASSUME NEW b, NEW c \in Nat
    PROVE  /\ IsFiniteSet(EndsIn(b, c)) /\ Cardinality(EndsIn(b, c)) \in Nat
           /\ Column(b, c) \in Nat
           /\ EndsIn(b, c) # {} => Max(EndsIn(b, c)) \in EndsIn(b, c) /\ \A i \in EndsIn(b, c) : i <= Max(EndsIn(b, c))
<1>1. EndsIn(b, c) \subseteq 0..c - 1 /\ c - 1 \in Int /\ EndsIn(b, c) \subseteq 0..c
  BY DEF EndsIn
<1>2. IsFiniteSet(0..c - 1)
  BY <1>1, FS_Interval
<1>3. IsFiniteSet(EndsIn(b, c))
  BY <1>1, <1>2, FS_Subset
<1>4. Cardinality(EndsIn(b, c)) \in Nat
  BY <1>3, FS_CardinalityType
<1>5. EndsIn(b, c) # {} => Max(EndsIn(b, c)) \in EndsIn(b, c) /\ \A i \in EndsIn(b, c) : i <= Max(EndsIn(b, c))
  BY <1>1, GreatestIs
<1>6. Column(b, c) \in Nat
  BY <1>1, <1>5 DEF Column
<1> QED
  BY <1>3, <1>4, <1>5, <1>6

\* The viewport follows the line, on a screen of at most half the lines that
\* a byte counts.
LEMMA ScrolledViews ==
    ASSUME top \in 0..Wide - 1, NEW l \in 0..Wide - 1
    PROVE  Views(l, Scrolled(l))
<1>1. Wide \in Nat \ {0} /\ Height \in Nat /\ Height >= 2 /\ Height < Wide
  BY Constants
<1> DEFINE m == (top + Height) % Wide
<1>2. m \in 0..Wide - 1 /\ m <= top + Height /\ (top + Height < Wide => m = top + Height)
  <2>1. PICK n \in Nat : n = top + Height
    BY <1>1
  <2>5. n % Wide \in 0..Wide - 1
    BY <1>1, n \in Int, ModType
  <2>2. n % Wide \in 0..Wide - 1 /\ n % Wide <= n /\ n \in Int
    BY <1>1, <2>5, ModLess
  <2>3. n < Wide => n \in 0..Wide - 1
    BY <1>1
  <2>4. n < Wide => n % Wide = n
    BY <1>1, <2>3, ModSmall
  <2> QED
    BY <2>1, <2>2, <2>4
<1> HIDE DEF m
<1>3. CASE l < top
  BY <1>1, <1>3 DEF Scrolled, Views
<1>4. CASE ~(l < top) /\ l < m
  <2>1. Scrolled(l) = top
    BY <1>4 DEF Scrolled, m
  <2> QED
    BY <1>1, <1>2, <1>4, <2>1 DEF Views
<1>5. CASE ~(l < top) /\ ~(l < m) /\ l >= Height
  <2>1. Scrolled(l) = (l - Height + 2) % Wide
    BY <1>5 DEF Scrolled, m
  <2>2. l - Height + 2 \in 0..Wide - 1
    BY <1>1, <1>5
  <2>3. Scrolled(l) = l - Height + 2
    BY <1>1, <2>1, <2>2, ModSmall
  <2> QED
    BY <1>1, <2>2, <2>3 DEF Views
<1>6. CASE ~(l < top) /\ ~(l < m) /\ l < Height
  <2>1. Scrolled(l) = (l - Height + 1) % Wide
    BY <1>1, <1>6 DEF Scrolled, m
  <2>2. Scrolled(l) \in 0..Wide - 1
    BY <1>1, <2>1, ModType
  <2>3. ASSUME 2 * Height <= Wide PROVE l = Height - 1
    BY <1>1, <1>2, <1>6, <2>3
  <2>4. ASSUME 2 * Height <= Wide PROVE Scrolled(l) = 0
    <3>1. l - Height + 1 = 0
      BY <1>1, <2>3, <2>4
    <3> QED
      BY <1>1, <2>1, <3>1, ModSmall
  <2> QED
    BY <1>1, <2>2, <2>3, <2>4 DEF Views
<1> QED
  BY <1>1, <1>2, <1>3, <1>4, <1>5, <1>6

LEMMA LoopCounts ==
    ASSUME top \in 0..Wide - 1, TextHolds(buf', cur'), LoopContinue
    PROVE  Counts(buf', cur', line', col') /\ Views(line', top')
<1>1. cur' \in Nat /\ Wide \in Nat \ {0}
  <2>1. cur' \in Memory
    BY DEF TextHolds
  <2> QED
    BY <2>1, Constants DEF Memory
<1>2. Counts(buf', cur', line', col')
  BY DEF LoopContinue, Counts, Column, EndsIn
<1>3. line' \in 0..Wide - 1
  <2>1. Cardinality(EndsIn(buf', cur')) \in Nat
    BY <1>1, EndsInType
  <2>2. PICK n \in Int : n = 1 + Cardinality(EndsIn(buf', cur'))
    BY <2>1
  <2>3. line' = n % Wide
    BY <1>2, <2>2 DEF Counts
  <2> QED
    BY <1>1, <2>3, ModType
<1>4. top' = Scrolled(line')
  BY DEF LoopContinue
<1> QED
  BY <1>2, <1>3, <1>4, ScrolledViews

\* Typed on, without counting.
LEMMA TypeCounts ==
    ASSUME TextHolds(buf, cur), Counts(buf, cur, line, col), NEW c \in Letters, Type(c)
    PROVE  TextHolds(buf', cur') /\ Counts(buf', cur', line', col')
<1>1. c # NL /\ c # NUL
  BY LettersAre
<1>2. buf' = Inserted(c) /\ cur' = cur + 1 /\ col' = (col + 1) % Wide /\ line' = line /\ Room
  BY DEF Type
<1>3. TextHolds(buf', cur') /\ buf'[cur] = c /\ \A i \in 0..cur - 1 : buf'[i] = buf[i]
  BY <1>1, <1>2, InsertedHolds
<1>4. cur \in Nat /\ Wide \in Nat \ {0}
  <2>1. cur \in Memory
    BY DEF TextHolds
  <2> QED
    BY <2>1, Constants DEF Memory
<1>5. EndsIn(buf', cur') = EndsIn(buf, cur)
  <2>1. \A i \in 0..(cur + 1) - 1 : i = cur \/ i \in 0..cur - 1
    BY <1>4
  <2>2. \A i \in 0..cur - 1 : i \in 0..(cur + 1) - 1
    BY <1>4
  <2> QED
    BY <1>1, <1>2, <1>3, <2>1, <2>2 DEF EndsIn
<1>6. Column(buf', cur') = Column(buf, cur) + 1 /\ Column(buf, cur) \in Nat
  <2>1. Column(buf, cur) \in Nat
    BY <1>4, EndsInType
  <2>2. Column(buf, cur) = IF EndsIn(buf, cur) = {} THEN 1 + cur ELSE cur - Max(EndsIn(buf, cur))
    BY DEF Column
  <2>3. Column(buf', cur') = IF EndsIn(buf, cur) = {} THEN 1 + (cur + 1) ELSE (cur + 1) - Max(EndsIn(buf, cur))
    BY <1>2, <1>5 DEF Column
  <2>4. EndsIn(buf, cur) # {} => Max(EndsIn(buf, cur)) \in Int
    <3>1. EndsIn(buf, cur) \subseteq Int
      BY <1>4 DEF EndsIn
    <3> QED
      BY <1>4, <3>1, EndsInType
  <2> QED
    BY <1>4, <2>1, <2>2, <2>3, <2>4
<1>7. (Column(buf, cur) + 1) % Wide = ((Column(buf, cur) % Wide) + 1) % Wide
  BY <1>4, <1>6, ModNext
<1> QED
  BY <1>2, <1>3, <1>5, <1>6, <1>7 DEF Counts
-----------------------------------------------------------------------------
(***************************************************************************)
(* The steps.                                                              *)
(***************************************************************************)
Loading ==
    /\ tpc \in {"wopen", "wread", "wclose"} => cur = 0
    /\ tpc = "wopen" => fname = 1
    /\ tpc \in {"wopen", "wread"} => HoldTexts({store})
    /\ tpc = "wread" =>
          /\ fds[handles[1]].file \in {1, 2} /\ fds[handles[1]].pos \in Nat
          /\ size \in 0..EditBuf - 1 /\ kept \in 0..size

Edited == EditHolding /\ TextHolds(buf, cur) /\ Counts(buf, cur, line, col) /\ Views(line, top) /\ Loading

\* A command of WRITE while the buffer is edited.
LEMMA KeyEdits ==
    ASSUME Edited, NEW b, NEW c, Key(b, c), TextHolds(b, c)
    PROVE  TextHolds(buf', cur') /\ Counts(buf', cur', line', col') /\ Views(line', top') /\ Loading'
<1>1. buf' = b /\ cur' = c /\ LoopContinue /\ tpc' = "edit"
  BY DEF Key, Pressed, At
<1>2. top \in 0..Wide - 1
  BY DEF Edited, Views
<1> QED
  BY <1>1, <1>2, LoopCounts DEF Loading

LEMMA KeysEdit ==
    ASSUME Edited,
           \/ Enter \/ Tab \/ Backspace \/ Delete \/ Left \/ Right \/ Up \/ Down
           \/ Home \/ ToEnd \/ PageUp \/ PageDown \/ \E w \in Searches : Find(w)
    PROVE  TextHolds(buf', cur') /\ Counts(buf', cur', line', col') /\ Views(line', top') /\ Loading'
<1>0. TextHolds(buf, cur)
  BY DEF Edited
<1>1. /\ TextEnd \in Nat /\ cur \in 0..TextEnd /\ buf[TextEnd] = NUL /\ \A i \in 0..TextEnd - 1 : buf[i] # NUL
  <2>1. TextEnd \in Memory /\ buf[TextEnd] = NUL /\ cur \in 0..TextEnd /\ \A i \in 0..TextEnd - 1 : buf[i] # NUL
    BY <1>0, TextEndIs
  <2> QED
    BY <2>1, Constants DEF Memory
<1> DEFINE Good == TextHolds(buf', cur') /\ Counts(buf', cur', line', col') /\ Views(line', top') /\ Loading'
<1>2. ASSUME NEW c \in 0..TextEnd, MovesTo(c) PROVE Good
  BY <1>0, <1>2, AnywhereHolds, KeyEdits DEF MovesTo
<1>3. ASSUME NEW b, NEW c, Key(b, c), TextHolds(b, c) PROVE Good
  BY <1>3, KeyEdits
<1>4. CASE Enter
  BY <1>0, <1>3, <1>4, InsertedHolds, LettersAre DEF Enter
<1>5. CASE Tab
  BY <1>0, <1>3, <1>5, InsertedHolds, LettersAre DEF Tab
<1>6. CASE Backspace
  <2>1. CASE cur = 0
    BY <1>1, <1>2, <1>6, <2>1 DEF Backspace
  <2>2. CASE cur # 0
    <3>1. cur - 1 \in 0..cur
      BY <1>1, <2>2
    <3>2. TextHolds(Removed(cur - 1), cur - 1)
      BY <1>0, <3>1, RemovedHolds
    <3> QED
      BY <1>3, <1>6, <2>2, <3>2 DEF Backspace
  <2> QED
    BY <2>1, <2>2
<1>7. CASE Delete
  <2>1. cur \in 0..cur
    BY <1>1
  <2>2. TextHolds(Removed(cur), cur)
    BY <1>0, <2>1, RemovedHolds
  <2> QED
    BY <1>3, <1>7, <2>2 DEF Delete
<1>8. CASE Left
  BY <1>1, <1>2, <1>8 DEF Left
<1>9. CASE Right
  <2>1. buf[cur] # NUL => cur + 1 \in 0..TextEnd
    BY <1>1
  <2> QED
    BY <1>1, <1>2, <1>9, <2>1 DEF Right
<1>10. BolOf(cur) \in 0..cur /\ BolOf(cur) \in 0..TextEnd
  <2>1. BolOf(cur) \in 0..cur
    BY <1>1, BolOfType
  <2> QED
    BY <1>1, <2>1
<1>11. EolOf(cur) \in 0..TextEnd
  <2>1. EolOf(cur) \in cur..TextEnd
    BY <1>0, <1>1, EolOfType
  <2> QED
    BY <1>1, <2>1
<1>12. CASE Home
  BY <1>2, <1>10, <1>12 DEF Home
<1>13. CASE ToEnd
  BY <1>2, <1>11, <1>13 DEF ToEnd
<1>14. CASE Up
  <2>1. PICK bol \in 0..TextEnd : bol = BolOf(cur) /\ bol <= cur
    BY <1>1, <1>10
  <2>2. Up => MovesTo(IF bol = 0 THEN 0 ELSE Along(BolOf(bol - 1), cur - bol))
    BY <2>1 DEF Up
  <2>3. CASE bol = 0
    BY <1>1, <1>2, <1>14, <2>2, <2>3
  <2>4. CASE bol # 0
    <3>1. bol - 1 \in Nat /\ cur - bol \in Nat
      BY <1>1, <2>1, <2>4
    <3>2. BolOf(bol - 1) \in 0..bol - 1
      BY <3>1, BolOfType
    <3>3. BolOf(bol - 1) \in 0..TextEnd
      BY <1>1, <3>1, <3>2
    <3>4. Along(BolOf(bol - 1), cur - bol) \in 0..TextEnd
      BY <1>0, <3>1, <3>3, AlongType
    <3> QED
      BY <1>2, <1>14, <2>2, <2>4, <3>4
  <2> QED
    BY <2>3, <2>4
<1>15. CASE Down
  <2>1. PICK e \in 0..TextEnd : e = EolOf(cur)
    BY <1>11
  <2>2. MovesTo(IF buf[e] = NUL \/ (buf[e] = "\r" /\ buf[e + 1] # NL) THEN Behind(e)
                ELSE Along(Behind(e), cur - BolOf(cur)))
    BY <1>15, <2>1 DEF Down
  <2>3. Behind(e) \in 0..TextEnd
    BY <1>0, BehindType
  <2>4. cur - BolOf(cur) \in Nat
    BY <1>1, <1>10
  <2>5. Along(Behind(e), cur - BolOf(cur)) \in 0..TextEnd
    BY <1>0, <2>3, <2>4, AlongType
  <2> QED
    BY <1>2, <2>2, <2>3, <2>5
<1>16. CASE PageUp
  BY <1>0, <1>2, <1>16, PageUpType DEF PageUp
<1>17. CASE PageDown
  BY <1>0, <1>2, <1>17, PageDownType DEF PageDown
<1>18. CASE \E w \in Searches : Find(w)
  <2>1. PICK w \in Searches : Find(w)
    BY <1>18
  <2> DEFINE m == Matching(w)  ahead == {i \in m : i >= cur}
  <2>2. MovesTo(IF ahead # {} THEN Min(ahead) ELSE IF m # {} THEN Min(m) ELSE cur)
    BY <2>1 DEF Find
  <2>3. m \subseteq 0..TextEnd /\ m \subseteq Nat
    BY <1>0, MatchingType
  <2> HIDE DEF m
  <2>4. ahead # {} => Min(ahead) \in ahead
    BY <2>3, LeastIs, ahead \subseteq Nat
  <2>5. m # {} => Min(m) \in m
    BY <2>3, LeastIs
  <2> QED
    BY <1>1, <1>2, <2>2, <2>3, <2>4, <2>5
<1> QED
  BY <1>4, <1>5, <1>6, <1>7, <1>8, <1>9, <1>12, <1>13, <1>14, <1>15, <1>16, <1>17, <1>18

\* A part of a file has no more bytes than were asked for.
LEMMA SliceType ==
    ASSUME NEW B, NEW s \in Seq(B), NEW p \in Nat, NEW n \in Nat
    PROVE  Store!Slice(s, p, n) \in Seq(B) /\ Len(Store!Slice(s, p, n)) <= n
<1>1. PICK a \in Nat, b \in Nat : a = p + 1 /\ b = Store!Smaller(Len(s), p + n) /\ 1 <= a /\ b <= Len(s) /\ b <= p + n
  <2>1. p + 1 \in Nat /\ Store!Smaller(Len(s), p + n) \in Nat /\ Store!Smaller(Len(s), p + n) <= Len(s)
        /\ Store!Smaller(Len(s), p + n) <= p + n /\ 1 <= p + 1
    BY DEF Store!Smaller
  <2> QED
    BY <2>1
<1>2. SubSeq(s, a, b) \in Seq(B) /\ Len(SubSeq(s, a, b)) = IF a <= b THEN b - a + 1 ELSE 0
  BY <1>1, PartIs
<1>3. (IF a <= b THEN b - a + 1 ELSE 0) <= n
  BY <1>1
<1> QED
  BY <1>1, <1>2, <1>3 DEF Store!Slice

LEMMA LoadOpenEdits == Edited /\ LoadOpen => Loading'
<1> SUFFICES ASSUME Edited, LoadOpen PROVE Loading'
  OBVIOUS
<1>1. cur' = cur /\ cur = 0 /\ fname = 1 /\ HoldTexts({store}) /\ DOMAIN fds = {0, 1}
  BY DEF Edited, LoadOpen, At, Loading, editVars, text, EditHolding, Holding
<1>2. CASE Fails("open") /\ tpc' = "edit"
  BY <1>2 DEF Loading
<1>3. ASSUME NEW h \in {0, 1}, Store!Open(fname, "rw", h), handles' = <<h>>,
             LET length == reply'.data[2] % (Wide * Wide) IN
             size' = IF length >= EditBuf THEN EditBuf - 1 ELSE length,
             kept' = size', tpc' = IF kept' = 0 THEN "wclose" ELSE "wread"
      PROVE  Loading'
  <2>1. reply'.data[2] = Len(store[1]) /\ fds'[h] = [st |-> "rw", file |-> 1, pos |-> 0] /\ store' = store
    BY <1>1, <1>3 DEF Store!Open, Store!Answered
  <2>2. Len(store[1]) \in Nat
    <3>1. store[1] \in Seq(Range(store[1]))
      BY <1>1 DEF HoldTexts
    <3> QED
      BY <3>1
  <2>3. PICK w : w = Wide * Wide
    OBVIOUS
  <2>4. w \in Nat \ {0}
    <3>1. Wide \in Nat /\ Wide >= 1
      BY Constants
    <3>2. Wide * Wide >= 1 /\ Wide * Wide \in Nat
      BY <3>1
    <3> QED
      BY <2>3, <3>2
  <2>5. PICK n : n = Len(store[1]) % w
    OBVIOUS
  <2>6. n \in 0..w - 1
    BY <2>2, <2>4, <2>5, ModType, Len(store[1]) \in Int
  <2>7. size' = IF n >= EditBuf THEN EditBuf - 1 ELSE n
    BY <1>3, <2>1, <2>3, <2>5
  <2>8. size' \in 0..EditBuf - 1
    BY <2>4, <2>6, <2>7, Constants
  <2>9. kept' \in 0..size'
    BY <1>3, <2>8
  <2>10. cur' = 0 /\ tpc' \in {"wclose", "wread"} /\ HoldTexts({store'})
    BY <1>1, <1>3, <2>1
  <2>11. handles'[1] = h /\ fds'[h].file = 1 /\ fds'[h].pos = 0
    BY <1>3, <2>1
  <2> QED
    BY <2>8, <2>9, <2>10, <2>11 DEF Loading, HoldTexts
<1> QED
  BY <1>2, <1>3 DEF LoadOpen

\* What a READ gives and does.
LEMMA ReadGives ==
    ASSUME Holding, NEW h \in {0, 1}, NEW n, Reads(h, n)
    PROVE  /\ reply'.data = Store!Slice(store[fds[h].file], fds[h].pos, n) /\ store' = store
           /\ fds'[h].file = fds[h].file /\ fds'[h].pos = fds[h].pos + Len(reply'.data)
<1>1. PICK d : d = reply'.data
  OBVIOUS
<1>2. Store!Read(h, n) /\ d = Store!Slice(store[fds[h].file], fds[h].pos, n)
  BY <1>1 DEF Reads
<1>3. PICK m \in 0..n : LET e == Store!Slice(store[fds[h].file], fds[h].pos, m) IN
             /\ Store!Answered("read", <<h, n>>, Store!OK, e)
             /\ Store!MoveTo(h, fds[h].pos + Len(e))
  BY <1>2 DEF Store!Read
<1>4. Store!Slice(store[fds[h].file], fds[h].pos, m) = d
  BY <1>1, <1>3 DEF Store!Answered
<1>5. Store!MoveTo(h, fds[h].pos + Len(d))
  BY <1>3, <1>4, Zenon
<1>6. fds' = [fds EXCEPT ![h] = [st |-> fds[h].st, file |-> fds[h].file, pos |-> fds[h].pos + Len(d)]]
  BY <1>5, Zenon DEF Store!MoveTo
<1>7. h \in DOMAIN fds
  BY DEF Holding
<1>8. store' = store
  BY <1>2 DEF Store!Read
<1> QED
  BY <1>1, <1>2, <1>6, <1>7, <1>8

LEMMA LoadReadEdits == Edited /\ LoadRead => TextHolds(buf', cur') /\ Loading'
<1> SUFFICES ASSUME Edited, LoadRead PROVE TextHolds(buf', cur') /\ Loading'
  OBVIOUS
<1> DEFINE h == handles[1]  n == IF kept < EditChunk THEN kept ELSE EditChunk
<1>1. /\ cur' = cur /\ cur = 0 /\ HoldTexts({store}) /\ DOMAIN fds = {0, 1} /\ TextHolds(buf, cur)
      /\ fds[h].file \in {1, 2} /\ fds[h].pos \in Nat /\ size \in 0..EditBuf - 1 /\ kept \in 0..size
      /\ handles' = handles /\ size' = size /\ tpc = "wread"
  BY DEF Edited, LoadRead, At, Loading, EditHolding, Holding
<1>2. CASE Fails("read") /\ tpc' = "wclose" /\ UNCHANGED <<kept, buf>>
  BY <1>1, <1>2 DEF Loading
<1>3. ASSUME Reads(handles[1], n),
             LET from == size - kept  d == reply'.data IN
             buf' = [i \in Memory |-> IF i - from + 1 \in DOMAIN d THEN d[i - from + 1] ELSE buf[i]],
             kept' = kept - Len(reply'.data), tpc' = IF kept' = 0 THEN "wclose" ELSE "wread"
      PROVE  TextHolds(buf', cur') /\ Loading'
  <2>0. EditChunk \in Nat /\ EditBuf \in Nat \ {0}
    BY Constants
  <2>1. n \in Nat /\ n <= kept
    BY <1>1, <2>0
  <2>2. h \in {0, 1}
    <3>1. Len(handles) = 1 /\ handles \in Hands
      BY <1>1 DEF Edited, EditHolding, EditHands, Holding
    <3>2. PICK k \in {0, 1} : handles = <<k>>
      BY <3>1, FewHands
    <3> QED
      BY <3>2
  <2>16. Reads(h, n) /\ kept' = kept - Len(reply'.data)
    BY <1>3
  <2> HIDE DEF n, h
  <2>3. PICK d : d = reply'.data
    OBVIOUS
  <2>4. /\ d = Store!Slice(store[fds[h].file], fds[h].pos, n) /\ store' = store
        /\ fds'[h].file = fds[h].file /\ fds'[h].pos = fds[h].pos + Len(d)
    BY <2>2, <2>3, <2>16, ReadGives DEF Edited, EditHolding
  <2>5. store[fds[h].file] \in Seq(Range(store[fds[h].file]))
    BY <1>1 DEF HoldTexts, h
  <2>6. d \in Seq(Range(store[fds[h].file])) /\ Len(d) <= n
    BY <1>1, <2>1, <2>4, <2>5, SliceType DEF h
  <2>7. Len(d) \in Nat /\ DOMAIN d = 1..Len(d)
    BY <2>6
  <2>9. buf' = [i \in Memory |-> IF i - (size - kept) + 1 \in DOMAIN d THEN d[i - (size - kept) + 1] ELSE buf[i]]
    BY <1>3, <2>3
  <2>10. EditBuf - 1 \in Memory /\ (EditBuf - 1) - (size - kept) + 1 \notin DOMAIN d
    BY <1>1, <2>0, <2>1, <2>6, <2>7 DEF Memory
  <2>11. buf' = [i \in Memory |-> buf'[i]] /\ buf'[EditBuf - 1] = NUL
    BY <1>1, <2>9, <2>10 DEF TextHolds
  <2>12. TextHolds(buf', cur')
    BY <1>1, <2>11 DEF TextHolds
  <2>13. kept' \in 0..size' /\ size' \in 0..EditBuf - 1
    BY <1>1, <1>3, <2>1, <2>3, <2>6, <2>7
  <2>14. fds'[handles'[1]].file \in {1, 2} /\ fds'[handles'[1]].pos \in Nat
    <3>1. handles'[1] = h
      BY <1>1 DEF h
    <3> QED
      BY <1>1, <2>4, <2>7, <3>1 DEF h
  <2>15. cur' = 0 /\ tpc' \in {"wclose", "wread"} /\ HoldTexts({store'})
    BY <1>1, <1>3, <2>4
  <2> QED
    BY <2>12, <2>13, <2>14, <2>15 DEF Loading, HoldTexts
<1> QED
  BY <1>2, <1>3 DEF LoadRead

LEMMA EditedStep == Edited /\ [EditNext]_<<toolVars, editVars>> => Edited'
<1> SUFFICES ASSUME Edited, [EditNext]_<<toolVars, editVars>> PROVE Edited'
  OBVIOUS
<1> DEFINE Good == TextHolds(buf', cur') /\ Counts(buf', cur', line', col') /\ Views(line', top') /\ Loading'
<1>0. EditHolding'
  BY EditStepHolds DEF Edited
<1>1. /\ TextHolds(buf, cur) /\ Counts(buf, cur, line, col) /\ Views(line, top) /\ Loading
      /\ top \in 0..Wide - 1
  BY DEF Edited, Views
<1>2. ASSUME UNCHANGED editVars PROVE TextHolds(buf', cur') /\ Counts(buf', cur', line', col') /\ Views(line', top')
  <2>1. buf' = buf /\ cur' = cur /\ line' = line /\ col' = col /\ top' = top
    BY <1>2 DEF editVars, text, shown
  <2> QED
    BY <1>1, <2>1
<1>3. CASE LoadOpen
  <2>1. UNCHANGED editVars
    BY <1>3 DEF LoadOpen
  <2> QED
    BY <1>0, <1>2, <1>3, <2>1, LoadOpenEdits DEF Edited
<1>4. CASE LoadRead
  <2>1. cur' = cur /\ line' = line /\ col' = col /\ top' = top /\ cur = 0
    BY <1>1, <1>4 DEF LoadRead, shown, Loading, At
  <2>2. TextHolds(buf', cur') /\ Loading'
    BY <1>4, LoadReadEdits
  <2>3. EndsIn(buf', 0) = EndsIn(buf, 0)
    BY DEF EndsIn
  <2>4. Counts(buf', cur', line', col')
    BY <1>1, <2>1, <2>3 DEF Counts, Column
  <2>5. Views(line', top')
    BY <1>1, <2>1
  <2> QED
    BY <1>0, <2>2, <2>4, <2>5 DEF Edited
<1>5. CASE LoadClose
  <2>1. UNCHANGED editVars /\ tpc' = "edit"
    BY <1>5 DEF LoadClose
  <2>2. Loading'
    BY <2>1 DEF Loading
  <2> QED
    BY <1>0, <1>2, <2>1, <2>2 DEF Edited
<1>6. CASE \E c \in Letters : Type(c)
  <2>1. PICK c \in Letters : Type(c)
    BY <1>6
  <2>2. TextHolds(buf', cur') /\ Counts(buf', cur', line', col')
    BY <1>1, <2>1, TypeCounts
  <2>3. line' = line /\ top' = top /\ tpc' = "edit"
    BY <2>1 DEF Type, Pressed, At
  <2>4. Views(line', top') /\ Loading'
    BY <1>1, <2>3 DEF Loading
  <2> QED
    BY <1>0, <2>2, <2>4 DEF Edited
<1>7. CASE \/ Enter \/ Tab \/ Backspace \/ Delete \/ Left \/ Right \/ Up \/ Down
           \/ Home \/ ToEnd \/ PageUp \/ PageDown \/ \E w \in Searches : Find(w)
  BY <1>0, <1>7, KeysEdit DEF Edited
<1>8. CASE \E n \in {0, 1, 2} : SaveAs(n) \/ SaveAsLeft(n)
  <2>1. UNCHANGED text /\ LoopContinue /\ tpc' = "edit"
    BY <1>8 DEF SaveAs, SaveAsLeft, Pressed, At
  <2>2. TextHolds(buf', cur')
    BY <1>1, <2>1 DEF text
  <2>3. Counts(buf', cur', line', col') /\ Views(line', top')
    BY <1>1, <2>1, <2>2, LoopCounts
  <2>4. Loading'
    BY <2>1 DEF Loading
  <2> QED
    BY <1>0, <2>2, <2>3, <2>4 DEF Edited
<1>9. CASE \E n \in {0, 1, 2} : Exit(n)
  <2>1. UNCHANGED <<text, shown>> /\ tpc' = "done"
    BY <1>9 DEF Exit
  <2>2. buf' = buf /\ cur' = cur /\ line' = line /\ col' = col /\ top' = top
    BY <2>1 DEF text, shown
  <2>3. Loading'
    BY <2>1 DEF Loading
  <2> QED
    BY <1>0, <1>1, <2>2, <2>3 DEF Edited
<1>10. CASE UNCHANGED <<toolVars, editVars>>
  <2>1. UNCHANGED editVars /\ UNCHANGED toolVars
    BY <1>10
  <2>2. tpc' = tpc /\ fname' = fname /\ store' = store /\ fds' = fds /\ handles' = handles
        /\ size' = size /\ kept' = kept /\ cur' = cur
    BY <2>1 DEF toolVars, fileVars, editVars, text
  <2>3. Loading'
    BY <1>1, <2>2 DEF Loading, HoldTexts
  <2> QED
    BY <1>0, <1>2, <2>1, <2>3 DEF Edited
<1> QED
  BY <1>3, <1>4, <1>5, <1>6, <1>7, <1>8, <1>9, <1>10 DEF EditNext

LEMMA EditedInit == EditInit => Edited
<1> SUFFICES ASSUME EditInit PROVE Edited
  OBVIOUS
<1>1. EditHolding
  BY InitHolds DEF EditInit, EditHolding, EditHands
<1>2. Wide \in Nat \ {0} /\ Height \in Nat /\ Height >= 2 /\ Height < Wide /\ EditBuf \in Nat \ {0}
  BY Constants
<1>3. buf = [i \in Memory |-> NUL] /\ cur = 0 /\ line = 1 /\ col = 1 /\ top = 1
  BY DEF EditInit
<1>4. TextHolds(buf, cur)
  BY <1>2, <1>3 DEF TextHolds, Memory
<1>5. EndsIn(buf, cur) = {} /\ Cardinality(EndsIn(buf, cur)) = 0
  <2>1. EndsIn(buf, cur) = {}
    BY <1>3 DEF EndsIn
  <2> QED
    BY <2>1, FS_EmptySet
<1>6. 1 % Wide = 1
  BY <1>2, ModSmall, 1 \in 0..Wide - 1
<1>7. Counts(buf, cur, line, col)
  BY <1>3, <1>5, <1>6 DEF Counts, Column
<1>8. Views(line, top)
  BY <1>2, <1>3 DEF Views
<1>9. Loading
  <2>1. HoldTexts({store})
    <3>1. store \in EditFiles
      BY DEF EditInit
    <3> QED
      BY <3>1, Constants DEF HoldTexts
  <2>2. tpc \in {"edit", "wopen"} /\ (tpc = "wopen" => fname = 1)
    BY DEF EditInit
  <2> QED
    BY <1>3, <2>1, <2>2 DEF Loading
<1> QED
  BY <1>1, <1>4, <1>7, <1>8, <1>9 DEF Edited
-----------------------------------------------------------------------------
\* The lines that start up to the cursor are one more than the newlines before.
LEMMA EditedView == Edited => CursorInView
<1> DEFINE starts == {p \in 0..Len(Text) : p <= cur /\ (p = 0 \/ Text[p] = NL)}
           r == Cardinality(starts)  E == EndsIn(buf, cur)  U == {i + 1 : i \in E}
<1> SUFFICES ASSUME Edited, r < Wide
             PROVE  /\ line = r /\ col = (cur - Max(starts) + 1) % Wide
                    /\ 2 * Height <= Wide => r \in top..top + Height - 1
  BY DEF CursorInView
<1>0. TextHolds(buf, cur) /\ Counts(buf, cur, line, col) /\ Views(line, top)
  BY DEF Edited
<1>1. TextEnd \in Nat /\ cur \in 0..TextEnd /\ cur \in Nat
  <2>1. TextEnd \in Memory /\ cur \in 0..TextEnd
    BY <1>0, TextEndIs
  <2> QED
    BY <2>1, Constants DEF Memory
<1>2. Len(Text) = TextEnd /\ \A p \in 1..TextEnd : Text[p] = buf[p - 1]
  BY <1>1 DEF Text
<1>3. starts = {p \in 0..cur : p = 0 \/ buf[p - 1] = NL}
  <2>1. ASSUME NEW p PROVE p \in starts <=> p \in 0..cur /\ (p = 0 \/ buf[p - 1] = NL)
    <3>1. p \in 0..TextEnd /\ p # 0 => Text[p] = buf[p - 1]
      BY <1>1, <1>2
    <3>2. p \in 0..TextEnd /\ p <= cur <=> p \in 0..cur
      BY <1>1
    <3> QED
      BY <1>2, <3>1, <3>2
  <2> QED
    BY <2>1
<1> HIDE DEF starts
<1>4. starts = U \cup {0}
  <2>1. ASSUME NEW p \in 0..cur, p # 0, buf[p - 1] = NL PROVE p \in U
    <3>1. p - 1 \in 0..cur - 1 /\ (p - 1) + 1 = p
      BY <1>1, <2>1
    <3>2. p - 1 \in E
      BY <2>1, <3>1 DEF EndsIn
    <3> QED
      BY <3>1, <3>2
  <2>2. ASSUME NEW i \in E PROVE i + 1 \in 0..cur /\ buf[(i + 1) - 1] = NL
    <3>1. i \in 0..cur - 1 /\ buf[i] = NL
      BY DEF EndsIn
    <3>2. (i + 1) - 1 = i /\ i + 1 \in 0..cur
      BY <1>1, <3>1
    <3> QED
      BY <3>1, <3>2
  <2>3. 0 \in 0..cur
    BY <1>1
  <2> QED
    BY <1>3, <2>1, <2>2, <2>3
<1>5. IsFiniteSet(E) /\ E \subseteq Nat /\ Cardinality(E) \in Nat
  <2>1. IsFiniteSet(E) /\ Cardinality(E) \in Nat
    BY <1>1, EndsInType
  <2>2. E \subseteq Nat
    BY <1>1 DEF EndsIn
  <2> QED
    BY <2>1, <2>2
<1>6. IsFiniteSet(U) /\ Cardinality(U) = Cardinality(E) /\ 0 \notin U
  BY <1>5, ShiftedUp
<1>7. r = Cardinality(E) + 1
  BY <1>4, <1>6, FS_AddElement
<1> HIDE DEF r, U, E
<1>8. line = r
  <2>1. PICK n \in Nat : n = Cardinality(E)
    BY <1>5
  <2>2. 1 + n \in 0..Wide - 1 /\ r = 1 + n /\ Wide \in Nat \ {0}
    BY <1>7, <2>1, Constants
  <2>3. (1 + n) % Wide = 1 + n
    BY <2>2, ModSmall
  <2> QED
    BY <1>0, <2>1, <2>2, <2>3 DEF Counts, E
<1>9. Max(starts) \in starts /\ \A p \in starts : p <= Max(starts)
  <2>1. starts \subseteq 0..cur
    BY <1>3
  <2>2. starts # {}
    BY <1>4
  <2> QED
    BY <1>1, <2>1, <2>2, GreatestIs
<1>10. Column(buf, cur) = cur - Max(starts) + 1
  <2>1. CASE E = {}
    <3>1. starts = {0}
      BY <1>4, <2>1 DEF U
    <3>2. Max(starts) = 0
      BY <1>9, <3>1
    <3> QED
      BY <1>1, <2>1, <3>2 DEF Column, E
  <2>2. CASE E # {}
    <3>1. PICK m \in Nat : m = Max(E) /\ m \in E /\ \A i \in E : i <= m
      BY <1>1, <1>5, <2>2, EndsInType DEF E
    <3>2. m + 1 \in starts /\ \A p \in starts : p <= m + 1
      <4>1. m + 1 \in U /\ \A p \in U : p <= m + 1
        BY <1>5, <3>1 DEF U
      <4> QED
        BY <1>4, <4>1
    <3>3. starts \subseteq Nat
      BY <1>3
    <3>4. Max(starts) = m + 1
      <4>1. PICK k : k = Max(starts)
        OBVIOUS
      <4>2. k \in Nat /\ k <= m + 1 /\ m + 1 <= k
        BY <1>9, <3>2, <3>3, <4>1
      <4> QED
        BY <4>1, <4>2
    <3>5. Column(buf, cur) = cur - m
      BY <2>2, <3>1 DEF Column, E
    <3> QED
      BY <1>1, <3>1, <3>4, <3>5
  <2> QED
    BY <2>1, <2>2
<1>11. col = (cur - Max(starts) + 1) % Wide
  BY <1>0, <1>10 DEF Counts
<1>12. 2 * Height <= Wide => r \in top..top + Height - 1
  BY <1>0, <1>8 DEF Views
<1> QED
  BY <1>8, <1>11, <1>12

\* The line and the column that WRITE shows are those of its cursor, and the
\* cursor's line is on the screen, after every key: for texts of any bytes and
\* screens of any size, up to a line number that fits its byte.
THEOREM CursorStaysInView == EditSpec => []CursorInView
<1> QED
  BY EditedInit, EditedStep, EditedView, PTL DEF EditSpec
-----------------------------------------------------------------------------
(***************************************************************************)
(* The text that a buffer holds, and what typing and deleting make of it.  *)
(***************************************************************************)
EndOf(b) == CHOOSE e \in Memory : b[e] = NUL /\ \A i \in 0..e - 1 : b[i] # NUL
TextIn(b) == [i \in 1..EndOf(b) |-> b[i - 1]]
CleanIn(b) == (\A i \in EndOf(b)..EditBuf - 1 : b[i] = NUL) /\ (\A i \in Memory : b[i] # "\r")

LEMMA InBuf ==
    /\ EndOf(buf) = TextEnd /\ TextIn(buf) = Text /\ (CleanIn(buf) <=> Clean)
    /\ EndOf(buf') = TextEnd' /\ TextIn(buf') = Text' /\ (CleanIn(buf') <=> Clean')
<1>1. EndOf(buf) = TextEnd /\ EndOf(buf') = TextEnd'
  BY DEF EndOf, TextEnd, Memory
<1> QED
  BY <1>1 DEF TextIn, Text, CleanIn, Clean, Memory

LEMMA EndIs ==
    ASSUME NEW b, NEW e \in Memory, b[e] = NUL, \A i \in 0..e - 1 : b[i] # NUL
    PROVE  EndOf(b) = e
<1>1. ASSUME NEW d \in Memory, b[d] = NUL, \A i \in 0..d - 1 : b[i] # NUL PROVE d = e
  <2>1. d \in Nat /\ e \in Nat
    BY Constants DEF Memory
  <2>2. ~(d < e) /\ ~(e < d)
    <3>1. d < e => d \in 0..e - 1
      BY <2>1
    <3>2. e < d => e \in 0..d - 1
      BY <2>1
    <3> QED
      BY <1>1, <3>1, <3>2
  <2> QED
    BY <2>1, <2>2
<1> QED
  BY <1>1 DEF EndOf

LEMMA TextInIs ==
    ASSUME NEW b, NEW e \in Nat, EndOf(b) = e, NEW S, \A i \in 0..e - 1 : b[i] \in S
    PROVE  /\ TextIn(b) \in Seq(S) /\ Len(TextIn(b)) = e
           /\ \A i \in 1..e : TextIn(b)[i] = b[i - 1]
<1>1. \A i \in 1..e : b[i - 1] \in S
  BY \A i \in 1..e : i - 1 \in 0..e - 1
<1>2. TextIn(b) = [i \in 1..e |-> b[i - 1]]
  BY DEF TextIn
<1> QED
  BY <1>1, <1>2

\* The text, and its two parts at p.
LEMMA PartsAt ==
    ASSUME TextHolds(buf, cur), NEW S, \A i \in Memory : buf[i] \in S, NEW p \in 0..TextEnd
    PROVE  /\ Text \in Seq(S) /\ Len(Text) = TextEnd /\ \A i \in 1..TextEnd : Text[i] = buf[i - 1]
           /\ Before(p) \in Seq(S) /\ Len(Before(p)) = p /\ \A i \in 1..p : Before(p)[i] = buf[i - 1]
           /\ After(p) \in Seq(S) /\ Len(After(p)) = TextEnd - p
           /\ \A i \in 1..TextEnd - p : After(p)[i] = buf[p + i - 1]
<1>1. TextEnd \in Memory /\ TextEnd \in Nat /\ EditBuf \in Nat
  <2>1. TextEnd \in Memory
    BY TextEndIs
  <2> QED
    BY <2>1, Constants DEF Memory
<1>2. PICK L \in Nat : L = TextEnd /\ L <= EditBuf - 1
  BY <1>1 DEF Memory
<1>3. \A i \in 0..L - 1 : buf[i] \in S
  BY <1>1, <1>2 DEF Memory
<1>4. Text \in Seq(S) /\ Len(Text) = L /\ \A i \in 1..L : Text[i] = buf[i - 1]
  BY <1>2, <1>3, TextInIs, InBuf
<1>5. PICK q \in Nat : q = p /\ q <= L
  BY <1>1, <1>2
<1>6. /\ SubSeq(Text, 1, q) \in Seq(S)
      /\ Len(SubSeq(Text, 1, q)) = IF 1 <= q THEN q - 1 + 1 ELSE 0
      /\ \A i \in 1..q - 1 + 1 : SubSeq(Text, 1, q)[i] = Text[1 + i - 1]
  BY <1>4, <1>5, PartIs
<1>7. /\ SubSeq(Text, q + 1, L) \in Seq(S)
      /\ Len(SubSeq(Text, q + 1, L)) = IF q + 1 <= L THEN L - (q + 1) + 1 ELSE 0
      /\ \A i \in 1..L - (q + 1) + 1 : SubSeq(Text, q + 1, L)[i] = Text[q + 1 + i - 1]
  BY <1>4, <1>5, PartIs
<1>8. Before(p) = SubSeq(Text, 1, q) /\ After(p) = SubSeq(Text, q + 1, L)
  BY <1>2, <1>4, <1>5 DEF Before, After
<1>9. Before(p) \in Seq(S) /\ Len(Before(p)) = q /\ \A i \in 1..q : Before(p)[i] = buf[i - 1]
  <2>1. Before(p) \in Seq(S) /\ Len(Before(p)) = q
    BY <1>6, <1>8
  <2>2. ASSUME NEW i \in 1..q PROVE Before(p)[i] = buf[i - 1]
    <3>1. i \in 1..q - 1 + 1 /\ 1 + i - 1 = i /\ i \in 1..L
      BY <1>5
    <3> QED
      BY <1>4, <1>6, <1>8, <3>1
  <2> QED
    BY <2>1, <2>2
<1>10. After(p) \in Seq(S) /\ Len(After(p)) = L - q /\ \A i \in 1..L - q : After(p)[i] = buf[q + i - 1]
  <2>1. After(p) \in Seq(S) /\ Len(After(p)) = L - q
    BY <1>5, <1>7, <1>8
  <2>2. ASSUME NEW i \in 1..L - q PROVE After(p)[i] = buf[q + i - 1]
    <3>1. PICK j \in 1..L : j = q + i /\ j = q + 1 + i - 1
      BY <1>5
    <3>2. i \in 1..L - (q + 1) + 1
      BY <1>5
    <3>3. After(p)[i] = Text[j]
      BY <1>7, <1>8, <3>1, <3>2
    <3> QED
      BY <1>4, <3>1, <3>3
  <2> QED
    BY <2>1, <2>2
<1> QED
  BY <1>2, <1>4, <1>5, <1>9, <1>10

AreTwo(w, u, v) == w = u \o v
HasTwo(w, u, v, S) ==
    /\ w \in Seq(S) /\ Len(w) = Len(u) + Len(v)
    /\ \A i \in 1..Len(u) + Len(v) : w[i] = IF i <= Len(u) THEN u[i] ELSE v[i - Len(u)]

LEMMA Joined2 ==
    ASSUME NEW S, NEW u \in Seq(S), NEW v \in Seq(S), NEW w, AreTwo(w, u, v)
    PROVE  HasTwo(w, u, v, S)
  BY ConcatProperties DEF AreTwo, HasTwo

AreThree(w, u, c, v) == w = u \o <<c>> \o v
HasThree(w, u, c, v, S) ==
    /\ w \in Seq(S) /\ Len(w) = Len(u) + 1 + Len(v)
    /\ \A i \in 1..Len(u) + 1 + Len(v) : w[i] =
           IF i <= Len(u) THEN u[i] ELSE IF i = Len(u) + 1 THEN c ELSE v[i - Len(u) - 1]

LEMMA Joined3 ==
    ASSUME NEW S, NEW u \in Seq(S), NEW c \in S, NEW v \in Seq(S), NEW w, AreThree(w, u, c, v)
    PROVE  HasThree(w, u, c, v, S)
<1> DEFINE m == <<c>>  a == u \o m  b == a \o v
<1>1. m \in Seq(S) /\ Len(m) = 1 /\ m[1] = c
  OBVIOUS
<1> HIDE DEF m
<1>2. a \in Seq(S) /\ Len(a) = Len(u) + Len(m)
      /\ \A i \in 1..Len(u) + Len(m) : a[i] = IF i <= Len(u) THEN u[i] ELSE m[i - Len(u)]
  BY <1>1, ConcatProperties
<1>a. a \in Seq(S) /\ Len(a) \in Nat /\ Len(v) \in Nat
  <2>1. a \in Seq(S)
    BY <1>2
  <2> HIDE DEF a
  <2> QED
    BY <2>1
<1> HIDE DEF a
<1>b. AreTwo(b, a, v)
  BY DEF AreTwo
<1> HIDE DEF b
<1>c. HasTwo(b, a, v, S)
  BY <1>a, <1>b, Joined2
<1>3. b \in Seq(S) /\ Len(b) = Len(a) + Len(v)
      /\ \A i \in 1..Len(a) + Len(v) : b[i] = IF i <= Len(a) THEN a[i] ELSE v[i - Len(a)]
  BY <1>c DEF HasTwo
<1>4. PICK k \in Nat, l \in Nat : k = Len(u) /\ l = Len(v)
  OBVIOUS
<1>5. ASSUME NEW i \in 1..k + 1 + l
      PROVE  b[i] = IF i <= k THEN u[i] ELSE IF i = k + 1 THEN c ELSE v[i - k - 1]
  <2>1. Len(a) = k + 1 /\ i \in 1..Len(a) + Len(v)
    BY <1>1, <1>2, <1>4
  <2>2. b[i] = IF i <= k + 1 THEN a[i] ELSE v[i - (k + 1)]
    BY <1>3, <2>1
  <2>3. CASE i <= k
    BY <1>1, <1>2, <1>4, <2>2, <2>3
  <2>4. CASE i = k + 1
    <3>1. i - Len(u) = 1 /\ i \in 1..Len(u) + Len(m) /\ ~(i <= Len(u))
      BY <1>1, <1>4, <2>4
    <3> QED
      BY <1>1, <1>2, <1>4, <2>2, <2>4, <3>1
  <2>5. CASE i > k + 1
    <3>1. i - (k + 1) = i - k - 1
      BY <1>4
    <3> QED
      BY <2>2, <2>5, <3>1
  <2> QED
    BY <1>4, <2>3, <2>4, <2>5
<1>6. w = b
  BY DEF AreThree, b, a, m
<1> QED
  BY <1>1, <1>2, <1>3, <1>4, <1>5, <1>6 DEF HasThree

\* Typing a letter: the text and what lies behind it.
LEMMA Inserts ==
    ASSUME TextHolds(buf, cur), Clean, Room, NEW c, c # NUL, c # "\r"
    PROVE  TextIn(Inserted(c)) = Before(cur) \o <<c>> \o After(cur) /\ CleanIn(Inserted(c))
<1>1. PICK L \in Nat, p \in Nat, M \in Nat :
         L = TextEnd /\ p = cur /\ M = EditBuf /\ p <= L /\ L < M - 1
  <2>1. TextEnd \in Memory /\ cur \in 0..TextEnd /\ TextEnd < EditBuf - 1 /\ EditBuf \in Nat \ {0}
    BY TextEndIs, Constants DEF Room
  <2> QED
    BY <2>1 DEF Memory
<1>2. Memory = 0..M - 1
  BY <1>1 DEF Memory
<1>3. /\ \A i \in 0..L - 1 : buf[i] # NUL
      /\ \A i \in L..M - 1 : buf[i] = NUL
      /\ \A i \in 0..M - 1 : buf[i] # "\r"
  BY <1>1, <1>2, TextEndIs DEF Clean
<1>4. PICK b : b = Inserted(c)
  OBVIOUS
<1>5. b = [i \in 0..M - 1 |-> IF i = p THEN c ELSE IF i \in p + 1..L THEN buf[i - 1] ELSE buf[i]]
  BY <1>1, <1>2, <1>4 DEF Inserted
<1>6. /\ \A i \in 0..p - 1 : b[i] = buf[i]
      /\ b[p] = c
      /\ \A i \in p + 1..L : b[i] = buf[i - 1]
      /\ \A i \in L + 1..M - 1 : b[i] = buf[i]
  BY <1>1, <1>5
<1>7. EndOf(b) = L + 1
  <2>1. L + 1 \in Memory /\ b[L + 1] = NUL
    <3>1. L + 1 \in L + 1..M - 1 /\ L + 1 \in L..M - 1 /\ L + 1 \in 0..M - 1
      BY <1>1
    <3> QED
      BY <1>2, <1>3, <1>6, <3>1
  <2>2. ASSUME NEW i \in 0..(L + 1) - 1 PROVE b[i] # NUL
    <3>1. CASE i \in 0..p - 1
      <4>1. i \in 0..L - 1
        BY <1>1, <3>1
      <4> QED
        BY <1>3, <1>6, <3>1, <4>1
    <3>2. CASE i = p
      BY <1>6, <3>2
    <3>3. CASE i \in p + 1..L
      <4>1. i - 1 \in 0..L - 1
        BY <1>1, <3>3
      <4> QED
        BY <1>3, <1>6, <3>3, <4>1
    <3> QED
      BY <1>1, <3>1, <3>2, <3>3
  <2> QED
    BY <2>1, <2>2, EndIs
<1>8. CleanIn(b)
  <2>1. \A i \in L + 1..M - 1 : b[i] = NUL
    <3>1. \A i \in L + 1..M - 1 : i \in L..M - 1
      BY <1>1
    <3> QED
      BY <1>3, <1>6, <3>1
  <2>2. ASSUME NEW i \in Memory PROVE b[i] # "\r"
    <3>1. i \in 0..M - 1 /\ (i # p /\ i \in p + 1..L => i - 1 \in 0..M - 1)
      BY <1>1, <1>2
    <3>2. b[i] = IF i = p THEN c ELSE IF i \in p + 1..L THEN buf[i - 1] ELSE buf[i]
      BY <1>5, <3>1
    <3> QED
      BY <1>3, <3>1, <3>2
  <2> QED
    BY <1>1, <1>7, <2>1, <2>2 DEF CleanIn
<1> DEFINE S == {buf[i] : i \in Memory} \cup {c}  t == TextIn(b)  w == Before(cur) \o <<c>> \o After(cur)
<1>9. c \in S /\ \A i \in Memory : buf[i] \in S
  OBVIOUS
<1>10. \A i \in 0..M - 1 : b[i] \in S
  <2> SUFFICES ASSUME NEW i \in 0..M - 1 PROVE b[i] \in S
    OBVIOUS
  <2>1. i \in Memory /\ (i \in p + 1..L => i - 1 \in Memory)
    BY <1>1, <1>2
  <2>2. b[i] = IF i = p THEN c ELSE IF i \in p + 1..L THEN buf[i - 1] ELSE buf[i]
    BY <1>5
  <2> QED
    BY <1>9, <2>1, <2>2
<1> HIDE DEF S
<1>11. t \in Seq(S) /\ Len(t) = L + 1 /\ \A i \in 1..L + 1 : t[i] = b[i - 1]
  <2>1. \A i \in 0..(L + 1) - 1 : b[i] \in S
    BY <1>1, <1>10
  <2>2. L + 1 \in Nat
    OBVIOUS
  <2> QED
    BY <1>7, <2>1, <2>2, TextInIs
<1> HIDE DEF t
<1>12. /\ Before(cur) \in Seq(S) /\ Len(Before(cur)) = p /\ \A i \in 1..p : Before(cur)[i] = buf[i - 1]
       /\ After(cur) \in Seq(S) /\ Len(After(cur)) = L - p
       /\ \A i \in 1..L - p : After(cur)[i] = buf[p + i - 1]
  <2>1. cur \in 0..TextEnd
    BY <1>1
  <2> QED
    BY <1>1, <1>9, <2>1, PartsAt
<1>13. w \in Seq(S) /\ Len(w) = L + 1
       /\ \A i \in 1..L + 1 : w[i] = IF i <= p THEN Before(cur)[i] ELSE IF i = p + 1 THEN c ELSE After(cur)[i - p - 1]
  <2>1. /\ w \in Seq(S) /\ Len(w) = p + 1 + (L - p)
        /\ \A i \in 1..p + 1 + (L - p) : w[i] =
              IF i <= p THEN Before(cur)[i] ELSE IF i = p + 1 THEN c ELSE After(cur)[i - p - 1]
    <3>1. PICK x : x = Before(cur)
      OBVIOUS
    <3>2. PICK y : y = After(cur)
      OBVIOUS
    <3>3. x \in Seq(S) /\ y \in Seq(S) /\ Len(x) = p /\ Len(y) = L - p /\ c \in S
      BY <1>9, <1>12, <3>1, <3>2
    <3>5. AreThree(w, x, c, y)
      BY <3>1, <3>2 DEF AreThree
    <3> HIDE DEF w
    <3>4. HasThree(w, x, c, y, S)
      BY <3>3, <3>5, Joined3
    <3> QED
      BY <3>1, <3>2, <3>3, <3>4 DEF HasThree
  <2>2. p + 1 + (L - p) = L + 1
    BY <1>1
  <2> QED
    BY <2>1, <2>2
<1> HIDE DEF w
<1>14. ASSUME NEW i \in 1..L + 1 PROVE t[i] = w[i]
  <2>1. t[i] = b[i - 1]
    BY <1>11
  <2>2. CASE i <= p
    <3>1. i \in 1..p /\ i - 1 \in 0..p - 1
      BY <1>1, <2>2
    <3> QED
      BY <1>6, <1>12, <1>13, <2>1, <2>2, <3>1
  <2>3. CASE i = p + 1
    <3>1. i - 1 = p /\ ~(i <= p)
      BY <1>1, <2>3
    <3> QED
      BY <1>6, <1>13, <2>1, <2>3, <3>1
  <2>4. CASE i > p + 1
    <3>1. PICK j \in 1..L - p : j = i - p - 1
      BY <1>1, <2>4
    <3>2. PICK k \in p + 1..L : k = i - 1
      BY <1>1, <2>4
    <3>3. p + j - 1 = k - 1 /\ ~(i <= p) /\ i # p + 1
      BY <1>1, <2>4, <3>1, <3>2
    <3>4. w[i] = After(cur)[j] /\ After(cur)[j] = buf[k - 1]
      BY <1>12, <1>13, <3>1, <3>3
    <3>5. t[i] = buf[k - 1]
      BY <1>6, <2>1, <3>2
    <3> QED
      BY <3>4, <3>5
  <2> QED
    BY <1>1, <2>2, <2>3, <2>4
<1>15. t = w
  BY <1>11, <1>13, <1>14, SeqEqual
<1> QED
  BY <1>4, <1>8, <1>15 DEF t, w

\* Deleting the byte at p.
LEMMA Removes ==
    ASSUME TextHolds(buf, cur), Clean, NEW p \in 0..TextEnd - 1
    PROVE  TextIn(Removed(p)) = Before(p) \o After(p + 1) /\ CleanIn(Removed(p))
<1>1. PICK L \in Nat, M \in Nat : L = TextEnd /\ M = EditBuf /\ L <= M - 1 /\ p \in Nat /\ p < L
  <2>1. TextEnd \in Memory /\ EditBuf \in Nat \ {0}
    BY TextEndIs, Constants
  <2> QED
    BY <2>1 DEF Memory
<1>2. Memory = 0..M - 1
  BY <1>1 DEF Memory
<1>3. /\ \A i \in 0..L - 1 : buf[i] # NUL
      /\ \A i \in L..M - 1 : buf[i] = NUL
      /\ \A i \in 0..M - 1 : buf[i] # "\r"
  BY <1>1, <1>2, TextEndIs DEF Clean
<1>4. PICK b : b = Removed(p)
  OBVIOUS
<1>5. b = [i \in 0..M - 1 |-> IF i \in p..L - 1 THEN buf[i + 1] ELSE buf[i]]
  BY <1>1, <1>2, <1>4 DEF Removed
<1>6. /\ \A i \in 0..p - 1 : b[i] = buf[i]
      /\ \A i \in p..L - 1 : b[i] = buf[i + 1]
      /\ \A i \in L..M - 1 : b[i] = buf[i]
  BY <1>1, <1>5
<1>7. EndOf(b) = L - 1
  <2>1. L - 1 \in Memory /\ b[L - 1] = NUL
    <3>1. L - 1 \in p..L - 1 /\ L \in L..M - 1 /\ L - 1 \in 0..M - 1 /\ (L - 1) + 1 = L
      BY <1>1
    <3> QED
      BY <1>2, <1>3, <1>6, <3>1
  <2>2. ASSUME NEW i \in 0..(L - 1) - 1 PROVE b[i] # NUL
    <3>1. CASE i < p
      <4>1. i \in 0..p - 1 /\ i \in 0..L - 1
        BY <1>1, <3>1
      <4> QED
        BY <1>3, <1>6, <4>1
    <3>2. CASE i >= p
      <4>1. i \in p..L - 1 /\ i + 1 \in 0..L - 1
        BY <1>1, <3>2
      <4> QED
        BY <1>3, <1>6, <4>1
    <3> QED
      BY <1>1, <3>1, <3>2
  <2> QED
    BY <2>1, <2>2, EndIs
<1>8. CleanIn(b)
  <2>1. ASSUME NEW i \in L - 1..M - 1 PROVE b[i] = NUL
    <3>1. CASE i = L - 1
      <4>1. i \in p..L - 1 /\ i + 1 = L /\ L \in L..M - 1
        BY <1>1, <3>1
      <4> QED
        BY <1>3, <1>6, <4>1
    <3>2. CASE i # L - 1
      <4>1. i \in L..M - 1
        BY <1>1, <3>2
      <4> QED
        BY <1>3, <1>6, <4>1
    <3> QED
      BY <3>1, <3>2
  <2>2. ASSUME NEW i \in Memory PROVE b[i] # "\r"
    <3>1. i \in 0..M - 1 /\ (i \in p..L - 1 => i + 1 \in 0..M - 1)
      BY <1>1, <1>2
    <3>2. b[i] = IF i \in p..L - 1 THEN buf[i + 1] ELSE buf[i]
      BY <1>5, <3>1
    <3> QED
      BY <1>3, <3>1, <3>2
  <2> QED
    BY <1>1, <1>7, <2>1, <2>2 DEF CleanIn
<1> DEFINE S == {buf[i] : i \in Memory}  t == TextIn(b)  u == Before(p)  v == After(p + 1)  w == u \o v
<1>9. \A i \in Memory : buf[i] \in S
  OBVIOUS
<1>10. ASSUME NEW i \in 0..M - 1 PROVE b[i] \in S
  <2>1. i \in Memory /\ (i \in p..L - 1 => i + 1 \in Memory)
    BY <1>1, <1>2
  <2>2. b[i] = IF i \in p..L - 1 THEN buf[i + 1] ELSE buf[i]
    BY <1>5
  <2> QED
    BY <1>9, <2>1, <2>2
<1> HIDE DEF S
<1>11. t \in Seq(S) /\ Len(t) = L - 1 /\ \A i \in 1..L - 1 : t[i] = b[i - 1]
  <2>1. \A i \in 0..(L - 1) - 1 : b[i] \in S
    BY <1>1, <1>10
  <2>2. L - 1 \in Nat
    BY <1>1
  <2> QED
    BY <1>7, <2>1, <2>2, TextInIs
<1> HIDE DEF t
<1>12. /\ u \in Seq(S) /\ Len(u) = p /\ \A i \in 1..p : u[i] = buf[i - 1]
       /\ v \in Seq(S) /\ Len(v) = L - (p + 1) /\ \A i \in 1..L - (p + 1) : v[i] = buf[(p + 1) + i - 1]
  <2>1. p \in 0..TextEnd /\ p + 1 \in 0..TextEnd
    BY <1>1
  <2> QED
    BY <1>1, <1>9, <2>1, PartsAt
<1> HIDE DEF u, v
<1>13. w \in Seq(S) /\ Len(w) = L - 1
       /\ \A i \in 1..L - 1 : w[i] = IF i <= p THEN u[i] ELSE v[i - p]
  <2>0. AreTwo(w, u, v)
    BY DEF AreTwo
  <2> HIDE DEF w
  <2>1. /\ w \in Seq(S) /\ Len(w) = p + (L - (p + 1))
        /\ \A i \in 1..p + (L - (p + 1)) : w[i] = IF i <= p THEN u[i] ELSE v[i - p]
    <3>1. u \in Seq(S) /\ v \in Seq(S) /\ Len(u) = p /\ Len(v) = L - (p + 1)
      BY <1>12
    <3>2. HasTwo(w, u, v, S)
      BY <2>0, <3>1, Joined2
    <3> QED
      BY <3>1, <3>2 DEF HasTwo
  <2>2. p + (L - (p + 1)) = L - 1
    BY <1>1
  <2> QED
    BY <2>1, <2>2
<1> HIDE DEF w
<1>14. ASSUME NEW i \in 1..L - 1 PROVE t[i] = w[i]
  <2>1. t[i] = b[i - 1]
    BY <1>11
  <2>2. CASE i <= p
    <3>1. i \in 1..p /\ i - 1 \in 0..p - 1
      BY <1>1, <2>2
    <3> QED
      BY <1>6, <1>12, <1>13, <2>1, <2>2, <3>1
  <2>3. CASE i > p
    <3>1. PICK j \in 1..L - (p + 1) : j = i - p
      BY <1>1, <2>3
    <3>2. PICK k \in p..L - 1 : k = i - 1
      BY <1>1, <2>3
    <3>3. (p + 1) + j - 1 = k + 1 /\ ~(i <= p)
      BY <1>1, <2>3, <3>1, <3>2
    <3> QED
      BY <1>6, <1>12, <1>13, <2>1, <3>1, <3>2, <3>3
  <2> QED
    BY <1>1, <2>2, <2>3
<1>15. t = w
  BY <1>11, <1>13, <1>14, SeqEqual
<1> QED
  BY <1>4, <1>8, <1>15 DEF t, w, u, v

\* At the end of the text there is nothing to delete.
LEMMA RemovesNothing ==
    ASSUME TextHolds(buf, cur)
    PROVE  Removed(TextEnd) = buf /\ Before(TextEnd) \o After(TextEnd + 1) = Text
<1>1. TextEnd \in Nat /\ buf = [i \in Memory |-> buf[i]]
  <2>1. TextEnd \in Memory
    BY TextEndIs
  <2> QED
    BY <2>1, Constants DEF Memory, TextHolds
<1>2. \A i \in Memory : i \notin TextEnd..TextEnd - 1
  BY <1>1
<1>3. Removed(TextEnd) = buf
  BY <1>1, <1>2 DEF Removed
<1> DEFINE S == {buf[i] : i \in Memory}  t == Text  e == TextEnd
<1>4. t \in Seq(S) /\ Len(t) = e
  <2>1. \A i \in Memory : buf[i] \in S
    OBVIOUS
  <2>2. 0 \in 0..TextEnd
    BY <1>1
  <2> HIDE DEF S
  <2> QED
    BY <2>1, <2>2, PartsAt
<1> HIDE DEF S, t, e
<1>5. e \in Nat
  BY <1>1 DEF e
<1>6. SubSeq(t, e + 1 + 1, Len(t)) = <<>>
  BY <1>4, <1>5, SubSeqEmpty
<1>7. SubSeq(t, 1, Len(t)) = t
  BY <1>4, SubSeqFull
<1>8. SubSeq(t, 1, Len(t)) \o SubSeq(t, e + 1 + 1, Len(t)) = t
  BY <1>4, <1>6, <1>7, ConcatEmptySeq
<1>9. SubSeq(t, 1, e) \o SubSeq(t, e + 1 + 1, Len(t)) = t
  BY <1>4, <1>8
<1> QED
  BY <1>3, <1>9 DEF Before, After, t, e

\* The keys that change the text.
LEMMA EditedTextKeys ==
    ASSUME TextHolds(buf, cur), Clean
    PROVE  /\ TextKeysRight
           /\ (\E c \in Letters : Type(c)) \/ Enter \/ Tab \/ Backspace \/ Delete => Clean'
<1>1. cur \in 0..TextEnd /\ TextEnd \in Nat
  <2>1. TextEnd \in Memory /\ cur \in 0..TextEnd
    BY TextEndIs
  <2> QED
    BY <2>1, Constants DEF Memory
<1>2. NL # NUL /\ " " # NUL /\ NL # "\r" /\ " " # "\r" /\ \A c \in Letters : c # NUL /\ c # "\r"
  <2>1. {NL, "\r", NUL} \cap Letters = {}
    BY Constants
  <2> QED
    BY <2>1 DEF NL, NUL
<1>3. ASSUME NEW c, c # NUL, c # "\r", Room, buf' = Inserted(c), cur' = cur + 1
      PROVE  Becomes(Before(cur) \o <<c>> \o After(cur), cur + 1) /\ Clean'
  <2>1. TextIn(Inserted(c)) = Before(cur) \o <<c>> \o After(cur) /\ CleanIn(Inserted(c))
    BY <1>3, Inserts
  <2>2. TextIn(buf') = TextIn(Inserted(c)) /\ (CleanIn(buf') <=> CleanIn(Inserted(c)))
    BY <1>3
  <2>3. Text' = Before(cur) \o <<c>> \o After(cur) /\ Clean'
    BY <2>1, <2>2, InBuf
  <2> QED
    BY <1>3, <2>3 DEF Becomes
<1>4. ASSUME NEW p \in 0..TextEnd - 1, buf' = Removed(p), cur' = p
      PROVE  Becomes(Before(p) \o After(p + 1), p) /\ Clean'
  <2>1. TextIn(Removed(p)) = Before(p) \o After(p + 1) /\ CleanIn(Removed(p))
    BY Removes
  <2>2. TextIn(buf') = TextIn(Removed(p)) /\ (CleanIn(buf') <=> CleanIn(Removed(p)))
    BY <1>4
  <2>3. Text' = Before(p) \o After(p + 1) /\ Clean'
    BY <2>1, <2>2, InBuf
  <2> QED
    BY <1>4, <2>3 DEF Becomes
<1>5. ASSUME buf' = buf PROVE Text' = Text /\ Clean'
  BY <1>5, InBuf
<1>6. ASSUME NEW c \in Letters, Type(c)
      PROVE  Becomes(Before(cur) \o <<c>> \o After(cur), cur + 1) /\ Clean'
  BY <1>2, <1>3, <1>6 DEF Type
<1>7. ASSUME Enter PROVE Becomes(Before(cur) \o <<NL>> \o After(cur), cur + 1) /\ Clean'
  BY <1>2, <1>3, <1>7 DEF Enter, Key
<1>8. ASSUME Tab PROVE Becomes(Before(cur) \o <<" ">> \o After(cur), cur + 1) /\ Clean'
  BY <1>2, <1>3, <1>8 DEF Tab, Key
<1>9. ASSUME Backspace
      PROVE  (IF cur = 0 THEN GoesTo(0) ELSE Becomes(Before(cur - 1) \o After(cur), cur - 1)) /\ Clean'
  <2>1. CASE cur = 0
    <3>1. buf' = buf /\ cur' = 0
      BY <1>9, <2>1 DEF Backspace, MovesTo, Key
    <3> QED
      BY <1>5, <2>1, <3>1 DEF GoesTo, Becomes
  <2>2. CASE cur # 0
    <3>1. PICK p \in 0..TextEnd - 1 : p = cur - 1 /\ p + 1 = cur
      BY <1>1, <2>2
    <3>2. buf' = Removed(p) /\ cur' = p
      BY <1>9, <2>2, <3>1 DEF Backspace, Key
    <3>3. Becomes(Before(p) \o After(p + 1), p) /\ Clean'
      BY <1>4, <3>2
    <3> QED
      BY <2>2, <3>1, <3>3
  <2> QED
    BY <2>1, <2>2
<1>10. ASSUME Delete PROVE Becomes(Before(cur) \o After(cur + 1), cur) /\ Clean'
  <2>1. buf' = Removed(cur) /\ cur' = cur
    BY <1>10 DEF Delete, Key
  <2>2. CASE cur = TextEnd
    <3>1. buf' = buf /\ Before(cur) \o After(cur + 1) = Text
      BY <2>1, <2>2, RemovesNothing
    <3> QED
      BY <1>5, <2>1, <3>1 DEF Becomes
  <2>3. CASE cur # TextEnd
    <3>1. cur \in 0..TextEnd - 1
      BY <1>1, <2>3
    <3> QED
      BY <1>4, <2>1, <3>1
  <2> QED
    BY <2>2, <2>3
<1>11. TextKeysRight
  BY <1>6, <1>7, <1>8, <1>9, <1>10 DEF TextKeysRight
<1> QED
  BY <1>6, <1>7, <1>8, <1>9, <1>10, <1>11
-----------------------------------------------------------------------------
(***************************************************************************)
(* The lines of a text, by the number of line starts up to a position.     *)
(***************************************************************************)
LEMMA StartsAre ==
    ASSUME NEW t, Len(t) \in Nat
    PROVE  /\ Starts(t) \subseteq 0..Len(t) /\ 0 \in Starts(t)
           /\ \A p : IsFiniteSet({q \in Starts(t) : q <= p}) /\ Row(t, p) \in Nat
<1>1. Starts(t) \subseteq 0..Len(t) /\ 0 \in Starts(t)
  BY DEF Starts
<1>2. IsFiniteSet(0..Len(t))
  BY FS_Interval, 0 \in Int, Len(t) \in Int
<1>3. ASSUME NEW p PROVE IsFiniteSet({q \in Starts(t) : q <= p}) /\ Row(t, p) \in Nat
  <2> DEFINE Q == {q \in Starts(t) : q <= p}
  <2>1. Q \in SUBSET (0..Len(t))
    BY <1>1
  <2>2. Row(t, p) = Cardinality(Q)
    BY DEF Row
  <2> HIDE DEF Q
  <2>3. IsFiniteSet(Q)
    BY <1>2, <2>1, FS_Subset
  <2>4. Cardinality(Q) \in Nat
    BY <2>3, FS_CardinalityType
  <2> QED
    BY <2>2, <2>3, <2>4 DEF Q
<1> QED
  BY <1>1, <1>3

\* Positions between which no line starts are in one line.
LEMMA RowSame ==
    ASSUME NEW t, Len(t) \in Nat, NEW p \in Nat, NEW q \in Nat, p <= q,
           \A s \in Starts(t) : ~(p < s /\ s <= q)
    PROVE  Row(t, p) = Row(t, q)
<1>1. \A s \in Starts(t) : s \in Nat
  BY StartsAre
<1>2. {s \in Starts(t) : s <= p} = {s \in Starts(t) : s <= q}
  BY <1>1
<1> QED
  BY <1>2 DEF Row

\* The next start is in the next line.
LEMMA RowNext ==
    ASSUME NEW t, Len(t) \in Nat, NEW p \in Nat, NEW s \in Starts(t), p < s,
           \A x \in Starts(t) : ~(p < x /\ x < s)
    PROVE  Row(t, s) = Row(t, p) + 1
<1> DEFINE P == {x \in Starts(t) : x <= p}  S == {x \in Starts(t) : x <= s}
<1>1. \A x \in Starts(t) : x \in Nat
  BY StartsAre
<1>2. S = P \cup {s} /\ s \notin P
  BY <1>1
<1>3. IsFiniteSet(P)
  BY StartsAre
<1>4. Row(t, p) = Cardinality(P) /\ Row(t, s) = Cardinality(S)
  BY DEF Row
<1> HIDE DEF P, S
<1> QED
  BY <1>2, <1>3, <1>4, FS_AddElement

LEMMA RowGrows ==
    ASSUME NEW t, Len(t) \in Nat, NEW p \in Nat, NEW q \in Nat, p <= q
    PROVE  Row(t, p) <= Row(t, q)
<1> DEFINE P == {x \in Starts(t) : x <= p}  Q == {x \in Starts(t) : x <= q}
<1>1. \A x \in Starts(t) : x \in Nat
  BY StartsAre
<1>2. P \in SUBSET Q
  BY <1>1
<1>3. IsFiniteSet(Q)
  BY StartsAre
<1>4. Row(t, p) = Cardinality(P) /\ Row(t, q) = Cardinality(Q)
  BY DEF Row
<1> HIDE DEF P, Q
<1> QED
  BY <1>2, <1>3, <1>4, FS_Subset

LEMMA RowSteps ==
    ASSUME NEW t, Len(t) \in Nat, NEW p \in Nat, NEW s \in Starts(t), p < s
    PROVE  Row(t, p) < Row(t, s)
<1>1. PICK q \in Nat : q + 1 = s /\ p <= q
  <2>1. s \in Nat
    BY StartsAre
  <2>2. s - 1 \in Nat /\ (s - 1) + 1 = s /\ p <= s - 1
    BY <2>1
  <2> QED
    BY <2>2
<1>2. \A x \in Starts(t) : x \in Nat
  BY StartsAre
<1>3. \A x \in Starts(t) : ~(q < x /\ x < s)
  BY <1>1, <1>2
<1>4. Row(t, s) = Row(t, q) + 1
  BY <1>1, <1>3, RowNext
<1>5. Row(t, p) <= Row(t, q) /\ Row(t, p) \in Nat /\ Row(t, q) \in Nat
  BY <1>1, RowGrows, StartsAre
<1> QED
  BY <1>4, <1>5

LEMMA StartIs ==
    ASSUME NEW t, Len(t) \in Nat, NEW s \in Starts(t)
    PROVE  Start(t, Row(t, s)) = s
<1>1. ASSUME NEW x \in Starts(t), Row(t, x) = Row(t, s) PROVE x = s
  <2>1. x \in Nat /\ s \in Nat /\ Row(t, x) \in Nat /\ Row(t, s) \in Nat
    <3>1. x \in Nat /\ s \in Nat
      BY StartsAre
    <3> QED
      BY <3>1, StartsAre
  <2>2. x < s => Row(t, x) < Row(t, s)
    BY <2>1, RowSteps
  <2>3. s < x => Row(t, s) < Row(t, x)
    BY <2>1, RowSteps
  <2> QED
    BY <1>1, <2>1, <2>2, <2>3
<1> QED
  BY <1>1 DEF Start

\* The first line is the only one that starts at 0.
LEMMA RowFirst ==
    ASSUME NEW t, Len(t) \in Nat
    PROVE  Row(t, 0) = 1 /\ \A s \in Starts(t) : s # 0 => Row(t, s) > 1
<1>1. {q \in Starts(t) : q <= 0} = {0}
  <2>1. \A x \in Starts(t) : x \in Nat
    BY StartsAre
  <2> QED
    BY <2>1, StartsAre
<1>2. Row(t, 0) = 1
  BY <1>1, FS_Singleton DEF Row
<1>3. ASSUME NEW s \in Starts(t), s # 0 PROVE Row(t, s) > 1
  <2>1. s \in Nat /\ 0 < s /\ 0 \in Nat
    BY <1>3, StartsAre
  <2>2. Row(t, 0) < Row(t, s)
    BY <2>1, RowSteps
  <2> QED
    BY <1>2, <2>2
<1> QED
  BY <1>2, <1>3
-----------------------------------------------------------------------------
(***************************************************************************)
(* What the searches for line ends find, in a text without CR.             *)
(***************************************************************************)
LEMMA CleanText ==
    ASSUME TextHolds(buf, cur), Clean
    PROVE  /\ TextEnd \in Nat /\ cur \in 0..TextEnd /\ Len(Text) = TextEnd
           /\ \A p \in 1..TextEnd : Text[p] = buf[p - 1]
           /\ buf[TextEnd] = NUL /\ \A i \in 0..TextEnd - 1 : buf[i] # NUL
           /\ \A i \in 0..TextEnd : buf[i] # "\r"
           /\ \A p \in 1..TextEnd : p \in Starts(Text) <=> buf[p - 1] = NL
<1>1. TextEnd \in Memory /\ TextEnd \in Nat /\ EditBuf \in Nat
      /\ cur \in 0..TextEnd /\ buf[TextEnd] = NUL /\ \A i \in 0..TextEnd - 1 : buf[i] # NUL
  <2>1. TextEnd \in Memory /\ cur \in 0..TextEnd /\ buf[TextEnd] = NUL /\ \A i \in 0..TextEnd - 1 : buf[i] # NUL
    BY TextEndIs
  <2> QED
    BY <2>1, Constants DEF Memory
<1>2. \A i \in 0..TextEnd : i \in Memory
  BY <1>1 DEF Memory
<1>3. Len(Text) = TextEnd /\ \A p \in 1..TextEnd : Text[p] = buf[p - 1]
  BY <1>1 DEF Text
<1>4. \A i \in 0..TextEnd : buf[i] # "\r"
  BY <1>2 DEF Clean
<1>5. \A p \in 1..TextEnd : p \in Starts(Text) <=> buf[p - 1] = NL
  BY <1>1, <1>3 DEF Starts
<1> QED
  BY <1>1, <1>3, <1>4, <1>5

LEMMA BolIs ==
    ASSUME TextHolds(buf, cur), Clean, NEW p \in 0..TextEnd
    PROVE  /\ BolOf(p) \in 0..p /\ BolOf(p) \in Starts(Text)
           /\ \A s \in Starts(Text) : s <= p => s <= BolOf(p)
<1>1. /\ TextEnd \in Nat /\ Len(Text) = TextEnd
      /\ \A i \in 0..TextEnd : buf[i] # "\r"
      /\ \A q \in 1..TextEnd : q \in Starts(Text) <=> buf[q - 1] = NL
  BY CleanText
<1> DEFINE S == {0} \cup {i + 1 : i \in {j \in 0..p - 1 : buf[j] \in {NL, "\r"}}}
<1>2. BolOf(p) = Max(S)
  BY DEF BolOf
<1>3. S = {s \in Starts(Text) : s <= p}
  <2>1. ASSUME NEW i \in 0..p - 1, buf[i] \in {NL, "\r"} PROVE i + 1 \in Starts(Text) /\ i + 1 <= p
    <3>1. i \in 0..TextEnd /\ i + 1 \in 1..TextEnd /\ (i + 1) - 1 = i /\ i + 1 <= p
      BY <1>1
    <3> QED
      BY <1>1, <2>1, <3>1
  <2>2. ASSUME NEW s \in Starts(Text), s <= p, s # 0 PROVE \E i \in 0..p - 1 : buf[i] = NL /\ s = i + 1
    <3>1. s \in 1..TextEnd
      BY <1>1, <2>2, StartsAre
    <3>2. s - 1 \in 0..p - 1 /\ s = (s - 1) + 1 /\ buf[s - 1] = NL
      BY <1>1, <2>2, <3>1
    <3> QED
      BY <3>2
  <2>3. 0 \in Starts(Text) /\ 0 <= p
    BY <1>1, StartsAre
  <2> QED
    BY <2>1, <2>2, <2>3
<1>4. S \subseteq 0..p /\ S # {}
  OBVIOUS
<1> HIDE DEF S
<1>5. Max(S) \in S /\ \A s \in S : s <= Max(S)
  BY <1>1, <1>4, GreatestIs, p \in Nat
<1> QED
  BY <1>2, <1>3, <1>4, <1>5

LEMMA EolIs ==
    ASSUME TextHolds(buf, cur), Clean, NEW p \in 0..TextEnd
    PROVE  /\ EolOf(p) \in p..TextEnd /\ (EolOf(p) = TextEnd \/ buf[EolOf(p)] = NL)
           /\ \A i \in p..EolOf(p) - 1 : buf[i] # NL
<1>1. /\ TextEnd \in Nat /\ buf[TextEnd] = NUL /\ \A i \in 0..TextEnd - 1 : buf[i] # NUL
      /\ \A i \in 0..TextEnd : buf[i] # "\r"
  BY CleanText
<1> DEFINE S == {i \in p..TextEnd : buf[i] \in {NL, "\r", NUL}}
<1>2. S \subseteq Nat /\ TextEnd \in S
  BY <1>1
<1>3. EolOf(p) = Min(S) /\ Min(S) \in S /\ \A y \in S : Min(S) <= y
  BY <1>2, LeastIs DEF EolOf
<1>4. EolOf(p) \in p..TextEnd /\ buf[EolOf(p)] \in {NL, "\r", NUL}
  BY <1>3
<1>5. EolOf(p) = TextEnd \/ buf[EolOf(p)] = NL
  <2>1. PICK e \in p..TextEnd : e = EolOf(p)
    BY <1>4
  <2>2. e \in 0..TextEnd /\ (e # TextEnd => e \in 0..TextEnd - 1)
    BY <1>1, <2>1
  <2> QED
    BY <1>1, <1>4, <2>1, <2>2
<1>6. ASSUME NEW i \in p..EolOf(p) - 1 PROVE buf[i] # NL
  <2>1. PICK e \in p..TextEnd : e = EolOf(p)
    BY <1>4
  <2>2. i \in p..TextEnd /\ ~(e <= i)
    BY <1>1, <2>1
  <2> QED
    BY <1>3, <2>1, <2>2
<1> QED
  BY <1>4, <1>5, <1>6

LEMMA EolOnce ==
    ASSUME TextHolds(buf, cur), Clean, NEW p \in 0..TextEnd, NEW x \in p..TextEnd,
           x = TextEnd \/ buf[x] = NL, \A i \in p..x - 1 : buf[i] # NL
    PROVE  EolOf(p) = x
<1>1. PICK e \in p..TextEnd : e = EolOf(p)
  BY EolIs
<1>2. (e = TextEnd \/ buf[e] = NL) /\ \A i \in p..e - 1 : buf[i] # NL
  BY <1>1, EolIs
<1>3. TextEnd \in Nat
  BY CleanText
<1>4. ~(e < x)
  <2>1. e < x => e \in p..x - 1 /\ e # TextEnd
    BY <1>3
  <2> QED
    BY <1>2, <2>1
<1>5. ~(x < e)
  <2>1. x < e => x \in p..e - 1 /\ x # TextEnd
    BY <1>3
  <2> QED
    BY <1>2, <2>1
<1> QED
  BY <1>1, <1>3, <1>4, <1>5

\* The line of position p: from BolOf(p) to EolOf(p).
LEMMA RowStarts ==
    ASSUME TextHolds(buf, cur), Clean, NEW p \in 0..TextEnd
    PROVE  /\ Row(Text, BolOf(p)) = Row(Text, p) /\ Start(Text, Row(Text, p)) = BolOf(p)
           /\ EolOf(BolOf(p)) = EolOf(p)
           /\ BolOf(p) = 0 <=> Row(Text, p) = 1
           /\ Row(Text, p) \in Nat /\ Row(Text, p) >= 1
<1>1. /\ TextEnd \in Nat /\ Len(Text) = TextEnd /\ Len(Text) \in Nat
      /\ \A q \in 1..TextEnd : q \in Starts(Text) <=> buf[q - 1] = NL
  BY CleanText
<1>2. PICK a \in 0..p : a = BolOf(p) /\ a \in Starts(Text) /\ \A s \in Starts(Text) : s <= p => s <= a
  BY BolIs
<1>3. a \in Nat /\ p \in Nat /\ a <= p /\ \A s \in Starts(Text) : s \in Nat
  BY <1>1, <1>2, StartsAre
<1>4. Row(Text, a) = Row(Text, p)
  <2>1. \A s \in Starts(Text) : ~(a < s /\ s <= p)
    BY <1>2, <1>3
  <2> QED
    BY <1>1, <1>3, <2>1, RowSame
<1>5. Start(Text, Row(Text, p)) = a
  BY <1>1, <1>2, <1>4, StartIs
<1>6. EolOf(a) = EolOf(p)
  <2>1. PICK e \in p..TextEnd : e = EolOf(p)
    BY EolIs
  <2>2. (e = TextEnd \/ buf[e] = NL) /\ \A i \in p..e - 1 : buf[i] # NL
    BY <2>1, EolIs
  <2>3. a \in 0..TextEnd /\ e \in a..TextEnd
    BY <1>1, <1>3
  <2>4. ASSUME NEW i \in a..e - 1 PROVE buf[i] # NL
    <3>1. CASE i >= p
      <4>1. i \in p..e - 1
        BY <1>3, <3>1
      <4> QED
        BY <2>2, <4>1
    <3>2. CASE i < p
      <4>1. PICK q \in 1..TextEnd : q = i + 1 /\ q - 1 = i
        BY <1>1, <1>3, <3>2
      <4>2. q <= p /\ ~(q <= a)
        BY <1>3, <3>2, <4>1
      <4>3. q \notin Starts(Text)
        BY <1>2, <4>2
      <4> QED
        BY <1>1, <4>1, <4>3
    <3> QED
      BY <1>3, <3>1, <3>2
  <2> QED
    BY <2>1, <2>2, <2>3, <2>4, EolOnce
<1>7. a = 0 <=> Row(Text, p) = 1
  BY <1>1, <1>2, <1>4, RowFirst
<1>8. Row(Text, p) \in Nat /\ Row(Text, p) >= 1
  <2>1. Row(Text, p) \in Nat
    BY <1>1, StartsAre
  <2>2. Row(Text, 0) <= Row(Text, p)
    BY <1>1, <1>3, RowGrows, 0 \in Nat, 0 <= p
  <2> QED
    BY <1>1, <2>1, <2>2, RowFirst
<1> QED
  BY <1>2, <1>4, <1>5, <1>6, <1>7, <1>8

LEMMA LineStops ==
    ASSUME TextHolds(buf, cur), Clean, NEW p \in 0..TextEnd
    PROVE  LET r == Row(Text, p)  e == EolOf(p)  last == Row(Text, Len(Text)) IN
           /\ Stop(Text, r) = e /\ (e = TextEnd <=> r = last) /\ r <= last /\ last \in Nat
           /\ e # TextEnd => /\ buf[e] = NL /\ e + 1 \in 0..TextEnd /\ e + 1 \in Starts(Text)
                             /\ Row(Text, e + 1) = r + 1 /\ Start(Text, r + 1) = e + 1
<1> DEFINE r == Row(Text, p)  last == Row(Text, Len(Text))
<1>1. /\ TextEnd \in Nat /\ Len(Text) = TextEnd /\ Len(Text) \in Nat
      /\ \A q \in 1..TextEnd : q \in Starts(Text) <=> buf[q - 1] = NL
  BY CleanText
<1>2. PICK e \in p..TextEnd : e = EolOf(p)
  BY EolIs
<1>3. (e = TextEnd \/ buf[e] = NL) /\ \A i \in p..e - 1 : buf[i] # NL
  BY <1>2, EolIs
<1>4. \A s \in Starts(Text) : s \in 0..TextEnd
  BY <1>1, StartsAre
<1>5. p \in Nat /\ e \in Nat /\ p <= e /\ e <= TextEnd
  BY <1>1, <1>2
<1>6. \A s \in Starts(Text) : ~(p < s /\ s <= e)
  <2> SUFFICES ASSUME NEW s \in Starts(Text), p < s, s <= e PROVE FALSE
    OBVIOUS
  <2>1. s \in 1..TextEnd /\ s - 1 \in p..e - 1
    BY <1>4, <1>5
  <2>2. buf[s - 1] = NL
    BY <1>1, <2>1
  <2> QED
    BY <1>3, <2>1, <2>2
<1>7. Row(Text, e) = r
  BY <1>1, <1>5, <1>6, RowSame
<1>8. r \in Nat /\ last \in Nat /\ r <= last
  <2>1. r \in Nat /\ last \in Nat
    BY <1>1, <1>5, StartsAre
  <2>2. p <= Len(Text)
    BY <1>1, <1>5
  <2> QED
    BY <1>1, <1>5, <2>1, <2>2, RowGrows
<1>9. CASE e = TextEnd
  <2>1. r = last
    BY <1>1, <1>7, <1>9
  <2>2. Stop(Text, r) = e
    BY <1>1, <1>9, <2>1 DEF Stop
  <2> QED
    BY <1>2, <1>8, <1>9, <2>1, <2>2
<1>10. CASE e # TextEnd
  <2>1. buf[e] = NL /\ e + 1 \in 1..TextEnd /\ (e + 1) - 1 = e /\ e + 1 \in Nat
    BY <1>1, <1>3, <1>5, <1>10
  <2>2. e + 1 \in Starts(Text)
    BY <1>1, <2>1
  <2>3. \A x \in Starts(Text) : ~(e < x /\ x < e + 1)
    BY <1>4, <1>5
  <2>4. Row(Text, e + 1) = r + 1
    BY <1>1, <1>5, <1>7, <2>1, <2>2, <2>3, RowNext
  <2>5. Start(Text, r + 1) = e + 1
    BY <1>1, <2>2, <2>4, StartIs
  <2>6. r + 1 <= last
    <3>1. e + 1 <= TextEnd
      BY <2>1
    <3> QED
      BY <1>1, <2>1, <2>4, <3>1, RowGrows
  <2>7. r # last
    BY <1>8, <2>6
  <2>8. Stop(Text, r) = e
    <3>1. Stop(Text, r) = Start(Text, r + 1) - 1
      BY <2>7 DEF Stop
    <3> QED
      BY <1>5, <2>5, <3>1
  <2> QED
    BY <1>2, <1>8, <1>10, <2>1, <2>2, <2>4, <2>5, <2>7, <2>8
<1> QED
  BY <1>9, <1>10

\* The line before.
LEMMA LineBefore ==
    ASSUME TextHolds(buf, cur), Clean, NEW s \in Starts(Text), s # 0
    PROVE  /\ s - 1 \in 0..TextEnd /\ EolOf(s - 1) = s - 1 /\ Row(Text, s) = Row(Text, s - 1) + 1
<1>1. /\ TextEnd \in Nat /\ Len(Text) = TextEnd /\ Len(Text) \in Nat
      /\ \A q \in 1..TextEnd : q \in Starts(Text) <=> buf[q - 1] = NL
  BY CleanText
<1>2. \A x \in Starts(Text) : x \in 0..TextEnd
  BY <1>1, StartsAre
<1>3. PICK q \in 0..TextEnd : q = s - 1 /\ s = q + 1 /\ s \in 1..TextEnd /\ q \in Nat
  BY <1>1, <1>2
<1>4. buf[q] = NL
  BY <1>1, <1>3
<1>5. EolOf(q) = q
  <2>1. q \in q..TextEnd /\ \A i \in q..q - 1 : buf[i] # NL
    BY <1>1, <1>3
  <2> QED
    BY <1>4, <2>1, EolOnce
<1>6. Row(Text, s) = Row(Text, q) + 1
  <2>1. q < s /\ \A x \in Starts(Text) : ~(q < x /\ x < s)
    BY <1>2, <1>3
  <2> QED
    BY <1>1, <1>3, <2>1, RowNext
<1> QED
  BY <1>3, <1>5, <1>6
-----------------------------------------------------------------------------
(***************************************************************************)
(* The keys that move the cursor.                                          *)
(***************************************************************************)
LEMMA LesserOf == ASSUME NEW x \in Nat, NEW y \in Nat PROVE Min({x, y}) = IF x < y THEN x ELSE y
<1>1. Min({x, y}) \in {x, y} /\ Min({x, y}) <= x /\ Min({x, y}) <= y
  BY LeastIs, {x, y} \subseteq Nat
<1>2. PICK m : m = Min({x, y})
  OBVIOUS
<1>3. m \in {x, y} /\ m <= x /\ m <= y
  BY <1>1, <1>2
<1>4. m = IF x < y THEN x ELSE y
  BY <1>3
<1> QED
  BY <1>2, <1>4

LEMMA GreaterOf == ASSUME NEW x \in Int PROVE Max({1, x}) = IF x >= 1 THEN x ELSE 1
<1>1. \E m \in {1, x} : \A y \in {1, x} : m >= y
  <2>1. CASE x >= 1
    BY <2>1
  <2>2. CASE ~(x >= 1)
    BY <2>2
  <2> QED
    BY <2>1, <2>2
<1>2. Max({1, x}) \in {1, x} /\ \A y \in {1, x} : Max({1, x}) >= y
  BY <1>1 DEF Max
<1>3. PICK m : m = Max({1, x})
  OBVIOUS
<1>4. m \in {1, x} /\ m >= 1 /\ m >= x
  BY <1>2, <1>3
<1>5. m = IF x >= 1 THEN x ELSE 1
  BY <1>4
<1> QED
  BY <1>3, <1>5

\* apply_column: so far into the line of q, or to its end.
LEMMA AlongIs ==
    ASSUME TextHolds(buf, cur), Clean, NEW q \in 0..TextEnd, NEW column \in Nat
    PROVE  Along(BolOf(q), column) = Place(Text, Row(Text, q), column)
<1>1. TextEnd \in Nat
  BY CleanText
<1>2. PICK a \in 0..q : a = BolOf(q)
  BY BolIs
<1>3. PICK e \in q..TextEnd : e = EolOf(q)
  BY EolIs
<1>4. Start(Text, Row(Text, q)) = a /\ EolOf(a) = e
  BY <1>2, <1>3, RowStarts
<1>5. Stop(Text, Row(Text, q)) = e
  BY <1>3, LineStops
<1>6. PICK x \in Nat : x = a + column
  BY <1>1, <1>2
<1>7. Place(Text, Row(Text, q), column) = Min({x, e})
  BY <1>4, <1>5, <1>6 DEF Place
<1>8. Along(a, column) = IF x < e THEN x ELSE e
  BY <1>4, <1>6 DEF Along
<1>9. Min({x, e}) = IF x < e THEN x ELSE e
  BY <1>1, <1>3, LesserOf, e \in Nat
<1> QED
  BY <1>2, <1>7, <1>8, <1>9

\* Home, End and the lines above and below.
LEMMA LineKeysGo ==
    ASSUME TextHolds(buf, cur), Clean
    PROVE  LET r == Row(Text, cur)  last == Row(Text, Len(Text))  column == cur - Start(Text, r) IN
           /\ BolOf(cur) = Start(Text, r) /\ EolOf(cur) = Stop(Text, r)
           /\ (IF BolOf(cur) = 0 THEN 0 ELSE Along(BolOf(BolOf(cur) - 1), cur - BolOf(cur)))
                = IF r = 1 THEN 0 ELSE Place(Text, r - 1, column)
           /\ (IF buf[EolOf(cur)] = NUL \/ (buf[EolOf(cur)] = "\r" /\ buf[EolOf(cur) + 1] # NL)
               THEN Behind(EolOf(cur)) ELSE Along(Behind(EolOf(cur)), cur - BolOf(cur)))
                = IF r = last THEN Len(Text) ELSE Place(Text, r + 1, column)
<1> DEFINE r == Row(Text, cur)  last == Row(Text, Len(Text))  column == cur - Start(Text, r)
<1>1. /\ TextEnd \in Nat /\ cur \in 0..TextEnd /\ Len(Text) = TextEnd /\ buf[TextEnd] = NUL
      /\ \A i \in 0..TextEnd : buf[i] # "\r"
  BY CleanText
<1>2. PICK a \in 0..cur : a = BolOf(cur) /\ a \in Starts(Text)
  BY <1>1, BolIs
<1>3. PICK e \in cur..TextEnd : e = EolOf(cur)
  BY <1>1, EolIs
<1>4. r \in Nat /\ r >= 1 /\ (a = 0 <=> r = 1) /\ Start(Text, r) = a /\ Row(Text, a) = r
  BY <1>1, <1>2, RowStarts
<1>5. Stop(Text, r) = e /\ (e = TextEnd <=> r = last)
  BY <1>1, <1>3, LineStops
<1>6. cur - a \in Nat /\ column = cur - a /\ e \in 0..TextEnd
  BY <1>1, <1>2, <1>3, <1>4
<1>7. (IF a = 0 THEN 0 ELSE Along(BolOf(a - 1), cur - a)) = IF r = 1 THEN 0 ELSE Place(Text, r - 1, column)
  <2>1. CASE a = 0
    BY <1>4, <2>1
  <2>2. CASE a # 0
    <3>1. PICK q \in 0..TextEnd : q = a - 1
      BY <1>2, <2>2, LineBefore
    <3>2. Row(Text, a) = Row(Text, q) + 1
      BY <1>2, <2>2, <3>1, LineBefore
    <3>3. Row(Text, q) = r - 1
      <4>1. Row(Text, q) \in Nat
        BY <3>1, RowStarts
      <4> QED
        BY <1>4, <3>2, <4>1
    <3>4. Along(BolOf(q), cur - a) = Place(Text, Row(Text, q), cur - a)
      BY <1>6, AlongIs
    <3> QED
      BY <1>4, <1>6, <2>2, <3>1, <3>3, <3>4
  <2> QED
    BY <2>1, <2>2
<1>8. (IF buf[e] = NUL \/ (buf[e] = "\r" /\ buf[e + 1] # NL) THEN Behind(e) ELSE Along(Behind(e), cur - a))
        = IF r = last THEN Len(Text) ELSE Place(Text, r + 1, column)
  <2>1. CASE e = TextEnd
    <3>1. buf[e] = NUL /\ Behind(e) = e
      BY <1>1, <2>1 DEF Behind, NUL
    <3> QED
      BY <1>1, <1>5, <2>1, <3>1
  <2>2. CASE e # TextEnd
    <3>1. /\ buf[e] = NL /\ e + 1 \in 0..TextEnd /\ e + 1 \in Starts(Text) /\ Row(Text, e + 1) = r + 1
      BY <1>1, <1>3, <2>2, LineStops
    <3>2. buf[e] # NUL /\ buf[e] # "\r" /\ Behind(e) = e + 1
      BY <3>1 DEF NL, NUL, Behind
    <3>3. PICK q \in 0..TextEnd : q = e + 1
      BY <3>1
    <3>4. BolOf(q) = q
      <4>1. PICK b \in 0..q : b = BolOf(q) /\ \A s \in Starts(Text) : s <= q => s <= b
        BY BolIs
      <4>2. q \in Nat
        BY <1>1
      <4>3. q <= b
        BY <3>1, <3>3, <4>1, <4>2
      <4> QED
        BY <4>1, <4>2, <4>3
    <3>5. Along(BolOf(q), cur - a) = Place(Text, Row(Text, q), cur - a)
      BY <1>6, AlongIs
    <3> QED
      BY <1>5, <1>6, <2>2, <3>1, <3>2, <3>3, <3>4, <3>5
  <2> QED
    BY <2>1, <2>2
<1> QED
  BY <1>2, <1>3, <1>4, <1>5, <1>7, <1>8

\* The pages.
LEMMA PageUpIs ==
    ASSUME TextHolds(buf, cur), Clean
    PROVE  (LET after[n \in 0..PageLines] ==
                    IF n = 0 THEN BolOf(cur)
                    ELSE IF after[n - 1] = 0 THEN 0 ELSE BolOf(after[n - 1] - 1) IN
            after[PageLines]) = Start(Text, Max({1, Row(Text, cur) - PageLines}))
<1> DEFINE r == Row(Text, cur)  Top(x) == IF x >= 1 THEN x ELSE 1
<1>1. /\ TextEnd \in Nat /\ cur \in 0..TextEnd /\ Len(Text) = TextEnd /\ Len(Text) \in Nat
  BY CleanText
<1>2. PICK t :
        /\ t[PageLines] = (LET after[n \in 0..PageLines] ==
                                   IF n = 0 THEN BolOf(cur)
                                   ELSE IF after[n - 1] = 0 THEN 0 ELSE BolOf(after[n - 1] - 1) IN
                           after[PageLines])
        /\ t[0] = BolOf(cur) /\ \A i \in 0 + 1..PageLines : t[i] = IF t[i - 1] = 0 THEN 0 ELSE BolOf(t[i - 1] - 1)
  BY PageUpGoes
<1>3. PageLines \in Nat \ {0} /\ r \in Nat /\ r >= 1
  BY <1>1, Constants, RowStarts
<1> DEFINE Good == {n \in Nat : n <= PageLines => t[n] \in Starts(Text) /\ Row(Text, t[n]) = Top(r - n)}
<1>4. 0 \in Good
  <2>1. t[0] \in Starts(Text) /\ Row(Text, t[0]) = r
    BY <1>1, <1>2, BolIs, RowStarts
  <2> QED
    BY <1>3, <2>1
<1>5. ASSUME NEW n \in Nat, n \in Good PROVE n + 1 \in Good
  <2> SUFFICES ASSUME n + 1 <= PageLines
               PROVE  t[n + 1] \in Starts(Text) /\ Row(Text, t[n + 1]) = Top(r - (n + 1))
    OBVIOUS
  <2>1. PICK p : p = t[n]
    OBVIOUS
  <2>2. p \in Starts(Text) /\ Row(Text, p) = Top(r - n)
    BY <1>3, <1>5, <2>1
  <2>3. t[n + 1] = IF p = 0 THEN 0 ELSE BolOf(p - 1)
    <3>1. n + 1 \in 0 + 1..PageLines /\ (n + 1) - 1 = n
      BY <1>3
    <3> QED
      BY <1>2, <2>1, <3>1
  <2>4. CASE p = 0
    <3>1. Row(Text, p) = 1
      BY <1>1, <2>4, RowFirst
    <3>2. Top(r - (n + 1)) = 1
      BY <1>3, <2>2, <3>1
    <3> QED
      BY <1>1, <2>2, <2>3, <2>4, <3>1, <3>2
  <2>5. CASE p # 0
    <3>1. PICK q \in 0..TextEnd : q = p - 1 /\ Row(Text, p) = Row(Text, q) + 1
      BY <2>2, <2>5, LineBefore
    <3>2. BolOf(q) \in Starts(Text) /\ Row(Text, BolOf(q)) = Row(Text, q)
      BY BolIs, RowStarts
    <3>3. Row(Text, q) \in Nat /\ Row(Text, q) >= 1
      BY RowStarts
    <3>4. Row(Text, q) = Top(r - (n + 1))
      BY <1>3, <2>2, <3>1, <3>3
    <3> QED
      BY <2>3, <2>5, <3>1, <3>2, <3>4
  <2> QED
    BY <2>4, <2>5
<1> HIDE DEF Good, Top
<1>6. PageLines \in Good
  BY <1>3, <1>4, <1>5, FromZero
<1>7. t[PageLines] \in Starts(Text) /\ Row(Text, t[PageLines]) = Top(r - PageLines)
  BY <1>3, <1>6 DEF Good
<1>8. Max({1, r - PageLines}) = Top(r - PageLines)
  BY <1>3, GreaterOf, r - PageLines \in Int DEF Top
<1>9. Start(Text, Row(Text, t[PageLines])) = t[PageLines]
  BY <1>1, <1>7, StartIs
<1> QED
  BY <1>2, <1>7, <1>8, <1>9

LEMMA PageDownIs ==
    ASSUME TextHolds(buf, cur), Clean
    PROVE  (LET after[n \in 0..PageLines] == IF n = 0 THEN cur ELSE Behind(EolOf(after[n - 1])) IN
            after[PageLines])
             = IF Row(Text, cur) + PageLines > Row(Text, Len(Text)) THEN Len(Text)
               ELSE Start(Text, Row(Text, cur) + PageLines)
<1> DEFINE r == Row(Text, cur)  last == Row(Text, Len(Text))
<1>1. /\ TextEnd \in Nat /\ cur \in 0..TextEnd /\ Len(Text) = TextEnd /\ buf[TextEnd] = NUL
  BY CleanText
<1>2. PICK t :
        /\ t[PageLines] = (LET after[n \in 0..PageLines] == IF n = 0 THEN cur ELSE Behind(EolOf(after[n - 1])) IN
                           after[PageLines])
        /\ t[0] = cur /\ \A i \in 0 + 1..PageLines : t[i] = Behind(EolOf(t[i - 1]))
  BY PageDownGoes
<1>3. PageLines \in Nat \ {0} /\ r \in Nat /\ last \in Nat /\ r <= last
  BY <1>1, Constants, RowStarts, LineStops
<1> DEFINE There(n, p) ==
             /\ p \in 0..TextEnd
             /\ r + n <= last => Row(Text, p) = r + n /\ (n # 0 => p = Start(Text, r + n))
             /\ ~(r + n <= last) => p = TextEnd
           Good == {n \in Nat : n <= PageLines => There(n, t[n])}
<1>4. 0 \in Good
  <2>1. There(0, t[0])
    BY <1>1, <1>2, <1>3
  <2> QED
    BY <2>1
<1>5. ASSUME NEW n \in Nat, n \in Good PROVE n + 1 \in Good
  <2> SUFFICES ASSUME n + 1 <= PageLines PROVE There(n + 1, t[n + 1])
    OBVIOUS
  <2>1. PICK p : p = t[n]
    OBVIOUS
  <2>2. There(n, p)
    BY <1>3, <1>5, <2>1
  <2>3. p \in 0..TextEnd
    BY <2>2
  <2>4. PICK e \in p..TextEnd : e = EolOf(p)
    BY <2>3, EolIs
  <2>5. t[n + 1] = Behind(e)
    <3>1. n + 1 \in 0 + 1..PageLines /\ (n + 1) - 1 = n
      BY <1>3
    <3> QED
      BY <1>2, <2>1, <2>4, <3>1
  <2>6. e = TextEnd => Behind(e) = TextEnd
    BY <1>1 DEF Behind, NUL
  <2>7. e = TextEnd <=> Row(Text, p) = last
    BY <2>3, <2>4, LineStops
  <2>8. CASE ~(r + n <= last)
    <3>1. e = TextEnd
      BY <1>1, <2>2, <2>4, <2>8
    <3>2. ~(r + (n + 1) <= last)
      BY <1>3, <2>8
    <3> QED
      BY <1>1, <2>5, <2>6, <3>1, <3>2
  <2>9. CASE r + n <= last /\ e = TextEnd
    <3>1. r + n = last
      BY <2>2, <2>7, <2>9
    <3>2. ~(r + (n + 1) <= last)
      BY <1>3, <3>1
    <3> QED
      BY <1>1, <2>5, <2>6, <2>9, <3>2
  <2>10. CASE r + n <= last /\ e # TextEnd
    <3>1. /\ buf[e] = NL /\ e + 1 \in 0..TextEnd
          /\ Row(Text, e + 1) = Row(Text, p) + 1 /\ Start(Text, Row(Text, p) + 1) = e + 1
      BY <2>3, <2>4, <2>10, LineStops
    <3>2. Behind(e) = e + 1
      BY <3>1 DEF Behind, NL, NUL
    <3>3. Row(Text, p) = r + n /\ r + n + 1 = r + (n + 1)
      BY <1>3, <2>2, <2>10
    <3>4. r + n # last /\ r + (n + 1) <= last
      BY <1>3, <2>7, <2>10, <3>3
    <3> QED
      BY <2>5, <3>1, <3>2, <3>3, <3>4
  <2> QED
    BY <2>8, <2>9, <2>10
<1> HIDE DEF Good, There
<1>6. PageLines \in Good
  BY <1>3, <1>4, <1>5, FromZero
<1>7. There(PageLines, t[PageLines])
  BY <1>3, <1>6 DEF Good
<1>8. t[PageLines] = IF r + PageLines > last THEN Len(Text) ELSE Start(Text, r + PageLines)
  BY <1>1, <1>3, <1>7 DEF There
<1> QED
  BY <1>2, <1>8
-----------------------------------------------------------------------------
(***************************************************************************)
(* Finding.                                                                *)
(***************************************************************************)
LEMMA MatchingIs ==
    ASSUME TextHolds(buf, cur), NEW w, w \in Seq(Range(w))
    PROVE  Matching(w) = {i \in 0..Len(Text) - 1 : IsPrefix(w, After(i))}
<1> DEFINE S == {buf[i] : i \in Memory} \cup Range(w)
<1>1. \A i \in Memory : buf[i] \in S
  OBVIOUS
<1>2. \A k \in DOMAIN w : w[k] \in S
  BY DEF Range
<1>3. PICK n \in Nat : n = Len(w) /\ DOMAIN w = 1..n
  OBVIOUS
<1>4. w \in Seq(S)
  <2>1. w = [k \in 1..n |-> w[k]]
    BY <1>3
  <2> QED
    BY <1>2, <1>3, <2>1
<1> HIDE DEF S
<1>5. PICK L \in Nat : L = TextEnd
  <2>1. TextEnd \in Memory
    BY TextEndIs
  <2> QED
    BY <2>1, Constants DEF Memory
<1>6. Len(Text) = L
  <2>1. 0 \in 0..TextEnd
    BY <1>5
  <2> QED
    BY <1>1, <1>5, <2>1, PartsAt
<1>7. ASSUME NEW i \in 0..L - 1
      PROVE  (\A k \in DOMAIN w : i + k <= L /\ buf[i + k - 1] = w[k]) <=> IsPrefix(w, After(i))
  <2>1. PICK v : v = After(i)
    OBVIOUS
  <2>2. v \in Seq(S) /\ Len(v) = L - i /\ \A k \in 1..L - i : v[k] = buf[i + k - 1]
    <3>1. i \in 0..TextEnd
      BY <1>5
    <3> QED
      BY <1>1, <1>5, <2>1, <3>1, PartsAt
  <2>3. SubSeq(w, 1, n) = w
    BY <1>3, <1>4, SubSeqFull
  <2>4. n <= L - i => /\ SubSeq(v, 1, n) \in Seq(S) /\ Len(SubSeq(v, 1, n)) = n
                      /\ \A k \in 1..n : SubSeq(v, 1, n)[k] = v[k]
    <3> SUFFICES ASSUME n <= L - i
                 PROVE  /\ SubSeq(v, 1, n) \in Seq(S) /\ Len(SubSeq(v, 1, n)) = n
                        /\ \A k \in 1..n : SubSeq(v, 1, n)[k] = v[k]
      OBVIOUS
    <3>1. /\ SubSeq(v, 1, n) \in Seq(S)
          /\ Len(SubSeq(v, 1, n)) = IF 1 <= n THEN n - 1 + 1 ELSE 0
          /\ \A k \in 1..n - 1 + 1 : SubSeq(v, 1, n)[k] = v[1 + k - 1]
      BY <2>2, PartIs
    <3>2. \A k \in 1..n : k \in 1..n - 1 + 1 /\ 1 + k - 1 = k
      OBVIOUS
    <3> QED
      BY <3>1, <3>2
  <2>5. IsPrefix(w, v) <=> n <= L - i /\ w = SubSeq(v, 1, n)
    BY <1>3, <2>2, <2>3 DEF IsPrefix
  <2>6. ASSUME \A k \in DOMAIN w : i + k <= L /\ buf[i + k - 1] = w[k] PROVE IsPrefix(w, v)
    <3>1. n <= L - i
      <4>1. CASE n = 0
        BY <1>5, <4>1
      <4>2. CASE n # 0
        <5>1. n \in DOMAIN w
          BY <1>3, <4>2
        <5> QED
          BY <1>3, <1>5, <2>6, <5>1
      <4> QED
        BY <4>1, <4>2
    <3>2. \A k \in 1..n : k \in 1..L - i
      BY <1>5, <3>1
    <3>3. \A k \in 1..n : w[k] = SubSeq(v, 1, n)[k]
      BY <1>3, <2>2, <2>4, <2>6, <3>1, <3>2
    <3>4. w = SubSeq(v, 1, n)
      BY <1>3, <1>4, <2>4, <3>1, <3>3, SeqEqual
    <3> QED
      BY <2>5, <3>1, <3>4
  <2>7. ASSUME IsPrefix(w, v), NEW k \in DOMAIN w PROVE i + k <= L /\ buf[i + k - 1] = w[k]
    <3>1. n <= L - i /\ w[k] = SubSeq(v, 1, n)[k]
      BY <2>5, <2>7
    <3>2. k \in 1..n /\ k \in 1..L - i /\ i + k <= L
      BY <1>3, <1>5, <3>1
    <3>3. w[k] = v[k]
      BY <2>4, <3>1, <3>2
    <3> QED
      BY <2>2, <3>2, <3>3
  <2> QED
    BY <2>1, <2>6, <2>7
<1>8. Matching(w) = {i \in 0..L - 1 : \A k \in DOMAIN w : i + k <= L /\ buf[i + k - 1] = w[k]}
  BY <1>5 DEF Matching
<1> QED
  BY <1>6, <1>7, <1>8

\* How far it is from c to i, around the end of the text and its NUL.
LEMMA DistanceIs ==
    ASSUME NEW L \in Nat, NEW i \in 0..L - 1, NEW c \in 0..L
    PROVE  (i - c + L + 1) % (L + 1) = IF i >= c THEN i - c ELSE i - c + L + 1
<1>1. PICK n \in Nat \ {0} : n = L + 1
  OBVIOUS
<1>2. CASE i >= c
  <2>1. PICK d \in 0..n - 1 : d = i - c
    BY <1>1, <1>2
  <2>2. (n * 1 + d) % n = d
    BY ModUnique
  <2>3. n * 1 + d = i - c + L + 1
    BY <1>1, <2>1
  <2> QED
    BY <1>1, <1>2, <2>1, <2>2, <2>3
<1>3. CASE ~(i >= c)
  <2>1. PICK d \in 0..n - 1 : d = i - c + L + 1
    BY <1>1, <1>3
  <2>2. d % n = d
    BY ModSmall
  <2> QED
    BY <1>1, <1>3, <2>1, <2>2
<1> QED
  BY <1>2, <1>3

\* Ahead of the cursor first, then from the start.
LEMMA FindsNext ==
    ASSUME TextHolds(buf, cur), NEW w, w \in Seq(Range(w))
    PROVE  LET m == Matching(w)  ahead == {i \in m : i >= cur} IN
           (IF ahead # {} THEN Min(ahead) ELSE IF m # {} THEN Min(m) ELSE cur) = NextAt(w, cur)
<1>1. PICK L \in Nat, c \in Nat : L = TextEnd /\ c = cur /\ c \in 0..L
  <2>1. TextEnd \in Memory /\ cur \in 0..TextEnd
    BY TextEndIs
  <2> QED
    BY <2>1, Constants DEF Memory
<1>2. Len(Text) = L
  BY <1>1 DEF Text
<1>3. PICK m : m = Matching(w)
  OBVIOUS
<1>4. m = {i \in 0..Len(Text) - 1 : IsPrefix(w, After(i))}
  BY <1>3, MatchingIs
<1>5. m \subseteq 0..L - 1 /\ m \subseteq Nat
  BY <1>2, <1>4
<1> DEFINE Far(i) == (i - c + L + 1) % (L + 1)  D == {Far(i) : i \in m}  ahead == {i \in m : i >= c}
<1>6. NextAt(w, cur) = IF m = {} THEN c ELSE (c + Min(D)) % (L + 1)
  BY <1>1, <1>2, <1>4 DEF NextAt
<1>7. \A i \in m : Far(i) = IF i >= c THEN i - c ELSE i - c + L + 1
  <2> SUFFICES ASSUME NEW i \in m PROVE Far(i) = IF i >= c THEN i - c ELSE i - c + L + 1
    OBVIOUS
  <2>1. i \in 0..L - 1 /\ c \in 0..L
    BY <1>1, <1>5
  <2> QED
    BY <2>1, DistanceIs
<1>8. \A i \in m : i \in Nat /\ i <= L - 1 /\ Far(i) \in Nat
  BY <1>1, <1>5, <1>7
<1> HIDE DEF Far
<1>9. ASSUME NEW x \in m, \A i \in m : Far(x) <= Far(i) PROVE Min(D) = Far(x)
  <2>1. D \subseteq Nat /\ Far(x) \in D /\ \A d \in D : Far(x) <= d
    BY <1>8, <1>9
  <2> HIDE DEF D
  <2>2. Min(D) \in D /\ \A d \in D : Min(D) <= d
    BY <2>1, LeastIs
  <2>3. Min(D) \in Nat /\ Far(x) \in Nat
    BY <2>1, <2>2
  <2> QED
    BY <2>1, <2>2, <2>3
<1>10. CASE ahead # {}
  <2>1. PICK x \in ahead : x = Min(ahead) /\ \A i \in ahead : x <= i
    <3>1. ahead \subseteq Nat
      BY <1>5
    <3> HIDE DEF ahead
    <3> QED
      BY <1>10, <3>1, LeastIs
  <2>2. x \in m /\ x \in Nat /\ x >= c /\ x <= L - 1 /\ Far(x) = x - c
    BY <1>7, <1>8, <2>1
  <2>3. ASSUME NEW i \in m PROVE Far(x) <= Far(i)
    <3>1. CASE i >= c
      BY <1>7, <1>8, <2>1, <2>2, <3>1
    <3>2. CASE ~(i >= c)
      <4>1. Far(i) = i - c + L + 1
        BY <1>7, <3>2
      <4> QED
        BY <1>1, <1>8, <2>2, <4>1
    <3> QED
      BY <3>1, <3>2
  <2>4. Min(D) = x - c
    BY <1>9, <2>2, <2>3
  <2>5. c + (x - c) = x /\ x \in 0..(L + 1) - 1 /\ L + 1 \in Nat \ {0}
    BY <1>1, <2>2
  <2>6. x % (L + 1) = x
    BY <2>5, ModSmall
  <2>7. NextAt(w, cur) = x
    BY <1>6, <2>2, <2>4, <2>5, <2>6
  <2> QED
    BY <1>1, <1>3, <1>10, <2>1, <2>7
<1>11. CASE ahead = {} /\ m # {}
  <2>1. PICK x \in m : x = Min(m) /\ \A i \in m : x <= i
    BY <1>5, <1>11, LeastIs
  <2>2. \A i \in m : ~(i >= c)
    BY <1>11
  <2>3. \A i \in m : Far(i) = i - c + L + 1
    BY <1>7, <2>2
  <2>4. \A i \in m : Far(x) <= Far(i)
    BY <1>1, <1>8, <2>1, <2>3
  <2>5. Min(D) = x - c + L + 1
    BY <1>9, <2>3, <2>4
  <2>6. PICK n \in Nat \ {0} : n = L + 1
    BY <1>1
  <2>7. c + (x - c + L + 1) = n * 1 + x /\ x \in 0..n - 1
    BY <1>1, <1>8, <2>6
  <2>8. (n * 1 + x) % n = x
    BY <2>7, ModUnique
  <2>9. NextAt(w, cur) = x
    BY <1>6, <1>11, <2>5, <2>6, <2>7, <2>8
  <2> QED
    BY <1>1, <1>3, <1>11, <2>1, <2>9
<1>12. CASE ahead = {} /\ m = {}
  BY <1>1, <1>3, <1>6, <1>12
<1> QED
  BY <1>10, <1>11, <1>12

LEMMA EditedCursorKeys ==
    ASSUME TextHolds(buf, cur), Clean
    PROVE  CursorKeysRight
<1> DEFINE r == Row(Text, cur)  last == Row(Text, Len(Text))  column == cur - Start(Text, r)
<1>1. /\ TextEnd \in Nat /\ cur \in 0..TextEnd /\ Len(Text) = TextEnd
      /\ buf[TextEnd] = NUL /\ \A i \in 0..TextEnd - 1 : buf[i] # NUL
  BY CleanText
<1>2. ASSUME NEW c, MovesTo(c) PROVE Text' = Text /\ cur' = c
  BY <1>2, InBuf DEF MovesTo, Key
<1>3. ASSUME Left PROVE GoesTo(IF cur = 0 THEN 0 ELSE cur - 1)
  BY <1>2, <1>3 DEF Left, GoesTo, Becomes
<1>4. ASSUME Right PROVE GoesTo(IF cur = Len(Text) THEN cur ELSE cur + 1)
  <2>1. buf[cur] = NUL <=> cur = Len(Text)
    <3>1. cur # TextEnd => cur \in 0..TextEnd - 1
      BY <1>1
    <3> QED
      BY <1>1, <3>1
  <2>2. MovesTo(IF buf[cur] = NUL THEN cur ELSE cur + 1)
    BY <1>4 DEF Right
  <2>3. Text' = Text /\ cur' = IF buf[cur] = NUL THEN cur ELSE cur + 1
    BY <1>2, <2>2
  <2> QED
    BY <2>1, <2>3 DEF GoesTo, Becomes
<1>5. ASSUME Home PROVE GoesTo(Start(Text, r))
  <2>1. Text' = Text /\ cur' = BolOf(cur)
    BY <1>2, <1>5 DEF Home
  <2> QED
    BY <2>1, LineKeysGo DEF GoesTo, Becomes
<1>6. ASSUME ToEnd PROVE GoesTo(Stop(Text, r))
  <2>1. Text' = Text /\ cur' = EolOf(cur)
    BY <1>2, <1>6 DEF ToEnd
  <2> QED
    BY <2>1, LineKeysGo DEF GoesTo, Becomes
<1>7. ASSUME Up PROVE GoesTo(IF r = 1 THEN 0 ELSE Place(Text, r - 1, column))
  <2>1. MovesTo(IF BolOf(cur) = 0 THEN 0 ELSE Along(BolOf(BolOf(cur) - 1), cur - BolOf(cur)))
    BY <1>7 DEF Up
  <2>2. Text' = Text /\ cur' = IF BolOf(cur) = 0 THEN 0 ELSE Along(BolOf(BolOf(cur) - 1), cur - BolOf(cur))
    BY <1>2, <2>1
  <2> QED
    BY <2>2, LineKeysGo DEF GoesTo, Becomes
<1>8. ASSUME Down PROVE GoesTo(IF r = last THEN Len(Text) ELSE Place(Text, r + 1, column))
  <2> DEFINE e == EolOf(cur)
  <2>1. MovesTo(IF buf[e] = NUL \/ (buf[e] = "\r" /\ buf[e + 1] # NL) THEN Behind(e)
                ELSE Along(Behind(e), cur - BolOf(cur)))
    BY <1>8 DEF Down
  <2>2. Text' = Text /\ cur' = IF buf[e] = NUL \/ (buf[e] = "\r" /\ buf[e + 1] # NL) THEN Behind(e)
                               ELSE Along(Behind(e), cur - BolOf(cur))
    BY <1>2, <2>1
  <2> QED
    BY <2>2, LineKeysGo DEF GoesTo, Becomes
<1>9. ASSUME PageUp PROVE GoesTo(Start(Text, Max({1, r - PageLines})))
  <2>1. PICK p : p = LET after[n \in 0..PageLines] ==
                             IF n = 0 THEN BolOf(cur)
                             ELSE IF after[n - 1] = 0 THEN 0 ELSE BolOf(after[n - 1] - 1) IN
                     after[PageLines]
    OBVIOUS
  <2>2. MovesTo(p)
    BY <1>9, <2>1 DEF PageUp
  <2>3. p = Start(Text, Max({1, r - PageLines}))
    BY <2>1, PageUpIs
  <2> QED
    BY <1>2, <2>2, <2>3 DEF GoesTo, Becomes
<1>10. ASSUME PageDown PROVE GoesTo(IF r + PageLines > last THEN Len(Text) ELSE Start(Text, r + PageLines))
  <2>1. PICK p : p = LET after[n \in 0..PageLines] == IF n = 0 THEN cur ELSE Behind(EolOf(after[n - 1])) IN
                     after[PageLines]
    OBVIOUS
  <2>2. MovesTo(p)
    BY <1>10, <2>1 DEF PageDown
  <2>3. p = IF r + PageLines > last THEN Len(Text) ELSE Start(Text, r + PageLines)
    BY <2>1, PageDownIs
  <2> QED
    BY <1>2, <2>2, <2>3 DEF GoesTo, Becomes
<1>11. ASSUME NEW w \in Searches, Find(w) PROVE GoesTo(NextAt(w, cur))
  <2>1. w \in Seq(Range(w))
    BY EditAssumption DEF EditAssumption
  <2>2. PICK m : m = Matching(w)
    OBVIOUS
  <2> DEFINE ahead == {i \in m : i >= cur}  p == IF ahead # {} THEN Min(ahead) ELSE IF m # {} THEN Min(m) ELSE cur
  <2>3. MovesTo(p)
    BY <1>11, <2>2 DEF Find
  <2>4. p = NextAt(w, cur)
    BY <2>1, <2>2, FindsNext
  <2> HIDE DEF p
  <2> QED
    BY <1>2, <2>3, <2>4 DEF GoesTo, Becomes
<1> QED
  BY <1>3, <1>4, <1>5, <1>6, <1>7, <1>8, <1>9, <1>10, <1>11 DEF CursorKeysRight
-----------------------------------------------------------------------------
(***************************************************************************)
(* Loading and saving.                                                     *)
(***************************************************************************)
\* What has come of the file, as long as no command has failed.
Loaded ==
    /\ tpc = "wopen" => buf = [i \in Memory |-> NUL]
    /\ tpc \in {"wread", "wclose"} /\ ~faulty =>
         /\ fname = 1 /\ HoldTexts({store}) /\ kept \in 0..size
         /\ LET n == Len(store[1]) % (Wide * Wide) IN size = IF n >= EditBuf THEN EditBuf - 1 ELSE n
         /\ \A i \in Memory : buf[i] = IF i < size - kept THEN store[1][i + 1] ELSE NUL
         /\ tpc = "wread" => fds[handles[1]].file = 1 /\ fds[handles[1]].pos = size - kept
         /\ tpc = "wclose" => kept = 0

LEMMA SizeIs ==
    ASSUME HoldTexts({store}), NEW n, n = Len(store[1]) % (Wide * Wide),
           NEW z, z = IF n >= EditBuf THEN EditBuf - 1 ELSE n
    PROVE  /\ store[1] \in Seq(Range(store[1])) /\ Len(store[1]) \in Nat
           /\ z \in 0..EditBuf - 1 /\ z <= Len(store[1]) /\ n \in Nat
           /\ Len(store[1]) < Wide * Wide => n = Len(store[1])
<1>1. store[1] \in Seq(Range(store[1])) /\ EditBuf \in Nat \ {0} /\ Wide \in Nat \ {0}
  BY Constants DEF HoldTexts
<1>2. PICK l \in Nat : l = Len(store[1])
  BY <1>1
<1>3. PICK w \in Nat \ {0} : w = Wide * Wide
  <2>1. Wide >= 1 /\ Wide \in Nat
    BY <1>1
  <2>2. Wide * Wide >= 1 /\ Wide * Wide \in Nat
    BY <2>1
  <2> QED
    BY <2>2
<1>4. n \in 0..w - 1 /\ n <= l
  BY <1>2, <1>3, ModType, ModLess, l \in Int
<1>5. l < w => n = l
  <2>1. l < w => l \in 0..w - 1
    BY <1>3
  <2> QED
    BY <1>2, <1>3, <2>1, ModSmall
<1>6. n \in Nat
  BY <1>3, <1>4
<1>7. z \in 0..EditBuf - 1 /\ z <= l
  <2>1. PICK M \in Nat \ {0} : M = EditBuf
    BY <1>1
  <2>2. n <= l
    BY <1>4
  <2>3. z = IF n >= M THEN M - 1 ELSE n
    BY <2>1
  <2>4. z \in 0..M - 1 /\ z <= l
    BY <1>6, <2>1, <2>2, <2>3
  <2> QED
    BY <2>1, <2>4
<1> QED
  BY <1>1, <1>2, <1>3, <1>5, <1>6, <1>7

LEMMA LoadOpenLoads == EditHolding /\ Loaded /\ Loading /\ LoadOpen => Loaded'
<1> SUFFICES ASSUME EditHolding, Loaded, Loading, LoadOpen PROVE Loaded'
  OBVIOUS
<1>1. /\ tpc = "wopen" /\ fname = 1 /\ fname' = fname /\ HoldTexts({store}) /\ DOMAIN fds = {0, 1}
      /\ buf = [i \in Memory |-> NUL] /\ buf' = buf
  BY DEF LoadOpen, At, Loading, Loaded, EditHolding, Holding, editVars, text
<1>2. CASE Fails("open") /\ tpc' = "edit"
  BY <1>2 DEF Loaded
<1>3. ASSUME NEW h \in {0, 1}, Store!Open(fname, "rw", h), handles' = <<h>>,
             LET length == reply'.data[2] % (Wide * Wide) IN
             size' = IF length >= EditBuf THEN EditBuf - 1 ELSE length,
             kept' = size', tpc' = IF kept' = 0 THEN "wclose" ELSE "wread"
      PROVE  Loaded'
  <2>1. reply'.data[2] = Len(store[1]) /\ fds'[h] = [st |-> "rw", file |-> 1, pos |-> 0] /\ store' = store
    BY <1>1, <1>3 DEF Store!Open, Store!Answered
  <2>2. PICK n : n = Len(store[1]) % (Wide * Wide)
    OBVIOUS
  <2>3. size' = IF n >= EditBuf THEN EditBuf - 1 ELSE n
    BY <1>3, <2>1, <2>2
  <2>4. PICK z : z = size'
    OBVIOUS
  <2>5. z \in 0..EditBuf - 1
    BY <1>1, <2>2, <2>3, <2>4, SizeIs
  <2>6. z \in Nat /\ kept' = z /\ kept' \in 0..size' /\ size' - kept' = 0
    BY <1>3, <2>4, <2>5, Constants
  <2>7. \A i \in Memory : buf'[i] = IF i < size' - kept' THEN store'[1][i + 1] ELSE NUL
    <3>1. \A i \in Memory : ~(i < 0)
      BY DEF Memory
    <3> QED
      BY <1>1, <2>6, <3>1
  <2>8. fds'[handles'[1]].file = 1 /\ fds'[handles'[1]].pos = size' - kept'
    BY <1>3, <2>1, <2>6
  <2>9. tpc' # "wopen" /\ (tpc' = "wclose" => kept' = 0)
    BY <1>3
  <2>10. size' = IF Len(store'[1]) % (Wide * Wide) >= EditBuf THEN EditBuf - 1 ELSE Len(store'[1]) % (Wide * Wide)
    BY <2>1, <2>2, <2>3
  <2>11. HoldTexts({store'}) /\ fname' = 1
    BY <1>1, <2>1
  <2> QED
    BY <2>6, <2>7, <2>8, <2>9, <2>10, <2>11 DEF Loaded, HoldTexts
<1> QED
  BY <1>2, <1>3 DEF LoadOpen

LEMMA LoadReadLoads == EditHolding /\ Loaded /\ LoadRead => Loaded'
<1> SUFFICES ASSUME EditHolding, Loaded, LoadRead PROVE Loaded'
  OBVIOUS
<1>1. tpc = "wread" /\ tpc' \in {"wread", "wclose"} /\ fname' = fname /\ handles' = handles /\ size' = size
  BY DEF LoadRead, At
<1>2. CASE Fails("read") /\ tpc' = "wclose"
  BY <1>2 DEF Loaded, Fails
<1> DEFINE n == IF kept < EditChunk THEN kept ELSE EditChunk
<1>3. ASSUME ~faulty, UNCHANGED faulty, Reads(handles[1], n),
             LET from == size - kept  d == reply'.data IN
             buf' = [i \in Memory |-> IF i - from + 1 \in DOMAIN d THEN d[i - from + 1] ELSE buf[i]],
             kept' = kept - Len(reply'.data), tpc' = IF kept' = 0 THEN "wclose" ELSE "wread"
      PROVE  Loaded'
  <2>1. /\ fname = 1 /\ HoldTexts({store}) /\ kept \in 0..size
        /\ \A i \in Memory : buf[i] = IF i < size - kept THEN store[1][i + 1] ELSE NUL
        /\ fds[handles[1]].file = 1 /\ fds[handles[1]].pos = size - kept
    BY <1>1, <1>3 DEF Loaded
  <2>2. PICK l : l = Len(store[1]) % (Wide * Wide)
    OBVIOUS
  <2>3. size = IF l >= EditBuf THEN EditBuf - 1 ELSE l
    BY <1>1, <1>3, <2>2 DEF Loaded
  <2>4. /\ store[1] \in Seq(Range(store[1])) /\ Len(store[1]) \in Nat
        /\ size \in 0..EditBuf - 1 /\ size <= Len(store[1])
    BY <2>1, <2>2, <2>3, SizeIs
  <2>5. PICK z \in Nat, k \in Nat, a \in Nat, c \in Nat, M \in Nat :
           z = size /\ k = kept /\ a = size - kept /\ c = n /\ c <= k /\ z = a + k /\ M = EditBuf /\ z <= M - 1
    <3>1. EditChunk \in Nat /\ EditBuf \in Nat \ {0}
      BY Constants
    <3>2. size \in Nat /\ kept \in Nat /\ size - kept \in Nat /\ n \in Nat /\ n <= kept
          /\ size = (size - kept) + kept /\ size <= EditBuf - 1
      BY <2>1, <2>4, <3>1
    <3> HIDE DEF n
    <3> QED
      BY <3>1, <3>2
  <2>6. PICK h \in {0, 1} : h = handles[1]
    <3>1. Len(handles) = 1 /\ handles \in Hands
      BY <1>1 DEF EditHolding, EditHands, Holding
    <3>2. PICK x \in {0, 1} : handles = <<x>>
      BY <3>1, FewHands
    <3> QED
      BY <3>2
  <2>7. PICK d : d = reply'.data
    OBVIOUS
  <2>8. Reads(h, c)
    BY <1>3, <2>5, <2>6
  <2>9. d = Store!Slice(store[1], a, c) /\ store' = store
        /\ fds'[h].file = 1 /\ fds'[h].pos = a + Len(d)
    BY <2>1, <2>5, <2>6, <2>7, <2>8, ReadGives DEF EditHolding, Holding
  <2>10. Len(d) = c /\ DOMAIN d = 1..c /\ \A x \in 1..c : d[x] = store[1][a + x]
    <3>1. Store!Smaller(Len(store[1]), a + c) = a + c
      BY <2>4, <2>5 DEF Store!Smaller
    <3>2. d = SubSeq(store[1], a + 1, a + c)
      BY <2>9, <3>1 DEF Store!Slice
    <3>3. PICK f \in Nat, g \in Nat : f = a + 1 /\ g = a + c /\ g <= Len(store[1]) /\ 1 <= f
      <4>1. PICK y \in Nat : y = Len(store[1])
        BY <2>4
      <4>2. z <= y /\ z = a + k /\ c <= k
        BY <2>4, <2>5, <4>1
      <4>3. a + 1 \in Nat /\ a + c \in Nat /\ a + c <= y /\ 1 <= a + 1
        BY <4>2
      <4> QED
        BY <4>1, <4>3
    <3>4. /\ d \in Seq(Range(store[1])) /\ Len(d) = IF f <= g THEN g - f + 1 ELSE 0
          /\ \A x \in 1..g - f + 1 : d[x] = store[1][f + x - 1]
      BY <2>4, <3>2, <3>3, PartIs
    <3>5. (IF f <= g THEN g - f + 1 ELSE 0) = c /\ g - f + 1 = c
      BY <3>3
    <3>6. \A x \in 1..c : f + x - 1 = a + x
      BY <3>3
    <3>7. Len(d) = c
      BY <3>4, <3>5
    <3> QED
      BY <3>4, <3>5, <3>6, <3>7
  <2>11. buf' = [i \in Memory |-> IF i - a + 1 \in 1..c THEN d[i - a + 1] ELSE buf[i]]
    BY <1>3, <2>5, <2>7, <2>10
  <2>12. kept' = k - c /\ size' - kept' = a + c /\ kept' \in 0..size'
    BY <1>1, <1>3, <2>5, <2>7, <2>10
  <2> HIDE DEF n
  <2>13. ASSUME NEW i \in Memory PROVE buf'[i] = IF i < a + c THEN store[1][i + 1] ELSE NUL
    <3>1. i \in Nat
      BY Constants DEF Memory
    <3>2. buf[i] = IF i < a THEN store[1][i + 1] ELSE NUL
      BY <2>1, <2>5
    <3>3. buf'[i] = IF i - a + 1 \in 1..c THEN d[i - a + 1] ELSE buf[i]
      BY <2>11
    <3>4. CASE i < a
      <4>1. i - a + 1 \notin 1..c /\ i < a + c
        BY <3>1, <3>4
      <4> QED
        BY <3>2, <3>3, <3>4, <4>1
    <3>5. CASE ~(i < a) /\ i < a + c
      <4>1. PICK x \in 1..c : x = i - a + 1 /\ a + x = i + 1
        <5>1. i - a + 1 \in 1..c /\ a + (i - a + 1) = i + 1
          BY <3>1, <3>5
        <5> QED
          BY <5>1
      <4> QED
        BY <2>10, <3>3, <3>5, <4>1
    <3>6. CASE ~(i < a + c)
      <4>1. i - a + 1 \notin 1..c /\ ~(i < a)
        BY <3>1, <3>6
      <4> QED
        BY <3>2, <3>3, <3>6, <4>1
    <3> QED
      BY <3>4, <3>5, <3>6
  <2>14. fds'[handles'[1]].file = 1 /\ fds'[handles'[1]].pos = size' - kept'
    BY <1>1, <2>6, <2>9, <2>10, <2>12
  <2>15. tpc' # "wopen" /\ (tpc' = "wclose" => kept' = 0)
    BY <1>3
  <2>16. size' = IF Len(store'[1]) % (Wide * Wide) >= EditBuf THEN EditBuf - 1 ELSE Len(store'[1]) % (Wide * Wide)
    BY <1>1, <2>2, <2>3, <2>9
  <2>17. HoldTexts({store'}) /\ fname' = 1
    BY <1>1, <2>1, <2>9
  <2>18. \A i \in Memory : buf'[i] = IF i < size' - kept' THEN store'[1][i + 1] ELSE NUL
    BY <2>9, <2>12, <2>13
  <2> HIDE DEF n
  <2> QED
    BY <2>12, <2>14, <2>15, <2>16, <2>17, <2>18 DEF Loaded, HoldTexts
<1>4. CASE faulty /\ UNCHANGED faulty
  BY <1>1, <1>4 DEF Loaded
<1> HIDE DEF n
<1> QED
  BY <1>2, <1>3, <1>4 DEF LoadRead, Reads, n

LEMMA LoadedStep == EditHolding /\ Loading /\ Loaded /\ [EditNext]_<<toolVars, editVars>> => Loaded'
<1> SUFFICES ASSUME EditHolding, Loading, Loaded, [EditNext]_<<toolVars, editVars>> PROVE Loaded'
  OBVIOUS
<1>1. CASE LoadOpen
  BY <1>1, LoadOpenLoads
<1>2. CASE LoadRead
  BY <1>2, LoadReadLoads
<1>3. ASSUME tpc' \in {"edit", "done"} PROVE Loaded'
  BY <1>3 DEF Loaded
<1>4. CASE LoadClose
  BY <1>3, <1>4 DEF LoadClose
<1>5. ASSUME NEW b, NEW c, Key(b, c) PROVE Loaded'
  BY <1>3, <1>5 DEF Key, Pressed, At
<1>6. CASE \E c \in Letters : Type(c)
  BY <1>3, <1>6 DEF Type, Pressed, At
<1>7. CASE Enter \/ Tab \/ Backspace \/ Delete
  BY <1>5, <1>7 DEF Enter, Tab, Backspace, Delete, MovesTo
<1>8. CASE Left \/ Right \/ Up \/ Down \/ Home \/ ToEnd
  BY <1>5, <1>8 DEF Left, Right, Up, Down, Home, ToEnd, MovesTo
<1>9. CASE PageUp \/ PageDown \/ \E w \in Searches : Find(w)
  BY <1>5, <1>9 DEF PageUp, PageDown, Find, MovesTo
<1>10. CASE \E n \in {0, 1, 2} : SaveAs(n) \/ SaveAsLeft(n) \/ Exit(n)
  BY <1>3, <1>10 DEF SaveAs, SaveAsLeft, Exit, Pressed, At
<1>11. CASE UNCHANGED <<toolVars, editVars>>
  <2>1. UNCHANGED editVars /\ UNCHANGED toolVars
    BY <1>11
  <2>2. tpc' = tpc /\ fname' = fname /\ store' = store /\ fds' = fds /\ handles' = handles
        /\ size' = size /\ kept' = kept /\ buf' = buf /\ faulty' = faulty
    BY <2>1 DEF toolVars, fileVars, editVars, text
  <2> QED
    BY <2>2 DEF Loaded, HoldTexts, Memory
<1> QED
  BY <1>1, <1>2, <1>4, <1>6, <1>7, <1>8, <1>9, <1>10, <1>11 DEF EditNext

\* A loaded file, and what is behind it.
LEMMA LoadCloseRight ==
    ASSUME Loaded, LoadClose, ~faulty, Len(store[fname]) < Wide * Wide, NUL \notin Range(store[fname])
    PROVE  /\ Text' = Store!Slice(store[fname], 0, EditBuf - 1)
           /\ "\r" \notin Range(store[fname]) => Clean'
<1> DEFINE s == store[1]
<1>1. tpc = "wclose" /\ buf' = buf
  BY DEF LoadClose, At, editVars, text
<1>2. /\ fname = 1 /\ HoldTexts({store}) /\ kept = 0 /\ kept \in 0..size
      /\ \A i \in Memory : buf[i] = IF i < size - kept THEN s[i + 1] ELSE NUL
  BY <1>1 DEF Loaded
<1>3. PICK n : n = Len(store[1]) % (Wide * Wide)
  OBVIOUS
<1>4. size = IF n >= EditBuf THEN EditBuf - 1 ELSE n
  BY <1>1, <1>3 DEF Loaded
<1>5. /\ s \in Seq(Range(s)) /\ Len(s) \in Nat /\ size \in 0..EditBuf - 1 /\ size <= Len(s)
      /\ n = Len(s) /\ NUL \notin Range(s)
  BY <1>2, <1>3, <1>4, SizeIs
<1> HIDE DEF s
<1>6. PICK z \in Nat, M \in Nat, l \in Nat :
         z = size /\ M = EditBuf /\ l = Len(s) /\ z <= M - 1 /\ z <= l /\ z = IF l >= M THEN M - 1 ELSE l
  <2>1. EditBuf \in Nat /\ size \in Nat /\ size <= EditBuf - 1
    BY <1>5, Constants
  <2> QED
    BY <1>4, <1>5, <2>1
<1>7. Memory = 0..M - 1
  BY <1>6 DEF Memory
<1>8. /\ \A i \in 0..z - 1 : buf[i] = s[i + 1]
      /\ \A i \in z..M - 1 : buf[i] = NUL
  <2>1. size - kept = z
    BY <1>2, <1>6
  <2>2. ASSUME NEW i \in 0..z - 1 PROVE buf[i] = s[i + 1]
    <3>1. i \in Memory /\ i < z
      BY <1>6, <1>7
    <3> QED
      BY <1>2, <2>1, <3>1
  <2>3. ASSUME NEW i \in z..M - 1 PROVE buf[i] = NUL
    <3>1. i \in Memory /\ ~(i < z)
      BY <1>6, <1>7
    <3> QED
      BY <1>2, <2>1, <3>1
  <2> QED
    BY <2>2, <2>3
<1>9. \A i \in 1..l : s[i] \in Range(s)
  BY <1>5, <1>6 DEF Range
<1>10. \A i \in 0..z - 1 : i + 1 \in 1..l /\ buf[i] \in Range(s) /\ buf[i] # NUL
  <2> SUFFICES ASSUME NEW i \in 0..z - 1 PROVE i + 1 \in 1..l /\ buf[i] \in Range(s) /\ buf[i] # NUL
    OBVIOUS
  <2>1. i + 1 \in 1..l
    BY <1>6
  <2> QED
    BY <1>5, <1>8, <1>9, <2>1
<1>11. EndOf(buf) = z
  <2>1. z \in Memory /\ buf[z] = NUL
    <3>1. z \in z..M - 1 /\ z \in 0..M - 1
      BY <1>6
    <3> QED
      BY <1>7, <1>8, <3>1
  <2> QED
    BY <1>10, <2>1, EndIs
<1>12. TextIn(buf) \in Seq(Range(s)) /\ Len(TextIn(buf)) = z /\ \A i \in 1..z : TextIn(buf)[i] = buf[i - 1]
  BY <1>10, <1>11, TextInIs
<1>13. TextIn(buf) = SubSeq(s, 1, z)
  <2> DEFINE t == TextIn(buf)  u == SubSeq(s, 1, z)
  <2>1. u \in Seq(Range(s)) /\ Len(u) = z /\ \A i \in 1..z : u[i] = s[i]
    <3>1. /\ u \in Seq(Range(s)) /\ Len(u) = IF 1 <= z THEN z - 1 + 1 ELSE 0
          /\ \A i \in 1..z - 1 + 1 : u[i] = s[1 + i - 1]
      BY <1>5, <1>6, PartIs
    <3>2. \A i \in 1..z : i \in 1..z - 1 + 1 /\ 1 + i - 1 = i
      OBVIOUS
    <3>3. (IF 1 <= z THEN z - 1 + 1 ELSE 0) = z
      OBVIOUS
    <3> HIDE DEF u
    <3> QED
      BY <3>1, <3>2, <3>3
  <2>2. ASSUME NEW i \in 1..z PROVE t[i] = u[i]
    <3>1. i - 1 \in 0..z - 1 /\ (i - 1) + 1 = i
      OBVIOUS
    <3> QED
      BY <1>8, <1>12, <2>1, <3>1
  <2>3. t \in Seq(Range(s)) /\ Len(t) = z
    BY <1>12
  <2> HIDE DEF t, u
  <2>4. t = u
    BY <2>1, <2>2, <2>3, SeqEqual
  <2> QED
    BY <2>4 DEF t, u
<1>14. Store!Slice(s, 0, EditBuf - 1) = SubSeq(s, 1, z)
  <2>1. Store!Smaller(Len(s), 0 + (EditBuf - 1)) = z
    BY <1>6 DEF Store!Smaller
  <2>2. 0 + 1 = 1
    OBVIOUS
  <2> QED
    BY <2>1, <2>2 DEF Store!Slice
<1>15. ASSUME "\r" \notin Range(s) PROVE CleanIn(buf)
  <2>1. \A i \in z..M - 1 : buf[i] = NUL
    BY <1>8
  <2>2. ASSUME NEW i \in Memory PROVE buf[i] # "\r"
    <3>1. i \in 0..z - 1 \/ i \in z..M - 1
      BY <1>6, <1>7
    <3>2. i \in 0..z - 1 => buf[i] \in Range(s)
      BY <1>10
    <3> QED
      BY <1>8, <1>15, <3>1, <3>2 DEF NUL
  <2> QED
    BY <1>6, <1>11, <2>1, <2>2 DEF CleanIn
<1>16. TextIn(buf') = TextIn(buf) /\ (CleanIn(buf') <=> CleanIn(buf))
  BY <1>1
<1> QED
  BY <1>2, <1>13, <1>14, <1>15, <1>16, InBuf DEF s

\* A save writes the text to the file that is named, or nothing.
LEMMA SavesRight ==
    ASSUME NEW n \in {0, 1, 2}, Saves(n)
    PROVE  /\ store' # store => reply'.st = Store!OK
           /\ n \in {1, 2} => store' = IF reply'.st = Store!OK THEN [store EXCEPT ![n] = Text] ELSE store
<1>0. Store!ERR # Store!OK
  BY DEF Store!ERR, Store!OK
<1>1. CASE /\ n # 0 /\ Store!Answered("savemem", <<n>>, Store!OK, <<>>) /\ store' = [store EXCEPT ![n] = Text]
  <2>1. reply'.st = Store!OK
    BY <1>1 DEF Store!Answered
  <2> QED
    BY <1>1, <2>1
<1>2. CASE Refuses(Store!ERR)
  <2>1. reply'.st = Store!ERR /\ store' = store
    BY <1>2 DEF Refuses, Store!Answered, Store!Refused
  <2> QED
    BY <1>0, <2>1
<1>3. CASE Store!Answered("savemem", <<n>>, Store!ERR, <<>>) /\ UNCHANGED store
  <2>1. reply'.st = Store!ERR
    BY <1>3 DEF Store!Answered
  <2> QED
    BY <1>0, <1>3, <2>1
<1> QED
  BY <1>1, <1>2, <1>3 DEF Saves

LEMMA EditedFiles == Loaded /\ EditNext => FilesRight
<1> SUFFICES ASSUME Loaded, EditNext PROVE FilesRight
  OBVIOUS
<1>1. store' # store => reply'.st = Store!OK
  <2>1. ASSUME UNCHANGED store \/ UNCHANGED fileVars PROVE store' = store
    BY <2>1 DEF fileVars
  <2>2. CASE LoadOpen \/ LoadRead \/ LoadClose
    BY <2>2 DEF LoadOpen, LoadRead, LoadClose, Fails, Refuses, Reads,
                Store!Open, Store!Read, Store!Close, Store!Refused
  <2>3. ASSUME NEW b, NEW c, Key(b, c) PROVE store' = store
    BY <2>1, <2>3 DEF Key
  <2>4. CASE \E c \in Letters : Type(c)
    BY <2>1, <2>4 DEF Type
  <2>5. CASE Enter \/ Tab \/ Backspace \/ Delete
    BY <2>3, <2>5 DEF Enter, Tab, Backspace, Delete, MovesTo
  <2>6. CASE Left \/ Right \/ Up \/ Down \/ Home \/ ToEnd
    BY <2>3, <2>6 DEF Left, Right, Up, Down, Home, ToEnd, MovesTo
  <2>7. CASE PageUp \/ PageDown \/ \E w \in Searches : Find(w)
    BY <2>3, <2>7 DEF PageUp, PageDown, Find, MovesTo
  <2>8. ASSUME NEW n \in {0, 1, 2}, SaveAs(n) \/ SaveAsLeft(n) \/ Exit(n)
        PROVE  store' # store => reply'.st = Store!OK
    <3>1. Saves(n) => (store' # store => reply'.st = Store!OK)
      BY SavesRight
    <3> QED
      BY <2>1, <2>8, <3>1 DEF SaveAs, SaveAsLeft, Exit
  <2> QED
    BY <2>2, <2>4, <2>5, <2>6, <2>7, <2>8 DEF EditNext
<1>2. ASSUME NEW n \in {1, 2}, SaveAs(n) \/ (Exit(n) /\ n # 0)
      PROVE  store' = IF reply'.st = Store!OK THEN [store EXCEPT ![n] = Text] ELSE store
  <2>1. Saves(n)
    BY <1>2 DEF SaveAs, Exit
  <2> QED
    BY <2>1, SavesRight, n \in {0, 1, 2}
<1> QED
  BY <1>1, <1>2, LoadCloseRight DEF FilesRight

LEMMA EditedKeys ==
    ASSUME TextHolds(buf, cur), Clean, tpc = "edit", EditNext
    PROVE  TextKeysRight /\ CursorKeysRight /\ Clean'
<1>1. TextKeysRight /\ CursorKeysRight
  BY EditedTextKeys, EditedCursorKeys
<1>2. ASSUME buf' = buf PROVE Clean'
  BY <1>2, InBuf
<1>3. CASE (\E c \in Letters : Type(c)) \/ Enter \/ Tab \/ Backspace \/ Delete
  BY <1>1, <1>3, EditedTextKeys
<1>4. ASSUME NEW c, MovesTo(c) PROVE Clean'
  BY <1>2, <1>4 DEF MovesTo, Key
<1>5. CASE Left \/ Right \/ Up \/ Down \/ Home \/ ToEnd
  BY <1>1, <1>4, <1>5 DEF Left, Right, Up, Down, Home, ToEnd
<1>6. CASE PageUp \/ PageDown \/ \E w \in Searches : Find(w)
  BY <1>1, <1>4, <1>6 DEF PageUp, PageDown, Find
<1>7. CASE \E n \in {0, 1, 2} : SaveAs(n) \/ SaveAsLeft(n) \/ Exit(n)
  <2>1. UNCHANGED text
    BY <1>7 DEF SaveAs, SaveAsLeft, Exit
  <2> QED
    BY <1>1, <1>2, <2>1 DEF text
<1>8. ~LoadOpen /\ ~LoadRead /\ ~LoadClose
  BY DEF LoadOpen, LoadRead, LoadClose, At
<1> QED
  BY <1>1, <1>3, <1>5, <1>6, <1>7, <1>8 DEF EditNext

\* Every key of WRITE does to the text and the cursor what its name says, and
\* loading and saving carry a text as it is: for texts of any bytes, and any
\* sizes of the buffer, of the chunks and of the pages.
THEOREM EditorDoesRight == EditSpec => EditsAreRight
<1>1. EditInit => Edited /\ Loaded
  <2>1. EditInit => Loaded
    BY DEF EditInit, Loaded
  <2> QED
    BY <2>1, EditedInit
<1>2. Edited /\ Loaded /\ [EditNext]_<<toolVars, editVars>> => Edited' /\ Loaded'
  <2>1. Edited => EditHolding /\ Loading
    BY DEF Edited
  <2> QED
    BY <2>1, EditedStep, LoadedStep
<1>3. Edited /\ Loaded /\ [EditNext]_<<toolVars, editVars>> =>
        [FilesRight /\ (Clean /\ tpc = "edit" => TextKeysRight /\ CursorKeysRight /\ Clean')
          ]_<<toolVars, editVars>>
  <2>1. Edited => TextHolds(buf, cur)
    BY DEF Edited
  <2> QED
    BY <2>1, EditedFiles, EditedKeys
<1> QED
  BY <1>1, <1>2, <1>3, PTL DEF EditSpec, EditsAreRight
=============================================================================
