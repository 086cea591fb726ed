---------------------------- MODULE TreeProofs ----------------------------
(***************************************************************************)
(* Proofs about TreeOps, for every tree of directories, every way to cut   *)
(* them into blocks, every set of calls that may fail and a loss of power  *)
(* between any two: every safety property of the module.                   *)
(*                                                                         *)
(* The first parts are about lists: what a sequence holds when an element  *)
(* goes or comes, and the blocks of a directory.  The invariant is built   *)
(* in four layers, each with a lemma for every step that disturbs it:      *)
(*                                                                         *)
(*   WalkInv    the types, the tree, and the calls of the walker: each     *)
(*              reads a directory that is an entry of the next one         *)
(*   SpareInv   a removal adds nothing and walks only below its path       *)
(*   CursorInv  behind a cursor there is only the entry that is going,     *)
(*              through every deletion, dropped and split block            *)
(*   AnswerInv, ListInv   what is known of the answer, and of the list     *)
(***************************************************************************)
EXTENDS TreeOps, SequenceTheorems, WellFoundedInduction, TLAPS

\* A part of a sequence,
LEMMA PartIs ==
  ASSUME NEW S, NEW s \in Seq(S), NEW m \in 1..Len(s) + 1, NEW n \in m - 1..Len(s)
  PROVE  /\ SubSeq(s, m, n) \in Seq(S) /\ Len(SubSeq(s, m, n)) = n - m + 1
         /\ \A k \in 1..n - m + 1 : SubSeq(s, m, n)[k] = s[m + k - 1]
<1>1. Len(s) \in Nat /\ m \in Nat /\ n \in Nat /\ 1 <= m /\ m - 1 <= n /\ n <= Len(s)
  OBVIOUS
<1>2. \A i \in m..n : s[i] \in S
  BY <1>1
<1> QED
  BY <1>1, <1>2, SubSeqProperties

\* and two of them put together again.
LEMMA TwoParts ==
  ASSUME NEW S, NEW s \in Seq(S), NEW t \in Seq(S)
  PROVE  /\ s \o t \in Seq(S) /\ Len(s \o t) = Len(s) + Len(t)
         /\ \A k \in 1..Len(s) + Len(t) : (s \o t)[k] = IF k <= Len(s) THEN s[k] ELSE t[k - Len(s)]
BY ConcatProperties

\* A sequence without one of its elements,
LEMMA RemoveAtIs ==
  ASSUME NEW S, NEW s \in Seq(S), NEW i \in 1..Len(s)
  PROVE  /\ RemoveAt(s, i) \in Seq(S) /\ Len(RemoveAt(s, i)) = Len(s) - 1
         /\ \A k \in 1..Len(s) - 1 : RemoveAt(s, i)[k] = IF k < i THEN s[k] ELSE s[k + 1]
<1> DEFINE front == SubSeq(s, 1, i - 1)
           back == SubSeq(s, i + 1, Len(s))
<1>0. Len(s) \in Nat /\ i \in Nat /\ 1 <= i /\ i <= Len(s)
  OBVIOUS
<1>1. front \in Seq(S) /\ Len(front) = i - 1 /\ \A k \in 1..i - 1 : front[k] = s[k]
  BY <1>0, PartIs
<1>2. back \in Seq(S) /\ Len(back) = Len(s) - i /\ \A k \in 1..Len(s) - i : back[k] = s[i + k]
  BY <1>0, PartIs
<1> DEFINE both == front \o back
<1> HIDE DEF front, back
<1>3. /\ both \in Seq(S) /\ Len(both) = Len(front) + Len(back)
      /\ \A k \in 1..Len(front) + Len(back) :
            both[k] = IF k <= Len(front) THEN front[k] ELSE back[k - Len(front)]
  BY <1>1, <1>2, TwoParts
<1> HIDE DEF both
<1>4. ASSUME NEW k \in 1..Len(s) - 1 PROVE both[k] = IF k < i THEN s[k] ELSE s[k + 1]
  <2>1. both[k] = IF k <= i - 1 THEN front[k] ELSE back[k - (i - 1)]
    BY <1>0, <1>1, <1>2, <1>3
  <2>2. CASE k < i
    BY <1>0, <1>1, <2>1, <2>2
  <2>3. CASE k >= i
    <3>1. k - (i - 1) \in 1..Len(s) - i /\ i + (k - (i - 1)) = k + 1
      BY <1>0, <2>3
    <3>2. back[k - (i - 1)] = s[k + 1]
      BY <1>2, <3>1
    <3> QED
      BY <1>0, <2>1, <2>3, <3>2
  <2> QED
    BY <1>0, <2>2, <2>3
<1>5. both \in Seq(S) /\ Len(both) = Len(s) - 1
  BY <1>0, <1>1, <1>2, <1>3
<1> QED
  BY <1>4, <1>5 DEF RemoveAt, front, back, both

\* What a sequence holds beside its element b.
Others(s, b) == {s[k] : k \in DOMAIN s \ {b}}

\* What a sequence holds is what is at its places.
LEMMA RangeIs ==
  ASSUME NEW S, NEW s \in Seq(S)
  PROVE  Range(s) = {s[k] : k \in 1..Len(s)} /\ Range(s) \subseteq S
BY DEF Range

\* It holds the element at b and what it holds beside it.
LEMMA RangeApart ==
  ASSUME NEW S, NEW s \in Seq(S), NEW b \in 1..Len(s)
  PROVE  Range(s) = Others(s, b) \cup {s[b]}
BY DEF Range, Others

\* Two sequences together hold what each of them holds.
LEMMA RangeTwoParts ==
  ASSUME NEW S, NEW s \in Seq(S), NEW t \in Seq(S)
  PROVE  s \o t \in Seq(S) /\ Range(s \o t) = Range(s) \cup Range(t)
<1>0. Len(s) \in Nat /\ Len(t) \in Nat
  OBVIOUS
<1>1. PICK u : u = s \o t
  OBVIOUS
<1>2. /\ u \in Seq(S) /\ Len(u) = Len(s) + Len(t)
      /\ \A k \in 1..Len(s) + Len(t) : u[k] = IF k <= Len(s) THEN s[k] ELSE t[k - Len(s)]
  BY <1>1, TwoParts
<1>3. Range(u) \subseteq Range(s) \cup Range(t)
  <2> SUFFICES ASSUME NEW k \in 1..Len(u) PROVE u[k] \in Range(s) \cup Range(t)
    BY <1>2, RangeIs
  <2>1. CASE k <= Len(s)
    BY <1>0, <1>2, <2>1, RangeIs
  <2>2. CASE k > Len(s)
    <3>1. k - Len(s) \in 1..Len(t) /\ u[k] = t[k - Len(s)]
      BY <1>0, <1>2, <2>2
    <3> QED
      BY <3>1, RangeIs
  <2> QED
    BY <1>0, <2>1, <2>2
<1>4. ASSUME NEW k \in 1..Len(s) PROVE s[k] \in Range(u)
  <2>1. k \in 1..Len(u) /\ u[k] = s[k]
    BY <1>0, <1>2
  <2> QED
    BY <1>2, <2>1, RangeIs
<1>5. ASSUME NEW k \in 1..Len(t) PROVE t[k] \in Range(u)
  <2>1. k + Len(s) \in 1..Len(u) /\ u[k + Len(s)] = t[k]
    <3>1. PICK m : m = k + Len(s)
      OBVIOUS
    <3>2. m \in 1..Len(s) + Len(t) /\ ~(m <= Len(s)) /\ m - Len(s) = k
      BY <1>0, <3>1
    <3>3. u[m] = t[m - Len(s)]
      BY <1>2, <3>2
    <3> QED
      BY <1>2, <3>1, <3>2, <3>3
  <2>2. \A j \in 1..Len(u) : u[j] \in Range(u)
    BY <1>2, RangeIs
  <2> QED
    BY <2>1, <2>2
<1>6. Range(s) \subseteq Range(u) /\ Range(t) \subseteq Range(u)
  BY <1>4, <1>5, RangeIs
<1> QED
  BY <1>1, <1>2, <1>3, <1>6

\* The two parts around an element, and those of a cut.
LEMMA RangeAround ==
  ASSUME NEW S, NEW s \in Seq(S), NEW b \in 1..Len(s)
  PROVE  /\ SubSeq(s, 1, b - 1) \in Seq(S) /\ SubSeq(s, b + 1, Len(s)) \in Seq(S)
         /\ Range(SubSeq(s, 1, b - 1)) \cup Range(SubSeq(s, b + 1, Len(s))) = Others(s, b)
<1>0. Len(s) \in Nat /\ b \in Nat /\ 1 <= b /\ b <= Len(s) /\ DOMAIN s = 1..Len(s)
  OBVIOUS
<1>1. PICK f, g : f = SubSeq(s, 1, b - 1) /\ g = SubSeq(s, b + 1, Len(s))
  OBVIOUS
<1>2. f \in Seq(S) /\ Len(f) = b - 1 /\ \A k \in 1..b - 1 : f[k] = s[k]
  BY <1>0, <1>1, PartIs
<1>3. g \in Seq(S) /\ Len(g) = Len(s) - b /\ \A k \in 1..Len(s) - b : g[k] = s[b + k]
  <2>1. b + 1 \in 1..Len(s) + 1 /\ Len(s) \in (b + 1) - 1..Len(s) /\ Len(s) - (b + 1) + 1 = Len(s) - b
    BY <1>0
  <2>2. /\ g \in Seq(S) /\ Len(g) = Len(s) - (b + 1) + 1
        /\ \A k \in 1..Len(s) - (b + 1) + 1 : g[k] = s[(b + 1) + k - 1]
    BY <1>1, <2>1, PartIs
  <2> QED
    BY <1>0, <2>1, <2>2
<1>4. ASSUME NEW k \in 1..Len(f) PROVE f[k] \in Others(s, b)
  BY <1>0, <1>2 DEF Others
<1>5. ASSUME NEW k \in 1..Len(g) PROVE g[k] \in Others(s, b)
  <2>1. b + k \in DOMAIN s \ {b} /\ g[k] = s[b + k]
    BY <1>0, <1>3
  <2> QED
    BY <2>1 DEF Others
<1>6. ASSUME NEW k \in 1..Len(s) \ {b} PROVE s[k] \in Range(f) \cup Range(g)
  <2>1. CASE k < b
    <3>1. k \in 1..Len(f) /\ s[k] = f[k]
      BY <1>0, <1>2, <2>1
    <3> QED
      BY <1>2, <3>1, RangeIs
  <2>2. CASE k > b
    <3>1. k - b \in 1..Len(s) - b /\ b + (k - b) = k
      BY <1>0, <2>2
    <3>2. k - b \in 1..Len(g) /\ s[k] = g[k - b]
      BY <1>3, <3>1
    <3> QED
      BY <1>3, <3>2, RangeIs
  <2> QED
    BY <1>0, <2>1, <2>2
<1>7. Range(f) \subseteq Others(s, b) /\ Range(g) \subseteq Others(s, b)
  <2>1. Range(f) = {f[k] : k \in 1..Len(f)}
    BY <1>2, RangeIs
  <2>2. Range(g) = {g[k] : k \in 1..Len(g)}
    BY <1>3, RangeIs
  <2> QED
    BY <1>4, <1>5, <2>1, <2>2
<1>8. Others(s, b) \subseteq Range(f) \cup Range(g)
  BY <1>0, <1>6 DEF Others
<1> QED
  BY <1>1, <1>2, <1>3, <1>7, <1>8

\* A sequence that is cut in two holds what it held.
LEMMA RangeCut ==
  ASSUME NEW S, NEW s \in Seq(S), NEW i \in 0..Len(s)
  PROVE  /\ SubSeq(s, 1, i) \in Seq(S) /\ SubSeq(s, i + 1, Len(s)) \in Seq(S)
         /\ Range(SubSeq(s, 1, i)) \cup Range(SubSeq(s, i + 1, Len(s))) = Range(s)
<1>0. Len(s) \in Nat /\ i \in Nat /\ i <= Len(s)
  OBVIOUS
<1>1. PICK f, g : f = SubSeq(s, 1, i) /\ g = SubSeq(s, i + 1, Len(s))
  OBVIOUS
<1>2. f \in Seq(S) /\ Len(f) = i /\ \A k \in 1..i : f[k] = s[k]
  BY <1>0, <1>1, PartIs
<1>3. g \in Seq(S) /\ Len(g) = Len(s) - i /\ \A k \in 1..Len(s) - i : g[k] = s[i + k]
  BY <1>0, <1>1, PartIs
<1>4. ASSUME NEW k \in 1..Len(f) PROVE f[k] \in Range(s)
  BY <1>0, <1>2, RangeIs
<1>5. ASSUME NEW k \in 1..Len(g) PROVE g[k] \in Range(s)
  <2>1. i + k \in 1..Len(s) /\ g[k] = s[i + k]
    BY <1>0, <1>3
  <2> QED
    BY <2>1, RangeIs
<1>6. ASSUME NEW k \in 1..Len(s) PROVE s[k] \in Range(f) \cup Range(g)
  <2>1. CASE k <= i
    BY <1>0, <1>2, <2>1, RangeIs
  <2>2. CASE k > i
    <3>1. k - i \in 1..Len(s) - i /\ i + (k - i) = k
      BY <1>0, <2>2
    <3>2. k - i \in 1..Len(g) /\ s[k] = g[k - i]
      BY <1>3, <3>1
    <3> QED
      BY <1>3, <3>2, RangeIs
  <2> QED
    BY <1>0, <2>1, <2>2
<1>7. Range(f) \subseteq Range(s) /\ Range(g) \subseteq Range(s)
  <2>1. Range(f) = {f[k] : k \in 1..Len(f)}
    BY <1>2, RangeIs
  <2>2. Range(g) = {g[k] : k \in 1..Len(g)}
    BY <1>3, RangeIs
  <2> QED
    BY <1>4, <1>5, <2>1, <2>2
<1>8. Range(s) \subseteq Range(f) \cup Range(g)
  BY <1>6, RangeIs
<1> QED
  BY <1>1, <1>2, <1>3, <1>7, <1>8

\* What is left, or there, when an element is taken out, replaced or put in.
LEMMA RangeRemoveAt ==
  ASSUME NEW S, NEW s \in Seq(S), NEW i \in 1..Len(s)
  PROVE  RemoveAt(s, i) \in Seq(S) /\ Range(RemoveAt(s, i)) = Others(s, i)
<1>1. PICK f, g : f = SubSeq(s, 1, i - 1) /\ g = SubSeq(s, i + 1, Len(s))
  OBVIOUS
<1>2. f \in Seq(S) /\ g \in Seq(S) /\ Range(f) \cup Range(g) = Others(s, i)
  BY <1>1, RangeAround
<1>3. f \o g \in Seq(S) /\ Range(f \o g) = Others(s, i)
  <2>1. f \o g \in Seq(S) /\ Range(f \o g) = Range(f) \cup Range(g)
    BY <1>2, RangeTwoParts
  <2> QED
    BY <1>2, <2>1
<1> QED
  BY <1>1, <1>3 DEF RemoveAt

\* An element that is replaced goes, and the other one comes.
LEMMA RangeExcept ==
  ASSUME NEW S, NEW s \in Seq(S), NEW i \in 1..Len(s), NEW e \in S, NEW u, u = [s EXCEPT ![i] = e]
  PROVE  /\ u \in Seq(S) /\ Len(u) = Len(s)
         /\ Others(u, i) = Others(s, i) /\ Range(u) = Others(s, i) \cup {e}
<1>1. /\ u \in Seq(S) /\ Len(u) = Len(s) /\ u[i] = e
      /\ \A k \in 1..Len(s) \ {i} : u[k] = s[k]
  BY ExceptSeq
<1>2. Others(u, i) = Others(s, i)
  BY <1>1 DEF Others
<1>3. Range(u) = Others(u, i) \cup {u[i]}
  BY <1>1, RangeApart
<1> QED
  BY <1>1, <1>2, <1>3

\* An element that is put in comes to the others.
LEMMA RangeInsertAt ==
  ASSUME NEW S, NEW s \in Seq(S), NEW i \in 1..Len(s) + 1, NEW e \in S
  PROVE  InsertAt(s, i, e) \in Seq(S) /\ Range(InsertAt(s, i, e)) = Range(s) \cup {e}
<1>1. PICK f, g, m : f = SubSeq(s, 1, i - 1) /\ g = SubSeq(s, i, Len(s)) /\ m = <<e>>
  OBVIOUS
<1>2. f \in Seq(S) /\ g \in Seq(S) /\ Range(f) \cup Range(g) = Range(s)
  <2>1. PICK j : j = i - 1
    OBVIOUS
  <2>2. j \in 0..Len(s) /\ i = j + 1
    BY <2>1
  <2>3. /\ SubSeq(s, 1, j) \in Seq(S) /\ SubSeq(s, j + 1, Len(s)) \in Seq(S)
        /\ Range(SubSeq(s, 1, j)) \cup Range(SubSeq(s, j + 1, Len(s))) = Range(s)
    BY <2>2, RangeCut
  <2> QED
    BY <1>1, <2>1, <2>2, <2>3
<1>3. m \in Seq(S) /\ Range(m) = {e}
  BY <1>1 DEF Range
<1>4. PICK h : h = f \o m
  OBVIOUS
<1>5. h \in Seq(S) /\ Range(h) = Range(f) \cup {e}
  BY <1>2, <1>3, <1>4, RangeTwoParts
<1>6. h \o g \in Seq(S) /\ Range(h \o g) = Range(h) \cup Range(g)
  BY <1>2, <1>5, RangeTwoParts
<1> QED
  BY <1>1, <1>2, <1>4, <1>5, <1>6 DEF InsertAt

-----------------------------------------------------------------------------
(***************************************************************************)
(* Lists of blocks.                                                        *)
(***************************************************************************)
Lists == Seq(Seq(Nodes))

\* The entries are those of the blocks, one of them apart.
LEMMA EntriesInIs ==
  ASSUME NEW x \in Lists
  PROVE  /\ EntriesIn(x) = UNION {Range(y) : y \in Range(x)} /\ EntriesIn(x) \subseteq Nodes
         /\ \A b \in 1..Len(x) :
              EntriesIn(x) = (UNION {Range(y) : y \in Others(x, b)}) \cup Range(x[b])
<1>1. EntriesIn(x) = UNION {Range(y) : y \in Range(x)}
  BY DEF EntriesIn, Range
<1>2. Range(x) \subseteq Seq(Nodes)
  BY RangeIs DEF Lists
<1>3. \A y \in Seq(Nodes) : Range(y) \subseteq Nodes
  BY RangeIs
<1>4. \A b \in 1..Len(x) : Range(x) = Others(x, b) \cup {x[b]}
  BY RangeApart DEF Lists
<1> QED
  BY <1>1, <1>2, <1>3, <1>4

\* A split keeps them all.
LEMMA HalvesKeep ==
  ASSUME NEW x \in Lists, NEW b \in 1..Len(x), NEW y \in Halves(x, b)
  PROVE  y \in Lists /\ EntriesIn(y) = EntriesIn(x) /\ Len(y) \in {Len(x), Len(x) + 1}
<1>0. x[b] \in Seq(Nodes) /\ Len(x) \in Nat /\ b \in Nat /\ 1 <= b /\ b <= Len(x)
  BY DEF Lists
<1>1. CASE y = x
  BY <1>0, <1>1
<1>2. ASSUME NEW i \in 1..Len(x[b]) - 1,
             y = SubSeq(x, 1, b - 1)
                 \o <<SubSeq(x[b], 1, i), SubSeq(x[b], i + 1, Len(x[b]))>>
                 \o SubSeq(x, b + 1, Len(x))
      PROVE  y \in Lists /\ EntriesIn(y) = EntriesIn(x) /\ Len(y) = Len(x) + 1
  <2>1. PICK f, g, l, r, m : /\ f = SubSeq(x, 1, b - 1) /\ g = SubSeq(x, b + 1, Len(x))
                             /\ l = SubSeq(x[b], 1, i) /\ r = SubSeq(x[b], i + 1, Len(x[b]))
                             /\ m = <<l, r>>
    OBVIOUS
  <2>2. f \in Lists /\ g \in Lists /\ Range(f) \cup Range(g) = Others(x, b)
    BY <2>1, RangeAround DEF Lists
  <2>3. l \in Seq(Nodes) /\ r \in Seq(Nodes) /\ Range(l) \cup Range(r) = Range(x[b])
    <3>1. i \in 0..Len(x[b])
      BY <1>0
    <3> QED
      BY <1>0, <2>1, <3>1, RangeCut
  <2>4. m \in Lists /\ Range(m) = {l, r} /\ Len(m) = 2
    <3>1. m \in Lists /\ Len(m) = 2 /\ m[1] = l /\ m[2] = r /\ DOMAIN m = 1..2
      BY <2>1, <2>3 DEF Lists
    <3>2. 1..2 = {1, 2}
      OBVIOUS
    <3> QED
      BY <3>1, <3>2 DEF Range
  <2>10. PICK h : h = f \o m
    OBVIOUS
  <2>5. h \in Lists /\ Range(h) = Range(f) \cup {l, r}
    BY <2>2, <2>4, <2>10, RangeTwoParts DEF Lists
  <2>6. y \in Lists /\ Range(y) = Range(f) \cup {l, r} \cup Range(g)
    <3>1. y = h \o g
      BY <1>2, <2>1, <2>10
    <3>2. h \o g \in Lists /\ Range(h \o g) = Range(h) \cup Range(g)
      BY <2>2, <2>5, RangeTwoParts DEF Lists
    <3> QED
      BY <2>5, <3>1, <3>2
  <2>7. EntriesIn(y) = (UNION {Range(z) : z \in Others(x, b)}) \cup Range(l) \cup Range(r)
    <3>1. EntriesIn(y) = UNION {Range(z) : z \in Range(y)}
      BY <2>6, EntriesInIs
    <3>2. Range(y) = Others(x, b) \cup {l, r}
      BY <2>2, <2>6
    <3> QED
      BY <3>1, <3>2
  <2>8. EntriesIn(x) = (UNION {Range(z) : z \in Others(x, b)}) \cup Range(x[b])
    BY EntriesInIs
  <2>9. Len(y) = Len(x) + 1
    <3>1. Len(f) = b - 1
      BY <1>0, <2>1, PartIs DEF Lists
    <3>2. Len(g) = Len(x) - b
      <4>1. b + 1 \in 1..Len(x) + 1 /\ Len(x) \in (b + 1) - 1..Len(x)
        BY <1>0
      <4>2. Len(g) = Len(x) - (b + 1) + 1
        BY <2>1, <4>1, PartIs DEF Lists
      <4> QED
        BY <1>0, <4>2
    <3>3. Len(h) = b + 1 /\ y = h \o g
      <4>1. Len(h) = Len(f) + Len(m)
        BY <2>2, <2>4, <2>10, TwoParts DEF Lists
      <4> QED
        BY <1>0, <1>2, <2>1, <2>4, <2>10, <3>1, <4>1
    <3>4. Len(h \o g) = Len(h) + Len(g)
      BY <2>2, <2>5, TwoParts DEF Lists
    <3> QED
      BY <1>0, <3>2, <3>3, <3>4
  <2> QED
    BY <2>3, <2>6, <2>7, <2>8, <2>9
<1> QED
  BY <1>0, <1>1, <1>2 DEF Halves

\* Every nonempty set of natural numbers has a least one.
LEMMA LeastNatural ==
  ASSUME NEW T, T \subseteq Nat, T # {}
  PROVE  \E x \in T : \A y \in T : x <= y
<1> DEFINE R == OpToRel(<, Nat)
<1>1. IsWellFoundedOn(R, Nat)
  BY NatLessThanWellFounded
<1>2. PICK x \in T : \A y \in T : ~(<<y, x>> \in R)
  BY <1>1, WFMin
<1>3. \A y \in T : ~(y < x)
  BY <1>2 DEF OpToRel
<1> HIDE DEF R
<1>4. x \in Nat /\ \A y \in T : y \in Nat
  BY <1>2
<1> QED
  BY <1>2, <1>3, <1>4

\* A list in which one block is another.
LEMMA ListExcept ==
  ASSUME NEW x \in Lists, NEW b \in 1..Len(x), NEW e \in Seq(Nodes),
         NEW u, u = [x EXCEPT ![b] = e]
  PROVE  u \in Lists /\ Len(u) = Len(x) /\ Others(u, b) = Others(x, b) /\ u[b] = e
<1>1. /\ u \in Seq(Seq(Nodes)) /\ DOMAIN u = DOMAIN x /\ u[b] = e /\ Len(u) = Len(x)
      /\ \A k \in DOMAIN x \ {b} : u[k] = x[k]
  BY DEF Lists
<1>2. Others(u, b) = Others(x, b)
  BY <1>1, Zenon DEF Others
<1> QED
  BY <1>1, <1>2 DEF Lists

\* A deletion takes nothing away but the entry.
LEMMA DeletedIs ==
  ASSUME disk \in Disks, NEW d \in Dirs, NEW b \in DOMAIN disk[d],
         NEW i \in DOMAIN disk[d][b], NEW y \in Deleted(d, b, i)
  PROVE  /\ y \in Lists /\ Len(y) \in Nat /\ Len(y) >= Len(disk[d]) - 1
         /\ EntriesIn(y) \subseteq Entries(d) /\ Entries(d) \ {disk[d][b][i]} \subseteq EntriesIn(y)
<1>1. PICK x, e : x = disk[d] /\ e = RemoveAt(x[b], i)
  OBVIOUS
<1>2. /\ x \in Lists /\ Len(x) \in Nat /\ b \in 1..Len(x) /\ x[b] \in Seq(Nodes)
      /\ i \in 1..Len(x[b])
  BY <1>1 DEF Disks, Lists
<1>3. e \in Seq(Nodes) /\ Range(e) = Others(x[b], i) /\ Range(x[b]) = Others(x[b], i) \cup {x[b][i]}
  BY <1>1, <1>2, RangeRemoveAt, RangeApart
<1>4. PICK left : left = [x EXCEPT ![b] = e]
  OBVIOUS
<1>5. left \in Lists /\ Len(left) = Len(x) /\ Others(left, b) = Others(x, b) /\ left[b] = e
  <2>1. left \in Lists /\ Len(left) = Len(x) /\ Others(left, b) = Others(x, b)
    BY <1>2, <1>3, <1>4, ListExcept
  <2>2. left[b] = e
    BY <1>2, <1>4 DEF Lists
  <2> QED
    BY <2>1, <2>2 DEF Lists
<1> DEFINE rest == UNION {Range(z) : z \in Others(x, b)}
<1>6. EntriesIn(x) = rest \cup Range(x[b])
  BY <1>2, EntriesInIs
<1>7. EntriesIn(left) = rest \cup Range(e)
  BY <1>2, <1>5, EntriesInIs
<1>8. \/ left[b] = <<>> /\ y = RemoveAt(left, b)
      \/ y \in Halves(left, b)
  BY <1>1, <1>4 DEF Deleted
<1>9. CASE left[b] = <<>> /\ y = RemoveAt(left, b)
  <2>1. y \in Lists /\ Range(y) = Others(x, b) /\ Len(y) = Len(x) - 1
    BY <1>2, <1>5, <1>9, RangeRemoveAt, RemoveAtIs DEF Lists
  <2>2. EntriesIn(y) = rest
    BY <2>1, EntriesInIs
  <2>3. Range(e) = {}
    BY <1>5, <1>9 DEF Range
  <2>4. Len(y) \in Nat
    BY <2>1 DEF Lists
  <2> QED
    BY <1>1, <1>2, <1>3, <1>6, <2>1, <2>2, <2>3, <2>4 DEF Entries
<1>10. CASE y \in Halves(left, b)
  <2>1. y \in Lists /\ EntriesIn(y) = rest \cup Range(e) /\ Len(y) \in {Len(x), Len(x) + 1}
    BY <1>2, <1>5, <1>7, <1>10, HalvesKeep
  <2> QED
    BY <1>1, <1>2, <1>3, <1>6, <2>1 DEF Entries
<1> QED
  BY <1>8, <1>9, <1>10

\* A cursor stays in its directory.
Cursor == [at : Dirs, blk : Nat \ {0}, id : Nat]

\* A cursor that gets another block or another number stays a cursor of its
\* directory: the block,
LEMMA BlockMoves ==
  ASSUME NEW c \in Cursor, NEW n \in Nat \ {0}
  PROVE  [c EXCEPT !.blk = n] \in Cursor /\ [c EXCEPT !.blk = n].at = c.at
BY DEF Cursor

\* the number,
LEMMA EntryMoves ==
  ASSUME NEW c \in Cursor, NEW k \in Nat
  PROVE  [c EXCEPT !.id = k] \in Cursor /\ [c EXCEPT !.id = k].at = c.at
BY DEF Cursor

\* and both.
LEMMA BothMove ==
  ASSUME NEW c \in Cursor, NEW n \in Nat \ {0}, NEW k \in Nat
  PROVE  /\ [c EXCEPT !.blk = n, !.id = k] \in Cursor
         /\ [c EXCEPT !.blk = n, !.id = k].at = c.at
BY DEF Cursor

\* The fixmlist part leaves a cursor one of its directory.
LEMMA SettledIs ==
  ASSUME disk \in Disks, NEW d \in Dirs, NEW b \in DOMAIN disk[d],
         NEW i \in DOMAIN disk[d][b], NEW y \in Deleted(d, b, i), NEW c \in Cursor
  PROVE  Settled(c, d, b, i, y) \in Cursor /\ Settled(c, d, b, i, y).at = c.at
<1>1. /\ y \in Lists /\ Len(y) \in Nat /\ Len(y) >= Len(disk[d]) - 1 /\ Len(disk[d]) \in Nat
      /\ b \in Nat /\ 1 <= b /\ i \in Nat /\ 1 <= i
  <2>1. disk[d] \in Lists
    BY DEF Disks, Lists
  <2>2. b \in 1..Len(disk[d]) /\ disk[d][b] \in Seq(Nodes) /\ Len(disk[d]) \in Nat
    BY <2>1 DEF Lists
  <2>3. i \in 1..Len(disk[d][b])
    BY <2>2
  <2> QED
    BY <2>2, <2>3, DeletedIs
<1>2. c.at \in Dirs /\ c.blk \in Nat /\ c.blk >= 1 /\ c.id \in Nat
  BY DEF Cursor
<1>3. PICK id : id = IF c.id >= i THEN c.id - 1 ELSE c.id
  OBVIOUS
<1>4. id \in Nat
  BY <1>1, <1>2, <1>3
<1>5. CASE c.at # d \/ c.blk < b
  BY <1>2, <1>5 DEF Settled
<1>6. CASE c.at = d /\ c.blk > b
  <2>1. PICK n : n = c.blk + Len(y) - Len(disk[d])
    OBVIOUS
  <2>2. n \in Nat \ {0}
    <3>1. PICK k, l, m : k = c.blk /\ l = Len(y) /\ m = Len(disk[d])
      OBVIOUS
    <3>2. k \in Nat /\ l \in Nat /\ m \in Nat /\ b \in Nat /\ 1 <= b /\ k > b /\ l >= m - 1
      BY <1>1, <1>2, <1>6, <3>1
    <3>3. n = k + l - m
      BY <2>1, <3>1
    <3> QED
      BY <3>2, <3>3
  <2>3. Settled(c, d, b, i, y) = [c EXCEPT !.blk = n]
    BY <1>1, <1>2, <1>6, <2>1 DEF Settled
  <2> QED
    BY <2>2, <2>3, BlockMoves
<1>7. CASE c.at = d /\ c.blk = b
  <2>0. ~(c.at # d \/ c.blk < b) /\ ~(c.blk > b)
    BY <1>1, <1>2, <1>7
  <2>1. \/ Settled(c, d, b, i, y) = [c EXCEPT !.id = id]
        \/ /\ id >= Len(y[b]) /\ b < Len(y)
           /\ Settled(c, d, b, i, y) = [c EXCEPT !.blk = b + 1, !.id = id - Len(y[b])]
    BY <1>3, <2>0 DEF Settled
  <2>2. CASE Settled(c, d, b, i, y) = [c EXCEPT !.id = id]
    BY <1>4, <2>2, EntryMoves
  <2>3. CASE /\ id >= Len(y[b]) /\ b < Len(y)
             /\ Settled(c, d, b, i, y) = [c EXCEPT !.blk = b + 1, !.id = id - Len(y[b])]
    <3>1. Len(y[b]) \in Nat
      BY <1>1, <2>3 DEF Lists
    <3>2. PICK n, k : n = b + 1 /\ k = id - Len(y[b])
      OBVIOUS
    <3>3. n \in Nat \ {0} /\ k \in Nat
      BY <1>1, <1>4, <2>3, <3>1, <3>2
    <3>4. Settled(c, d, b, i, y) = [c EXCEPT !.blk = n, !.id = k]
      BY <2>3, <3>2
    <3>5. /\ [c EXCEPT !.blk = n, !.id = k] \in Cursor
          /\ [c EXCEPT !.blk = n, !.id = k].at = c.at
      BY <3>3, BothMove
    <3> QED
      BY <3>4, <3>5
  <2> QED
    BY <2>1, <2>2, <2>3
<1> QED
  BY <1>1, <1>2, <1>5, <1>6, <1>7

\* The commit of a new entry adds it and keeps the others.
LEMMA InsertedIs ==
  ASSUME NEW x \in Lists, NEW n \in Nodes, NEW y \in Inserted(x, n)
  PROVE  y \in Lists /\ EntriesIn(y) = EntriesIn(x) \cup {n}
<1>0. PICK b \in DOMAIN x :
         y \in UNION {Halves([x EXCEPT ![b] = InsertAt(@, i, n)], b) : i \in 1..Len(x[b]) + 1}
  BY DEF Inserted
<1>1. PICK i \in 1..Len(x[b]) + 1 : y \in Halves([x EXCEPT ![b] = InsertAt(@, i, n)], b)
  BY <1>0
<1>2. b \in 1..Len(x) /\ x[b] \in Seq(Nodes)
  BY DEF Lists
<1>3. PICK e : e = InsertAt(x[b], i, n)
  OBVIOUS
<1>4. e \in Seq(Nodes) /\ Range(e) = Range(x[b]) \cup {n}
  BY <1>2, <1>3, RangeInsertAt
<1>5. PICK u : u = [x EXCEPT ![b] = e]
  OBVIOUS
<1>6. u \in Lists /\ Len(u) = Len(x) /\ Others(u, b) = Others(x, b) /\ u[b] = e
  BY <1>2, <1>4, <1>5, ListExcept
<1>7. y \in Halves(u, b)
  BY <1>1, <1>3, <1>5
<1>8. y \in Lists /\ EntriesIn(y) = EntriesIn(u)
  BY <1>2, <1>6, <1>7, HalvesKeep
<1>9. EntriesIn(x) = (UNION {Range(z) : z \in Others(x, b)}) \cup Range(x[b])
  BY <1>2, EntriesInIs
<1>10. EntriesIn(u) = (UNION {Range(z) : z \in Others(u, b)}) \cup Range(u[b])
  BY <1>2, <1>6, EntriesInIs
<1> QED
  BY <1>4, <1>6, <1>8, <1>9, <1>10

\* A removal takes the entry out of its directory; every cursor stays in its own.
LEMMA DeleteIs ==
  ASSUME disk \in Disks, stack \in Seq(Cursor), NEW n \in Nodes, Delete(n)
  PROVE  /\ disk' \in Disks /\ stack' \in Seq(Cursor) /\ Len(stack') = Len(stack)
         /\ \A k \in 1..Len(stack) : stack'[k].at = stack[k].at
         /\ \A d \in Dirs : Entries(d)' \subseteq Entries(d) /\ Entries(d) \ {n} \subseteq Entries(d)'
<1>0. PICK d \in Dirs : \E b \in DOMAIN disk[d] : \E i \in DOMAIN disk[d][b] :
         /\ disk[d][b][i] = n
         /\ \E blocks \in Deleted(d, b, i) :
              /\ disk' = [disk EXCEPT ![d] = blocks]
              /\ stack' = [k \in DOMAIN stack |-> Settled(stack[k], d, b, i, blocks)]
  BY DEF Delete
<1>11. PICK b \in DOMAIN disk[d] : \E i \in DOMAIN disk[d][b] :
         /\ disk[d][b][i] = n
         /\ \E blocks \in Deleted(d, b, i) :
              /\ disk' = [disk EXCEPT ![d] = blocks]
              /\ stack' = [k \in DOMAIN stack |-> Settled(stack[k], d, b, i, blocks)]
  BY <1>0
<1>1. PICK i \in DOMAIN disk[d][b] :
         /\ disk[d][b][i] = n
         /\ \E blocks \in Deleted(d, b, i) :
              /\ disk' = [disk EXCEPT ![d] = blocks]
              /\ stack' = [k \in DOMAIN stack |-> Settled(stack[k], d, b, i, blocks)]
  BY <1>11
<1>2. PICK y \in Deleted(d, b, i) :
              /\ disk' = [disk EXCEPT ![d] = y]
              /\ stack' = [k \in DOMAIN stack |-> Settled(stack[k], d, b, i, y)]
  BY <1>1
<1>3. /\ y \in Lists
      /\ EntriesIn(y) \subseteq Entries(d) /\ Entries(d) \ {n} \subseteq EntriesIn(y)
  BY <1>1, DeletedIs
<1>4. disk' \in Disks
  BY <1>2, <1>3 DEF Disks, Lists
<1>5. \A k \in 1..Len(stack) : /\ Settled(stack[k], d, b, i, y) \in Cursor
                               /\ Settled(stack[k], d, b, i, y).at = stack[k].at
  BY SettledIs
<1>6. PICK m \in Nat : m = Len(stack) /\ DOMAIN stack = 1..m
  OBVIOUS
<1>7. stack' = [k \in 1..m |-> stack'[k]] /\ \A k \in 1..m : stack'[k] = Settled(stack[k], d, b, i, y)
  BY <1>2, <1>6
<1> HIDE DEF Cursor
<1>8. \A k \in 1..m : stack'[k] \in Cursor /\ stack'[k].at = stack[k].at
  BY <1>5, <1>6, <1>7
<1>9. stack' \in Seq(Cursor) /\ Len(stack') = m
  <2>1. stack' \in [1..m -> Cursor]
    BY <1>7, <1>8
  <2> QED
    BY <2>1, <1>6
<1>10. ASSUME NEW e \in Dirs
       PROVE  Entries(e)' \subseteq Entries(e) /\ Entries(e) \ {n} \subseteq Entries(e)'
  <2>1. Entries(e)' = EntriesIn(disk'[e])
    BY DEF Entries
  <2>2. CASE e = d
    <3>1. disk'[e] = y
      BY <1>2, <2>2 DEF Disks
    <3> QED
      BY <1>3, <2>1, <2>2, <3>1
  <2>3. CASE e # d
    <3>1. disk'[e] = disk[e]
      BY <1>2, <2>3 DEF Disks
    <3> QED
      BY <2>1, <3>1 DEF Entries
  <2> QED
    BY <2>2, <2>3
<1> QED
  BY <1>4, <1>6, <1>8, <1>9, <1>10

\* lfs_dir_read gives an entry of the directory and stays in it.
LEMMA AdvancedIs ==
  ASSUME disk \in Disks, NEW c \in Cursor, Unread(c) # {}
  PROVE  /\ Advanced(c) \in Cursor /\ Advanced(c).at = c.at
         /\ EntryAt(Advanced(c)) \in Entries(c.at)
<1> DEFINE x == disk[c.at]
<1>1. x \in Lists /\ c.at \in Dirs /\ c.blk \in Nat \ {0} /\ c.id \in Nat
  BY DEF Disks, Lists, Cursor
<1>2. Unread(c) \subseteq Nat
  BY <1>1 DEF Unread, Lists
<1>3. PICK b : b = CHOOSE z \in Unread(c) : \A y \in Unread(c) : z <= y
  OBVIOUS
<1>4. \E z \in Unread(c) : \A y \in Unread(c) : z <= y
  BY <1>2, LeastNatural
<1>5. b \in Unread(c)
  BY <1>3, <1>4
<1>6. PICK id : id = IF b = c.blk THEN c.id + 1 ELSE 1
  OBVIOUS
<1>7. b \in 1..Len(x) /\ x[b] \in Seq(Nodes) /\ Len(x[b]) \in Nat
  <2>1. b \in DOMAIN x
    BY <1>5 DEF Unread
  <2> HIDE DEF x
  <2> QED
    BY <1>1, <2>1 DEF Lists
<1>8. id \in 1..Len(x[b])
  <2>1. CASE b = c.blk
    <3>1. c.id < Len(x[b])
      BY <1>5, <2>1 DEF Unread
    <3>2. PICK j, l : j = c.id /\ l = Len(x[b])
      OBVIOUS
    <3>3. j \in Nat /\ l \in Nat /\ j < l /\ id = j + 1
      BY <1>1, <1>6, <1>7, <2>1, <3>1, <3>2
    <3>4. id \in 1..l
      BY <3>3
    <3> QED
      BY <3>2, <3>4
  <2>2. CASE b # c.blk
    <3>1. x[b] # <<>>
      BY <1>5, <2>2 DEF Unread
    <3> QED
      BY <1>6, <1>7, <2>2, <3>1
  <2> QED
    BY <2>1, <2>2
<1>9. Advanced(c) = [c EXCEPT !.blk = b, !.id = id]
  BY <1>3, <1>6 DEF Advanced
<1>10. PICK a : a = Advanced(c)
  OBVIOUS
<1>11. a \in Cursor /\ a.at = c.at /\ a.blk = b /\ a.id = id
  <2>1. b \in Nat \ {0} /\ id \in Nat
    BY <1>7, <1>8
  <2> QED
    BY <1>9, <1>10, <2>1 DEF Cursor
<1>12. EntryAt(a) = x[b][id]
  BY <1>11 DEF EntryAt
<1>13. x[b][id] \in Range(x[b])
  BY <1>7, <1>8, RangeIs
<1>14. Range(x[b]) \subseteq Entries(c.at)
  BY <1>7 DEF Entries, EntriesIn
<1> QED
  BY <1>10, <1>11, <1>12, <1>13, <1>14
-----------------------------------------------------------------------------
(***************************************************************************)
(* What a step does to the calls of the walker.                            *)
(***************************************************************************)
Kept == Len(stack') = Len(stack) /\ \A k \in 1..Len(stack) : stack'[k].at = stack[k].at
Left ==
    /\ stack # <<>> /\ Len(stack') = Len(stack) - 1
    /\ \A k \in 1..Len(stack) - 1 : stack'[k] = stack[k + 1]
Entered ==
    /\ Len(stack') = Len(stack) + 1 /\ stack'[1].at = target
    /\ \A k \in 1..Len(stack) : stack'[k + 1] = stack[k]

\* The innermost call and the others.
LEMMA Parts ==
  ASSUME stack \in Seq(Cursor), stack # <<>>
  PROVE  /\ Len(stack) \in Nat \ {0} /\ Head(stack) = stack[1] /\ stack[1] \in Cursor
         /\ Tail(stack) \in Seq(Cursor) /\ Len(Tail(stack)) = Len(stack) - 1
         /\ \A k \in 1..Len(stack) - 1 : Tail(stack)[k] = stack[k + 1]
<1> HIDE DEF Cursor
<1> QED
  BY HeadTailProperties

\* A call that is left, lfs_dir_close at its end,
LEMMA LeaveIs ==
  ASSUME stack \in Seq(Cursor), stack # <<>>, Leave
  PROVE  stack' \in Seq(Cursor) /\ Left
<1> HIDE DEF Cursor
<1> QED
  BY Parts DEF Leave, Left

\* a cursor in front of others,
LEMMA PushIs ==
  ASSUME NEW s \in Seq(Cursor), NEW c \in Cursor, NEW q, q = <<c>> \o s
  PROVE  /\ q \in Seq(Cursor) /\ q # <<>> /\ Len(q) = Len(s) + 1 /\ q[1] = c
         /\ \A k \in 1..Len(s) : q[k + 1] = s[k]
<1> HIDE DEF Cursor
<1>1. PICK m : m = <<c>>
  OBVIOUS
<1>2. m \in Seq(Cursor) /\ Len(m) = 1 /\ m[1] = c /\ Len(s) \in Nat
  BY <1>1
<1>3. /\ q \in Seq(Cursor) /\ Len(q) = 1 + Len(s)
      /\ \A k \in 1..1 + Len(s) : q[k] = IF k <= 1 THEN m[k] ELSE s[k - 1]
  BY <1>1, <1>2, TwoParts
<1>4. q[1] = c
  BY <1>2, <1>3
<1>5. ASSUME NEW k \in 1..Len(s) PROVE q[k + 1] = s[k]
  <2>1. k + 1 \in 1..1 + Len(s) /\ ~(k + 1 <= 1) /\ (k + 1) - 1 = k
    BY <1>2
  <2> QED
    BY <1>3, <2>1
<1> QED
  BY <1>2, <1>3, <1>4, <1>5

\* one that is opened, lfs_dir_open,
LEMMA OpenIs ==
  ASSUME stack \in Seq(Cursor), target \in Dirs, stack' = <<Opened(target)>> \o stack
  PROVE  stack' \in Seq(Cursor) /\ stack' # <<>> /\ Entered
<1>1. PICK c : c = Opened(target)
  OBVIOUS
<1>2. c \in Cursor /\ c.at = target
  BY <1>1 DEF Opened, Cursor
<1> HIDE DEF Cursor
<1> QED
  BY <1>1, <1>2, PushIs DEF Entered

\* and one that reads on, lfs_dir_read.
LEMMA ReadIs ==
  ASSUME stack \in Seq(Cursor), stack # <<>>, disk \in Disks, Unread(Head(stack)) # {},
         stack' = <<Advanced(Head(stack))>> \o Tail(stack)
  PROVE  /\ stack' \in Seq(Cursor) /\ stack' # <<>> /\ Kept
         /\ EntryAt(stack'[1]) \in Entries(stack[1].at)
<1>1. PICK c : c = Advanced(Head(stack))
  OBVIOUS
<1>2. /\ Len(stack) \in Nat \ {0} /\ Head(stack) = stack[1] /\ stack[1] \in Cursor
      /\ Tail(stack) \in Seq(Cursor) /\ Len(Tail(stack)) = Len(stack) - 1
      /\ \A k \in 1..Len(stack) - 1 : Tail(stack)[k] = stack[k + 1]
  BY Parts
<1> HIDE DEF Cursor
<1>3. c \in Cursor /\ c.at = stack[1].at /\ EntryAt(c) \in Entries(stack[1].at)
  BY <1>1, <1>2, AdvancedIs
<1>4. PICK t : t = Tail(stack)
  OBVIOUS
<1>5. stack' = <<c>> \o t /\ t \in Seq(Cursor)
  BY <1>1, <1>2, <1>4
<1>6. /\ stack' \in Seq(Cursor) /\ stack' # <<>> /\ Len(stack') = Len(t) + 1 /\ stack'[1] = c
      /\ \A k \in 1..Len(t) : stack'[k + 1] = t[k]
  BY <1>3, <1>5, PushIs
<1>7. ASSUME NEW k \in 1..Len(stack) PROVE stack'[k].at = stack[k].at
  <2>1. CASE k = 1
    BY <1>3, <1>6, <2>1
  <2>2. CASE k # 1
    <3>1. PICK j : j = k - 1
      OBVIOUS
    <3>2. j \in 1..Len(stack) - 1 /\ k = j + 1
      BY <1>2, <2>2, <3>1
    <3>3. stack'[j + 1] = t[j] /\ t[j] = stack[j + 1]
      BY <1>2, <1>4, <1>6, <3>2
    <3> QED
      BY <3>2, <3>3
  <2> QED
    BY <2>1, <2>2
<1>8. Len(stack') = Len(stack)
  BY <1>2, <1>4, <1>6
<1> QED
  BY <1>3, <1>6, <1>7, <1>8 DEF Kept
-----------------------------------------------------------------------------
(***************************************************************************)
(* The tree.                                                               *)
(***************************************************************************)
\* Nothing is below itself, hence no entry of the innermost directory is one
\* of the directories that are being walked.
Chain ==
    /\ \A i \in 1..Len(stack) - 1 : stack[i].at \in Entries(stack[i + 1].at)
    /\ \A i, j \in DOMAIN stack : stack[i].at = stack[j].at => i = j
    /\ stack # <<>> => stack[Len(stack)].at = path

\* An entry of the innermost directory is none of the directories that are open.
LEMMA NotAbove ==
  ASSUME stack \in Seq(Cursor), IsTree(disk), Chain, stack # <<>>,
         NEW n \in Entries(stack[1].at), NEW j \in 1..Len(stack)
  PROVE  stack[j].at # n
<1> SUFFICES ASSUME stack[j].at = n PROVE FALSE
  OBVIOUS
<1>1. Len(stack) \in Nat \ {0} /\ j \in Nat /\ 1 <= j /\ j <= Len(stack)
      /\ \A i \in 1..Len(stack) : stack[i].at \in Dirs
  <2>1. \A c \in Cursor : c.at \in Dirs
    BY DEF Cursor
  <2> HIDE DEF Cursor
  <2>2. \A i \in 1..Len(stack) : stack[i] \in Cursor
    OBVIOUS
  <2> QED
    BY <2>1, <2>2
<1> DEFINE s == {stack[i].at : i \in 1..j}
<1>2. s \in SUBSET Dirs /\ s # {}
  BY <1>1
<1>3. PICK d \in s : \A e \in s : d \notin Entries(e)
  BY <1>2 DEF IsTree, Entries
<1>4. PICK i \in 1..j : d = stack[i].at
  BY <1>3
<1>5. CASE i = j
  <2>1. stack[1].at \in s
    BY <1>1
  <2> QED
    BY <1>3, <1>4, <1>5, <2>1
<1>6. CASE i < j
  <2>1. i + 1 \in 1..j /\ i \in 1..Len(stack) - 1
    BY <1>1, <1>6
  <2>2. stack[i + 1].at \in s /\ stack[i].at \in Entries(stack[i + 1].at)
    BY <2>1 DEF Chain
  <2> QED
    BY <1>3, <1>4, <2>2
<1> QED
  BY <1>1, <1>4, <1>5, <1>6

\* Entries that stay, and one that goes and has none of its own.
LEMMA TreeShrinks ==
  ASSUME IsTree(disk), NEW n \in Nodes, n \in Dirs => Entries(n) = {},
         \A d \in Dirs : Entries(d)' \subseteq Entries(d) /\ Entries(d) \ {n} \subseteq Entries(d)'
  PROVE  IsTree(disk)'
<1>1. ASSUME NEW d \in Dirs, Entries(d)' # {}
      PROVE  d = Root \/ \E e \in Dirs : d \in Entries(e)'
  <2>1. Entries(d) # {} /\ d # n
    BY <1>1
  <2>2. d = Root \/ \E e \in Dirs : d \in Entries(e)
    BY <2>1 DEF IsTree, Entries
  <2> QED
    BY <2>1, <2>2
<1>2. ASSUME NEW d \in Dirs, NEW e \in Dirs, Entries(d)' \cap Entries(e)' # {} PROVE d = e
  <2>1. Entries(d) \cap Entries(e) # {}
    BY <1>2
  <2> QED
    BY <2>1 DEF IsTree, Entries
<1>3. ASSUME NEW s \in SUBSET Dirs, s # {} PROVE \E d \in s : \A e \in s : d \notin Entries(e)'
  <2>1. \E d \in s : \A e \in s : d \notin Entries(e)
    BY <1>3 DEF IsTree, Entries
  <2> QED
    BY <2>1
<1> QED
  BY <1>1, <1>2, <1>3 DEF IsTree, Entries

\* A node that was not there gets a place.
LEMMA TreeGrows ==
  ASSUME IsTree(disk), NEW n \in Dirs, ~Exists(n), NEW d \in Dirs, Exists(d),
         Entries(d)' = Entries(d) \cup {n}, \A e \in Dirs \ {d} : Entries(e)' = Entries(e)
  PROVE  IsTree(disk)'
<1>1. n # Root /\ n # d /\ Entries(n) = {} /\ Entries(n)' = {} /\ \A e \in Dirs : n \notin Entries(e)
  BY DEF IsTree, Exists, Entries
<1>2. ASSUME NEW x \in Dirs, Entries(x)' # {}
      PROVE  x = Root \/ \E e \in Dirs : x \in Entries(e)'
  <2>1. x = Root \/ \E e \in Dirs : x \in Entries(e)
    <3>1. CASE x = d
      BY <3>1 DEF Exists
    <3>2. CASE x # d
      BY <1>2, <3>2 DEF IsTree, Entries
    <3> QED
      BY <3>1, <3>2
  <2> QED
    BY <2>1
<1>3. ASSUME NEW x \in Dirs, NEW y \in Dirs, Entries(x)' \cap Entries(y)' # {} PROVE x = y
  <2>1. Entries(x) \cap Entries(y) # {} => x = y
    BY DEF IsTree, Entries
  <2> QED
    BY <1>1, <1>3, <2>1
<1>4. ASSUME NEW s \in SUBSET Dirs, s # {} PROVE \E x \in s : \A e \in s : x \notin Entries(e)'
  <2>1. CASE s \ {n} = {}
    BY <1>1, <1>4, <2>1
  <2>2. CASE s \ {n} # {}
    <3>1. PICK x \in s \ {n} : \A e \in s \ {n} : x \notin Entries(e)
      <4>1. s \ {n} \in SUBSET Dirs
        OBVIOUS
      <4> QED
        BY <2>2, <4>1 DEF IsTree, Entries
    <3>2. \A e \in s : x \notin Entries(e)'
      BY <1>1, <3>1
    <3> QED
      BY <3>1, <3>2
  <2> QED
    BY <2>1, <2>2
<1> QED
  BY <1>2, <1>3, <1>4 DEF IsTree, Entries
-----------------------------------------------------------------------------
(***************************************************************************)
(* The walk.                                                               *)
(***************************************************************************)
\* Where the walker is tells what its next call is about.
Places ==
    /\ pc \in {"idle", "mkdir"} => stack = <<>>
    /\ pc \in {"read", "close"} => stack # <<>>
    /\ pc \in {"open", "unlink"} =>
          IF stack = <<>> THEN target = path ELSE target \in Entries(stack[1].at)
    /\ pc = "unlink" => op \in {"remove", "contents"} /\ (stack = <<>> => op = "remove")
    /\ pc = "mkdir" => op = "mkdir"
    /\ op = "mkdir" => pc \in {"mkdir", "return", "idle"} /\ stack = <<>>
    /\ op = "none" => pc = "idle"

WalkInv == TypeOK /\ IsTree(disk) /\ Chain /\ MlistBalanced /\ Places

\* The entries of a directory that is read are nodes.
LEMMA EntriesAreNodes ==
  ASSUME disk \in Disks
  PROVE  \A d \in Dirs : Entries(d) \subseteq Nodes
<1> SUFFICES ASSUME NEW d \in Dirs PROVE Entries(d) \subseteq Nodes
  OBVIOUS
<1>1. disk[d] \in Lists
  BY DEF Disks, Lists
<1> QED
  BY <1>1, EntriesInIs DEF Entries

\* The steps of the stack keep the chain and the list of LittleFS.
LEMMA KeptKeeps ==
  ASSUME stack \in Seq(Cursor), stack' \in Seq(Cursor), Chain, MlistBalanced, Kept,
         \A i \in 1..Len(stack) - 1 : stack[i].at \in EntriesIn(disk'[stack[i + 1].at]),
         UNCHANGED <<path, mlist>>
  PROVE  Chain' /\ MlistBalanced'
<1>1. /\ Len(stack) \in Nat /\ DOMAIN stack = 1..Len(stack) /\ DOMAIN stack' = 1..Len(stack)
      /\ stack # <<>> <=> Len(stack) # 0 /\ (stack' # <<>> <=> Len(stack) # 0)
  BY DEF Kept
<1>2. \A k \in 1..Len(stack) : stack'[k].at = stack[k].at
  BY DEF Kept
<1>3. \A i \in 1..Len(stack) - 1 : stack'[i].at \in EntriesIn(disk'[stack'[i + 1].at])
  <2> SUFFICES ASSUME NEW i \in 1..Len(stack) - 1
               PROVE  stack'[i].at \in EntriesIn(disk'[stack'[i + 1].at])
    OBVIOUS
  <2>1. i \in 1..Len(stack) /\ i + 1 \in 1..Len(stack)
    BY <1>1
  <2>2. stack'[i].at = stack[i].at /\ stack'[i + 1].at = stack[i + 1].at
    BY <1>2, <2>1
  <2>3. stack[i].at \in EntriesIn(disk'[stack[i + 1].at])
    OBVIOUS
  <2> QED
    BY <2>2, <2>3
<1>4. \A i, j \in 1..Len(stack) : stack'[i].at = stack'[j].at => i = j
  BY <1>1, <1>2 DEF Chain
<1>5. Len(stack) # 0 => stack'[Len(stack)].at = path
  BY <1>1, <1>2 DEF Chain
<1>6. Chain'
  BY <1>1, <1>3, <1>4, <1>5 DEF Chain, Kept, Entries
<1>7. mlist' = {stack'[i].at : i \in 1..Len(stack)}
  BY <1>1, <1>2 DEF MlistBalanced
<1> QED
  BY <1>1, <1>6, <1>7 DEF MlistBalanced

\* So does leaving a call,
LEMMA LeftKeeps ==
  ASSUME stack \in Seq(Cursor), stack' \in Seq(Cursor), Chain, MlistBalanced, Left, Leave,
         UNCHANGED <<path, disk>>
  PROVE  Chain' /\ MlistBalanced'
<1>1. /\ Len(stack) \in Nat \ {0} /\ DOMAIN stack = 1..Len(stack) /\ Head(stack) = stack[1]
      /\ DOMAIN stack' = 1..Len(stack) - 1 /\ (stack' # <<>> <=> Len(stack) # 1)
  BY DEF Left
<1>2. \A k \in 1..Len(stack) - 1 : stack'[k] = stack[k + 1]
  BY DEF Left
<1>3. \A d : EntriesIn(disk'[d]) = Entries(d)
  BY DEF Entries
<1>4. ASSUME NEW i \in 1..(Len(stack) - 1) - 1
      PROVE  stack'[i].at \in EntriesIn(disk'[stack'[i + 1].at])
  <2>1. i \in 1..Len(stack) - 1 /\ i + 1 \in 1..Len(stack) - 1
    BY <1>1
  <2>2. stack'[i] = stack[i + 1] /\ stack'[i + 1] = stack[(i + 1) + 1]
    BY <1>2, <2>1
  <2>3. stack[i + 1].at \in Entries(stack[(i + 1) + 1].at)
    BY <2>1 DEF Chain
  <2> QED
    BY <1>3, <2>2, <2>3
<1>5. ASSUME NEW i \in 1..Len(stack) - 1, NEW j \in 1..Len(stack) - 1, stack'[i].at = stack'[j].at
      PROVE  i = j
  <2>1. i + 1 \in DOMAIN stack /\ j + 1 \in DOMAIN stack
    BY <1>1
  <2>2. i + 1 = j + 1
    BY <1>2, <1>5, <2>1 DEF Chain
  <2> QED
    BY <1>1, <2>2
<1>6. Len(stack) # 1 => stack'[Len(stack) - 1].at = path
  BY <1>1, <1>2 DEF Chain
<1>7. Chain'
  <2>1. Len(stack') = Len(stack) - 1
    BY DEF Left
  <2>2. \A i \in 1..Len(stack') - 1 : stack'[i].at \in EntriesIn(disk'[stack'[i + 1].at])
    BY <1>4, <2>1
  <2>3. \A i, j \in DOMAIN stack' : stack'[i].at = stack'[j].at => i = j
    BY <1>1, <1>5
  <2>4. stack' # <<>> => stack'[Len(stack')].at = path'
    BY <1>1, <1>6, <2>1
  <2> QED
    BY <2>2, <2>3, <2>4 DEF Chain, Entries
<1>8. mlist' = {stack'[i].at : i \in 1..Len(stack) - 1}
  <2>1. mlist' = {stack[i].at : i \in 1..Len(stack)} \ {stack[1].at}
    BY <1>1 DEF Leave, MlistBalanced
  <2>2. \A i \in 1..Len(stack) : stack[i].at = stack[1].at => i = 1
    BY <1>1 DEF Chain
  <2>3. mlist' = {stack[i].at : i \in 2..Len(stack)}
    BY <1>1, <2>1, <2>2
  <2>4. \A i \in 2..Len(stack) : i - 1 \in 1..Len(stack) - 1 /\ stack'[i - 1] = stack[i]
    <3> SUFFICES ASSUME NEW i \in 2..Len(stack)
                 PROVE  i - 1 \in 1..Len(stack) - 1 /\ stack'[i - 1] = stack[i]
      OBVIOUS
    <3>1. i - 1 \in 1..Len(stack) - 1 /\ (i - 1) + 1 = i
      BY <1>1
    <3> QED
      BY <1>2, <3>1
  <2>5. \A i \in 1..Len(stack) - 1 : i + 1 \in 2..Len(stack)
    BY <1>1
  <2>6. ASSUME NEW i \in 2..Len(stack) PROVE stack[i].at \in {stack'[k].at : k \in 1..Len(stack) - 1}
    <3>1. PICK k \in 1..Len(stack) - 1 : stack'[k] = stack[i]
      BY <2>4
    <3> QED
      BY <3>1
  <2>7. ASSUME NEW k \in 1..Len(stack) - 1 PROVE stack'[k].at \in {stack[i].at : i \in 2..Len(stack)}
    <3>1. PICK i \in 2..Len(stack) : stack'[k] = stack[i]
      BY <1>2, <2>5
    <3> QED
      BY <3>1
  <2> QED
    BY <2>3, <2>6, <2>7
<1> QED
  BY <1>1, <1>7, <1>8 DEF MlistBalanced

\* and entering a directory that is there and is none of them.
LEMMA EnteredKeeps ==
  ASSUME stack \in Seq(Cursor), stack' \in Seq(Cursor), Chain, MlistBalanced, Entered,
         IsTree(disk), IF stack = <<>> THEN target = path ELSE target \in Entries(stack[1].at),
         mlist' = mlist \cup {target}, UNCHANGED <<path, disk>>
  PROVE  Chain' /\ MlistBalanced'
<1>1. /\ Len(stack) \in Nat /\ DOMAIN stack = 1..Len(stack) /\ DOMAIN stack' = 1..Len(stack) + 1
      /\ stack # <<>> <=> Len(stack) # 0
  BY DEF Entered
<1>2. stack'[1].at = target /\ \A k \in 1..Len(stack) : stack'[k + 1] = stack[k]
  BY DEF Entered
<1>3. \A d : EntriesIn(disk'[d]) = Entries(d)
  BY DEF Entries
<1>4. \A j \in 1..Len(stack) : stack[j].at # target
  BY <1>1, NotAbove
<1>5. \A i \in 1..Len(stack) + 1 : i = 1 \/ (i - 1 \in 1..Len(stack) /\ stack'[i] = stack[i - 1])
  <2> SUFFICES ASSUME NEW i \in 1..Len(stack) + 1, i # 1
               PROVE  i - 1 \in 1..Len(stack) /\ stack'[i] = stack[i - 1]
    OBVIOUS
  <2>1. i - 1 \in 1..Len(stack) /\ (i - 1) + 1 = i
    BY <1>1
  <2> QED
    BY <1>2, <2>1
<1>6. ASSUME NEW i \in 1..Len(stack) PROVE stack'[i].at \in EntriesIn(disk'[stack'[i + 1].at])
  <2>1. stack'[i + 1] = stack[i]
    BY <1>2
  <2>2. CASE i = 1
    BY <1>1, <1>2, <1>3, <2>1, <2>2
  <2>3. CASE i # 1
    <3>1. PICK k : k = i - 1
      OBVIOUS
    <3>2. k \in 1..Len(stack) - 1 /\ i = k + 1
      BY <1>1, <2>3, <3>1
    <3>3. stack'[i] = stack[k]
      BY <1>1, <1>2, <3>2
    <3>4. stack[k].at \in Entries(stack[i].at)
      BY <3>2 DEF Chain
    <3> QED
      BY <1>3, <2>1, <3>3, <3>4
  <2> QED
    BY <2>2, <2>3
<1>7. ASSUME NEW i \in 1..Len(stack) + 1, NEW j \in 1..Len(stack) + 1, stack'[i].at = stack'[j].at
      PROVE  i = j
  <2>1. i = 1 \/ (i - 1 \in 1..Len(stack) /\ stack'[i] = stack[i - 1])
    BY <1>5
  <2>2. j = 1 \/ (j - 1 \in 1..Len(stack) /\ stack'[j] = stack[j - 1])
    BY <1>5
  <2>3. CASE i = 1 \/ j = 1
    BY <1>2, <1>4, <1>7, <2>1, <2>2, <2>3
  <2>4. CASE i # 1 /\ j # 1
    <3>1. i - 1 = j - 1
      BY <1>1, <1>7, <2>1, <2>2, <2>4 DEF Chain
    <3> QED
      BY <1>1, <3>1
  <2> QED
    BY <2>3, <2>4
<1>8. stack'[Len(stack) + 1].at = path
  <2>1. CASE Len(stack) = 0
    BY <1>1, <1>2, <2>1
  <2>2. CASE Len(stack) # 0
    BY <1>1, <1>2, <2>2 DEF Chain
  <2> QED
    BY <2>1, <2>2
<1>9. Chain'
  <2>1. Len(stack') = Len(stack) + 1 /\ (Len(stack) + 1) - 1 = Len(stack)
    BY <1>1 DEF Entered
  <2>2. \A i \in 1..Len(stack') - 1 : stack'[i].at \in EntriesIn(disk'[stack'[i + 1].at])
    BY <1>6, <2>1
  <2>3. \A i, j \in DOMAIN stack' : stack'[i].at = stack'[j].at => i = j
    BY <1>1, <1>7
  <2>4. stack' # <<>> => stack'[Len(stack')].at = path'
    BY <1>8, <2>1
  <2> QED
    BY <2>2, <2>3, <2>4 DEF Chain, Entries
<1>10. mlist' = {stack'[i].at : i \in 1..Len(stack) + 1}
  <2>1. mlist' = {stack[i].at : i \in 1..Len(stack)} \cup {stack'[1].at}
    BY <1>1, <1>2 DEF MlistBalanced
  <2>2. \A i \in 1..Len(stack) : i + 1 \in 1..Len(stack) + 1
    BY <1>1
  <2>3. 1 \in 1..Len(stack) + 1
    BY <1>1
  <2>4. ASSUME NEW i \in 1..Len(stack) PROVE stack[i].at \in {stack'[k].at : k \in 1..Len(stack) + 1}
    <3>1. PICK k \in 1..Len(stack) + 1 : stack'[k] = stack[i]
      BY <1>2, <2>2
    <3> QED
      BY <3>1
  <2>5. stack'[1].at \in {stack'[k].at : k \in 1..Len(stack) + 1}
    BY <2>3
  <2>6. ASSUME NEW k \in 1..Len(stack) + 1
        PROVE  stack'[k].at \in {stack[i].at : i \in 1..Len(stack)} \cup {stack'[1].at}
    <3>1. CASE k = 1
      BY <3>1
    <3>2. CASE k # 1
      <4>1. PICK i \in 1..Len(stack) : stack'[k] = stack[i]
        BY <1>5, <3>2
      <4> QED
        BY <4>1
    <3> QED
      BY <3>1, <3>2
  <2> QED
    BY <2>1, <2>4, <2>5, <2>6
<1> QED
  BY <1>1, <1>9, <1>10 DEF MlistBalanced
-----------------------------------------------------------------------------
(***************************************************************************)
(* Every step keeps WalkInv.                                               *)
(***************************************************************************)
\* The type invariant, variable by variable.
LEMMA TypeSplit ==
  ASSUME TypeOK
  PROVE  /\ disk \in Disks /\ before \in Disks /\ op \in AllOps \cup {"none"} /\ path \in Nodes
         /\ pc \in {"idle", "open", "read", "unlink", "close", "mkdir", "return"}
         /\ target \in Nodes /\ stack \in Seq(Cursor) /\ mlist \subseteq Dirs /\ ret \in Results
         /\ listed \in Seq(Nodes) /\ faulty \in BOOLEAN
         /\ reply \in {"none", "OK", "ERR", "NO_FILE", "EXIST"}
BY DEF TypeOK, Cursor

\* A command keeps its name and path.
LEMMA SameIs ==
  ASSUME Same
  PROVE  UNCHANGED op /\ UNCHANGED path /\ UNCHANGED before /\ UNCHANGED reply
BY DEF Same, walkVars

\* A disk that does not change stays a tree,
LEMMA TreeStays ==
  ASSUME IsTree(disk), UNCHANGED disk
  PROVE  IsTree(disk)'
BY DEF IsTree

\* and with the calls of the walker unchanged all of it stays.
LEMMA NothingMoves ==
  ASSUME WalkInv, UNCHANGED disk, UNCHANGED stack, UNCHANGED mlist, UNCHANGED path
  PROVE  Chain' /\ MlistBalanced' /\ IsTree(disk)'
<1>1. Chain'
  BY DEF WalkInv, Chain, Entries
<1>2. MlistBalanced'
  BY DEF WalkInv, MlistBalanced
<1>3. IsTree(disk)'
  BY TreeStays DEF WalkInv
<1> QED
  BY <1>1, <1>2, <1>3

\* An empty stack.
LEMMA EmptyStack ==
  ASSUME NEW s, s = <<>>
  PROVE  s \in Seq(Cursor) /\ s \in Seq(Nodes) /\ Len(s) = 0 /\ DOMAIN s = {}
OBVIOUS

\* Without calls there is no chain and nothing in the list of LittleFS.
LEMMA NoCalls ==
  ASSUME stack' = <<>>, mlist' = {}
  PROVE  Chain' /\ MlistBalanced'
<1>1. Len(stack') = 0 /\ DOMAIN stack' = {} /\ 1..0 - 1 = {}
  BY EmptyStack
<1>2. Chain'
  BY <1>1 DEF Chain
<1>3. MlistBalanced'
  BY <1>1 DEF MlistBalanced
<1> QED
  BY <1>2, <1>3

\* Before the first command.
LEMMA InitHolds ==
  ASSUME TreeAssumption, Init
  PROVE  WalkInv
<1>1. disk \in Layouts /\ before = disk /\ stack = <<>> /\ mlist = {}
  BY DEF Init
<1>2. disk \in Disks /\ IsTree(disk) /\ Root \in Nodes
  BY <1>1 DEF TreeAssumption, Nodes
<1>3. TypeOK
  <2>1. stack \in Seq(Cursor) /\ listed \in Seq(Nodes)
    BY EmptyStack DEF Init
  <2> QED
    BY <1>1, <1>2, <2>1 DEF Init, TypeOK, Cursor, Results
<1>4. Chain /\ MlistBalanced
  <2>1. Len(stack) = 0 /\ DOMAIN stack = {} /\ 1..0 - 1 = {}
    BY <1>1, EmptyStack
  <2> QED
    BY <1>1, <2>1 DEF Chain, MlistBalanced
<1>5. Places
  BY DEF Init, Places
<1> QED
  BY <1>2, <1>3, <1>4, <1>5 DEF WalkInv

\* A command that is given keeps the invariant of the walk;
LEMMA GiveKeeps ==
  ASSUME TreeAssumption, WalkInv, NEW o \in Ops, NEW n \in Nodes, Give(o, n)
  PROVE  WalkInv'
<1>0. TypeOK /\ Places /\ Chain /\ MlistBalanced /\ IsTree(disk)
  BY DEF WalkInv
<1>1. stack = <<>> /\ UNCHANGED disk /\ UNCHANGED stack /\ UNCHANGED mlist /\ UNCHANGED ret
  BY <1>0 DEF Places, Give
<1>2. o \in AllOps
  BY DEF TreeAssumption
<1>3. TypeOK'
  <2>1. stack' \in Seq(Cursor) /\ listed' \in Seq(Nodes)
    BY <1>1, EmptyStack DEF Give
  <2> QED
    BY <1>0, <1>1, <1>2, <2>1, TypeSplit DEF TypeOK, Cursor, Give
<1>4. mlist = {}
  BY <1>0, <1>1, EmptyStack DEF MlistBalanced
<1>5. Chain' /\ MlistBalanced'
  BY <1>1, <1>4, NoCalls
<1>6. Places'
  BY <1>1, <1>2 DEF Places, Give, AllOps
<1>7. IsTree(disk)'
  BY <1>0, <1>1, TreeStays
<1> QED
  BY <1>3, <1>5, <1>6, <1>7 DEF WalkInv

\* so does lfs_dir_open of the walker,
LEMMA OpenDirKeeps ==
  ASSUME WalkInv, OpenDir
  PROVE  WalkInv' /\ Entered /\ UNCHANGED disk
<1>0. TypeOK /\ Places /\ Chain /\ MlistBalanced /\ IsTree(disk)
  BY DEF WalkInv
<1>1. /\ pc = "open" /\ target \in Dirs /\ stack' = <<Opened(target)>> \o stack
      /\ mlist' = mlist \cup {target} /\ pc' = "read"
      /\ UNCHANGED disk /\ UNCHANGED target /\ UNCHANGED ret /\ UNCHANGED listed /\ UNCHANGED faulty
      /\ UNCHANGED op /\ UNCHANGED path /\ UNCHANGED before /\ UNCHANGED reply
  BY SameIs DEF OpenDir
<1>2. stack \in Seq(Cursor)
  BY <1>0, TypeSplit
<1>3. stack' \in Seq(Cursor) /\ stack' # <<>> /\ Entered
  BY <1>1, <1>2, OpenIs
<1>4. TypeOK'
  BY <1>0, <1>1, <1>3, TypeSplit DEF TypeOK, Cursor
<1>5. IF stack = <<>> THEN target = path ELSE target \in Entries(stack[1].at)
  BY <1>0, <1>1 DEF Places
<1>6. Chain' /\ MlistBalanced'
  BY <1>0, <1>1, <1>2, <1>3, <1>5, EnteredKeeps
<1>7. Places'
  BY <1>0, <1>1, <1>3 DEF Places
<1>8. IsTree(disk)'
  BY <1>0, <1>1, TreeStays
<1> QED
  BY <1>1, <1>3, <1>4, <1>6, <1>7, <1>8 DEF WalkInv

\* one that fails, after which a removal takes the node for a file,
LEMMA OpenFailsKeeps ==
  ASSUME WalkInv, OpenFails
  PROVE  WalkInv' /\ UNCHANGED stack /\ UNCHANGED disk
<1>0. TypeOK /\ Places
  BY DEF WalkInv
<1>1. /\ pc = "open" /\ faulty' \in {faulty, TRUE}
      /\ UNCHANGED disk /\ UNCHANGED target /\ UNCHANGED stack /\ UNCHANGED mlist /\ UNCHANGED listed
      /\ UNCHANGED op /\ UNCHANGED path /\ UNCHANGED before /\ UNCHANGED reply
  BY SameIs DEF OpenFails, Fault, NoFault
<1>2. \/ pc' = "return" /\ ret' \in {"ok", "fail", "noent"}
      \/ pc' = "unlink" /\ UNCHANGED ret /\ op # "tree" /\ (op = "contents" => stack # <<>>)
  BY DEF OpenFails, Return
<1>3. TypeOK'
  BY <1>0, <1>1, <1>2, TypeSplit DEF TypeOK, Cursor, Results
<1>4. Places'
  <2>1. op \in {"remove", "contents", "tree"}
    BY <1>0, <1>1, TypeSplit DEF Places, AllOps
  <2>2. \A d : Entries(d)' = Entries(d)
    BY <1>1 DEF Entries
  <2> QED
    BY <1>0, <1>1, <1>2, <2>1, <2>2 DEF Places, Entries
<1>5. Chain' /\ MlistBalanced' /\ IsTree(disk)'
  BY <1>1, NothingMoves
<1> QED
  BY <1>1, <1>3, <1>4, <1>5 DEF WalkInv

\* lfs_dir_read of an entry,
LEMMA ReadEntryKeeps ==
  ASSUME WalkInv, ReadEntry
  PROVE  WalkInv' /\ Kept /\ UNCHANGED disk
<1>0. TypeOK /\ Places /\ Chain /\ MlistBalanced /\ IsTree(disk)
  BY DEF WalkInv
<1>1. /\ pc = "read" /\ Unread(Head(stack)) # {} /\ target' = EntryAt(stack'[1])
      /\ stack' = <<Advanced(Head(stack))>> \o Tail(stack)
      /\ UNCHANGED disk /\ UNCHANGED mlist /\ UNCHANGED ret /\ UNCHANGED faulty
      /\ UNCHANGED op /\ UNCHANGED path /\ UNCHANGED before /\ UNCHANGED reply
  BY SameIs DEF ReadEntry
<1>2. stack \in Seq(Cursor) /\ stack # <<>> /\ disk \in Disks
  BY <1>0, <1>1, TypeSplit DEF Places
<1>3. /\ stack' \in Seq(Cursor) /\ stack' # <<>> /\ Kept
      /\ EntryAt(stack'[1]) \in Entries(stack[1].at)
  BY <1>1, <1>2, ReadIs
<1>4. stack[1].at \in Dirs /\ stack'[1].at = stack[1].at
  <2>1. Len(stack) \in Nat \ {0} /\ stack[1] \in Cursor
    BY <1>2, Parts
  <2>2. 1 \in 1..Len(stack)
    BY <2>1
  <2>3. stack'[1].at = stack[1].at
    BY <1>3, <2>2 DEF Kept
  <2>4. \A c \in Cursor : c.at \in Dirs
    BY DEF Cursor
  <2> QED
    BY <2>1, <2>3, <2>4
<1>5. target' \in Entries(stack[1].at) /\ target' \in Nodes
  BY <1>1, <1>2, <1>3, <1>4, EntriesAreNodes
<1>6. /\ listed' \in Seq(Nodes)
      /\ pc' \in {"open", "read"} \/ (pc' = "unlink" /\ op # "tree")
  <2>1. CASE op = "tree"
    <3>1. listed' = Append(listed, target') /\ pc' \in {"open", "read"}
      BY <2>1 DEF ReadEntry
    <3>2. listed \in Seq(Nodes)
      BY <1>0, TypeSplit
    <3> QED
      BY <1>5, <3>1, <3>2
  <2>2. CASE op # "tree"
    <3>1. listed' = listed /\ pc' \in {"open", "unlink"}
      BY <2>2 DEF ReadEntry
    <3> QED
      BY <1>0, <2>2, <3>1, TypeSplit
  <2> QED
    BY <2>1, <2>2
<1>7. TypeOK'
  BY <1>0, <1>1, <1>3, <1>5, <1>6, TypeSplit DEF TypeOK, Cursor
<1>8. Places'
  <2>1. op \in {"remove", "contents", "tree"}
    BY <1>0, <1>1, TypeSplit DEF Places, AllOps
  <2>2. target' \in EntriesIn(disk'[stack'[1].at])
    BY <1>1, <1>4, <1>5 DEF Entries
  <2> QED
    BY <1>1, <1>3, <1>6, <2>1, <2>2 DEF Places, Entries
<1>9. Chain' /\ MlistBalanced'
  <2>1. ASSUME NEW i \in 1..Len(stack) - 1 PROVE stack[i].at \in EntriesIn(disk'[stack[i + 1].at])
    BY <1>0, <1>1 DEF Chain, Entries
  <2> QED
    BY <1>0, <1>1, <1>2, <1>3, <2>1, KeptKeeps
<1>10. IsTree(disk)'
  BY <1>0, <1>1, TreeStays
<1> QED
  BY <1>1, <1>3, <1>7, <1>8, <1>9, <1>10 DEF WalkInv

\* the end of a directory,
LEMMA ReadEndKeeps ==
  ASSUME WalkInv, ReadEnd
  PROVE  WalkInv' /\ UNCHANGED stack /\ UNCHANGED disk
<1>0. TypeOK /\ Places
  BY DEF WalkInv
<1>1. /\ pc = "read" /\ pc' = "close"
      /\ UNCHANGED disk /\ UNCHANGED target /\ UNCHANGED stack /\ UNCHANGED mlist
      /\ UNCHANGED ret /\ UNCHANGED listed /\ UNCHANGED faulty
      /\ UNCHANGED op /\ UNCHANGED path /\ UNCHANGED before /\ UNCHANGED reply
  BY SameIs DEF ReadEnd
<1>2. TypeOK'
  BY <1>0, <1>1, TypeSplit DEF TypeOK, Cursor
<1>3. Places'
  BY <1>0, <1>1 DEF Places
<1>4. Chain' /\ MlistBalanced' /\ IsTree(disk)'
  BY <1>1, NothingMoves
<1> QED
  BY <1>1, <1>2, <1>3, <1>4 DEF WalkInv

\* A call of the walker is left.
LEMMA LeaveKeeps ==
  ASSUME WalkInv, stack # <<>>, Leave, UNCHANGED disk, UNCHANGED path
  PROVE  /\ stack' \in Seq(Cursor) /\ mlist' \subseteq Dirs /\ Left
         /\ Chain' /\ MlistBalanced' /\ IsTree(disk)'
<1>0. TypeOK /\ Chain /\ MlistBalanced /\ IsTree(disk)
  BY DEF WalkInv
<1>1. stack \in Seq(Cursor) /\ mlist \subseteq Dirs
  BY <1>0, TypeSplit
<1>2. stack' \in Seq(Cursor) /\ Left
  BY <1>1, LeaveIs
<1>3. mlist' \subseteq Dirs
  BY <1>1 DEF Leave
<1>4. Chain' /\ MlistBalanced'
  BY <1>0, <1>1, <1>2, LeftKeeps
<1>5. IsTree(disk)'
  BY <1>0, TreeStays
<1> QED
  BY <1>2, <1>3, <1>4, <1>5

\* a read that fails,
LEMMA ReadFailsKeeps ==
  ASSUME WalkInv, ReadFails
  PROVE  WalkInv' /\ Left /\ UNCHANGED disk
<1>0. TypeOK /\ Places
  BY DEF WalkInv
<1>1. /\ pc = "read" /\ pc' = "return" /\ ret' \in {"ok", "fail"} /\ faulty' = TRUE /\ Leave
      /\ UNCHANGED disk /\ UNCHANGED target /\ UNCHANGED listed
      /\ UNCHANGED op /\ UNCHANGED path /\ UNCHANGED before /\ UNCHANGED reply
  BY SameIs DEF ReadFails, Return, Fault
<1>2. /\ stack' \in Seq(Cursor) /\ mlist' \subseteq Dirs /\ Left
      /\ Chain' /\ MlistBalanced' /\ IsTree(disk)'
  <2>1. stack # <<>>
    BY <1>0, <1>1 DEF Places
  <2> QED
    BY <1>1, <2>1, LeaveKeeps
<1>3. TypeOK'
  BY <1>0, <1>1, <1>2, TypeSplit DEF TypeOK, Cursor, Results
<1>4. Places'
  BY <1>0, <1>1 DEF Places
<1> QED
  BY <1>1, <1>2, <1>3, <1>4 DEF WalkInv

\* the lfs_dir_close at the end of a directory,
LEMMA CloseKeeps ==
  ASSUME WalkInv, Close
  PROVE  WalkInv' /\ Left /\ UNCHANGED disk
<1>0. TypeOK /\ Places /\ Chain
  BY DEF WalkInv
<1>1. /\ pc = "close" /\ Leave
      /\ UNCHANGED disk /\ UNCHANGED listed /\ UNCHANGED faulty
      /\ UNCHANGED op /\ UNCHANGED path /\ UNCHANGED before /\ UNCHANGED reply
  BY SameIs DEF Close
<1>2. \/ pc' = "return" /\ ret' = "ok" /\ UNCHANGED target
      \/ /\ op # "tree" /\ ~(op = "contents" /\ Len(stack) = 1)
         /\ pc' = "unlink" /\ target' = Head(stack).at /\ UNCHANGED ret
  BY DEF Close, Return
<1>3. stack # <<>> /\ stack \in Seq(Cursor)
  BY <1>0, <1>1, TypeSplit DEF Places
<1>4. /\ stack' \in Seq(Cursor) /\ mlist' \subseteq Dirs /\ Left
      /\ Chain' /\ MlistBalanced' /\ IsTree(disk)'
  BY <1>1, <1>3, LeaveKeeps
<1>5. /\ Len(stack) \in Nat \ {0} /\ Head(stack) = stack[1] /\ stack[1].at \in Dirs
      /\ Len(stack') = Len(stack) - 1 /\ (Len(stack) > 1 => stack'[1] = stack[2])
      /\ stack' = <<>> <=> Len(stack) = 1
  <2>1. Len(stack) \in Nat \ {0} /\ Head(stack) = stack[1] /\ stack[1] \in Cursor
    BY <1>3, Parts
  <2>2. \A c \in Cursor : c.at \in Dirs
    BY DEF Cursor
  <2>3. Len(stack') = Len(stack) - 1 /\ \A k \in 1..Len(stack) - 1 : stack'[k] = stack[k + 1]
    BY <1>4 DEF Left
  <2>4. Len(stack) > 1 => 1 \in 1..Len(stack) - 1 /\ 1 + 1 = 2
    BY <2>1
  <2>5. stack' = <<>> <=> Len(stack') = 0
    BY <1>4 DEF Cursor
  <2> QED
    BY <2>1, <2>2, <2>3, <2>4, <2>5
<1>6. target' \in Nodes /\ ret' \in Results /\ pc' \in {"return", "unlink"}
  BY <1>0, <1>2, <1>5, TypeSplit DEF Nodes, Results
<1>7. TypeOK'
  BY <1>0, <1>1, <1>4, <1>6, TypeSplit DEF TypeOK, Cursor
<1>8. Places'
  <2>1. op \in {"remove", "contents", "tree"}
    BY <1>0, <1>1, TypeSplit DEF Places, AllOps
  <2>2. Len(stack) = 1 => stack[1].at = path
    BY <1>0, <1>3, <1>5 DEF Chain
  <2>3. Len(stack) > 1 => stack[1].at \in Entries(stack[2].at)
    <3>1. Len(stack) > 1 => 1 \in 1..Len(stack) - 1 /\ 1 + 1 = 2
      BY <1>5
    <3> QED
      BY <1>0, <3>1 DEF Chain
  <2>4. pc' = "unlink" => IF stack' = <<>> THEN target' = path ELSE target' \in EntriesIn(disk'[stack'[1].at])
    BY <1>1, <1>2, <1>5, <2>2, <2>3 DEF Entries
  <2>5. pc' = "unlink" => op \in {"remove", "contents"} /\ (stack' = <<>> => op = "remove")
    BY <1>2, <1>5, <2>1
  <2> QED
    BY <1>1, <1>6, <2>1, <2>4, <2>5 DEF Places, Entries
<1> QED
  BY <1>1, <1>4, <1>7, <1>8 DEF WalkInv

\* What a removal may take away.
TakenAway ==
    /\ Removable(target)
    /\ \A d \in Dirs : Entries(d)' \subseteq Entries(d) /\ Entries(d) \ {target} \subseteq Entries(d)'

\* the commit that takes an entry away,
LEMMA DeleteKeeps ==
  ASSUME WalkInv, pc = "unlink", Removable(target), Delete(target), UNCHANGED path, UNCHANGED mlist
  PROVE  /\ disk' \in Disks /\ stack' \in Seq(Cursor) /\ Kept /\ TakenAway
         /\ Chain' /\ MlistBalanced' /\ IsTree(disk)'
<1>0. TypeOK /\ Places /\ Chain /\ MlistBalanced /\ IsTree(disk)
  BY DEF WalkInv
<1>1. disk \in Disks /\ stack \in Seq(Cursor) /\ target \in Nodes
  BY <1>0, TypeSplit
<1>2. PICK n : n = target
  OBVIOUS
<1>3. /\ disk' \in Disks /\ stack' \in Seq(Cursor) /\ Len(stack') = Len(stack)
      /\ \A k \in 1..Len(stack) : stack'[k].at = stack[k].at
      /\ \A d \in Dirs : Entries(d)' \subseteq Entries(d) /\ Entries(d) \ {n} \subseteq Entries(d)'
  <2>1. n \in Nodes /\ Delete(n)
    BY <1>1, <1>2
  <2> QED
    BY <1>1, <2>1, DeleteIs
<1>4. Kept
  BY <1>3 DEF Kept
<1>5. IsTree(disk)'
  <2>1. n \in Dirs => Entries(n) = {}
    <3> SUFFICES ASSUME n \in Dirs PROVE Entries(n) = {}
      OBVIOUS
    <3>1. disk[n] = << <<>> >>
      BY <1>2 DEF Removable
    <3>2. DOMAIN disk[n] = {1} /\ disk[n][1] = <<>>
      BY <3>1
    <3>3. Range(<<>>) = {}
      BY DEF Range
    <3> QED
      BY <3>2, <3>3 DEF Entries, EntriesIn
  <2> QED
    BY <1>0, <1>1, <1>2, <1>3, <2>1, TreeShrinks
<1>6. Chain' /\ MlistBalanced'
  <2>1. ASSUME NEW i \in 1..Len(stack) - 1 PROVE stack[i].at \in EntriesIn(disk'[stack[i + 1].at])
    <3>1. stack # <<>> /\ i \in 1..Len(stack) /\ i + 1 \in 1..Len(stack)
      <4>1. Len(stack) \in Nat
        BY <1>1
      <4> QED
        BY <1>1, <4>1
    <3>2. stack[i].at # n
      <4>1. n \in Entries(stack[1].at)
        BY <1>0, <1>2, <3>1 DEF Places
      <4> QED
        BY <1>0, <1>1, <3>1, <4>1, NotAbove
    <3>3. stack[i].at \in Entries(stack[i + 1].at)
      BY <1>0 DEF Chain
    <3>4. PICK e : e = stack[i + 1].at
      OBVIOUS
    <3>5. e \in Dirs
      <4>1. \A c \in Cursor : c.at \in Dirs
        BY DEF Cursor
      <4>2. stack[i + 1] \in Cursor
        <5> HIDE DEF Cursor
        <5> QED
          BY <1>1, <3>1
      <4> QED
        BY <3>4, <4>1, <4>2
    <3>6. Entries(e) \ {n} \subseteq EntriesIn(disk'[e])
      BY <1>3, <3>5 DEF Entries
    <3> QED
      BY <3>2, <3>3, <3>4, <3>6
  <2> QED
    BY <1>0, <1>1, <1>3, <1>4, <2>1, KeptKeeps
<1>7. TakenAway
  BY <1>2, <1>3 DEF TakenAway
<1> QED
  BY <1>3, <1>4, <1>5, <1>6, <1>7

\* lfs_remove around it,
LEMMA UnlinkKeeps ==
  ASSUME WalkInv, Unlink
  PROVE  WalkInv' /\ Kept /\ (UNCHANGED disk \/ (pc = "unlink" /\ TakenAway))
<1>0. TypeOK /\ Places
  BY DEF WalkInv
<1>1. /\ pc = "unlink" /\ pc' = "return" /\ faulty' \in {faulty, TRUE} /\ ret' \in Results
      /\ UNCHANGED target /\ UNCHANGED mlist /\ UNCHANGED listed
      /\ UNCHANGED op /\ UNCHANGED path /\ UNCHANGED before /\ UNCHANGED reply
  BY SameIs DEF Unlink, Return, Fault, NoFault, Results
<1>2. \/ Removable(target) /\ Delete(target)
      \/ UNCHANGED disk /\ UNCHANGED stack
  BY DEF Unlink
<1>3. /\ disk' \in Disks /\ stack' \in Seq(Cursor) /\ Kept
      /\ UNCHANGED disk \/ (pc = "unlink" /\ TakenAway)
      /\ Chain' /\ MlistBalanced' /\ IsTree(disk)'
  <2>1. CASE Removable(target) /\ Delete(target)
    BY <1>1, <2>1, DeleteKeeps
  <2>2. CASE UNCHANGED disk /\ UNCHANGED stack
    <3>1. disk' \in Disks /\ stack' \in Seq(Cursor)
      BY <1>0, <2>2, TypeSplit
    <3>2. Kept
      BY <2>2 DEF Kept
    <3> QED
      BY <1>1, <2>2, <3>1, <3>2, NothingMoves
  <2> QED
    BY <1>2, <2>1, <2>2
<1>4. TypeOK'
  BY <1>0, <1>1, <1>3, TypeSplit DEF TypeOK, Cursor
<1>5. Places'
  BY <1>0, <1>1 DEF Places
<1> QED
  BY <1>3, <1>4, <1>5 DEF WalkInv

\* the return of a call,
LEMMA BackKeeps ==
  ASSUME WalkInv, Back
  PROVE  WalkInv' /\ (UNCHANGED stack \/ Left) /\ UNCHANGED disk
<1>0. TypeOK /\ Places
  BY DEF WalkInv
<1>1. /\ pc = "return" /\ UNCHANGED disk /\ UNCHANGED target /\ UNCHANGED ret
      /\ UNCHANGED listed /\ UNCHANGED faulty
      /\ UNCHANGED op /\ UNCHANGED path /\ UNCHANGED before
  BY SameIs DEF Back, Answer, walkVars
<1>2. \/ /\ stack = <<>> /\ pc' = "idle" /\ reply' \in {"OK", "NO_FILE", "EXIST", "ERR"}
         /\ UNCHANGED stack /\ UNCHANGED mlist
      \/ stack # <<>> /\ pc' = "read" /\ UNCHANGED stack /\ UNCHANGED mlist /\ UNCHANGED reply
      \/ stack # <<>> /\ Leave /\ UNCHANGED pc /\ UNCHANGED reply
  BY SameIs DEF Back, Answer, Reply
<1>3. CASE UNCHANGED stack /\ UNCHANGED mlist
  <2>1. /\ reply' \in {"none", "OK", "ERR", "NO_FILE", "EXIST"}
        /\ (pc' = "idle" /\ stack = <<>>) \/ (pc' = "read" /\ stack # <<>>) \/ (pc' = "return" /\ stack # <<>>)
    BY <1>0, <1>1, <1>2, TypeSplit
  <2>2. TypeOK'
    BY <1>0, <1>1, <1>3, <2>1, TypeSplit DEF TypeOK, Cursor
  <2>3. Places'
    BY <1>0, <1>1, <1>3, <2>1 DEF Places
  <2> QED
    BY <1>1, <1>3, <2>2, <2>3, NothingMoves DEF WalkInv
<1>4. CASE stack # <<>> /\ Leave /\ UNCHANGED pc /\ UNCHANGED reply
  <2>1. /\ stack' \in Seq(Cursor) /\ mlist' \subseteq Dirs /\ Left
        /\ Chain' /\ MlistBalanced' /\ IsTree(disk)'
    BY <1>1, <1>4, LeaveKeeps
  <2>2. TypeOK'
    BY <1>0, <1>1, <1>4, <2>1, TypeSplit DEF TypeOK, Cursor
  <2>3. Places'
    BY <1>0, <1>1, <1>4 DEF Places
  <2> QED
    BY <1>1, <2>1, <2>2, <2>3 DEF WalkInv
<1> QED
  BY <1>2, <1>3, <1>4

\* lfs_mkdir,
LEMMA MkdirKeeps ==
  ASSUME WalkInv, Mkdir
  PROVE  WalkInv' /\ UNCHANGED stack /\ \A d \in Dirs : Entries(d) \subseteq Entries(d)'
<1>0. TypeOK /\ Places /\ Chain /\ MlistBalanced /\ IsTree(disk)
  BY DEF WalkInv
<1>1. /\ pc = "mkdir" /\ pc' = "return" /\ faulty' \in {faulty, TRUE} /\ ret' \in Results
      /\ UNCHANGED target /\ UNCHANGED stack /\ UNCHANGED mlist /\ UNCHANGED listed
      /\ UNCHANGED op /\ UNCHANGED path /\ UNCHANGED before /\ UNCHANGED reply
  BY SameIs DEF Mkdir, Return, Fault, NoFault, Results
<1>2. stack = <<>> /\ mlist = {} /\ op = "mkdir" /\ disk \in Disks
  BY <1>0, <1>1, EmptyStack, TypeSplit DEF Places, MlistBalanced
<1>3. disk' \in Disks /\ IsTree(disk)' /\ \A d \in Dirs : Entries(d) \subseteq Entries(d)'
  <2>1. CASE UNCHANGED disk
    BY <1>0, <1>2, <2>1, TreeStays DEF Entries
  <2>2. CASE /\ ~Exists(path) /\ path \in Dirs
             /\ \E d \in Dirs : /\ Exists(d)
                                /\ \E blocks \in Inserted(disk[d], path) :
                                      disk' = [disk EXCEPT ![d] = blocks]
    <3>1. PICK d \in Dirs : /\ Exists(d)
                            /\ \E blocks \in Inserted(disk[d], path) :
                                  disk' = [disk EXCEPT ![d] = blocks]
      BY <2>2
    <3>2. PICK y \in Inserted(disk[d], path) : disk' = [disk EXCEPT ![d] = y]
      BY <3>1
    <3>3. PICK n : n = path
      OBVIOUS
    <3>4. disk[d] \in Lists /\ n \in Nodes
      BY <1>2, <2>2, <3>3 DEF Disks, Lists, Nodes
    <3>5. y \in Lists /\ EntriesIn(y) = Entries(d) \cup {n}
      BY <3>2, <3>3, <3>4, InsertedIs DEF Entries
    <3>6. disk' \in Disks
      BY <1>2, <3>2, <3>5 DEF Disks, Lists
    <3>7. Entries(d)' = Entries(d) \cup {n} /\ \A e \in Dirs \ {d} : Entries(e)' = Entries(e)
      BY <1>2, <3>2, <3>5 DEF Entries, Disks
    <3>8. n \in Dirs /\ ~Exists(n)
      BY <2>2, <3>3
    <3>9. IsTree(disk)'
      BY <1>0, <3>1, <3>7, <3>8, TreeGrows
    <3> QED
      BY <3>6, <3>7, <3>9
  <2> QED
    BY <2>1, <2>2 DEF Mkdir
<1>4. TypeOK'
  BY <1>0, <1>1, <1>3, TypeSplit DEF TypeOK, Cursor
<1>5. Places'
  BY <1>0, <1>1 DEF Places
<1>6. Chain' /\ MlistBalanced'
  BY <1>1, <1>2, NoCalls
<1> QED
  BY <1>1, <1>3, <1>4, <1>5, <1>6 DEF WalkInv

\* the loss of power,
LEMMA PowerLossKeeps ==
  ASSUME TreeAssumption, WalkInv, PowerLoss
  PROVE  WalkInv'
<1>0. TypeOK /\ IsTree(disk)
  BY DEF WalkInv
<1>1. /\ UNCHANGED disk /\ before' = disk /\ op' = "none" /\ path' = Root /\ pc' = "idle"
      /\ target' = Root /\ stack' = <<>> /\ mlist' = {} /\ ret' = "ok" /\ listed' = <<>>
      /\ faulty' = FALSE /\ reply' = "none"
  BY DEF PowerLoss
<1>2. Root \in Nodes
  BY DEF TreeAssumption, Nodes
<1>3. stack' \in Seq(Cursor) /\ listed' \in Seq(Nodes)
  BY <1>1, EmptyStack
<1>4. TypeOK'
  BY <1>0, <1>1, <1>2, <1>3, TypeSplit DEF TypeOK, Cursor, Results
<1>5. Places'
  BY <1>1 DEF Places
<1> QED
  BY <1>0, <1>1, <1>4, <1>5, NoCalls, TreeStays DEF WalkInv

\* and a step of nothing.
LEMMA StutterKeeps ==
  ASSUME WalkInv, UNCHANGED vars
  PROVE  WalkInv'
<1>1. /\ UNCHANGED disk /\ UNCHANGED stack /\ UNCHANGED mlist /\ UNCHANGED path
      /\ UNCHANGED op /\ UNCHANGED before /\ UNCHANGED pc /\ UNCHANGED target /\ UNCHANGED ret
      /\ UNCHANGED listed /\ UNCHANGED faulty /\ UNCHANGED reply
  BY DEF vars, walkVars
<1>2. TypeOK'
  BY <1>1 DEF WalkInv, TypeOK
<1>3. Places'
  BY <1>1 DEF WalkInv, Places, Entries
<1> QED
  BY <1>1, <1>2, <1>3, NothingMoves DEF WalkInv

\* The invariant of the walk holds: the directories on the flash are a tree, and
\* the open lfs_dir_t are those of the calls that run, each in the next one.
THEOREM WalkHolds == Spec => []WalkInv
<1>1. Init => WalkInv
  BY TreeAssumption, InitHolds
<1>2. WalkInv /\ [Next]_vars => WalkInv'
  <2> SUFFICES ASSUME WalkInv, [Next]_vars PROVE WalkInv'
    OBVIOUS
  <2>1. CASE \E o \in Ops, n \in Nodes : Give(o, n)
    BY <2>1, TreeAssumption, GiveKeeps
  <2>2. CASE OpenDir
    BY <2>2, OpenDirKeeps
  <2>3. CASE OpenFails
    BY <2>3, OpenFailsKeeps
  <2>4. CASE ReadEntry
    BY <2>4, ReadEntryKeeps
  <2>5. CASE ReadEnd
    BY <2>5, ReadEndKeeps
  <2>6. CASE ReadFails
    BY <2>6, ReadFailsKeeps
  <2>7. CASE Close
    BY <2>7, CloseKeeps
  <2>8. CASE Unlink
    BY <2>8, UnlinkKeeps
  <2>9. CASE Back
    BY <2>9, BackKeeps
  <2>10. CASE Mkdir
    BY <2>10, MkdirKeeps
  <2>11. CASE PowerLoss
    BY <2>11, TreeAssumption, PowerLossKeeps
  <2>12. CASE UNCHANGED vars
    BY <2>12, StutterKeeps
  <2> QED
    BY <2>1, <2>2, <2>3, <2>4, <2>5, <2>6, <2>7, <2>8, <2>9, <2>10, <2>11, <2>12 DEF Next, Walk
<1> QED
  BY <1>1, <1>2, PTL DEF Spec
-----------------------------------------------------------------------------
(***************************************************************************)
(* What a removal is allowed to take.                                      *)
(***************************************************************************)
\* A removal adds nothing, and walks only below the path it was given.
Subtree ==
    op \in {"remove", "contents"} =>
        /\ \A d \in Dirs : Entries(d) \subseteq EntriesBefore(d)
        /\ \A i \in DOMAIN stack : stack[i].at \in Under

\* The path is below itself,
LEMMA PathUnder ==
  ASSUME path \in Nodes, ExistsBefore(path)
  PROVE  path \in Under
BY DEF Under, Closed

\* and so is everything in a directory that is.
LEMMA UnderClosed ==
  ASSUME before \in Disks, NEW d \in Dirs, d \in Under
  PROVE  EntriesBefore(d) \subseteq Under
<1> SUFFICES ASSUME NEW n \in EntriesBefore(d) PROVE n \in Under
  OBVIOUS
<1>1. n \in Nodes
  <2>1. before[d] \in Lists
    BY DEF Disks, Lists
  <2> QED
    BY <2>1, EntriesInIs DEF EntriesBefore
<1>2. ExistsBefore(path)
  BY DEF Under
<1>3. ASSUME NEW s \in SUBSET Nodes, Closed(s) PROVE n \in s
  <2>1. d \in s
    BY <1>3 DEF Under
  <2> QED
    BY <1>3, <2>1 DEF Closed
<1> QED
  BY <1>1, <1>2, <1>3 DEF Under

\* The directory a walker is in, and that of every level, is one.
LEMMA LevelsAreDirs ==
  ASSUME stack \in Seq(Cursor)
  PROVE  \A i \in DOMAIN stack : stack[i].at \in Dirs
<1>1. \A c \in Cursor : c.at \in Dirs
  BY DEF Cursor
<1> HIDE DEF Cursor
<1>2. \A i \in DOMAIN stack : stack[i] \in Cursor
  OBVIOUS
<1> QED
  BY <1>1, <1>2

\* What the next call is about is below the path.
LEMMA TargetUnder ==
  ASSUME WalkInv, Subtree, op \in {"remove", "contents"}, pc \in {"open", "unlink"}, Exists(target)
  PROVE  target \in Under
<1>0. TypeOK /\ Places
  BY DEF WalkInv
<1>1. path \in Nodes /\ before \in Disks /\ stack \in Seq(Cursor)
  BY <1>0, TypeSplit
<1>2. CASE stack = <<>>
  <2>1. target = path
    BY <1>0, <1>2 DEF Places
  <2>2. ExistsBefore(path)
    BY <2>1 DEF Exists, ExistsBefore, Subtree
  <2> QED
    BY <1>1, <2>1, <2>2, PathUnder
<1>3. CASE stack # <<>>
  <2>1. 1 \in DOMAIN stack
    BY <1>1, <1>3
  <2>2. target \in Entries(stack[1].at)
    BY <1>0, <1>3 DEF Places
  <2>3. stack[1].at \in Dirs /\ stack[1].at \in Under
    BY <1>1, <2>1, LevelsAreDirs DEF Subtree
  <2>4. target \in EntriesBefore(stack[1].at)
    BY <2>2, <2>3 DEF Subtree
  <2> QED
    BY <1>1, <2>3, <2>4, UnderClosed
<1> QED
  BY <1>2, <1>3

\* What lfs_remove takes away in a removal is below the path, and is not the
\* directory DELETE_CONTENTS keeps.
LEMMA TargetNotSpared ==
  ASSUME WalkInv, Subtree, pc = "unlink", Removable(target)
  PROVE  ~Spared(target)
<1>0. TypeOK /\ Places /\ Chain /\ IsTree(disk)
  BY DEF WalkInv
<1>1. op \in {"remove", "contents"} /\ (stack = <<>> => op = "remove") /\ stack \in Seq(Cursor)
  BY <1>0, TypeSplit DEF Places
<1>2. target \in Under
  BY <1>1, TargetUnder DEF Removable
<1>3. op = "contents" => target # path
  <2> SUFFICES ASSUME op = "contents" PROVE target # path
    OBVIOUS
  <2>1. stack # <<>>
    BY <1>1
  <2>2. Len(stack) \in 1..Len(stack) /\ stack[Len(stack)].at = path
    BY <1>0, <1>1, <2>1 DEF Chain
  <2>3. target \in Entries(stack[1].at)
    BY <1>0, <2>1 DEF Places
  <2>4. PICK n : n = target
    OBVIOUS
  <2>5. stack[Len(stack)].at # n
    BY <1>0, <1>1, <2>1, <2>2, <2>3, <2>4, NotAbove
  <2> QED
    BY <2>2, <2>4, <2>5
<1> QED
  BY <1>1, <1>2, <1>3 DEF Spared

\* A step of a command that goes on.
GoesOn ==
    /\ UNCHANGED op /\ UNCHANGED path /\ UNCHANGED before
    /\ \/ UNCHANGED disk
       \/ pc = "unlink" /\ TakenAway
       \/ op = "mkdir" /\ \A d \in Dirs : Entries(d) \subseteq Entries(d)'
    /\ Kept \/ Left \/ (pc = "open" /\ Exists(target) /\ Entered)

\* What is below the path does not change while the command runs.
LEMMA UnderStays ==
  ASSUME UNCHANGED path, UNCHANGED before
  PROVE  Under' = Under /\ \A d \in Dirs : EntriesBefore(d)' = EntriesBefore(d)
<1>1. \A d : EntriesBefore(d)' = EntriesBefore(d)
  BY DEF EntriesBefore
<1>2. ExistsBefore(path)' <=> ExistsBefore(path)
  BY DEF ExistsBefore, EntriesBefore
<1>3. \A s \in SUBSET Nodes : Closed(s)' <=> Closed(s)
  BY <1>1 DEF Closed
<1> QED
  BY <1>1, <1>2, <1>3 DEF Under

\* A walk stays below its path,
LEMMA SubtreeKeeps ==
  ASSUME WalkInv, WalkInv', Subtree, GoesOn
  PROVE  Subtree'
<1> SUFFICES ASSUME op \in {"remove", "contents"}
             PROVE  /\ \A d \in Dirs : Entries(d)' \subseteq EntriesBefore(d)'
                    /\ \A i \in DOMAIN stack' : stack'[i].at \in Under'
  BY DEF Subtree, GoesOn
<1>0. Under' = Under /\ \A d \in Dirs : EntriesBefore(d)' = EntriesBefore(d)
  BY UnderStays DEF GoesOn
<1>1. \A d \in Dirs : Entries(d)' \subseteq Entries(d)
  BY DEF GoesOn, TakenAway, Entries
<1>2. stack \in Seq(Cursor) /\ stack' \in Seq(Cursor)
  BY TypeSplit DEF WalkInv, TypeOK, Cursor
<1>3. /\ Len(stack) \in Nat /\ DOMAIN stack = 1..Len(stack) /\ DOMAIN stack' = 1..Len(stack')
      /\ Len(stack') \in Nat
  BY <1>2 DEF Cursor
<1>4. \A i \in 1..Len(stack) : stack[i].at \in Under
  BY <1>3 DEF Subtree
<1>5. CASE Kept
  BY <1>0, <1>1, <1>3, <1>4, <1>5 DEF Kept, Subtree
<1>6. CASE Left
  <2>1. ASSUME NEW i \in 1..Len(stack) - 1 PROVE stack'[i].at \in Under
    <3>1. i + 1 \in 1..Len(stack) /\ stack'[i] = stack[i + 1]
      BY <1>3, <1>6 DEF Left
    <3> QED
      BY <1>4, <3>1
  <2>2. Len(stack') = Len(stack) - 1
    BY <1>6 DEF Left
  <2> QED
    BY <1>0, <1>1, <1>3, <2>1, <2>2 DEF Subtree
<1>7. CASE pc = "open" /\ Exists(target) /\ Entered
  <2>1. target \in Under
    BY <1>7, TargetUnder
  <2>2. Len(stack') = Len(stack) + 1 /\ stack'[1].at = target /\ \A k \in 1..Len(stack) : stack'[k + 1] = stack[k]
    BY <1>7 DEF Entered
  <2>3. ASSUME NEW i \in 1..Len(stack) + 1 PROVE stack'[i].at \in Under
    <3>1. CASE i = 1
      BY <2>1, <2>2, <3>1
    <3>2. CASE i # 1
      <4>1. i - 1 \in 1..Len(stack) /\ (i - 1) + 1 = i
        BY <1>3, <3>2
      <4>2. stack'[i] = stack[i - 1]
        BY <2>2, <4>1
      <4> QED
        BY <1>4, <4>1, <4>2
    <3> QED
      BY <3>1, <3>2
  <2> QED
    BY <1>0, <1>1, <1>3, <2>2, <2>3 DEF Subtree
<1> QED
  BY <1>5, <1>6, <1>7 DEF GoesOn

\* and spares what it has no business with.
LEMMA OthersKeep ==
  ASSUME WalkInv, Subtree, OthersStay, GoesOn
  PROVE  OthersStay'
<1> SUFFICES ASSUME op # "none", NEW d \in Dirs, NEW n \in EntriesBefore(d), n \notin Entries(d)'
             PROVE  ~Spared(n)'
  <2>1. \A e \in Dirs : EntriesBefore(e)' = EntriesBefore(e)
    BY UnderStays DEF GoesOn
  <2> QED
    BY <2>1 DEF OthersStay, GoesOn
<1>1. Spared(n)' <=> Spared(n)
  <2>1. Under' = Under
    BY UnderStays DEF GoesOn
  <2> QED
    BY <2>1 DEF Spared, GoesOn
<1>2. CASE n \notin Entries(d)
  BY <1>1, <1>2 DEF OthersStay
<1>3. CASE n \in Entries(d)
  <2>1. pc = "unlink" /\ TakenAway
    BY <1>3 DEF GoesOn, Entries
  <2>2. n = target /\ Removable(target)
    BY <1>3, <2>1 DEF TakenAway
  <2> QED
    BY <1>1, <2>1, <2>2, TargetNotSpared
<1> QED
  BY <1>2, <1>3

SpareInv == WalkInv /\ Subtree /\ OthersStay

\* The steps of a walk are steps of a command that goes on.
LEMMA WalkGoesOn ==
  ASSUME WalkInv, Walk
  PROVE  GoesOn /\ WalkInv'
<1>0. ASSUME UNCHANGED stack PROVE Kept
  BY <1>0 DEF Kept
<1>1. CASE OpenDir
  <2>1. pc = "open" /\ Exists(target) /\ Same
    BY <1>1 DEF OpenDir
  <2> QED
    BY <1>1, <2>1, OpenDirKeeps, SameIs DEF GoesOn
<1>2. CASE OpenFails
  BY <1>0, <1>2, OpenFailsKeeps, SameIs DEF GoesOn, OpenFails
<1>3. CASE ReadEntry
  BY <1>3, ReadEntryKeeps, SameIs DEF GoesOn, ReadEntry
<1>4. CASE ReadEnd
  BY <1>0, <1>4, ReadEndKeeps, SameIs DEF GoesOn, ReadEnd
<1>5. CASE ReadFails
  BY <1>5, ReadFailsKeeps, SameIs DEF GoesOn, ReadFails
<1>6. CASE Close
  BY <1>6, CloseKeeps, SameIs DEF GoesOn, Close
<1>7. CASE Unlink
  BY <1>7, UnlinkKeeps, SameIs DEF GoesOn, Unlink
<1>8. CASE Back
  <2>1. UNCHANGED op /\ UNCHANGED path /\ UNCHANGED before
    BY <1>8, SameIs DEF Back, Answer, walkVars
  <2> QED
    BY <1>0, <1>8, <2>1, BackKeeps DEF GoesOn
<1>9. CASE Mkdir
  <2>1. op = "mkdir" /\ Same
    BY <1>9 DEF WalkInv, Places, Mkdir
  <2> QED
    BY <1>0, <1>9, <2>1, MkdirKeeps, SameIs DEF GoesOn
<1> QED
  BY <1>1, <1>2, <1>3, <1>4, <1>5, <1>6, <1>7, <1>8, <1>9 DEF Walk

\* A removal adds nothing, walks only below its path and takes away only what is
\* there to be taken.
THEOREM SpareHolds == Spec => []SpareInv
<1>1. Init => SpareInv
  <2> SUFFICES ASSUME Init PROVE SpareInv
    OBVIOUS
  <2>1. WalkInv
    BY TreeAssumption, InitHolds
  <2>2. op = "none"
    BY DEF Init
  <2> QED
    BY <2>1, <2>2 DEF SpareInv, Subtree, OthersStay
<1>2. SpareInv /\ [Next]_vars => SpareInv'
  <2> SUFFICES ASSUME SpareInv, [Next]_vars PROVE SpareInv'
    OBVIOUS
  <2>0. WalkInv /\ Subtree /\ OthersStay
    BY DEF SpareInv
  <2>1. CASE Walk
    <3>1. GoesOn /\ WalkInv'
      BY <2>0, <2>1, WalkGoesOn
    <3> QED
      BY <2>0, <3>1, SubtreeKeeps, OthersKeep DEF SpareInv
  <2>2. CASE \E o \in Ops, n \in Nodes : Give(o, n)
    <3>1. PICK o \in Ops, n \in Nodes : Give(o, n)
      BY <2>2
    <3>2. WalkInv'
      BY <2>0, <3>1, TreeAssumption, GiveKeeps
    <3>3. stack' = <<>> /\ UNCHANGED disk /\ before' = disk
      BY <2>0, <3>1 DEF WalkInv, Places, Give
    <3>4. \A d \in Dirs : Entries(d)' = EntriesBefore(d)'
      BY <3>3 DEF Entries, EntriesBefore
    <3>5. DOMAIN stack' = {}
      BY <3>3, EmptyStack
    <3> QED
      BY <3>2, <3>4, <3>5 DEF SpareInv, Subtree, OthersStay
  <2>3. CASE PowerLoss
    <3>1. WalkInv' /\ op' = "none"
      BY <2>0, <2>3, TreeAssumption, PowerLossKeeps DEF PowerLoss
    <3> QED
      BY <3>1 DEF SpareInv, Subtree, OthersStay
  <2>4. CASE UNCHANGED vars
    <3>1. WalkInv'
      BY <2>0, <2>4, StutterKeeps
    <3>2. GoesOn
      BY <2>4 DEF GoesOn, Kept, vars, walkVars
    <3> QED
      BY <2>0, <3>1, <3>2, SubtreeKeeps, OthersKeep DEF SpareInv
  <2> QED
    BY <2>1, <2>2, <2>3, <2>4 DEF Next
<1> QED
  BY <1>1, <1>2, PTL DEF Spec

\* Every variable has its type.
THEOREM TypeCorrect == Spec => []TypeOK
<1>1. WalkInv => TypeOK
  BY DEF WalkInv
<1> QED
  BY <1>1, WalkHolds, PTL

\* LittleFS has in its list the lfs_dir_t of the running calls of recursive_remove
\* and of the others, and none of a call that has returned.
THEOREM ListIsBalanced == Spec => []MlistBalanced
<1>1. WalkInv => MlistBalanced
  BY DEF WalkInv
<1> QED
  BY <1>1, WalkHolds, PTL

\* At every moment of every command, after failed calls and a loss of power too,
\* the directories on the flash are a tree below the root.
THEOREM NothingIsOrphaned == Spec => []NothingOrphaned
<1>1. WalkInv => NothingOrphaned
  BY DEF WalkInv, NothingOrphaned
<1> QED
  BY <1>1, WalkHolds, PTL

\* What a command does not name stays in the directory it was in: TREE and MKDIR
\* take nothing away, the removals only what is below their path.
THEOREM OthersAreSpared == Spec => []OthersStay
<1>1. SpareInv => OthersStay
  BY DEF SpareInv
<1> QED
  BY <1>1, SpareHolds, PTL
-----------------------------------------------------------------------------
(***************************************************************************)
(* The entries of a list of blocks in their order: what is behind a place, *)
(* and what a deletion makes of it.                                        *)
(***************************************************************************)
\* The entries up to number id of block k.
UpTo(x, k, id) ==
    {n \in EntriesIn(x) : \E b \in DOMAIN x : \E i \in DOMAIN x[b] :
        x[b][i] = n /\ (b < k \/ (b = k /\ i <= id))}

\* Where a cursor may be: in a block, or behind the last.
Fits(x, k, id) == IF k \in DOMAIN x THEN id <= Len(x[k]) ELSE id = 0

\* A list of blocks, place by place.
LEMMA ListIs ==
  ASSUME NEW x \in Lists
  PROVE  /\ Len(x) \in Nat /\ DOMAIN x = 1..Len(x)
         /\ \A b \in DOMAIN x : /\ x[b] \in Seq(Nodes) /\ Len(x[b]) \in Nat /\ DOMAIN x[b] = 1..Len(x[b])
                                /\ \A i \in DOMAIN x[b] : x[b][i] \in EntriesIn(x)
         /\ \A n \in EntriesIn(x) : \E b \in DOMAIN x : \E i \in DOMAIN x[b] : x[b][i] = n
<1>1. /\ Len(x) \in Nat /\ DOMAIN x = 1..Len(x)
      /\ \A b \in DOMAIN x : x[b] \in Seq(Nodes) /\ Len(x[b]) \in Nat /\ DOMAIN x[b] = 1..Len(x[b])
  BY DEF Lists
<1> QED
  BY <1>1 DEF EntriesIn, Range

\* A block without its entry i; a place behind it in the same block moves back.
Without(x, b, i) == [x EXCEPT ![b] = RemoveAt(x[b], i)]

\* The blocks when an entry is taken out of one,
LEMMA WithoutIs ==
  ASSUME NEW x \in Lists, NEW b \in DOMAIN x, NEW i \in DOMAIN x[b], NEW u, u = Without(x, b, i)
  PROVE  /\ u \in Lists /\ Len(u) = Len(x) /\ Len(u[b]) = Len(x[b]) - 1
         /\ \A c \in DOMAIN x \ {b} : u[c] = x[c]
         /\ \A j \in DOMAIN u[b] : u[b][j] = x[b][IF j < i THEN j ELSE j + 1]
<1>1. PICK e : e = RemoveAt(x[b], i)
  OBVIOUS
<1>2. b \in 1..Len(x) /\ x[b] \in Seq(Nodes) /\ i \in 1..Len(x[b]) /\ Len(x[b]) \in Nat
  BY ListIs
<1>7. u = [x EXCEPT ![b] = e]
  BY <1>1 DEF Without
<1>3. /\ e \in Seq(Nodes) /\ Len(e) = Len(x[b]) - 1
      /\ \A k \in 1..Len(x[b]) - 1 : e[k] = IF k < i THEN x[b][k] ELSE x[b][k + 1]
  BY <1>1, <1>2, RemoveAtIs
<1>4. u \in Lists /\ Len(u) = Len(x) /\ u[b] = e
  BY <1>2, <1>3, <1>7 DEF Lists
<1>5. \A c \in DOMAIN x \ {b} : u[c] = x[c]
  BY <1>7
<1>6. \A j \in DOMAIN u[b] : u[b][j] = x[b][IF j < i THEN j ELSE j + 1]
  BY <1>2, <1>3, <1>4
<1> QED
  BY <1>3, <1>4, <1>5, <1>6

\* and the places in them: the entry is gone, nothing gets behind a cursor.
LEMMA WithoutKeeps ==
  ASSUME NEW x \in Lists, NEW b \in DOMAIN x, NEW i \in DOMAIN x[b], Once(x),
         NEW u, u = Without(x, b, i),
         NEW k \in Nat \ {0}, NEW id \in Nat, Fits(x, k, id),
         NEW id1, id1 = IF k = b /\ id >= i THEN id - 1 ELSE id
  PROVE  /\ Once(u) /\ x[b][i] \notin EntriesIn(u)
         /\ id1 \in Nat /\ Fits(u, k, id1) /\ UpTo(u, k, id1) \subseteq UpTo(x, k, id)
<1>0. /\ Len(x) \in Nat /\ DOMAIN x = 1..Len(x)
      /\ \A c \in DOMAIN x : Len(x[c]) \in Nat /\ DOMAIN x[c] = 1..Len(x[c])
  BY ListIs
<1>1. /\ u \in Lists /\ DOMAIN u = DOMAIN x /\ Len(u[b]) = Len(x[b]) - 1
      /\ \A c \in DOMAIN x \ {b} : u[c] = x[c]
      /\ \A j \in DOMAIN u[b] : u[b][j] = x[b][IF j < i THEN j ELSE j + 1]
  <2>1. /\ u \in Lists /\ Len(u) = Len(x) /\ Len(u[b]) = Len(x[b]) - 1
        /\ \A c \in DOMAIN x \ {b} : u[c] = x[c]
        /\ \A j \in DOMAIN u[b] : u[b][j] = x[b][IF j < i THEN j ELSE j + 1]
    BY WithoutIs
  <2>2. DOMAIN u = 1..Len(u)
    BY <2>1, ListIs
  <2> QED
    BY <1>0, <2>1, <2>2
<1>2. DOMAIN u[b] = 1..Len(x[b]) - 1
  BY <1>1, ListIs
\* Where an entry was.
<1> DEFINE at(c, j) == IF c = b /\ j >= i THEN j + 1 ELSE j
<1>3. ASSUME NEW c \in DOMAIN u, NEW j \in DOMAIN u[c]
      PROVE  /\ at(c, j) \in DOMAIN x[c] /\ u[c][j] = x[c][at(c, j)] /\ j \in Nat
             /\ c = b => at(c, j) # i
  <2>1. CASE c = b
    <3>1. j \in 1..Len(x[b]) - 1
      BY <1>2, <2>1
    <3>2. u[b][j] = x[b][IF j < i THEN j ELSE j + 1]
      BY <1>1, <1>2, <3>1
    <3> QED
      BY <1>0, <2>1, <3>1, <3>2
  <2>2. CASE c # b
    BY <1>0, <1>1, <2>2
  <2> QED
    BY <2>1, <2>2
<1>4. Once(u)
  <2> SUFFICES ASSUME NEW c \in DOMAIN u, NEW f \in DOMAIN u, NEW j \in DOMAIN u[c], NEW l \in DOMAIN u[f],
                      u[c][j] = u[f][l]
               PROVE  c = f /\ j = l
    BY DEF Once
  <2>1. c = f /\ at(c, j) = at(f, l)
    BY <1>1, <1>3 DEF Once
  <2>2. j \in Nat /\ l \in Nat /\ i \in Nat
    BY <1>0, <1>3
  <2> QED
    BY <2>1, <2>2
<1>5. x[b][i] \notin EntriesIn(u)
  <2> SUFFICES ASSUME x[b][i] \in EntriesIn(u) PROVE FALSE
    OBVIOUS
  <2>0. \A n \in EntriesIn(u) : \E c \in DOMAIN u : \E j \in DOMAIN u[c] : u[c][j] = n
    BY <1>1, ListIs
  <2>1. PICK c \in DOMAIN u : \E j \in DOMAIN u[c] : u[c][j] = x[b][i]
    BY <2>0
  <2>2. PICK j \in DOMAIN u[c] : u[c][j] = x[b][i]
    BY <2>1
  <2>3. x[c][at(c, j)] = x[b][i] /\ at(c, j) \in DOMAIN x[c] /\ c \in DOMAIN x
    BY <1>1, <1>3, <2>2
  <2>4. c = b /\ at(c, j) = i
    BY <2>3 DEF Once
  <2> QED
    BY <1>3, <2>4
<1>6. id1 \in Nat /\ Fits(u, k, id1)
  BY <1>0, <1>1 DEF Fits
<1>7. UpTo(u, k, id1) \subseteq UpTo(x, k, id)
  <2> SUFFICES ASSUME NEW n \in UpTo(u, k, id1) PROVE n \in UpTo(x, k, id)
    OBVIOUS
  <2>1. PICK c \in DOMAIN u : \E j \in DOMAIN u[c] : u[c][j] = n /\ (c < k \/ (c = k /\ j <= id1))
    BY DEF UpTo
  <2>2. PICK j \in DOMAIN u[c] : u[c][j] = n /\ (c < k \/ (c = k /\ j <= id1))
    BY <2>1
  <2>3. c \in DOMAIN x /\ at(c, j) \in DOMAIN x[c] /\ x[c][at(c, j)] = n /\ j \in Nat
    BY <1>1, <1>3, <2>2
  <2>4. c < k \/ (c = k /\ at(c, j) <= id)
    BY <1>0, <2>2, <2>3
  <2>5. n \in EntriesIn(x)
    BY <2>3, ListIs
  <2> QED
    BY <2>3, <2>4, <2>5 DEF UpTo
<1> QED
  BY <1>4, <1>5, <1>6, <1>7

\* An empty block that goes.
LEMMA DropKeeps ==
  ASSUME NEW x \in Lists, NEW b \in DOMAIN x, x[b] = <<>>, b > 1, Once(x),
         \A c \in DOMAIN x \ {b} : c > 1 => x[c] # <<>>,
         NEW y, y = RemoveAt(x, b),
         NEW k \in Nat \ {0}, NEW id \in Nat, Fits(x, k, id),
         NEW k1, k1 = IF k > b THEN k - 1 ELSE k
  PROVE  /\ y \in Lists /\ Len(y) = Len(x) - 1 /\ Once(y) /\ Tidy(y)
         /\ Fits(y, k1, id) /\ UpTo(y, k1, id) \subseteq UpTo(x, k, id)
         /\ EntriesIn(y) \subseteq EntriesIn(x)
<1>0. /\ Len(x) \in Nat /\ DOMAIN x = 1..Len(x) /\ b \in 1..Len(x)
      /\ \A c \in DOMAIN x : Len(x[c]) \in Nat /\ DOMAIN x[c] = 1..Len(x[c])
  BY ListIs
<1>1. /\ y \in Lists /\ Len(y) = Len(x) - 1
      /\ \A c \in 1..Len(x) - 1 : y[c] = IF c < b THEN x[c] ELSE x[c + 1]
  BY <1>0, RemoveAtIs DEF Lists
<1>2. DOMAIN y = 1..Len(x) - 1
  BY <1>1, ListIs
<1> DEFINE from(c) == IF c < b THEN c ELSE c + 1
<1>3. ASSUME NEW c \in DOMAIN y
      PROVE  from(c) \in DOMAIN x /\ from(c) # b /\ y[c] = x[from(c)] /\ c \in Nat
  BY <1>0, <1>1, <1>2
<1>4. Once(y)
  <2> SUFFICES ASSUME NEW c \in DOMAIN y, NEW e \in DOMAIN y, NEW j \in DOMAIN y[c], NEW l \in DOMAIN y[e],
                      y[c][j] = y[e][l]
               PROVE  c = e /\ j = l
    BY DEF Once
  <2>1. from(c) = from(e) /\ j = l
    BY <1>3 DEF Once
  <2> QED
    BY <1>0, <1>3, <2>1
<1>5. Tidy(y)
  <2>1. Len(x) - 1 # 0
    BY <1>0
  <2>2. y # <<>>
    BY <1>1, <2>1 DEF Lists
  <2>3. \A c \in DOMAIN y : c > 1 => y[c] # <<>>
    BY <1>0, <1>3
  <2> QED
    BY <2>2, <2>3 DEF Tidy
<1>6. Fits(y, k1, id)
  <2>1. CASE k = b
    <3>1. Len(x[b]) = 0
      OBVIOUS
    <3>2. id = 0 /\ k1 = b
      BY <1>0, <2>1, <3>1 DEF Fits
    <3>3. \A c \in DOMAIN y : Len(y[c]) \in Nat
      BY <1>1, ListIs
    <3> QED
      BY <3>2, <3>3 DEF Fits
  <2>2. CASE k # b
    <3>1. k1 \in DOMAIN y => from(k1) = k /\ k \in DOMAIN x /\ y[k1] = x[k]
      BY <1>0, <1>3, <2>2
    <3>2. k1 \notin DOMAIN y => k \notin DOMAIN x
      BY <1>0, <1>2, <2>2
    <3> QED
      BY <3>1, <3>2 DEF Fits
  <2> QED
    BY <2>1, <2>2
<1>8. EntriesIn(y) \subseteq EntriesIn(x)
  BY <1>3 DEF EntriesIn
<1>7. UpTo(y, k1, id) \subseteq UpTo(x, k, id)
  <2> SUFFICES ASSUME NEW n \in UpTo(y, k1, id) PROVE n \in UpTo(x, k, id)
    OBVIOUS
  <2>1. PICK c \in DOMAIN y : \E j \in DOMAIN y[c] : y[c][j] = n /\ (c < k1 \/ (c = k1 /\ j <= id))
    BY DEF UpTo
  <2>2. PICK j \in DOMAIN y[c] : y[c][j] = n /\ (c < k1 \/ (c = k1 /\ j <= id))
    BY <2>1
  <2>3. PICK f \in DOMAIN x : f = from(c) /\ f # b /\ j \in DOMAIN x[f] /\ x[f][j] = n
    BY <1>3, <2>2
  <2>4. f < k \/ (f = k /\ j <= id)
    <3>1. CASE k # b
      BY <1>0, <1>3, <2>2, <2>3, <3>1
    <3>2. CASE k = b
      <4>1. id = 0
        BY <1>0, <3>2 DEF Fits
      <4>2. j > 0 /\ j \in Nat
        BY <1>0, <2>3
      <4> QED
        BY <1>0, <1>3, <2>2, <2>3, <3>2, <4>1, <4>2
    <3> QED
      BY <3>1, <3>2
  <2>5. n \in EntriesIn(x)
    BY <1>8 DEF UpTo
  <2> QED
    BY <2>3, <2>4, <2>5 DEF UpTo
<1> QED
  BY <1>1, <1>4, <1>5, <1>6, <1>7, <1>8

\* A block that is split in two before its entry m + 1.
Split(x, b, m) ==
    SubSeq(x, 1, b - 1)
     \o <<SubSeq(x[b], 1, m), SubSeq(x[b], m + 1, Len(x[b]))>>
     \o SubSeq(x, b + 1, Len(x))

\* An element of a sequence replaced by two.
TwoFor(s, b, l, r) == SubSeq(s, 1, b - 1) \o <<l, r>> \o SubSeq(s, b + 1, Len(s))

HasTwo(s, b, l, r, y) ==
    /\ Len(y) = Len(s) + 1 /\ y[b] = l /\ y[b + 1] = r
    /\ \A c \in 1..b - 1 : y[c] = s[c]
    /\ \A c \in b + 1..Len(s) : y[c + 1] = s[c]

\* An element of a sequence is replaced by two,
LEMMA TwoForOne ==
  ASSUME NEW S, NEW s \in Seq(S), NEW b \in 1..Len(s), NEW l \in S, NEW r \in S,
         NEW y, y = TwoFor(s, b, l, r)
  PROVE  y \in Seq(S) /\ HasTwo(s, b, l, r, y)
<1>0. Len(s) \in Nat /\ b \in Nat /\ 1 <= b /\ b <= Len(s)
  OBVIOUS
<1>1. PICK f, g, h : f = SubSeq(s, 1, b - 1) /\ g = SubSeq(s, b + 1, Len(s)) /\ h = <<l, r>>
  OBVIOUS
<1>2. f \in Seq(S) /\ Len(f) = b - 1 /\ \A c \in 1..b - 1 : f[c] = s[c]
  BY <1>0, <1>1, PartIs
<1>3. g \in Seq(S) /\ Len(g) = Len(s) - b /\ \A c \in 1..Len(s) - b : g[c] = s[b + c]
  <2>1. b + 1 \in 1..Len(s) + 1 /\ Len(s) \in (b + 1) - 1..Len(s) /\ Len(s) - (b + 1) + 1 = Len(s) - b
    BY <1>0
  <2>2. /\ g \in Seq(S) /\ Len(g) = Len(s) - (b + 1) + 1
        /\ \A k \in 1..Len(s) - (b + 1) + 1 : g[k] = s[(b + 1) + k - 1]
    BY <1>1, <2>1, PartIs
  <2> QED
    BY <1>0, <2>1, <2>2
<1>4. h \in Seq(S) /\ Len(h) = 2 /\ h[1] = l /\ h[2] = r
  BY <1>1
<1>5. PICK v : v = f \o h
  OBVIOUS
<1>6. /\ v \in Seq(S) /\ Len(v) = b + 1
      /\ \A c \in 1..b + 1 : v[c] = IF c <= b - 1 THEN f[c] ELSE h[c - (b - 1)]
  <2>1. /\ v \in Seq(S) /\ Len(v) = Len(f) + Len(h)
        /\ \A c \in 1..Len(f) + Len(h) : v[c] = IF c <= Len(f) THEN f[c] ELSE h[c - Len(f)]
    BY <1>2, <1>4, <1>5, TwoParts
  <2> QED
    BY <1>0, <1>2, <1>4, <2>1
<1>7. y = v \o g
  BY <1>1, <1>5 DEF TwoFor
<1>8. /\ y \in Seq(S) /\ Len(y) = Len(s) + 1
      /\ \A c \in 1..Len(s) + 1 : y[c] = IF c <= b + 1 THEN v[c] ELSE g[c - (b + 1)]
  <2>1. /\ v \o g \in Seq(S) /\ Len(v \o g) = Len(v) + Len(g)
        /\ \A c \in 1..Len(v) + Len(g) : (v \o g)[c] = IF c <= Len(v) THEN v[c] ELSE g[c - Len(v)]
    BY <1>3, <1>6, TwoParts
  <2>2. Len(v) + Len(g) = Len(s) + 1
    BY <1>0, <1>3, <1>6
  <2> QED
    BY <1>6, <1>7, <2>1, <2>2
<1>9. ASSUME NEW c \in 1..b - 1 PROVE y[c] = s[c]
  <2>1. c \in 1..Len(s) + 1 /\ c <= b + 1 /\ c \in 1..b + 1 /\ c <= b - 1
    BY <1>0
  <2>2. y[c] = v[c] /\ v[c] = f[c]
    BY <1>6, <1>8, <2>1
  <2> QED
    BY <1>2, <2>2
<1>10. ASSUME NEW c \in b + 1..Len(s) PROVE y[c + 1] = s[c]
  <2>1. PICK a : a = c - b
    OBVIOUS
  <2>2. /\ a \in 1..Len(s) - b /\ b + a = c /\ c + 1 \in 1..Len(s) + 1 /\ ~(c + 1 <= b + 1)
        /\ (c + 1) - (b + 1) = a
    BY <1>0, <2>1
  <2>3. y[c + 1] = g[a]
    BY <1>8, <2>2
  <2>4. g[a] = s[b + a]
    BY <1>3, <2>2
  <2> QED
    BY <2>2, <2>3, <2>4
<1>11. y[b] = l /\ y[b + 1] = r
  <2>1. b \in 1..Len(s) + 1 /\ b + 1 \in 1..Len(s) + 1 /\ b \in 1..b + 1 /\ b + 1 \in 1..b + 1
        /\ b <= b + 1 /\ b - (b - 1) = 1 /\ (b + 1) - (b - 1) = 2 /\ ~(b <= b - 1) /\ ~(b + 1 <= b - 1)
    BY <1>0
  <2>2. y[b] = v[b] /\ y[b + 1] = v[b + 1]
    <3>1. y[b] = v[b]
      BY <1>8, <2>1
    <3>2. b + 1 <= b + 1
      BY <1>0
    <3>3. y[b + 1] = v[b + 1]
      BY <1>8, <2>1, <3>2
    <3> QED
      BY <3>1, <3>3
  <2>3. v[b] = h[1] /\ v[b + 1] = h[2]
    BY <1>6, <2>1
  <2> QED
    BY <1>4, <2>2, <2>3
<1> QED
  BY <1>8, <1>9, <1>10, <1>11 DEF HasTwo

HasSplit(x, b, m, y) ==
    /\ Len(y) = Len(x) + 1
    /\ \A c \in 1..b - 1 : y[c] = x[c]
    /\ \A c \in b + 1..Len(x) : y[c + 1] = x[c]
    /\ Len(y[b]) = m /\ \A j \in 1..m : y[b][j] = x[b][j]
    /\ Len(y[b + 1]) = Len(x[b]) - m
    /\ \A j \in 1..Len(x[b]) - m : y[b + 1][j] = x[b][m + j]

\* as a block is by its halves,
LEMMA SplitIs ==
  ASSUME NEW x \in Lists, NEW b \in DOMAIN x, NEW m \in 1..Len(x[b]) - 1, NEW y, y = Split(x, b, m)
  PROVE  y \in Lists /\ HasSplit(x, b, m, y)
<1>0. /\ Len(x) \in Nat /\ b \in 1..Len(x) /\ x[b] \in Seq(Nodes) /\ Len(x[b]) \in Nat
      /\ m \in Nat /\ 1 <= m /\ m < Len(x[b])
  <2>1. Len(x) \in Nat /\ b \in 1..Len(x) /\ x[b] \in Seq(Nodes) /\ Len(x[b]) \in Nat
    BY ListIs
  <2> QED
    BY <2>1
<1>1. PICK l, r : l = SubSeq(x[b], 1, m) /\ r = SubSeq(x[b], m + 1, Len(x[b]))
  OBVIOUS
<1>2. l \in Seq(Nodes) /\ Len(l) = m /\ \A j \in 1..m : l[j] = x[b][j]
  <2>1. 1 \in 1..Len(x[b]) + 1 /\ m \in 1 - 1..Len(x[b]) /\ m - 1 + 1 = m
    BY <1>0
  <2>2. /\ l \in Seq(Nodes) /\ Len(l) = m - 1 + 1
        /\ \A k \in 1..m - 1 + 1 : l[k] = x[b][1 + k - 1]
    BY <1>0, <1>1, <2>1, PartIs
  <2> QED
    BY <1>0, <2>1, <2>2
<1>3. r \in Seq(Nodes) /\ Len(r) = Len(x[b]) - m /\ \A j \in 1..Len(x[b]) - m : r[j] = x[b][m + j]
  <2>1. m + 1 \in 1..Len(x[b]) + 1 /\ Len(x[b]) \in (m + 1) - 1..Len(x[b])
        /\ Len(x[b]) - (m + 1) + 1 = Len(x[b]) - m
    BY <1>0
  <2>2. /\ r \in Seq(Nodes) /\ Len(r) = Len(x[b]) - (m + 1) + 1
        /\ \A k \in 1..Len(x[b]) - (m + 1) + 1 : r[k] = x[b][(m + 1) + k - 1]
    BY <1>0, <1>1, <2>1, PartIs
  <2> QED
    BY <1>0, <2>1, <2>2
<1>5. y = TwoFor(x, b, l, r)
  BY <1>1 DEF Split, TwoFor
<1>6. /\ y \in Lists /\ Len(y) = Len(x) + 1 /\ y[b] = l /\ y[b + 1] = r
      /\ \A c \in 1..b - 1 : y[c] = x[c]
      /\ \A c \in b + 1..Len(x) : y[c + 1] = x[c]
  <2>1. PICK B : B = Seq(Nodes)
    OBVIOUS
  <2>2. x \in Seq(B) /\ l \in B /\ r \in B
    BY <1>2, <1>3, <2>1 DEF Lists
  <2>3. y \in Seq(B) /\ HasTwo(x, b, l, r, y)
    BY <1>0, <1>5, <2>2, TwoForOne
  <2> QED
    BY <2>1, <2>3 DEF Lists, HasTwo
<1> QED
  BY <1>2, <1>3, <1>6 DEF HasSplit

\* Where place id of block k is after the split.
BlockAfter(b, m, k, id) == IF k > b \/ (k = b /\ id >= m) THEN k + 1 ELSE k
PlaceAfter(b, m, k, id) == IF k = b /\ id >= m THEN id - m ELSE id

\* Place id1 of block k1 of y is one of x, or the like.
StillAt(x, k, id, y, k1, id1) ==
    Once(y) /\ Tidy(y) /\ Fits(y, k1, id1) /\ UpTo(y, k1, id1) \subseteq UpTo(x, k, id)

\* and a cursor of the block finds its place in one of them.
LEMMA SplitKeeps ==
  ASSUME NEW x \in Lists, NEW b \in DOMAIN x, NEW m \in 1..Len(x[b]) - 1, Once(x), Tidy(x),
         NEW y, y = Split(x, b, m),
         NEW k \in Nat \ {0}, NEW id \in Nat, Fits(x, k, id),
         NEW k1, k1 = BlockAfter(b, m, k, id), NEW id1, id1 = PlaceAfter(b, m, k, id)
  PROVE  y \in Lists /\ HasSplit(x, b, m, y) /\ StillAt(x, k, id, y, k1, id1)
<1>9. /\ k1 = IF k > b \/ (k = b /\ id >= m) THEN k + 1 ELSE k
      /\ id1 = IF k = b /\ id >= m THEN id - m ELSE id
  BY DEF BlockAfter, PlaceAfter
<1>0. /\ Len(x) \in Nat /\ DOMAIN x = 1..Len(x) /\ b \in Nat /\ 1 <= b /\ b <= Len(x)
      /\ m \in Nat /\ 1 <= m /\ m < Len(x[b])
      /\ \A c \in DOMAIN x : Len(x[c]) \in Nat /\ DOMAIN x[c] = 1..Len(x[c])
  <2>1. /\ Len(x) \in Nat /\ DOMAIN x = 1..Len(x)
        /\ \A c \in DOMAIN x : Len(x[c]) \in Nat /\ DOMAIN x[c] = 1..Len(x[c])
    BY ListIs
  <2> QED
    BY <2>1
<1>1. /\ y \in Lists /\ Len(y) = Len(x) + 1
      /\ \A c \in 1..b - 1 : y[c] = x[c]
      /\ \A c \in b + 1..Len(x) : y[c + 1] = x[c]
      /\ Len(y[b]) = m /\ \A j \in 1..m : y[b][j] = x[b][j]
      /\ Len(y[b + 1]) = Len(x[b]) - m /\ \A j \in 1..Len(x[b]) - m : y[b + 1][j] = x[b][m + j]
  <2>1. y \in Lists /\ HasSplit(x, b, m, y)
    BY SplitIs
  <2> QED
    BY <2>1 DEF HasSplit
<1>2. /\ DOMAIN y = 1..Len(x) + 1
      /\ \A c \in DOMAIN y : Len(y[c]) \in Nat /\ DOMAIN y[c] = 1..Len(y[c])
  BY <1>1, ListIs
<1> DEFINE block(c) == IF c <= b THEN c ELSE c - 1
           place(c, j) == IF c = b + 1 THEN m + j ELSE j
<1>3. ASSUME NEW c \in DOMAIN y
      PROVE  /\ block(c) \in DOMAIN x /\ c \in Nat
             /\ c # b /\ c # b + 1 => y[c] = x[block(c)]
  <2>1. c \in 1..Len(x) + 1 /\ c \in Nat /\ block(c) \in DOMAIN x
    BY <1>0, <1>2
  <2>2. CASE c < b
    <3>1. c \in 1..b - 1 /\ block(c) = c
      BY <1>0, <2>1, <2>2
    <3> QED
      BY <1>1, <2>1, <3>1
  <2>3. CASE c > b + 1
    <3>1. PICK a : a = c - 1
      OBVIOUS
    <3>2. a \in b + 1..Len(x) /\ c = a + 1 /\ block(c) = a
      BY <1>0, <2>1, <2>3, <3>1
    <3> QED
      BY <1>1, <2>1, <3>2
  <2> QED
    BY <1>0, <2>1, <2>2, <2>3
<1>4. ASSUME NEW c \in DOMAIN y, NEW j \in DOMAIN y[c]
      PROVE  /\ block(c) \in DOMAIN x /\ place(c, j) \in DOMAIN x[block(c)] /\ c \in Nat /\ j \in Nat
             /\ j >= 1 /\ y[c][j] = x[block(c)][place(c, j)] /\ (c = b => j <= m)
  <2>1. CASE c = b
    <3>1. j \in 1..m
      BY <1>1, <1>2, <2>1
    <3>2. block(c) = b /\ place(c, j) = j /\ c \in Nat /\ j \in Nat /\ j >= 1 /\ j <= m
      BY <1>0, <2>1, <3>1
    <3>3. b \in DOMAIN x /\ j \in DOMAIN x[b] /\ y[b][j] = x[b][j]
      BY <1>0, <1>1, <1>3, <2>1, <3>1, <3>2
    <3> QED
      BY <2>1, <3>2, <3>3
  <2>2. CASE c = b + 1
    <3>1. j \in 1..Len(x[b]) - m
      BY <1>1, <1>2, <2>2
    <3>2. y[c][j] = x[b][m + j] /\ block(c) = b
      <4>1. y[b + 1][j] = x[b][m + j]
        BY <1>1, <3>1
      <4> QED
        BY <1>0, <2>2, <4>1
    <3>3. m + j \in DOMAIN x[b]
      BY <1>0, <3>1
    <3> QED
      BY <1>0, <1>3, <2>2, <3>1, <3>2, <3>3
  <2>3. CASE c # b /\ c # b + 1
    <3>1. block(c) \in DOMAIN x /\ c \in Nat /\ y[c] = x[block(c)]
      BY <1>3, <2>3
    <3>2. place(c, j) = j
      BY <2>3
    <3>3. j \in DOMAIN x[block(c)]
      BY <3>1
    <3>4. j \in Nat /\ j >= 1
      BY <1>0, <3>1, <3>3
    <3> QED
      BY <2>3, <3>1, <3>2, <3>3, <3>4
  <2> QED
    BY <2>1, <2>2, <2>3
<1>5. Once(y)
  <2> SUFFICES ASSUME NEW c \in DOMAIN y, NEW e \in DOMAIN y, NEW j \in DOMAIN y[c], NEW l \in DOMAIN y[e],
                      y[c][j] = y[e][l]
               PROVE  c = e /\ j = l
    BY DEF Once
  <2>1. block(c) = block(e) /\ place(c, j) = place(e, l)
    BY <1>4 DEF Once
  <2>2. /\ c \in Nat /\ j \in Nat /\ j >= 1 /\ (c = b => j <= m)
        /\ e \in Nat /\ l \in Nat /\ l >= 1 /\ (e = b => l <= m)
    BY <1>4
  <2>3. m \in Nat /\ b \in Nat
    BY <1>0
  <2>4. c = e
    <3> SUFFICES ASSUME c # e PROVE FALSE
      OBVIOUS
    <3>1. \/ c = b /\ e = b + 1
          \/ c = b + 1 /\ e = b
      BY <2>1, <2>2, <2>3
    <3>2. CASE c = b /\ e = b + 1
      <4>1. j = m + l
        BY <2>1, <2>3, <3>2
      <4> QED
        BY <2>2, <2>3, <3>2, <4>1
    <3>3. CASE c = b + 1 /\ e = b
      <4>1. l = m + j
        BY <2>1, <2>3, <3>3
      <4> QED
        BY <2>2, <2>3, <3>3, <4>1
    <3> QED
      BY <3>1, <3>2, <3>3
  <2> QED
    BY <2>1, <2>2, <2>3, <2>4
<1>6. Tidy(y)
  <2>1. y # <<>>
    BY <1>0, <1>1 DEF Lists
  <2>2. ASSUME NEW c \in DOMAIN y, c > 1 PROVE y[c] # <<>>
    <3>1. CASE c = b
      BY <1>0, <1>1, <3>1
    <3>2. CASE c = b + 1
      BY <1>0, <1>1, <3>2
    <3>3. CASE c # b /\ c # b + 1
      <4>1. block(c) > 1
        BY <1>0, <1>3, <2>2, <3>3
      <4> QED
        BY <1>3, <3>3, <4>1 DEF Tidy
    <3> QED
      BY <3>1, <3>2, <3>3
  <2> QED
    BY <2>1, <2>2 DEF Tidy
<1>7. Fits(y, k1, id1)
  <2>1. CASE k < b
    <3>1. k1 = k /\ id1 = id /\ k \in DOMAIN x /\ k \in DOMAIN y /\ k \in 1..b - 1
      BY <1>9, <1>0, <1>2, <2>1
    <3>2. y[k] = x[k]
      BY <1>1, <3>1
    <3> QED
      BY <3>1, <3>2 DEF Fits
  <2>2. CASE k = b
    <3>1. id <= Len(x[b])
      BY <2>2 DEF Fits
    <3>2. CASE id >= m
      BY <1>9, <1>0, <1>1, <1>2, <2>2, <3>1, <3>2 DEF Fits
    <3>3. CASE id < m
      BY <1>9, <1>0, <1>1, <1>2, <2>2, <3>3 DEF Fits
    <3> QED
      BY <1>9, <1>0, <3>2, <3>3
  <2>3. CASE k > b
    <3>1. k1 = k + 1 /\ id1 = id
      BY <1>9, <1>0, <2>3
    <3>2. CASE k \in DOMAIN x
      <4>1. k1 \in DOMAIN y /\ y[k1] = x[k]
        <5>1. k \in b + 1..Len(x) /\ k1 = k + 1 /\ k1 \in DOMAIN y
          BY <1>9, <1>0, <1>2, <2>3, <3>1, <3>2
        <5>2. y[k + 1] = x[k]
          BY <1>1, <5>1
        <5> QED
          BY <5>1, <5>2
      <4> QED
        BY <3>1, <3>2, <4>1 DEF Fits
    <3>3. CASE k \notin DOMAIN x
      <4>1. k1 \notin DOMAIN y
        BY <1>9, <1>0, <1>2, <2>3, <3>1, <3>3
      <4> QED
        BY <3>1, <3>3, <4>1 DEF Fits
    <3> QED
      BY <3>2, <3>3
  <2> QED
    BY <1>9, <1>0, <2>1, <2>2, <2>3
<1>8. UpTo(y, k1, id1) \subseteq UpTo(x, k, id)
  <2> SUFFICES ASSUME NEW n \in UpTo(y, k1, id1) PROVE n \in UpTo(x, k, id)
    OBVIOUS
  <2>1. PICK c \in DOMAIN y : \E j \in DOMAIN y[c] : y[c][j] = n /\ (c < k1 \/ (c = k1 /\ j <= id1))
    BY DEF UpTo
  <2>2. PICK j \in DOMAIN y[c] : y[c][j] = n /\ (c < k1 \/ (c = k1 /\ j <= id1))
    BY <2>1
  <2>3. PICK f \in DOMAIN x : f = block(c)
    BY <1>3
  <2>4. PICK p \in DOMAIN x[f] : p = place(c, j) /\ x[f][p] = n
    BY <1>4, <2>2, <2>3
  <2>5. c \in Nat /\ j \in Nat /\ j >= 1 /\ (c = b => j <= m)
    BY <1>4
  <2>6. f < k \/ (f = k /\ p <= id)
    BY <1>9, <1>0, <2>2, <2>3, <2>4, <2>5, SMTT(30)
  <2>7. n \in EntriesIn(x)
    BY <2>4, ListIs
  <2> QED
    BY <2>4, <2>6, <2>7 DEF UpTo
<1> QED
  BY <1>1, <1>5, <1>6, <1>7, <1>8, SplitIs DEF StillAt

\* The end of a block is the beginning of the next one.
LEMMA NextBlock ==
  ASSUME NEW x \in Lists, NEW b \in DOMAIN x, b < Len(x), NEW id \in Nat, id >= Len(x[b])
  PROVE  Fits(x, b + 1, 0) /\ UpTo(x, b + 1, 0) \subseteq UpTo(x, b, id)
<1>0. /\ Len(x) \in Nat /\ DOMAIN x = 1..Len(x)
      /\ \A c \in DOMAIN x : Len(x[c]) \in Nat /\ DOMAIN x[c] = 1..Len(x[c])
  BY ListIs
<1>1. Fits(x, b + 1, 0)
  BY <1>0 DEF Fits
<1>2. ASSUME NEW c \in DOMAIN x, NEW j \in DOMAIN x[c], c < b + 1 \/ (c = b + 1 /\ j <= 0)
      PROVE  c < b \/ (c = b /\ j <= id)
  <2>1. c \in Nat /\ b \in Nat /\ j \in 1..Len(x[c]) /\ Len(x[c]) \in Nat /\ Len(x[b]) \in Nat
    BY <1>0
  <2> QED
    BY <1>2, <2>1
<1> QED
  BY <1>1, <1>2 DEF UpTo

\* The fixmlist part of lfs_dir_relocatingcommit: whatever the commit makes of
\* the blocks, nothing that was in front of a cursor gets behind it.
LEMMA SettledHolds ==
  ASSUME disk \in Disks, NEW d \in Dirs, NEW b \in DOMAIN disk[d], NEW i \in DOMAIN disk[d][b],
         Once(disk[d]), Tidy(disk[d]), NEW y \in Deleted(d, b, i),
         NEW c \in Cursor, c.at = d, Fits(disk[d], c.blk, c.id), NEW s, s = Settled(c, d, b, i, y)
  PROVE  /\ Once(y) /\ Tidy(y) /\ disk[d][b][i] \notin EntriesIn(y)
         /\ Fits(y, s.blk, s.id) /\ UpTo(y, s.blk, s.id) \subseteq UpTo(disk[d], c.blk, c.id)
<1>1. PICK x, u, k, id, id1 :
        /\ x = disk[d] /\ u = Without(x, b, i) /\ k = c.blk /\ id = c.id
        /\ id1 = IF k = b /\ id >= i THEN id - 1 ELSE id
  OBVIOUS
<1>2. x \in Lists /\ b \in DOMAIN x /\ i \in DOMAIN x[b] /\ k \in Nat \ {0} /\ id \in Nat
  BY <1>1 DEF Disks, Lists, Cursor
<1>3. Once(x) /\ Tidy(x) /\ Fits(x, k, id)
  BY <1>1
<1>4. /\ Once(u) /\ x[b][i] \notin EntriesIn(u)
      /\ id1 \in Nat /\ Fits(u, k, id1) /\ UpTo(u, k, id1) \subseteq UpTo(x, k, id)
  BY <1>1, <1>2, <1>3, WithoutKeeps
<1>5. u \in Lists /\ Len(u) = Len(x) /\ Len(u[b]) = Len(x[b]) - 1 /\ \A e \in DOMAIN x \ {b} : u[e] = x[e]
  BY <1>1, <1>2, WithoutIs
<1>6. /\ Len(x) \in Nat /\ DOMAIN x = 1..Len(x) /\ DOMAIN u = 1..Len(x) /\ Len(u[b]) \in Nat
      /\ b \in Nat /\ 1 <= b /\ b <= Len(x)
  BY <1>2, <1>5, ListIs
<1>7. \/ b > 1 /\ u[b] = <<>> /\ y = RemoveAt(u, b)
      \/ ~(b > 1 /\ u[b] = <<>>) /\ y \in Halves(u, b)
  BY <1>1 DEF Deleted, Without
\* What Settled does, in these terms.
<1>8. /\ k < b => s.blk = k /\ s.id = id
      /\ k > b => s.blk = k + Len(y) - Len(x) /\ s.id = id
      /\ k = b /\ Len(y) < Len(x) => s.blk = k /\ s.id = id1
      /\ k = b /\ ~(Len(y) < Len(x)) /\ ~(id1 >= Len(y[b]) /\ b < Len(y)) => s.blk = k /\ s.id = id1
      /\ k = b /\ ~(Len(y) < Len(x)) /\ id1 >= Len(y[b]) /\ b < Len(y)
           => s.blk = b + 1 /\ s.id = id1 - Len(y[b])
  <2>1. k \in Nat /\ b \in Nat /\ c \in [at : Dirs, blk : Nat \ {0}, id : Nat]
    BY <1>2, <1>6 DEF Cursor
  <2>2. k < b => s = c
    BY <1>1 DEF Settled
  <2>3. k > b => s = [c EXCEPT !.blk = c.blk + Len(y) - Len(disk[d])]
    BY <1>1, <2>1 DEF Settled
  <2>4. k = b /\ Len(y) < Len(x) => s = [c EXCEPT !.id = id1]
    BY <1>1, <2>1 DEF Settled
  <2>5. k = b /\ ~(Len(y) < Len(x)) /\ ~(id1 >= Len(y[b]) /\ b < Len(y)) => s = [c EXCEPT !.id = id1]
    BY <1>1, <2>1 DEF Settled
  <2>6. k = b /\ ~(Len(y) < Len(x)) /\ id1 >= Len(y[b]) /\ b < Len(y)
          => s = [c EXCEPT !.blk = b + 1, !.id = id1 - Len(y[b])]
    BY <1>1, <2>1 DEF Settled
  <2> QED
    BY <1>1, <2>1, <2>2, <2>3, <2>4, <2>5, <2>6
<1>9. CASE b > 1 /\ u[b] = <<>> /\ y = RemoveAt(u, b)
  <2>1. PICK k1 : k1 = IF k > b THEN k - 1 ELSE k
    OBVIOUS
  <2>2. \A e \in DOMAIN u \ {b} : e > 1 => u[e] # <<>>
    BY <1>3, <1>5, <1>6 DEF Tidy
  <2>3. b \in DOMAIN u
    BY <1>6
  <2>4. /\ y \in Lists /\ Len(y) = Len(u) - 1 /\ Once(y) /\ Tidy(y)
        /\ Fits(y, k1, id1) /\ UpTo(y, k1, id1) \subseteq UpTo(u, k, id1)
        /\ EntriesIn(y) \subseteq EntriesIn(u)
    BY <1>2, <1>4, <1>5, <1>9, <2>1, <2>2, <2>3, DropKeeps
  <2>5. s.blk = k1 /\ s.id = id1
    BY <1>1, <1>2, <1>5, <1>6, <1>8, <2>1, <2>4
  <2> QED
    BY <1>1, <1>4, <2>4, <2>5
<1>10. CASE ~(b > 1 /\ u[b] = <<>>) /\ y \in Halves(u, b)
  <2>1. Tidy(u) /\ b \in DOMAIN u
    <3>1. u # <<>>
      BY <1>5, <1>6 DEF Lists
    <3>2. \A e \in DOMAIN u : e > 1 => u[e] # <<>>
      BY <1>3, <1>5, <1>6, <1>10 DEF Tidy
    <3> QED
      BY <1>6, <3>1, <3>2 DEF Tidy
  <2>2. CASE y = u
    <3>1. CASE k = b /\ id1 >= Len(u[b]) /\ b < Len(u)
      <4>1. id1 = Len(u[b])
        BY <1>4, <1>6, <2>1, <3>1 DEF Fits
      <4>2. s.blk = b + 1 /\ s.id = 0
        BY <1>5, <1>6, <1>8, <2>2, <3>1, <4>1
      <4>3. Fits(u, b + 1, 0) /\ UpTo(u, b + 1, 0) \subseteq UpTo(u, b, id1)
        BY <1>4, <1>5, <2>1, <3>1, NextBlock
      <4> QED
        BY <1>1, <1>4, <2>1, <2>2, <3>1, <4>2, <4>3
    <3>2. CASE ~(k = b /\ id1 >= Len(u[b]) /\ b < Len(u))
      <4>1. s.blk = k /\ s.id = id1
        <5>1. Len(y) = Len(x) /\ k \in Nat /\ y[b] = u[b]
          BY <1>2, <1>5, <2>2
        <5>2. CASE k < b
          BY <1>1, <1>6, <1>8, <5>1, <5>2
        <5>3. CASE k > b
          BY <1>1, <1>6, <1>8, <5>1, <5>3
        <5>4. CASE k = b
          BY <1>5, <1>6, <1>8, <2>2, <3>2, <5>1, <5>4
        <5> QED
          BY <1>6, <5>1, <5>2, <5>3, <5>4
      <4> QED
        BY <1>1, <1>4, <2>1, <2>2, <4>1
    <3> QED
      BY <3>1, <3>2
  <2>3. CASE \E m \in 1..Len(u[b]) - 1 : y = Split(u, b, m)
    <3>1. PICK m \in 1..Len(u[b]) - 1 : y = Split(u, b, m)
      BY <2>3
    <3>2. PICK k1, id2 : k1 = BlockAfter(b, m, k, id1) /\ id2 = PlaceAfter(b, m, k, id1)
      OBVIOUS
    <3>6. y \in Lists /\ HasSplit(u, b, m, y) /\ StillAt(u, k, id1, y, k1, id2)
      BY <1>2, <1>4, <1>5, <2>1, <3>1, <3>2, SplitKeeps
    <3>3. /\ y \in Lists /\ Len(y) = Len(u) + 1 /\ Len(y[b]) = m /\ Once(y) /\ Tidy(y)
          /\ Fits(y, k1, id2) /\ UpTo(y, k1, id2) \subseteq UpTo(u, k, id1)
      BY <3>6 DEF HasSplit, StillAt
    <3>4. s.blk = k1 /\ s.id = id2
      <4>1. /\ k1 = IF k > b \/ (k = b /\ id1 >= m) THEN k + 1 ELSE k
            /\ id2 = IF k = b /\ id1 >= m THEN id1 - m ELSE id1
        BY <3>2 DEF BlockAfter, PlaceAfter
      <4>2. Len(y) = Len(x) + 1 /\ Len(y[b]) = m /\ b < Len(y) /\ ~(Len(y) < Len(x)) /\ k \in Nat
        BY <1>2, <1>5, <1>6, <3>3
      <4>3. k # b => id1 = id
        BY <1>1
      <4>4. CASE k < b
        BY <1>6, <1>8, <4>1, <4>2, <4>3, <4>4
      <4>5. CASE k > b
        <5>1. k + Len(y) - Len(x) = k + 1
          BY <1>6, <4>2
        <5> QED
          BY <1>6, <1>8, <4>1, <4>2, <4>3, <4>5, <5>1
      <4>6. CASE k = b /\ id1 >= m
        BY <1>8, <4>1, <4>2, <4>6
      <4>7. CASE k = b /\ ~(id1 >= m)
        BY <1>8, <4>1, <4>2, <4>7
      <4> QED
        BY <1>6, <4>2, <4>4, <4>5, <4>6, <4>7
    <3>5. EntriesIn(y) = EntriesIn(u)
      <4>1. b \in 1..Len(u)
        BY <1>5, <1>6
      <4> QED
        BY <1>5, <1>10, <4>1, HalvesKeep
    <3> QED
      BY <1>1, <1>4, <3>3, <3>4, <3>5
  <2> QED
    BY <1>10, <2>2, <2>3 DEF Halves, Split
<1> QED
  BY <1>7, <1>9, <1>10

\* The same for the blocks alone, with the cursor of a directory just opened.
LEMMA DeletedHolds ==
  ASSUME disk \in Disks, NEW d \in Dirs, NEW b \in DOMAIN disk[d], NEW i \in DOMAIN disk[d][b],
         Once(disk[d]), Tidy(disk[d]), NEW y \in Deleted(d, b, i)
  PROVE  Once(y) /\ Tidy(y) /\ disk[d][b][i] \notin EntriesIn(y)
<1>1. PICK c : c = Opened(d)
  OBVIOUS
<1>2. c \in Cursor /\ c.at = d /\ c.blk = 1 /\ c.id = 0
  BY <1>1 DEF Opened, Cursor
<1>3. Fits(disk[d], c.blk, c.id)
  <2>1. disk[d] \in Lists
    BY DEF Disks, Lists
  <2> QED
    BY <1>2, <2>1, ListIs DEF Fits
<1>4. PICK s : s = Settled(c, d, b, i, y)
  OBVIOUS
<1> QED
  BY <1>2, <1>3, <1>4, SettledHolds

\* A sequence with a new element.
LEMMA InsertAtIs ==
  ASSUME NEW S, NEW s \in Seq(S), NEW i \in 1..Len(s) + 1, NEW e \in S, NEW y, y = InsertAt(s, i, e)
  PROVE  /\ y \in Seq(S) /\ Len(y) = Len(s) + 1 /\ y[i] = e
         /\ \A k \in 1..i - 1 : y[k] = s[k]
         /\ \A k \in i..Len(s) : y[k + 1] = s[k]
<1>0. Len(s) \in Nat /\ i \in Nat /\ 1 <= i /\ i <= Len(s) + 1
  OBVIOUS
<1>1. PICK f, g, h : f = SubSeq(s, 1, i - 1) /\ g = SubSeq(s, i, Len(s)) /\ h = <<e>>
  OBVIOUS
<1>2. f \in Seq(S) /\ Len(f) = i - 1 /\ \A k \in 1..i - 1 : f[k] = s[k]
  BY <1>0, <1>1, PartIs
<1>3. g \in Seq(S) /\ Len(g) = Len(s) - i + 1 /\ \A k \in 1..Len(s) - i + 1 : g[k] = s[i + k - 1]
  <2>1. i \in 1..Len(s) + 1 /\ Len(s) \in i - 1..Len(s)
    BY <1>0
  <2> QED
    BY <1>1, <2>1, PartIs
<1>4. h \in Seq(S) /\ Len(h) = 1 /\ h[1] = e
  BY <1>1
<1>5. PICK v : v = f \o h
  OBVIOUS
<1>6. /\ v \in Seq(S) /\ Len(v) = i
      /\ \A c \in 1..i : v[c] = IF c <= i - 1 THEN f[c] ELSE h[c - (i - 1)]
  <2>1. /\ v \in Seq(S) /\ Len(v) = Len(f) + Len(h)
        /\ \A c \in 1..Len(f) + Len(h) : v[c] = IF c <= Len(f) THEN f[c] ELSE h[c - Len(f)]
    BY <1>2, <1>4, <1>5, TwoParts
  <2> QED
    BY <1>0, <1>2, <1>4, <2>1
<1>7. y = v \o g
  BY <1>1, <1>5 DEF InsertAt
<1>8. /\ y \in Seq(S) /\ Len(y) = Len(s) + 1
      /\ \A c \in 1..Len(s) + 1 : y[c] = IF c <= i THEN v[c] ELSE g[c - i]
  <2>1. /\ v \o g \in Seq(S) /\ Len(v \o g) = Len(v) + Len(g)
        /\ \A c \in 1..Len(v) + Len(g) : (v \o g)[c] = IF c <= Len(v) THEN v[c] ELSE g[c - Len(v)]
    BY <1>3, <1>6, TwoParts
  <2>2. Len(v) + Len(g) = Len(s) + 1
    BY <1>0, <1>3, <1>6
  <2> QED
    BY <1>6, <1>7, <2>1, <2>2
<1>9. ASSUME NEW k \in 1..i - 1 PROVE y[k] = s[k]
  <2>1. k \in 1..Len(s) + 1 /\ k <= i /\ k \in 1..i /\ k <= i - 1
    BY <1>0
  <2>2. y[k] = v[k] /\ v[k] = f[k]
    BY <1>6, <1>8, <2>1
  <2> QED
    BY <1>2, <2>2
<1>10. ASSUME NEW k \in i..Len(s) PROVE y[k + 1] = s[k]
  <2>1. PICK a : a = k + 1 - i
    OBVIOUS
  <2>2. /\ a \in 1..Len(s) - i + 1 /\ i + a - 1 = k /\ k + 1 \in 1..Len(s) + 1 /\ ~(k + 1 <= i)
        /\ (k + 1) - i = a
    BY <1>0, <2>1
  <2>3. y[k + 1] = g[a]
    BY <1>8, <2>2
  <2>4. g[a] = s[i + a - 1]
    BY <1>3, <2>2
  <2> QED
    BY <2>2, <2>3, <2>4
<1>11. y[i] = e
  <2>1. i \in 1..Len(s) + 1 /\ i <= i /\ i \in 1..i /\ ~(i <= i - 1) /\ i - (i - 1) = 1
    BY <1>0
  <2>2. y[i] = v[i]
    BY <1>8, <2>1
  <2>3. v[i] = h[1]
    BY <1>6, <2>1
  <2> QED
    BY <1>4, <2>2, <2>3
<1> QED
  BY <1>8, <1>9, <1>10, <1>11

\* The commit of a new entry keeps every entry once, and no block empty.
LEMMA InsertedHolds ==
  ASSUME NEW x \in Lists, Once(x), Tidy(x), NEW n \in Nodes, n \notin EntriesIn(x), NEW y \in Inserted(x, n)
  PROVE  Once(y) /\ Tidy(y)
<1>1. PICK b \in DOMAIN x :
         y \in UNION {Halves([x EXCEPT ![b] = InsertAt(@, i, n)], b) : i \in 1..Len(x[b]) + 1}
  BY DEF Inserted
<1>2. PICK i \in 1..Len(x[b]) + 1 : y \in Halves([x EXCEPT ![b] = InsertAt(@, i, n)], b)
  BY <1>1
<1>3. /\ Len(x) \in Nat /\ DOMAIN x = 1..Len(x) /\ x[b] \in Seq(Nodes)
      /\ \A c \in DOMAIN x : /\ Len(x[c]) \in Nat /\ DOMAIN x[c] = 1..Len(x[c])
                             /\ \A j \in DOMAIN x[c] : x[c][j] \in EntriesIn(x)
  BY ListIs
<1>4. PICK e : e = InsertAt(x[b], i, n)
  OBVIOUS
<1>5. /\ e \in Seq(Nodes) /\ Len(e) = Len(x[b]) + 1 /\ e[i] = n
      /\ \A k \in 1..i - 1 : e[k] = x[b][k]
      /\ \A k \in i..Len(x[b]) : e[k + 1] = x[b][k]
  BY <1>3, <1>4, InsertAtIs
<1>6. PICK u : u = [x EXCEPT ![b] = e]
  OBVIOUS
<1>7. u \in Lists /\ Len(u) = Len(x) /\ u[b] = e /\ DOMAIN u = 1..Len(x)
      /\ \A c \in DOMAIN x \ {b} : u[c] = x[c]
  BY <1>3, <1>5, <1>6 DEF Lists
<1>8. y \in Halves(u, b)
  BY <1>2, <1>4, <1>6
<1>9. DOMAIN e = 1..Len(x[b]) + 1 /\ i \in Nat /\ i >= 1 /\ i <= Len(x[b]) + 1
  BY <1>3, <1>5
\* Where an entry that is not the new one was.
<1> DEFINE at(c, j) == IF c = b /\ j > i THEN j - 1 ELSE j
<1>10. ASSUME NEW c \in DOMAIN u, NEW j \in DOMAIN u[c]
       PROVE  /\ j \in Nat
              /\ \/ c = b /\ j = i /\ u[c][j] = n
                 \/ /\ ~(c = b /\ j = i) /\ at(c, j) \in DOMAIN x[c]
                    /\ u[c][j] = x[c][at(c, j)] /\ u[c][j] # n
  <2>1. CASE c = b
    <3>1. j \in 1..Len(x[b]) + 1 /\ u[c][j] = e[j]
      BY <1>7, <1>9, <2>1
    <3>2. CASE j = i
      BY <1>5, <1>9, <2>1, <3>1, <3>2
    <3>3. CASE j < i
      <4>1. j \in 1..i - 1 /\ j \in DOMAIN x[b] /\ at(c, j) = j
        BY <1>3, <1>9, <3>1, <3>3
      <4>2. x[b][j] \in EntriesIn(x)
        BY <1>3, <4>1
      <4> QED
        BY <1>5, <1>9, <2>1, <3>1, <3>3, <4>1, <4>2
    <3>4. CASE j > i
      <4>1. PICK k : k = j - 1
        OBVIOUS
      <4>2. k \in i..Len(x[b]) /\ j = k + 1 /\ k \in DOMAIN x[b] /\ at(c, j) = k
        BY <1>3, <1>9, <2>1, <3>1, <3>4, <4>1
      <4>3. e[j] = x[b][k] /\ x[b][k] \in EntriesIn(x)
        BY <1>3, <1>5, <4>2
      <4> QED
        BY <1>9, <2>1, <3>1, <3>4, <4>2, <4>3
    <3> QED
      BY <1>9, <3>1, <3>2, <3>3, <3>4
  <2>2. CASE c # b
    <3>1. c \in DOMAIN x /\ u[c] = x[c] /\ j \in DOMAIN x[c]
      BY <1>3, <1>7, <2>2
    <3>2. x[c][j] \in EntriesIn(x) /\ j \in Nat
      BY <1>3, <3>1
    <3> QED
      BY <2>2, <3>1, <3>2
  <2> QED
    BY <2>1, <2>2
<1>11. Once(u)
  <2> SUFFICES ASSUME NEW c \in DOMAIN u, NEW f \in DOMAIN u, NEW j \in DOMAIN u[c], NEW l \in DOMAIN u[f],
                      u[c][j] = u[f][l]
               PROVE  c = f /\ j = l
    BY DEF Once
  <2>1. CASE u[c][j] = n
    <3>1. c = b /\ j = i
      BY <1>10, <2>1
    <3>2. u[f][l] = n
      BY <2>1
    <3>3. f = b /\ l = i
      BY <1>10, <3>2
    <3> QED
      BY <3>1, <3>3
  <2>2. CASE u[c][j] # n
    <3>1. at(c, j) \in DOMAIN x[c] /\ at(f, l) \in DOMAIN x[f] /\ x[c][at(c, j)] = x[f][at(f, l)]
      BY <1>10, <2>2
    <3>2. c = f /\ at(c, j) = at(f, l)
      BY <1>3, <1>7, <3>1 DEF Once
    <3>3. j \in Nat /\ l \in Nat /\ i \in Nat /\ ~(c = b /\ j = i) /\ ~(f = b /\ l = i)
      BY <1>9, <1>10, <2>2
    <3> QED
      BY <3>2, <3>3
  <2> QED
    BY <2>1, <2>2
<1>12. Tidy(u)
  <2>1. u # <<>>
    BY <1>3, <1>7 DEF Lists
  <2>2. e # <<>>
    BY <1>3, <1>5
  <2> QED
    BY <1>3, <1>7, <2>1, <2>2 DEF Tidy
<1>13. CASE y = u
  BY <1>11, <1>12, <1>13
<1>14. CASE \E m \in 1..Len(u[b]) - 1 : y = Split(u, b, m)
  <2>1. PICK m \in 1..Len(u[b]) - 1 : y = Split(u, b, m)
    BY <1>14
  <2>2. Fits(u, 1, 0) /\ b \in DOMAIN u
    BY <1>3, <1>7, ListIs DEF Fits
  <2>3. PICK k1, id1 : k1 = BlockAfter(b, m, 1, 0) /\ id1 = PlaceAfter(b, m, 1, 0)
    OBVIOUS
  <2>4. 1 \in Nat \ {0} /\ 0 \in Nat
    OBVIOUS
  <2>5. StillAt(u, 1, 0, y, k1, id1)
    BY <1>7, <1>11, <1>12, <2>1, <2>2, <2>3, <2>4, SplitKeeps
  <2> QED
    BY <2>5 DEF StillAt
<1> QED
  BY <1>8, <1>13, <1>14 DEF Halves, Split

\* Reading on, only the entry that is read gets behind the cursor.
LEMMA AdvancedHolds ==
  ASSUME disk \in Disks, NEW c \in Cursor, Unread(c) # {}, Fits(disk[c.at], c.blk, c.id)
  PROVE  /\ Fits(disk[c.at], Advanced(c).blk, Advanced(c).id)
         /\ UpTo(disk[c.at], Advanced(c).blk, Advanced(c).id)
              = UpTo(disk[c.at], c.blk, c.id) \cup {EntryAt(Advanced(c))}
         /\ Once(disk[c.at]) => EntryAt(Advanced(c)) \notin UpTo(disk[c.at], c.blk, c.id)
<1>1. PICK x, k, id : x = disk[c.at] /\ k = c.blk /\ id = c.id
  OBVIOUS
<1>2. x \in Lists /\ c.at \in Dirs /\ k \in Nat \ {0} /\ id \in Nat
  BY <1>1 DEF Disks, Lists, Cursor
<1>3. /\ Len(x) \in Nat /\ DOMAIN x = 1..Len(x)
      /\ \A b \in DOMAIN x : Len(x[b]) \in Nat /\ DOMAIN x[b] = 1..Len(x[b])
  BY <1>2, ListIs
<1>4. \A b : b \in Unread(c) <=> b \in DOMAIN x /\ IF b = k THEN id < Len(x[b]) ELSE b > k /\ x[b] # <<>>
  BY <1>1 DEF Unread
<1>5. PICK b : b = CHOOSE z \in Unread(c) : \A y \in Unread(c) : z <= y
  OBVIOUS
<1>6. b \in Unread(c) /\ \A y \in Unread(c) : b <= y
  <2>1. Unread(c) \subseteq Nat
    BY <1>3, <1>4
  <2>2. \E z \in Unread(c) : \A y \in Unread(c) : z <= y
    BY <2>1, LeastNatural
  <2> QED
    BY <1>5, <2>2
<1>7. PICK id1 : id1 = IF b = k THEN id + 1 ELSE 1
  OBVIOUS
<1>8. Advanced(c) = [c EXCEPT !.blk = b, !.id = id1]
  BY <1>1, <1>5, <1>7 DEF Advanced
<1>9. Advanced(c).at = c.at /\ Advanced(c).blk = b /\ Advanced(c).id = id1
  BY <1>8 DEF Cursor
<1>10. EntryAt(Advanced(c)) = x[b][id1]
  BY <1>1, <1>9 DEF EntryAt
<1>11. /\ b \in DOMAIN x /\ b \in Nat /\ b >= k /\ (b = k => id < Len(x[b])) /\ (b # k => x[b] # <<>>)
       /\ id1 \in Nat
  BY <1>2, <1>3, <1>4, <1>6, <1>7
<1>12. Fits(x, b, id1)
  <2>1. b # k => Len(x[b]) # 0
    BY <1>2, <1>3, <1>11 DEF Lists
  <2> QED
    BY <1>2, <1>3, <1>7, <1>11, <2>1 DEF Fits
<1>13. ASSUME NEW e \in DOMAIN x, NEW j \in DOMAIN x[e], e < b \/ (e = b /\ j <= id1)
       PROVE  (e < k \/ (e = k /\ j <= id)) \/ (e = b /\ j = id1)
  <2>1. e \in Nat /\ j \in Nat /\ j >= 1 /\ j <= Len(x[e]) /\ Len(x[e]) \in Nat
    BY <1>3
  <2>2. CASE e = b
    BY <1>2, <1>7, <1>11, <1>13, <2>1, <2>2
  <2>3. CASE e < b /\ e > k
    <3>1. e \notin Unread(c)
      BY <1>6, <1>11, <2>1, <2>3
    <3>2. x[e] = <<>>
      BY <1>2, <1>4, <2>1, <2>3, <3>1
    <3>3. Len(x[e]) = 0
      BY <3>2
    <3> QED
      BY <2>1, <3>3
  <2>4. CASE e < b /\ e = k
    <3>1. e \notin Unread(c)
      BY <1>6, <1>11, <2>1, <2>4
    <3>2. ~(id < Len(x[e]))
      BY <1>4, <2>4, <3>1
    <3> QED
      BY <1>2, <2>1, <2>4, <3>2
  <2> QED
    BY <1>2, <1>11, <1>13, <2>1, <2>2, <2>3, <2>4
<1>14. UpTo(x, b, id1) \subseteq UpTo(x, k, id) \cup {x[b][id1]}
  <2> SUFFICES ASSUME NEW n \in UpTo(x, b, id1), n # x[b][id1] PROVE n \in UpTo(x, k, id)
    OBVIOUS
  <2>1. PICK e \in DOMAIN x : \E j \in DOMAIN x[e] : x[e][j] = n /\ (e < b \/ (e = b /\ j <= id1))
    BY DEF UpTo
  <2>2. PICK j \in DOMAIN x[e] : x[e][j] = n /\ (e < b \/ (e = b /\ j <= id1))
    BY <2>1
  <2>3. e < k \/ (e = k /\ j <= id)
    BY <1>13, <2>2
  <2>4. n \in EntriesIn(x)
    BY DEF UpTo
  <2> QED
    BY <2>2, <2>3, <2>4 DEF UpTo
<1>15. id1 \in DOMAIN x[b] /\ x[b][id1] \in EntriesIn(x)
  <2>1. Len(x[b]) \in Nat /\ DOMAIN x[b] = 1..Len(x[b]) /\ (b # k => Len(x[b]) # 0)
    BY <1>2, <1>3, <1>11 DEF Lists
  <2>2. id1 \in DOMAIN x[b]
    BY <1>2, <1>7, <1>11, <2>1
  <2> QED
    BY <1>2, <1>11, <2>2, ListIs
<1>16. ASSUME NEW e \in DOMAIN x, NEW j \in DOMAIN x[e], e < k \/ (e = k /\ j <= id)
       PROVE  (e < b \/ (e = b /\ j <= id1)) /\ ~(e = b /\ j = id1)
  <2>1. e \in Nat /\ j \in Nat
    BY <1>3
  <2> QED
    BY <1>2, <1>7, <1>11, <1>16, <2>1
<1>17. UpTo(x, k, id) \cup {x[b][id1]} \subseteq UpTo(x, b, id1)
  <2>1. x[b][id1] \in UpTo(x, b, id1)
    BY <1>11, <1>15 DEF UpTo
  <2>2. ASSUME NEW n \in UpTo(x, k, id) PROVE n \in UpTo(x, b, id1)
    <3>1. PICK e \in DOMAIN x : \E j \in DOMAIN x[e] : x[e][j] = n /\ (e < k \/ (e = k /\ j <= id))
      BY DEF UpTo
    <3>2. PICK j \in DOMAIN x[e] : x[e][j] = n /\ (e < k \/ (e = k /\ j <= id))
      BY <3>1
    <3>3. e < b \/ (e = b /\ j <= id1)
      BY <1>16, <3>2
    <3>4. n \in EntriesIn(x)
      BY DEF UpTo
    <3> QED
      BY <3>2, <3>3, <3>4 DEF UpTo
  <2> QED
    BY <2>1, <2>2
<1>18. ASSUME Once(x), x[b][id1] \in UpTo(x, k, id) PROVE FALSE
  <2>1. PICK e \in DOMAIN x :
           \E j \in DOMAIN x[e] : x[e][j] = x[b][id1] /\ (e < k \/ (e = k /\ j <= id))
    BY <1>18 DEF UpTo
  <2>2. PICK j \in DOMAIN x[e] : x[e][j] = x[b][id1] /\ (e < k \/ (e = k /\ j <= id))
    BY <2>1
  <2>3. ~(e = b /\ j = id1)
    BY <1>16, <2>2
  <2> QED
    BY <1>11, <1>15, <1>18, <2>2, <2>3 DEF Once
<1>19. UpTo(x, b, id1) = UpTo(x, k, id) \cup {x[b][id1]}
  BY <1>14, <1>17
<1> QED
  BY <1>1, <1>9, <1>10, <1>12, <1>18, <1>19

\* At the end of a directory everything in it is behind the cursor.
LEMMA AllSeenAtEnd ==
  ASSUME disk \in Disks, NEW c \in Cursor, Unread(c) = {}
  PROVE  Entries(c.at) \subseteq UpTo(disk[c.at], c.blk, c.id)
<1>1. PICK x, k, id : x = disk[c.at] /\ k = c.blk /\ id = c.id
  OBVIOUS
<1>2. x \in Lists /\ k \in Nat \ {0} /\ id \in Nat
  BY <1>1 DEF Disks, Lists, Cursor
<1>3. /\ Len(x) \in Nat /\ DOMAIN x = 1..Len(x)
      /\ \A b \in DOMAIN x : Len(x[b]) \in Nat /\ DOMAIN x[b] = 1..Len(x[b])
      /\ \A n \in EntriesIn(x) : \E b \in DOMAIN x : \E i \in DOMAIN x[b] : x[b][i] = n
  BY <1>2, ListIs
<1>4. \A b \in DOMAIN x : ~(IF b = k THEN id < Len(x[b]) ELSE b > k /\ x[b] # <<>>)
  BY <1>1 DEF Unread
<1>5. ASSUME NEW n \in EntriesIn(x) PROVE n \in UpTo(x, k, id)
  <2>1. PICK b \in DOMAIN x : \E i \in DOMAIN x[b] : x[b][i] = n
    BY <1>3
  <2>2. PICK i \in DOMAIN x[b] : x[b][i] = n
    BY <2>1
  <2>3. b \in Nat /\ i \in Nat /\ i >= 1 /\ i <= Len(x[b]) /\ Len(x[b]) \in Nat
    BY <1>3
  <2>4. x[b] # <<>>
    BY <2>3
  <2>5. b < k \/ (b = k /\ i <= id)
    BY <1>2, <1>4, <2>3, <2>4
  <2> QED
    BY <2>2, <2>5 DEF UpTo
<1> QED
  BY <1>1, <1>5 DEF Entries

\* At the end of a directory with nothing behind the cursor there is nothing.
LEMMA EmptyAtEnd ==
  ASSUME disk \in Disks, NEW c \in Cursor, Unread(c) = {}, UpTo(disk[c.at], c.blk, c.id) = {}
  PROVE  /\ Entries(c.at) = {}
         /\ Tidy(disk[c.at]) => disk[c.at] = << <<>> >>
<1>1. PICK x, k, id : x = disk[c.at] /\ k = c.blk /\ id = c.id
  OBVIOUS
<1>2. x \in Lists /\ k \in Nat \ {0} /\ id \in Nat
  BY <1>1 DEF Disks, Lists, Cursor
<1>3. /\ Len(x) \in Nat /\ DOMAIN x = 1..Len(x)
      /\ \A b \in DOMAIN x : /\ Len(x[b]) \in Nat /\ DOMAIN x[b] = 1..Len(x[b])
                             /\ \A i \in DOMAIN x[b] : x[b][i] \in EntriesIn(x)
  BY <1>2, ListIs
<1>4. EntriesIn(x) = {}
  BY <1>1, AllSeenAtEnd DEF Entries
<1>5. ASSUME NEW b \in DOMAIN x, NEW i \in DOMAIN x[b] PROVE FALSE
  BY <1>3, <1>4
<1>6. ASSUME Tidy(x) PROVE x = << <<>> >>
  <2>1. \A b \in DOMAIN x : x[b] = <<>>
    <3> SUFFICES ASSUME NEW b \in DOMAIN x PROVE x[b] = <<>>
      OBVIOUS
    <3>1. Len(x[b]) \in Nat /\ DOMAIN x[b] = 1..Len(x[b]) /\ x[b] \in Seq(Nodes)
      BY <1>2, ListIs
    <3>2. DOMAIN x[b] = {}
      BY <1>5
    <3>3. Len(x[b]) = 0
      BY <3>1, <3>2
    <3> QED
      BY <3>1, <3>3
  <2>2. Len(x) = 1
    <3>1. x # <<>> /\ \A b \in DOMAIN x : b <= 1
      BY <1>3, <1>6, <2>1 DEF Tidy
    <3>2. Len(x) # 0
      BY <1>2, <3>1 DEF Lists
    <3>3. Len(x) \in DOMAIN x
      BY <1>3, <3>2
    <3> QED
      BY <1>3, <3>1, <3>2, <3>3
  <2>3. DOMAIN x = 1..1 /\ x[1] = <<>>
    BY <1>3, <2>1, <2>2
  <2>4. x \in Seq(Seq(Nodes))
    BY <1>2 DEF Lists
  <2> QED
    BY <2>2, <2>3, <2>4
<1> QED
  BY <1>1, <1>4, <1>6 DEF Entries
-----------------------------------------------------------------------------
(***************************************************************************)
(* The cursors of a removal skip nothing.                                  *)
(***************************************************************************)
Shaped == \A d \in Dirs : Once(disk[d]) /\ Tidy(disk[d])
CursorsFit == \A i \in DOMAIN stack : Fits(disk[stack[i].at], stack[i].blk, stack[i].id)

\* What is behind the cursor of a level.
Seen(i) == UpTo(disk[stack[i].at], stack[i].blk, stack[i].id)

\* CursorsHold, with nothing behind the innermost cursor once a call is back.
SeenIsGoing ==
    op \in {"remove", "contents"} /\ ~(pc = "return" /\ ret # "ok") =>
        \A i \in DOMAIN stack :
            Seen(i) \subseteq (IF i > 1 THEN {stack[i - 1].at}
                               ELSE IF pc \in {"read", "close", "return"} THEN {} ELSE {target})

CursorInv == WalkInv /\ Shaped /\ CursorsFit /\ SeenIsGoing

\* A cursor that has just been opened has nothing behind it.
LEMMA NothingSeen ==
  ASSUME NEW x \in Lists
  PROVE  Fits(x, 1, 0) /\ UpTo(x, 1, 0) = {}
<1>1. /\ DOMAIN x = 1..Len(x)
      /\ \A b \in DOMAIN x : Len(x[b]) \in Nat /\ DOMAIN x[b] = 1..Len(x[b])
  BY ListIs
<1>2. ASSUME NEW b \in DOMAIN x, NEW i \in DOMAIN x[b] PROVE ~(b < 1 \/ (b = 1 /\ i <= 0))
  BY <1>1
<1> QED
  BY <1>1, <1>2 DEF Fits, UpTo

\* A directory is a list of blocks.
LEMMA DiskIs ==
  ASSUME disk \in Disks
  PROVE  \A d \in Dirs : disk[d] \in Lists
BY DEF Disks, Lists

\* The stack in terms of its length.
LEMMA StackIs ==
  ASSUME NEW s \in Seq(Cursor)
  PROVE  /\ Len(s) \in Nat /\ DOMAIN s = 1..Len(s) /\ (s = <<>> <=> Len(s) = 0)
         /\ \A i \in DOMAIN s : s[i] \in Cursor /\ s[i].at \in Dirs
<1>1. \A c \in Cursor : c.at \in Dirs
  BY DEF Cursor
<1> HIDE DEF Cursor
<1> QED
  BY <1>1

\* Steps that leave the stack and the disk alone.
LEMMA FitStays ==
  ASSUME Shaped, CursorsFit, UNCHANGED disk, UNCHANGED stack
  PROVE  Shaped' /\ CursorsFit' /\ \A i \in DOMAIN stack : Seen(i)' = Seen(i)
BY DEF Shaped, CursorsFit, Seen

\* A removal settles every cursor.
LEMMA DeleteSettles ==
  ASSUME disk \in Disks, stack \in Seq(Cursor), IsTree(disk), Shaped, CursorsFit,
         NEW n \in Nodes, Delete(n)
  PROVE  /\ Shaped' /\ CursorsFit' /\ DOMAIN stack' = DOMAIN stack
         /\ \A k \in DOMAIN stack : Seen(k)' \subseteq Seen(k) /\ n \notin Seen(k)'
         /\ \A e \in Dirs : n \notin Entries(e)'
<1>1. PICK d \in Dirs : \E b \in DOMAIN disk[d] : \E i \in DOMAIN disk[d][b] :
         /\ disk[d][b][i] = n
         /\ \E blocks \in Deleted(d, b, i) :
              /\ disk' = [disk EXCEPT ![d] = blocks]
              /\ stack' = [k \in DOMAIN stack |-> Settled(stack[k], d, b, i, blocks)]
  BY DEF Delete
<1>2. PICK b \in DOMAIN disk[d] : \E i \in DOMAIN disk[d][b] :
         /\ disk[d][b][i] = n
         /\ \E blocks \in Deleted(d, b, i) :
              /\ disk' = [disk EXCEPT ![d] = blocks]
              /\ stack' = [k \in DOMAIN stack |-> Settled(stack[k], d, b, i, blocks)]
  BY <1>1
<1>3. PICK i \in DOMAIN disk[d][b] :
         /\ disk[d][b][i] = n
         /\ \E blocks \in Deleted(d, b, i) :
              /\ disk' = [disk EXCEPT ![d] = blocks]
              /\ stack' = [k \in DOMAIN stack |-> Settled(stack[k], d, b, i, blocks)]
  BY <1>2
<1>4. PICK y \in Deleted(d, b, i) :
              /\ disk' = [disk EXCEPT ![d] = y]
              /\ stack' = [k \in DOMAIN stack |-> Settled(stack[k], d, b, i, y)]
  BY <1>3
<1>5. Once(y) /\ Tidy(y) /\ n \notin EntriesIn(y)
  BY <1>3, DeletedHolds DEF Shaped
<1>6. disk'[d] = y /\ \A e \in Dirs \ {d} : disk'[e] = disk[e]
  BY <1>4 DEF Disks
<1>7. Shaped'
  BY <1>5, <1>6 DEF Shaped
<1>8. n \in Entries(d)
  <2>1. disk[d] \in Lists
    BY DiskIs
  <2> QED
    BY <1>3, <2>1, ListIs DEF Entries
<1>9. ASSUME NEW e \in Dirs PROVE n \notin Entries(e)'
  <2>1. CASE e = d
    BY <1>5, <1>6, <2>1 DEF Entries
  <2>2. CASE e # d
    <3>1. Entries(d) \cap Entries(e) = {}
      BY <2>2 DEF IsTree, Entries
    <3> QED
      BY <1>6, <1>8, <2>2, <3>1 DEF Entries
  <2> QED
    BY <2>1, <2>2
<1>10. /\ DOMAIN stack' = DOMAIN stack
       /\ \A k \in DOMAIN stack : stack'[k] = Settled(stack[k], d, b, i, y)
  BY <1>4
<1>11. ASSUME NEW k \in DOMAIN stack
       PROVE  /\ Fits(disk'[stack'[k].at], stack'[k].blk, stack'[k].id)
              /\ UpTo(disk'[stack'[k].at], stack'[k].blk, stack'[k].id)
                   \subseteq UpTo(disk[stack[k].at], stack[k].blk, stack[k].id)
              /\ n \notin UpTo(disk'[stack'[k].at], stack'[k].blk, stack'[k].id)
  <2>1. PICK c, s : c = stack[k] /\ s = Settled(c, d, b, i, y)
    OBVIOUS
  <2>2. c \in Cursor /\ c.at \in Dirs
    BY <2>1, StackIs
  <2>3. stack'[k] = s /\ s.at = c.at
    BY <1>10, <2>1, <2>2, SettledIs
  <2>4. Fits(disk[c.at], c.blk, c.id)
    BY <2>1 DEF CursorsFit
  <2>5. CASE c.at = d
    <3>1. /\ Fits(y, s.blk, s.id)
          /\ UpTo(y, s.blk, s.id) \subseteq UpTo(disk[d], c.blk, c.id)
      BY <2>1, <2>2, <2>4, <2>5, SettledHolds DEF Shaped
    <3>2. n \notin UpTo(y, s.blk, s.id)
      BY <1>5 DEF UpTo
    <3>3. disk'[stack'[k].at] = y /\ stack'[k] = s
      BY <1>6, <2>3, <2>5
    <3> QED
      BY <2>1, <2>5, <3>1, <3>2, <3>3
  <2>6. CASE c.at # d
    <3>1. s = c
      BY <2>1, <2>6 DEF Settled
    <3>2. disk'[c.at] = disk[c.at]
      BY <1>6, <2>2, <2>6
    <3>3. n \notin EntriesIn(disk[c.at])
      BY <1>8, <2>2, <2>6 DEF IsTree, Entries
    <3>4. n \notin UpTo(disk[c.at], c.blk, c.id)
      BY <3>3 DEF UpTo
    <3>5. stack'[k] = c
      BY <2>3, <3>1
    <3> QED
      BY <2>1, <2>4, <3>2, <3>4, <3>5
  <2> QED
    BY <2>5, <2>6
<1>12. CursorsFit'
  BY <1>10, <1>11 DEF CursorsFit
<1>13. \A k \in DOMAIN stack : Seen(k)' \subseteq Seen(k) /\ n \notin Seen(k)'
  BY <1>11 DEF Seen
<1> QED
  BY <1>7, <1>9, <1>10, <1>12, <1>13

\* A call of the walker is left: the levels above keep their cursors.
LEMMA LeaveSeen ==
  ASSUME stack \in Seq(Cursor), stack' \in Seq(Cursor), Left, UNCHANGED disk, Shaped, CursorsFit
  PROVE  /\ Shaped' /\ CursorsFit' /\ DOMAIN stack' = 1..Len(stack) - 1
         /\ \A k \in DOMAIN stack' : /\ k + 1 \in DOMAIN stack /\ stack'[k] = stack[k + 1]
                                     /\ Seen(k)' = Seen(k + 1)
<1>1. /\ Len(stack) \in Nat /\ DOMAIN stack = 1..Len(stack) /\ DOMAIN stack' = 1..Len(stack')
      /\ Len(stack') = Len(stack) - 1
  BY StackIs DEF Left
<1>2. ASSUME NEW k \in DOMAIN stack' PROVE k + 1 \in DOMAIN stack /\ stack'[k] = stack[k + 1]
  <2>1. k \in 1..Len(stack) - 1
    BY <1>1
  <2> QED
    BY <1>1, <2>1 DEF Left
<1>3. CursorsFit'
  BY <1>2 DEF CursorsFit
<1>4. \A k \in DOMAIN stack' : Seen(k)' = Seen(k + 1)
  BY <1>2 DEF Seen
<1> QED
  BY <1>1, <1>2, <1>3, <1>4 DEF Shaped

\* lfs_dir_open keeps the invariant of the cursors: the new one is at the start;
LEMMA OpenDirSeen ==
  ASSUME CursorInv, OpenDir
  PROVE  CursorInv'
<1>0. WalkInv /\ TypeOK /\ Shaped /\ CursorsFit /\ SeenIsGoing /\ WalkInv'
  BY OpenDirKeeps DEF CursorInv, WalkInv
<1>1. /\ pc = "open" /\ target \in Dirs /\ stack' = <<Opened(target)>> \o stack /\ pc' = "read"
      /\ UNCHANGED disk /\ UNCHANGED op
  BY SameIs DEF OpenDir
<1>2. PICK c : c = Opened(target)
  OBVIOUS
<1>3. c \in Cursor /\ c.at = target /\ c.blk = 1 /\ c.id = 0
  BY <1>1, <1>2 DEF Opened, Cursor
<1>4. disk \in Disks /\ stack \in Seq(Cursor)
  BY <1>0, TypeSplit
<1>5. /\ stack' \in Seq(Cursor) /\ Len(stack') = Len(stack) + 1 /\ stack'[1] = c
      /\ \A k \in 1..Len(stack) : stack'[k + 1] = stack[k]
  <2>1. stack' = <<c>> \o stack
    BY <1>1, <1>2
  <2> QED
    BY <1>3, <1>4, <2>1, PushIs
<1>6. /\ Len(stack) \in Nat /\ DOMAIN stack = 1..Len(stack) /\ DOMAIN stack' = 1..Len(stack) + 1
  BY <1>4, <1>5, StackIs
<1>7. Fits(disk[target], 1, 0) /\ UpTo(disk[target], 1, 0) = {}
  BY <1>1, <1>4, DiskIs, NothingSeen
<1>8. ASSUME NEW k \in DOMAIN stack', k # 1
      PROVE  \E j \in DOMAIN stack : j = k - 1 /\ stack'[k] = stack[j]
  <2>1. k - 1 \in 1..Len(stack) /\ (k - 1) + 1 = k
    BY <1>6, <1>8
  <2> QED
    BY <1>5, <1>6, <2>1
<1>9. CursorsFit'
  <2> SUFFICES ASSUME NEW k \in DOMAIN stack'
               PROVE  Fits(disk'[stack'[k].at], stack'[k].blk, stack'[k].id)
    BY DEF CursorsFit
  <2>1. CASE k = 1
    BY <1>1, <1>3, <1>5, <1>7, <2>1
  <2>2. CASE k # 1
    <3>1. PICK j \in DOMAIN stack : stack'[k] = stack[j]
      BY <1>8, <2>2
    <3> QED
      BY <1>0, <1>1, <3>1 DEF CursorsFit
  <2> QED
    BY <2>1, <2>2
<1>10. SeenIsGoing'
  <2> SUFFICES ASSUME op \in {"remove", "contents"}, NEW k \in DOMAIN stack'
               PROVE  UpTo(disk'[stack'[k].at], stack'[k].blk, stack'[k].id)
                        \subseteq IF k > 1 THEN {stack'[k - 1].at} ELSE {}
    BY <1>1 DEF SeenIsGoing, Seen
  <2>1. \A j \in DOMAIN stack : Seen(j) \subseteq IF j > 1 THEN {stack[j - 1].at} ELSE {target}
    BY <1>0, <1>1 DEF SeenIsGoing
  <2>2. CASE k = 1
    BY <1>1, <1>3, <1>5, <1>7, <2>2
  <2>3. CASE k # 1
    <3>1. PICK j \in DOMAIN stack : j = k - 1 /\ stack'[k] = stack[j]
      BY <1>8, <2>3
    <3>2. j \in Nat /\ j >= 1 /\ k = j + 1 /\ k > 1
      BY <1>6, <3>1
    <3>3. UpTo(disk'[stack'[k].at], stack'[k].blk, stack'[k].id) = Seen(j)
      BY <1>1, <3>1 DEF Seen
    <3>4. CASE j = 1
      <4>1. k = 2 /\ k - 1 = 1
        BY <3>2, <3>4
      <4>2. stack'[k - 1].at = target
        BY <1>3, <1>5, <4>1
      <4>3. Seen(j) \subseteq {target}
        BY <2>1, <3>4
      <4> QED
        BY <3>2, <3>3, <4>2, <4>3
    <3>5. CASE j > 1
      <4>1. PICK m \in DOMAIN stack : m = j - 1 /\ stack'[j] = stack[m]
        <5>1. j \in DOMAIN stack' /\ j # 1
          BY <1>6, <3>1, <3>2, <3>5
        <5> QED
          BY <1>8, <5>1
      <4>2. Seen(j) \subseteq {stack[m].at}
        BY <2>1, <3>5, <4>1
      <4> QED
        BY <3>1, <3>2, <3>3, <4>1, <4>2
    <3> QED
      BY <3>2, <3>4, <3>5
  <2> QED
    BY <2>2, <2>3
<1> QED
  BY <1>0, <1>1, <1>9, <1>10 DEF CursorInv, Shaped

\* so does one that fails,
LEMMA OpenFailsSeen ==
  ASSUME CursorInv, OpenFails
  PROVE  CursorInv'
<1>0. WalkInv /\ TypeOK /\ Shaped /\ CursorsFit /\ SeenIsGoing /\ WalkInv' /\ UNCHANGED stack /\ UNCHANGED disk
  BY OpenFailsKeeps DEF CursorInv, WalkInv
<1>1. pc = "open" /\ UNCHANGED op /\ UNCHANGED target
  BY SameIs DEF OpenFails
<1>2. \/ pc' = "unlink"
      \/ pc' = "return" /\ (op \in {"remove", "contents"} => stack = <<>>)
  BY DEF OpenFails, Return
<1>3. Shaped' /\ CursorsFit' /\ \A i \in DOMAIN stack : Seen(i)' = Seen(i)
  BY <1>0, FitStays
<1>4. SeenIsGoing'
  <2> SUFFICES ASSUME op \in {"remove", "contents"}, NEW i \in DOMAIN stack
               PROVE  pc' = "unlink" /\ Seen(i)' \subseteq IF i > 1 THEN {stack[i - 1].at} ELSE {target}
    BY <1>0, <1>1 DEF SeenIsGoing
  <2>1. stack # <<>>
    OBVIOUS
  <2>2. Seen(i) \subseteq IF i > 1 THEN {stack[i - 1].at} ELSE {target}
    BY <1>0, <1>1 DEF SeenIsGoing
  <2> QED
    BY <1>2, <1>3, <2>1, <2>2
<1> QED
  BY <1>0, <1>3, <1>4 DEF CursorInv

\* lfs_dir_read, after which the entry is what goes next,
LEMMA ReadEntrySeen ==
  ASSUME CursorInv, ReadEntry
  PROVE  CursorInv'
<1>0. WalkInv /\ TypeOK /\ Places /\ Shaped /\ CursorsFit /\ SeenIsGoing /\ WalkInv'
  BY ReadEntryKeeps DEF CursorInv, WalkInv
<1>1. /\ pc = "read" /\ Unread(Head(stack)) # {} /\ target' = EntryAt(stack'[1])
      /\ stack' = <<Advanced(Head(stack))>> \o Tail(stack)
      /\ UNCHANGED disk /\ UNCHANGED op
      /\ op # "tree" => pc' \in {"open", "unlink"}
  BY SameIs DEF ReadEntry
<1>2. stack \in Seq(Cursor) /\ stack # <<>> /\ disk \in Disks
  BY <1>0, <1>1, TypeSplit DEF Places
<1>3. /\ Len(stack) \in Nat \ {0} /\ Head(stack) = stack[1] /\ stack[1] \in Cursor
      /\ Tail(stack) \in Seq(Cursor) /\ Len(Tail(stack)) = Len(stack) - 1
      /\ \A k \in 1..Len(stack) - 1 : Tail(stack)[k] = stack[k + 1]
  BY <1>2, Parts
<1>4. PICK c, t : c = Advanced(stack[1]) /\ t = Tail(stack)
  OBVIOUS
<1>5. c \in Cursor /\ c.at = stack[1].at
  BY <1>1, <1>2, <1>3, <1>4, AdvancedIs
<1>6. /\ Len(stack') = Len(stack) /\ stack'[1] = c /\ stack' \in Seq(Cursor)
      /\ \A k \in 1..Len(t) : stack'[k + 1] = t[k]
  <2>1. stack' = <<c>> \o t /\ t \in Seq(Cursor)
    BY <1>1, <1>3, <1>4
  <2>2. /\ stack' \in Seq(Cursor) /\ Len(stack') = Len(t) + 1 /\ stack'[1] = c
        /\ \A k \in 1..Len(t) : stack'[k + 1] = t[k]
    BY <1>5, <2>1, PushIs
  <2> QED
    BY <1>3, <1>4, <2>2
<1>7. DOMAIN stack = 1..Len(stack) /\ DOMAIN stack' = 1..Len(stack)
  BY <1>2, <1>6, StackIs
<1>8. ASSUME NEW k \in DOMAIN stack, k # 1 PROVE stack'[k] = stack[k]
  <2>1. PICK j : j = k - 1
    OBVIOUS
  <2>2. j \in 1..Len(stack) - 1 /\ k = j + 1
    BY <1>3, <1>7, <1>8, <2>1
  <2>3. stack'[j + 1] = t[j] /\ t[j] = stack[j + 1]
    BY <1>3, <1>4, <1>6, <2>2
  <2> QED
    BY <2>2, <2>3
<1>9. 1 \in DOMAIN stack
  BY <1>3, <1>7
<1>10. /\ Fits(disk[stack[1].at], c.blk, c.id)
       /\ UpTo(disk[stack[1].at], c.blk, c.id) \subseteq Seen(1) \cup {target'}
  <2>1. Fits(disk[stack[1].at], stack[1].blk, stack[1].id)
    BY <1>0, <1>9 DEF CursorsFit
  <2>2. target' = EntryAt(c)
    <3>1. target' = disk'[stack'[1].at][stack'[1].blk][stack'[1].id]
      BY <1>1 DEF EntryAt
    <3> QED
      BY <1>1, <1>6, <3>1 DEF EntryAt
  <2> QED
    BY <1>1, <1>2, <1>3, <1>4, <2>1, <2>2, AdvancedHolds DEF Seen
<1>11. CursorsFit'
  <2> SUFFICES ASSUME NEW k \in DOMAIN stack
               PROVE  Fits(disk'[stack'[k].at], stack'[k].blk, stack'[k].id)
    BY <1>7 DEF CursorsFit
  <2>1. CASE k = 1
    BY <1>1, <1>5, <1>6, <1>10, <2>1
  <2>2. CASE k # 1
    BY <1>0, <1>1, <1>8, <2>2 DEF CursorsFit
  <2> QED
    BY <2>1, <2>2
<1>12. SeenIsGoing'
  <2> SUFFICES ASSUME op \in {"remove", "contents"}, NEW k \in DOMAIN stack
               PROVE  UpTo(disk'[stack'[k].at], stack'[k].blk, stack'[k].id)
                        \subseteq IF k > 1 THEN {stack'[k - 1].at} ELSE {target'}
    <3>1. op \in {"remove", "contents"} => pc' \in {"open", "unlink"}
      BY <1>1
    <3> QED
      BY <1>1, <1>7, <3>1 DEF SeenIsGoing, Seen
  <2>1. \A j \in DOMAIN stack : Seen(j) \subseteq IF j > 1 THEN {stack[j - 1].at} ELSE {}
    BY <1>0, <1>1 DEF SeenIsGoing
  <2>2. CASE k = 1
    <3>1. Seen(1) = {}
      BY <1>9, <2>1
    <3>2. UpTo(disk'[stack'[k].at], stack'[k].blk, stack'[k].id) = UpTo(disk[stack[1].at], c.blk, c.id)
      BY <1>1, <1>5, <1>6, <2>2
    <3> QED
      BY <1>10, <2>2, <3>1, <3>2
  <2>3. CASE k # 1
    <3>1. k > 1 /\ k - 1 \in DOMAIN stack
      BY <1>3, <1>7, <2>3
    <3>2. stack'[k - 1].at = stack[k - 1].at
      BY <1>5, <1>6, <1>8, <3>1
    <3>3. UpTo(disk'[stack'[k].at], stack'[k].blk, stack'[k].id) = Seen(k)
      BY <1>1, <1>8, <2>3 DEF Seen
    <3> QED
      BY <2>1, <3>1, <3>2, <3>3
  <2> QED
    BY <2>2, <2>3
<1> QED
  BY <1>0, <1>1, <1>11, <1>12 DEF CursorInv, Shaped

\* the end of a directory,
LEMMA ReadEndSeen ==
  ASSUME CursorInv, ReadEnd
  PROVE  CursorInv'
<1>0. WalkInv /\ Shaped /\ CursorsFit /\ SeenIsGoing /\ WalkInv' /\ UNCHANGED stack /\ UNCHANGED disk
  BY ReadEndKeeps DEF CursorInv
<1>1. pc = "read" /\ pc' = "close" /\ UNCHANGED op
  BY SameIs DEF ReadEnd
<1>2. Shaped' /\ CursorsFit' /\ \A i \in DOMAIN stack : Seen(i)' = Seen(i)
  BY <1>0, FitStays
<1>3. SeenIsGoing'
  BY <1>0, <1>1, <1>2 DEF SeenIsGoing
<1> QED
  BY <1>0, <1>2, <1>3 DEF CursorInv

\* a read that fails,
LEMMA ReadFailsSeen ==
  ASSUME CursorInv, ReadFails
  PROVE  CursorInv'
<1>0. WalkInv /\ TypeOK /\ Shaped /\ CursorsFit /\ WalkInv' /\ TypeOK' /\ Left /\ UNCHANGED disk
  BY ReadFailsKeeps DEF CursorInv, WalkInv
<1>1. pc' = "return" /\ UNCHANGED op /\ (op # "tree" => ret' = "fail")
  BY SameIs DEF ReadFails, Return
<1>2. stack \in Seq(Cursor) /\ stack' \in Seq(Cursor)
  BY <1>0, TypeSplit DEF TypeOK, Cursor
<1>3. Shaped' /\ CursorsFit'
  BY <1>0, <1>2, LeaveSeen
<1>4. SeenIsGoing'
  BY <1>1 DEF SeenIsGoing
<1> QED
  BY <1>0, <1>3, <1>4 DEF CursorInv

\* lfs_dir_close, after which the directory is what goes next,
LEMMA CloseSeen ==
  ASSUME CursorInv, Close
  PROVE  CursorInv'
<1>0. WalkInv /\ TypeOK /\ Shaped /\ CursorsFit /\ SeenIsGoing /\ WalkInv' /\ TypeOK' /\ Left /\ UNCHANGED disk
  BY CloseKeeps DEF CursorInv, WalkInv
<1>1. /\ pc = "close" /\ UNCHANGED op
      /\ op \in {"remove", "contents"} => \/ Len(stack) = 1
                                          \/ pc' = "unlink" /\ target' = Head(stack).at
      /\ op \in {"remove", "contents"} => pc' \in {"return", "unlink"}
  BY SameIs DEF Close, Return
<1>2. stack \in Seq(Cursor) /\ stack' \in Seq(Cursor)
  BY <1>0, TypeSplit DEF TypeOK, Cursor
<1>3. /\ Shaped' /\ CursorsFit' /\ DOMAIN stack' = 1..Len(stack) - 1
      /\ \A k \in DOMAIN stack' : /\ k + 1 \in DOMAIN stack /\ stack'[k] = stack[k + 1]
                                  /\ Seen(k)' = Seen(k + 1)
  BY <1>0, <1>2, LeaveSeen
<1>4. Len(stack) \in Nat
  BY <1>2, StackIs
<1>5. SeenIsGoing'
  <2> SUFFICES ASSUME op \in {"remove", "contents"}, NEW k \in DOMAIN stack'
               PROVE  /\ pc' = "unlink"
                      /\ Seen(k)' \subseteq IF k > 1 THEN {stack'[k - 1].at} ELSE {target'}
    BY <1>1 DEF SeenIsGoing
  <2>1. k \in Nat /\ k >= 1 /\ Len(stack) # 1 /\ stack # <<>>
    BY <1>3, <1>4, <1>0 DEF Left
  <2>2. pc' = "unlink" /\ target' = stack[1].at
    BY <1>1, <1>2, <2>1, Parts
  <2>3. Seen(k + 1) \subseteq {stack[k].at}
    <3>1. k + 1 \in DOMAIN stack /\ k + 1 > 1 /\ (k + 1) - 1 = k
      BY <1>3, <2>1
    <3>2. \A j \in DOMAIN stack : j > 1 => Seen(j) \subseteq {stack[j - 1].at}
      BY <1>0, <1>1 DEF SeenIsGoing
    <3>3. Seen(k + 1) \subseteq {stack[(k + 1) - 1].at}
      BY <3>1, <3>2
    <3> QED
      BY <3>1, <3>3
  <2>4. CASE k = 1
    BY <1>3, <2>2, <2>3, <2>4
  <2>5. CASE k > 1
    <3>1. PICK j : j = k - 1
      OBVIOUS
    <3>2. j \in DOMAIN stack' /\ k = j + 1
      BY <1>3, <1>4, <2>1, <2>5, <3>1
    <3>3. stack'[j] = stack[k]
      BY <1>3, <3>2
    <3> QED
      BY <1>3, <2>2, <2>3, <2>5, <3>1, <3>3
  <2> QED
    BY <2>1, <2>4, <2>5
<1> QED
  BY <1>0, <1>3, <1>5 DEF CursorInv

\* lfs_remove, which takes the entry from behind the cursor,
LEMMA UnlinkSeen ==
  ASSUME CursorInv, Unlink
  PROVE  CursorInv' /\ (ret' = "ok" => Removable(target) /\ \A e \in Dirs : target \notin Entries(e)')
<1>0. WalkInv /\ TypeOK /\ IsTree(disk) /\ Shaped /\ CursorsFit /\ SeenIsGoing /\ WalkInv' /\ Kept
  BY UnlinkKeeps DEF CursorInv, WalkInv
<1>1. pc = "unlink" /\ pc' = "return" /\ UNCHANGED op /\ UNCHANGED target
  BY SameIs DEF Unlink, Return
<1>2. \/ Removable(target) /\ Delete(target)
      \/ UNCHANGED disk /\ UNCHANGED stack /\ ret' # "ok"
  BY DEF Unlink, Return
<1>3. disk \in Disks /\ stack \in Seq(Cursor) /\ target \in Nodes
  BY <1>0, TypeSplit
<1>4. CASE UNCHANGED disk /\ UNCHANGED stack /\ ret' # "ok"
  <2>1. Shaped' /\ CursorsFit'
    BY <1>0, <1>4, FitStays
  <2>2. SeenIsGoing'
    BY <1>1, <1>4 DEF SeenIsGoing
  <2> QED
    BY <1>0, <1>4, <2>1, <2>2 DEF CursorInv
<1>5. CASE Removable(target) /\ Delete(target)
  <2>1. PICK n : n = target
    OBVIOUS
  <2>2. /\ Shaped' /\ CursorsFit' /\ DOMAIN stack' = DOMAIN stack
        /\ \A k \in DOMAIN stack : Seen(k)' \subseteq Seen(k) /\ n \notin Seen(k)'
        /\ \A e \in Dirs : n \notin Entries(e)'
    <3>1. n \in Nodes /\ Delete(n)
      BY <1>3, <1>5, <2>1
    <3> QED
      BY <1>0, <1>3, <3>1, DeleteSettles
  <2>3. SeenIsGoing'
    <3> SUFFICES ASSUME op \in {"remove", "contents"}, NEW k \in DOMAIN stack
                 PROVE  Seen(k)' \subseteq IF k > 1 THEN {stack'[k - 1].at} ELSE {}
      BY <1>1, <2>2 DEF SeenIsGoing
    <3>1. Seen(k) \subseteq IF k > 1 THEN {stack[k - 1].at} ELSE {n}
      BY <1>0, <1>1, <2>1 DEF SeenIsGoing
    <3>2. k > 1 => stack'[k - 1].at = stack[k - 1].at
      <4> SUFFICES ASSUME k > 1 PROVE stack'[k - 1].at = stack[k - 1].at
        OBVIOUS
      <4>1. Len(stack) \in Nat /\ DOMAIN stack = 1..Len(stack)
        BY <1>3, StackIs
      <4>2. k - 1 \in 1..Len(stack)
        BY <4>1
      <4> QED
        BY <1>0, <4>2 DEF Kept
    <3> QED
      BY <2>2, <3>1, <3>2
  <2> QED
    BY <1>0, <1>5, <2>1, <2>2, <2>3 DEF CursorInv
<1> QED
  BY <1>2, <1>4, <1>5

\* the return of a call,
LEMMA BackSeen ==
  ASSUME CursorInv, Back
  PROVE  CursorInv'
<1>0. /\ WalkInv /\ TypeOK /\ Shaped /\ CursorsFit /\ SeenIsGoing
      /\ WalkInv' /\ TypeOK' /\ UNCHANGED disk
  BY BackKeeps DEF CursorInv, WalkInv
<1>1. pc = "return" /\ UNCHANGED op /\ UNCHANGED ret
  BY SameIs DEF Back, Answer, walkVars
<1>2. \/ stack = <<>> /\ UNCHANGED stack
      \/ stack # <<>> /\ ret = "ok" /\ pc' = "read" /\ UNCHANGED stack
      \/ stack # <<>> /\ ret # "ok" /\ Leave /\ UNCHANGED pc
  BY DEF Back
<1>3. stack \in Seq(Cursor) /\ stack' \in Seq(Cursor)
  BY <1>0, TypeSplit DEF TypeOK, Cursor
<1>4. CASE UNCHANGED stack
  <2>1. Shaped' /\ CursorsFit' /\ \A i \in DOMAIN stack : Seen(i)' = Seen(i)
    BY <1>0, <1>4, FitStays
  <2>2. SeenIsGoing'
    <3>1. CASE stack = <<>>
      <4>1. DOMAIN stack' = {}
        BY <1>4, <3>1, EmptyStack
      <4> QED
        BY <4>1 DEF SeenIsGoing
    <3>2. CASE stack # <<>> /\ ret = "ok" /\ pc' = "read"
      BY <1>0, <1>1, <1>4, <2>1, <3>2 DEF SeenIsGoing
    <3>3. CASE ret # "ok" /\ UNCHANGED pc
      BY <1>1, <3>3 DEF SeenIsGoing
    <3> QED
      BY <1>2, <3>1, <3>2, <3>3
  <2> QED
    BY <1>0, <2>1, <2>2 DEF CursorInv
<1>5. CASE stack # <<>> /\ ret # "ok" /\ Leave /\ UNCHANGED pc
  <2>1. Left
    BY <1>3, <1>5, LeaveIs
  <2>2. Shaped' /\ CursorsFit'
    BY <1>0, <1>3, <2>1, LeaveSeen
  <2>3. SeenIsGoing'
    BY <1>1, <1>5 DEF SeenIsGoing
  <2> QED
    BY <1>0, <2>2, <2>3 DEF CursorInv
<1> QED
  BY <1>2, <1>4, <1>5

\* lfs_mkdir, which runs while nothing is walked,
LEMMA MkdirSeen ==
  ASSUME CursorInv, Mkdir
  PROVE  CursorInv'
<1>0. WalkInv /\ TypeOK /\ Places /\ Shaped /\ WalkInv' /\ UNCHANGED stack
  BY MkdirKeeps DEF CursorInv, WalkInv
<1>1. stack' = <<>> /\ disk \in Disks /\ path \in Nodes
  BY <1>0, TypeSplit DEF Places, Mkdir
<1>2. DOMAIN stack' = {}
  BY <1>1, EmptyStack
<1>3. Shaped'
  <2>1. CASE UNCHANGED disk
    BY <1>0, <2>1 DEF Shaped
  <2>2. CASE /\ ~Exists(path)
             /\ \E d \in Dirs : \E blocks \in Inserted(disk[d], path) :
                                      disk' = [disk EXCEPT ![d] = blocks]
    <3>1. PICK d \in Dirs : \E blocks \in Inserted(disk[d], path) :
                                      disk' = [disk EXCEPT ![d] = blocks]
      BY <2>2
    <3>2. PICK y \in Inserted(disk[d], path) : disk' = [disk EXCEPT ![d] = y]
      BY <3>1
    <3>3. PICK n : n = path
      OBVIOUS
    <3>4. disk[d] \in Lists /\ n \in Nodes /\ n \notin EntriesIn(disk[d])
      BY <1>1, <2>2, <3>3, DiskIs DEF Exists, Entries
    <3>5. Once(y) /\ Tidy(y)
      BY <1>0, <3>2, <3>3, <3>4, InsertedHolds DEF Shaped
    <3>6. disk'[d] = y /\ \A e \in Dirs \ {d} : disk'[e] = disk[e]
      BY <1>1, <3>2 DEF Disks
    <3> QED
      BY <1>0, <3>5, <3>6 DEF Shaped
  <2> QED
    BY <2>1, <2>2 DEF Mkdir
<1> QED
  BY <1>0, <1>2, <1>3 DEF CursorInv, CursorsFit, SeenIsGoing

\* a step after which nothing is walked,
LEMMA NoStackSeen ==
  ASSUME CursorInv, WalkInv', stack' = <<>>, UNCHANGED disk
  PROVE  CursorInv'
<1>1. DOMAIN stack' = {}
  BY EmptyStack
<1> QED
  BY <1>1 DEF CursorInv, Shaped, CursorsFit, SeenIsGoing

\* the start,
LEMMA InitSeen ==
  ASSUME TreeAssumption, Init
  PROVE  CursorInv
<1>1. WalkInv
  BY InitHolds
<1>2. disk \in Layouts /\ stack = <<>>
  BY DEF Init
<1>3. Shaped
  BY <1>2 DEF TreeAssumption, Shaped
<1>4. DOMAIN stack = {}
  BY <1>2, EmptyStack
<1> QED
  BY <1>1, <1>3, <1>4 DEF CursorInv, CursorsFit, SeenIsGoing

\* a command that is given,
LEMMA GiveSeen ==
  ASSUME TreeAssumption, CursorInv, NEW o \in Ops, NEW n \in Nodes, Give(o, n)
  PROVE  CursorInv'
<1>1. WalkInv' /\ Places
  BY GiveKeeps DEF CursorInv, WalkInv
<1>2. stack' = <<>> /\ UNCHANGED disk
  BY <1>1 DEF Places, Give
<1> QED
  BY <1>1, <1>2, NoStackSeen

\* and a step of nothing.
LEMMA StutterSeen ==
  ASSUME CursorInv, UNCHANGED vars
  PROVE  CursorInv'
<1>1. /\ UNCHANGED disk /\ UNCHANGED stack /\ UNCHANGED op /\ UNCHANGED pc
      /\ UNCHANGED target /\ UNCHANGED ret
  BY DEF vars, walkVars
<1>2. WalkInv' /\ Shaped' /\ CursorsFit' /\ \A i \in DOMAIN stack : Seen(i)' = Seen(i)
  BY <1>1, StutterKeeps, FitStays DEF CursorInv
<1>3. SeenIsGoing'
  BY <1>1, <1>2 DEF CursorInv, SeenIsGoing
<1> QED
  BY <1>2, <1>3 DEF CursorInv

\* The invariant of the cursors holds.
THEOREM CursorsAreFit == Spec => []CursorInv
<1>1. Init => CursorInv
  BY TreeAssumption, InitSeen
<1>2. CursorInv /\ [Next]_vars => CursorInv'
  <2> SUFFICES ASSUME CursorInv, [Next]_vars PROVE CursorInv'
    OBVIOUS
  <2>1. CASE \E o \in Ops, n \in Nodes : Give(o, n)
    BY <2>1, TreeAssumption, GiveSeen
  <2>2. CASE OpenDir
    BY <2>2, OpenDirSeen
  <2>3. CASE OpenFails
    BY <2>3, OpenFailsSeen
  <2>4. CASE ReadEntry
    BY <2>4, ReadEntrySeen
  <2>5. CASE ReadEnd
    BY <2>5, ReadEndSeen
  <2>6. CASE ReadFails
    BY <2>6, ReadFailsSeen
  <2>7. CASE Close
    BY <2>7, CloseSeen
  <2>8. CASE Unlink
    BY <2>8, UnlinkSeen
  <2>9. CASE Back
    BY <2>9, BackSeen
  <2>10. CASE Mkdir
    BY <2>10, MkdirSeen
  <2>11. CASE PowerLoss
    <3>1. stack' = <<>> /\ UNCHANGED disk
      BY <2>11 DEF PowerLoss
    <3>2. WalkInv'
      BY <2>11, TreeAssumption, PowerLossKeeps DEF CursorInv
    <3> QED
      BY <3>1, <3>2, NoStackSeen
  <2>12. CASE UNCHANGED vars
    BY <2>12, StutterSeen
  <2> QED
    BY <2>1, <2>2, <2>3, <2>4, <2>5, <2>6, <2>7, <2>8, <2>9, <2>10, <2>11, <2>12 DEF Next, Walk
<1> QED
  BY <1>1, <1>2, PTL DEF Spec

\* Behind the cursor of every level of a removal there is only the entry that is
\* being removed, however lfs_dir_relocatingcommit cuts, splits and drops blocks.
THEOREM CursorsAreHeld == Spec => []CursorsHold
<1>1. CursorInv => CursorsHold
  <2> SUFFICES ASSUME CursorInv, op \in {"remove", "contents"}, ~(pc = "return" /\ ret # "ok"),
                      NEW i \in DOMAIN stack
               PROVE  Behind(stack[i]) \subseteq (IF i > 1 THEN {stack[i - 1].at}
                                                  ELSE IF pc \in {"read", "close"} THEN {} ELSE {target})
    BY DEF CursorsHold
  <2>1. Behind(stack[i]) = Seen(i)
    BY DEF Behind, Seen, UpTo, Entries
  <2>2. Seen(i) \subseteq (IF i > 1 THEN {stack[i - 1].at}
                           ELSE IF pc \in {"read", "close", "return"} THEN {} ELSE {target})
    BY DEF CursorInv, SeenIsGoing
  <2> QED
    BY <2>1, <2>2
<1> QED
  BY <1>1, CursorsAreFit, PTL
-----------------------------------------------------------------------------
(***************************************************************************)
(* What a removal tells is true.                                           *)
(***************************************************************************)
Removing == op \in {"remove", "contents"}

\* The directory that was named is there as long as something is walked.
PathStays ==
    Removing /\ ExistsBefore(path) /\ (stack # <<>> \/ pc \in {"open", "unlink"}) => Exists(path)

\* A directory is left when it is read to its end.
AllRead == pc = "close" => Unread(stack[1]) = {}

\* The outermost call is back without an error: what was named is gone.
Gone ==
    IF op = "remove" THEN path # Root /\ \A d \in Dirs : path \notin Entries(d)
                     ELSE path \in Dirs /\ Entries(path) = {}
OkIsDone ==
    Removing => /\ pc = "return" /\ ret = "ok" /\ stack = <<>> => Gone
                /\ pc = "idle" /\ reply = "OK" => Gone

\* Without a failed call no error comes up.
Possible ==
    /\ Removing /\ ExistsBefore(path)
    /\ IF op = "remove" THEN path # Root ELSE path \in Dirs
NoError ==
    Possible /\ ~faulty =>
       /\ pc = "unlink" => Removable(target)
       /\ pc = "return" => ret = "ok"
       /\ pc = "idle" => reply = "OK"

Answers == PathStays /\ AllRead /\ OkIsDone /\ NoError
Known == CursorInv /\ SpareInv /\ IsTree(before)

\* The root is in no directory.
LEMMA RootFree ==
  ASSUME TreeAssumption, NEW l, IsTree(l)
  PROVE  \A d \in Dirs : Root \notin EntriesIn(l[d])
<1> SUFFICES ASSUME NEW d \in Dirs, Root \in EntriesIn(l[d]) PROVE FALSE
  OBVIOUS
<1> DEFINE s == {e \in Dirs : EntriesIn(l[e]) # {}}
<1>1. s \in SUBSET Dirs /\ s # {}
  OBVIOUS
<1>2. PICK m \in s : \A e \in s : m \notin EntriesIn(l[e])
  BY <1>1 DEF IsTree
<1>3. m = Root \/ \E e \in Dirs : m \in EntriesIn(l[e])
  BY <1>2 DEF IsTree
<1>4. CASE m = Root
  BY <1>2, <1>4
<1>5. CASE \E e \in Dirs : m \in EntriesIn(l[e])
  BY <1>2, <1>5
<1> QED
  BY <1>3, <1>4, <1>5

\* What is below the path is so by its directory.
LEMMA ParentUnder ==
  ASSUME before \in Disks, path \in Nodes, IsTree(before), NEW n \in Under, n # path
  PROVE  /\ \E d \in Dirs : d \in Under /\ n \in EntriesBefore(d)
         /\ \A d \in Dirs : n \in EntriesBefore(d) => d \in Under
<1>1. \E d \in Dirs : d \in Under /\ n \in EntriesBefore(d)
  <2> SUFFICES ASSUME \A d \in Dirs : d \in Under => n \notin EntriesBefore(d) PROVE FALSE
    OBVIOUS
  <2> DEFINE s == Under \ {n}
  <2>1. ExistsBefore(path) /\ n \in Nodes /\ \A z \in SUBSET Nodes : Closed(z) => n \in z
    BY DEF Under
  <2>2. path \in s
    BY <2>1, PathUnder
  <2>3. ASSUME NEW d \in Dirs \cap s PROVE EntriesBefore(d) \subseteq s
    BY UnderClosed
  <2>4. Closed(s)
    BY <2>2, <2>3 DEF Closed
  <2>5. s \in SUBSET Nodes
    BY DEF Under
  <2> QED
    BY <2>1, <2>4, <2>5
<1>2. PICK e \in Dirs : e \in Under /\ n \in EntriesBefore(e)
  BY <1>1
<1>3. ASSUME NEW d \in Dirs, n \in EntriesBefore(d) PROVE d = e
  <2>1. EntriesIn(before[d]) \cap EntriesIn(before[e]) # {}
    BY <1>2, <1>3 DEF EntriesBefore
  <2> QED
    BY <2>1 DEF IsTree
<1> QED
  BY <1>1, <1>2, <1>3

\* As long as something below the path is there, so are the path and an entry
\* of it: nothing is taken away before what is in it.
LEMMA PathIsLast ==
  ASSUME TreeAssumption, Known, Removing, NEW n \in Under, n # path, Exists(n)
  PROVE  /\ path \in Dirs /\ Entries(path) # {}
         /\ path = Root \/ \E d \in Dirs : path \in Entries(d)
<1>0. /\ before \in Disks /\ path \in Nodes /\ IsTree(before) /\ IsTree(disk)
      /\ \A d \in Dirs : Entries(d) \subseteq EntriesBefore(d)
  BY TypeSplit DEF Known, SpareInv, WalkInv, Subtree, Removing
<1>1. ASSUME NEW m \in Under, m # path PROVE m # Root
  <2>1. \E d \in Dirs : m \in EntriesBefore(d)
    BY <1>0, <1>1, ParentUnder
  <2>2. \A d \in Dirs : Root \notin EntriesBefore(d)
    BY <1>0, RootFree DEF EntriesBefore
  <2> QED
    BY <2>1, <2>2
<1>2. ASSUME NEW m \in Under, m # path, NEW d \in Dirs, m \in Entries(d) PROVE d \in Under
  BY <1>0, <1>2, ParentUnder
<1> DEFINE s == {d \in Dirs : d \in Under /\ Entries(d) # {}}
<1>3. s \in SUBSET Dirs /\ s # {}
  <2>1. PICK d \in Dirs : n \in Entries(d)
    BY <1>1 DEF Exists
  <2>2. d \in s
    BY <1>2, <2>1
  <2> QED
    BY <2>2
<1>4. PICK m \in s : \A e \in s : m \notin Entries(e)
  BY <1>0, <1>3 DEF IsTree, Entries
<1>5. m = Root \/ \E e \in Dirs : m \in Entries(e)
  BY <1>0, <1>4 DEF IsTree, Entries
<1>6. m = path
  <2> SUFFICES ASSUME m # path PROVE FALSE
    OBVIOUS
  <2>1. PICK e \in Dirs : m \in Entries(e)
    BY <1>1, <1>4, <1>5
  <2>2. e \in s
    BY <1>2, <1>4, <2>1
  <2> QED
    BY <1>4, <2>1, <2>2
<1> QED
  BY <1>4, <1>5, <1>6

\* Steps that leave the disk alone, and the command.
LEMMA ThereStays ==
  ASSUME UNCHANGED disk
  PROVE  \A n \in Nodes : (Exists(n)' <=> Exists(n)) /\ (Removable(n)' <=> Removable(n))
BY DEF Entries, Exists, Removable

\* The command stays what it is, and may succeed or not,
LEMMA BeforeStays ==
  ASSUME UNCHANGED op, UNCHANGED path, UNCHANGED before
  PROVE  (Removing' <=> Removing) /\ (ExistsBefore(path)' <=> ExistsBefore(path))
         /\ (Possible' <=> Possible)
BY DEF Removing, ExistsBefore, EntriesBefore, Possible

\* its path stays as long as nothing is taken away,
LEMMA PathKeeps ==
  ASSUME PathStays, UNCHANGED disk, UNCHANGED op, UNCHANGED path, UNCHANGED before,
         stack' # <<>> \/ pc' \in {"open", "unlink"} => stack # <<>> \/ pc \in {"open", "unlink"}
  PROVE  PathStays'
<1>1. (Removing' <=> Removing) /\ (ExistsBefore(path)' <=> ExistsBefore(path))
  BY BeforeStays
<1>2. Exists(path)' <=> Exists(path)
  BY DEF Exists, Entries
<1> QED
  BY <1>1, <1>2 DEF PathStays

\* and what is gone stays gone.
LEMMA GoneStays ==
  ASSUME UNCHANGED disk, UNCHANGED op, UNCHANGED path
  PROVE  Gone' <=> Gone
BY DEF Gone, Entries

\* lfs_dir_open keeps what is known of the answer;
LEMMA OpenDirAnswers ==
  ASSUME Known, Answers, OpenDir
  PROVE  Answers'
<1>1. /\ pc = "open" /\ pc' = "read" /\ UNCHANGED disk
      /\ UNCHANGED op /\ UNCHANGED path /\ UNCHANGED before
  BY SameIs DEF OpenDir
<1>2. PathStays'
  BY <1>1, PathKeeps DEF Answers
<1> QED
  BY <1>1, <1>2 DEF Answers, AllRead, OkIsDone, NoError

\* so does one that fails: without a failed call the node is a file,
LEMMA OpenFailsAnswers ==
  ASSUME TreeAssumption, Known, Answers, OpenFails
  PROVE  Answers'
<1>0. TypeOK /\ Places
  BY DEF Known, SpareInv, WalkInv
<1>1. /\ pc = "open" /\ UNCHANGED disk /\ UNCHANGED stack /\ UNCHANGED target
      /\ UNCHANGED op /\ UNCHANGED path /\ UNCHANGED before
      /\ ~(target \in Dirs /\ Exists(target)) \/ faulty' = TRUE
  BY SameIs DEF OpenFails, Fault
<1>2. Removing => \/ pc' = "unlink"
                  \/ pc' = "return" /\ ret' # "ok" /\ op = "contents" /\ stack = <<>>
  BY DEF Removing, OpenFails, Return
<1>3. PathStays'
  BY <1>1, PathKeeps DEF Answers
<1>4. AllRead'
  BY DEF OpenFails, Return, AllRead
<1>5. OkIsDone'
  BY <1>1, <1>2, BeforeStays DEF OkIsDone
<1>6. NoError'
  <2> SUFFICES ASSUME Possible, faulty' # TRUE
               PROVE  pc' = "unlink" /\ Removable(target)'
    <3>1. Possible' <=> Possible
      BY <1>1, BeforeStays
    <3> QED
      BY <3>1 DEF NoError
  <2>1. Exists(path)
    BY <1>1 DEF Answers, PathStays, Possible
  <2>2. IF stack = <<>> THEN target = path ELSE target \in Entries(stack[1].at)
    BY <1>0, <1>1 DEF Places
  <2>3. Exists(target)
    <3>1. CASE stack = <<>>
      BY <2>1, <2>2, <3>1
    <3>2. CASE stack # <<>>
      <4>1. 1 \in DOMAIN stack /\ stack[1].at \in Dirs
        <5>1. stack \in Seq(Cursor)
          BY <1>0, TypeSplit
        <5> QED
          BY <3>2, <5>1, StackIs
      <4> QED
        BY <2>2, <3>2, <4>1 DEF Exists
    <3> QED
      BY <3>1, <3>2
  <2>4. target \notin Dirs
    BY <1>1, <2>3
  <2>5. pc' = "unlink"
    BY <1>2, <2>2, <2>4 DEF Possible
  <2>6. Root \in Dirs
    BY DEF TreeAssumption
  <2>7. Removable(target)
    BY <2>3, <2>4, <2>6 DEF Removable
  <2>8. target \in Nodes
    BY <1>0, TypeSplit
  <2> QED
    BY <1>1, <2>5, <2>7, <2>8, ThereStays
<1> QED
  BY <1>3, <1>4, <1>5, <1>6 DEF Answers

\* lfs_dir_read of an entry,
LEMMA ReadEntryAnswers ==
  ASSUME TreeAssumption, Known, Answers, ReadEntry
  PROVE  Answers'
<1>0. TypeOK /\ Places /\ Places' /\ TypeOK' /\ disk \in Disks
  BY ReadEntryKeeps, TypeSplit DEF Known, SpareInv, WalkInv
<1>1. /\ pc = "read" /\ UNCHANGED disk /\ stack # <<>>
      /\ UNCHANGED op /\ UNCHANGED path /\ UNCHANGED before
  BY <1>0, SameIs DEF ReadEntry, Places
<1>2. Removing => \/ pc' = "open"
                  \/ pc' = "unlink" /\ target' \notin Dirs
  BY DEF Removing, ReadEntry
<1>3. PathStays'
  BY <1>1, PathKeeps DEF Answers
<1>4. AllRead'
  BY DEF ReadEntry, AllRead
<1>5. OkIsDone'
  BY <1>1, <1>2, BeforeStays DEF OkIsDone
<1>6. NoError'
  <2> SUFFICES ASSUME Possible PROVE pc' = "open" \/ (pc' = "unlink" /\ Removable(target)')
    <3>1. Possible' <=> Possible
      BY <1>1, BeforeStays
    <3> QED
      BY <3>1 DEF NoError
  <2>1. CASE pc' = "open"
    BY <2>1
  <2>2. CASE pc' = "unlink" /\ target' \notin Dirs
    <3>1. PICK n : n = target'
      OBVIOUS
    <3>2. /\ stack' # <<>> /\ stack' \in Seq(Cursor)
      BY <1>0, <1>1, ReadIs, TypeSplit DEF ReadEntry
    <3>3. n \in EntriesIn(disk'[stack'[1].at])
      BY <1>0, <2>2, <3>1, <3>2 DEF Places, Entries
    <3>4. 1 \in DOMAIN stack' /\ stack'[1].at \in Dirs
      BY <3>2, StackIs
    <3>5. n \in Entries(stack'[1].at)
      BY <1>1, <3>3 DEF Entries
    <3>6. Exists(n)
      BY <3>4, <3>5 DEF Exists
    <3>7. n \in Nodes /\ n # Root
      BY <1>0, <2>2, <3>1 DEF TypeOK, TreeAssumption
    <3>8. Removable(n)'
      BY <1>1, <2>2, <3>1, <3>6, <3>7, ThereStays DEF Removable
    <3> QED
      BY <2>2, <3>1, <3>8 DEF Removable, Exists, Entries
  <2> QED
    BY <1>2, <2>1, <2>2 DEF Possible
<1> QED
  BY <1>3, <1>4, <1>5, <1>6 DEF Answers

\* the end of a directory,
LEMMA ReadEndAnswers ==
  ASSUME Known, Answers, ReadEnd
  PROVE  Answers'
<1>0. TypeOK /\ Places
  BY DEF Known, SpareInv, WalkInv
<1>1. /\ pc = "read" /\ pc' = "close" /\ UNCHANGED disk /\ UNCHANGED stack /\ Unread(Head(stack)) = {}
      /\ UNCHANGED op /\ UNCHANGED path /\ UNCHANGED before
  BY SameIs DEF ReadEnd
<1>2. PathStays'
  BY <1>1, PathKeeps DEF Answers
<1>3. stack \in Seq(Cursor) /\ stack # <<>>
  BY <1>0, <1>1, TypeSplit DEF Places
<1>4. Unread(stack[1]) = {}
  BY <1>1, <1>3, Parts
<1>5. AllRead'
  BY <1>1, <1>4 DEF AllRead, Unread
<1> QED
  BY <1>1, <1>2, <1>5 DEF Answers, OkIsDone, NoError

\* a read that fails,
LEMMA ReadFailsAnswers ==
  ASSUME Known, Answers, ReadFails
  PROVE  Answers'
<1>0. TypeOK /\ Places
  BY DEF Known, SpareInv, WalkInv
<1>1. /\ pc = "read" /\ pc' = "return" /\ UNCHANGED disk /\ stack # <<>> /\ faulty' = TRUE
      /\ op # "tree" => ret' = "fail"
      /\ UNCHANGED op /\ UNCHANGED path /\ UNCHANGED before
  BY <1>0, SameIs DEF ReadFails, Fault, Places, Return
<1>2. PathStays'
  BY <1>1, PathKeeps DEF Answers
<1> QED
  BY <1>1, <1>2 DEF Answers, AllRead, OkIsDone, NoError, Removing

\* A directory that has been read to its end is empty.
LEMMA EmptyAtClose ==
  ASSUME Known, Answers, pc = "close", Removing
  PROVE  /\ stack # <<>> /\ stack[1].at \in Dirs
         /\ Entries(stack[1].at) = {} /\ disk[stack[1].at] = << <<>> >>
<1>0. TypeOK /\ Places /\ Shaped /\ SeenIsGoing /\ AllRead
  BY DEF Known, CursorInv, SpareInv, WalkInv, Answers
<1>1. stack \in Seq(Cursor) /\ stack # <<>> /\ disk \in Disks
  BY <1>0, TypeSplit DEF Places
<1>2. 1 \in DOMAIN stack /\ stack[1] \in Cursor /\ stack[1].at \in Dirs
  BY <1>1, StackIs
<1>3. PICK c : c = stack[1]
  OBVIOUS
<1>4. Unread(c) = {}
  BY <1>0, <1>3 DEF AllRead
<1>5. UpTo(disk[c.at], c.blk, c.id) = {}
  BY <1>0, <1>2, <1>3 DEF SeenIsGoing, Seen, Removing
<1>6. /\ Entries(c.at) = {}
      /\ Tidy(disk[c.at]) => disk[c.at] = << <<>> >>
  BY <1>1, <1>2, <1>3, <1>4, <1>5, EmptyAtEnd
<1> QED
  BY <1>0, <1>1, <1>2, <1>3, <1>6 DEF Shaped

\* lfs_dir_close: the directory is empty and can be removed,
LEMMA CloseAnswers ==
  ASSUME TreeAssumption, Known, Answers, Close
  PROVE  Answers'
<1>0. TypeOK /\ Places /\ Chain /\ IsTree(disk)
  BY DEF Known, SpareInv, WalkInv
<1>1. /\ pc = "close" /\ UNCHANGED disk /\ stack # <<>> /\ stack \in Seq(Cursor)
      /\ UNCHANGED op /\ UNCHANGED path /\ UNCHANGED before
  BY <1>0, SameIs, TypeSplit DEF Close, Places
<1>2. Len(stack) \in Nat \ {0} /\ Head(stack) = stack[1]
  BY <1>1, Parts
<1>3. Removing =>
         \/ op = "contents" /\ Len(stack) = 1 /\ pc' = "return" /\ ret' = "ok"
         \/ ~(op = "contents" /\ Len(stack) = 1) /\ pc' = "unlink" /\ target' = stack[1].at
  BY <1>2 DEF Removing, Close, Return
<1>4. PathStays'
  BY <1>1, PathKeeps DEF Answers
<1>5. AllRead'
  BY DEF Close, Return, AllRead
<1>6. Len(stack) = 1 => stack[1].at = path
  BY <1>0, <1>1 DEF Chain
<1>7. OkIsDone'
  <2> SUFFICES ASSUME Removing, pc' = "return" PROVE Gone'
    <3>1. pc' \in {"return", "unlink"}
      BY DEF Close, Return
    <3> QED
      BY <1>1, <3>1, BeforeStays DEF OkIsDone
  <2>1. op = "contents" /\ Len(stack) = 1
    BY <1>3
  <2>2. path \in Dirs /\ Entries(path) = {}
    BY <1>1, <1>6, <2>1, EmptyAtClose
  <2>3. Gone
    BY <2>1, <2>2 DEF Gone
  <2> QED
    BY <1>1, <2>3, GoneStays
<1>8. NoError'
  <2> SUFFICES ASSUME Possible, pc' = "unlink" PROVE Removable(target)'
    <3>1. Possible' <=> Possible
      BY <1>1, BeforeStays
    <3>2. Possible => pc' = "unlink" \/ (pc' = "return" /\ ret' = "ok")
      BY <1>3 DEF Possible
    <3> QED
      BY <3>1, <3>2 DEF NoError
  <2>1. Removing
    BY DEF Possible
  <2>2. PICK n : n = stack[1].at
    OBVIOUS
  <2>3. n \in Dirs /\ n \in Nodes /\ disk[n] = << <<>> >> /\ target' = n
    BY <1>1, <1>3, <2>1, <2>2, EmptyAtClose DEF Nodes
  <2>4. Exists(n) /\ n # Root
    <3>1. CASE Len(stack) = 1
      <4>1. n = path /\ op = "remove"
        BY <1>3, <1>6, <2>1, <2>2, <3>1 DEF Removing
      <4>2. Exists(path)
        BY <1>1 DEF Possible, Answers, PathStays
      <4> QED
        BY <4>1, <4>2 DEF Possible
    <3>2. CASE Len(stack) # 1
      <4>1. 1 \in 1..Len(stack) - 1 /\ 1 + 1 = 2 /\ 2 \in DOMAIN stack
        <5>1. DOMAIN stack = 1..Len(stack)
          BY <1>1, StackIs
        <5> QED
          BY <1>2, <3>2, <5>1
      <4>2. n \in Entries(stack[2].at)
        BY <1>0, <2>2, <4>1 DEF Chain
      <4>3. stack[2].at \in Dirs
        BY <1>1, <4>1, StackIs
      <4> QED
        BY <1>0, <4>2, <4>3, RootFree DEF Exists, Entries
    <3> QED
      BY <3>1, <3>2
  <2>5. Removable(n)
    BY <2>3, <2>4 DEF Removable
  <2>6. Removable(n)'
    BY <1>1, <2>3, <2>5, ThereStays
  <2> QED
    BY <2>3, <2>6 DEF Removable, Exists, Entries
<1> QED
  BY <1>4, <1>5, <1>7, <1>8 DEF Answers

\* lfs_remove: what can be removed is, unless the call fails,
LEMMA UnlinkAnswers ==
  ASSUME TreeAssumption, Known, Answers, Unlink
  PROVE  Answers'
<1>0. WalkInv /\ CursorInv /\ TypeOK /\ Places /\ Chain /\ IsTree(disk)
  BY DEF Known, SpareInv, WalkInv
<1>1. /\ pc = "unlink" /\ pc' = "return" /\ UNCHANGED target
      /\ UNCHANGED op /\ UNCHANGED path /\ UNCHANGED before
      /\ UNCHANGED disk \/ TakenAway
      /\ Kept /\ stack \in Seq(Cursor) /\ stack' \in Seq(Cursor)
  BY <1>0, SameIs, UnlinkKeeps, TypeSplit DEF Unlink, Return, WalkInv, TypeOK, Cursor
<1>2. ret' = "ok" => Removable(target) /\ \A e \in Dirs : target \notin Entries(e)'
  BY <1>0, UnlinkSeen
<1>3. stack' = <<>> <=> stack = <<>>
  BY <1>1, StackIs DEF Kept
<1>4. PathStays'
  <2> SUFFICES ASSUME Removing, ExistsBefore(path), stack # <<>> PROVE Exists(path)'
    BY <1>1, <1>3, BeforeStays DEF PathStays
  <2>1. Exists(path)
    BY DEF Answers, PathStays
  <2>2. CASE UNCHANGED disk
    BY <1>1, <2>1, <2>2 DEF Exists, Entries
  <2>3. CASE TakenAway
    <3>1. target # path
      <4>1. PICK n : n = target
        OBVIOUS
      <4>2. n \in Entries(stack[1].at)
        BY <1>0, <1>1, <4>1 DEF Places
      <4>3. Len(stack) \in 1..Len(stack)
        BY <1>1, StackIs
      <4>4. stack[Len(stack)].at # n
        BY <1>0, <1>1, <4>2, <4>3, NotAbove
      <4> QED
        BY <1>0, <4>1, <4>4 DEF Chain
    <3>2. \A d \in Dirs : path \in Entries(d) => path \in Entries(d)'
      BY <2>3, <3>1 DEF TakenAway
    <3> QED
      BY <1>1, <2>1, <3>2 DEF Exists
  <2> QED
    BY <1>1, <2>2, <2>3
<1>5. OkIsDone'
  <2> SUFFICES ASSUME Removing, ret' = "ok", stack = <<>> PROVE Gone'
    BY <1>1, <1>3, BeforeStays DEF OkIsDone
  <2>1. target = path /\ op = "remove"
    BY <1>0, <1>1 DEF Places
  <2>2. path # Root /\ \A e \in Dirs : path \notin Entries(e)'
    BY <1>2, <2>1 DEF Removable
  <2> QED
    BY <1>1, <2>1, <2>2 DEF Gone
<1>6. NoError'
  <2> SUFFICES ASSUME Possible, faulty' # TRUE PROVE ret' = "ok"
    BY <1>1, BeforeStays DEF NoError
  <2>1. NoFault
    BY DEF Unlink, Fault
  <2>2. ~faulty
    BY <1>0, <2>1, TypeSplit DEF NoFault
  <2>3. Removable(target)
    BY <1>1, <2>2 DEF Answers, NoError
  <2> QED
    BY <2>3 DEF Unlink, Fault, Return
<1> QED
  BY <1>1, <1>4, <1>5, <1>6 DEF Answers, AllRead

\* the return of a call, which hands its error up to the answer,
LEMMA BackAnswers ==
  ASSUME Known, Answers, Back
  PROVE  Answers'
<1>0. TypeOK
  BY DEF Known, SpareInv, WalkInv
<1>1. /\ pc = "return" /\ UNCHANGED disk /\ UNCHANGED faulty /\ UNCHANGED ret
      /\ UNCHANGED op /\ UNCHANGED path /\ UNCHANGED before
  BY SameIs DEF Back, Answer, walkVars
<1>2. \/ stack = <<>> /\ pc' = "idle" /\ reply' = Reply(ret) /\ stack' = <<>>
      \/ stack # <<>> /\ ret = "ok" /\ pc' = "read"
      \/ stack # <<>> /\ ret # "ok" /\ pc' = "return"
  BY <1>1 DEF Back, Answer
<1>3. Removing => (Reply(ret) = "OK" <=> ret = "ok")
  BY DEF Removing, Reply
<1>4. PathStays'
  BY <1>1, <1>2, PathKeeps DEF Answers
<1>5. AllRead'
  BY <1>2 DEF AllRead
<1>6. Gone' <=> Gone
  BY <1>1, GoneStays
<1>7. Removing' <=> Removing
  BY <1>1, BeforeStays
<1>8. OkIsDone'
  BY <1>1, <1>2, <1>3, <1>6, <1>7 DEF Answers, OkIsDone
<1>9. NoError'
  <2>1. Possible' <=> Possible
    BY <1>1, BeforeStays
  <2> QED
    BY <1>1, <1>2, <1>3, <2>1 DEF Answers, NoError, Possible
<1> QED
  BY <1>4, <1>5, <1>8, <1>9 DEF Answers

\* MKDIR is no removal, and neither is what comes after the power is back.
LEMMA NoRemovalAnswers ==
  ASSUME ~Removing', pc' # "close"
  PROVE  Answers'
BY DEF Answers, PathStays, AllRead, OkIsDone, NoError, Possible

\* a command that is given,
LEMMA GiveAnswers ==
  ASSUME Known, NEW o \in Ops, NEW n \in Nodes, Give(o, n)
  PROVE  Answers'
<1>1. stack = <<>> /\ UNCHANGED stack /\ before' = disk /\ UNCHANGED disk /\ op' = o
      /\ pc' = IF o = "mkdir" THEN "mkdir" ELSE "open"
  BY DEF Known, SpareInv, WalkInv, Places, Give
<1>2. ExistsBefore(path)' => Exists(path)'
  BY <1>1 DEF ExistsBefore, Exists, Entries, EntriesBefore
<1>3. PathStays'
  BY <1>2 DEF PathStays
<1> QED
  BY <1>1, <1>3 DEF Answers, AllRead, OkIsDone, NoError

\* and a step of nothing.
LEMMA StutterAnswers ==
  ASSUME Known, Answers, UNCHANGED vars
  PROVE  Answers'
<1>1. /\ UNCHANGED disk /\ UNCHANGED stack /\ UNCHANGED pc /\ UNCHANGED target /\ UNCHANGED ret
      /\ UNCHANGED faulty /\ UNCHANGED reply
      /\ UNCHANGED op /\ UNCHANGED path /\ UNCHANGED before
  BY DEF vars, walkVars
<1>2. PathStays'
  BY <1>1, PathKeeps DEF Answers
<1>3. AllRead'
  BY <1>1 DEF Answers, AllRead, Unread
<1>4. OkIsDone'
  BY <1>1, GoneStays, BeforeStays DEF Answers, OkIsDone
<1>5. NoError'
  <2>1. (Possible' <=> Possible) /\ (Removable(target)' <=> Removable(target))
    BY <1>1, BeforeStays DEF Removable, Exists, Entries
  <2> QED
    BY <1>1, <2>1 DEF Answers, NoError
<1> QED
  BY <1>2, <1>3, <1>4, <1>5 DEF Answers

AnswerInv == IsTree(before) /\ Answers

\* Before the first command.
LEMMA InitAnswers ==
  ASSUME TreeAssumption, Init
  PROVE  AnswerInv
<1>1. disk \in Layouts /\ before = disk /\ op = "none" /\ pc = "idle"
  BY DEF Init
<1>2. IsTree(before)
  BY <1>1 DEF TreeAssumption
<1> QED
  BY <1>1, <1>2 DEF AnswerInv, Answers, PathStays, AllRead, OkIsDone, NoError, Possible, Removing

\* The disk the command began with is a tree.
LEMMA BeforeIsTree ==
  ASSUME IsTree(disk), IsTree(before), [Next]_vars
  PROVE  IsTree(before)'
<1>1. before' = before \/ before' = disk
  <2>1. CASE Walk
    BY <2>1, SameIs DEF Walk, OpenDir, OpenFails, ReadEntry, ReadEnd, ReadFails, Close, Unlink,
                        Back, Answer, walkVars, Mkdir
  <2>2. CASE \E o \in Ops, n \in Nodes : Give(o, n)
    BY <2>2 DEF Give
  <2>3. CASE PowerLoss
    BY <2>3 DEF PowerLoss
  <2>4. CASE UNCHANGED vars
    BY <2>4 DEF vars, walkVars
  <2> QED
    BY <2>1, <2>2, <2>3, <2>4 DEF Next
<1> QED
  BY <1>1 DEF IsTree

\* Every step keeps what is known of the answer.
LEMMA StepAnswers ==
  ASSUME TreeAssumption, Known, Answers, [Next]_vars
  PROVE  Answers'
<1>0. Places
  BY DEF Known, SpareInv, WalkInv
<1>1. CASE \E o \in Ops, n \in Nodes : Give(o, n)
  BY <1>1, GiveAnswers
<1>2. CASE OpenDir
  BY <1>2, OpenDirAnswers
<1>3. CASE OpenFails
  BY <1>3, OpenFailsAnswers
<1>4. CASE ReadEntry
  BY <1>4, ReadEntryAnswers
<1>5. CASE ReadEnd
  BY <1>5, ReadEndAnswers
<1>6. CASE ReadFails
  BY <1>6, ReadFailsAnswers
<1>7. CASE Close
  BY <1>7, CloseAnswers
<1>8. CASE Unlink
  BY <1>8, UnlinkAnswers
<1>9. CASE Back
  BY <1>9, BackAnswers
<1>10. CASE Mkdir
  <2>1. op = "mkdir" /\ UNCHANGED op /\ pc' = "return"
    BY <1>0, <1>10, SameIs DEF Places, Mkdir, Return
  <2> QED
    BY <2>1, NoRemovalAnswers DEF Removing
<1>11. CASE PowerLoss
  BY <1>11, NoRemovalAnswers DEF PowerLoss, Removing
<1>12. CASE UNCHANGED vars
  BY <1>12, StutterAnswers
<1> QED
  BY <1>1, <1>2, <1>3, <1>4, <1>5, <1>6, <1>7, <1>8, <1>9, <1>10, <1>11, <1>12 DEF Next, Walk

\* The invariant of the answers holds: an error of an inner call comes up through
\* every level, and without one there is none.
THEOREM AnswersHold == Spec => []AnswerInv
<1>1. Init => AnswerInv
  BY TreeAssumption, InitAnswers
<1>2. CursorInv /\ SpareInv /\ AnswerInv /\ [Next]_vars => AnswerInv'
  <2> SUFFICES ASSUME CursorInv, SpareInv, AnswerInv, [Next]_vars PROVE AnswerInv'
    OBVIOUS
  <2>1. Known /\ Answers /\ IsTree(disk)
    BY DEF Known, AnswerInv, SpareInv, WalkInv
  <2> QED
    BY <2>1, TreeAssumption, StepAnswers, BeforeIsTree DEF AnswerInv, Known
<1> QED
  BY <1>1, <1>2, CursorsAreFit, SpareHolds, PTL DEF Spec

\* With what was named everything below it is gone.
LEMMA RemovedIsGone ==
  ASSUME TreeAssumption, Known, Removing, Gone, NEW n \in Under
  PROVE  Exists(n) <=> Spared(n)
<1>0. ExistsBefore(path) /\ OthersStay
  BY DEF Under, Known, SpareInv
<1>1. CASE n # path
  <2>1. ~Spared(n)
    BY <1>1 DEF Spared, Removing
  <2>2. ~Exists(n)
    BY <1>1, PathIsLast DEF Gone
  <2> QED
    BY <2>1, <2>2
<1>2. CASE n = path /\ op = "remove"
  BY <1>2 DEF Spared, Gone, Exists
<1>3. CASE n = path /\ op = "contents"
  <2>1. Spared(path)
    BY <1>3 DEF Spared
  <2>2. \A d \in Dirs : path \in EntriesBefore(d) => path \in Entries(d)
    BY <1>0, <1>3, <2>1 DEF OthersStay
  <2> QED
    BY <1>0, <1>3, <2>1, <2>2 DEF Exists, ExistsBefore
<1> QED
  BY <1>1, <1>2, <1>3 DEF Removing

\* REMOVE_RECURSIVE and DELETE_CONTENTS answer OK only when all they were to
\* remove is removed, and do when no call of LittleFS fails.
THEOREM RemovalsAreTrue == Spec => []RemovalIsTrue
<1>1. CursorInv /\ SpareInv /\ AnswerInv => RemovalIsTrue
  <2> SUFFICES ASSUME CursorInv, SpareInv, AnswerInv, pc = "idle", Removing
               PROVE  /\ reply = "OK" => \A n \in Under : Exists(n) <=> Spared(n)
                      /\ ~faulty /\ Possible => reply = "OK"
    BY DEF RemovalIsTrue, Removing, Possible
  <2>1. Known /\ Answers
    BY DEF Known, AnswerInv
  <2>2. reply = "OK" => Gone
    BY <2>1 DEF Answers, OkIsDone
  <2>3. reply = "OK" => \A n \in Under : Exists(n) <=> Spared(n)
    BY <2>1, <2>2, TreeAssumption, RemovedIsGone
  <2>4. ~faulty /\ Possible => reply = "OK"
    BY <2>1 DEF Answers, NoError
  <2> QED
    BY <2>3, <2>4
<1> QED
  BY <1>1, CursorsAreFit, SpareHolds, AnswersHold, PTL
-----------------------------------------------------------------------------
(***************************************************************************)
(* What TREE lists.                                                        *)
(***************************************************************************)
Told == Range(listed)
Listing == op = "tree" /\ ~faulty /\ path \in Dirs /\ ExistsBefore(path)

\* Of a directory that is read, what the cursor has passed was sent; one that
\* was sent is read, is the next to be opened, or all in it was sent.
SeenIsTold == \A i \in DOMAIN stack : Told \cap Entries(stack[i].at) = Seen(i)
LevelsAreTold == \A i \in DOMAIN stack : stack[i].at \in Told \cup {path}
DoneIsTold ==
    \A d \in Dirs \cap (Told \cup {path}) :
        Entries(d) \subseteq Told
        \/ (\E i \in DOMAIN stack : stack[i].at = d) \/ (pc = "open" /\ target = d)

\* A node is sent after its directory.
ParentsAreTold == \A n \in Told : \A d \in Dirs : n \in Entries(d) => d \in Told \cup {path}
NextIsNew ==
    pc = "open" => /\ target \in Dirs \cap (Told \cup {path})
                   /\ Exists(target) /\ Told \cap Entries(target) = {}
InOrder ==
    /\ IsInjective(listed)
    /\ \A i, j \in DOMAIN listed :
          listed[i] \in Dirs /\ listed[j] \in Entries(listed[i]) => i < j

Telling ==
    /\ Told \subseteq Under \ {path} /\ SeenIsTold /\ LevelsAreTold /\ DoneIsTold
    /\ ParentsAreTold /\ NextIsNew /\ InOrder
ListInv ==
    /\ op = "tree" => disk = before
    /\ Listing => (pc = "return" => ret = "ok") /\ Telling

\* Steps that send nothing.
LEMMA SentStays ==
  ASSUME Telling, UNCHANGED listed, UNCHANGED disk, UNCHANGED path, UNCHANGED before
  PROVE  Told' = Told /\ (Told \subseteq Under \ {path})' /\ ParentsAreTold' /\ InOrder'
<1>1. Told' = Told
  BY DEF Told
<1>2. Under' = Under
  BY UnderStays
<1>3. \A d : Entries(d)' = Entries(d)
  BY DEF Entries
<1>4. ParentsAreTold'
  BY <1>1, <1>3 DEF Telling, ParentsAreTold
<1>5. InOrder'
  <2>1. IsInjective(listed')
    BY DEF Telling, InOrder
  <2>2. \A i, j \in DOMAIN listed :
            listed[i] \in Dirs /\ listed[j] \in EntriesIn(disk'[listed[i]]) => i < j
    BY DEF Telling, InOrder, Entries
  <2> QED
    BY <2>1, <2>2 DEF InOrder, Entries
<1> QED
  BY <1>1, <1>2, <1>4, <1>5 DEF Telling

\* Steps that change no cursor either, between the calls of the walker.
LEMMA ListRests ==
  ASSUME Telling, UNCHANGED listed, UNCHANGED disk, UNCHANGED path, UNCHANGED before,
         UNCHANGED stack, pc # "open", pc' # "open"
  PROVE  Telling'
<1>1. Told' = Told /\ (Told \subseteq Under \ {path})' /\ ParentsAreTold' /\ InOrder'
  BY SentStays
<1>2. \A d : Entries(d)' = Entries(d)
  BY DEF Entries
<1>3. \A i \in DOMAIN stack : Seen(i)' = Seen(i)
  BY DEF Seen
<1>4. SeenIsTold'
  BY <1>1, <1>3 DEF Telling, SeenIsTold, Entries
<1>5. LevelsAreTold' /\ DoneIsTold' /\ NextIsNew'
  BY <1>1, <1>2 DEF Telling, LevelsAreTold, DoneIsTold, NextIsNew
<1> QED
  BY <1>1, <1>4, <1>5 DEF Telling

\* TREE opens a directory it has sent, and of which it has sent nothing;
LEMMA OpenDirLists ==
  ASSUME Known, Telling, OpenDir
  PROVE  Telling'
<1>0. TypeOK /\ Chain
  BY DEF Known, SpareInv, WalkInv
<1>1. /\ pc = "open" /\ target \in Dirs /\ stack' = <<Opened(target)>> \o stack /\ pc' = "read"
      /\ UNCHANGED disk /\ UNCHANGED listed /\ UNCHANGED path /\ UNCHANGED before
  BY SameIs DEF OpenDir
<1>2. PICK c : c = Opened(target)
  OBVIOUS
<1>3. c \in Cursor /\ c.at = target /\ c.blk = 1 /\ c.id = 0
  BY <1>1, <1>2 DEF Opened, Cursor
<1>4. disk \in Disks /\ stack \in Seq(Cursor)
  BY <1>0, TypeSplit
<1>5. /\ stack' \in Seq(Cursor) /\ Len(stack') = Len(stack) + 1 /\ stack'[1] = c
      /\ \A k \in 1..Len(stack) : stack'[k + 1] = stack[k]
  <2>1. stack' = <<c>> \o stack
    BY <1>1, <1>2
  <2> QED
    BY <1>3, <1>4, <2>1, PushIs
<1>6. /\ Len(stack) \in Nat /\ DOMAIN stack = 1..Len(stack) /\ DOMAIN stack' = 1..Len(stack) + 1
  BY <1>4, <1>5, StackIs
<1>7. UpTo(disk[target], 1, 0) = {}
  BY <1>1, <1>4, DiskIs, NothingSeen
<1>8. ASSUME NEW k \in DOMAIN stack', k # 1
      PROVE  \E j \in DOMAIN stack : stack'[k] = stack[j]
  <2>1. k - 1 \in 1..Len(stack) /\ (k - 1) + 1 = k
    BY <1>6, <1>8
  <2> QED
    BY <1>5, <1>6, <2>1
<1>9. Told' = Told /\ (Told \subseteq Under \ {path})' /\ ParentsAreTold' /\ InOrder'
  BY <1>1, SentStays
<1>10. target \in Told \cup {path} /\ Told \cap Entries(target) = {}
  BY <1>1 DEF Telling, NextIsNew
<1>11. SeenIsTold'
  <2> SUFFICES ASSUME NEW k \in DOMAIN stack'
               PROVE  Told \cap EntriesIn(disk'[stack'[k].at])
                        = UpTo(disk'[stack'[k].at], stack'[k].blk, stack'[k].id)
    BY <1>9 DEF SeenIsTold, Seen, Entries
  <2>1. CASE k = 1
    BY <1>1, <1>3, <1>5, <1>7, <1>10, <2>1 DEF Entries
  <2>2. CASE k # 1
    <3>1. PICK j \in DOMAIN stack : stack'[k] = stack[j]
      BY <1>8, <2>2
    <3>2. Told \cap Entries(stack[j].at) = Seen(j)
      BY DEF Telling, SeenIsTold
    <3> QED
      BY <1>1, <3>1, <3>2 DEF Seen, Entries
  <2> QED
    BY <2>1, <2>2
<1>12. LevelsAreTold'
  <2> SUFFICES ASSUME NEW k \in DOMAIN stack' PROVE stack'[k].at \in Told \cup {path}
    BY <1>1, <1>9 DEF LevelsAreTold
  <2>1. CASE k = 1
    BY <1>3, <1>5, <1>10, <2>1
  <2>2. CASE k # 1
    BY <1>8, <2>2 DEF Telling, LevelsAreTold
  <2> QED
    BY <2>1, <2>2
<1>13. DoneIsTold'
  <2> SUFFICES ASSUME NEW d \in Dirs \cap (Told \cup {path})
               PROVE  Entries(d) \subseteq Told \/ \E i \in DOMAIN stack' : stack'[i].at = d
    BY <1>1, <1>9 DEF DoneIsTold, Entries
  <2>1. CASE Entries(d) \subseteq Told
    BY <2>1
  <2>2. CASE \E i \in DOMAIN stack : stack[i].at = d
    <3>1. PICK i \in DOMAIN stack : stack[i].at = d
      BY <2>2
    <3>2. i + 1 \in DOMAIN stack' /\ stack'[i + 1] = stack[i]
      BY <1>5, <1>6
    <3> QED
      BY <3>1, <3>2
  <2>3. CASE target = d
    <3>1. 1 \in DOMAIN stack'
      BY <1>6
    <3> QED
      BY <1>3, <1>5, <2>3, <3>1
  <2> QED
    BY <2>1, <2>2, <2>3 DEF Telling, DoneIsTold
<1> QED
  BY <1>1, <1>9, <1>11, <1>12, <1>13 DEF Telling, NextIsNew

\* when it leaves one it has sent everything in it;
LEMMA CloseLists ==
  ASSUME Known, AllRead, Telling, Close
  PROVE  Telling'
<1>0. TypeOK /\ Places /\ Left
  BY CloseKeeps DEF Known, SpareInv, WalkInv
<1>1. /\ pc = "close" /\ pc' # "open"
      /\ UNCHANGED disk /\ UNCHANGED listed /\ UNCHANGED path /\ UNCHANGED before
  BY SameIs DEF Close, Return
<1>2. stack \in Seq(Cursor) /\ stack # <<>> /\ disk \in Disks /\ stack' \in Seq(Cursor)
  <2>1. stack \in Seq(Cursor) /\ stack # <<>> /\ disk \in Disks
    BY <1>0, <1>1, TypeSplit DEF Places
  <2> QED
    BY <2>1, LeaveIs DEF Close
<1>3. Len(stack) \in Nat /\ DOMAIN stack = 1..Len(stack) /\ DOMAIN stack' = 1..Len(stack) - 1
      /\ \A k \in 1..Len(stack) - 1 : stack'[k] = stack[k + 1]
  BY <1>0, <1>2, StackIs DEF Left
<1>4. Told' = Told /\ (Told \subseteq Under \ {path})' /\ ParentsAreTold' /\ InOrder'
  BY <1>1, SentStays
<1>5. ASSUME NEW k \in DOMAIN stack'
      PROVE  \E j \in DOMAIN stack : stack'[k] = stack[j]
  <2>1. k + 1 \in DOMAIN stack /\ stack'[k] = stack[k + 1]
    BY <1>3
  <2> QED
    BY <2>1
<1>6. SeenIsTold'
  <2> SUFFICES ASSUME NEW k \in DOMAIN stack'
               PROVE  Told \cap EntriesIn(disk'[stack'[k].at])
                        = UpTo(disk'[stack'[k].at], stack'[k].blk, stack'[k].id)
    BY <1>4 DEF SeenIsTold, Seen, Entries
  <2>1. PICK j \in DOMAIN stack : stack'[k] = stack[j]
    BY <1>5
  <2>2. Told \cap Entries(stack[j].at) = Seen(j)
    BY DEF Telling, SeenIsTold
  <2> QED
    BY <1>1, <2>1, <2>2 DEF Seen, Entries
<1>7. LevelsAreTold'
  BY <1>1, <1>4, <1>5 DEF Telling, LevelsAreTold
<1>8. 1 \in DOMAIN stack /\ Entries(stack[1].at) \subseteq Told
  <2>1. 1 \in DOMAIN stack /\ stack[1] \in Cursor
    BY <1>2, StackIs
  <2>2. PICK c : c = stack[1]
    OBVIOUS
  <2>3. Unread(c) = {}
    BY <1>1, <2>2 DEF AllRead
  <2>4. Entries(c.at) \subseteq UpTo(disk[c.at], c.blk, c.id)
    BY <1>2, <2>1, <2>2, <2>3, AllSeenAtEnd
  <2>5. Told \cap Entries(stack[1].at) = Seen(1)
    BY <2>1 DEF Telling, SeenIsTold
  <2> QED
    BY <2>1, <2>2, <2>4, <2>5 DEF Seen
<1>9. DoneIsTold'
  <2> SUFFICES ASSUME NEW d \in Dirs \cap (Told \cup {path})
               PROVE  Entries(d) \subseteq Told \/ \E i \in DOMAIN stack' : stack'[i].at = d
    BY <1>1, <1>4 DEF DoneIsTold, Entries
  <2>1. CASE Entries(d) \subseteq Told
    BY <2>1
  <2>2. CASE \E i \in DOMAIN stack : stack[i].at = d
    <3>1. PICK i \in DOMAIN stack : stack[i].at = d
      BY <2>2
    <3>2. CASE i = 1
      BY <1>8, <3>1, <3>2
    <3>3. CASE i # 1
      <4>1. i - 1 \in DOMAIN stack' /\ (i - 1) + 1 = i
        BY <1>3, <3>3
      <4>2. stack'[i - 1] = stack[i]
        BY <1>3, <4>1
      <4> QED
        BY <3>1, <4>1, <4>2
    <3> QED
      BY <3>2, <3>3
  <2> QED
    BY <1>1, <2>1, <2>2 DEF Telling, DoneIsTold
<1> QED
  BY <1>1, <1>4, <1>6, <1>7, <1>9 DEF Telling, NextIsNew

\* t is s with one more.
Longer(s, n, t) ==
    /\ Len(s) \in Nat /\ DOMAIN s = 1..Len(s) /\ DOMAIN t = 1..Len(s) + 1
    /\ t[Len(s) + 1] = n /\ \A k \in DOMAIN s : t[k] = s[k]
    /\ Range(t) = Range(s) \cup {n}

\* One more at the end of a sequence.
LEMMA AppendIs ==
  ASSUME NEW s \in Seq(Nodes), NEW n \in Nodes
  PROVE  Longer(s, n, Append(s, n))
<1>0. PICK t : t = Append(s, n)
  OBVIOUS
<1>1. /\ Len(s) \in Nat /\ DOMAIN s = 1..Len(s) /\ DOMAIN t = 1..Len(s) + 1
      /\ t[Len(s) + 1] = n /\ \A k \in DOMAIN s : t[k] = s[k]
  BY <1>0
<1>2. \A k \in DOMAIN t : k \in DOMAIN s \/ k = Len(s) + 1
  BY <1>1
<1>3. DOMAIN s \subseteq DOMAIN t /\ Len(s) + 1 \in DOMAIN t
  BY <1>1
<1>4. Range(t) \subseteq Range(s) \cup {n}
  BY <1>1, <1>2 DEF Range
<1>5. Range(s) \cup {n} \subseteq Range(t)
  BY <1>1, <1>3 DEF Range
<1>6. Longer(s, n, t)
  BY <1>1, <1>4, <1>5 DEF Longer
<1> QED
  BY <1>0, <1>6

\* The entry TREE reads is one it has not sent.
LEMMA ReadIsNew ==
  ASSUME Known, Telling, op = "tree", ExistsBefore(path), before = disk, ReadEntry
  PROVE  /\ 1 \in DOMAIN stack /\ stack[1].at \in Dirs /\ DOMAIN stack' = DOMAIN stack
         /\ stack' \in Seq(Cursor)
         /\ \A k \in DOMAIN stack : /\ stack'[k].at = stack[k].at
                                    /\ k # 1 => stack'[k] = stack[k]
                                    /\ stack[k].at # target'
         /\ target' \in Nodes /\ target' \in Entries(stack[1].at)
         /\ \A d \in Dirs : target' \in Entries(d) => d = stack[1].at
         /\ UpTo(disk[stack'[1].at], stack'[1].blk, stack'[1].id) = Seen(1) \cup {target'}
         /\ target' \notin Told /\ target' # path /\ target' \in Under
<1>0. TypeOK /\ Places /\ Chain /\ IsTree(disk) /\ Shaped /\ CursorsFit
  BY DEF Known, CursorInv, SpareInv, WalkInv
<1>1. /\ pc = "read" /\ Unread(Head(stack)) # {} /\ target' = EntryAt(stack'[1])
      /\ stack' = <<Advanced(Head(stack))>> \o Tail(stack)
      /\ UNCHANGED disk
  BY DEF ReadEntry
<1>2. stack \in Seq(Cursor) /\ stack # <<>> /\ disk \in Disks /\ path \in Nodes
  BY <1>0, <1>1, TypeSplit DEF Places
<1>3. /\ Len(stack) \in Nat \ {0} /\ Head(stack) = stack[1] /\ stack[1] \in Cursor
      /\ Tail(stack) \in Seq(Cursor) /\ Len(Tail(stack)) = Len(stack) - 1
      /\ \A k \in 1..Len(stack) - 1 : Tail(stack)[k] = stack[k + 1]
  BY <1>2, Parts
<1>4. PICK c, t : c = Advanced(stack[1]) /\ t = Tail(stack)
  OBVIOUS
<1>5. c \in Cursor /\ c.at = stack[1].at /\ EntryAt(c) \in Entries(stack[1].at)
  BY <1>1, <1>2, <1>3, <1>4, AdvancedIs
<1>6. /\ Len(stack') = Len(stack) /\ stack'[1] = c /\ stack' \in Seq(Cursor)
      /\ \A k \in 1..Len(t) : stack'[k + 1] = t[k]
  <2>1. stack' = <<c>> \o t /\ t \in Seq(Cursor)
    BY <1>1, <1>3, <1>4
  <2>2. /\ stack' \in Seq(Cursor) /\ Len(stack') = Len(t) + 1 /\ stack'[1] = c
        /\ \A k \in 1..Len(t) : stack'[k + 1] = t[k]
    BY <1>5, <2>1, PushIs
  <2> QED
    BY <1>3, <1>4, <2>2
<1>7. DOMAIN stack = 1..Len(stack) /\ DOMAIN stack' = 1..Len(stack)
  BY <1>2, <1>6, StackIs
<1>8. ASSUME NEW k \in DOMAIN stack, k # 1 PROVE stack'[k] = stack[k]
  <2>1. PICK j : j = k - 1
    OBVIOUS
  <2>2. j \in 1..Len(stack) - 1 /\ k = j + 1
    BY <1>3, <1>7, <1>8, <2>1
  <2>3. stack'[j + 1] = t[j] /\ t[j] = stack[j + 1]
    BY <1>3, <1>4, <1>6, <2>2
  <2> QED
    BY <2>2, <2>3
<1>9. 1 \in DOMAIN stack /\ stack[1].at \in Dirs
  BY <1>2, <1>3, <1>7, StackIs
<1>10. target' = EntryAt(c)
  <2>1. target' = disk'[stack'[1].at][stack'[1].blk][stack'[1].id]
    BY <1>1 DEF EntryAt
  <2> QED
    BY <1>1, <1>6, <2>1 DEF EntryAt
<1>11. PICK n : n = target'
  OBVIOUS
<1>12. n \in Entries(stack[1].at) /\ n \in Nodes
  BY <1>2, <1>5, <1>9, <1>10, <1>11, EntriesAreNodes
<1>13. UpTo(disk[stack[1].at], c.blk, c.id) = Seen(1) \cup {n} /\ n \notin Seen(1)
  <2>1. Fits(disk[stack[1].at], stack[1].blk, stack[1].id) /\ Once(disk[stack[1].at])
    BY <1>0, <1>9 DEF CursorsFit, Shaped
  <2> QED
    BY <1>1, <1>2, <1>3, <1>4, <1>10, <1>11, <2>1, AdvancedHolds DEF Seen
<1>14. n \notin Told
  <2>1. Told \cap Entries(stack[1].at) = Seen(1)
    BY <1>9 DEF Telling, SeenIsTold
  <2> QED
    BY <1>12, <1>13, <2>1
<1>15. \A k \in DOMAIN stack : stack[k].at # n
  BY <1>0, <1>2, <1>7, <1>12, NotAbove
<1>16. n # path
  <2>1. Len(stack) \in DOMAIN stack /\ stack[Len(stack)].at = path
    BY <1>0, <1>2, <1>3, <1>7 DEF Chain
  <2> QED
    BY <1>15, <2>1
<1>17. ASSUME NEW d \in Dirs, n \in Entries(d) PROVE d = stack[1].at
  <2>1. EntriesIn(disk[d]) \cap EntriesIn(disk[stack[1].at]) # {}
    BY <1>12, <1>17 DEF Entries
  <2> QED
    BY <1>0, <1>9, <2>1 DEF IsTree
<1>18. n \in Under
  <2>1. stack[1].at \in Under
    BY <1>2, <1>9, PathUnder DEF Telling, LevelsAreTold
  <2>2. n \in EntriesBefore(stack[1].at)
    BY <1>12 DEF Entries, EntriesBefore
  <2> QED
    BY <1>2, <1>9, <2>1, <2>2, UnderClosed
<1> QED
  BY <1>5, <1>6, <1>7, <1>8, <1>9, <1>11, <1>12, <1>13, <1>14, <1>15, <1>16, <1>17, <1>18

\* and with an entry it reads it sends a new one, after its directory.
LEMMA ReadEntryLists ==
  ASSUME Known, Telling, op = "tree", ExistsBefore(path), before = disk, ReadEntry
  PROVE  Telling'
<1>0. TypeOK /\ IsTree(disk) /\ listed \in Seq(Nodes)
  BY TypeSplit DEF Known, SpareInv, WalkInv
<1>1. /\ UNCHANGED disk /\ UNCHANGED path /\ UNCHANGED before /\ pc = "read"
      /\ listed' = Append(listed, target')
      /\ pc' = IF target' \in Dirs THEN "open" ELSE "read"
  BY SameIs DEF ReadEntry
<1>2. PICK n, at : n = target' /\ at = stack[1].at
  OBVIOUS
<1>3. /\ 1 \in DOMAIN stack /\ at \in Dirs /\ DOMAIN stack' = DOMAIN stack
      /\ \A k \in DOMAIN stack : /\ stack'[k].at = stack[k].at
                                 /\ k # 1 => stack'[k] = stack[k]
                                 /\ stack[k].at # n
      /\ n \in Nodes /\ n \in Entries(at)
      /\ \A d \in Dirs : n \in Entries(d) => d = at
      /\ UpTo(disk[stack'[1].at], stack'[1].blk, stack'[1].id) = Seen(1) \cup {n}
      /\ n \notin Told /\ n # path /\ n \in Under
  BY <1>2, ReadIsNew
<1>4. /\ Len(listed) \in Nat /\ DOMAIN listed = 1..Len(listed) /\ DOMAIN listed' = 1..Len(listed) + 1
      /\ listed'[Len(listed) + 1] = n /\ \A k \in DOMAIN listed : listed'[k] = listed[k]
      /\ Range(listed') = Range(listed) \cup {n}
  <2>1. Longer(listed, n, Append(listed, n)) /\ listed' = Append(listed, n)
    BY <1>0, <1>1, <1>2, <1>3, AppendIs
  <2>2. Longer(listed, n, listed')
    BY <2>1
  <2> QED
    BY <2>2 DEF Longer
<1>5. Told' = Told \cup {n} /\ Under' = Under /\ \A d : Entries(d)' = Entries(d)
  <2>1. Told' = Told \cup {n}
    BY <1>4 DEF Told
  <2>2. Under' = Under
    BY <1>1, UnderStays
  <2> QED
    BY <1>1, <2>1, <2>2 DEF Entries
<1>6. (Told \subseteq Under \ {path})'
  BY <1>1, <1>3, <1>5 DEF Telling
<1>7. SeenIsTold'
  <2> SUFFICES ASSUME NEW k \in DOMAIN stack
               PROVE  (Told \cup {n}) \cap EntriesIn(disk[stack'[k].at])
                        = UpTo(disk[stack'[k].at], stack'[k].blk, stack'[k].id)
    BY <1>1, <1>3, <1>5 DEF SeenIsTold, Seen, Entries
  <2>1. Told \cap Entries(stack[k].at) = Seen(k)
    BY DEF Telling, SeenIsTold
  <2>2. CASE k = 1
    <3>1. (Told \cup {n}) \cap Entries(at) = Seen(1) \cup {n}
      BY <1>2, <1>3, <2>1, <2>2
    <3> QED
      BY <1>2, <1>3, <2>2, <3>1 DEF Entries
  <2>3. CASE k # 1
    <3>1. n \notin Entries(stack[k].at)
      <4> SUFFICES ASSUME n \in Entries(stack[k].at) PROVE FALSE
        OBVIOUS
      <4>1. stack[k].at \in Dirs
        BY <1>0, TypeSplit, StackIs
      <4>2. stack[k].at = stack[1].at
        BY <1>2, <1>3, <4>1
      <4> QED
        BY <1>3, <2>3, <4>2 DEF Known, SpareInv, WalkInv, Chain
    <3>2. (Told \cup {n}) \cap Entries(stack[k].at) = Seen(k)
      BY <2>1, <3>1
    <3> QED
      BY <1>3, <2>3, <3>2 DEF Seen, Entries
  <2> QED
    BY <2>2, <2>3
<1>8. LevelsAreTold'
  BY <1>1, <1>3, <1>5 DEF Telling, LevelsAreTold
<1>9. DoneIsTold'
  <2> SUFFICES ASSUME NEW d \in Dirs \cap (Told \cup {n} \cup {path})
               PROVE  Entries(d) \subseteq Told \cup {n}
                      \/ (\E i \in DOMAIN stack : stack'[i].at = d) \/ (pc' = "open" /\ n = d)
    BY <1>1, <1>2, <1>3, <1>5 DEF DoneIsTold
  <2>1. CASE d = n
    BY <1>1, <1>2, <2>1
  <2>2. CASE d # n
    <3>1. Entries(d) \subseteq Told \/ \E i \in DOMAIN stack : stack[i].at = d
      BY <1>1, <2>2 DEF Telling, DoneIsTold
    <3> QED
      BY <1>3, <3>1
  <2> QED
    BY <2>1, <2>2
<1>10. ParentsAreTold'
  <2> SUFFICES ASSUME NEW m \in Told \cup {n}, NEW d \in Dirs, m \in Entries(d)
               PROVE  d \in Told \cup {path}
    BY <1>1, <1>5 DEF ParentsAreTold
  <2>1. CASE m = n
    BY <1>2, <1>3, <2>1 DEF Telling, LevelsAreTold
  <2>2. CASE m \in Told
    BY <2>2 DEF Telling, ParentsAreTold
  <2> QED
    BY <2>1, <2>2
<1>11. n \in Dirs => (Told \cup {n}) \cap Entries(n) = {}
  <2> SUFFICES ASSUME n \in Dirs, NEW m \in Told \cup {n}, m \in Entries(n) PROVE FALSE
    OBVIOUS
  <2>1. CASE m = n
    <3>1. {n} \in SUBSET Dirs /\ {n} # {}
      OBVIOUS
    <3>2. \E d \in {n} : \A e \in {n} : d \notin EntriesIn(disk[e])
      BY <1>0, <3>1 DEF IsTree
    <3> QED
      BY <2>1, <3>2 DEF Entries
  <2>2. CASE m \in Told
    BY <1>3, <2>2 DEF Telling, ParentsAreTold
  <2> QED
    BY <2>1, <2>2
<1>12. NextIsNew'
  <2> SUFFICES ASSUME pc' = "open"
               PROVE  /\ target' \in Dirs \cap (Told \cup {n} \cup {path})
                      /\ target' = Root \/ \E d \in Dirs : target' \in Entries(d)
                      /\ (Told \cup {n}) \cap Entries(target') = {}
    <3>1. Entries(target)' = Entries(target')
      BY <1>1 DEF Entries
    <3>2. \A d \in Dirs : Entries(d)' = Entries(d)
      BY <1>5
    <3> QED
      BY <1>1, <1>5, <3>1, <3>2 DEF NextIsNew, Exists
  <2>1. n \in Dirs
    BY <1>1, <1>2
  <2> QED
    BY <1>2, <1>3, <1>11, <2>1
<1>13. InOrder'
  <2> DEFINE N == Len(listed)
  <2>1. \A i \in DOMAIN listed : listed[i] \in Told
    BY DEF Told, Range
  <2>2. \A i \in DOMAIN listed' : i \in DOMAIN listed \/ i = N + 1
    BY <1>4
  <2>3. ASSUME NEW i \in DOMAIN listed', NEW j \in DOMAIN listed', listed'[i] = listed'[j] PROVE i = j
    BY <1>3, <1>4, <2>1, <2>2, <2>3 DEF Telling, InOrder, IsInjective
  <2>4. ASSUME NEW i \in DOMAIN listed', NEW j \in DOMAIN listed', listed'[i] \in Dirs,
               listed'[j] \in Entries(listed'[i])
        PROVE  i < j
    <3>1. CASE i = N + 1
      <4>1. listed'[j] \in Told \cup {n}
        BY <1>4, <2>1, <2>2
      <4> QED
        BY <1>4, <1>11, <2>4, <3>1, <4>1
    <3>2. CASE i \in DOMAIN listed /\ j = N + 1
      BY <1>4, <3>2
    <3>3. CASE i \in DOMAIN listed /\ j \in DOMAIN listed
      BY <1>4, <2>4, <3>3 DEF Telling, InOrder
    <3> QED
      BY <2>2, <3>1, <3>2, <3>3
  <2>5. \A i, j \in DOMAIN listed' :
            listed'[i] \in Dirs /\ listed'[j] \in EntriesIn(disk'[listed'[i]]) => i < j
    BY <1>1, <2>4 DEF Entries
  <2>6. IsInjective(listed')
    BY <2>3 DEF IsInjective
  <2> QED
    BY <2>5, <2>6 DEF InOrder, Entries
<1> QED
  BY <1>6, <1>7, <1>8, <1>9, <1>10, <1>12, <1>13 DEF Telling

\* The walker of TREE reads on when a call returns.
LEMMA BackLists ==
  ASSUME Known, Telling, ret = "ok", Back
  PROVE  Telling' /\ pc' # "return"
<1>1. /\ pc = "return" /\ pc' \in {"idle", "read"} /\ UNCHANGED stack /\ UNCHANGED disk
      /\ UNCHANGED listed /\ UNCHANGED path /\ UNCHANGED before
  BY SameIs DEF Back, Answer, walkVars
<1> QED
  BY <1>1, ListRests

\* While no call fails, what TREE opens can be opened.
LEMMA NoOpenFails ==
  ASSUME Telling, OpenFails
  PROVE  faulty' = TRUE
BY DEF OpenFails, Fault, Telling, NextIsNew

\* A step of TREE keeps what is known of its list;
LEMMA WalkLists ==
  ASSUME Known, Known', AllRead, ListInv, op = "tree", Walk
  PROVE  ListInv'
<1>0. TypeOK /\ TypeOK' /\ Places
  BY DEF Known, SpareInv, WalkInv
<1>1. pc # "unlink" /\ pc # "mkdir"
  BY <1>0 DEF Places
<1>2. /\ UNCHANGED op /\ UNCHANGED path /\ UNCHANGED before /\ UNCHANGED disk
      /\ faulty' = faulty \/ faulty' = TRUE
  BY <1>1, SameIs DEF Walk, OpenDir, OpenFails, ReadEntry, ReadEnd, ReadFails, Close, Unlink,
                      Back, Answer, walkVars, Mkdir, NoFault, Fault
<1>3. disk' = before'
  BY <1>2 DEF ListInv
<1>4. ASSUME Listing' PROVE (pc' = "return" => ret' = "ok") /\ Telling'
  <2>1. Listing /\ ~faulty'
    BY <1>2, <1>4, BeforeStays DEF Listing, ExistsBefore, EntriesBefore
  <2>2. (pc = "return" => ret = "ok") /\ Telling /\ ExistsBefore(path) /\ before = disk
    BY <1>2, <1>3, <2>1 DEF ListInv, Listing
  <2>3. CASE OpenDir
    <3>1. pc' = "read"
      BY <2>3 DEF OpenDir
    <3> QED
      BY <2>2, <2>3, <3>1, OpenDirLists
  <2>4. CASE OpenFails
    BY <2>1, <2>2, <2>4, NoOpenFails
  <2>5. CASE ReadEntry
    <3>1. pc' # "return"
      BY <2>5 DEF ReadEntry
    <3> QED
      BY <2>2, <2>5, <3>1, ReadEntryLists
  <2>6. CASE ReadEnd
    BY <1>2, <2>2, <2>6, ListRests DEF ReadEnd
  <2>7. CASE ReadFails
    BY <2>1, <2>7 DEF ReadFails, Fault
  <2>8. CASE Close
    <3>1. ret' = "ok"
      BY <2>8 DEF Close, Return
    <3> QED
      BY <2>2, <2>8, <3>1, CloseLists
  <2>9. CASE Back
    <3>1. ret = "ok"
      BY <2>2, <2>9 DEF Back
    <3> QED
      BY <2>2, <2>9, <3>1, BackLists
  <2>10. CASE Unlink \/ Mkdir
    BY <1>1, <2>10 DEF Unlink, Mkdir
  <2> QED
    BY <2>3, <2>4, <2>5, <2>6, <2>7, <2>8, <2>9, <2>10 DEF Walk
<1> QED
  BY <1>2, <1>3, <1>4 DEF ListInv

\* so does a command that is given,
LEMMA GiveLists ==
  ASSUME Known, NEW o \in Ops, NEW n \in Nodes, Give(o, n)
  PROVE  ListInv'
<1>1. /\ stack' = <<>> /\ before' = disk /\ disk' = disk /\ op' = o /\ path' = n /\ target' = n
      /\ pc' = (IF o = "mkdir" THEN "mkdir" ELSE "open") /\ listed' = <<>>
  BY DEF Known, SpareInv, WalkInv, Places, Give
<1>2. /\ DOMAIN stack' = {} /\ DOMAIN listed' = {}
  BY <1>1, EmptyStack
<1>3. Told' = {}
  BY <1>2 DEF Told, Range
<1>4. SeenIsTold' /\ LevelsAreTold' /\ ParentsAreTold' /\ (Told \subseteq Under \ {path})'
  BY <1>2, <1>3 DEF SeenIsTold, LevelsAreTold, ParentsAreTold
<1>5. InOrder'
  BY <1>2 DEF InOrder, IsInjective
<1>6. op' = "tree" => DoneIsTold'
  BY <1>1, <1>3 DEF DoneIsTold
<1>7. Listing' => NextIsNew'
  <2>1. ExistsBefore(path)' => Exists(path)'
    BY <1>1 DEF ExistsBefore, Exists, Entries, EntriesBefore
  <2>2. Exists(path)' => Exists(target)'
    BY <1>1 DEF Exists
  <2> QED
    BY <1>1, <1>3, <2>1, <2>2 DEF Listing, NextIsNew
<1> QED
  BY <1>1, <1>4, <1>5, <1>6, <1>7 DEF ListInv, Telling, Listing

\* and a step of nothing.
LEMMA StutterLists ==
  ASSUME ListInv, UNCHANGED vars
  PROVE  ListInv'
<1>1. /\ UNCHANGED disk /\ UNCHANGED stack /\ UNCHANGED pc /\ UNCHANGED target /\ UNCHANGED ret
      /\ UNCHANGED faulty /\ UNCHANGED listed
      /\ UNCHANGED op /\ UNCHANGED path /\ UNCHANGED before
  BY DEF vars, walkVars
<1>2. Listing' => Listing
  BY <1>1 DEF Listing, ExistsBefore, EntriesBefore
<1>3. ASSUME Telling PROVE Telling'
  <2>1. Told' = Told /\ (Told \subseteq Under \ {path})' /\ ParentsAreTold' /\ InOrder'
    BY <1>1, <1>3, SentStays
  <2>2. \A d : Entries(d)' = Entries(d)
    BY <1>1 DEF Entries
  <2>3. \A i \in DOMAIN stack : Seen(i)' = Seen(i)
    BY <1>1 DEF Seen
  <2>4. SeenIsTold'
    BY <1>1, <1>3, <2>1, <2>3 DEF Telling, SeenIsTold, Entries
  <2>5. LevelsAreTold' /\ DoneIsTold'
    BY <1>1, <1>3, <2>1, <2>2 DEF Telling, LevelsAreTold, DoneIsTold
  <2>6. NextIsNew'
    <3>1. (Exists(target)' <=> Exists(target)) /\ Entries(target)' = Entries(target)
      BY <1>1 DEF Exists, Entries
    <3> QED
      BY <1>1, <1>3, <2>1, <3>1 DEF Telling, NextIsNew
  <2> QED
    BY <2>1, <2>4, <2>5, <2>6 DEF Telling
<1> QED
  BY <1>1, <1>2, <1>3 DEF ListInv

\* The invariant of TREE holds.
THEOREM ListHolds == Spec => []ListInv
<1>1. Init => ListInv
  BY DEF Init, ListInv, Listing
<1>2. CursorInv /\ CursorInv' /\ SpareInv /\ SpareInv' /\ AnswerInv /\ AnswerInv' /\ ListInv /\ [Next]_vars
      => ListInv'
  <2> SUFFICES ASSUME CursorInv, CursorInv', SpareInv, SpareInv', AnswerInv, AnswerInv', ListInv,
                      [Next]_vars
               PROVE  ListInv'
    OBVIOUS
  <2>1. Known /\ Known' /\ AllRead
    BY DEF Known, AnswerInv, Answers
  <2>2. CASE \E o \in Ops, n \in Nodes : Give(o, n)
    BY <2>1, <2>2, GiveLists
  <2>3. CASE Walk /\ op = "tree"
    BY <2>1, <2>3, WalkLists
  <2>4. CASE Walk /\ op # "tree"
    <3>1. UNCHANGED op
      BY <2>1, <2>4, WalkGoesOn DEF Known, SpareInv, GoesOn
    <3> QED
      BY <2>4, <3>1 DEF ListInv, Listing
  <2>5. CASE PowerLoss
    BY <2>5 DEF PowerLoss, ListInv, Listing
  <2>6. CASE UNCHANGED vars
    BY <2>6, StutterLists
  <2> QED
    BY <2>2, <2>3, <2>4, <2>5, <2>6 DEF Next
<1> QED
  BY <1>1, <1>2, CursorsAreFit, SpareHolds, AnswersHold, PTL DEF Spec

\* TREE sends a frame for everything below its directory, once, and a directory
\* before what is in it, when no call of LittleFS fails.
THEOREM ListsAreWhole == Spec => []TreeListsAll
<1>1. CursorInv /\ SpareInv /\ AnswerInv /\ ListInv => TreeListsAll
  <2> SUFFICES ASSUME CursorInv, SpareInv, AnswerInv, ListInv,
                      pc = "idle", op = "tree", ~faulty, path \in Dirs, ExistsBefore(path)
               PROVE  /\ Told = Under \ {path} /\ IsInjective(listed)
                      /\ \A i, j \in DOMAIN listed :
                            listed[i] \in Dirs /\ listed[j] \in Entries(listed[i]) => i < j
    BY DEF TreeListsAll, Told
  <2>1. Telling /\ disk = before
    BY DEF ListInv, Listing
  <2>2. TypeOK /\ Places /\ stack = <<>>
    BY DEF SpareInv, WalkInv, Places
  <2>3. DOMAIN stack = {}
    BY <2>2, EmptyStack
  <2>4. Closed(Told \cup {path})
    <3>1. \A d \in Dirs \cap (Told \cup {path}) : Entries(d) \subseteq Told
      BY <2>1, <2>3 DEF Telling, DoneIsTold
    <3>2. \A d : EntriesBefore(d) = Entries(d)
      BY <2>1 DEF Entries, EntriesBefore
    <3> QED
      BY <3>1, <3>2 DEF Closed
  <2>5. Told \cup {path} \in SUBSET Nodes
    BY <2>1, <2>2, TypeSplit DEF Telling, Under
  <2>6. Under \subseteq Told \cup {path}
    BY <2>4, <2>5 DEF Under
  <2> QED
    BY <2>1, <2>6 DEF Telling, InOrder
<1> QED
  BY <1>1, CursorsAreFit, SpareHolds, AnswersHold, ListHolds, PTL

\* What the commands that walk a tree tell is true, and they do all of it.
THEOREM WalksAreTrue == Spec => []WalkIsTrue
<1>1. RemovalIsTrue /\ TreeListsAll => WalkIsTrue
  BY DEF WalkIsTrue
<1> QED
  BY <1>1, RemovalsAreTrue, ListsAreWhole, PTL
=============================================================================
