----------------------------- MODULE TextLemmas -----------------------------
(***************************************************************************)
(* What the proofs about texts share: induction, functions that are        *)
(* defined by recursion, least and greatest numbers, remainders, parts of  *)
(* sequences, the ranks of the places in a text, and sequences that are    *)
(* cut in parts.  The induction theorems of the library take an operator;  *)
(* here the predicate is a set, and the step a function.                   *)
(***************************************************************************)
EXTENDS Integers, Sequences, SequencesExt, SequenceTheorems, FiniteSetTheorems,
        WellFoundedInduction, TLAPS

\* A non-empty set of natural numbers has a least one.
LEMMA Least ==
    ASSUME NEW S, S \subseteq Nat, S # {}
    PROVE  \E x \in S : \A y \in S : x <= y
<1>1. IsWellFoundedOn(OpToRel(<, Nat), Nat)
  BY NatLessThanWellFounded
<1>2. PICK x \in S : \A y \in S : ~(<<y, x>> \in OpToRel(<, Nat))
  BY <1>1, WFMin
<1>3. ASSUME NEW y \in S PROVE x <= y
  <2>1. x \in Nat /\ y \in Nat
    OBVIOUS
  <2>2. ~(y < x)
    BY <1>2, <2>1 DEF OpToRel
  <2> QED
    BY <2>1, <2>2
<1> QED
  BY <1>3

\* Induction, for a set: a predicate P is the set of the numbers that have it.
LEMMA FromZero ==
    ASSUME NEW S, 0 \in S, \A n \in Nat : n \in S => n + 1 \in S
    PROVE  Nat \subseteq S
<1> SUFFICES ASSUME Nat \ S # {} PROVE FALSE
  OBVIOUS
<1>1. PICK x \in Nat \ S : \A y \in Nat \ S : x <= y
  BY Least, Nat \ S \subseteq Nat
<1>2. x - 1 \in Nat /\ x - 1 \in S
  BY <1>1
<1> QED
  BY <1>1, <1>2, (x - 1) + 1 = x

\* A function that is defined by recursion exists: it starts at b, and each of
\* its values comes from the one before by step.
IsIterate(w, R, b, n, start, step) ==
    /\ w \in [b..n -> R]
    /\ \A i \in b..n : w[i] = IF i = b THEN start ELSE step[<<w[i - 1], i>>]

LEMMA Iterates ==
    ASSUME NEW R, NEW b \in Nat, NEW n \in Nat, NEW start \in R,
           NEW step \in [R \X (b + 1..n) -> R]
    PROVE  \E w : IsIterate(w, R, b, n, start, step)
<1> DEFINE W(k) == {w \in [b..k -> R] :
                        \A i \in b..k : w[i] = IF i = b THEN start ELSE step[<<w[i - 1], i>>]}
           Good == {k \in Nat : b + k <= n => W(b + k) # {}}
<1>1. 0 \in Good
  <2> DEFINE w == [i \in b..b |-> start]
  <2>1. w \in W(b)
    OBVIOUS
  <2> QED
    BY <2>1
<1>2. ASSUME NEW k \in Nat, k \in Good, b + (k + 1) <= n PROVE W(b + (k + 1)) # {}
  <2>1. PICK m \in Nat : m = b + k
    OBVIOUS
  <2>2. PICK w \in [b..m -> R] :
            \A i \in b..m : w[i] = IF i = b THEN start ELSE step[<<w[i - 1], i>>]
    BY <1>2, <2>1
  <2> DEFINE v == [i \in b..m + 1 |-> IF i = m + 1 THEN step[<<w[m], i>>] ELSE w[i]]
  <2>3. <<w[m], m + 1>> \in R \X (b + 1..n)
    BY <1>2, <2>1
  <2>4. v \in [b..m + 1 -> R]
    <3>1. step[<<w[m], m + 1>>] \in R
      BY <2>3
    <3>2. \A i \in b..m + 1 : i # m + 1 => i \in b..m
      BY <2>1
    <3> QED
      BY <3>1, <3>2
  <2>5. ASSUME NEW i \in b..m + 1
        PROVE  v[i] = IF i = b THEN start ELSE step[<<v[i - 1], i>>]
    <3>1. CASE i = m + 1
      <4>1. i # b /\ i - 1 = m /\ m # m + 1 /\ m \in b..m + 1
        BY <3>1, <2>1
      <4>2. v[m] = w[m] /\ v[i] = step[<<w[m], i>>]
        BY <3>1, <4>1
      <4> QED
        BY <4>1, <4>2
    <3>2. CASE i # m + 1
      <4>1. i \in b..m /\ (i # b => i - 1 \in b..m /\ i - 1 \in b..m + 1 /\ i - 1 # m + 1)
        BY <3>2, <2>1
      <4>2. v[i] = w[i] /\ (i # b => v[i - 1] = w[i - 1])
        BY <3>2, <4>1
      <4> QED
        BY <2>2, <4>1, <4>2
    <3> QED
      BY <3>1, <3>2
  <2> HIDE DEF v
  <2>6. v \in W(m + 1)
    BY <2>4, <2>5
  <2> QED
    BY <2>1, <2>6, b + (k + 1) = m + 1
<1> HIDE DEF W
<1>3. \A k \in Nat : k \in Good => k + 1 \in Good
  BY <1>2
<1> HIDE DEF Good
<1>4. Nat \subseteq Good
  BY <1>1, <1>3, FromZero
<1>5. CASE b <= n
  <2>1. n - b \in Nat /\ b + (n - b) = n
    BY <1>5
  <2>0. n - b \in Good
    BY <1>4, <2>1
  <2>2. PICK w \in W(n) : TRUE
    BY <2>0, <2>1 DEF Good
  <2> QED
    BY <2>2 DEF W, IsIterate
<1>6. CASE b > n
  <2> DEFINE w == [i \in b..n |-> start]
  <2>1. b..n = {}
    BY <1>6
  <2>2. w \in [b..n -> R] /\ \A i \in b..n : w[i] = IF i = b THEN start ELSE step[<<w[i - 1], i>>]
    BY <2>1
  <2> QED
    BY <2>2 DEF IsIterate
<1> QED
  BY <1>5, <1>6

\* What such a step keeps holds of all its values.
LEMMA Stays ==
    ASSUME NEW R, NEW b \in Nat, NEW n \in Nat, NEW w, w[b] \in R,
           \A i \in b + 1..n : w[i - 1] \in R => w[i] \in R
    PROVE  \A i \in b..n : w[i] \in R
<1> DEFINE Good == {k \in Nat : b + k <= n => w[b + k] \in R}
<1>1. 0 \in Good
  OBVIOUS
<1>2. ASSUME NEW k \in Nat, k \in Good PROVE k + 1 \in Good
  <2> SUFFICES ASSUME b + (k + 1) <= n PROVE w[b + (k + 1)] \in R
    OBVIOUS
  <2>1. PICK i \in b + 1..n : i = b + (k + 1)
    OBVIOUS
  <2>2. i - 1 = b + k /\ w[i - 1] \in R
    BY <1>2, <2>1
  <2> QED
    BY <2>1, <2>2
<1> HIDE DEF Good
<1>3. Nat \subseteq Good
  BY <1>1, <1>2, FromZero
<1> SUFFICES ASSUME NEW i \in b..n PROVE w[i] \in R
  OBVIOUS
<1>4. PICK k \in Nat : i = b + k
  <2>1. i - b \in Nat /\ i = b + (i - b)
    OBVIOUS
  <2> QED
    BY <2>1
<1> QED
  BY <1>3, <1>4 DEF Good
-----------------------------------------------------------------------------
(***************************************************************************)
(* Numbers.                                                                *)
(***************************************************************************)
LEMMA LeastIs ==
    ASSUME NEW S, S \subseteq Nat, S # {}
    PROVE  Min(S) \in S /\ \A y \in S : Min(S) <= y
<1>1. \E x \in S : \A y \in S : x =< y
  BY Least
<1> QED
  BY <1>1 DEF Min

LEMMA GreatestIs ==
    ASSUME NEW n \in Nat, NEW S, S \subseteq 0..n, S # {}
    PROVE  Max(S) \in S /\ \A y \in S : y <= Max(S)
<1> DEFINE T == {k \in Nat : n - k \in S}
<1>1. T # {}
  <2>1. PICK y \in S : TRUE
    OBVIOUS
  <2>2. n - y \in Nat /\ n - (n - y) = y
    BY <2>1
  <2> QED
    BY <2>1, <2>2
<1>2. PICK k \in T : \A l \in T : k <= l
  BY <1>1, Least, T \subseteq Nat
<1>3. ASSUME NEW y \in S PROVE n - k >= y
  <2>1. n - y \in Nat /\ n - (n - y) = y
    OBVIOUS
  <2>2. k <= n - y
    BY <1>2, <2>1
  <2> QED
    BY <1>2, <2>1, <2>2
<1>4. \E x \in S : \A y \in S : x >= y
  BY <1>2, <1>3
<1> QED
  BY <1>4 DEF Max

LEMMA ModType ==
    ASSUME NEW x \in Int, NEW w \in Nat \ {0}
    PROVE  x % w \in 0..w - 1 /\ x \div w \in Int /\ x = w * (x \div w) + (x % w)
  OBVIOUS

LEMMA ModSmall == ASSUME NEW w \in Nat \ {0}, NEW x \in 0..w - 1 PROVE x % w = x
  OBVIOUS

LEMMA ModLess == ASSUME NEW w \in Nat \ {0}, NEW x \in Nat PROVE x % w <= x
  OBVIOUS

LEMMA ModUnique ==
    ASSUME NEW w \in Nat \ {0}, NEW q \in Int, NEW r \in 0..w - 1
    PROVE  (w * q + r) % w = r
<1>1. PICK p \in Int, s \in 0..w - 1 : w * q + r = w * p + s /\ s = (w * q + r) % w
  BY ModType, w * q + r \in Int
<1>2. PICK d \in Int : d = q - p /\ w * d = s - r
  BY <1>1
<1>3. d = 0
  <2>1. CASE d >= 1
    <3>1. w * d >= w
      BY <2>1
    <3> QED
      BY <3>1, <1>2
  <2>2. CASE d <= -1
    <3>1. w * d <= -w
      BY <2>2
    <3> QED
      BY <3>1, <1>2
  <2> QED
    BY <2>1, <2>2
<1> QED
  BY <1>1, <1>2, <1>3

\* A counter of w values counts on.
LEMMA ModNext ==
    ASSUME NEW x \in Nat, NEW w \in Nat \ {0}
    PROVE  (x + 1) % w = ((x % w) + 1) % w
<1>0. x % w \in 0..w - 1 /\ x \div w \in Int /\ x = w * (x \div w) + (x % w)
  BY ModType
<1>1. PICK q, r : q = x \div w /\ r = x % w
  OBVIOUS
<1>4. q \in Int /\ r \in 0..w - 1 /\ x = w * q + r
  BY <1>0, <1>1
<1>2. CASE r + 1 < w
  <2>1. (w * q + (r + 1)) % w = r + 1 /\ (r + 1) % w = r + 1
    BY <1>2, <1>4, ModUnique, ModSmall
  <2> QED
    BY <2>1, <1>1, <1>4
<1>3. CASE r + 1 = w
  <2>1. (w * (q + 1) + 0) % w = 0 /\ (w * 1 + 0) % w = 0
    BY <1>3, <1>4, ModUnique
  <2>2. x + 1 = w * (q + 1) + 0 /\ r + 1 = w * 1 + 0
    BY <1>1, <1>3, <1>4
  <2> QED
    BY <2>1, <2>2, <1>1
<1> QED
  BY <1>1, <1>2, <1>3, <1>4

\* As many of them as there are places they are moved to.
LEMMA ShiftedUp ==
    ASSUME NEW S, S \subseteq Nat, IsFiniteSet(S)
    PROVE  IsFiniteSet({i + 1 : i \in S}) /\ Cardinality({i + 1 : i \in S}) = Cardinality(S)
<1> DEFINE T == {i + 1 : i \in S}  f == [i \in S |-> i + 1]
<1>1. f \in Bijection(S, T)
  <2>1. f \in [S -> T] /\ \A i \in S : f[i] = i + 1
    OBVIOUS
  <2>2. \A i, j \in S : f[i] = f[j] => i = j
    BY <2>1
  <2>3. \A t \in T : \E i \in S : f[i] = t
    BY <2>1
  <2> HIDE DEF f, T
  <2> QED
    BY <2>1, <2>2, <2>3 DEF Bijection, Injection, Surjection, IsInjective
<1>2. ExistsBijection(S, T)
  BY <1>1 DEF ExistsBijection
<1> HIDE DEF f, T
<1>3. IsFiniteSet(T) /\ Cardinality(T) = Cardinality(S)
  BY <1>2, FS_Bijection
<1> QED
  BY <1>3 DEF T
-----------------------------------------------------------------------------
(***************************************************************************)
(* Parts of sequences.                                                     *)
(***************************************************************************)
LEMMA PartIs ==
    ASSUME NEW B, NEW s \in Seq(B), NEW a \in Nat, NEW b \in Nat, 1 <= a, b <= Len(s)
    PROVE  /\ SubSeq(s, a, b) \in Seq(B)
           /\ Len(SubSeq(s, a, b)) = IF a <= b THEN b - a + 1 ELSE 0
           /\ \A i \in 1..b - a + 1 : SubSeq(s, a, b)[i] = s[a + i - 1]
<1>1. \A i \in a..b : s[i] \in B
  OBVIOUS
<1> QED
  BY <1>1, SubSeqProperties

LEMMA PartOfPart ==
    ASSUME NEW B, NEW s \in Seq(B), NEW a \in Nat, NEW b \in Nat, 1 <= a, b <= Len(s), a <= b + 1,
           NEW i \in Nat, NEW j \in Nat, 1 <= i, i <= j + 1, a + j <= b + 1
    PROVE  SubSeq(SubSeq(s, a, b), i, j) = SubSeq(s, a + i - 1, a + j - 1)
<1>1. PICK p \in Nat, q \in Nat : p = a + i - 1 /\ q = a + j - 1
  <2>1. a + i - 1 \in Nat /\ a + j - 1 \in Nat
    OBVIOUS
  <2> QED
    BY <2>1
<1> DEFINE u == SubSeq(s, a, b)  v == SubSeq(u, i, j)  w == SubSeq(s, p, q)
<1>2. u \in Seq(B) /\ Len(u) = b - a + 1 /\ \A k \in 1..Len(u) : u[k] = s[a + k - 1]
  <2>1. (IF a <= b THEN b - a + 1 ELSE 0) = b - a + 1
    OBVIOUS
  <2> QED
    BY PartIs, <2>1
<1> HIDE DEF u
<1>3. v \in Seq(B) /\ Len(v) = (IF i <= j THEN j - i + 1 ELSE 0) /\ \A k \in 1..j - i + 1 : v[k] = u[i + k - 1]
  BY <1>2, PartIs
<1>4. w \in Seq(B) /\ Len(w) = (IF p <= q THEN q - p + 1 ELSE 0) /\ \A k \in 1..q - p + 1 : w[k] = s[p + k - 1]
  BY <1>1, PartIs
<1> HIDE DEF v, w
<1>5. Len(v) = Len(w) /\ Len(v) = j - i + 1 /\ q - p + 1 = j - i + 1
  BY <1>1, <1>3, <1>4
<1>6. ASSUME NEW k \in 1..Len(v) PROVE v[k] = w[k]
  <2>1. PICK l \in Nat : l = i + k - 1
    BY <1>5
  <2>2. l \in 1..Len(u) /\ p + k - 1 = a + l - 1
    BY <1>1, <1>2, <1>5, <2>1
  <2>3. v[k] = u[l] /\ w[k] = s[p + k - 1]
    BY <1>3, <1>4, <1>5, <2>1
  <2> QED
    BY <1>2, <2>2, <2>3
<1> QED
  BY <1>1, <1>3, <1>4, <1>5, <1>6, SeqEqual DEF u, v, w

LEMMA PartsMeet ==
    ASSUME NEW B, NEW s \in Seq(B), NEW a \in Nat, NEW b \in Nat, NEW c \in Nat,
           1 <= a, a <= b + 1, b <= c, c <= Len(s)
    PROVE  SubSeq(s, a, b) \o SubSeq(s, b + 1, c) = SubSeq(s, a, c)
<1>1. PICK d \in Nat : d = b + 1
  OBVIOUS
<1> DEFINE u == SubSeq(s, a, b)  v == SubSeq(s, d, c)  w == SubSeq(s, a, c)  uv == u \o v
<1>2. u \in Seq(B) /\ Len(u) = b - a + 1 /\ \A k \in 1..b - a + 1 : u[k] = s[a + k - 1]
  <2>1. (IF a <= b THEN b - a + 1 ELSE 0) = b - a + 1
    OBVIOUS
  <2> QED
    BY PartIs, <2>1
<1>3. v \in Seq(B) /\ Len(v) = c - b /\ \A k \in 1..c - b : v[k] = s[d + k - 1]
  <2>1. (IF d <= c THEN c - d + 1 ELSE 0) = c - b /\ c - d + 1 = c - b
    BY <1>1
  <2> QED
    BY PartIs, <1>1, <2>1
<1>4. w \in Seq(B) /\ Len(w) = c - a + 1 /\ \A k \in 1..c - a + 1 : w[k] = s[a + k - 1]
  <2>1. (IF a <= c THEN c - a + 1 ELSE 0) = c - a + 1
    OBVIOUS
  <2> QED
    BY PartIs, <2>1
<1> HIDE DEF u, v, w
<1>5. uv \in Seq(B) /\ Len(uv) = Len(u) + Len(v)
      /\ \A k \in 1..Len(u) + Len(v) : uv[k] = IF k <= Len(u) THEN u[k] ELSE v[k - Len(u)]
  BY <1>2, <1>3, ConcatProperties
<1> HIDE DEF uv
<1>6. Len(uv) = Len(w) /\ Len(w) = c - a + 1
  BY <1>2, <1>3, <1>4, <1>5
<1>7. ASSUME NEW k \in 1..Len(uv) PROVE uv[k] = w[k]
  <2>1. w[k] = s[a + k - 1]
    BY <1>4, <1>6
  <2>2. CASE k <= Len(u)
    BY <1>2, <1>5, <1>6, <2>1, <2>2
  <2>3. CASE k > Len(u)
    <3>1. PICK l \in 1..c - b : l = k - Len(u)
      <4>1. k - Len(u) \in 1..c - b
        BY <1>2, <1>6, <2>3
      <4> QED
        BY <4>1
    <3>2. uv[k] = v[l] /\ v[l] = s[d + l - 1] /\ d + l - 1 = a + k - 1
      BY <1>1, <1>2, <1>3, <1>5, <2>3, <3>1
    <3> QED
      BY <2>1, <3>2
  <2> QED
    BY <1>2, <1>6, <2>2, <2>3
<1> QED
  BY <1>1, <1>4, <1>5, <1>6, <1>7, SeqEqual DEF u, v, w, uv
-----------------------------------------------------------------------------
(***************************************************************************)
(* Counting through a set of places of a text: how many there are up to p, *)
(* and which is the i-th.                                                  *)
(***************************************************************************)
Places(E, n) == n \in Nat /\ \A e \in E : e \in 1..n
Rank(E, p) == Cardinality({e \in E : e <= p})
Nth(E, i) == CHOOSE e \in E : Rank(E, e) = i

LEMMA PlacesAre ==
    ASSUME NEW n, NEW E, Places(E, n)
    PROVE  E \subseteq 1..n /\ \A e \in E : e \in Nat /\ 1 <= e /\ e <= n
  BY DEF Places

LEMMA PlacesFinite ==
    ASSUME NEW n, NEW E, Places(E, n)
    PROVE  IsFiniteSet(E) /\ Cardinality(E) \in Nat
<1>1. n \in Nat /\ E \in SUBSET (1..n)
  BY DEF Places
<1>2. IsFiniteSet(1..n)
  BY <1>1, FS_Interval
<1>3. IsFiniteSet(E)
  BY <1>1, <1>2, FS_Subset
<1> QED
  BY <1>3, FS_CardinalityType

LEMMA RankType ==
    ASSUME NEW n, NEW E, Places(E, n), NEW p
    PROVE  IsFiniteSet({e \in E : e <= p}) /\ Rank(E, p) \in Nat
<1>1. {e \in E : e <= p} \in SUBSET E
  OBVIOUS
<1>2. IsFiniteSet({e \in E : e <= p})
  BY <1>1, PlacesFinite, FS_Subset
<1> QED
  BY <1>2, FS_CardinalityType DEF Rank

LEMMA RankZero == ASSUME NEW n, NEW E, Places(E, n) PROVE Rank(E, 0) = 0
<1>1. {e \in E : e <= 0} = {}
  BY PlacesAre
<1> QED
  BY <1>1, FS_EmptySet DEF Rank

LEMMA RankNext ==
    ASSUME NEW n, NEW E, Places(E, n), NEW p \in Nat
    PROVE  Rank(E, p + 1) = Rank(E, p) + (IF p + 1 \in E THEN 1 ELSE 0)
<1> DEFINE S == {e \in E : e <= p}  T == {e \in E : e <= p + 1}
<1>1. \A e \in E : e \in Nat
  BY PlacesAre
<1>2. p + 1 \notin S /\ (p + 1 \in E => T = S \cup {p + 1}) /\ (p + 1 \notin E => T = S)
  BY <1>1
<1>3. IsFiniteSet(S) /\ Cardinality(S) \in Nat
  BY RankType DEF Rank
<1>4. Rank(E, p) = Cardinality(S) /\ Rank(E, p + 1) = Cardinality(T)
  BY DEF Rank
<1> HIDE DEF S, T
<1>5. Cardinality(S \cup {p + 1}) = Cardinality(S) + 1
  BY <1>2, <1>3, FS_AddElement
<1>6. CASE p + 1 \in E
  BY <1>2, <1>4, <1>5, <1>6
<1>7. CASE p + 1 \notin E
  BY <1>2, <1>3, <1>4, <1>7
<1> QED
  BY <1>6, <1>7

LEMMA RankGrows ==
    ASSUME NEW n, NEW E, Places(E, n), NEW p \in Nat, NEW q \in Nat, p <= q
    PROVE  Rank(E, p) <= Rank(E, q)
<1> DEFINE S == {e \in E : e <= p}  T == {e \in E : e <= q}
<1>1. \A e \in E : e \in Nat
  BY PlacesAre
<1>2. S \in SUBSET T
  BY <1>1
<1>3. IsFiniteSet(T)
  BY RankType
<1>4. Rank(E, p) = Cardinality(S) /\ Rank(E, q) = Cardinality(T)
  BY DEF Rank
<1> HIDE DEF S, T
<1> QED
  BY <1>2, <1>3, <1>4, FS_Subset

LEMMA RankTo ==
    ASSUME NEW n, NEW E, Places(E, n), NEW p \in Nat, n <= p
    PROVE  Rank(E, p) = Cardinality(E)
<1>1. \A e \in E : e <= p
  BY PlacesAre DEF Places
<1>2. {e \in E : e <= p} = E
  BY <1>1
<1> QED
  BY <1>2 DEF Rank

\* A place of the set has a greater rank than all that come before it.
LEMMA RankSteps ==
    ASSUME NEW n, NEW E, Places(E, n), NEW p \in Nat, NEW q \in E, p < q
    PROVE  Rank(E, p) < Rank(E, q)
<1>1. PICK r \in Nat : r + 1 = q /\ p <= r
  <2>0. q \in Nat
    BY PlacesAre
  <2>1. q - 1 \in Nat /\ (q - 1) + 1 = q /\ p <= q - 1
    BY <2>0
  <2> QED
    BY <2>1
<1>2. Rank(E, q) = Rank(E, r) + 1
  BY <1>1, RankNext
<1>3. Rank(E, p) <= Rank(E, r) /\ Rank(E, p) \in Nat /\ Rank(E, r) \in Nat
  BY <1>1, RankGrows, RankType
<1> QED
  BY <1>2, <1>3

LEMMA RankOnce ==
    ASSUME NEW n, NEW E, Places(E, n), NEW d \in E, NEW e \in E, Rank(E, d) = Rank(E, e)
    PROVE  d = e
<1>1. d \in Nat /\ e \in Nat /\ Rank(E, d) \in Nat /\ Rank(E, e) \in Nat
  BY RankType, PlacesAre
<1>2. d < e => Rank(E, d) < Rank(E, e)
  BY <1>1, RankSteps
<1>3. e < d => Rank(E, e) < Rank(E, d)
  BY <1>1, RankSteps
<1> QED
  BY <1>1, <1>2, <1>3

LEMMA RankHit ==
    ASSUME NEW n, NEW E, Places(E, n), NEW p \in Nat, NEW i \in Nat, 1 <= i, i <= Rank(E, p)
    PROVE  \E e \in E : e <= p /\ Rank(E, e) = i
<1> DEFINE Q == {q \in Nat : i <= Rank(E, q)}
<1>0. Q \subseteq Nat /\ p \in Q
  OBVIOUS
<1>1. PICK q \in Q : \A r \in Q : q <= r
  <2> HIDE DEF Q
  <2> QED
    BY <1>0, Least
<1>2. Rank(E, 0) = 0
  BY RankZero
<1>8. q \in Nat /\ i <= Rank(E, q) /\ q # 0 /\ q <= p
  BY <1>0, <1>1, <1>2
<1>3. PICK r \in Nat : r + 1 = q
  <2>1. q - 1 \in Nat /\ (q - 1) + 1 = q
    BY <1>8
  <2> QED
    BY <2>1
<1>4. Rank(E, r) \in Nat
  BY RankType
<1>9. ~(i <= Rank(E, r))
  BY <1>1, <1>3, <1>8
<1>5. Rank(E, q) = Rank(E, r) + (IF q \in E THEN 1 ELSE 0)
  BY <1>3, RankNext
<1>7. q \in E /\ Rank(E, q) = i
  BY <1>4, <1>5, <1>8, <1>9
<1> QED
  BY <1>7, <1>8

LEMMA NthOf ==
    ASSUME NEW n, NEW E, Places(E, n), NEW e \in E
    PROVE  Nth(E, Rank(E, e)) = e
<1>1. \A d \in E : Rank(E, d) = Rank(E, e) => d = e
  BY RankOnce
<1> QED
  BY <1>1 DEF Nth

LEMMA NthIs ==
    ASSUME NEW n, NEW E, Places(E, n), NEW i \in 1..Cardinality(E)
    PROVE  Nth(E, i) \in E /\ Rank(E, Nth(E, i)) = i
<1>0. n \in Nat /\ i \in Nat /\ 1 <= i /\ i <= Cardinality(E)
  BY PlacesFinite DEF Places
<1>1. Rank(E, n) = Cardinality(E)
  BY <1>0, RankTo
<1>2. \E e \in E : Rank(E, e) = i
  BY <1>0, <1>1, RankHit
<1> QED
  BY <1>2 DEF Nth
-----------------------------------------------------------------------------
(***************************************************************************)
(* A text that is cut into l at the places b gives the text again.         *)
(***************************************************************************)
IsCut(l, s, b, n) ==
    /\ n \in Nat /\ s \in Seq(Range(s)) /\ b \in [0..n -> 0..Len(s)]
    /\ \A i \in 1..n : b[i - 1] <= b[i]
    /\ l = [i \in 1..n |-> SubSeq(s, b[i - 1] + 1, b[i])]

LEMMA CutIs ==
    ASSUME NEW l, NEW s, NEW b, NEW n, IsCut(l, s, b, n), NEW i \in 1..n
    PROVE  /\ l[i] = SubSeq(s, b[i - 1] + 1, b[i])
           /\ b[i - 1] \in Nat /\ b[i] \in Nat /\ b[i - 1] <= b[i] /\ b[i] <= Len(s)
<1>1. i - 1 \in 0..n /\ i \in 0..n /\ Len(s) \in Nat
  BY DEF IsCut
<1> QED
  BY <1>1 DEF IsCut

LEMMA CutLength ==
    ASSUME NEW l, NEW s, NEW b, NEW n, IsCut(l, s, b, n)
    PROVE  Len(l) = n /\ DOMAIN l = 1..n /\ l \in Seq(Range(l)) /\ n \in Nat
<1>1. DOMAIN l = 1..n /\ n \in Nat /\ l = [i \in 1..n |-> l[i]]
  BY DEF IsCut
<1>2. l \in [1..n -> Range(l)]
  BY <1>1 DEF Range
<1> QED
  BY <1>1, <1>2

\* The first i pieces together.
LEMMA CutStarts ==
    ASSUME NEW l, NEW s, NEW b, NEW n, IsCut(l, s, b, n), NEW i \in 1..n
    PROVE  /\ b[0] \in Nat /\ b[0] <= b[i] /\ b[i] \in Nat /\ b[i] <= Len(s)
           /\ i # 1 => SubSeq(s, b[0] + 1, b[i]) = SubSeq(s, b[0] + 1, b[i - 1]) \o l[i]
<1> DEFINE Good == {k \in Nat : k <= n => b[0] <= b[k]}
<1>1. n \in Nat /\ b[0] \in Nat /\ \A k \in 0..n : b[k] \in Nat /\ b[k] <= Len(s)
  BY DEF IsCut
<1>2. 0 \in Good
  BY <1>1
<1>3. ASSUME NEW k \in Nat, k \in Good PROVE k + 1 \in Good
  <2> SUFFICES ASSUME k + 1 <= n PROVE b[0] <= b[k + 1]
    OBVIOUS
  <2>1. k + 1 \in 1..n /\ (k + 1) - 1 = k /\ k \in 0..n
    BY <1>1
  <2>2. b[k] <= b[k + 1]
    BY <2>1, CutIs
  <2>3. b[0] <= b[k]
    BY <1>3, <2>1
  <2> QED
    BY <1>1, <2>1, <2>2, <2>3
<1> HIDE DEF Good
<1>4. Nat \subseteq Good
  BY <1>2, <1>3, FromZero
<1>5. \A k \in 0..n : b[0] <= b[k]
  BY <1>1, <1>4 DEF Good
<1>6. ASSUME i # 1 PROVE SubSeq(s, b[0] + 1, b[i]) = SubSeq(s, b[0] + 1, b[i - 1]) \o l[i]
  <2>1. PICK x \in Nat, y \in Nat, z \in Nat : x = b[0] + 1 /\ y = b[i - 1] /\ z = b[i]
    <3>1. i - 1 \in 0..n
      BY <1>1
    <3> QED
      BY <1>1, <3>1, CutIs
  <2>2. x <= y + 1 /\ y <= z /\ z <= Len(s) /\ 1 <= x
    <3>1. i - 1 \in 0..n
      BY <1>1
    <3>2. b[0] <= b[i - 1] /\ b[i - 1] <= b[i] /\ b[i] <= Len(s)
      BY <1>5, <3>1, CutIs
    <3> QED
      BY <1>1, <2>1, <3>2
  <2>3. s \in Seq(Range(s))
    BY DEF IsCut
  <2>4. SubSeq(s, x, y) \o SubSeq(s, y + 1, z) = SubSeq(s, x, z)
    BY <2>2, <2>3, PartsMeet
  <2>5. l[i] = SubSeq(s, y + 1, z)
    BY <2>1, CutIs
  <2> QED
    BY <2>1, <2>4, <2>5
<1>7. i \in 0..n
  BY <1>1
<1>8. b[0] \in Nat /\ b[0] <= b[i] /\ b[i] \in Nat /\ b[i] <= Len(s)
  BY <1>1, <1>5, <1>7
<1> QED
  BY <1>6, <1>8

LEMMA FlatAll ==
    ASSUME NEW l, NEW s, NEW b, NEW n, IsCut(l, s, b, n), n # 0
    PROVE  FlattenSeq(l) = SubSeq(s, b[0] + 1, b[n])
<1> DEFINE t == CHOOSE w : w = [i \in 1..Len(l) |-> IF i = 1 THEN l[i] ELSE w[i - 1] \o l[i]]
           v == [i \in 1..n |-> SubSeq(s, b[0] + 1, b[i])]
<1>1. Len(l) = n /\ n \in Nat
  BY CutLength
<1>2. \A i \in 1..n : v[i] = IF i = 1 THEN l[i] ELSE v[i - 1] \o l[i]
  <2> SUFFICES ASSUME NEW i \in 1..n PROVE v[i] = IF i = 1 THEN l[i] ELSE v[i - 1] \o l[i]
    OBVIOUS
  <2>1. CASE i = 1
    <3>1. 1 \in 1..n /\ 1 - 1 = 0
      BY <1>1
    <3> QED
      BY <2>1, <3>1, CutIs
  <2>2. CASE i # 1
    <3>1. i - 1 \in 1..n
      BY <1>1, <2>2
    <3>2. SubSeq(s, b[0] + 1, b[i]) = SubSeq(s, b[0] + 1, b[i - 1]) \o l[i]
      BY <2>2, CutStarts
    <3> QED
      BY <2>2, <3>1, <3>2
  <2> QED
    BY <2>1, <2>2
<1>3. v = [i \in 1..n |-> IF i = 1 THEN l[i] ELSE v[i - 1] \o l[i]]
  <2>1. v = [i \in 1..n |-> v[i]]
    OBVIOUS
  <2> HIDE DEF v
  <2> QED
    BY <1>2, <2>1
<1>4. t = [i \in 1..n |-> IF i = 1 THEN l[i] ELSE t[i - 1] \o l[i]]
  BY <1>1, <1>3
<1>5. FlattenSeq(l) = t[n]
  BY <1>1 DEF FlattenSeq
<1>6. \A i \in 1..n : v[i] = SubSeq(s, b[0] + 1, b[i])
  OBVIOUS
<1> HIDE DEF v, t
<1> DEFINE Good == {k \in Nat : k + 1 <= n => t[k + 1] = v[k + 1]}
<1>7. 0 \in Good
  <2>1. 1 \in 1..n /\ 0 + 1 = 1
    BY <1>1
  <2> QED
    BY <1>2, <1>4, <2>1
<1>8. ASSUME NEW k \in Nat, k \in Good PROVE k + 1 \in Good
  <2> SUFFICES ASSUME (k + 1) + 1 <= n PROVE t[(k + 1) + 1] = v[(k + 1) + 1]
    OBVIOUS
  <2>1. PICK i \in 1..n : i = (k + 1) + 1 /\ i - 1 = k + 1 /\ i # 1
    <3>1. (k + 1) + 1 \in 1..n /\ ((k + 1) + 1) - 1 = k + 1 /\ (k + 1) + 1 # 1
      BY <1>1
    <3> QED
      BY <3>1
  <2>2. t[i - 1] = v[i - 1]
    BY <1>1, <1>8, <2>1
  <2> QED
    BY <1>2, <1>4, <2>1, <2>2
<1> HIDE DEF Good
<1>9. Nat \subseteq Good
  BY <1>7, <1>8, FromZero
<1>10. n - 1 \in Nat /\ (n - 1) + 1 = n /\ n \in 1..n
  BY <1>1
<1>11. t[n] = v[n]
  BY <1>9, <1>10 DEF Good
<1> QED
  BY <1>5, <1>6, <1>10, <1>11

LEMMA FlatPart ==
    ASSUME NEW l, NEW s, NEW b, NEW n, IsCut(l, s, b, n), NEW x \in 1..n, NEW y \in x..n
    PROVE  FlattenSeq(SubSeq(l, x, y)) = SubSeq(s, b[x - 1] + 1, b[y])
<1>1. PICK m \in Nat \ {0} : m = y - x + 1
  <2>1. y - x + 1 \in Nat \ {0}
    BY CutLength
  <2> QED
    BY <2>1
<1>0. x \in Nat /\ y \in Nat /\ n \in Nat /\ 1 <= x /\ x <= y /\ y <= n
  BY CutLength
<1> DEFINE u == SubSeq(l, x, y)  c == [i \in 0..m |-> b[(x - 1) + i]]
<1>2. u \in Seq(Range(l)) /\ Len(u) = m /\ \A i \in 1..m : u[i] = l[x + i - 1]
  <2>1. (IF x <= y THEN y - x + 1 ELSE 0) = m
    BY <1>0, <1>1
  <2>2. l \in Seq(Range(l)) /\ y <= Len(l)
    BY <1>0, CutLength
  <2> QED
    BY <1>0, <1>1, <2>1, <2>2, PartIs
<1>3. \A i \in 0..m : (x - 1) + i \in 0..n
  BY <1>0, <1>1
<1>4. c \in [0..m -> 0..Len(s)] /\ c[0] = b[x - 1] /\ c[m] = b[y]
  <2>1. (x - 1) + 0 = x - 1 /\ (x - 1) + m = y /\ 0 \in 0..m /\ m \in 0..m
    BY <1>0, <1>1
  <2> QED
    BY <1>3, <2>1 DEF IsCut
<1>5. ASSUME NEW i \in 1..m
      PROVE  c[i - 1] <= c[i] /\ u[i] = SubSeq(s, c[i - 1] + 1, c[i])
  <2>1. PICK k \in 1..n : k = x + i - 1 /\ k = (x - 1) + i /\ k - 1 = (x - 1) + (i - 1)
    <3>1. x + i - 1 \in 1..n /\ x + i - 1 = (x - 1) + i /\ (x + i - 1) - 1 = (x - 1) + (i - 1)
      BY <1>0, <1>1
    <3> QED
      BY <3>1
  <2>2. i - 1 \in 0..m /\ i \in 0..m
    BY <1>1
  <2>3. c[i] = b[k] /\ c[i - 1] = b[k - 1]
    BY <2>1, <2>2
  <2>4. u[i] = l[k]
    BY <1>2, <2>1
  <2> HIDE DEF u, c
  <2> QED
    BY <2>3, <2>4, CutIs
<1> HIDE DEF u, c
<1>6. u = [i \in 1..m |-> SubSeq(s, c[i - 1] + 1, c[i])]
  <2>1. u = [i \in 1..m |-> u[i]]
    BY <1>2
  <2> QED
    BY <1>5, <2>1
<1>7. IsCut(u, s, c, m)
  BY <1>4, <1>5, <1>6 DEF IsCut
<1>8. FlattenSeq(u) = SubSeq(s, c[0] + 1, c[m])
  BY <1>7, FlatAll
<1> QED
  BY <1>4, <1>8 DEF u
-----------------------------------------------------------------------------
(***************************************************************************)
(* Sequences one behind the other.                                         *)
(***************************************************************************)
IsFlat(g, B, f) ==
    /\ g \in [1..Len(f) -> Seq(B)] /\ g[1] = f[1]
    /\ \A i \in 1 + 1..Len(f) : g[i] = g[i - 1] \o f[i]

LEMMA FlatIs ==
    ASSUME NEW B, NEW f \in Seq(Seq(B)), Len(f) # 0
    PROVE  \E g : IsFlat(g, B, f) /\ FlattenSeq(f) = g[Len(f)]
<1> DEFINE n == Len(f)
           g == CHOOSE w : w = [i \in 1..n |-> IF i = 1 THEN f[i] ELSE w[i - 1] \o f[i]]
           step == [p \in Seq(B) \X (1 + 1..n) |-> p[1] \o f[p[2]]]
<1>9. FlattenSeq(f) = g[n]
  BY DEF FlattenSeq
<1>1. n \in Nat /\ n # 0 /\ \A i \in 1..n : f[i] \in Seq(B)
  OBVIOUS
<1> HIDE DEF n
<1>a. f[1] \in Seq(B)
  BY <1>1
<1>2. step \in [Seq(B) \X (1 + 1..n) -> Seq(B)]
      /\ \A u \in Seq(B), i \in 1 + 1..n : step[<<u, i>>] = u \o f[i]
  <2>1. \A u \in Seq(B), i \in 1 + 1..n : u \o f[i] \in Seq(B)
    BY <1>1, ConcatProperties
  <2> QED
    BY <2>1
<1> HIDE DEF step
<1>3. PICK w : IsIterate(w, Seq(B), 1, n, f[1], step)
  BY <1>1, <1>a, <1>2, Iterates, 1 \in Nat
<1>4. w = [i \in 1..n |-> IF i = 1 THEN f[i] ELSE w[i - 1] \o f[i]]
  <2>0. w \in [1..n -> Seq(B)] /\ \A i \in 1..n : w[i] = IF i = 1 THEN f[1] ELSE step[<<w[i - 1], i>>]
    BY <1>3 DEF IsIterate
  <2>1. \A i \in 1..n : i # 1 => i \in 1 + 1..n /\ w[i - 1] \in Seq(B)
    BY <1>1, <2>0
  <2>2. \A i \in 1..n : i # 1 => step[<<w[i - 1], i>>] = w[i - 1] \o f[i]
    BY <1>2, <2>1
  <2> QED
    BY <2>0, <2>2
<1>5. g = [i \in 1..n |-> IF i = 1 THEN f[i] ELSE g[i - 1] \o f[i]]
  BY <1>4
<1> HIDE DEF g
<1>6. g[1] = f[1] /\ \A i \in 1 + 1..n : g[i] = g[i - 1] \o f[i] /\ f[i] \in Seq(B)
  <2>1. \A i \in 1 + 1..n : i \in 1..n /\ i # 1
    BY <1>1
  <2>2. 1 \in 1..n
    BY <1>1
  <2>3. \A i \in 1..n : g[i] = IF i = 1 THEN f[i] ELSE g[i - 1] \o f[i]
    BY <1>5
  <2> QED
    BY <1>1, <1>a, <2>1, <2>2, <2>3
<1>7. \A i \in 1 + 1..n : g[i - 1] \in Seq(B) => g[i] \in Seq(B)
  <2> SUFFICES ASSUME NEW i \in 1 + 1..n, g[i - 1] \in Seq(B) PROVE g[i] \in Seq(B)
    OBVIOUS
  <2>1. f[i] \in Seq(B) /\ g[i] = g[i - 1] \o f[i]
    BY <1>6
  <2>2. g[i - 1] \o f[i] \in Seq(B)
    BY <2>1, ConcatProperties
  <2> QED
    BY <2>1, <2>2
<1>8. \A i \in 1..n : g[i] \in Seq(B)
  BY <1>1, <1>a, <1>6, <1>7, Stays, 1 \in Nat
<1>10. g \in [1..n -> Seq(B)]
  BY <1>5, <1>8
<1>11. IsFlat(g, B, f)
  BY <1>6, <1>10 DEF IsFlat, n
<1> QED
  BY <1>9, <1>11 DEF n

LEMMA FlattenType ==
    ASSUME NEW B, NEW f \in Seq(Seq(B))
    PROVE  FlattenSeq(f) \in Seq(B)
<1>1. CASE Len(f) = 0
  <2>1. f = <<>>
    BY <1>1
  <2> QED
    BY <1>1, <2>1 DEF FlattenSeq
<1>2. CASE Len(f) # 0
  <2>1. PICK g : IsFlat(g, B, f) /\ FlattenSeq(f) = g[Len(f)]
    BY <1>2, FlatIs
  <2>2. Len(f) \in 1..Len(f)
    BY <1>2
  <2> QED
    BY <2>1, <2>2 DEF IsFlat
<1> QED
  BY <1>1, <1>2

\* One more of them.
LEMMA FlatNext ==
    ASSUME NEW B, NEW f \in Seq(Seq(B)), NEW x \in Seq(B)
    PROVE  FlattenSeq(Append(f, x)) = FlattenSeq(f) \o x
<1> DEFINE n == Len(f)  h == Append(f, x)
<1>1. /\ h \in Seq(Seq(B)) /\ Len(h) = n + 1 /\ n \in Nat /\ h[n + 1] = x
      /\ \A i \in 1..n : h[i] = f[i]
  OBVIOUS
<1> HIDE DEF h
<1>2. PICK w : IsFlat(w, B, h) /\ FlattenSeq(h) = w[n + 1]
  BY <1>1, FlatIs
<1>3. CASE n = 0
  <2>1. w[n + 1] = x /\ FlattenSeq(f) = f /\ f = <<>>
    BY <1>1, <1>2, <1>3 DEF IsFlat, FlattenSeq
  <2> QED
    BY <1>2, <2>1 DEF h
<1>4. CASE n # 0
  <2>1. PICK g : IsFlat(g, B, f) /\ FlattenSeq(f) = g[n]
    BY <1>4, FlatIs
  <2> DEFINE Good == {k \in Nat : k + 1 <= n => w[k + 1] = g[k + 1]}
  <2>2. 0 \in Good
    <3>1. 1 \in 1..n /\ 0 + 1 = 1
      BY <1>1, <1>4
    <3>2. w[1] = h[1] /\ g[1] = f[1] /\ h[1] = f[1]
      BY <1>1, <1>2, <2>1, <3>1 DEF IsFlat
    <3> QED
      BY <3>1, <3>2
  <2>3. ASSUME NEW k \in Nat, k \in Good PROVE k + 1 \in Good
    <3> SUFFICES ASSUME (k + 1) + 1 <= n PROVE w[(k + 1) + 1] = g[(k + 1) + 1]
      OBVIOUS
    <3>1. PICK i \in 1..n : i = (k + 1) + 1 /\ i - 1 = k + 1 /\ i \in 1 + 1..n /\ i \in 1 + 1..n + 1
      <4>1. (k + 1) + 1 \in 1..n /\ ((k + 1) + 1) - 1 = k + 1 /\ (k + 1) + 1 \in 1 + 1..n
            /\ (k + 1) + 1 \in 1 + 1..n + 1
        BY <1>1
      <4> QED
        BY <4>1
    <3>2. w[i - 1] = g[i - 1]
      BY <1>1, <2>3, <3>1
    <3>3. w[i] = w[i - 1] \o h[i] /\ g[i] = g[i - 1] \o f[i] /\ h[i] = f[i]
      BY <1>1, <1>2, <2>1, <3>1 DEF IsFlat
    <3> QED
      BY <3>1, <3>2, <3>3
  <2> HIDE DEF Good
  <2>4. Nat \subseteq Good
    BY <2>2, <2>3, FromZero
  <2>5. n - 1 \in Nat /\ (n - 1) + 1 = n
    BY <1>1, <1>4
  <2>6. w[n] = g[n]
    <3>1. n - 1 \in Good
      BY <2>4, <2>5
    <3>2. n - 1 + 1 <= n => w[n - 1 + 1] = g[n - 1 + 1]
      BY <3>1 DEF Good
    <3> QED
      BY <1>1, <2>5, <3>2
  <2>7. n + 1 \in 1 + 1..n + 1 /\ (n + 1) - 1 = n
    BY <1>1, <1>4
  <2>8. w[n + 1] = w[n] \o h[n + 1]
    BY <1>1, <1>2, <2>7 DEF IsFlat
  <2> QED
    BY <1>1, <1>2, <2>1, <2>6, <2>8 DEF h
<1> QED
  BY <1>3, <1>4

\* Where each of them begins and ends in the whole.
AreJoined(f, s, b) ==
    /\ b \in [0..Len(f) -> 0..Len(s)] /\ b[0] = 0 /\ b[Len(f)] = Len(s)
    /\ \A k \in 1..Len(f) : /\ b[k] = b[k - 1] + Len(f[k])
                            /\ \A j \in 1..Len(f[k]) : s[b[k - 1] + j] = f[k][j]

LEMMA JoinedNext ==
    ASSUME NEW B, NEW f \in Seq(Seq(B)), NEW x \in Seq(B), NEW s \in Seq(B), NEW b, AreJoined(f, s, b)
    PROVE  \E c : AreJoined(Append(f, x), s \o x, c)
<1> DEFINE n == Len(f)  h == Append(f, x)  u == s \o x  m == Len(s)  l == Len(x)
           c == [k \in 0..n + 1 |-> IF k = n + 1 THEN m + l ELSE b[k]]
<1>1. /\ Len(h) = n + 1 /\ n \in Nat /\ h[n + 1] = x
      /\ \A i \in 1..n : h[i] = f[i] /\ f[i] \in Seq(B)
  OBVIOUS
<1>2. /\ Len(u) = m + l /\ m \in Nat /\ l \in Nat
      /\ \A j \in 1..m : u[j] = s[j]
      /\ \A j \in 1..l : u[m + j] = x[j]
  BY ConcatProperties
<1>3. /\ b[0] = 0 /\ b[n] = m /\ \A k \in 0..n : b[k] \in 0..m
      /\ \A k \in 1..n : b[k] = b[k - 1] + Len(f[k]) /\ \A j \in 1..Len(f[k]) : s[b[k - 1] + j] = f[k][j]
  BY DEF AreJoined
<1> HIDE DEF h, u, m, l, n
<1>4. c \in [0..n + 1 -> 0..m + l]
  BY <1>1, <1>2, <1>3
<1>5. /\ c[n + 1] = m + l /\ \A k \in 0..n : c[k] = b[k]
  BY <1>1
<1> HIDE DEF c
<1>6. ASSUME NEW k \in 1..n + 1
      PROVE  c[k] = c[k - 1] + Len(h[k]) /\ \A j \in 1..Len(h[k]) : u[c[k - 1] + j] = h[k][j]
  <2>1. CASE k = n + 1
    <3>1. k - 1 = n /\ n \in 0..n
      BY <1>1, <2>1
    <3>2. c[k - 1] = m /\ h[k] = x
      BY <1>1, <1>3, <1>5, <2>1, <3>1
    <3> QED
      BY <1>2, <1>5, <2>1, <3>2 DEF l
  <2>2. CASE k # n + 1
    <3>1. k \in 1..n /\ k \in 0..n /\ k - 1 \in 0..n
      BY <1>1, <2>2
    <3>2. c[k] = b[k] /\ c[k - 1] = b[k - 1] /\ h[k] = f[k] /\ f[k] \in Seq(B)
      BY <1>1, <1>5, <3>1
    <3>3. b[k] = b[k - 1] + Len(f[k]) /\ b[k] \in 0..m /\ b[k - 1] \in 0..m
      BY <1>3, <3>1
    <3>4. ASSUME NEW j \in 1..Len(f[k]) PROVE u[b[k - 1] + j] = f[k][j]
      <4>1. s[b[k - 1] + j] = f[k][j]
        BY <1>3, <3>1
      <4>2. PICK a \in Nat, z \in Nat, g \in Nat : a = b[k - 1] /\ z = b[k] /\ g = Len(f[k])
        BY <1>2, <3>2, <3>3
      <4>3. a + j \in 1..m
        <5>1. z = a + g /\ z <= m /\ j \in 1..g /\ m \in Nat
          BY <1>2, <3>3, <4>2
        <5> QED
          BY <5>1
      <4> QED
        BY <1>2, <4>1, <4>2, <4>3
    <3> QED
      BY <3>2, <3>3, <3>4
  <2> QED
    BY <2>1, <2>2
<1>7. c[0] = 0
  BY <1>1, <1>3, <1>5
<1>8. AreJoined(h, u, c)
  BY <1>1, <1>2, <1>4, <1>5, <1>6, <1>7 DEF AreJoined
<1> QED
  BY <1>8 DEF h, u

LEMMA FlatJoins ==
    ASSUME NEW B, NEW f \in Seq(Seq(B))
    PROVE  \E b : AreJoined(f, FlattenSeq(f), b)
<1> DEFINE Good == {n \in Nat : \A g \in Seq(Seq(B)) : Len(g) = n => \E b : AreJoined(g, FlattenSeq(g), b)}
<1>1. 0 \in Good
  <2> SUFFICES ASSUME NEW g \in Seq(Seq(B)), Len(g) = 0 PROVE \E b : AreJoined(g, FlattenSeq(g), b)
    OBVIOUS
  <2>1. g = <<>> /\ FlattenSeq(g) = <<>> /\ Len(FlattenSeq(g)) = 0
    BY DEF FlattenSeq
  <2> DEFINE b == [k \in 0..0 |-> 0]
  <2>2. b \in [0..Len(g) -> 0..Len(FlattenSeq(g))] /\ b[0] = 0 /\ 1..Len(g) = {}
    BY <2>1
  <2> HIDE DEF b
  <2>3. AreJoined(g, FlattenSeq(g), b)
    BY <2>1, <2>2 DEF AreJoined
  <2> QED
    BY <2>3
<1>2. ASSUME NEW n \in Nat, n \in Good PROVE n + 1 \in Good
  <2> SUFFICES ASSUME NEW g \in Seq(Seq(B)), Len(g) = n + 1 PROVE \E b : AreJoined(g, FlattenSeq(g), b)
    OBVIOUS
  <2>1. PICK h \in Seq(Seq(B)), x \in Seq(B) : g = Append(h, x) /\ Len(h) = n
    <3> DEFINE h == [i \in 1..n |-> g[i]]
    <3>1. h \in Seq(Seq(B)) /\ Len(h) = n /\ \A i \in 1..n : h[i] = g[i]
      OBVIOUS
    <3>2. g[n + 1] \in Seq(B)
      OBVIOUS
    <3> HIDE DEF h
    <3>3. Append(h, g[n + 1]) \in Seq(Seq(B)) /\ Len(Append(h, g[n + 1])) = n + 1
      BY <3>1, <3>2
    <3>4. \A i \in 1..n + 1 : g[i] = Append(h, g[n + 1])[i]
      <4> SUFFICES ASSUME NEW i \in 1..n + 1 PROVE g[i] = Append(h, g[n + 1])[i]
        OBVIOUS
      <4>1. i = n + 1 \/ i \in 1..n
        OBVIOUS
      <4> QED
        BY <3>1, <3>2, <4>1
    <3>5. g = Append(h, g[n + 1])
      BY <3>3, <3>4, SeqEqual
    <3> QED
      BY <3>1, <3>2, <3>5
  <2>2. PICK b : AreJoined(h, FlattenSeq(h), b)
    BY <1>2, <2>1
  <2>3. FlattenSeq(h) \in Seq(B)
    BY FlattenType
  <2>4. FlattenSeq(g) = FlattenSeq(h) \o x
    BY <2>1, FlatNext
  <2>5. PICK c : AreJoined(Append(h, x), FlattenSeq(h) \o x, c)
    BY <2>2, <2>3, JoinedNext
  <2> QED
    BY <2>1, <2>4, <2>5
<1> HIDE DEF Good
<1>3. Nat \subseteq Good
  BY <1>1, <1>2, FromZero
<1>4. Len(f) \in Good
  BY <1>3
<1> QED
  BY <1>4 DEF Good

\* A sequence ends with another one.
LEMMA SuffixIs ==
    ASSUME NEW B, NEW s \in Seq(B), NEW t \in Seq(B)
    PROVE  IsSuffix(s, t) <=> Len(s) <= Len(t) /\ \A i \in 1..Len(s) : s[i] = t[Len(t) - Len(s) + i]
<1> DEFINE r == Reverse(s)  q == Reverse(t)
<1>1. PICK m \in Nat, n \in Nat : m = Len(s) /\ n = Len(t)
  OBVIOUS
<1>2. r \in Seq(B) /\ q \in Seq(B) /\ Len(r) = m /\ Len(q) = n
      /\ (\A i \in 1..m : r[i] = s[m - i + 1]) /\ (\A i \in 1..n : q[i] = t[n - i + 1])
  BY <1>1 DEF Reverse
<1>3. IsSuffix(s, t) <=> IsPrefix(r, q)
  BY DEF IsSuffix
<1> HIDE DEF r, q
<1>4. IsPrefix(r, q) <=> m <= n /\ \A i \in 1..m : r[i] = q[i]
  BY <1>1, <1>2 DEF IsPrefix
<1>5. ASSUME m <= n PROVE (\A i \in 1..m : r[i] = q[i]) <=> \A i \in 1..m : s[i] = t[n - m + i]
  <2>1. ASSUME \A i \in 1..m : r[i] = q[i], NEW i \in 1..m PROVE s[i] = t[n - m + i]
    <3>1. PICK j \in 1..m : j = m - i + 1 /\ m - j + 1 = i /\ n - j + 1 = n - m + i /\ j \in 1..n
      <4>1. m - i + 1 \in 1..m /\ m - (m - i + 1) + 1 = i /\ n - (m - i + 1) + 1 = n - m + i /\ m - i + 1 \in 1..n
        BY <1>5
      <4> QED
        BY <4>1
    <3>2. r[j] = s[m - j + 1] /\ q[j] = t[n - j + 1] /\ r[j] = q[j]
      BY <1>2, <2>1, <3>1
    <3> QED
      BY <3>1, <3>2
  <2>2. ASSUME \A i \in 1..m : s[i] = t[n - m + i], NEW i \in 1..m PROVE r[i] = q[i]
    <3>1. PICK j \in 1..m : j = m - i + 1 /\ n - m + j = n - i + 1 /\ i \in 1..n
      <4>1. m - i + 1 \in 1..m /\ n - m + (m - i + 1) = n - i + 1 /\ i \in 1..n
        BY <1>5
      <4> QED
        BY <4>1
    <3>2. s[j] = t[n - m + j] /\ r[i] = s[m - i + 1] /\ q[i] = t[n - i + 1]
      BY <1>2, <2>2, <3>1
    <3> QED
      BY <3>1, <3>2
  <2> QED
    BY <2>1, <2>2
<1> QED
  BY <1>1, <1>3, <1>4, <1>5
=============================================================================
