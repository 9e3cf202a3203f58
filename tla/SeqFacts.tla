------------------------------ MODULE SeqFacts ------------------------------
(***************************************************************************)
(* Facts about the operators on naturals and sequences that the other      *)
(* proofs use: least elements, induction in the form of a set of naturals, *)
(* and what removal and insertion do to the positions of a sequence.       *)
(***************************************************************************)
EXTENDS SeqOps, SequenceTheorems,
        WellFoundedInduction, TLAPS

\* the provers tried, in this order, on a step that names none
USE SMTT(8), ZenonT(20), SMTT(60)

\* A non-empty set of naturals has a least element.
LEMMA Smallest ==
  ASSUME NEW T \in SUBSET Nat, T # {}
  PROVE  \E x \in T : \A y \in T : x <= y
<1>1. PICK x \in T : \A y \in T : ~ (<<y, x>> \in OpToRel(<, Nat))
  BY NatLessThanWellFounded, WFMin
<1>2. ASSUME NEW y \in T, y < x PROVE FALSE
  <2>1. <<y, x>> \in Nat \X Nat
    OBVIOUS
  <2>2. <<y, x>>[1] < <<y, x>>[2]
    BY <1>2
  <2>3. <<y, x>> \in {ss \in Nat \X Nat : ss[1] < ss[2]}
    BY <2>1, <2>2, Zenon
  <2>4. <<y, x>> \in OpToRel(<, Nat)
    BY <2>3, Zenon DEF OpToRel
  <2> QED BY <1>1, <2>4
<1> QED BY <1>2

\* Min of a non-empty set of naturals is its least element.
LEMMA MinIsLeast ==
  ASSUME NEW T \in SUBSET Nat, T # {}
  PROVE  Min(T) \in T /\ \A y \in T : Min(T) <= y
<1>1. \E x \in T : \A y \in T : x =< y
  BY Smallest
<1> QED BY <1>1 DEF Min

\* Induction over the naturals, for the members of a set.
LEMMA SetInduction ==
  ASSUME NEW S, 0 \in S, \A n \in Nat : n \in S => n + 1 \in S
  PROVE  Nat \subseteq S
<1> DEFINE T == Nat \ S
<1> SUFFICES ASSUME T # {} PROVE FALSE
  OBVIOUS
<1>1. PICK x \in T : \A y \in T : x <= y
  BY Smallest
<1>2. x - 1 \in Nat /\ x - 1 \notin T
  BY <1>1
<1> QED BY <1>2

\* RemoveAt takes out one position and closes the gap.
LEMMA RemoveAtProperties ==
  ASSUME NEW S, NEW s \in Seq(S), NEW i \in 1..Len(s)
  PROVE  /\ RemoveAt(s, i) \in Seq(S)
         /\ Len(RemoveAt(s, i)) = Len(s) - 1
         /\ \A j \in 1..Len(s) - 1 :
              RemoveAt(s, i)[j] = IF j < i THEN s[j] ELSE s[j + 1]
<1> DEFINE a == SubSeq(s, 1, i - 1)
           b == SubSeq(s, i + 1, Len(s))
           c == a \o b
<1>1. a \in Seq(S) /\ Len(a) = i - 1 /\ \A j \in 1..i - 1 : a[j] = s[j]
  BY SubSeqProperties
<1>2. b \in Seq(S) /\ Len(b) = Len(s) - i /\ \A j \in 1..Len(s) - i : b[j] = s[i + j]
  <2>1. \A j \in i + 1..Len(s) : s[j] \in S
    OBVIOUS
  <2>2. /\ b \in Seq(S) /\ Len(b) = IF i + 1 <= Len(s) THEN Len(s) - (i + 1) + 1 ELSE 0
        /\ \A j \in 1..Len(s) - (i + 1) + 1 : b[j] = s[(i + 1) + j - 1]
    BY <2>1, SubSeqProperties
  <2> QED BY <2>2
<1> HIDE DEF a, b
<1>3. /\ c \in Seq(S)
      /\ Len(c) = Len(a) + Len(b)
      /\ \A j \in 1..Len(a) + Len(b) : c[j] = IF j <= Len(a) THEN a[j] ELSE b[j - Len(a)]
  BY <1>1, <1>2, ConcatProperties
<1>4. RemoveAt(s, i) = c
  BY DEF RemoveAt, a, b
<1> HIDE DEF c
<1>5. /\ Len(c) = Len(s) - 1
      /\ \A j \in 1..Len(s) - 1 : c[j] = IF j <= i - 1 THEN a[j] ELSE b[j - (i - 1)]
  BY <1>1, <1>2, <1>3
<1>6. ASSUME NEW j \in 1..Len(s) - 1
      PROVE  c[j] = IF j < i THEN s[j] ELSE s[j + 1]
  <2>1. CASE j < i
    BY <2>1, <1>1, <1>5
  <2>2. CASE j >= i
    <3>1. j - (i - 1) \in 1..Len(s) - i /\ i + (j - (i - 1)) = j + 1
      BY <2>2
    <3>2. b[j - (i - 1)] = s[j + 1]
      BY <3>1, <1>2
    <3>3. c[j] = b[j - (i - 1)]
      BY <2>2, <1>5
    <3> QED BY <2>2, <3>2, <3>3
  <2> QED BY <2>1, <2>2
<1> QED BY <1>3, <1>4, <1>5, <1>6

\* What remains after RemoveAt are the other positions, in their order.
LEMMA RemoveAtKeeps ==
  ASSUME NEW S, NEW s \in Seq(S), NEW i \in 1..Len(s)
  PROVE  /\ \A j \in 1..Len(RemoveAt(s, i)) :
              \E k \in 1..Len(s) : k # i /\ RemoveAt(s, i)[j] = s[k]
         /\ \A k \in 1..Len(s) : k # i =>
              \E j \in 1..Len(RemoveAt(s, i)) : RemoveAt(s, i)[j] = s[k]
         /\ IsInjective(s) => /\ IsInjective(RemoveAt(s, i))
                              /\ \A j \in 1..Len(RemoveAt(s, i)) : RemoveAt(s, i)[j] # s[i]
<1> DEFINE r == RemoveAt(s, i)
<1>1. /\ r \in Seq(S) /\ Len(r) = Len(s) - 1
      /\ \A j \in 1..Len(s) - 1 : r[j] = IF j < i THEN s[j] ELSE s[j + 1]
  BY RemoveAtProperties
<1> HIDE DEF r
<1>2. ASSUME NEW j \in 1..Len(r)
      PROVE  \E k \in 1..Len(s) : k # i /\ r[j] = s[k]
  <2>1. CASE j < i
    BY <2>1, <1>1
  <2>2. CASE j >= i
    <3>1. j + 1 \in 1..Len(s) /\ j + 1 # i /\ r[j] = s[j + 1]
      BY <2>2, <1>1
    <3> QED BY <3>1
  <2> QED BY <2>1, <2>2
<1>3. ASSUME NEW k \in 1..Len(s), k # i
      PROVE  \E j \in 1..Len(r) : r[j] = s[k]
  <2>1. CASE k < i
    BY <2>1, <1>1
  <2>2. CASE k > i
    <3>1. k - 1 \in 1..Len(r) /\ r[k - 1] = s[k]
      BY <2>2, <1>1
    <3> QED BY <3>1
  <2> QED BY <1>3, <2>1, <2>2
<1>4. ASSUME IsInjective(s) PROVE IsInjective(r)
  <2> SUFFICES ASSUME NEW a \in 1..Len(r), NEW b \in 1..Len(r), r[a] = r[b]
               PROVE  a = b
    BY <1>1 DEF IsInjective
  <2> DEFINE pa == IF a < i THEN a ELSE a + 1
             pb == IF b < i THEN b ELSE b + 1
  <2>1. pa \in 1..Len(s) /\ pb \in 1..Len(s) /\ s[pa] = r[a] /\ s[pb] = r[b]
    BY <1>1
  <2>2. pa = pb
    BY <2>1, <1>4 DEF IsInjective
  <2> QED BY <2>2
<1>5. ASSUME IsInjective(s), NEW j \in 1..Len(r) PROVE r[j] # s[i]
  <2>1. PICK k \in 1..Len(s) : k # i /\ r[j] = s[k]
    BY <1>2
  <2> QED BY <2>1, <1>5 DEF IsInjective
<1> QED BY <1>2, <1>3, <1>4, <1>5 DEF r

\* The entries of a list after list_add_tail.
LEMMA AppendKeeps ==
  ASSUME NEW S, NEW s \in Seq(S), NEW e \in S
  PROVE  /\ Append(s, e) \in Seq(S)
         /\ Range(Append(s, e)) = Range(s) \cup {e}
         /\ IsInjective(s) /\ e \notin Range(s) => IsInjective(Append(s, e))
<1> DEFINE a == Append(s, e)
<1>1. /\ a \in Seq(S) /\ Len(a) = Len(s) + 1
      /\ \A i \in 1..Len(s) : a[i] = s[i]
      /\ a[Len(s) + 1] = e
  BY AppendProperties
<1> HIDE DEF a
<1>2. DOMAIN a = 1..Len(s) + 1 /\ DOMAIN s = 1..Len(s) /\ Len(s) \in Nat
  BY <1>1
<1>3. Range(a) = Range(s) \cup {e}
  BY <1>1, <1>2 DEF Range
<1>4. ASSUME IsInjective(s), e \notin Range(s) PROVE IsInjective(a)
  BY <1>1, <1>2, <1>4 DEF Range, IsInjective
<1> QED BY <1>1, <1>3, <1>4 DEF a

\* The entries of a list without repetition after list_del.
LEMMA RemoveAtRange ==
  ASSUME NEW S, NEW s \in Seq(S), NEW i \in 1..Len(s), IsInjective(s)
  PROVE  Range(RemoveAt(s, i)) = Range(s) \ {s[i]} /\ IsInjective(RemoveAt(s, i))
<1> DEFINE r == RemoveAt(s, i)
<1>1. /\ \A j \in 1..Len(r) : \E k \in 1..Len(s) : k # i /\ r[j] = s[k]
      /\ \A k \in 1..Len(s) : k # i => \E j \in 1..Len(r) : r[j] = s[k]
      /\ IsInjective(r) /\ r \in Seq(S)
  BY RemoveAtKeeps, RemoveAtProperties
<1> HIDE DEF r
<1>2. DOMAIN r = 1..Len(r) /\ DOMAIN s = 1..Len(s)
  BY <1>1
<1>3. ASSUME NEW j \in 1..Len(r) PROVE r[j] \in Range(s) \ {s[i]}
  <2>1. PICK k \in 1..Len(s) : k # i /\ r[j] = s[k]
    BY <1>1
  <2>2. s[k] # s[i]
    BY <1>2, <2>1 DEF IsInjective
  <2> QED BY <1>2, <2>1, <2>2 DEF Range
<1>4. ASSUME NEW k \in 1..Len(s), s[k] # s[i] PROVE s[k] \in Range(r)
  <2>1. PICK j \in 1..Len(r) : r[j] = s[k]
    BY <1>1, <1>4
  <2> QED BY <1>2, <2>1 DEF Range
<1>5. Range(r) = Range(s) \ {s[i]}
  BY <1>2, <1>3, <1>4 DEF Range
<1> QED BY <1>1, <1>5 DEF r

\* The entries of a list without repetition after its head is taken off.
LEMMA TailRange ==
  ASSUME NEW S, NEW s \in Seq(S), s # <<>>, IsInjective(s)
  PROVE  /\ Tail(s) \in Seq(S) /\ Head(s) \in Range(s)
         /\ Range(Tail(s)) = Range(s) \ {Head(s)} /\ IsInjective(Tail(s))
<1> DEFINE r == Tail(s)
<1>1. /\ r \in Seq(S) /\ Len(r) = Len(s) - 1 /\ Len(s) >= 1
      /\ \A i \in 1..Len(r) : r[i] = s[i + 1]
      /\ Head(s) = s[1]
  BY HeadTailProperties, EmptySeq
<1> HIDE DEF r
<1>2. DOMAIN r = 1..Len(s) - 1 /\ DOMAIN s = 1..Len(s) /\ Len(s) \in Nat
  BY <1>1
<1>9. ASSUME NEW j \in DOMAIN r
      PROVE  j + 1 \in DOMAIN s /\ j + 1 # 1 /\ r[j] = s[j + 1] /\ j \in Int
  BY <1>1, <1>2
<1>3. ASSUME NEW j \in DOMAIN r, NEW k \in DOMAIN r, r[j] = r[k] PROVE j = k
  <2>1. j + 1 = k + 1
    BY <1>3, <1>9 DEF IsInjective
  <2> QED BY <2>1, <1>9
<1>4. ASSUME NEW j \in DOMAIN r PROVE r[j] \in Range(s) /\ r[j] # s[1]
  <2>1. 1 \in DOMAIN s
    BY <1>1, <1>2
  <2> QED BY <2>1, <1>9 DEF Range, IsInjective
<1>5. ASSUME NEW k \in 1..Len(s), s[k] # s[1] PROVE s[k] \in Range(r)
  <2>1. k - 1 \in DOMAIN r /\ r[k - 1] = s[k]
    BY <1>1, <1>2, <1>5
  <2> QED BY <2>1 DEF Range
<1>6. Head(s) \in Range(s)
  BY <1>1, <1>2 DEF Range
<1>7. IsInjective(r) /\ Range(r) = Range(s) \ {s[1]}
  <2>1. IsInjective(r)
    BY <1>3 DEF IsInjective
  <2> QED BY <2>1, <1>2, <1>4, <1>5 DEF Range
<1> QED BY <1>1, <1>6, <1>7 DEF r

\* Max of a non-empty bounded set of naturals is its greatest element.
LEMMA MaxIsGreatest ==
  ASSUME NEW n \in Nat, NEW T \in SUBSET (0..n), T # {}
  PROVE  Max(T) \in T /\ \A y \in T : y <= Max(T)
<1> DEFINE U == {n - y : y \in T}
<1>0. ASSUME NEW y \in T PROVE y \in Nat /\ n - y \in Nat
  OBVIOUS
<1>1. U \in SUBSET Nat /\ U # {}
  BY <1>0
<1>2. PICK u \in U : \A v \in U : u <= v
  BY <1>1, Smallest
<1>3. PICK x \in T : u = n - x
  BY <1>2
<1>4. ASSUME NEW y \in T PROVE y <= x
  <2>1. n - x <= n - y
    BY <1>2, <1>3
  <2> QED BY <1>0, <2>1
<1>5. \E z \in T : \A y \in T : z >= y
  BY <1>0, <1>4
<1> QED BY <1>5 DEF Max

\* Two sequences of the same length with the same entries are equal.
LEMMA SameSeq ==
  ASSUME NEW S, NEW s \in Seq(S), NEW r \in Seq(S), Len(s) = Len(r),
         \A i \in 1..Len(s) : s[i] = r[i]
  PROVE  s = r
BY SeqEqual

\* InsertAt makes room for one entry.
LEMMA InsertAtProperties ==
  ASSUME NEW S, NEW s \in Seq(S), NEW i \in 1..Len(s) + 1, NEW e \in S
  PROVE  /\ InsertAt(s, i, e) \in Seq(S)
         /\ Len(InsertAt(s, i, e)) = Len(s) + 1
         /\ \A j \in 1..Len(s) + 1 :
              InsertAt(s, i, e)[j] = IF j < i THEN s[j] ELSE IF j = i THEN e ELSE s[j - 1]
<1> DEFINE a == SubSeq(s, 1, i - 1)
           b == SubSeq(s, i, Len(s))
           c == a \o <<e>>
           d == c \o b
<1>1. a \in Seq(S) /\ Len(a) = i - 1 /\ \A j \in 1..i - 1 : a[j] = s[j]
  BY SubSeqProperties
<1>2. b \in Seq(S) /\ Len(b) = Len(s) - i + 1 /\ \A j \in 1..Len(s) - i + 1 : b[j] = s[i + j - 1]
  <2>1. \A j \in i..Len(s) : s[j] \in S
    OBVIOUS
  <2> QED BY <2>1, SubSeqProperties
<1>3. <<e>> \in Seq(S) /\ Len(<<e>>) = 1 /\ <<e>>[1] = e
  OBVIOUS
<1> HIDE DEF a, b
<1>4. c \in Seq(S) /\ Len(c) = i
      /\ \A j \in 1..i : c[j] = IF j <= i - 1 THEN a[j] ELSE <<e>>[j - (i - 1)]
  <2>1. /\ c \in Seq(S) /\ Len(c) = Len(a) + Len(<<e>>)
        /\ \A j \in 1..Len(a) + Len(<<e>>) : c[j] = IF j <= Len(a) THEN a[j] ELSE <<e>>[j - Len(a)]
    BY <1>1, <1>3, ConcatProperties
  <2>2. Len(a) + Len(<<e>>) = i
    BY <1>1, <1>3
  <2> QED BY <1>1, <2>1, <2>2
<1> HIDE DEF c
<1>5. /\ d \in Seq(S) /\ Len(d) = Len(c) + Len(b)
      /\ \A j \in 1..Len(c) + Len(b) : d[j] = IF j <= Len(c) THEN c[j] ELSE b[j - Len(c)]
  BY <1>2, <1>4, ConcatProperties
<1>6. InsertAt(s, i, e) = d
  BY DEF InsertAt, a, b, c
<1> HIDE DEF d
<1>7. Len(d) = Len(s) + 1 /\ \A j \in 1..Len(s) + 1 : d[j] = IF j <= i THEN c[j] ELSE b[j - i]
  BY <1>2, <1>4, <1>5
<1>8. ASSUME NEW j \in 1..Len(s) + 1
      PROVE  d[j] = IF j < i THEN s[j] ELSE IF j = i THEN e ELSE s[j - 1]
  <2>1. CASE j < i
    <3>1. d[j] = c[j] /\ c[j] = a[j] /\ a[j] = s[j]
      BY <1>1, <1>4, <1>7, <2>1
    <3> QED BY <2>1, <3>1
  <2>2. CASE j = i
    <3>1. d[j] = c[i] /\ i - (i - 1) = 1 /\ c[i] = <<e>>[i - (i - 1)]
      BY <1>4, <1>7, <2>2
    <3> QED BY <1>3, <2>2, <3>1
  <2>3. CASE j > i
    <3>1. j - i \in 1..Len(s) - i + 1 /\ i + (j - i) - 1 = j - 1
      BY <2>3
    <3>2. d[j] = b[j - i] /\ b[j - i] = s[j - 1]
      BY <1>2, <1>7, <2>3, <3>1
    <3> QED BY <2>3, <3>2
  <2> QED BY <2>1, <2>2, <2>3
<1> QED BY <1>5, <1>6, <1>7, <1>8

\* The entries of a list after an insertion.
LEMMA InsertAtRange ==
  ASSUME NEW S, NEW s \in Seq(S), NEW i \in 1..Len(s) + 1, NEW e \in S
  PROVE  /\ Range(InsertAt(s, i, e)) = Range(s) \cup {e}
         /\ IsInjective(s) /\ e \notin Range(s) => IsInjective(InsertAt(s, i, e))
<1> DEFINE r == InsertAt(s, i, e)
<1>1. /\ r \in Seq(S) /\ Len(r) = Len(s) + 1
      /\ \A j \in 1..Len(s) + 1 : r[j] = IF j < i THEN s[j] ELSE IF j = i THEN e ELSE s[j - 1]
  BY InsertAtProperties
<1> HIDE DEF r
<1>2. DOMAIN r = 1..Len(s) + 1 /\ DOMAIN s = 1..Len(s) /\ Len(s) \in Nat
  BY <1>1
<1> DEFINE p(j) == IF j < i THEN j ELSE j - 1
<1>3. ASSUME NEW j \in DOMAIN r, j # i PROVE p(j) \in DOMAIN s /\ r[j] = s[p(j)]
  BY <1>1, <1>2, <1>3
<1>4. r[i] = e /\ i \in DOMAIN r
  BY <1>1, <1>2
<1>5. ASSUME NEW k \in DOMAIN s PROVE s[k] \in Range(r)
  <2>1. CASE k < i
    <3>1. k \in DOMAIN r /\ r[k] = s[k]
      BY <1>1, <1>2, <2>1
    <3> QED BY <3>1 DEF Range
  <2>2. CASE k >= i
    <3>1. k + 1 \in DOMAIN r /\ r[k + 1] = s[k]
      BY <1>1, <1>2, <2>2
    <3> QED BY <3>1 DEF Range
  <2> QED BY <1>2, <2>1, <2>2
<1>6. Range(r) = Range(s) \cup {e}
  BY <1>3, <1>4, <1>5 DEF Range
<1>7. ASSUME IsInjective(s), e \notin Range(s) PROVE IsInjective(r)
  <2> SUFFICES ASSUME NEW x \in DOMAIN r, NEW y \in DOMAIN r, r[x] = r[y] PROVE x = y
    BY DEF IsInjective
  <2>1. CASE x # i /\ y # i
    <3>1. p(x) = p(y)
      BY <1>3, <1>7, <2>1 DEF IsInjective
    <3> QED BY <1>2, <2>1, <3>1
  <2>2. CASE x = i /\ y # i
    BY <1>3, <1>4, <1>7, <2>2 DEF Range
  <2>3. CASE x # i /\ y = i
    BY <1>3, <1>4, <1>7, <2>3 DEF Range
  <2> QED BY <2>1, <2>2, <2>3
<1> QED BY <1>6, <1>7 DEF r

\* Front takes the last entry off.
LEMMA FrontProperties ==
  ASSUME NEW S, NEW s \in Seq(S), s # <<>>
  PROVE  /\ Front(s) \in Seq(S) /\ Len(Front(s)) = Len(s) - 1 /\ Len(s) >= 1 /\ Last(s) \in S
         /\ \A i \in 1..Len(s) - 1 : Front(s)[i] = s[i]
<1>1. Len(s) >= 1
  BY EmptySeq
<1>2. \A i \in 1..Len(s) - 1 : s[i] \in S
  OBVIOUS
<1>3. /\ SubSeq(s, 1, Len(s) - 1) \in Seq(S) /\ Len(SubSeq(s, 1, Len(s) - 1)) = Len(s) - 1
      /\ \A i \in 1..Len(s) - 1 : SubSeq(s, 1, Len(s) - 1)[i] = s[i]
  <2> DEFINE n == Len(s) - 1
  <2>1. n \in Nat
    BY <1>1
  <2> HIDE DEF n
  <2>2. /\ SubSeq(s, 1, n) \in Seq(S) /\ Len(SubSeq(s, 1, n)) = IF 1 <= n THEN n - 1 + 1 ELSE 0
        /\ \A i \in 1..n - 1 + 1 : SubSeq(s, 1, n)[i] = s[1 + i - 1]
    BY <1>2, <2>1, SubSeqProperties DEF n
  <2>3. Len(SubSeq(s, 1, n)) = n /\ \A i \in 1..n : SubSeq(s, 1, n)[i] = s[i]
    BY <2>1, <2>2
  <2> QED BY <2>2, <2>3 DEF n
<1>4. s[Len(s)] \in S
  BY <1>1
<1> QED BY <1>1, <1>3, <1>4 DEF Front, Last

\* The entries of a list without repetition after its last is taken off.
LEMMA FrontRange ==
  ASSUME NEW S, NEW s \in Seq(S), s # <<>>, IsInjective(s)
  PROVE  /\ Last(s) \in Range(s)
         /\ Range(Front(s)) = Range(s) \ {Last(s)} /\ IsInjective(Front(s))
<1> DEFINE r == Front(s)
<1>1. /\ r \in Seq(S) /\ Len(r) = Len(s) - 1 /\ Len(s) >= 1
      /\ \A i \in 1..Len(s) - 1 : r[i] = s[i]
  BY FrontProperties
<1> HIDE DEF r
<1>2. DOMAIN r = 1..Len(s) - 1 /\ DOMAIN s = 1..Len(s) /\ Len(s) \in Nat /\ Last(s) = s[Len(s)]
  BY <1>1 DEF Last
<1>3. IsInjective(r)
  BY <1>1, <1>2 DEF IsInjective
<1>4. Range(r) = Range(s) \ {s[Len(s)]}
  <2>1. ASSUME NEW i \in DOMAIN r PROVE r[i] \in Range(s) \ {s[Len(s)]}
    <3>1. i \in DOMAIN s /\ Len(s) \in DOMAIN s /\ i # Len(s) /\ r[i] = s[i]
      BY <1>1, <1>2
    <3> QED BY <3>1 DEF Range, IsInjective
  <2>2. ASSUME NEW i \in DOMAIN s, s[i] # s[Len(s)] PROVE s[i] \in Range(r)
    <3>1. i \in DOMAIN r /\ r[i] = s[i]
      BY <1>1, <1>2, <2>2
    <3> QED BY <3>1 DEF Range
  <2> QED BY <2>1, <2>2 DEF Range
<1>5. Last(s) \in Range(s)
  BY <1>1, <1>2 DEF Range
<1> QED BY <1>2, <1>3, <1>4, <1>5 DEF r

\* Reverse turns a sequence round.
LEMMA ReverseProperties ==
  ASSUME NEW S, NEW s \in Seq(S)
  PROVE  /\ Reverse(s) \in Seq(S) /\ Len(Reverse(s)) = Len(s)
         /\ \A i \in 1..Len(s) : Reverse(s)[i] = s[(Len(s) - i) + 1]
<1>1. \A i \in 1..Len(s) : (Len(s) - i) + 1 \in 1..Len(s)
  OBVIOUS
<1>2. \A i \in 1..Len(s) : s[(Len(s) - i) + 1] \in S
  BY <1>1
<1>3. Reverse(s) \in [1..Len(s) -> S]
  BY <1>2 DEF Reverse
<1>4. Len(s) \in Nat
  OBVIOUS
<1>5. Reverse(s) \in Seq(S) /\ Len(Reverse(s)) = Len(s)
  BY <1>3, <1>4, SeqDef, LenProperties
<1> QED BY <1>5 DEF Reverse

\* An insertion seen from the other end.
LEMMA ReverseInsertAt ==
  ASSUME NEW S, NEW s \in Seq(S), NEW i \in 1..Len(s) + 1, NEW e \in S
  PROVE  Reverse(InsertAt(s, i, e)) = InsertAt(Reverse(s), (Len(s) - i) + 2, e)
<1> DEFINE n == Len(s)
           k == (n - i) + 2
           a == InsertAt(s, i, e)
           ra == Reverse(a)
           r == Reverse(s)
           b == InsertAt(r, k, e)
<1>1. n \in Nat /\ k \in 1..n + 1 /\ i \in 1..n + 1
  OBVIOUS
<1>2. /\ a \in Seq(S) /\ Len(a) = n + 1
      /\ \A j \in 1..n + 1 : a[j] = IF j < i THEN s[j] ELSE IF j = i THEN e ELSE s[j - 1]
  BY InsertAtProperties
<1>3. r \in Seq(S) /\ Len(r) = n /\ \A j \in 1..n : r[j] = s[(n - j) + 1]
  BY ReverseProperties
<1> HIDE DEF a, r
<1>4. ra \in Seq(S) /\ Len(ra) = n + 1 /\ \A j \in 1..n + 1 : ra[j] = a[((n + 1) - j) + 1]
  BY <1>2, ReverseProperties
<1>5. /\ b \in Seq(S) /\ Len(b) = n + 1
      /\ \A j \in 1..n + 1 : b[j] = IF j < k THEN r[j] ELSE IF j = k THEN e ELSE r[j - 1]
  <2>1. k \in 1..Len(r) + 1
    BY <1>1, <1>3
  <2>2. /\ b \in Seq(S) /\ Len(b) = Len(r) + 1
        /\ \A j \in 1..Len(r) + 1 : b[j] = IF j < k THEN r[j] ELSE IF j = k THEN e ELSE r[j - 1]
    <3> HIDE DEF k
    <3> QED BY <1>3, <2>1, InsertAtProperties
  <2> QED BY <1>3, <2>2
<1> HIDE DEF ra, b, n
<1>6. ASSUME NEW j \in 1..n + 1 PROVE ra[j] = b[j]
  <2> DEFINE x == ((n + 1) - j) + 1
  <2>1. x \in 1..n + 1 /\ ra[j] = a[x]
    BY <1>1, <1>4
  <2>2. CASE j < k
    <3>1. x > i /\ j \in 1..n /\ x - 1 = (n - j) + 1
      BY <1>1, <2>2
    <3>2. a[x] = s[x - 1]
      BY <1>1, <1>2, <2>1, <3>1
    <3>3. b[j] = r[j]
      BY <1>5, <2>2
    <3>4. r[j] = s[(n - j) + 1]
      BY <1>3, <3>1
    <3> QED BY <2>1, <3>1, <3>2, <3>3, <3>4
  <2>3. CASE j = k
    <3>1. x = i
      BY <1>1, <2>3
    <3> QED BY <1>2, <1>5, <2>1, <2>3, <3>1
  <2>4. CASE j > k
    <3>1. x < i /\ j - 1 \in 1..n /\ (n - (j - 1)) + 1 = x
      BY <1>1, <2>4
    <3>2. a[x] = s[x]
      BY <1>1, <1>2, <2>1, <3>1
    <3>3. b[j] = r[j - 1]
      BY <1>1, <1>5, <2>4
    <3>4. r[j - 1] = s[(n - (j - 1)) + 1]
      BY <1>3, <3>1
    <3> QED BY <2>1, <3>1, <3>2, <3>3, <3>4
  <2> QED BY <1>1, <2>2, <2>3, <2>4
<1>7. ra = b
  BY <1>4, <1>5, <1>6, SameSeq
<1> QED BY <1>7 DEF ra, b, a, r, n

\* The last entry seen from the other end.
LEMMA ReverseFront ==
  ASSUME NEW S, NEW s \in Seq(S), s # <<>>
  PROVE  /\ Reverse(s) # <<>> /\ Head(Reverse(s)) = Last(s)
         /\ Tail(Reverse(s)) = Reverse(Front(s))
<1> DEFINE n == Len(s)
           r == Reverse(s)
           f == Front(s)
           t == Tail(r)
           rf == Reverse(f)
<1>1. /\ f \in Seq(S) /\ Len(f) = n - 1 /\ n >= 1 /\ n \in Nat
      /\ \A i \in 1..n - 1 : f[i] = s[i]
  BY FrontProperties
<1>2. r \in Seq(S) /\ Len(r) = n /\ \A i \in 1..n : r[i] = s[(n - i) + 1]
  BY ReverseProperties
<1> HIDE DEF r, f
<1>3. r # <<>>
  BY <1>1, <1>2
<1>4. t \in Seq(S) /\ Len(t) = n - 1 /\ Head(r) = r[1] /\ \A i \in 1..n - 1 : t[i] = r[i + 1]
  BY <1>2, <1>3, HeadTailProperties
<1>5. rf \in Seq(S) /\ Len(rf) = n - 1 /\ \A i \in 1..n - 1 : rf[i] = f[((n - 1) - i) + 1]
  BY <1>1, ReverseProperties
<1> HIDE DEF t, rf, n
<1>6. ASSUME NEW i \in 1..n - 1 PROVE t[i] = rf[i]
  <2>1. /\ i + 1 \in 1..n /\ (n - (i + 1)) + 1 = ((n - 1) - i) + 1
        /\ ((n - 1) - i) + 1 \in 1..n - 1
    BY <1>1
  <2>2. t[i] = s[((n - 1) - i) + 1]
    BY <1>2, <1>4, <2>1
  <2>3. rf[i] = s[((n - 1) - i) + 1]
    BY <1>1, <1>5, <2>1
  <2> QED BY <2>2, <2>3
<1>7. t = rf
  BY <1>4, <1>5, <1>6, SameSeq
<1>8. r[1] = s[n]
  <2>1. 1 \in 1..n /\ (n - 1) + 1 = n
    BY <1>1
  <2> QED BY <1>2, <2>1
<1> QED BY <1>3, <1>4, <1>7, <1>8 DEF n, r, f, t, rf, Last
=============================================================================
