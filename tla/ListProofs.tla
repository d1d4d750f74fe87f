----------------------------- MODULE ListProofs -----------------------------
(***************************************************************************)
(* Lemmas about the lists of the libraries: the C code links a record into *)
(* a ring and unlinks it, the models use InsertAt, Append and RemoveFirst. *)
(***************************************************************************)
EXTENDS Integers, Sequences, SequencesExt, SequenceTheorems, FiniteSetTheorems,
        WellFoundedInduction, TLAPS

\* A list holds nothing twice.
Distinct(s) == \A m, n \in 1 .. Len(s) : m # n => s[m] # s[n]

\* The least of some natural numbers is one of them, and not above the others.
LEMMA MinIsOne ==
  ASSUME NEW S \in SUBSET Nat, S # {}
  PROVE  Min(S) \in S /\ \A y \in S : Min(S) <= y
<1> DEFINE R == {ss \in Nat \X Nat : ss[1] < ss[2]}
<1>0. R = OpToRel(<, Nat)
  BY Zenon DEF OpToRel
<1>1. IsWellFoundedOn(R, Nat)
  BY <1>0, NatLessThanWellFounded, Zenon
<1>2. PICK x \in S : \A y \in S : ~(<<y, x>> \in R)
  <2> HIDE DEF R
  <2>1. QED
    BY <1>1, WFMin
<1>3. ASSUME NEW y \in S PROVE x <= y
  <2>1. x \in Nat /\ y \in Nat
    OBVIOUS
  <2>2. y < x => <<y, x>> \in R
    BY <2>1
  <2>3. QED
    <3> HIDE DEF R
    <3>1. ~(y < x)
      BY <1>2, <2>2
    <3>2. QED
      BY <2>1, <3>1
<1>4. QED
  BY <1>3 DEF Min

\* What unlinking the record at one place leaves.
LEMMA RemoveAtShape ==
  ASSUME NEW S, NEW s \in Seq(S), NEW p \in 1 .. Len(s)
  PROVE  /\ RemoveAt(s, p) \in Seq(S)
         /\ Len(RemoveAt(s, p)) = Len(s) - 1
         /\ \A j \in 1 .. Len(s) - 1 :
              RemoveAt(s, p)[j] = IF j < p THEN s[j] ELSE s[j + 1]
<1> DEFINE a == SubSeq(s, 1, p - 1)
           b == SubSeq(s, p + 1, Len(s))
<1>1. a \in Seq(S) /\ Len(a) = p - 1 /\ \A j \in 1 .. p - 1 : a[j] = s[j]
  OBVIOUS
<1>2. b \in Seq(S) /\ Len(b) = Len(s) - p /\ \A j \in 1 .. Len(s) - p : b[j] = s[p + j]
  OBVIOUS
<1>3. RemoveAt(s, p) = a \o b
  BY DEF RemoveAt
<1> HIDE DEF a, b
<1>4. /\ a \o b \in Seq(S) /\ Len(a \o b) = Len(a) + Len(b)
      /\ \A j \in 1 .. Len(a) + Len(b) :
           (a \o b)[j] = IF j <= Len(a) THEN a[j] ELSE b[j - Len(a)]
  BY <1>1, <1>2, ConcatProperties
<1> DEFINE n == Len(s)
<1>5. n \in Nat /\ p \in 1 .. n /\ Len(a) + Len(b) = n - 1
  BY <1>1, <1>2
<1> HIDE DEF n
<1>6. ASSUME NEW j \in 1 .. n - 1
      PROVE  (a \o b)[j] = IF j < p THEN s[j] ELSE s[j + 1]
  <2>1. CASE j < p
    <3>1. j \in 1 .. p - 1 /\ j \in 1 .. Len(a) + Len(b) /\ j <= Len(a)
      BY <1>1, <1>5, <2>1
    <3>2. QED
      BY <1>1, <1>4, <2>1, <3>1
  <2>2. CASE j >= p
    <3>1. /\ j - Len(a) \in 1 .. n - p /\ p + (j - Len(a)) = j + 1
          /\ j \in 1 .. Len(a) + Len(b) /\ ~(j <= Len(a)) /\ ~(j < p)
      BY <1>1, <1>5, <2>2
    <3>2. (a \o b)[j] = b[j - Len(a)]
      BY <1>4, <3>1
    <3>3. b[j - Len(a)] = s[j + 1]
      BY <1>2, <3>1 DEF n
    <3>4. QED
      BY <3>1, <3>2, <3>3
  <2>3. QED
    BY <1>5, <2>1, <2>2
<1>7. QED
  BY <1>3, <1>4, <1>5, <1>6 DEF n

\* What linking a record in at one place gives.
LEMMA InsertAtShape ==
  ASSUME NEW S, NEW s \in Seq(S), NEW p \in 1 .. Len(s) + 1, NEW e \in S
  PROVE  /\ InsertAt(s, p, e) \in Seq(S)
         /\ Len(InsertAt(s, p, e)) = Len(s) + 1
         /\ \A j \in 1 .. Len(s) + 1 :
              InsertAt(s, p, e)[j] = IF j < p THEN s[j] ELSE IF j = p THEN e ELSE s[j - 1]
<1> DEFINE a == SubSeq(s, 1, p - 1)
           b == SubSeq(s, p, Len(s))
           c == a \o <<e>>
<1>1. a \in Seq(S) /\ Len(a) = p - 1 /\ \A j \in 1 .. p - 1 : a[j] = s[j]
  OBVIOUS
<1>2. b \in Seq(S) /\ Len(b) = Len(s) - p + 1 /\ \A j \in 1 .. Len(s) - p + 1 : b[j] = s[p + j - 1]
  OBVIOUS
<1>3. InsertAt(s, p, e) = c \o b
  BY DEF InsertAt
<1> HIDE DEF a, b
<1>4. /\ c \in Seq(S) /\ Len(c) = p
      /\ \A j \in 1 .. p : c[j] = IF j < p THEN s[j] ELSE e
  BY <1>1
<1> HIDE DEF c
<1>5. /\ c \o b \in Seq(S) /\ Len(c \o b) = Len(c) + Len(b)
      /\ \A j \in 1 .. Len(c) + Len(b) :
           (c \o b)[j] = IF j <= Len(c) THEN c[j] ELSE b[j - Len(c)]
  BY <1>2, <1>4, ConcatProperties
<1> DEFINE n == Len(s)
<1>6. n \in Nat /\ p \in 1 .. n + 1 /\ Len(c) + Len(b) = n + 1
  BY <1>2, <1>4
<1> HIDE DEF n
<1>7. ASSUME NEW j \in 1 .. n + 1
      PROVE  (c \o b)[j] = IF j < p THEN s[j] ELSE IF j = p THEN e ELSE s[j - 1]
  <2>1. CASE j <= p
    <3>1. j \in 1 .. p /\ j \in 1 .. Len(c) + Len(b) /\ j <= Len(c) /\ (j < p \/ j = p)
      BY <1>4, <1>6, <2>1
    <3>2. (c \o b)[j] = c[j]
      BY <1>5, <3>1
    <3>3. QED
      BY <1>4, <3>1, <3>2
  <2>2. CASE j > p
    <3>1. /\ j - Len(c) \in 1 .. n - p + 1 /\ p + (j - Len(c)) - 1 = j - 1
          /\ j \in 1 .. Len(c) + Len(b) /\ ~(j <= Len(c)) /\ ~(j < p) /\ j # p
      BY <1>4, <1>6, <2>2
    <3>2. (c \o b)[j] = b[j - Len(c)]
      BY <1>5, <3>1
    <3>3. b[j - Len(c)] = s[j - 1]
      BY <1>2, <3>1 DEF n
    <3>4. QED
      BY <3>1, <3>2, <3>3
  <2>3. QED
    BY <1>6, <2>1, <2>2
<1>8. QED
  BY <1>3, <1>5, <1>6, <1>7 DEF n

\* RemoveFirst of a record that is on the list.
LEMMA RemoveFirstShape ==
  ASSUME NEW S, NEW s \in Seq(S), NEW e \in Range(s)
  PROVE  \E p \in 1 .. Len(s) : s[p] = e /\ RemoveFirst(s, e) = RemoveAt(s, p)
<1> DEFINE I == {i \in 1 .. Len(s) : s[i] = e}
<1>1. \E i \in 1 .. Len(s) : s[i] = e
  BY DEF Range
<1>2. Min(I) \in I
  <2>1. I \in SUBSET Nat /\ I # {}
    BY <1>1
  <2>2. QED
    BY <2>1, MinIsOne
<1>3. RemoveFirst(s, e) = RemoveAt(s, Min(I))
  BY <1>1 DEF RemoveFirst, SelectInSeq
<1>4. QED
  BY <1>2, <1>3

\* The records on a list are those at its places.
LEMMA OnList ==
  ASSUME NEW S, NEW s \in Seq(S), NEW x
  PROVE  x \in Range(s) <=> \E j \in 1 .. Len(s) : s[j] = x
BY DEF Range

\* The first record of a list that is not empty.
LEMMA HeadIsOnList ==
  ASSUME NEW S, NEW s \in Seq(S), s # <<>>
  PROVE  Head(s) \in Range(s) /\ Head(s) \in S
BY DEF Range

\* A list that is linked without repetition: what is unlinked is gone, the rest
\* stays, once each and in order.
LEMMA Unlinked ==
  ASSUME NEW S, NEW s \in Seq(S), NEW e, Distinct(s)
  PROVE  /\ RemoveFirst(s, e) \in Seq(S)
         /\ Distinct(RemoveFirst(s, e))
         /\ Range(RemoveFirst(s, e)) = Range(s) \ {e}
<1> DEFINE t == RemoveFirst(s, e)
<1>1. CASE e \notin Range(s)
  <2>1. t = s
    BY <1>1 DEF RemoveFirst, Range
  <2>2. QED
    BY <1>1, <2>1
<1>2. CASE e \in Range(s)
  <2>1. PICK p \in 1 .. Len(s) : s[p] = e /\ t = RemoveAt(s, p)
    BY <1>2, RemoveFirstShape
  <2>2. /\ t \in Seq(S) /\ Len(t) = Len(s) - 1
        /\ \A j \in 1 .. Len(s) - 1 : t[j] = IF j < p THEN s[j] ELSE s[j + 1]
    BY <2>1, RemoveAtShape
  <2> HIDE DEF t
  <2>3. Distinct(t)
    <3> SUFFICES ASSUME NEW m \in 1 .. Len(t), NEW n \in 1 .. Len(t), m # n PROVE t[m] # t[n]
      BY DEF Distinct
    <3>1. QED
      BY <2>2 DEF Distinct
  <2>4. ASSUME NEW j \in 1 .. Len(t) PROVE t[j] \in Range(s) \ {e}
    <3>1. PICK k \in 1 .. Len(s) : k # p /\ t[j] = s[k]
      <4>1. CASE j < p
        BY <2>2, <4>1
      <4>2. CASE j >= p
        <5>1. j + 1 \in 1 .. Len(s) /\ j + 1 # p /\ t[j] = s[j + 1]
          BY <2>2, <4>2
        <5>2. QED
          BY <5>1
      <4>3. QED
        BY <2>2, <4>1, <4>2
    <3>2. QED
      BY <2>1, <3>1, OnList DEF Distinct
  <2>5. ASSUME NEW j \in 1 .. Len(s), s[j] # e PROVE s[j] \in Range(t)
    <3>1. CASE j < p
      BY <2>1, <2>2, <3>1 DEF Range
    <3>2. CASE j > p
      <4>1. j - 1 \in 1 .. Len(t) /\ t[j - 1] = s[j]
        BY <2>1, <2>2, <3>2
      <4>2. QED
        BY <2>2, <4>1 DEF Range
    <3>3. QED
      BY <2>1, <2>5, <3>1, <3>2
  <2>6. Range(t) = Range(s) \ {e}
    <3>1. \A x \in Range(t) : x \in Range(s) \ {e}
      BY <2>2, <2>4, OnList
    <3>2. \A x \in Range(s) \ {e} : x \in Range(t)
      BY <2>5, OnList
    <3>3. QED
      BY <3>1, <3>2
  <2>7. QED
    BY <2>2, <2>3, <2>6 DEF t
<1>3. QED
  BY <1>1, <1>2

\* A record that is not on the list is linked in once.
LEMMA Linked ==
  ASSUME NEW S, NEW s \in Seq(S), NEW p \in 1 .. Len(s) + 1, NEW e \in S,
         Distinct(s), e \notin Range(s)
  PROVE  /\ InsertAt(s, p, e) \in Seq(S)
         /\ Distinct(InsertAt(s, p, e))
         /\ Range(InsertAt(s, p, e)) = Range(s) \cup {e}
<1> DEFINE t == InsertAt(s, p, e)
<1>1. /\ t \in Seq(S) /\ Len(t) = Len(s) + 1
      /\ \A j \in 1 .. Len(s) + 1 : t[j] = IF j < p THEN s[j] ELSE IF j = p THEN e ELSE s[j - 1]
  BY InsertAtShape
<1> HIDE DEF t
<1> DEFINE n == Len(s)
<1>2. n \in Nat /\ p \in 1 .. n + 1 /\ DOMAIN s = 1 .. n /\ DOMAIN t = 1 .. n + 1
  BY <1>1
<1>3. /\ Len(t) = n + 1
      /\ \A j \in 1 .. n + 1 : t[j] = IF j < p THEN s[j] ELSE IF j = p THEN e ELSE s[j - 1]
      /\ \A j, k \in 1 .. n : j # k => s[j] # s[k]
      /\ \A j \in 1 .. n : s[j] # e
  BY <1>1, OnList DEF Distinct
<1> HIDE DEF n
<1>4. ASSUME NEW j \in 1 .. n + 1, j # p
      PROVE  \E k \in 1 .. n : t[j] = s[k] /\ k = IF j < p THEN j ELSE j - 1
  <2>1. CASE j < p
    BY <1>2, <1>3, <2>1
  <2>2. CASE j > p
    <3>1. j - 1 \in 1 .. n /\ t[j] = s[j - 1]
      BY <1>2, <1>3, <2>2
    <3>2. QED
      BY <1>2, <2>2, <3>1
  <2>3. QED
    BY <1>2, <1>4, <2>1, <2>2
<1>5. t[p] = e
  BY <1>2, <1>3
<1>6. ASSUME NEW j \in 1 .. n + 1, NEW k \in 1 .. n + 1, j # k PROVE t[j] # t[k]
  <2>1. CASE j = p \/ k = p
    BY <1>3, <1>4, <1>5, <1>6, <2>1
  <2>2. CASE j # p /\ k # p
    <3>1. PICK x \in 1 .. n : t[j] = s[x] /\ x = IF j < p THEN j ELSE j - 1
      BY <1>4, <2>2
    <3>2. PICK y \in 1 .. n : t[k] = s[y] /\ y = IF k < p THEN k ELSE k - 1
      BY <1>4, <2>2
    <3>3. x # y
      BY <1>2, <1>6, <2>2, <3>1, <3>2
    <3>4. QED
      BY <1>3, <3>1, <3>2, <3>3
  <2>3. QED
    BY <2>1, <2>2
<1>7. Distinct(t)
  BY <1>3, <1>6 DEF Distinct
<1>8. ASSUME NEW j \in 1 .. n PROVE \E k \in 1 .. n + 1 : t[k] = s[j]
  <2>1. CASE j < p
    BY <1>2, <1>3, <2>1
  <2>2. CASE j >= p
    <3>1. /\ j + 1 \in 1 .. n + 1 /\ ~(j + 1 < p) /\ j + 1 # p /\ (j + 1) - 1 = j
      BY <1>2, <2>2
    <3>2. t[j + 1] = s[j]
      BY <1>3, <3>1
    <3>3. QED
      BY <3>1, <3>2
  <2>3. QED
    BY <1>2, <2>1, <2>2
<1>9. Range(t) = Range(s) \cup {e}
  <2>1. \A x \in Range(t) : x \in Range(s) \cup {e}
    BY <1>2, <1>4, <1>5 DEF Range
  <2>2. \A x \in Range(s) : x \in Range(t)
    BY <1>2, <1>8 DEF Range
  <2>3. e \in Range(t)
    BY <1>2, <1>5 DEF Range
  <2>4. QED
    BY <2>1, <2>2, <2>3
<1>10. QED
  BY <1>1, <1>7, <1>9 DEF t

\* The same at the end of the list.
LEMMA Appended ==
  ASSUME NEW S, NEW s \in Seq(S), NEW e \in S, Distinct(s), e \notin Range(s)
  PROVE  /\ Append(s, e) \in Seq(S)
         /\ Distinct(Append(s, e))
         /\ Range(Append(s, e)) = Range(s) \cup {e}
<1> DEFINE t == Append(s, e)
<1>1. /\ t \in Seq(S) /\ Len(t) = Len(s) + 1
      /\ \A j \in 1 .. Len(s) + 1 : t[j] = IF j <= Len(s) THEN s[j] ELSE e
  OBVIOUS
<1> HIDE DEF t
<1>2. \A j \in 1 .. Len(s) : s[j] # e
  BY DEF Range
<1>3. Distinct(t)
  BY <1>1, <1>2 DEF Distinct
<1>4. Range(t) = Range(s) \cup {e}
  <2>1. \A j \in 1 .. Len(t) : t[j] \in Range(s) \cup {e}
    BY <1>1 DEF Range
  <2>2. \A j \in 1 .. Len(s) : s[j] \in Range(t)
    BY <1>1 DEF Range
  <2>3. e \in Range(t)
    BY <1>1 DEF Range
  <2>4. QED
    BY <1>1, <2>1, <2>2, <2>3 DEF Range
<1>5. QED
  BY <1>1, <1>3, <1>4 DEF t

\* What stands at a place of a list.
LEMMA AtPlace ==
  ASSUME NEW S, NEW s \in Seq(S), NEW j \in 1 .. Len(s)
  PROVE  s[j] \in Range(s) /\ s[j] \in S
BY DEF Range

\* What comes in front of a list that does not have it.
LEMMA Prepended ==
  ASSUME NEW S, NEW s \in Seq(S), NEW e \in S, Distinct(s), e \notin Range(s)
  PROVE  /\ Cons(e, s) \in Seq(S)
         /\ Distinct(Cons(e, s))
         /\ Range(Cons(e, s)) = Range(s) \cup {e}
<1> DEFINE t == Cons(e, s)
<1>1. /\ t \in Seq(S) /\ Len(t) = Len(s) + 1
      /\ \A j \in 1 .. Len(s) + 1 : t[j] = IF j = 1 THEN e ELSE s[j - 1]
  BY DEF Cons
<1> HIDE DEF t
<1>2. \A j \in 1 .. Len(s) : s[j] # e
  BY DEF Range
<1>3. Distinct(t)
  <2>1. SUFFICES ASSUME NEW m \in 1 .. Len(t), NEW n \in 1 .. Len(t), m # n
                 PROVE  t[m] # t[n]
    BY DEF Distinct
  <2>2. m \in 1 .. Len(s) + 1 /\ n \in 1 .. Len(s) + 1
    BY <1>1
  <2>3. m # 1 => m - 1 \in 1 .. Len(s)
    BY <2>2
  <2>4. n # 1 => n - 1 \in 1 .. Len(s)
    BY <2>2
  <2>5. CASE m = 1
    BY <1>1, <1>2, <2>1, <2>2, <2>4, <2>5
  <2>6. CASE n = 1
    BY <1>1, <1>2, <2>1, <2>2, <2>3, <2>6
  <2>7. CASE m # 1 /\ n # 1
    <3>1. t[m] = s[m - 1] /\ t[n] = s[n - 1] /\ m - 1 # n - 1
      BY <1>1, <2>1, <2>2, <2>7
    <3>2. QED
      BY <2>3, <2>4, <2>7, <3>1 DEF Distinct
  <2>8. QED
    BY <2>5, <2>6, <2>7
<1>4. Range(t) = Range(s) \cup {e}
  <2>1. ASSUME NEW x \in Range(t) PROVE x \in Range(s) \cup {e}
    <3>1. PICK j \in 1 .. Len(s) + 1 : t[j] = x
      BY <1>1 DEF Range
    <3>2. j # 1 => j - 1 \in 1 .. Len(s)
      OBVIOUS
    <3>3. QED
      BY <1>1, <3>1, <3>2 DEF Range
  <2>2. ASSUME NEW x \in Range(s) PROVE x \in Range(t)
    <3>1. PICK j \in 1 .. Len(s) : s[j] = x
      BY DEF Range
    <3>2. j + 1 \in 1 .. Len(s) + 1 /\ j + 1 # 1 /\ (j + 1) - 1 = j
      OBVIOUS
    <3>3. t[j + 1] = x /\ j + 1 \in DOMAIN t
      BY <1>1, <3>1, <3>2
    <3>4. QED
      BY <3>3 DEF Range
  <2>3. 1 \in DOMAIN t /\ t[1] = e
    BY <1>1
  <2>4. QED
    BY <2>1, <2>2, <2>3 DEF Range
<1>5. QED
  BY <1>1, <1>3, <1>4 DEF t

\* A list that holds nothing twice is as long as the set of what it holds is large.
LEMMA DistinctCount ==
  ASSUME NEW S, NEW s \in Seq(S), Distinct(s)
  PROVE  Cardinality(Range(s)) = Len(s)
<1>1. s \in [1 .. Len(s) -> Range(s)] /\ Len(s) \in Nat
  BY DEF Range
<1>2. s \in Bijection(1 .. Len(s), Range(s))
  <2>1. s \in Injection(1 .. Len(s), Range(s))
    BY <1>1 DEF Injection, IsInjective, Distinct
  <2>2. s \in Surjection(1 .. Len(s), Range(s))
    BY <1>1 DEF Surjection, Range
  <2>3. QED
    BY <2>1, <2>2 DEF Bijection
<1>3. ExistsBijection(1 .. Len(s), Range(s))
  BY <1>2 DEF ExistsBijection
<1>4. QED
  BY <1>1, <1>3, FS_CountingElements

-----------------------------------------------------------------------------
(***************************************************************************)
(* The list of a link structure of the handle library (HandleLink) with N  *)
(* records, kept in their next and prev fields, and the calls whose        *)
(* callbacks run while it is walked.                                       *)
(***************************************************************************)
Recs(N) == 1 .. N
LinkFlags == {"ACTIVE", "LINKED", "PARSING", "FREEING"}
Ctrls(N) == [Recs(N) -> [next : 0 .. N, prev : 0 .. N, flags : SUBSET LinkFlags]]
HLinks(N) == [head : 0 .. N, tail : 0 .. N, count : Nat,
              flags : SUBSET {"PARSING", "FREE_ALL"}]

\* The records of s, in that order, are the list of the link structure h.
IsList(N, s, c, h) ==
  /\ s \in Seq(Recs(N)) /\ Distinct(s) /\ h.count = Len(s)
  /\ h.head = IF Len(s) = 0 THEN 0 ELSE s[1]
  /\ h.tail = IF Len(s) = 0 THEN 0 ELSE s[Len(s)]
  /\ \A k \in 1 .. Len(s) : /\ c[s[k]].next = IF k = Len(s) THEN 0 ELSE s[k + 1]
                            /\ c[s[k]].prev = IF k = 1 THEN 0 ELSE s[k - 1]
  /\ \A e \in Recs(N) : "LINKED" \in c[e].flags <=> \E k \in 1 .. Len(s) : s[k] = e

\* A list does not depend on the other flags, nor on records that are not on it.
LEMMA ListKeeps ==
  ASSUME NEW N \in Nat, NEW c \in Ctrls(N), NEW h \in HLinks(N), NEW s, IsList(N, s, c, h), NEW c2, NEW h2,
         h2.head = h.head, h2.tail = h.tail, h2.count = h.count,
         \A e \in Recs(N) : "LINKED" \in c2[e].flags <=> "LINKED" \in c[e].flags,
         \A e \in Recs(N) : "LINKED" \in c[e].flags => c2[e].next = c[e].next /\ c2[e].prev = c[e].prev
  PROVE  IsList(N, s, c2, h2)
<1>1. ASSUME NEW k \in 1 .. Len(s)
      PROVE  s[k] \in Recs(N) /\ "LINKED" \in c[s[k]].flags
  BY DEF IsList
<1>2. ASSUME NEW k \in 1 .. Len(s)
      PROVE  c2[s[k]].next = c[s[k]].next /\ c2[s[k]].prev = c[s[k]].prev
  BY <1>1
<1>3. QED
  BY <1>2 DEF IsList

\* The records and the link structure when u_handle_link has put record e at the end.
CtrlsIn(N, c, h, e) ==
  [j \in Recs(N) |->
     IF j = e THEN [next |-> 0, prev |-> h.tail, flags |-> c[e].flags \cup {"LINKED"}]
     ELSE IF j = h.tail THEN [c[j] EXCEPT !.next = e] ELSE c[j]]

HLinkIn(h, e) ==
  [h EXCEPT !.head = IF h.tail = 0 THEN e ELSE @, !.tail = e, !.count = @ + 1]

\* u_handle_link puts the record at the end.
LEMMA ListLinks ==
  ASSUME NEW N \in Nat, NEW c \in Ctrls(N), NEW h \in HLinks(N), NEW s, IsList(N, s, c, h),
         NEW e \in Recs(N), "LINKED" \notin c[e].flags
  PROVE  /\ CtrlsIn(N, c, h, e) \in Ctrls(N) /\ HLinkIn(h, e) \in HLinks(N)
         /\ IsList(N, Append(s, e), CtrlsIn(N, c, h, e), HLinkIn(h, e))
<1> DEFINE t == Append(s, e)
           c2 == CtrlsIn(N, c, h, e)
           h2 == HLinkIn(h, e)
           n == Len(s)
<1>1. /\ s \in Seq(Recs(N)) /\ n \in Nat /\ Distinct(s) /\ h.count = n
      /\ \A k \in 1 .. n : s[k] \in Recs(N) /\ s[k] # e
  BY DEF IsList
<1>2. t \in Seq(Recs(N)) /\ Len(t) = n + 1 /\ t[n + 1] = e /\ \A k \in 1 .. n : t[k] = s[k]
  BY <1>1
<1>3. Distinct(t)
  BY <1>1, Appended DEF Range
<1>4. /\ n = 0 => h.tail = 0 /\ h.head = 0
      /\ n # 0 => h.tail = s[n] /\ h.head = s[1] /\ h.tail \in Recs(N) /\ h.tail # e /\ h.tail # 0
  BY <1>1 DEF IsList, Recs
<1> HIDE DEF t, n, c2, h2
<1>5. /\ c2 \in Ctrls(N)
      /\ h2 \in HLinks(N)
  <2>1. h.tail \in 0 .. N /\ e \in 0 .. N
    BY DEF HLinks, Recs
  <2>2. c2 \in Ctrls(N)
    <3>1. ASSUME NEW j \in Recs(N)
          PROVE  c2[j] \in [next : 0 .. N, prev : 0 .. N, flags : SUBSET LinkFlags]
      <4>1. 0 \in 0 .. N
        OBVIOUS
      <4>2. c[j] \in [next : 0 .. N, prev : 0 .. N, flags : SUBSET LinkFlags]
            /\ c[e].flags \cup {"LINKED"} \in SUBSET LinkFlags
        BY DEF Ctrls, LinkFlags
      <4>3. QED
        BY <2>1, <4>1, <4>2 DEF CtrlsIn, c2
    <3>2. QED
      BY <3>1 DEF Ctrls, CtrlsIn, c2
  <2>3. h2 \in HLinks(N)
    <3>1. h.count + 1 \in Nat
      BY DEF HLinks
    <3>2. (IF h.tail = 0 THEN e ELSE h.head) \in 0 .. N
      BY <2>1 DEF HLinks
    <3>3. QED
      BY <2>1, <3>1, <3>2 DEF HLinks, HLinkIn, h2
  <2>4. QED
    BY <2>2, <2>3
<1>6. /\ h2.count = n + 1 /\ h2.tail = e /\ h2.head = IF n = 0 THEN e ELSE s[1]
  BY <1>1, <1>4 DEF HLinks, HLinkIn, h2
<1>7. ASSUME NEW k \in 1 .. n + 1
      PROVE  /\ c2[t[k]].next = IF k = n + 1 THEN 0 ELSE t[k + 1]
             /\ c2[t[k]].prev = IF k = 1 THEN 0 ELSE t[k - 1]
  <2>1. CASE k = n + 1
    <3>1. t[k] = e /\ c2[e].next = 0 /\ c2[e].prev = h.tail
      BY <1>2, <2>1 DEF CtrlsIn, c2
    <3>2. k # 1 => t[k - 1] = s[n] /\ n # 0
      BY <1>1, <1>2, <2>1
    <3>3. k = 1 => n = 0
      BY <1>1, <2>1
    <3>4. QED
      BY <1>4, <2>1, <3>1, <3>2, <3>3
  <2>2. CASE k # n + 1
    <3>1. k \in 1 .. n /\ t[k] = s[k] /\ s[k] \in Recs(N) /\ s[k] # e
      BY <1>1, <1>2, <2>2
    <3>2. /\ c[s[k]].next = IF k = n THEN 0 ELSE s[k + 1]
          /\ c[s[k]].prev = IF k = 1 THEN 0 ELSE s[k - 1]
      BY <3>1 DEF IsList, n
    <3>3. k # 1 => t[k - 1] = s[k - 1]
      BY <1>1, <1>2, <3>1
    <3>4. CASE k = n
      <4>1. s[k] = h.tail /\ n # 0
        BY <1>1, <1>4, <3>1, <3>4
      <4>2. c2[s[k]] = [c[s[k]] EXCEPT !.next = e]
        BY <3>1, <4>1 DEF CtrlsIn, c2
      <4>3. c2[s[k]].next = e /\ c2[s[k]].prev = c[s[k]].prev
        BY <3>1, <4>2 DEF Ctrls
      <4>4. QED
        BY <1>2, <3>1, <3>2, <3>3, <3>4, <4>3
    <3>5. CASE k # n
      <4>1. k + 1 \in 1 .. n /\ n \in 1 .. n /\ n # 0
        BY <1>1, <3>1, <3>5
      <4>2. s[k] # h.tail
        BY <1>1, <1>4, <3>1, <3>5, <4>1 DEF Distinct, n
      <4>3. c2[s[k]] = c[s[k]]
        BY <3>1, <4>2 DEF CtrlsIn, c2
      <4>4. QED
        BY <1>2, <2>2, <3>1, <3>2, <3>3, <3>5, <4>1, <4>3
    <3>6. QED
      BY <3>4, <3>5
  <2>3. QED
    BY <2>1, <2>2
<1>8. ASSUME NEW j \in Recs(N)
      PROVE  "LINKED" \in c2[j].flags <=> \E k \in 1 .. n + 1 : t[k] = j
  <2>1. CASE j = e
    <3>1. "LINKED" \in c2[j].flags
      BY <2>1 DEF CtrlsIn, c2
    <3>2. n + 1 \in 1 .. n + 1
      BY <1>1
    <3>3. QED
      BY <1>2, <2>1, <3>1, <3>2
  <2>2. CASE j # e
    <3>1. c2[j].flags = c[j].flags
      BY <2>2 DEF Ctrls, CtrlsIn, c2
    <3>2. "LINKED" \in c[j].flags <=> \E k \in 1 .. n : s[k] = j
      BY DEF IsList, n
    <3>3. (\E k \in 1 .. n + 1 : t[k] = j) <=> \E k \in 1 .. n : s[k] = j
      <4>1. ASSUME NEW k \in 1 .. n + 1, t[k] = j PROVE k \in 1 .. n /\ s[k] = j
        BY <1>1, <1>2, <2>2, <4>1
      <4>2. ASSUME NEW k \in 1 .. n PROVE k \in 1 .. n + 1 /\ t[k] = s[k]
        BY <1>1, <1>2
      <4>3. QED
        BY <4>1, <4>2
    <3>4. QED
      BY <3>1, <3>2, <3>3
  <2>3. QED
    BY <2>1, <2>2
<1>9. t[1] = IF n = 0 THEN e ELSE s[1]
  <2>1. n # 0 => 1 \in 1 .. n
    BY <1>1
  <2>2. QED
    BY <1>2, <2>1
<1>10. IsList(N, t, c2, h2)
  <2>1. t \in Seq(Recs(N)) /\ Distinct(t) /\ h2.count = Len(t) /\ Len(t) # 0
    BY <1>1, <1>2, <1>3, <1>6
  <2>2. h2.head = t[1] /\ h2.tail = t[Len(t)]
    BY <1>2, <1>6, <1>9
  <2>3. \A k \in 1 .. Len(t) : /\ c2[t[k]].next = IF k = Len(t) THEN 0 ELSE t[k + 1]
                               /\ c2[t[k]].prev = IF k = 1 THEN 0 ELSE t[k - 1]
    BY <1>2, <1>7
  <2>4. \A j \in Recs(N) : "LINKED" \in c2[j].flags <=> \E k \in 1 .. Len(t) : t[k] = j
    BY <1>2, <1>8
  <2>5. QED
    BY <2>1, <2>2, <2>3, <2>4 DEF IsList
<1>11. QED
  BY <1>5, <1>10 DEF t, c2, h2

\* The records and the link structure when u_handle_delink has taken record e off.
CtrlsOut(N, c, e) ==
  [j \in Recs(N) |->
     IF j = e THEN [next |-> 0, prev |-> 0, flags |-> c[e].flags \ {"LINKED"}]
     ELSE [c[j] EXCEPT !.prev = IF j = c[e].next THEN c[e].prev ELSE @,
                       !.next = IF j = c[e].prev THEN c[e].next ELSE @]]

HLinkOut(c, h, e) ==
  [h EXCEPT !.tail = IF c[e].next = 0 THEN c[e].prev ELSE h.tail,
            !.head = IF c[e].prev = 0 THEN c[e].next ELSE @,
            !.count = IF @ > 0 THEN @ - 1 ELSE 0]

\* u_handle_delink takes a record off, wherever it is.
LEMMA ListDelinks ==
  ASSUME NEW N \in Nat, NEW c \in Ctrls(N), NEW h \in HLinks(N), NEW s, IsList(N, s, c, h),
         NEW p \in 1 .. Len(s), NEW e, e = s[p]
  PROVE  /\ CtrlsOut(N, c, e) \in Ctrls(N) /\ HLinkOut(c, h, e) \in HLinks(N)
         /\ IsList(N, RemoveAt(s, p), CtrlsOut(N, c, e), HLinkOut(c, h, e))
<1> DEFINE t == RemoveAt(s, p)
           c2 == CtrlsOut(N, c, e)
           h2 == HLinkOut(c, h, e)
           n == Len(s)
           nx == c[e].next
           pv == c[e].prev
<1>1. /\ s \in Seq(Recs(N)) /\ n \in Nat /\ Distinct(s) /\ h.count = n
      /\ \A k \in 1 .. n : s[k] \in Recs(N)
      /\ p \in 1 .. n /\ e \in Recs(N)
  BY DEF IsList
<1>2. /\ t \in Seq(Recs(N)) /\ Len(t) = n - 1
      /\ \A k \in 1 .. n - 1 : t[k] = IF k < p THEN s[k] ELSE s[k + 1]
  BY <1>1, RemoveAtShape
<1>3. /\ nx = IF p = n THEN 0 ELSE s[p + 1]
      /\ pv = IF p = 1 THEN 0 ELSE s[p - 1]
  BY <1>1 DEF IsList
<1>4. nx \in 0 .. N /\ pv \in 0 .. N /\ h \in HLinks(N) /\ h.count > 0
  BY <1>1 DEF Ctrls
<1>5. \A k, m \in 1 .. n : s[k] = s[m] => k = m
  BY <1>1 DEF Distinct
<1>6. \A k \in 1 .. n : s[k] # 0
  BY <1>1 DEF Recs
<1>7. ASSUME NEW k \in 1 .. n
      PROVE  /\ s[k] = nx <=> k = p + 1
             /\ s[k] = pv <=> k = p - 1
             /\ s[k] = e <=> k = p
  <2>1. p # n => p + 1 \in 1 .. n
    BY <1>1
  <2>2. p # 1 => p - 1 \in 1 .. n
    BY <1>1
  <2>3. s[k] = nx <=> k = p + 1
    BY <1>1, <1>3, <1>5, <1>6, <2>1
  <2>4. s[k] = pv <=> k = p - 1
    BY <1>1, <1>3, <1>5, <1>6, <2>2
  <2>5. QED
    BY <1>1, <1>5, <2>3, <2>4
<1>8. ASSUME NEW j \in Recs(N), j # e
      PROVE  /\ c2[j] \in [next : 0 .. N, prev : 0 .. N, flags : SUBSET LinkFlags]
             /\ c2[j].flags = c[j].flags
             /\ c2[j].next = IF j = pv THEN nx ELSE c[j].next
             /\ c2[j].prev = IF j = nx THEN pv ELSE c[j].prev
  <2>1. c[j] \in [next : 0 .. N, prev : 0 .. N, flags : SUBSET LinkFlags]
    BY DEF Ctrls
  <2>2. c2[j] = [c[j] EXCEPT !.prev = IF j = nx THEN pv ELSE @, !.next = IF j = pv THEN nx ELSE @]
    BY <1>8 DEF CtrlsOut
  <2> HIDE DEF nx, pv
  <2>3. QED
    BY <1>4, <2>1, <2>2
<1>9. c2 \in Ctrls(N)
  <2>1. c2[e] \in [next : 0 .. N, prev : 0 .. N, flags : SUBSET LinkFlags]
    <3>1. c[e].flags \in SUBSET LinkFlags /\ 0 \in 0 .. N
      BY <1>1 DEF Ctrls
    <3>2. QED
      BY <1>1, <3>1 DEF CtrlsOut
  <2>2. c2 = [j \in Recs(N) |-> c2[j]]
    BY DEF CtrlsOut
  <2>3. \A j \in Recs(N) : c2[j] \in [next : 0 .. N, prev : 0 .. N, flags : SUBSET LinkFlags]
    BY <1>8, <2>1
  <2>4. QED
    BY <2>2, <2>3 DEF Ctrls
<1>10. /\ h2 \in HLinks(N) /\ h2.count = n - 1
       /\ h2.tail = IF nx = 0 THEN pv ELSE h.tail
       /\ h2.head = IF pv = 0 THEN nx ELSE h.head
  <2>1. n - 1 \in Nat /\ h.count > 0
    BY <1>1, <1>4
  <2> HIDE DEF nx, pv
  <2>2. h2 = [h EXCEPT !.tail = IF nx = 0 THEN pv ELSE h.tail, !.head = IF pv = 0 THEN nx ELSE @,
                        !.count = n - 1]
    BY <1>1, <2>1 DEF nx, pv, HLinks, HLinkOut
  <2>3. h.head \in 0 .. N /\ h.tail \in 0 .. N
    BY DEF HLinks
  <2>4. QED
    BY <1>4, <2>1, <2>2, <2>3 DEF HLinks
<1>11. Distinct(t)
  <2>1. SUFFICES ASSUME NEW k \in 1 .. n - 1, NEW m \in 1 .. n - 1, k # m PROVE t[k] # t[m]
    BY <1>2 DEF Distinct
  <2>2. QED
    BY <1>1, <1>2, <1>5, <2>1
<1>12. /\ \A k \in 1 .. n : c[s[k]].next = IF k = n THEN 0 ELSE s[k + 1]
       /\ \A k \in 1 .. n : c[s[k]].prev = IF k = 1 THEN 0 ELSE s[k - 1]
       /\ h.head = s[1] /\ h.tail = s[n]
  BY <1>1 DEF IsList
<1>13. c2[e].flags = c[e].flags \ {"LINKED"}
  BY <1>1 DEF CtrlsOut
<1> HIDE DEF t, n, nx, pv, c2, h2
<1>14. ASSUME NEW k \in 1 .. n - 1
       PROVE  /\ c2[t[k]].next = IF k = n - 1 THEN 0 ELSE t[k + 1]
              /\ c2[t[k]].prev = IF k = 1 THEN 0 ELSE t[k - 1]
  <2>1. CASE k < p
    <3>1. k \in 1 .. n /\ t[k] = s[k] /\ s[k] \in Recs(N) /\ s[k] # e /\ s[k] # nx
          /\ (s[k] = pv <=> k = p - 1)
      BY <1>1, <1>2, <1>7, <2>1
    <3>2. /\ c2[t[k]].next = IF k = p - 1 THEN nx ELSE c[s[k]].next
          /\ c2[t[k]].prev = c[s[k]].prev
      BY <1>8, <3>1
    <3>3. c[s[k]].next = s[k + 1] /\ c[s[k]].prev = IF k = 1 THEN 0 ELSE s[k - 1]
      BY <1>1, <1>12, <2>1, <3>1
    <3>4. k # 1 => t[k - 1] = s[k - 1]
      BY <1>1, <1>2, <2>1
    <3>5. CASE k = p - 1
      <4>1. k = n - 1 => nx = 0
        BY <1>1, <1>3, <3>5
      <4>2. k # n - 1 => t[k + 1] = s[p + 1] /\ p # n
        BY <1>1, <1>2, <3>5
      <4>3. QED
        BY <1>3, <3>2, <3>3, <3>4, <3>5, <4>1, <4>2
    <3>6. CASE k # p - 1
      <4>1. k # n - 1 /\ t[k + 1] = s[k + 1]
        BY <1>1, <1>2, <2>1, <3>6
      <4>2. QED
        BY <3>2, <3>3, <3>4, <3>6, <4>1
    <3>7. QED
      BY <3>5, <3>6
  <2>2. CASE k >= p
    <3>1. k + 1 \in 1 .. n /\ t[k] = s[k + 1] /\ s[k + 1] \in Recs(N) /\ s[k + 1] # e /\ s[k + 1] # pv
          /\ (s[k + 1] = nx <=> k = p)
      <4>1. k + 1 \in 1 .. n /\ ~(k < p)
        BY <1>1, <2>2
      <4>2. t[k] = s[k + 1]
        BY <1>2, <4>1
      <4>3. s[k + 1] \in Recs(N)
        BY <1>1, <4>1
      <4>4. k + 1 # p /\ k + 1 # p - 1 /\ (k + 1 = p + 1 <=> k = p)
        BY <1>1, <2>2
      <4>5. s[k + 1] # e /\ s[k + 1] # pv /\ (s[k + 1] = nx <=> k = p)
        BY <1>7, <4>1, <4>4
      <4>6. QED
        BY <4>1, <4>2, <4>3, <4>5
    <3>2. /\ c2[t[k]].prev = IF k = p THEN pv ELSE c[s[k + 1]].prev
          /\ c2[t[k]].next = c[s[k + 1]].next
      BY <1>8, <3>1
    <3>3. c[s[k + 1]].prev = s[k] /\ c[s[k + 1]].next = IF k = n - 1 THEN 0 ELSE s[k + 2]
      <4>1. k + 1 # 1 /\ (k + 1) - 1 = k /\ (k + 1) + 1 = k + 2 /\ (k + 1 = n <=> k = n - 1)
        BY <1>1
      <4>2. c[s[k + 1]].prev = s[(k + 1) - 1]
        BY <1>12, <3>1, <4>1
      <4>3. c[s[k + 1]].next = IF k + 1 = n THEN 0 ELSE s[(k + 1) + 1]
        BY <1>12, <3>1
      <4>4. QED
        BY <4>1, <4>2, <4>3
    <3>4. k # n - 1 => t[k + 1] = s[k + 2]
      BY <1>1, <1>2, <2>2
    <3>5. k # p => k # 1 /\ t[k - 1] = s[k]
      BY <1>1, <1>2, <2>2
    <3>6. k = p => pv = IF k = 1 THEN 0 ELSE t[k - 1]
      BY <1>1, <1>2, <1>3
    <3>7. QED
      BY <3>2, <3>3, <3>4, <3>5, <3>6
  <2>3. QED
    BY <1>1, <2>1, <2>2
<1>15. ASSUME NEW j \in Recs(N)
       PROVE  "LINKED" \in c2[j].flags <=> \E k \in 1 .. n - 1 : t[k] = j
  <2>1. CASE j = e
    <3>1. ASSUME NEW k \in 1 .. n - 1 PROVE t[k] # e
      <4>1. k \in 1 .. n /\ k + 1 \in 1 .. n
        BY <1>1
      <4>2. QED
        BY <1>1, <1>2, <1>7, <4>1
    <3>2. QED
      BY <1>13, <2>1, <3>1
  <2>2. CASE j # e
    <3>1. "LINKED" \in c2[j].flags <=> \E k \in 1 .. n : s[k] = j
      BY <1>8, <2>2 DEF IsList, n
    <3>2. ASSUME NEW k \in 1 .. n, s[k] = j PROVE \E m \in 1 .. n - 1 : t[m] = j
      <4>1. CASE k < p
        <5>1. k \in 1 .. n - 1 /\ t[k] = s[k]
          BY <1>1, <1>2, <4>1
        <5>2. QED
          BY <3>2, <5>1
      <4>2. CASE k > p
        <5>1. k - 1 \in 1 .. n - 1 /\ t[k - 1] = s[k]
          BY <1>1, <1>2, <4>2
        <5>2. QED
          BY <3>2, <5>1
      <4>3. k # p
        BY <1>7, <2>2, <3>2
      <4>4. QED
        BY <1>1, <4>1, <4>2, <4>3
    <3>3. ASSUME NEW m \in 1 .. n - 1, t[m] = j PROVE \E k \in 1 .. n : s[k] = j
      <4>1. m \in 1 .. n /\ m + 1 \in 1 .. n /\ (t[m] = s[m] \/ t[m] = s[m + 1])
        BY <1>1, <1>2
      <4>2. QED
        BY <3>3, <4>1
    <3>4. QED
      BY <3>1, <3>2, <3>3
  <2>3. QED
    BY <2>1, <2>2
<1>16. h2.head = IF n - 1 = 0 THEN 0 ELSE t[1]
  <2>1. CASE p = 1
    <3>1. pv = 0 /\ h2.head = nx
      BY <1>3, <1>10, <2>1
    <3>2. n # 1 => t[1] = s[2]
      BY <1>1, <1>2, <2>1
    <3>3. QED
      BY <1>1, <1>3, <2>1, <3>1, <3>2
  <2>2. CASE p # 1
    <3>1. p - 1 \in 1 .. n /\ pv # 0
      BY <1>1, <1>3, <1>6, <2>2
    <3>2. n - 1 # 0 /\ t[1] = s[1]
      BY <1>1, <1>2, <2>2
    <3>3. QED
      BY <1>10, <1>12, <3>1, <3>2
  <2>3. QED
    BY <2>1, <2>2
<1>17. h2.tail = IF n - 1 = 0 THEN 0 ELSE t[n - 1]
  <2>1. CASE p = n
    <3>1. nx = 0 /\ h2.tail = pv
      BY <1>3, <1>10, <2>1
    <3>2. n # 1 => t[n - 1] = s[n - 1]
      BY <1>1, <1>2, <2>1
    <3>3. QED
      BY <1>1, <1>3, <2>1, <3>1, <3>2
  <2>2. CASE p # n
    <3>1. p + 1 \in 1 .. n /\ nx # 0
      BY <1>1, <1>3, <1>6, <2>2
    <3>2. n - 1 # 0 /\ t[n - 1] = s[n]
      BY <1>1, <1>2, <2>2
    <3>3. QED
      BY <1>10, <1>12, <3>1, <3>2
  <2>3. QED
    BY <2>1, <2>2
<1>18. IsList(N, t, c2, h2)
  <2>1. t \in Seq(Recs(N)) /\ Distinct(t) /\ h2.count = Len(t)
    BY <1>2, <1>10, <1>11
  <2>2. \A k \in 1 .. Len(t) : /\ c2[t[k]].next = IF k = Len(t) THEN 0 ELSE t[k + 1]
                               /\ c2[t[k]].prev = IF k = 1 THEN 0 ELSE t[k - 1]
    BY <1>2, <1>14
  <2>3. \A j \in Recs(N) : "LINKED" \in c2[j].flags <=> \E k \in 1 .. Len(t) : t[k] = j
    BY <1>2, <1>15
  <2>4. QED
    BY <1>2, <1>16, <1>17, <2>1, <2>2, <2>3 DEF IsList
<1>19. QED
  BY <1>9, <1>10, <1>18 DEF t, c2, h2
(* The calls whose callbacks are running.                                  *)

ParseFrames(N) == [op : {"parse"}, pc : {"callback", "done"}, i : Recs(N), nxt : 0 .. N, cnt : Nat,
                seen : Seq(Recs(N)), stay : SUBSET Recs(N)]

FreeFrames(N) == [op : {"free"}, pc : {"callback"}, i : Recs(N), all : BOOLEAN, stay : {{}}]

CallFrames(N) == ParseFrames(N) \cup FreeFrames(N)

Parsing(f) == f.op = "parse" /\ f.pc = "callback"

\* A record was visited once, or never.
VisitedOnce(q, e) == \E n \in 1 .. Len(q) : q[n] = e /\ \A m \in 1 .. Len(q) : q[m] = e => m = n

NeverVisited(q, e) == \A m \in 1 .. Len(q) : q[m] # e

\* What a parse knows of the list s while its callback runs: the list lost at
\* most the record that is parsed; those before the next one were visited.
ParseKnows(f, s, c) ==
  /\ f.cnt <= Len(s) + 1
  /\ {"LINKED", "PARSING"} \subseteq c[f.i].flags => f.cnt <= Len(s)
  /\ f.nxt = 0 => \A e \in f.stay : VisitedOnce(f.seen, e)
  /\ f.nxt # 0 =>
       /\ f.nxt # f.i
       /\ \E p \in 1 .. Len(s) :
            /\ s[p] = f.nxt
            /\ \A k \in 1 .. Len(s) : s[k] \in f.stay =>
                 IF k < p THEN VisitedOnce(f.seen, s[k]) ELSE NeverVisited(f.seen, s[k])

FrameInv(f, s, c) ==
  /\ \A e \in f.stay : \E k \in 1 .. Len(s) : s[k] = e
  /\ Parsing(f) => ParseKnows(f, s, c)
  /\ f.pc = "done" => \A e \in f.stay : VisitedOnce(f.seen, e)

\* Only one parse at a time, and only the record it visits is marked.
StackInv(N, st, s, c, h) ==
  /\ st \in Seq(CallFrames(N))
  /\ \A k \in 1 .. Len(st) : FrameInv(st[k], s, c)
  /\ \A k \in 1 .. Len(st) : Parsing(st[k]) => "PARSING" \in h.flags
  /\ \A k, m \in 1 .. Len(st) : Parsing(st[k]) /\ Parsing(st[m]) => k = m
  /\ \A e \in Recs(N) : "PARSING" \in c[e].flags => \E k \in 1 .. Len(st) : Parsing(st[k]) /\ st[k].i = e

\* A frame only depends on the marks of the record it visits.
LEMMA FrameKeeps ==
  ASSUME NEW f, NEW s, NEW c, NEW c2, FrameInv(f, s, c),
         Parsing(f) /\ {"LINKED", "PARSING"} \subseteq c2[f.i].flags =>
              {"LINKED", "PARSING"} \subseteq c[f.i].flags
  PROVE  FrameInv(f, s, c2)
BY DEF FrameInv, ParseKnows

\* A record that is put at the end was not on the list when the parse began.
LEMMA FrameLinks ==
  ASSUME NEW N \in Nat, NEW s \in Seq(Recs(N)), NEW c, NEW c2, NEW f \in CallFrames(N), FrameInv(f, s, c),
         NEW e \in Recs(N), \A k \in 1 .. Len(s) : s[k] # e,
         \A j \in Recs(N) : j # e => c2[j].flags = c[j].flags,
         c2[e].flags = c[e].flags \cup {"LINKED"}
  PROVE  FrameInv(f, Append(s, e), c2)
<1> DEFINE t == Append(s, e)
           n == Len(s)
<1>1. n \in Nat /\ Len(t) = n + 1 /\ t[n + 1] = e /\ \A k \in 1 .. n : t[k] = s[k] /\ k \in 1 .. n + 1
  OBVIOUS
<1> HIDE DEF t
<1>2. \A j \in f.stay : \E k \in 1 .. Len(t) : t[k] = j
  BY <1>1 DEF FrameInv
<1>3. e \notin f.stay
  BY DEF FrameInv
<1>4. ASSUME Parsing(f) PROVE ParseKnows(f, t, c2)
  <2>1. f \in ParseFrames(N) /\ f.cnt \in Nat /\ f.i \in Recs(N)
    BY <1>4 DEF Parsing, CallFrames, ParseFrames, FreeFrames
  <2>2. ParseKnows(f, s, c)
    BY <1>4 DEF FrameInv
  <2>3. f.cnt <= Len(t) /\ f.cnt <= Len(t) + 1
    BY <1>1, <2>1, <2>2 DEF ParseKnows
  <2>4. f.nxt = 0 => \A j \in f.stay : VisitedOnce(f.seen, j)
    BY <2>2 DEF ParseKnows
  <2>5. ASSUME f.nxt # 0
        PROVE  /\ f.nxt # f.i
               /\ \E p \in 1 .. Len(t) :
                    /\ t[p] = f.nxt
                    /\ \A k \in 1 .. Len(t) : t[k] \in f.stay =>
                         IF k < p THEN VisitedOnce(f.seen, t[k]) ELSE NeverVisited(f.seen, t[k])
    <3>1. PICK p \in 1 .. n : /\ s[p] = f.nxt
                              /\ \A k \in 1 .. n : s[k] \in f.stay =>
                                   IF k < p THEN VisitedOnce(f.seen, s[k]) ELSE NeverVisited(f.seen, s[k])
      BY <2>2, <2>5 DEF ParseKnows
    <3>2. p \in 1 .. Len(t) /\ t[p] = f.nxt
      BY <1>1, <3>1
    <3>3. ASSUME NEW k \in 1 .. Len(t), t[k] \in f.stay
          PROVE  IF k < p THEN VisitedOnce(f.seen, t[k]) ELSE NeverVisited(f.seen, t[k])
      <4>1. k \in 1 .. n
        BY <1>1, <1>3, <3>3
      <4>2. QED
        BY <1>1, <3>1, <3>3, <4>1
    <3>4. f.nxt # f.i
      BY <2>2, <2>5 DEF ParseKnows
    <3>5. QED
      BY <3>2, <3>3, <3>4
  <2>6. QED
    BY <2>3, <2>4, <2>5 DEF ParseKnows
<1>5. QED
  BY <1>2, <1>4 DEF FrameInv, t

\* A record that leaves the list is the one that is parsed, if any is.
LEMMA FrameDelinks ==
  ASSUME NEW N \in Nat, NEW s \in Seq(Recs(N)), Distinct(s), NEW p \in 1 .. Len(s), NEW e \in Recs(N), e = s[p],
         NEW c, NEW c2, NEW f \in CallFrames(N), FrameInv(f, s, c),
         "LINKED" \in c[e].flags, "LINKED" \notin c2[e].flags,
         Parsing(f) => f.i = e /\ "PARSING" \in c[e].flags
  PROVE  /\ [f EXCEPT !.stay = @ \ {e}] \in CallFrames(N)
         /\ FrameInv([f EXCEPT !.stay = @ \ {e}], RemoveAt(s, p), c2)
<1> DEFINE t == RemoveAt(s, p)
           n == Len(s)
           g == [f EXCEPT !.stay = @ \ {e}]
<1>1. /\ n \in Nat /\ Len(t) = n - 1 /\ p \in 1 .. n
      /\ \A k \in 1 .. n - 1 : t[k] = IF k < p THEN s[k] ELSE s[k + 1]
  BY RemoveAtShape
<1>2. \A k, m \in 1 .. n : s[k] = s[m] => k = m
  BY DEF Distinct
<1>3. /\ g \in CallFrames(N) /\ g.stay = f.stay \ {e} /\ g.op = f.op /\ g.pc = f.pc /\ g.i = f.i
      /\ f \in ParseFrames(N) => g.nxt = f.nxt /\ g.cnt = f.cnt /\ g.seen = f.seen
  <2>1. CASE f \in ParseFrames(N)
    BY <2>1 DEF ParseFrames, CallFrames
  <2>2. CASE f \in FreeFrames(N)
    <3>1. f.stay \ {e} = {} /\ f \notin ParseFrames(N)
      BY <2>2 DEF FreeFrames, ParseFrames
    <3>2. QED
      BY <2>2, <3>1 DEF FreeFrames, CallFrames
  <2>3. QED
    BY <2>1, <2>2 DEF CallFrames
<1> HIDE DEF t, g
<1>4. ASSUME NEW k \in 1 .. n, s[k] # e
      PROVE  \E m \in 1 .. n - 1 : t[m] = s[k] /\ m = IF k < p THEN k ELSE k - 1
  <2>1. CASE k < p
    <3>1. k \in 1 .. n - 1
      BY <1>1, <2>1
    <3>2. QED
      BY <1>1, <2>1, <3>1
  <2>2. CASE k > p
    <3>1. k - 1 \in 1 .. n - 1 /\ t[k - 1] = s[k] /\ ~(k < p)
      BY <1>1, <2>2
    <3>2. QED
      BY <3>1
  <2>3. QED
    BY <1>1, <1>4, <2>1, <2>2
<1>5. \A j \in g.stay : \E k \in 1 .. Len(t) : t[k] = j
  <2>1. ASSUME NEW j \in g.stay PROVE \E k \in 1 .. Len(t) : t[k] = j
    <3>1. j # e /\ j \in f.stay
      BY <1>3
    <3>2. PICK k \in 1 .. n : s[k] = j
      BY <3>1 DEF FrameInv
    <3>3. QED
      BY <1>1, <1>4, <3>1, <3>2
  <2>2. QED
    BY <2>1
<1>6. f \in ParseFrames(N) \/ (f.pc = "callback" /\ ~Parsing(f))
  BY DEF CallFrames, FreeFrames, Parsing
<1>7. g.pc = "done" => \A j \in g.stay : VisitedOnce(g.seen, j)
  BY <1>3, <1>6 DEF FrameInv
<1>8. ASSUME Parsing(g) PROVE ParseKnows(g, t, c2)
  <2>1. Parsing(f) /\ f \in ParseFrames(N)
    BY <1>3, <1>6, <1>8 DEF Parsing
  <2>2. ParseKnows(f, s, c) /\ f.i = e /\ f.cnt \in Nat /\ f.cnt <= n
    BY <2>1 DEF FrameInv, ParseFrames, ParseKnows
  <2>3. g.cnt <= Len(t) + 1 /\ ~({"LINKED", "PARSING"} \subseteq c2[g.i].flags)
    BY <1>1, <1>3, <2>1, <2>2
  <2>4. g.nxt = 0 => \A j \in g.stay : VisitedOnce(g.seen, j)
    BY <1>3, <2>1, <2>2 DEF ParseKnows
  <2>5. ASSUME g.nxt # 0
        PROVE  /\ g.nxt # g.i
               /\ \E q \in 1 .. Len(t) :
                    /\ t[q] = g.nxt
                    /\ \A k \in 1 .. Len(t) : t[k] \in g.stay =>
                         IF k < q THEN VisitedOnce(g.seen, t[k]) ELSE NeverVisited(g.seen, t[k])
    <3>1. f.nxt # 0 /\ g.nxt = f.nxt /\ g.seen = f.seen /\ f.nxt # f.i
      BY <1>3, <2>1, <2>2, <2>5 DEF ParseKnows
    <3>2. PICK q \in 1 .. n : /\ s[q] = f.nxt
                              /\ \A k \in 1 .. n : s[k] \in f.stay =>
                                   IF k < q THEN VisitedOnce(f.seen, s[k]) ELSE NeverVisited(f.seen, s[k])
      BY <2>2, <3>1 DEF ParseKnows
    <3>3. PICK r \in 1 .. n - 1 : t[r] = s[q] /\ r = IF q < p THEN q ELSE q - 1
      BY <1>4, <2>2, <3>1, <3>2
    <3>4. q # p
      BY <2>2, <3>1, <3>2
    <3>5. ASSUME NEW k \in 1 .. Len(t), t[k] \in g.stay
          PROVE  IF k < r THEN VisitedOnce(g.seen, t[k]) ELSE NeverVisited(g.seen, t[k])
      <4>1. k \in 1 .. n - 1 /\ k + 1 \in 1 .. n /\ k \in 1 .. n
        BY <1>1
      <4>2. t[k] \in f.stay
        BY <1>3, <3>5
      <4>3. CASE k < p
        <5>1. t[k] = s[k] /\ (k < r <=> k < q)
          BY <1>1, <3>3, <3>4, <4>1, <4>3
        <5>2. QED
          BY <3>1, <3>2, <4>1, <4>2, <5>1
      <4>4. CASE k >= p
        <5>1. t[k] = s[k + 1] /\ (k < r <=> k + 1 < q)
          BY <1>1, <3>3, <3>4, <4>1, <4>4
        <5>2. QED
          BY <3>1, <3>2, <4>1, <4>2, <5>1
      <4>5. QED
        BY <1>1, <4>1, <4>3, <4>4
    <3>6. QED
      BY <1>1, <1>3, <3>1, <3>2, <3>3, <3>5
  <2>6. QED
    BY <2>3, <2>4, <2>5 DEF ParseKnows
<1>9. QED
  BY <1>3, <1>5, <1>7, <1>8 DEF FrameInv, t, g

\* The shape of a stack after a call, a return, or a change of its innermost frame.
LEMMA StackShapes ==
  ASSUME NEW T, NEW st \in Seq(T), NEW f \in T
  PROVE  /\ <<f>> \o st \in Seq(T) /\ Len(<<f>> \o st) = Len(st) + 1
         /\ \A k \in 1 .. Len(st) + 1 : (<<f>> \o st)[k] = IF k = 1 THEN f ELSE st[k - 1]
         /\ st # <<>> =>
              /\ Len(st) >= 1 /\ Head(st) = st[1] /\ Head(st) \in T
              /\ Tail(st) \in Seq(T) /\ Len(Tail(st)) = Len(st) - 1
              /\ \A k \in 1 .. Len(st) - 1 : Tail(st)[k] = st[k + 1]
              /\ <<f>> \o Tail(st) \in Seq(T) /\ Len(<<f>> \o Tail(st)) = Len(st)
              /\ \A k \in 1 .. Len(st) : (<<f>> \o Tail(st))[k] = IF k = 1 THEN f ELSE st[k]
<1>1. /\ <<f>> \in Seq(T) /\ Len(<<f>>) = 1 /\ <<f>>[1] = f
  OBVIOUS
<1>2. ASSUME NEW q \in Seq(T)
      PROVE  /\ <<f>> \o q \in Seq(T) /\ Len(<<f>> \o q) = Len(q) + 1
             /\ \A k \in 1 .. Len(q) + 1 : (<<f>> \o q)[k] = IF k = 1 THEN f ELSE q[k - 1]
  <2>1. /\ <<f>> \o q \in Seq(T) /\ Len(<<f>> \o q) = 1 + Len(q)
        /\ \A k \in 1 .. 1 + Len(q) : (<<f>> \o q)[k] = IF k <= 1 THEN <<f>>[k] ELSE q[k - 1]
    BY <1>1, ConcatProperties
  <2>2. QED
    BY <1>1, <2>1
<1>3. ASSUME st # <<>>
      PROVE  /\ Len(st) >= 1 /\ Head(st) = st[1] /\ Head(st) \in T
             /\ Tail(st) \in Seq(T) /\ Len(Tail(st)) = Len(st) - 1
             /\ \A k \in 1 .. Len(st) - 1 : Tail(st)[k] = st[k + 1]
  BY <1>3
<1>4. ASSUME st # <<>>
      PROVE  /\ <<f>> \o Tail(st) \in Seq(T) /\ Len(<<f>> \o Tail(st)) = Len(st)
             /\ \A k \in 1 .. Len(st) : (<<f>> \o Tail(st))[k] = IF k = 1 THEN f ELSE st[k]
  <2>1. /\ Tail(st) \in Seq(T) /\ Len(Tail(st)) + 1 = Len(st) /\ Len(st) \in Nat
        /\ \A k \in 1 .. Len(st) - 1 : Tail(st)[k] = st[k + 1]
    BY <1>3, <1>4
  <2>2. /\ <<f>> \o Tail(st) \in Seq(T) /\ Len(<<f>> \o Tail(st)) = Len(st)
        /\ \A k \in 1 .. Len(st) : (<<f>> \o Tail(st))[k] = IF k = 1 THEN f ELSE Tail(st)[k - 1]
    BY <1>2, <2>1
  <2>3. ASSUME NEW k \in 1 .. Len(st), k # 1 PROVE Tail(st)[k - 1] = st[k]
    <3>1. k - 1 \in 1 .. Len(st) - 1 /\ (k - 1) + 1 = k
      BY <2>1, <2>3
    <3>2. QED
      BY <2>1, <3>1
  <2>4. QED
    BY <2>2, <2>3
<1>5. QED
  BY <1>2, <1>3, <1>4

\* No mark of a parse is added.
NoNewMark(N, c, h, c2, h2) ==
  /\ \A e \in Recs(N) : {"LINKED", "PARSING"} \subseteq c2[e].flags =>
          {"LINKED", "PARSING"} \subseteq c[e].flags
  /\ \A e \in Recs(N) : "PARSING" \in c2[e].flags => "PARSING" \in c[e].flags
  /\ "PARSING" \in h.flags => "PARSING" \in h2.flags

\* A frame is about a record.
LEMMA FrameRecord ==
  ASSUME NEW N \in Nat, NEW f \in CallFrames(N)
  PROVE  f.i \in Recs(N)
BY DEF CallFrames, ParseFrames, FreeFrames

\* The frame of a free callback asks nothing of the list.
LEMMA FreeFrame ==
  ASSUME NEW N \in Nat, NEW f \in FreeFrames(N), NEW s, NEW c
  PROVE  FrameInv(f, s, c) /\ ~Parsing(f) /\ f \in CallFrames(N)
BY DEF FreeFrames, FrameInv, Parsing, CallFrames

\* Frames that are no parse come and go.
LEMMA StackKeeps ==
  ASSUME NEW N \in Nat, NEW s, NEW c, NEW h, NEW c2, NEW h2, NEW st, StackInv(N, st, s, c, h),
         NoNewMark(N, c, h, c2, h2)
  PROVE  StackInv(N, st, s, c2, h2)
<1>1. ASSUME NEW k \in 1 .. Len(st) PROVE FrameInv(st[k], s, c2)
  <2>1. st[k] \in CallFrames(N) /\ FrameInv(st[k], s, c)
    BY DEF StackInv
  <2>2. st[k].i \in Recs(N)
    BY <2>1, FrameRecord
  <2>3. QED
    BY <2>1, <2>2, FrameKeeps DEF NoNewMark
<1>2. QED
  BY <1>1 DEF StackInv, NoNewMark

\* A free callback is called.
LEMMA StackPushes ==
  ASSUME NEW N \in Nat, NEW s, NEW c, NEW h, NEW st, StackInv(N, st, s, c, h), NEW f \in FreeFrames(N)
  PROVE  StackInv(N, <<f>> \o st, s, c, h)
<1> DEFINE t == <<f>> \o st
           n == Len(st)
<1>1. f \in CallFrames(N) /\ FrameInv(f, s, c) /\ ~Parsing(f)
  BY FreeFrame
<1>2. st \in Seq(CallFrames(N)) /\ n \in Nat
  BY DEF StackInv
<1>3. t \in Seq(CallFrames(N)) /\ Len(t) = n + 1 /\ \A k \in 1 .. n + 1 : t[k] = IF k = 1 THEN f ELSE st[k - 1]
  BY <1>1, <1>2, StackShapes
<1> HIDE DEF t
<1>4. ASSUME NEW k \in 1 .. n + 1, k # 1
      PROVE  k - 1 \in 1 .. n /\ t[k] = st[k - 1]
  BY <1>2, <1>3, <1>4
<1>5. ASSUME NEW k \in 1 .. n PROVE k + 1 \in 1 .. n + 1 /\ t[k + 1] = st[k]
  BY <1>2, <1>3
<1>6. \A k \in 1 .. n + 1 : FrameInv(t[k], s, c) /\ (Parsing(t[k]) => "PARSING" \in h.flags)
  <2>1. \A k \in 1 .. n : FrameInv(st[k], s, c) /\ (Parsing(st[k]) => "PARSING" \in h.flags)
    BY DEF StackInv
  <2>2. QED
    BY <1>1, <1>3, <1>4, <2>1
<1>7. \A k, m \in 1 .. n + 1 : Parsing(t[k]) /\ Parsing(t[m]) => k = m
  <2>1. ASSUME NEW k \in 1 .. n + 1, NEW m \in 1 .. n + 1, Parsing(t[k]), Parsing(t[m]) PROVE k = m
    <3>1. k # 1 /\ m # 1
      BY <1>1, <1>3, <2>1
    <3>2. k - 1 = m - 1
      BY <1>4, <2>1, <3>1 DEF StackInv
    <3>3. QED
      BY <1>2, <3>2
  <2>2. QED
    BY <2>1
<1>8. \A e \in Recs(N) : "PARSING" \in c[e].flags => \E k \in 1 .. n + 1 : Parsing(t[k]) /\ t[k].i = e
  <2>1. ASSUME NEW e \in Recs(N), "PARSING" \in c[e].flags
        PROVE \E k \in 1 .. n + 1 : Parsing(t[k]) /\ t[k].i = e
    <3>1. PICK k \in 1 .. n : Parsing(st[k]) /\ st[k].i = e
      BY <2>1 DEF StackInv
    <3>2. QED
      BY <1>5, <3>1
  <2>2. QED
    BY <2>1
<1>9. QED
  BY <1>3, <1>6, <1>7, <1>8 DEF StackInv, t

\* The innermost frame is no parse that goes on: it is left.
LEMMA StackPops ==
  ASSUME NEW N \in Nat, NEW s, NEW c, NEW h, NEW st, StackInv(N, st, s, c, h), st # <<>>, ~Parsing(Head(st))
  PROVE  StackInv(N, Tail(st), s, c, h)
<1> DEFINE t == Tail(st)
           n == Len(st)
<1>1. st \in Seq(CallFrames(N)) /\ n \in Nat /\ n >= 1 /\ ~Parsing(st[1])
  BY DEF StackInv
<1>2. t \in Seq(CallFrames(N)) /\ Len(t) = n - 1 /\ \A k \in 1 .. n - 1 : t[k] = st[k + 1]
  BY <1>1
<1> HIDE DEF t
<1>3. \A k \in 1 .. n - 1 : k + 1 \in 1 .. n
  BY <1>1
<1>4. \A k \in 1 .. n - 1 : FrameInv(t[k], s, c) /\ (Parsing(t[k]) => "PARSING" \in h.flags)
  BY <1>2, <1>3 DEF StackInv
<1>5. \A k, m \in 1 .. n - 1 : Parsing(t[k]) /\ Parsing(t[m]) => k = m
  <2>1. ASSUME NEW k \in 1 .. n - 1, NEW m \in 1 .. n - 1, Parsing(t[k]), Parsing(t[m]) PROVE k = m
    <3>1. k + 1 = m + 1
      BY <1>2, <1>3, <2>1 DEF StackInv
    <3>2. QED
      BY <1>1, <3>1
  <2>2. QED
    BY <2>1
<1>6. \A e \in Recs(N) : "PARSING" \in c[e].flags => \E k \in 1 .. n - 1 : Parsing(t[k]) /\ t[k].i = e
  <2>1. ASSUME NEW e \in Recs(N), "PARSING" \in c[e].flags
        PROVE \E k \in 1 .. n - 1 : Parsing(t[k]) /\ t[k].i = e
    <3>1. PICK k \in 1 .. n : Parsing(st[k]) /\ st[k].i = e
      BY <2>1 DEF StackInv
    <3>2. k # 1
      BY <1>1, <3>1
    <3>3. k - 1 \in 1 .. n - 1 /\ t[k - 1] = st[k]
      BY <1>1, <1>2, <3>2
    <3>4. QED
      BY <3>1, <3>3
  <2>2. QED
    BY <2>1
<1>7. QED
  BY <1>2, <1>4, <1>5, <1>6 DEF StackInv, t

\* Without a parse no record is marked.
LEMMA StackQuiet ==
  ASSUME NEW N \in Nat, NEW s, NEW c, NEW st \in Seq(CallFrames(N)),
         \A k \in 1 .. Len(st) : FrameInv(st[k], s, c) /\ ~Parsing(st[k]),
         NEW c2, NEW h2, \A e \in Recs(N) : "PARSING" \notin c2[e].flags
  PROVE  StackInv(N, st, s, c2, h2)
<1>1. \A k \in 1 .. Len(st) : FrameInv(st[k], s, c2)
  BY DEF StackInv, FrameInv
<1>2. QED
  BY <1>1 DEF StackInv

\* The same with a parse that begins, goes on or ends in the innermost frame.
LEMMA StackParses ==
  ASSUME NEW N \in Nat, NEW s, NEW c, NEW st \in Seq(CallFrames(N)),
         \A k \in 1 .. Len(st) : FrameInv(st[k], s, c) /\ ~Parsing(st[k]),
         NEW f \in CallFrames(N), NEW c2, NEW h2, FrameInv(f, s, c2),
         Parsing(f) => "PARSING" \in h2.flags,
         \A e \in Recs(N) : "PARSING" \in c2[e].flags => Parsing(f) /\ f.i = e
  PROVE  StackInv(N, <<f>> \o st, s, c2, h2)
<1> DEFINE t == <<f>> \o st
           n == Len(st)
<1>1. st \in Seq(CallFrames(N)) /\ n \in Nat
  BY DEF StackInv
<1>2. t \in Seq(CallFrames(N)) /\ Len(t) = n + 1 /\ \A k \in 1 .. n + 1 : t[k] = IF k = 1 THEN f ELSE st[k - 1]
  BY <1>1, StackShapes
<1> HIDE DEF t
<1>3. ASSUME NEW k \in 1 .. n + 1, k # 1
      PROVE  FrameInv(t[k], s, c2) /\ ~Parsing(t[k])
  <2>1. k - 1 \in 1 .. n /\ t[k] = st[k - 1]
    BY <1>1, <1>2, <1>3
  <2>2. QED
    BY <2>1 DEF StackInv, FrameInv
<1>4. t[1] = f /\ 1 \in 1 .. n + 1
  BY <1>1, <1>2
<1>5. QED
  BY <1>2, <1>3, <1>4 DEF StackInv, t

\* What is under a parse is no parse.
LEMMA UnderParse ==
  ASSUME NEW N \in Nat, NEW s, NEW c, NEW h, NEW st, StackInv(N, st, s, c, h), st # <<>>, Parsing(Head(st))
  PROVE  /\ \A k \in 1 .. Len(Tail(st)) : FrameInv(Tail(st)[k], s, c) /\ ~Parsing(Tail(st)[k])
         /\ Tail(st) \in Seq(CallFrames(N))
         /\ \A e \in Recs(N) : "PARSING" \in c[e].flags => Head(st).i = e
<1>1. st \in Seq(CallFrames(N)) /\ Len(st) \in Nat /\ Len(st) >= 1 /\ Head(st) = st[1] /\ 1 \in 1 .. Len(st)
  BY DEF StackInv
<1>2. /\ Tail(st) \in Seq(CallFrames(N)) /\ Len(Tail(st)) = Len(st) - 1
      /\ \A k \in 1 .. Len(st) - 1 : Tail(st)[k] = st[k + 1]
  BY <1>1
<1>3. ASSUME NEW k \in 1 .. Len(Tail(st)) PROVE FrameInv(Tail(st)[k], s, c) /\ ~Parsing(Tail(st)[k])
  <2>1. k + 1 \in 1 .. Len(st) /\ k + 1 # 1 /\ Tail(st)[k] = st[k + 1]
    BY <1>1, <1>2
  <2>2. QED
    BY <1>1, <2>1 DEF StackInv
<1>4. ASSUME NEW e \in Recs(N), "PARSING" \in c[e].flags PROVE Head(st).i = e
  BY <1>1, <1>4 DEF StackInv
<1>5. QED
  BY <1>2, <1>3, <1>4

\* A flag of a record is set or cleared.
WithFlags(c, a, F) == [c EXCEPT ![a].flags = F]

\* What that leaves as it was.
LEMMA FlagsSet ==
  ASSUME NEW N \in Nat, NEW c \in Ctrls(N), NEW a \in Recs(N), NEW F \in SUBSET LinkFlags
  PROVE  /\ WithFlags(c, a, F) \in Ctrls(N)
         /\ \A j \in Recs(N) : /\ WithFlags(c, a, F)[j].next = c[j].next
                               /\ WithFlags(c, a, F)[j].prev = c[j].prev
                               /\ WithFlags(c, a, F)[j].flags = IF j = a THEN F ELSE c[j].flags
<1> DEFINE R == [next : 0 .. N, prev : 0 .. N, flags : SUBSET LinkFlags]
           d == WithFlags(c, a, F)
<1>1. \A j \in Recs(N) : c[j] \in R
  BY DEF Ctrls
<1>2. d = [j \in Recs(N) |-> IF j = a THEN [c[a] EXCEPT !.flags = F] ELSE c[j]]
  BY DEF Ctrls, WithFlags
<1>3. \A j \in Recs(N) : d[j] = IF j = a THEN [c[a] EXCEPT !.flags = F] ELSE c[j]
  BY <1>2
<1>4. \A j \in Recs(N) : /\ d[j] \in R /\ d[j].next = c[j].next /\ d[j].prev = c[j].prev
                         /\ d[j].flags = IF j = a THEN F ELSE c[j].flags
  BY <1>1, <1>3
<1>5. d = [j \in Recs(N) |-> d[j]]
  BY <1>2
<1> HIDE DEF d
<1>6. d \in Ctrls(N)
  BY <1>4, <1>5 DEF Ctrls
<1>7. QED
  BY <1>4, <1>6 DEF d

\* What a visit of record x does to the visits of record e.
LEMMA OnceAppends ==
  ASSUME NEW N \in Nat, NEW q \in Seq(Recs(N)), NEW e, NEW x \in Recs(N)
  PROVE  /\ e # x /\ VisitedOnce(q, e) => VisitedOnce(Append(q, x), e)
         /\ e # x /\ NeverVisited(q, e) => NeverVisited(Append(q, x), e)
         /\ NeverVisited(q, x) => VisitedOnce(Append(q, x), x)
<1> DEFINE t == Append(q, x)
           n == Len(q)
<1>1. n \in Nat /\ Len(t) = n + 1 /\ t[n + 1] = x /\ \A k \in 1 .. n : t[k] = q[k]
  OBVIOUS
<1> HIDE DEF t
<1>2. \A k \in 1 .. n : k \in 1 .. n + 1
  BY <1>1
<1>3. \A k \in 1 .. n + 1 : k \in 1 .. n \/ k = n + 1
  BY <1>1
<1>4. n + 1 \in 1 .. n + 1 /\ n + 1 \notin 1 .. n
  BY <1>1
<1>5. ASSUME e # x, VisitedOnce(q, e) PROVE VisitedOnce(t, e)
  <2>1. PICK k \in 1 .. n : q[k] = e /\ \A m \in 1 .. n : q[m] = e => m = k
    BY <1>5 DEF VisitedOnce
  <2>2. k \in 1 .. Len(t) /\ t[k] = e
    BY <1>1, <1>2, <2>1
  <2>3. \A m \in 1 .. Len(t) : t[m] = e => m = k
    BY <1>1, <1>3, <1>5, <2>1
  <2>4. QED
    BY <2>2, <2>3 DEF VisitedOnce
<1>6. ASSUME e # x, NeverVisited(q, e) PROVE NeverVisited(t, e)
  BY <1>1, <1>3, <1>6 DEF NeverVisited
<1>7. ASSUME NeverVisited(q, x) PROVE VisitedOnce(t, x)
  BY <1>1, <1>3, <1>4, <1>7 DEF NeverVisited, VisitedOnce
<1>8. QED
  BY <1>5, <1>6, <1>7 DEF t

\* The frame of a parse that visits record r next.
VisitOf(r, c, h, seen, stay) ==
  [op |-> "parse", pc |-> "callback", i |-> r, nxt |-> c[r].next, cnt |-> h.count,
   seen |-> Append(seen, r), stay |-> stay]

\* Such a frame is that of a parse.
LEMMA VisitFrame ==
  ASSUME NEW N \in Nat, NEW c \in Ctrls(N), NEW h \in HLinks(N), NEW r \in Recs(N), NEW seen \in Seq(Recs(N)),
         NEW stay \in SUBSET Recs(N)
  PROVE  VisitOf(r, c, h, seen, stay) \in ParseFrames(N) /\ Parsing(VisitOf(r, c, h, seen, stay))
<1>1. c[r].next \in 0 .. N /\ h.count \in Nat /\ Append(seen, r) \in Seq(Recs(N))
  BY DEF Ctrls, HLinks
<1>2. QED
  BY <1>1 DEF VisitOf, ParseFrames, Parsing

\* A visit of the record at place p: those before it have been visited.
LEMMA VisitKnows ==
  ASSUME NEW N \in Nat, NEW c \in Ctrls(N), NEW h \in HLinks(N), NEW s, IsList(N, s, c, h), NEW c2,
         NEW p \in 1 .. Len(s), NEW seen \in Seq(Recs(N)), NEW stay \in SUBSET Recs(N),
         \A e \in stay : \E k \in 1 .. Len(s) : s[k] = e,
         \A k \in 1 .. Len(s) : s[k] \in stay =>
              IF k < p THEN VisitedOnce(seen, s[k]) ELSE NeverVisited(seen, s[k])
  PROVE  FrameInv(VisitOf(s[p], c, h, seen, stay), s, c2)
<1> DEFINE n == Len(s)
           v == VisitOf(s[p], c, h, seen, stay)
           q == Append(seen, s[p])
<1>1. /\ n \in Nat /\ h.count = n /\ p \in 1 .. n
      /\ \A k \in 1 .. n : s[k] \in Recs(N) /\ s[k] # 0
      /\ \A k, m \in 1 .. n : s[k] = s[m] => k = m
  <2>1. s \in Seq(Recs(N)) /\ Distinct(s) /\ h.count = n
    BY DEF IsList
  <2>2. 0 \notin Recs(N)
    BY DEF Recs
  <2>3. \A k \in 1 .. n : s[k] \in Recs(N)
    BY <2>1
  <2>4. \A k, m \in 1 .. n : s[k] = s[m] => k = m
    BY <2>1 DEF Distinct
  <2>5. n \in Nat
    BY <2>1
  <2>6. QED
    BY <2>1, <2>2, <2>3, <2>4, <2>5
<1>2. /\ v.pc = "callback" /\ v.i = s[p] /\ v.nxt = c[s[p]].next /\ v.cnt = n /\ v.seen = q /\ v.stay = stay
  BY <1>1 DEF VisitOf
<1>3. v.nxt = IF p = n THEN 0 ELSE s[p + 1]
  BY <1>1, <1>2 DEF IsList
<1> HIDE DEF v, q
<1>4. ASSUME NEW k \in 1 .. n, s[k] \in stay
      PROVE  IF k < p + 1 THEN VisitedOnce(q, s[k]) ELSE NeverVisited(q, s[k])
  <2>1. s[p] \in Recs(N) /\ (s[k] = s[p] => k = p)
    BY <1>1
  <2>2. CASE k < p
    <3>1. VisitedOnce(seen, s[k]) /\ s[k] # s[p] /\ k < p + 1
      BY <1>1, <1>4, <2>1, <2>2
    <3>2. QED
      BY <2>1, <3>1, OnceAppends DEF q
  <2>3. CASE k = p
    <3>1. NeverVisited(seen, s[p]) /\ k < p + 1
      BY <1>1, <1>4, <2>3
    <3>2. QED
      BY <2>1, <2>3, <3>1, OnceAppends DEF q
  <2>4. CASE k > p
    <3>1. NeverVisited(seen, s[k]) /\ s[k] # s[p] /\ ~(k < p + 1)
      BY <1>1, <1>4, <2>1, <2>4
    <3>2. QED
      BY <2>1, <3>1, OnceAppends DEF q
  <2>5. QED
    BY <1>1, <2>2, <2>3, <2>4
<1>5. v.nxt = 0 => \A e \in v.stay : VisitedOnce(v.seen, e)
  <2>1. ASSUME v.nxt = 0, NEW e \in stay PROVE VisitedOnce(q, e)
    <3>1. p = n
      BY <1>1, <1>3, <2>1
    <3>2. PICK k \in 1 .. n : s[k] = e
      OBVIOUS
    <3>3. k < p + 1
      BY <1>1, <3>1
    <3>4. QED
      BY <1>4, <3>2, <3>3
  <2>2. QED
    BY <1>2, <2>1
<1>6. ASSUME v.nxt # 0
      PROVE  /\ v.nxt # v.i
             /\ \E m \in 1 .. Len(s) :
                  /\ s[m] = v.nxt
                  /\ \A k \in 1 .. Len(s) : s[k] \in v.stay =>
                       IF k < m THEN VisitedOnce(v.seen, s[k]) ELSE NeverVisited(v.seen, s[k])
  <2>1. p # n /\ v.nxt = s[p + 1]
    BY <1>3, <1>6
  <2>2. p + 1 \in 1 .. n /\ p + 1 # p
    BY <1>1, <2>1
  <2>3. s[p + 1] # s[p]
    BY <1>1, <2>2
  <2>4. QED
    BY <1>2, <1>4, <2>1, <2>2, <2>3
<1>7. v.cnt <= n + 1 /\ v.cnt <= n
  BY <1>1, <1>2
<1>8. ParseKnows(v, s, c2)
  BY <1>5, <1>6, <1>7 DEF ParseKnows
<1>9. QED
  BY <1>2, <1>8 DEF FrameInv, v

\* The marks are taken from the list and from the record that was parsed.
Unparsed(h) == [h EXCEPT !.flags = @ \ {"PARSING"}]

EndedFrame(f) == [f EXCEPT !.pc = "done"]

\* Those before place p have been visited.
VisitedTo(N, s, p, seen, stay) ==
  /\ p \in 1 .. Len(s) /\ seen \in Seq(Recs(N)) /\ stay \in SUBSET Recs(N)
  /\ \A e \in stay : \E k \in 1 .. Len(s) : s[k] = e
  /\ \A k \in 1 .. Len(s) : s[k] \in stay => IF k < p THEN VisitedOnce(seen, s[k]) ELSE NeverVisited(seen, s[k])

\* The mark of a parse passes from record a to record b.
MarkMoved(N, c, c2, a, b) ==
  /\ c2 \in Ctrls(N)
  /\ \A j \in Recs(N) : /\ c2[j].next = c[j].next /\ c2[j].prev = c[j].prev
                        /\ c2[j].flags \ {"PARSING"} = c[j].flags \ {"PARSING"}
                        /\ j # b /\ (j = a \/ "PARSING" \notin c[j].flags) => "PARSING" \notin c2[j].flags

\* As handle_parse moves it to the next record, and back to the first.
MovedMark(c, a, b) ==
  [c EXCEPT ![a].flags = @ \ {"PARSING"}, ![b].flags = @ \cup {"PARSING"}]

RestartMark(N, c, a, b) ==
  [j \in Recs(N) |-> [c[j] EXCEPT !.flags = IF j = b THEN @ \cup {"PARSING"}
                                            ELSE IF j = a THEN @ \ {"PARSING"} ELSE @]]

\* Both move the mark.
LEMMA MarkMoves ==
  ASSUME NEW N \in Nat, NEW c \in Ctrls(N), NEW a \in Recs(N), NEW b \in Recs(N), NEW d,
         d = RestartMark(N, c, a, b) \/ (a # b /\ d = MovedMark(c, a, b))
  PROVE  MarkMoved(N, c, d, a, b)
<1> DEFINE R == [next : 0 .. N, prev : 0 .. N, flags : SUBSET LinkFlags]
           G(j) == IF j = b THEN c[j].flags \cup {"PARSING"}
                   ELSE IF j = a THEN c[j].flags \ {"PARSING"} ELSE c[j].flags
<1>1. \A j \in Recs(N) : c[j] \in R
  BY DEF Ctrls
<1>2. d = [j \in Recs(N) |-> d[j]] /\ \A j \in Recs(N) : d[j] = [c[j] EXCEPT !.flags = G(j)]
  <2>1. CASE d = RestartMark(N, c, a, b)
    BY <2>1 DEF RestartMark
  <2>2. CASE a # b /\ d = MovedMark(c, a, b)
    <3>1. d = [j \in Recs(N) |-> d[j]]
      BY <2>2 DEF MovedMark, Ctrls
    <3>2. ASSUME NEW j \in Recs(N) PROVE d[j] = [c[j] EXCEPT !.flags = G(j)]
      <4>1. CASE j = a
        BY <1>1, <2>2, <4>1 DEF MovedMark, Ctrls
      <4>2. CASE j = b
        BY <1>1, <2>2, <4>2 DEF MovedMark, Ctrls
      <4>3. CASE j # a /\ j # b
        BY <1>1, <2>2, <4>3 DEF MovedMark, Ctrls
      <4>4. QED
        BY <4>1, <4>2, <4>3
    <3>3. QED
      BY <3>1, <3>2
  <2>3. QED
    BY <2>1, <2>2
<1>3. ASSUME NEW j \in Recs(N) PROVE G(j) \in SUBSET LinkFlags
  BY <1>1 DEF LinkFlags
<1>4. ASSUME NEW j \in Recs(N)
      PROVE  G(j) \ {"PARSING"} = c[j].flags \ {"PARSING"}
             /\ (j # b /\ (j = a \/ "PARSING" \notin c[j].flags) => "PARSING" \notin G(j))
  OBVIOUS
<1> HIDE DEF G
<1>5. \A j \in Recs(N) : d[j] \in R /\ d[j].next = c[j].next /\ d[j].prev = c[j].prev /\ d[j].flags = G(j)
  BY <1>1, <1>2, <1>3
<1>6. d \in Ctrls(N)
  BY <1>2, <1>5 DEF Ctrls
<1>7. QED
  BY <1>4, <1>5, <1>6 DEF MarkMoved

Upto(s, n) == SubSeq(s, 1, IF n <= Len(s) THEN n ELSE Len(s))

WalkBody(c, h, w, n) ==
  IF n = 0 THEN <<>>
  ELSE LET nx == IF n = 1 THEN h.head
                 ELSE IF Len(w[n - 1]) < n - 1 THEN 0 ELSE c[w[n - 1][n - 1]].next
       IN IF nx = 0 THEN w[n - 1] ELSE Append(w[n - 1], nx)

\* The first n records of a list, one by one.
LEMMA UptoShape ==
  ASSUME NEW N \in Nat, NEW s \in Seq(Recs(N))
  PROVE  /\ Upto(s, 0) = <<>>
         /\ \A n \in Nat : n >= Len(s) => Upto(s, n) = s
         /\ \A n \in 1 .. Len(s) : /\ Append(Upto(s, n - 1), s[n]) = Upto(s, n)
                                   /\ Len(Upto(s, n)) = n /\ Upto(s, n)[n] = s[n]
<1>1. Upto(s, 0) = <<>>
  BY DEF Upto
<1>2. SubSeq(s, 1, Len(s)) = s
  OBVIOUS
<1>3. ASSUME NEW n \in Nat, n >= Len(s) PROVE Upto(s, n) = s
  <2>1. n <= Len(s) => n = Len(s)
    BY <1>3
  <2>2. QED
    BY <1>2, <2>1 DEF Upto
<1>4. ASSUME NEW n \in 1 .. Len(s)
      PROVE  /\ Append(Upto(s, n - 1), s[n]) = Upto(s, n)
             /\ Len(Upto(s, n)) = n /\ Upto(s, n)[n] = s[n]
  <2>1. Upto(s, n) = SubSeq(s, 1, n) /\ Upto(s, n - 1) = SubSeq(s, 1, n - 1)
    BY DEF Upto
  <2>2. Append(SubSeq(s, 1, n - 1), s[n]) = SubSeq(s, 1, n)
    OBVIOUS
  <2>3. Len(SubSeq(s, 1, n)) = n /\ SubSeq(s, 1, n)[n] = s[n]
    OBVIOUS
  <2>4. QED
    BY <2>1, <2>2, <2>3
<1>5. QED
  BY <1>1, <1>3, <1>4

\* One step of the walk goes one record on, or stays at the end.
LEMMA WalkSteps ==
  ASSUME NEW N \in Nat, NEW c, NEW h, NEW s, IsList(N, s, c, h), NEW n \in 1 .. N,
         NEW w, w[n - 1] = Upto(s, n - 1)
  PROVE  WalkBody(c, h, w, n) = Upto(s, n)
<1> DEFINE nx == IF n = 1 THEN h.head
                 ELSE IF Len(w[n - 1]) < n - 1 THEN 0 ELSE c[w[n - 1][n - 1]].next
           l == Len(s)
<1>1. WalkBody(c, h, w, n) = IF nx = 0 THEN Upto(s, n - 1) ELSE Append(Upto(s, n - 1), nx)
  <2>1. n # 0
    OBVIOUS
  <2>2. QED
    BY <2>1 DEF WalkBody
<1>2. s \in Seq(Recs(N)) /\ l \in Nat /\ n \in Nat /\ n >= 1
  BY DEF IsList
<1>3. \A k \in 1 .. l : s[k] \in Recs(N) /\ s[k] # 0
  BY <1>2 DEF Recs
<1>4. nx = IF n <= l THEN s[n] ELSE 0
  <2>1. CASE n = 1
    BY <1>2, <2>1 DEF IsList
  <2>2. CASE n # 1 /\ l < n - 1
    <3>1. Upto(s, n - 1) = s
      BY <1>2, <2>2, UptoShape
    <3>2. Len(w[n - 1]) < n - 1 /\ ~(n <= l)
      BY <1>2, <2>2, <3>1
    <3>3. QED
      BY <2>2, <3>2
  <2>3. CASE n # 1 /\ n - 1 <= l
    <3>1. n - 1 \in 1 .. l
      BY <1>2, <2>3
    <3>2. Len(w[n - 1]) = n - 1 /\ w[n - 1][n - 1] = s[n - 1]
      BY <1>2, <3>1, UptoShape
    <3>3. nx = c[s[n - 1]].next
      BY <1>2, <2>3, <3>2
    <3>4. c[s[n - 1]].next = IF n - 1 = l THEN 0 ELSE s[n]
      <4>1. (n - 1) + 1 = n
        BY <1>2
      <4>2. c[s[n - 1]].next = IF n - 1 = l THEN 0 ELSE s[(n - 1) + 1]
        BY <3>1 DEF IsList
      <4>3. QED
        BY <4>1, <4>2
    <3>5. n - 1 = l <=> ~(n <= l)
      BY <1>2, <2>3
    <3>6. QED
      BY <3>3, <3>4, <3>5
  <2>4. QED
    BY <1>2, <2>1, <2>2, <2>3
<1> HIDE DEF nx, l
<1>5. CASE n <= l
  <2>1. n \in 1 .. l /\ nx # 0 /\ nx = s[n]
    BY <1>2, <1>3, <1>4, <1>5
  <2>2. QED
    BY <1>1, <1>2, <2>1, UptoShape DEF l
<1>6. CASE ~(n <= l)
  <2>1. nx = 0 /\ n >= l /\ n - 1 >= l /\ n - 1 \in Nat
    BY <1>2, <1>4, <1>6
  <2>2. QED
    BY <1>1, <1>2, <2>1, UptoShape DEF l
<1>7. QED
  BY <1>5, <1>6

-----------------------------------------------------------------------------
(***************************************************************************)
(* Chains of records by their indices: each record has the index of the    *)
(* next one, 0 at the end, and in a doubly linked chain that of the one    *)
(* before it.                                                              *)
(***************************************************************************)
Nth(s, k) == IF k \in 1 .. Len(s) THEN s[k] ELSE 0

Chain(s, first, nx) == first = Nth(s, 1) /\ \A k \in 1 .. Len(s) : nx[s[k]] = Nth(s, k + 1)
BackChain(s, pv) == \A k \in 1 .. Len(s) : pv[s[k]] = Nth(s, k - 1)

\* What is at the places of a list is a record.
LEMMA NthIs ==
  ASSUME NEW N \in Nat, NEW s \in Seq(Recs(N)), NEW k \in Int
  PROVE  /\ Nth(s, k) \in 0 .. N
         /\ Nth(s, k) # 0 <=> k \in 1 .. Len(s)
         /\ Nth(s, k) # 0 => Nth(s, k) \in Range(s) /\ Nth(s, k) = s[k]
<1>1. \A j \in 1 .. Len(s) : s[j] \in Recs(N) /\ s[j] \in Range(s)
  BY DEF Range
<1>2. QED
  BY <1>1 DEF Nth, Recs

\* A record is at one place of a list without repetition.
LEMMA NthIsOne ==
  ASSUME NEW N \in Nat, NEW s \in Seq(Recs(N)), Distinct(s),
         NEW j \in Int, NEW k \in Int, Nth(s, j) = Nth(s, k), Nth(s, j) # 0
  PROVE  j = k
<1>1. j \in 1 .. Len(s) /\ k \in 1 .. Len(s) /\ s[j] = s[k]
  BY NthIs
<1>2. QED
  BY <1>1 DEF Distinct

\* A chain whose records keep their links is one.
LEMMA ChainKeeps ==
  ASSUME NEW N \in Nat, NEW s \in Seq(Recs(N)), NEW first, NEW nx, NEW nx2,
         \A x \in Range(s) : nx2[x] = nx[x], Chain(s, first, nx)
  PROVE  Chain(s, first, nx2)
<1>1. \A j \in 1 .. Len(s) : s[j] \in Range(s)
  BY DEF Range
<1>2. QED
  BY <1>1 DEF Chain

\* Back links that stay are those of the same list.
LEMMA BackKeeps ==
  ASSUME NEW N \in Nat, NEW s \in Seq(Recs(N)), NEW pv, NEW pv2,
         \A x \in Range(s) : pv2[x] = pv[x], BackChain(s, pv)
  PROVE  BackChain(s, pv2)
<1>1. \A j \in 1 .. Len(s) : s[j] \in Range(s)
  BY DEF Range
<1>2. QED
  BY <1>1 DEF BackChain

\* The places of a list with a record in front.
LEMMA NthPrepended ==
  ASSUME NEW N \in Nat, NEW s \in Seq(Recs(N)), NEW e \in Recs(N)
  PROVE  /\ Cons(e, s) \in Seq(Recs(N)) /\ Len(Cons(e, s)) = Len(s) + 1
         /\ \A k \in Int : Nth(Cons(e, s), k) = IF k = 1 THEN e ELSE Nth(s, k - 1)
<1> DEFINE t == Cons(e, s)
<1>1. /\ t \in Seq(Recs(N)) /\ Len(t) = Len(s) + 1
      /\ \A j \in 1 .. Len(s) + 1 : t[j] = IF j = 1 THEN e ELSE s[j - 1]
  BY DEF Cons
<1> HIDE DEF t
<1>2. ASSUME NEW k \in Int PROVE Nth(t, k) = IF k = 1 THEN e ELSE Nth(s, k - 1)
  BY <1>1 DEF Nth
<1>3. QED
  BY <1>1, <1>2 DEF t

\* A record is linked in front of a chain.
LEMMA ChainPrepended ==
  ASSUME NEW N \in Nat, NEW s \in Seq(Recs(N)), NEW e \in Recs(N), NEW first, NEW nx, NEW nx2,
         Chain(s, first, nx), nx2[e] = first, \A x \in Range(s) : nx2[x] = nx[x]
  PROVE  Chain(Cons(e, s), e, nx2)
<1> DEFINE t == Cons(e, s)
<1>1. /\ t \in Seq(Recs(N)) /\ Len(t) = Len(s) + 1
      /\ \A k \in Int : Nth(t, k) = IF k = 1 THEN e ELSE Nth(s, k - 1)
  BY NthPrepended
<1> HIDE DEF t
<1>2. e = Nth(t, 1)
  BY <1>1
<1>3. ASSUME NEW k \in 1 .. Len(t) PROVE nx2[t[k]] = Nth(t, k + 1)
  <2>1. t[k] = Nth(t, k) /\ Nth(t, k + 1) = Nth(s, k)
    <3>1. k + 1 # 1 /\ (k + 1) - 1 = k /\ k + 1 \in Int
      BY <1>1
    <3>2. QED
      BY <1>1, <3>1 DEF Nth
  <2>2. CASE k = 1
    BY <1>1, <2>1, <2>2 DEF Chain
  <2>3. CASE k # 1
    <3>1. k - 1 \in 1 .. Len(s) /\ (k - 1) + 1 = k /\ k \in Int
      BY <1>1, <2>3
    <3>2. t[k] = s[k - 1] /\ s[k - 1] \in Range(s)
      BY <1>1, <2>1, <2>3, <3>1 DEF Nth, Range
    <3>3. nx[s[k - 1]] = Nth(s, k)
      BY <3>1 DEF Chain
    <3>4. QED
      BY <2>1, <3>2, <3>3
  <2>4. QED
    BY <2>2, <2>3
<1>4. QED
  BY <1>2, <1>3 DEF Chain, t

\* The back links with a new first record.
LEMMA BackPrepended ==
  ASSUME NEW N \in Nat, NEW s \in Seq(Recs(N)), Distinct(s), NEW e \in Recs(N),
         NEW pv, NEW pv2, BackChain(s, pv), pv2[e] = 0,
         \A x \in Range(s) : pv2[x] = IF x = Nth(s, 1) THEN e ELSE pv[x]
  PROVE  BackChain(Cons(e, s), pv2)
<1> DEFINE t == Cons(e, s)
<1>1. /\ t \in Seq(Recs(N)) /\ Len(t) = Len(s) + 1
      /\ \A k \in Int : Nth(t, k) = IF k = 1 THEN e ELSE Nth(s, k - 1)
  BY NthPrepended
<1> HIDE DEF t
<1>2. Nth(s, 0) = 0
  BY DEF Nth
<1>3. ASSUME NEW k \in 1 .. Len(t) PROVE pv2[t[k]] = Nth(t, k - 1)
  <2>0. k \in Int /\ k - 1 \in Int /\ t[k] = Nth(t, k) /\ Nth(t, 0) = 0
    BY <1>1 DEF Nth
  <2>1. CASE k = 1
    BY <1>1, <2>0, <2>1
  <2>2. CASE k # 1
    <3>1. k - 1 \in 1 .. Len(s)
      BY <1>1, <2>2
    <3>2. t[k] = s[k - 1] /\ s[k - 1] \in Range(s) /\ s[k - 1] = Nth(s, k - 1)
      BY <1>1, <2>0, <2>2, <3>1 DEF Nth, Range
    <3>3. CASE k = 2
      <4>1. k - 1 = 1
        BY <3>3
      <4>2. pv2[t[k]] = e
        BY <3>2, <4>1
      <4>3. QED
        BY <1>1, <4>1, <4>2
    <3>4. CASE k # 2
      <4>1. k - 1 # 1 /\ Nth(s, k - 1) # 0 /\ s[k - 1] # 0
        BY <2>0, <3>1, <3>2, <3>4, NthIs
      <4>2. s[k - 1] # Nth(s, 1)
        BY <2>0, <3>2, <4>1, NthIsOne
      <4>3. pv2[t[k]] = pv[s[k - 1]]
        BY <3>2, <4>2
      <4>4. pv[s[k - 1]] = Nth(s, (k - 1) - 1)
        BY <3>1 DEF BackChain
      <4>5. Nth(t, k - 1) = Nth(s, (k - 1) - 1)
        BY <1>1, <2>0, <4>1
      <4>6. QED
        BY <4>3, <4>4, <4>5
    <3>5. QED
      BY <3>3, <3>4
  <2>3. QED
    BY <2>1, <2>2
<1>4. QED
  BY <1>3 DEF BackChain, t

\* The rest of a list without repetition.
LEMMA TailIs ==
  ASSUME NEW S, NEW s \in Seq(S), Distinct(s), s # <<>>
  PROVE  /\ Head(s) = s[1] /\ Head(s) \in Range(s) /\ Head(s) \in S
         /\ Tail(s) \in Seq(S) /\ Len(Tail(s)) = Len(s) - 1
         /\ \A j \in 1 .. Len(s) - 1 : Tail(s)[j] = s[j + 1]
         /\ Distinct(Tail(s)) /\ Range(Tail(s)) = Range(s) \ {Head(s)}
<1> DEFINE t == Tail(s)
           first == Head(s)
<1>1. 1 \in 1 .. Len(s) /\ first = s[1] /\ first \in Range(s) /\ first \in S
  BY HeadIsOnList
<1>2. /\ t \in Seq(S) /\ Len(t) = Len(s) - 1
      /\ \A j \in 1 .. Len(t) : t[j] = s[j + 1]
  BY <1>1
<1> HIDE DEF t, first
<1>3. \A j \in 1 .. Len(t) : j + 1 \in 1 .. Len(s) /\ j + 1 # 1
  BY <1>2
<1>4. Distinct(t)
  <2>1. SUFFICES ASSUME NEW m \in 1 .. Len(t), NEW n \in 1 .. Len(t), m # n PROVE t[m] # t[n]
    BY DEF Distinct
  <2>2. m + 1 # n + 1
    BY <2>1
  <2>3. QED
    BY <1>2, <1>3, <2>2 DEF Distinct
<1>5. Range(t) = Range(s) \ {first}
  <2>1. ASSUME NEW j \in 1 .. Len(t) PROVE t[j] \in Range(s) \ {first}
    <3>1. s[j + 1] # s[1]
      BY <1>1, <1>3 DEF Distinct
    <3>2. QED
      BY <1>1, <1>2, <1>3, <3>1 DEF Range
  <2>2. ASSUME NEW j \in 1 .. Len(s), s[j] # first PROVE s[j] \in Range(t)
    <3>1. j - 1 \in 1 .. Len(t) /\ (j - 1) + 1 = j
      BY <1>1, <1>2, <2>2
    <3>2. t[j - 1] = s[j]
      BY <1>2, <3>1
    <3>3. QED
      BY <1>2, <3>1, <3>2, AtPlace
  <2>3. QED
    BY <1>2, <2>1, <2>2 DEF Range
<1>6. QED
  BY <1>1, <1>2, <1>4, <1>5 DEF t, first

\* The rest of a chain.
LEMMA ChainTail ==
  ASSUME NEW N \in Nat, NEW s \in Seq(Recs(N)), NEW first, NEW nx, Distinct(s),
         Chain(s, first, nx), first # 0
  PROVE  /\ first \in Recs(N) /\ first \in Range(s) /\ s # <<>>
         /\ Tail(s) \in Seq(Recs(N)) /\ Len(Tail(s)) = Len(s) - 1
         /\ Distinct(Tail(s)) /\ Range(Tail(s)) = Range(s) \ {first}
         /\ Chain(Tail(s), nx[first], nx)
<1> DEFINE t == Tail(s)
<1>1. 1 \in 1 .. Len(s) /\ first = s[1] /\ s # <<>>
  <2>1. Nth(s, 1) # 0
    BY DEF Chain
  <2>2. 1 \in 1 .. Len(s) /\ Nth(s, 1) = s[1]
    BY <2>1, NthIs
  <2>3. QED
    BY <2>2 DEF Chain
<1>2. /\ t \in Seq(Recs(N)) /\ Len(t) = Len(s) - 1
      /\ \A j \in 1 .. Len(s) - 1 : t[j] = s[j + 1]
      /\ first \in Recs(N) /\ first \in Range(s)
      /\ Distinct(t) /\ Range(t) = Range(s) \ {first}
  BY <1>1, TailIs
<1> HIDE DEF t
<1>3. \A k \in Int : k >= 1 => Nth(t, k) = Nth(s, k + 1)
  <2>1. SUFFICES ASSUME NEW k \in Int, k >= 1 PROVE Nth(t, k) = Nth(s, k + 1)
    OBVIOUS
  <2>2. k \in 1 .. Len(t) <=> k + 1 \in 1 .. Len(s)
    BY <1>2, <2>1
  <2>3. QED
    BY <1>2, <2>2 DEF Nth
<1>4. Chain(t, nx[first], nx)
  <2>1. nx[first] = Nth(t, 1)
    <3>1. nx[s[1]] = Nth(s, 1 + 1)
      BY <1>1 DEF Chain
    <3>2. QED
      BY <1>1, <1>3, <3>1
  <2>2. ASSUME NEW k \in 1 .. Len(t) PROVE nx[t[k]] = Nth(t, k + 1)
    <3>1. k + 1 \in Int /\ k + 1 >= 1 /\ k + 1 \in 1 .. Len(s)
      BY <1>2
    <3>2. nx[s[k + 1]] = Nth(s, (k + 1) + 1)
      BY <3>1 DEF Chain
    <3>3. QED
      BY <1>2, <1>3, <3>1, <3>2
  <2>3. QED
    BY <2>1, <2>2 DEF Chain
<1>5. QED
  BY <1>1, <1>2, <1>4 DEF t

\* The places of a list from which the record at place p is taken.
LEMMA NthRemoved ==
  ASSUME NEW N \in Nat, NEW s \in Seq(Recs(N)), NEW p \in 1 .. Len(s)
  PROVE  /\ RemoveAt(s, p) \in Seq(Recs(N)) /\ Len(RemoveAt(s, p)) = Len(s) - 1
         /\ \A k \in Int : Nth(RemoveAt(s, p), k) = IF k < p THEN Nth(s, k) ELSE Nth(s, k + 1)
<1> DEFINE t == RemoveAt(s, p)
<1>1. /\ t \in Seq(Recs(N)) /\ Len(t) = Len(s) - 1
      /\ \A j \in 1 .. Len(s) - 1 : t[j] = IF j < p THEN s[j] ELSE s[j + 1]
  BY RemoveAtShape
<1> HIDE DEF t
<1>2. ASSUME NEW k \in Int PROVE Nth(t, k) = IF k < p THEN Nth(s, k) ELSE Nth(s, k + 1)
  BY <1>1 DEF Nth
<1>3. QED
  BY <1>1, <1>2 DEF t

\* A record is unlinked from a chain: the one before it and the one after it, or
\* the start of the chain, are linked to each other.
LEMMA ChainRemoved ==
  ASSUME NEW N \in Nat, NEW s \in Seq(Recs(N)), Distinct(s), NEW p \in 1 .. Len(s),
         NEW first, NEW first2, NEW nx, NEW nx2, NEW pv,
         Chain(s, first, nx), BackChain(s, pv),
         first2 = IF pv[s[p]] = 0 THEN nx[s[p]] ELSE first,
         \A x \in Range(s) \ {s[p]} : nx2[x] = IF x = pv[s[p]] THEN nx[s[p]] ELSE nx[x]
  PROVE  Chain(RemoveAt(s, p), first2, nx2)
<1> DEFINE t == RemoveAt(s, p)
<1>1. /\ t \in Seq(Recs(N)) /\ Len(t) = Len(s) - 1
      /\ \A k \in Int : Nth(t, k) = IF k < p THEN Nth(s, k) ELSE Nth(s, k + 1)
  BY NthRemoved
<1> HIDE DEF t
<1>2. pv[s[p]] = Nth(s, p - 1) /\ nx[s[p]] = Nth(s, p + 1) /\ p \in Int /\ Nth(s, 0) = 0
  BY DEF Chain, BackChain, Nth
<1>3. first2 = Nth(t, 1)
  <2>1. CASE p = 1
    <3>1. Nth(t, 1) = Nth(s, 1 + 1) /\ Nth(s, p - 1) = 0
      BY <1>1, <1>2, <2>1
    <3>2. QED
      BY <1>2, <2>1, <3>1
  <2>2. CASE p # 1
    <3>1. Nth(s, p - 1) # 0
      <4>1. p - 1 \in 1 .. Len(s) /\ p - 1 \in Int
        BY <2>2
      <4>2. QED
        BY <4>1, NthIs
    <3>2. Nth(t, 1) = Nth(s, 1)
      BY <1>1, <1>2, <2>2
    <3>3. QED
      BY <1>2, <3>1, <3>2 DEF Chain
  <2>3. QED
    BY <2>1, <2>2
<1>4. ASSUME NEW j \in 1 .. Len(s), j # p
      PROVE  nx2[s[j]] = IF j = p - 1 THEN Nth(s, p + 1) ELSE Nth(s, j + 1)
  <2>1. s[j] \in Range(s) \ {s[p]} /\ s[j] = Nth(s, j) /\ s[j] # 0 /\ j \in Int /\ p - 1 \in Int
    <3>1. s[j] # s[p]
      BY <1>4 DEF Distinct
    <3>2. j \in Int /\ p - 1 \in Int /\ Nth(s, j) # 0
      BY NthIs
    <3>3. QED
      BY <3>1, <3>2 DEF Range, Nth
  <2>2. s[j] = Nth(s, p - 1) <=> j = p - 1
    <3>1. s[j] = Nth(s, p - 1) => j = p - 1
      BY <2>1, NthIsOne
    <3>2. QED
      BY <2>1, <3>1
  <2>3. nx[s[j]] = Nth(s, j + 1)
    BY DEF Chain
  <2>4. QED
    BY <1>2, <2>1, <2>2, <2>3
<1>5. ASSUME NEW k \in 1 .. Len(t) PROVE nx2[t[k]] = Nth(t, k + 1)
  <2>1. t[k] = Nth(t, k) /\ k \in Int /\ k + 1 \in Int
    BY DEF Nth
  <2>2. CASE k < p
    <3>1. k \in 1 .. Len(s) /\ k # p /\ t[k] = s[k]
      BY <1>1, <2>1, <2>2 DEF Nth
    <3>2. nx2[s[k]] = IF k = p - 1 THEN Nth(s, p + 1) ELSE Nth(s, k + 1)
      BY <1>4, <3>1
    <3>3. CASE k = p - 1
      <4>1. ~(k + 1 < p) /\ (k + 1) + 1 = p + 1
        BY <3>3
      <4>2. QED
        BY <1>1, <2>1, <3>1, <3>2, <3>3, <4>1
    <3>4. CASE k # p - 1
      <4>1. k + 1 < p
        BY <2>2, <3>4
      <4>2. QED
        BY <1>1, <2>1, <3>1, <3>2, <3>4, <4>1
    <3>5. QED
      BY <3>3, <3>4
  <2>3. CASE ~(k < p)
    <3>1. k + 1 \in 1 .. Len(s) /\ k + 1 # p /\ k + 1 # p - 1 /\ ~(k + 1 < p)
      BY <1>1, <2>3
    <3>2. t[k] = s[k + 1]
      BY <1>1, <2>1, <2>3, <3>1 DEF Nth
    <3>3. nx2[s[k + 1]] = Nth(s, (k + 1) + 1)
      BY <1>4, <3>1
    <3>4. Nth(t, k + 1) = Nth(s, (k + 1) + 1)
      BY <1>1, <2>1, <3>1
    <3>5. QED
      BY <3>2, <3>3, <3>4
  <2>4. QED
    BY <2>2, <2>3
<1>6. QED
  BY <1>3, <1>5 DEF Chain, t

\* The back links without one record.
LEMMA BackRemoved ==
  ASSUME NEW N \in Nat, NEW s \in Seq(Recs(N)), Distinct(s), NEW p \in 1 .. Len(s),
         NEW first, NEW nx, NEW pv, NEW pv2, Chain(s, first, nx), BackChain(s, pv),
         \A x \in Range(s) \ {s[p]} : pv2[x] = IF x = nx[s[p]] THEN pv[s[p]] ELSE pv[x]
  PROVE  BackChain(RemoveAt(s, p), pv2)
<1> DEFINE t == RemoveAt(s, p)
<1>1. /\ t \in Seq(Recs(N)) /\ Len(t) = Len(s) - 1
      /\ \A k \in Int : Nth(t, k) = IF k < p THEN Nth(s, k) ELSE Nth(s, k + 1)
  BY NthRemoved
<1> HIDE DEF t
<1>2. pv[s[p]] = Nth(s, p - 1) /\ nx[s[p]] = Nth(s, p + 1) /\ p \in Int
  BY DEF Chain, BackChain, Nth
<1>3. ASSUME NEW j \in 1 .. Len(s), j # p
      PROVE  pv2[s[j]] = IF j = p + 1 THEN Nth(s, p - 1) ELSE Nth(s, j - 1)
  <2>1. s[j] \in Range(s) \ {s[p]} /\ s[j] = Nth(s, j) /\ s[j] # 0 /\ j \in Int /\ p + 1 \in Int
    <3>1. s[j] # s[p]
      BY <1>3 DEF Distinct
    <3>2. j \in Int /\ p + 1 \in Int /\ Nth(s, j) # 0
      BY NthIs
    <3>3. QED
      BY <3>1, <3>2 DEF Range, Nth
  <2>2. s[j] = Nth(s, p + 1) <=> j = p + 1
    <3>1. s[j] = Nth(s, p + 1) => j = p + 1
      BY <2>1, NthIsOne
    <3>2. QED
      BY <2>1, <3>1
  <2>3. pv[s[j]] = Nth(s, j - 1)
    BY DEF BackChain
  <2>4. QED
    BY <1>2, <2>1, <2>2, <2>3
<1>4. ASSUME NEW k \in 1 .. Len(t) PROVE pv2[t[k]] = Nth(t, k - 1)
  <2>1. t[k] = Nth(t, k) /\ k \in Int /\ k - 1 \in Int
    BY DEF Nth
  <2>2. CASE k < p
    <3>1. k \in 1 .. Len(s) /\ k # p /\ t[k] = s[k] /\ k # p + 1 /\ k - 1 < p
      BY <1>1, <2>1, <2>2 DEF Nth
    <3>2. pv2[s[k]] = Nth(s, k - 1)
      BY <1>3, <3>1
    <3>3. QED
      BY <1>1, <2>1, <3>1, <3>2
  <2>3. CASE ~(k < p)
    <3>1. k + 1 \in 1 .. Len(s) /\ k + 1 # p
      BY <1>1, <2>3
    <3>2. t[k] = s[k + 1]
      BY <1>1, <2>1, <2>3, <3>1 DEF Nth
    <3>3. pv2[s[k + 1]] = IF k + 1 = p + 1 THEN Nth(s, p - 1) ELSE Nth(s, (k + 1) - 1)
      BY <1>3, <3>1
    <3>4. Nth(t, k - 1) = IF k - 1 < p THEN Nth(s, k - 1) ELSE Nth(s, (k - 1) + 1)
      BY <1>1, <2>1
    <3>5. (k + 1 = p + 1 => k - 1 < p /\ k - 1 = p - 1) /\ (k + 1 # p + 1 => ~(k - 1 < p))
          /\ (k + 1) - 1 = k /\ (k - 1) + 1 = k
      BY <2>3
    <3>6. QED
      BY <3>2, <3>3, <3>4, <3>5
  <2>4. QED
    BY <2>2, <2>3
<1>5. QED
  BY <1>4 DEF BackChain, t

\* What is left of the records without the one at place p.
LEMMA RangeRemoved ==
  ASSUME NEW S, NEW s \in Seq(S), Distinct(s), NEW p \in 1 .. Len(s)
  PROVE  Distinct(RemoveAt(s, p)) /\ Range(RemoveAt(s, p)) = Range(s) \ {s[p]}
<1>1. s[p] \in Range(s)
  BY AtPlace
<1>2. PICK q \in 1 .. Len(s) : s[q] = s[p] /\ RemoveFirst(s, s[p]) = RemoveAt(s, q)
  BY <1>1, RemoveFirstShape
<1>3. p = q
  BY <1>2 DEF Distinct
<1>4. QED
  BY <1>2, <1>3, Unlinked

\* As many different records as there are.
LEMMA DistinctFits ==
  ASSUME NEW N \in Nat, NEW s \in Seq(Recs(N)), Distinct(s)
  PROVE  Len(s) <= N /\ Cardinality({s[k] : k \in DOMAIN s}) = Len(s)
<1>1. Cardinality(Range(s)) = Len(s)
  BY DistinctCount
<1>2. Range(s) \subseteq 1 .. N /\ Range(s) = {s[k] : k \in DOMAIN s}
  BY DEF Range, Recs
<1>3. IsFiniteSet(1 .. N) /\ Cardinality(1 .. N) = N
  BY FS_Interval
<1>4. Cardinality(Range(s)) <= Cardinality(1 .. N)
  BY <1>2, <1>3, FS_Subset
<1>5. QED
  BY <1>1, <1>2, <1>3, <1>4

ChainBody(first, nx, w, n) ==
  IF n = 0 THEN <<>>
  ELSE LET x == IF n = 1 THEN first
                ELSE IF Len(w[n - 1]) < n - 1 THEN 0 ELSE nx[w[n - 1][n - 1]]
       IN IF x = 0 THEN w[n - 1] ELSE Append(w[n - 1], x)

\* The walk along a chain of at most N records.
ChainWalk(N, first, nx) == (CHOOSE w : w = [n \in 0 .. N |-> ChainBody(first, nx, w, n)])[N]

\* One step of the walk goes one record on, or stays at the end.
LEMMA ChainSteps ==
  ASSUME NEW N \in Nat, NEW first, NEW nx, NEW s \in Seq(Recs(N)), Chain(s, first, nx),
         NEW n \in 1 .. N, NEW w, w[n - 1] = Upto(s, n - 1)
  PROVE  ChainBody(first, nx, w, n) = Upto(s, n)
<1> DEFINE x == IF n = 1 THEN first
                ELSE IF Len(w[n - 1]) < n - 1 THEN 0 ELSE nx[w[n - 1][n - 1]]
           l == Len(s)
<1>1. ChainBody(first, nx, w, n) = IF x = 0 THEN Upto(s, n - 1) ELSE Append(Upto(s, n - 1), x)
  <2>1. n # 0
    OBVIOUS
  <2>2. QED
    BY <2>1 DEF ChainBody
<1>2. l \in Nat /\ n \in Nat /\ n >= 1
  OBVIOUS
<1>3. x = Nth(s, n)
  <2>1. CASE n = 1
    BY <1>2, <2>1 DEF Chain
  <2>2. CASE n # 1 /\ l < n - 1
    <3>1. Upto(s, n - 1) = s
      BY <1>2, <2>2, UptoShape
    <3>2. Len(w[n - 1]) < n - 1 /\ ~(n \in 1 .. Len(s))
      BY <1>2, <2>2, <3>1
    <3>3. QED
      BY <2>2, <3>2 DEF Nth
  <2>3. CASE n # 1 /\ n - 1 <= l
    <3>1. n - 1 \in 1 .. l /\ (n - 1) + 1 = n
      BY <1>2, <2>3
    <3>2. Len(w[n - 1]) = n - 1 /\ w[n - 1][n - 1] = s[n - 1]
      BY <1>2, <3>1, UptoShape
    <3>3. x = nx[s[n - 1]]
      BY <1>2, <2>3, <3>2
    <3>4. QED
      BY <3>1, <3>3 DEF Chain
  <2>4. QED
    BY <1>2, <2>1, <2>2, <2>3
<1> HIDE DEF x
<1>4. CASE n <= l
  <2>1. n \in 1 .. l /\ x # 0 /\ x = s[n]
    <3>1. n \in 1 .. Len(s) /\ n \in Int
      BY <1>2, <1>4
    <3>2. Nth(s, n) # 0 /\ Nth(s, n) = s[n]
      BY <3>1, NthIs
    <3>3. QED
      BY <1>3, <3>1, <3>2
  <2>2. QED
    BY <1>1, <1>2, <2>1, UptoShape
<1>5. CASE ~(n <= l)
  <2>1. x = 0 /\ n >= l /\ n - 1 >= l /\ n - 1 \in Nat
    BY <1>2, <1>3, <1>5 DEF Nth
  <2>2. QED
    BY <1>1, <1>2, <2>1, UptoShape
<1>6. QED
  BY <1>4, <1>5

\* The walk along a chain without repetition is the chain: two functions with the
\* same step agree at the least place where they could differ.
LEMMA ChainWalkIs ==
  ASSUME NEW N \in Nat, NEW first, NEW nx, NEW s \in Seq(Recs(N)), Distinct(s),
         Chain(s, first, nx)
  PROVE  ChainWalk(N, first, nx) = s /\ Len(s) <= N
<1> DEFINE Dom == 0 .. N
           g == [n \in Dom |-> Upto(s, n)]
           IsWalk(w) == w = [n \in Dom |-> ChainBody(first, nx, w, n)]
<1>1. ChainWalk(N, first, nx) = (CHOOSE w : IsWalk(w))[N]
  BY DEF ChainWalk
<1>2. ChainBody(first, nx, g, 0) = Upto(s, 0)
  BY UptoShape DEF ChainBody
<1>3. ASSUME NEW n \in Dom PROVE n = 0 \/ (n \in 1 .. N /\ n - 1 \in Dom /\ n \in Nat)
  OBVIOUS
<1>4. IsWalk(g)
  <2>1. ASSUME NEW n \in Dom PROVE ChainBody(first, nx, g, n) = Upto(s, n)
    <3>1. CASE n = 0
      BY <1>2, <3>1
    <3>2. CASE n # 0
      <4>1. n \in 1 .. N /\ g[n - 1] = Upto(s, n - 1)
        BY <1>3, <3>2
      <4> HIDE DEF g
      <4>2. QED
        BY <4>1, ChainSteps
    <3>3. QED
      BY <3>1, <3>2
  <2>2. [n \in Dom |-> ChainBody(first, nx, g, n)] = [n \in Dom |-> Upto(s, n)]
    BY <2>1
  <2>3. QED
    BY <2>2
<1>5. ASSUME NEW w, IsWalk(w) PROVE w[N] = g[N]
  <2> DEFINE B == {n \in Dom : w[n] # g[n]}
  <2>1. CASE B = {}
    <3>1. N \in Dom
      OBVIOUS
    <3> HIDE DEF g
    <3>2. w[N] = g[N]
      BY <2>1, <3>1
    <3>3. QED
      BY <3>2
  <2>2. CASE B # {}
    <3>1. Min(B) \in B /\ \A y \in B : Min(B) <= y
      <4>1. B \in SUBSET Nat
        OBVIOUS
      <4> HIDE DEF B
      <4>2. QED
        BY <2>2, <4>1, MinIsOne
    <3>2. PICK m \in B : \A y \in B : m <= y
      BY <3>1
    <3>3. m \in Dom /\ w[m] = ChainBody(first, nx, w, m) /\ w[m] # g[m] /\ g[m] = Upto(s, m)
      BY <1>5
    <3>4. m # 0
      BY <3>3, UptoShape DEF ChainBody
    <3>5. m \in 1 .. N /\ m - 1 \in Dom /\ m \in Nat
      BY <1>3, <3>3, <3>4
    <3>6. m - 1 \notin B
      BY <3>2, <3>5
    <3>7. w[m - 1] = Upto(s, m - 1)
      BY <3>5, <3>6
    <3>8. ChainBody(first, nx, w, m) = Upto(s, m)
      BY <3>5, <3>7, ChainSteps
    <3>9. QED
      BY <3>3, <3>8
  <2>3. QED
    BY <2>1, <2>2
<1>6. IsWalk(CHOOSE w : IsWalk(w))
  <2> HIDE DEF IsWalk, g
  <2>1. QED
    BY <1>4
<1>7. ChainWalk(N, first, nx) = g[N]
  <2> HIDE DEF IsWalk, g
  <2>1. QED
    BY <1>1, <1>5, <1>6
<1>8. Len(s) <= N
  BY DistinctFits
<1>9. g[N] = s
  BY <1>8, UptoShape
<1>10. QED
  BY <1>7, <1>8, <1>9

\* New records go before the chain, the last one first.
NewLinks(N, A, first, nx, nx2) ==
  /\ \A x \in Recs(N) : nx2[x] = nx[x]
  /\ nx2[N + 1] = first
  /\ \A x \in (N + 2) .. (N + A) : nx2[x] = x - 1

LongerChain(N, A, s, r, nx2) ==
  /\ r \in Seq(Recs(N + A)) /\ Distinct(r) /\ Len(r) = Len(s) + A
  /\ \A x \in Recs(N + A) : x \in Range(r) <=> x > N \/ x \in Range(s)
  /\ Chain(r, N + A, nx2)

\* New records that are linked before the first one make a longer list.
LEMMA ChainGrown ==
  ASSUME NEW N \in Nat, NEW A \in Nat \ {0}, NEW s \in Seq(Recs(N)), Distinct(s),
         NEW first, NEW nx, NEW nx2, Chain(s, first, nx), NewLinks(N, A, first, nx, nx2)
  PROVE  \E r : LongerChain(N, A, s, r, nx2)
<1> USE DEF NewLinks
<1> DEFINE n == Len(s)
           r == [k \in 1 .. (n + A) |-> IF k <= A THEN (N + A + 1) - k ELSE s[k - A]]
<1>1. n \in Nat /\ n + A \in Nat /\ \A k \in 1 .. n : s[k] \in 1 .. N /\ s[k] \in Range(s)
  BY DEF Recs, Range
<1>2. \A k \in 1 .. (n + A) : k <= A \/ k - A \in 1 .. n
  BY <1>1
<1>3. \A k \in 1 .. (n + A) : r[k] \in Recs(N + A)
  BY <1>1, <1>2 DEF Recs
<1>4. r \in Seq(Recs(N + A)) /\ Len(r) = n + A /\ DOMAIN r = 1 .. (n + A)
  <2>1. r \in [1 .. (n + A) -> Recs(N + A)]
    BY <1>3
  <2>2. PICK m \in Nat : m = n + A
    BY <1>1
  <2> HIDE DEF r
  <2>3. r \in [1 .. m -> Recs(N + A)]
    BY <2>1, <2>2
  <2>4. r \in Seq(Recs(N + A)) /\ Len(r) = m /\ DOMAIN r = 1 .. m
    BY <2>3
  <2>5. QED
    BY <2>2, <2>4
<1>5. ASSUME NEW j \in 1 .. (n + A), NEW k \in 1 .. (n + A), j # k PROVE r[j] # r[k]
  <2>1. CASE j <= A /\ k <= A
    BY <1>5, <2>1
  <2>2. CASE j <= A /\ ~(k <= A)
    BY <1>1, <1>2, <2>2
  <2>3. CASE ~(j <= A) /\ k <= A
    BY <1>1, <1>2, <2>3
  <2>4. CASE ~(j <= A) /\ ~(k <= A)
    <3>1. j - A \in 1 .. n /\ k - A \in 1 .. n /\ j - A # k - A
      BY <1>2, <1>5, <2>4
    <3>2. r[j] = s[j - A] /\ r[k] = s[k - A]
      BY <2>4
    <3>3. QED
      BY <3>1, <3>2 DEF Distinct
  <2>5. QED
    BY <2>1, <2>2, <2>3, <2>4
<1>6. Distinct(r)
  BY <1>4, <1>5 DEF Distinct
<1>7. ASSUME NEW x \in Recs(N + A) PROVE x \in Range(r) <=> x > N \/ x \in Range(s)
  <2>1. ASSUME x > N PROVE x \in Range(r)
    <3>1. (N + A + 1) - x \in 1 .. A /\ (N + A + 1) - x \in 1 .. (n + A)
      BY <1>1, <2>1 DEF Recs
    <3>2. r[(N + A + 1) - x] = x
      BY <3>1 DEF Recs
    <3>3. QED
      BY <1>4, <3>1, <3>2 DEF Range
  <2>2. ASSUME x \in Range(s) PROVE x \in Range(r)
    <3>1. PICK k \in 1 .. n : s[k] = x
      BY <2>2 DEF Range
    <3>2. k + A \in 1 .. (n + A) /\ ~(k + A <= A) /\ (k + A) - A = k
      BY <1>1
    <3>3. r[k + A] = x
      BY <3>1, <3>2
    <3>4. QED
      BY <1>4, <3>2, <3>3 DEF Range
  <2>3. ASSUME x \in Range(r) PROVE x > N \/ x \in Range(s)
    <3>1. PICK k \in 1 .. (n + A) : r[k] = x
      BY <1>4, <2>3 DEF Range
    <3>2. QED
      BY <1>1, <1>2, <3>1
  <2>4. QED
    BY <2>1, <2>2, <2>3
<1>8. ASSUME NEW k \in 1 .. (n + A) PROVE nx2[r[k]] = Nth(r, k + 1)
  <2>1. CASE k < A
    <3>1. r[k] = (N + A + 1) - k /\ r[k + 1] = (N + A) - k /\ k + 1 \in 1 .. (n + A)
      BY <1>1, <2>1
    <3>2. (N + A + 1) - k \in (N + 2) .. (N + A) /\ ((N + A + 1) - k) - 1 = (N + A) - k
      BY <2>1
    <3>3. nx2[(N + A + 1) - k] = (N + A) - k
      BY <3>2
    <3>4. QED
      BY <1>4, <3>1, <3>3 DEF Nth
  <2>2. CASE k = A
    <3>1. r[k] = N + 1
      BY <2>2
    <3>2. Nth(r, k + 1) = Nth(s, 1)
      <4>1. k + 1 \in 1 .. (n + A) <=> 1 \in 1 .. n
        BY <1>1, <2>2
      <4>2. k + 1 \in 1 .. (n + A) => r[k + 1] = s[1]
        BY <2>2
      <4>3. QED
        BY <1>4, <4>1, <4>2 DEF Nth
    <3>3. QED
      BY <3>1, <3>2 DEF Chain
  <2>3. CASE k > A
    <3>1. k - A \in 1 .. n /\ r[k] = s[k - A] /\ s[k - A] \in Recs(N)
      BY <1>2, <2>3
    <3>2. Nth(r, k + 1) = Nth(s, (k - A) + 1)
      <4>1. k + 1 \in 1 .. (n + A) <=> (k - A) + 1 \in 1 .. n
        BY <1>1, <2>3
      <4>2. k + 1 \in 1 .. (n + A) => r[k + 1] = s[(k - A) + 1]
        <5>1. (k + 1) - A = (k - A) + 1 /\ ~(k + 1 <= A)
          BY <2>3
        <5>2. QED
          BY <5>1
      <4>3. QED
        BY <1>4, <4>1, <4>2 DEF Nth
    <3>3. nx2[s[k - A]] = nx[s[k - A]]
      BY <3>1
    <3>4. nx[s[k - A]] = Nth(s, (k - A) + 1)
      BY <3>1 DEF Chain
    <3>5. QED
      BY <3>1, <3>2, <3>3, <3>4
  <2>4. QED
    BY <2>1, <2>2, <2>3
<1>9. N + A = Nth(r, 1)
  <2>1. 1 \in 1 .. (n + A) /\ r[1] = N + A
    BY <1>1
  <2>2. QED
    BY <1>4, <2>1 DEF Nth
<1> HIDE DEF r
<1>10. Chain(r, N + A, nx2)
  BY <1>4, <1>8, <1>9 DEF Chain
<1>11. QED
  BY <1>4, <1>6, <1>7, <1>10 DEF LongerChain
=============================================================================
