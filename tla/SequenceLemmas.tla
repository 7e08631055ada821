--------------------------- MODULE SequenceLemmas ---------------------------
(***************************************************************************)
(* What the operations on lists and deques do to a sequence: append,        *)
(* popleft (Tail) and remove (RemoveFirst), for the proofs about the        *)
(* modules whose state holds sequences.                                    *)
(***************************************************************************)
EXTENDS Integers, SequencesExt, SequenceTheorems, FiniteSetTheorems, WellFoundedInduction, TLAPS

\* No element of S occurs twice in s.
Once(s, S) == \A i, j \in DOMAIN s : s[i] \in S /\ s[i] = s[j] => i = j

\* r holds a part of the elements of s, in the order they have in s.
Keeps(r, s) ==
  \A i, j \in DOMAIN r : i < j =>
    \E k, l \in DOMAIN s : k < l /\ r[i] = s[k] /\ r[j] = s[l]

LEMMA ToSetIn ==
  ASSUME NEW S, NEW s \in Seq(S)
  PROVE  /\ ToSet(s) \subseteq S
         /\ \A x : x \in ToSet(s) <=> \E i \in DOMAIN s : s[i] = x
         /\ s = <<>> <=> ToSet(s) = {}
  <1>1. ToSet(s) \subseteq S /\ \A x : x \in ToSet(s) <=> \E i \in DOMAIN s : s[i] = x
    BY ElementOfSeq, LenProperties DEF ToSet
  <1>2. s # <<>> => 1 \in DOMAIN s
    BY EmptySeq, LenProperties
  <1>3. s = <<>> => ToSet(s) = {}
    BY DEF ToSet
  <1>. QED
    BY <1>1, <1>2, <1>3

LEMMA EmptyToSet == ToSet(<<>>) = {}
  BY DEF ToSet

\* The new element is the last one.
LEMMA AppendAtEnd ==
  ASSUME NEW S, NEW s \in Seq(S), NEW x \in S
  PROVE  /\ Append(s, x) \in Seq(S)
         /\ DOMAIN Append(s, x) = DOMAIN s \cup {Len(s) + 1}
         /\ \A i \in DOMAIN s : Append(s, x)[i] = s[i]
         /\ Append(s, x)[Len(s) + 1] = x
         /\ \A i \in DOMAIN s : i < Len(s) + 1
         /\ ToSet(Append(s, x)) = ToSet(s) \cup {x}
  <1>1. /\ Append(s, x) \in Seq(S)
        /\ Len(Append(s, x)) = Len(s) + 1
        /\ \A i \in 1..Len(s) : Append(s, x)[i] = s[i]
        /\ Append(s, x)[Len(s) + 1] = x
    BY AppendProperties
  <1>2. DOMAIN s = 1..Len(s) /\ DOMAIN Append(s, x) = 1..(Len(s) + 1) /\ Len(s) \in Nat
    BY <1>1, LenProperties
  <1>. QED
    BY <1>1, <1>2 DEF ToSet

LEMMA AppendOnce ==
  ASSUME NEW S, NEW s \in Seq(S), NEW x \in S, NEW T, Once(s, T), x \notin ToSet(s)
  PROVE  Once(Append(s, x), T)
  BY AppendAtEnd, ToSetIn DEF Once

\* The head is taken; the others keep their order.
LEMMA TailOfSeq ==
  ASSUME NEW S, NEW s \in Seq(S), s # <<>>
  PROVE  /\ Tail(s) \in Seq(S)
         /\ Head(s) \in S
         /\ Head(s) = s[1]
         /\ 1 \in DOMAIN s
         /\ \A i : i \in DOMAIN Tail(s) <=> i \in Nat /\ i # 0 /\ i + 1 \in DOMAIN s
         /\ \A i \in DOMAIN Tail(s) : Tail(s)[i] = s[i + 1]
         /\ ToSet(s) = {Head(s)} \cup ToSet(Tail(s))
  <1>1. /\ Head(s) \in S /\ Tail(s) \in Seq(S)
        /\ Len(Tail(s)) = Len(s) - 1
        /\ \A i \in 1..Len(Tail(s)) : Tail(s)[i] = s[i + 1]
    BY HeadTailProperties
  <1>2. Head(s) = s[1] /\ Len(s) \in Nat /\ Len(s) # 0 /\ DOMAIN s = 1..Len(s)
    BY LenProperties, EmptySeq
  <1>3. DOMAIN Tail(s) = 1..(Len(s) - 1)
    BY <1>1, LenProperties
  <1>4. \A i : i \in DOMAIN Tail(s) <=> i \in Nat /\ i # 0 /\ i + 1 \in DOMAIN s
    BY <1>2, <1>3
  <1>5. ToSet(s) \subseteq {Head(s)} \cup ToSet(Tail(s))
    <2>. SUFFICES ASSUME NEW k \in DOMAIN s PROVE s[k] \in {Head(s)} \cup ToSet(Tail(s))
      BY DEF ToSet
    <2>1. CASE k = 1
      BY <2>1, <1>2
    <2>2. CASE k # 1
      <3>1. k - 1 \in DOMAIN Tail(s) /\ Tail(s)[k - 1] = s[k]
        BY <2>2, <1>1, <1>2, <1>3
      <3>. QED
        BY <3>1 DEF ToSet
    <2>. QED
      BY <2>1, <2>2
  <1>6. {Head(s)} \cup ToSet(Tail(s)) \subseteq ToSet(s)
    BY <1>1, <1>2, <1>3, <1>4 DEF ToSet
  <1>. QED
    BY <1>1, <1>2, <1>3, <1>4, <1>5, <1>6

LEMMA TailOnce ==
  ASSUME NEW S, NEW s \in Seq(S), NEW T, Once(s, T), s # <<>>
  PROVE  /\ Once(Tail(s), T)
         /\ Head(s) \in T => Head(s) \notin ToSet(Tail(s))
  <1>1. Once(Tail(s), T)
    BY TailOfSeq, LenProperties DEF Once
  <1>2. ASSUME NEW i \in DOMAIN Tail(s), Tail(s)[i] = Head(s), Head(s) \in T PROVE FALSE
    BY <1>2, TailOfSeq DEF Once
  <1>. QED
    BY <1>1, <1>2 DEF ToSet

\* Among natural numbers one is the least.
LEMMA LeastOne ==
  ASSUME NEW S \in SUBSET Nat, S # {}
  PROVE  \E m \in S : \A n \in S : m <= n
  <1>. DEFINE R == {ss \in Nat \X Nat : ss[1] < ss[2]}
  <1>1. IsWellFoundedOn(R, Nat)
    BY NatLessThanWellFounded DEF OpToRel
  <1>2. \A m, n \in S : <<n, m>> \in R <=> n < m
    OBVIOUS
  <1>. HIDE DEF R
  <1>3. PICK m \in S : \A n \in S : ~(<<n, m>> \in R)
    BY <1>1, WFMin
  <1>4. \A n \in S : ~(n < m)
    BY <1>2, <1>3
  <1>5. \A n \in S : m <= n
    BY <1>4
  <1>. QED
    BY <1>5

\* remove() takes the first occurrence out.
LEMMA FirstRemoved ==
  ASSUME NEW S, NEW s \in Seq(S), NEW x \in ToSet(s)
  PROVE  /\ RemoveFirst(s, x) \in Seq(S)
         /\ Len(RemoveFirst(s, x)) = Len(s) - 1
         /\ \E i \in DOMAIN s :
              /\ s[i] = x
              /\ \A j \in DOMAIN RemoveFirst(s, x) :
                   RemoveFirst(s, x)[j] = IF j < i THEN s[j] ELSE s[j + 1]
  <1>1. DOMAIN s = 1..Len(s) /\ Len(s) \in Nat
    BY LenProperties
  <1>2. PICK l \in Nat : l = Len(s)
    BY <1>1
  <1>. DEFINE I == {j \in 1..l : s[j] = x}
              m == Min(I)
  <1>3. I # {} /\ I \in SUBSET Nat
    BY <1>1, <1>2, ToSetIn
  <1>4. m \in I
    <2>1. \E k \in I : \A n \in I : k <= n
      BY <1>3, LeastOne
    <2>. QED
      BY <2>1 DEF Min
  <1>5. \E j \in 1..Len(s) : s[j] = x
    BY <1>2, <1>3
  <1>6. RemoveFirst(s, x) = SubSeq(s, 1, m - 1) \o SubSeq(s, m + 1, l)
    BY <1>2, <1>3, <1>5 DEF RemoveFirst, SelectInSeq, RemoveAt
  <1>. HIDE DEF m
  <1>7. PICK i \in 1..l : s[i] = x /\ i = m
    BY <1>4
  <1>. HIDE DEF I
  <1>8. \A j \in 1..l : s[j] \in S
    BY <1>1, <1>2, ElementOfSeq
  <1>9. PICK a \in Seq(S) : a = SubSeq(s, 1, i - 1) /\ Len(a) = i - 1 /\ \A j \in 1..(i - 1) : a[j] = s[j]
    <2>1. PICK k \in Int : k = i - 1
      BY <1>7
    <2>2. \A j \in 1..k : s[j] \in S
      BY <1>7, <1>8, <2>1
    <2>3. /\ SubSeq(s, 1, k) \in Seq(S)
          /\ Len(SubSeq(s, 1, k)) = IF 1 <= k THEN k - 1 + 1 ELSE 0
          /\ \A j \in 1..(k - 1 + 1) : SubSeq(s, 1, k)[j] = s[1 + j - 1]
      BY <2>2, SubSeqProperties
    <2>4. PICK q \in Seq(S) : q = SubSeq(s, 1, k) /\ Len(q) = (IF 1 <= k THEN k - 1 + 1 ELSE 0)
            /\ \A j \in 1..(k - 1 + 1) : q[j] = s[1 + j - 1]
      BY <2>3
    <2>5. k >= 0 /\ k - 1 + 1 = k
      BY <1>7, <2>1
    <2>6. Len(q) = k
      BY <2>4, <2>5
    <2>7. \A j \in 1..k : q[j] = s[j]
      BY <2>4, <2>5
    <2>. QED
      BY <2>1, <2>4, <2>6, <2>7
  <1>10. PICK b \in Seq(S) : b = SubSeq(s, i + 1, l) /\ Len(b) = l - i /\ \A j \in 1..(l - i) : b[j] = s[i + j]
    <2>1. PICK k \in Int : k = i + 1
      BY <1>7
    <2>2. \A j \in k..l : s[j] \in S
      BY <1>7, <1>8, <2>1
    <2>3. /\ SubSeq(s, k, l) \in Seq(S)
          /\ Len(SubSeq(s, k, l)) = IF k <= l THEN l - k + 1 ELSE 0
          /\ \A j \in 1..(l - k + 1) : SubSeq(s, k, l)[j] = s[k + j - 1]
      BY <2>2, SubSeqProperties
    <2>4. PICK q \in Seq(S) : q = SubSeq(s, k, l) /\ Len(q) = (IF k <= l THEN l - k + 1 ELSE 0)
            /\ \A j \in 1..(l - k + 1) : q[j] = s[k + j - 1]
      BY <2>3
    <2>5. k <= l + 1 /\ l - k + 1 = l - i
      BY <1>7, <2>1
    <2>6. Len(q) = l - i
      BY <1>7, <2>1, <2>4, <2>5
    <2>7. \A j \in 1..(l - i) : q[j] = s[i + j]
      BY <1>7, <2>1, <2>4, <2>5
    <2>. QED
      BY <2>1, <2>4, <2>6, <2>7
  <1>11. PICK r \in Seq(S) : r = a \o b /\ Len(r) = (i - 1) + (l - i)
           /\ \A j \in 1..((i - 1) + (l - i)) : r[j] = IF j <= i - 1 THEN a[j] ELSE b[j - (i - 1)]
    <2>1. /\ a \o b \in Seq(S) /\ Len(a \o b) = Len(a) + Len(b)
          /\ \A j \in 1..(Len(a) + Len(b)) :
               (a \o b)[j] = IF j <= Len(a) THEN a[j] ELSE b[j - Len(a)]
      BY ConcatProperties
    <2>2. Len(a) = i - 1 /\ Len(b) = l - i
      BY <1>9, <1>10
    <2>. QED
      BY <2>1, <2>2
  <1>12. RemoveFirst(s, x) = r
    BY <1>6, <1>7, <1>9, <1>10, <1>11
  <1>13. Len(r) = l - 1 /\ DOMAIN r = 1..(l - 1)
    BY <1>7, <1>11, LenProperties
  <1>14. ASSUME NEW j \in 1..(l - 1) PROVE r[j] = IF j < i THEN s[j] ELSE s[j + 1]
    <2>1. j \in 1..((i - 1) + (l - i))
      BY <1>7
    <2>2. CASE j < i
      <3>1. j \in 1..(i - 1) /\ j <= i - 1
        BY <1>7, <2>2
      <3>. QED
        BY <1>9, <1>11, <2>1, <2>2, <3>1
    <2>3. CASE ~(j < i)
      <3>1. j - (i - 1) \in 1..(l - i) /\ i + (j - (i - 1)) = j + 1 /\ ~(j <= i - 1)
        BY <1>7, <2>3
      <3>. QED
        BY <1>10, <1>11, <2>1, <2>3, <3>1
    <2>. QED
      BY <2>2, <2>3
  <1>15. i \in DOMAIN s /\ s[i] = x
    BY <1>1, <1>2, <1>7
  <1>16. \A j \in DOMAIN r : r[j] = IF j < i THEN s[j] ELSE s[j + 1]
    BY <1>13, <1>14
  <1>. QED
    BY <1>2, <1>12, <1>13, <1>15, <1>16

\* What is removed from a list without repetitions is gone; the others stay, in
\* their order.
LEMMA RemoveOnce ==
  ASSUME NEW S, NEW s \in Seq(S), NEW x \in ToSet(s), Once(s, S)
  PROVE  /\ RemoveFirst(s, x) \in Seq(S)
         /\ Once(RemoveFirst(s, x), S)
         /\ ToSet(RemoveFirst(s, x)) = ToSet(s) \ {x}
         /\ Keeps(RemoveFirst(s, x), s)
  <1>. DEFINE r == RemoveFirst(s, x)
  <1>1. PICK i \in DOMAIN s :
          s[i] = x /\ \A j \in DOMAIN r : r[j] = IF j < i THEN s[j] ELSE s[j + 1]
    BY FirstRemoved
  <1>2. r \in Seq(S) /\ Len(r) = Len(s) - 1
    BY FirstRemoved
  <1>. HIDE DEF r
  <1>3. /\ DOMAIN s = 1..Len(s) /\ Len(s) \in Nat
        /\ DOMAIN r = 1..(Len(s) - 1)
        /\ i \in 1..Len(s)
    BY <1>2, LenProperties
  <1>4. \A j \in DOMAIN r : r[j] \in S /\ r[j] # x
    BY <1>1, <1>2, <1>3 DEF Once
  <1>5. Once(r, S)
    BY <1>1, <1>3 DEF Once
  <1>6. ToSet(r) \subseteq ToSet(s) \ {x}
    BY <1>1, <1>3, <1>4 DEF ToSet
  <1>7. ASSUME NEW k \in DOMAIN s, s[k] # x PROVE s[k] \in ToSet(r)
    <2>1. CASE k < i
      <3>1. k \in DOMAIN r /\ r[k] = s[k]
        BY <1>1, <1>3, <2>1
      <3>. QED
        BY <3>1 DEF ToSet
    <2>2. CASE k > i
      <3>1. k - 1 \in DOMAIN r /\ r[k - 1] = s[k]
        BY <1>1, <1>3, <2>2
      <3>. QED
        BY <3>1 DEF ToSet
    <2>. QED
      BY <1>1, <1>3, <1>7, <2>1, <2>2
  <1>8. ToSet(s) \ {x} \subseteq ToSet(r)
    BY <1>7 DEF ToSet
  <1>9. Keeps(r, s)
    <2>. SUFFICES ASSUME NEW j \in DOMAIN r, NEW k \in DOMAIN r, j < k
                  PROVE  \E m, n \in DOMAIN s : m < n /\ r[j] = s[m] /\ r[k] = s[n]
      BY DEF Keeps
    <2>. DEFINE m == IF j < i THEN j ELSE j + 1
                n == IF k < i THEN k ELSE k + 1
    <2>1. m \in DOMAIN s /\ n \in DOMAIN s /\ m < n /\ r[j] = s[m] /\ r[k] = s[n]
      BY <1>1, <1>3
    <2>. QED
      BY <2>1
  <1>. QED
    BY <1>2, <1>5, <1>6, <1>8, <1>9 DEF r

\* A function from 1..n is a sequence.
LEMMA SeqOfFunction ==
  ASSUME NEW S, NEW n \in Nat, NEW f \in [1..n -> S]
  PROVE  f \in Seq(S) /\ Len(f) = n
  OBVIOUS

\* r holds the elements of q, then those of a.
Joined(r, q, a) ==
  /\ Len(q) \in Nat /\ Len(a) \in Nat /\ Len(r) = Len(q) + Len(a)
  /\ \A i \in DOMAIN q : i \in Nat /\ i <= Len(q) /\ i \in DOMAIN r /\ r[i] = q[i]
  /\ \A i \in DOMAIN a :
       i \in Nat /\ 0 < i /\ Len(q) + i \in DOMAIN r /\ r[Len(q) + i] = a[i]
  /\ \A i \in DOMAIN r : i \in DOMAIN q \/ \E j \in DOMAIN a : i = Len(q) + j

LEMMA ConcatAt ==
  ASSUME NEW S, NEW q \in Seq(S), NEW a \in Seq(S)
  PROVE  q \o a \in Seq(S) /\ Joined(q \o a, q, a)
  <1>1. /\ q \o a \in Seq(S)
        /\ Len(q \o a) = Len(q) + Len(a)
        /\ \A i \in 1..(Len(q) + Len(a)) :
             (q \o a)[i] = IF i <= Len(q) THEN q[i] ELSE a[i - Len(q)]
    BY ConcatProperties
  <1>2. /\ DOMAIN q = 1..Len(q) /\ DOMAIN a = 1..Len(a) /\ Len(q) \in Nat /\ Len(a) \in Nat
        /\ DOMAIN (q \o a) = 1..(Len(q) + Len(a))
    BY <1>1, LenProperties
  <1>3. ASSUME NEW i \in DOMAIN (q \o a), i \notin DOMAIN q
        PROVE  \E j \in DOMAIN a : i = Len(q) + j
    <2>1. i - Len(q) \in DOMAIN a /\ i = Len(q) + (i - Len(q))
      BY <1>2, <1>3
    <2>. QED
      BY <2>1
  <1>4. ASSUME NEW i \in DOMAIN a
        PROVE  /\ i \in Nat /\ 0 < i
               /\ Len(q) + i \in DOMAIN (q \o a)
               /\ (q \o a)[Len(q) + i] = a[i]
    <2>1. i \in Nat /\ 0 < i /\ Len(q) + i \in 1..(Len(q) + Len(a)) /\ ~(Len(q) + i <= Len(q))
          /\ (Len(q) + i) - Len(q) = i
      BY <1>2
    <2>. QED
      BY <1>1, <1>2, <2>1
  <1>. QED
    BY <1>1, <1>2, <1>3, <1>4 DEF Joined

-----------------------------------------------------------------------------
(* Finite sets in a sequence *)

\* SetToSeqs yields each element of S once.
LEMMA SetToSeqsOnce ==
  ASSUME NEW S, IsFiniteSet(S), NEW s \in SetToSeqs(S)
  PROVE  /\ s \in Seq(S)
         /\ ToSet(s) = S
         /\ Once(s, S)
  <1>. DEFINE D == 1..Cardinality(S)
  <1>1. s \in [D -> S] /\ \A i, j \in D : i # j => s[i] # s[j]
    BY DEF SetToSeqs
  <1>2. Cardinality(S) \in Nat
    BY FS_CardinalityType
  <1>3. s \in Seq(S) /\ Len(s) = Cardinality(S)
    BY <1>1, <1>2, SeqOfFunction
  <1>4. s \in Injection(D, S)
    BY <1>1 DEF Injection, IsInjective
  <1>5. IsFiniteSet(D) /\ Cardinality(D) = Cardinality(S)
    BY <1>2, FS_Interval
  <1>6. Once(s, S)
    BY <1>1 DEF Once
  <1>7. DOMAIN s = D
    BY <1>1
  <1>. HIDE DEF D
  <1>8. s \in Surjection(D, S)
    BY <1>4, <1>5, FS_Injection
  <1>9. \A x \in S : \E i \in D : s[i] = x
    BY <1>8 DEF Surjection
  <1>10. ToSet(s) = S
    BY <1>1, <1>7, <1>9 DEF ToSet
  <1>. QED
    BY <1>3, <1>6, <1>10

\* The elements of a sequence are finitely many, as many as it is long when none
\* occurs twice.
LEMMA ToSetFinite ==
  ASSUME NEW S, NEW s \in Seq(S)
  PROVE  /\ IsFiniteSet(ToSet(s))
         /\ Once(s, S) => Cardinality(ToSet(s)) = Len(s)
  <1>1. Len(s) \in Nat /\ DOMAIN s = 1..Len(s) /\ s \in [1..Len(s) -> S]
    BY LenProperties
  <1>2. s \in [1..Len(s) -> ToSet(s)]
    BY <1>1 DEF ToSet
  <1>3. s \in Surjection(1..Len(s), ToSet(s))
    BY <1>1, <1>2 DEF ToSet, Surjection
  <1>4. IsFiniteSet(1..Len(s)) /\ Cardinality(1..Len(s)) = Len(s)
    BY <1>1, FS_Interval
  <1>5. /\ IsFiniteSet(ToSet(s))
        /\ Cardinality(ToSet(s)) <= Cardinality(1..Len(s))
        /\ Cardinality(ToSet(s)) = Cardinality(1..Len(s)) <=> s \in Injection(1..Len(s), ToSet(s))
    BY <1>3, <1>4, FS_Surjection
  <1>6. ASSUME Once(s, S) PROVE s \in Injection(1..Len(s), ToSet(s))
    BY <1>1, <1>2, <1>6 DEF Injection, IsInjective, Once
  <1>. QED
    BY <1>4, <1>5, <1>6

-----------------------------------------------------------------------------
(* How often elements occur *)

Hits(s, D) == {i \in DOMAIN s : s[i] \in D}
Times(s, D) == Cardinality(Hits(s, D))

LEMMA HitsFinite ==
  ASSUME NEW S, NEW s \in Seq(S), NEW D
  PROVE  /\ IsFiniteSet(Hits(s, D))
         /\ Times(s, D) \in Nat
         /\ Times(s, D) = 0 <=> \A i \in DOMAIN s : s[i] \notin D
  <1>1. DOMAIN s = 1..Len(s) /\ Len(s) \in Nat
    BY LenProperties
  <1>2. IsFiniteSet(DOMAIN s)
    BY <1>1, FS_Interval
  <1>3. Hits(s, D) \in SUBSET DOMAIN s
    BY DEF Hits
  <1>4. IsFiniteSet(Hits(s, D))
    BY <1>2, <1>3, FS_Subset
  <1>5. Times(s, D) \in Nat /\ (Times(s, D) = 0 <=> Hits(s, D) = {})
    BY <1>4, FS_CardinalityType, FS_EmptySet DEF Times
  <1>. QED
    BY <1>4, <1>5 DEF Hits

LEMMA TimesConcat ==
  ASSUME NEW S, NEW q \in Seq(S), NEW a \in Seq(S), NEW D
  PROVE  Times(q \o a, D) = Times(q, D) + Times(a, D)
  <1>. DEFINE r == q \o a
              moved == {i \in Hits(r, D) : i \notin DOMAIN q}
              shift == [i \in Hits(a, D) |-> Len(q) + i]
  <1>1. r \in Seq(S) /\ Joined(r, q, a)
    BY ConcatAt
  <1>2. IsFiniteSet(Hits(q, D)) /\ IsFiniteSet(Hits(a, D)) /\ IsFiniteSet(Hits(r, D))
    BY <1>1, HitsFinite
  <1>3. DOMAIN q = 1..Len(q) /\ DOMAIN a = 1..Len(a) /\ Len(q) \in Nat /\ Len(a) \in Nat
    BY LenProperties
  <1>. HIDE DEF r
  <1>4. Hits(r, D) = Hits(q, D) \cup moved /\ Hits(q, D) \cap moved = {}
    BY <1>1 DEF Hits, Joined
  <1>5. shift \in [Hits(a, D) -> moved]
    <2>. SUFFICES ASSUME NEW i \in Hits(a, D) PROVE Len(q) + i \in moved
      OBVIOUS
    <2>1. i \in DOMAIN a /\ a[i] \in D
      BY DEF Hits
    <2>2. Len(q) + i \in DOMAIN r /\ r[Len(q) + i] = a[i] /\ i \in Nat /\ 0 < i
      BY <1>1, <2>1 DEF Joined
    <2>3. Len(q) + i \notin DOMAIN q
      BY <1>3, <2>2
    <2>. QED
      BY <2>1, <2>2, <2>3 DEF Hits
  <1>6. \A i, j \in Hits(a, D) : shift[i] = shift[j] => i = j
    BY <1>3 DEF Hits
  <1>7. \A m \in moved : \E i \in Hits(a, D) : shift[i] = m
    <2>. SUFFICES ASSUME NEW m \in moved PROVE \E i \in Hits(a, D) : Len(q) + i = m
      OBVIOUS
    <2>1. m \in DOMAIN r /\ m \notin DOMAIN q /\ r[m] \in D
      BY DEF Hits
    <2>2. PICK i \in DOMAIN a : m = Len(q) + i
      BY <1>1, <2>1 DEF Joined
    <2>3. a[i] = r[m]
      BY <1>1, <2>2 DEF Joined
    <2>. QED
      BY <2>1, <2>2, <2>3 DEF Hits
  <1>. HIDE DEF moved, shift
  <1>8. shift \in Injection(Hits(a, D), moved)
    BY <1>5, <1>6 DEF Injection, IsInjective
  <1>9. shift \in Surjection(Hits(a, D), moved)
    BY <1>5, <1>7 DEF Surjection
  <1>10. IsFiniteSet(moved) /\ Cardinality(moved) = Cardinality(Hits(a, D))
    BY <1>2, <1>8, <1>9, FS_Surjection
  <1>11. Cardinality(Hits(r, D)) = Cardinality(Hits(q, D)) + Cardinality(moved)
                                   - Cardinality(Hits(q, D) \cap moved)
    BY <1>2, <1>4, <1>10, FS_Union
  <1>12. Cardinality(Hits(q, D) \cap moved) = 0
    BY <1>4, FS_EmptySet
  <1>13. Times(r, D) = Times(q, D) + Times(a, D)
    <2>1. Cardinality(Hits(q, D)) \in Nat /\ Cardinality(Hits(a, D)) \in Nat
      BY <1>2, FS_CardinalityType
    <2>. QED
      BY <1>10, <1>11, <1>12, <2>1 DEF Times
  <1>. QED
    BY <1>13 DEF r

LEMMA TimesOne ==
  ASSUME NEW x, NEW D
  PROVE  Times(<<x>>, D) = IF x \in D THEN 1 ELSE 0
  <1>1. CASE x \in D
    <2>1. Hits(<<x>>, D) = {1}
      BY <1>1 DEF Hits
    <2>. QED
      BY <1>1, <2>1, FS_Singleton DEF Times
  <1>2. CASE x \notin D
    <2>1. Hits(<<x>>, D) = {}
      BY <1>2 DEF Hits
    <2>. QED
      BY <1>2, <2>1, FS_EmptySet DEF Times
  <1>. QED
    BY <1>1, <1>2

LEMMA TimesTwo ==
  ASSUME NEW x, NEW y, NEW D
  PROVE  Times(<<x, y>>, D) = (IF x \in D THEN 1 ELSE 0) + (IF y \in D THEN 1 ELSE 0)
  <1>1. <<x, y>> = <<x>> \o <<y>>
    <2>1. <<x, y>> = Append(<<x>>, y)
      OBVIOUS
    <2>2. Append(<<x>>, y) = <<x>> \o <<y>>
      OBVIOUS
    <2>. QED
      BY <2>1, <2>2
  <1>2. <<x>> \in Seq({x, y}) /\ <<y>> \in Seq({x, y})
    OBVIOUS
  <1>3. PICK q \in Seq({x, y}), a \in Seq({x, y}) : q = <<x>> /\ a = <<y>>
    BY <1>2
  <1>4. Times(q \o a, D) = Times(q, D) + Times(a, D)
    BY TimesConcat
  <1>. QED
    BY <1>1, <1>3, <1>4, TimesOne

LEMMA TimesEmpty ==
  ASSUME NEW D
  PROVE  Times(<<>>, D) = 0
  <1>1. Hits(<<>>, D) = {}
    BY DEF Hits
  <1>. QED
    BY <1>1, FS_EmptySet DEF Times

LEMMA TimesTail ==
  ASSUME NEW S, NEW s \in Seq(S), s # <<>>, NEW D
  PROVE  Times(s, D) = (IF Head(s) \in D THEN 1 ELSE 0) + Times(Tail(s), D)
  <1>1. Head(s) \in S /\ Tail(s) \in Seq(S)
    BY HeadTailProperties
  <1>2. s = <<Head(s)>> \o Tail(s)
    BY HeadTailProperties, ConcatProperties
  <1>3. PICK x \in S, q \in Seq(S) : x = Head(s) /\ q = Tail(s)
    BY <1>1
  <1>4. Times(<<x>> \o q, D) = Times(<<x>>, D) + Times(q, D)
    <2>1. <<x>> \in Seq(S)
      OBVIOUS
    <2>. QED
      BY <2>1, TimesConcat
  <1>. QED
    BY <1>2, <1>3, <1>4, TimesOne

LEMMA TimesAtMostOne ==
  ASSUME NEW S, NEW s \in Seq(S), NEW D
  PROVE  Times(s, D) <= 1 <=> \A i, j \in DOMAIN s : s[i] \in D /\ s[j] \in D => i = j
  <1>1. IsFiniteSet(Hits(s, D)) /\ Times(s, D) \in Nat
    BY HitsFinite
  <1>2. ASSUME \A i, j \in DOMAIN s : s[i] \in D /\ s[j] \in D => i = j
        PROVE  Times(s, D) <= 1
    <2>1. CASE Hits(s, D) = {}
      BY <2>1, FS_EmptySet DEF Times
    <2>2. CASE Hits(s, D) # {}
      <3>1. PICK i : i \in Hits(s, D)
        BY <2>2
      <3>2. Hits(s, D) = {i}
        BY <1>2, <3>1 DEF Hits
      <3>3. Cardinality({i}) = 1
        BY FS_Singleton
      <3>. QED
        BY <3>2, <3>3 DEF Times
    <2>. QED
      BY <2>1, <2>2
  <1>3. ASSUME Times(s, D) <= 1, NEW i \in Hits(s, D), NEW j \in Hits(s, D), i # j
        PROVE  FALSE
    <2>1. IsFiniteSet({i}) /\ Cardinality({i}) = 1
      BY FS_Singleton
    <2>2. Cardinality({i} \cup {j}) = IF j \in {i} THEN Cardinality({i}) ELSE Cardinality({i}) + 1
      BY <2>1, FS_AddElement, Zenon
    <2>3. Cardinality({i} \cup {j}) = 2
      BY <1>3, <2>1, <2>2
    <2>4. {i} \cup {j} \subseteq Hits(s, D)
      OBVIOUS
    <2>5. Cardinality({i} \cup {j}) <= Times(s, D)
      BY <1>1, <2>4, FS_Subset DEF Times
    <2>6. PICK n \in Nat : n = Times(s, D)
      BY <1>1
    <2>7. 2 <= n
      BY <2>3, <2>5, <2>6
    <2>. QED
      BY <1>3, <2>6, <2>7
  <1>. QED
    BY <1>2, <1>3 DEF Hits

-----------------------------------------------------------------------------
(* The order of elements *)

\* y never comes after x in s; with x = y, x occurs at most once.
Apart(s, x, y) == \A i, j \in DOMAIN s : i < j => ~(s[i] = x /\ s[j] = y)

\* A part of the elements in their order.
Thins(r, s) == ToSet(r) \subseteq ToSet(s) /\ Keeps(r, s)

LEMMA ThinsApart ==
  ASSUME NEW r, NEW s, Thins(r, s), NEW x, NEW y, Apart(s, x, y)
  PROVE  Apart(r, x, y)
  BY DEF Thins, Keeps, Apart

LEMMA ThinsTransitive ==
  ASSUME NEW r, NEW s, NEW t, Thins(r, s), Thins(s, t)
  PROVE  Thins(r, t)
  <1>. SUFFICES ASSUME NEW i \in DOMAIN r, NEW j \in DOMAIN r, i < j
                PROVE  \E k, l \in DOMAIN t : k < l /\ r[i] = t[k] /\ r[j] = t[l]
    BY DEF Thins, Keeps
  <1>1. PICK k \in DOMAIN s, l \in DOMAIN s : k < l /\ r[i] = s[k] /\ r[j] = s[l]
    BY DEF Thins, Keeps
  <1>2. PICK m \in DOMAIN t, n \in DOMAIN t : m < n /\ s[k] = t[m] /\ s[l] = t[n]
    BY <1>1 DEF Thins, Keeps
  <1>. QED
    BY <1>1, <1>2

LEMMA TailThins ==
  ASSUME NEW S, NEW s \in Seq(S), s # <<>>
  PROVE  Thins(Tail(s), s)
  <1>1. \A i \in DOMAIN Tail(s) : i \in Nat /\ i + 1 \in DOMAIN s /\ Tail(s)[i] = s[i + 1]
    BY TailOfSeq
  <1>2. Keeps(Tail(s), s)
    <2>. DEFINE r == Tail(s)
    <2>1. \A i \in DOMAIN r : i \in Nat /\ i + 1 \in DOMAIN s /\ r[i] = s[i + 1]
      BY <1>1
    <2>. HIDE DEF r
    <2>2. Keeps(r, s)
      BY <2>1 DEF Keeps
    <2>. QED
      BY <2>2 DEF r
  <1>. QED
    BY <1>2, TailOfSeq DEF Thins

LEMMA HeadApart ==
  ASSUME NEW S, NEW s \in Seq(S), s # <<>>, NEW y, Apart(s, Head(s), y)
  PROVE  y \notin ToSet(Tail(s))
  <1>1. /\ \A i \in DOMAIN Tail(s) : i \in Nat /\ i + 1 \in DOMAIN s /\ Tail(s)[i] = s[i + 1]
        /\ 1 \in DOMAIN s /\ s[1] = Head(s)
    BY TailOfSeq
  <1>2. Tail(s) \in Seq(S) /\ DOMAIN Tail(s) = 1..Len(Tail(s)) /\ Len(Tail(s)) \in Nat
    BY TailOfSeq, LenProperties
  <1>. DEFINE r == Tail(s)
  <1>. HIDE DEF r
  <1>3. ASSUME NEW i \in DOMAIN r PROVE r[i] # y
    <2>1. i >= 1 /\ i + 1 \in DOMAIN s /\ r[i] = s[i + 1]
      BY <1>1, <1>2 DEF r
    <2>. QED
      BY <1>1, <2>1 DEF Apart
  <1>. QED
    BY <1>3 DEF r, ToSet

LEMMA RemoveThins ==
  ASSUME NEW S, NEW s \in Seq(S), NEW x
  PROVE  /\ RemoveFirst(s, x) \in Seq(S)
         /\ Thins(RemoveFirst(s, x), s)
         /\ \A y \in ToSet(s) : y # x => y \in ToSet(RemoveFirst(s, x))
         /\ Apart(s, x, x) => x \notin ToSet(RemoveFirst(s, x))
  <1>. DEFINE r == RemoveFirst(s, x)
  <1>0. DOMAIN s = 1..Len(s) /\ Len(s) \in Nat
    BY LenProperties
  <1>1. CASE x \notin ToSet(s)
    <2>1. ~\E i \in 1..Len(s) : s[i] = x
      BY <1>0, <1>1, ToSetIn
    <2>2. r = s
      BY <2>1 DEF RemoveFirst
    <2>3. Keeps(s, s)
      BY DEF Keeps
    <2>. QED
      BY <1>1, <2>2, <2>3 DEF Thins
  <1>2. CASE x \in ToSet(s)
    <2>1. r \in Seq(S) /\ Len(r) = Len(s) - 1
      BY <1>2, FirstRemoved
    <2>2. PICK i \in DOMAIN s :
            s[i] = x /\ \A j \in DOMAIN r : r[j] = IF j < i THEN s[j] ELSE s[j + 1]
      BY <1>2, FirstRemoved
    <2>. HIDE DEF r
    <2>3. DOMAIN r = 1..(Len(s) - 1)
      BY <2>1, LenProperties
    <2>4. Keeps(r, s)
      <3>. SUFFICES ASSUME NEW j \in DOMAIN r, NEW k \in DOMAIN r, j < k
                    PROVE  \E m, n \in DOMAIN s : m < n /\ r[j] = s[m] /\ r[k] = s[n]
        BY DEF Keeps
      <3>. DEFINE m == IF j < i THEN j ELSE j + 1
                  n == IF k < i THEN k ELSE k + 1
      <3>1. m \in DOMAIN s /\ n \in DOMAIN s /\ m < n /\ r[j] = s[m] /\ r[k] = s[n]
        BY <1>0, <2>2, <2>3
      <3>. QED
        BY <3>1
    <2>5. ToSet(r) \subseteq ToSet(s)
      BY <1>0, <2>2, <2>3 DEF ToSet
    <2>6. ASSUME NEW k \in DOMAIN s, s[k] # x PROVE s[k] \in ToSet(r)
      <3>1. CASE k < i
        <4>1. k \in DOMAIN r /\ r[k] = s[k]
          BY <1>0, <2>2, <2>3, <3>1
        <4>. QED
          BY <4>1 DEF ToSet
      <3>2. CASE k > i
        <4>1. k - 1 \in DOMAIN r /\ r[k - 1] = s[k]
          BY <1>0, <2>2, <2>3, <3>2
        <4>. QED
          BY <4>1 DEF ToSet
      <3>. QED
        BY <1>0, <2>2, <2>6, <3>1, <3>2
    <2>7. ASSUME Apart(s, x, x), NEW j \in DOMAIN r PROVE r[j] # x
      <3>1. CASE j < i
        BY <1>0, <2>2, <2>3, <2>7, <3>1 DEF Apart
      <3>2. CASE ~(j < i)
        BY <1>0, <2>2, <2>3, <2>7, <3>2 DEF Apart
      <3>. QED
        BY <3>1, <3>2
    <2>8. \A y \in ToSet(s) : y # x => y \in ToSet(r)
      BY <2>6 DEF ToSet
    <2>9. Apart(s, x, x) => x \notin ToSet(r)
      BY <2>7 DEF ToSet
    <2>. QED
      BY <2>1, <2>4, <2>5, <2>8, <2>9 DEF r, Thins
  <1>. QED
    BY <1>1, <1>2

LEMMA AppendApart ==
  ASSUME NEW S, NEW s \in Seq(S), NEW z \in S, NEW x, NEW y, Apart(s, x, y),
         z = y => x \notin ToSet(s)
  PROVE  Apart(Append(s, z), x, y)
  BY AppendAtEnd, ToSetIn DEF Apart

LEMMA ConcatSets ==
  ASSUME NEW S, NEW q \in Seq(S), NEW a \in Seq(S)
  PROVE  ToSet(q \o a) = ToSet(q) \cup ToSet(a)
  <1>1. q \o a \in Seq(S) /\ Joined(q \o a, q, a)
    BY ConcatAt
  <1>. DEFINE r == q \o a
  <1>2. ASSUME NEW i \in DOMAIN r PROVE r[i] \in ToSet(q) \cup ToSet(a)
    <2>1. CASE i \in DOMAIN q
      BY <1>1, <2>1 DEF Joined, ToSet
    <2>2. CASE i \notin DOMAIN q
      <3>1. PICK j \in DOMAIN a : i = Len(q) + j
        BY <1>1, <2>2 DEF Joined
      <3>2. r[i] = a[j]
        BY <1>1, <3>1 DEF Joined
      <3>. QED
        BY <3>2 DEF ToSet
    <2>. QED
      BY <2>1, <2>2
  <1>3. ToSet(q) \cup ToSet(a) \subseteq ToSet(r)
    <2>1. \A i \in DOMAIN q : i \in DOMAIN r /\ r[i] = q[i]
      BY <1>1 DEF Joined
    <2>2. \A i \in DOMAIN a : Len(q) + i \in DOMAIN r /\ r[Len(q) + i] = a[i]
      BY <1>1 DEF Joined
    <2>. HIDE DEF r
    <2>3. \A i \in DOMAIN q : q[i] \in ToSet(r)
      BY <2>1 DEF ToSet
    <2>4. \A i \in DOMAIN a : a[i] \in ToSet(r)
      BY <2>2 DEF ToSet
    <2>. QED
      BY <2>3, <2>4 DEF ToSet
  <1>. HIDE DEF r
  <1>4. ToSet(r) \subseteq ToSet(q) \cup ToSet(a)
    BY <1>2 DEF ToSet
  <1>. QED
    BY <1>3, <1>4 DEF r

LEMMA ConcatApart ==
  ASSUME NEW S, NEW q \in Seq(S), NEW a \in Seq(S), NEW x, NEW y,
         Apart(q, x, y), Apart(a, x, y), x \notin ToSet(q) \/ y \notin ToSet(a)
  PROVE  Apart(q \o a, x, y)
  <1>1. Joined(q \o a, q, a)
    BY ConcatAt
  <1>2. DOMAIN q = 1..Len(q) /\ DOMAIN a = 1..Len(a) /\ Len(q) \in Nat /\ Len(a) \in Nat
    BY LenProperties
  <1>. DEFINE r == q \o a
  <1>. SUFFICES ASSUME NEW i \in DOMAIN r, NEW j \in DOMAIN r, i < j, r[i] = x, r[j] = y
                PROVE  FALSE
    BY DEF Apart
  <1>. HIDE DEF r
  <1>3. Joined(r, q, a)
    BY <1>1 DEF r
  <1>4. CASE j \in DOMAIN q
    <2>1. j <= Len(q) /\ r[j] = q[j]
      BY <1>3, <1>4 DEF Joined
    <2>2. i \in DOMAIN q
      BY <1>2, <1>3, <2>1 DEF Joined
    <2>3. r[i] = q[i]
      BY <1>3, <2>2 DEF Joined
    <2>. QED
      BY <1>4, <2>1, <2>2, <2>3 DEF Apart
  <1>5. CASE i \notin DOMAIN q
    <2>1. PICK k \in DOMAIN a : i = Len(q) + k
      BY <1>3, <1>5 DEF Joined
    <2>2. j \notin DOMAIN q
      BY <1>2, <2>1
    <2>3. PICK l \in DOMAIN a : j = Len(q) + l
      BY <1>3, <2>2 DEF Joined
    <2>4. k < l /\ a[k] = x /\ a[l] = y
      BY <1>2, <1>3, <2>1, <2>3 DEF Joined
    <2>. QED
      BY <2>4 DEF Apart
  <1>6. CASE i \in DOMAIN q /\ j \notin DOMAIN q
    <2>1. x \in ToSet(q)
      BY <1>3, <1>6 DEF Joined, ToSet
    <2>2. y \in ToSet(a)
      BY <1>3, <1>6 DEF Joined, ToSet
    <2>. QED
      BY <2>1, <2>2
  <1>. QED
    BY <1>4, <1>5, <1>6

\* SetToSeq lists each element of a finite set once.
LEMMA SetToSeqOnce ==
  ASSUME NEW S, IsFiniteSet(S)
  PROVE  /\ SetToSeq(S) \in Seq(S)
         /\ ToSet(SetToSeq(S)) = S
         /\ Once(SetToSeq(S), S)
  <1>. DEFINE n == Cardinality(S)
  <1>1. n \in Nat /\ ExistsBijection(1..n, S)
    BY FS_CardinalityType, FS_NatBijection, FS_CountingElements
  <1>2. PICK b \in Bijection(1..n, S) : TRUE
    BY <1>1 DEF ExistsBijection
  <1>3. b \in [1..n -> S] /\ IsInjective(b)
    BY <1>2 DEF Bijection, Injection, IsInjective
  <1>4. SetToSeq(S) \in [1..n -> S] /\ IsInjective(SetToSeq(S))
    BY <1>3 DEF SetToSeq
  <1>5. SetToSeq(S) \in SetToSeqs(S)
    BY <1>4 DEF SetToSeqs, IsInjective
  <1>. QED
    BY <1>5, SetToSeqsOnce

\* What is once in a sequence is apart from itself.
LEMMA OnceApart ==
  ASSUME NEW S, NEW s \in Seq(S), NEW T
  PROVE  Once(s, T) <=> \A x \in T : Apart(s, x, x)
  <1>1. DOMAIN s = 1..Len(s) /\ Len(s) \in Nat
    BY LenProperties
  <1>2. ASSUME \A x \in T : Apart(s, x, x), NEW i \in DOMAIN s, NEW j \in DOMAIN s, s[i] \in T, s[i] = s[j]
        PROVE  i = j
    <2>1. ~(i < j) /\ ~(j < i)
      BY <1>2 DEF Apart
    <2>. QED
      BY <1>1, <2>1
  <1>3. ASSUME Once(s, T), NEW x \in T PROVE Apart(s, x, x)
    BY <1>1, <1>3 DEF Once, Apart
  <1>. QED
    BY <1>2, <1>3 DEF Once

LEMMA OnceJoined ==
  ASSUME NEW S, NEW q \in Seq(S), NEW a \in Seq(S), Once(q, S), Once(a, S), ToSet(q) \cap ToSet(a) = {}
  PROVE  q \o a \in Seq(S) /\ Once(q \o a, S) /\ ToSet(q \o a) = ToSet(q) \cup ToSet(a)
  <1>1. q \o a \in Seq(S) /\ ToSet(q \o a) = ToSet(q) \cup ToSet(a)
    BY ConcatAt, ConcatSets
  <1>2. ASSUME NEW x \in S PROVE Apart(q \o a, x, x)
    <2>1. Apart(q, x, x) /\ Apart(a, x, x)
      BY OnceApart
    <2>. QED
      BY <2>1, ConcatApart
  <1>. QED
    BY <1>1, <1>2, OnceApart

-----------------------------------------------------------------------------
(* The elements of the sequences in a sequence *)

\* f[i] is what the first i sequences of b make.
Flat(S, b, f) ==
  /\ f \in [0..Len(b) -> Seq(S)]
  /\ f[0] = <<>>
  /\ \A i \in 1..Len(b) : f[i] = f[i - 1] \o b[i]

\* A statement about the numbers up to n holds when it goes on from each to the next.
LEMMA UpTo ==
  ASSUME NEW n \in Nat, NEW H, 0 \in H, \A i \in 1..n : i - 1 \in H => i \in H
  PROVE  n \in H
  <1>1. SUFFICES ASSUME n \notin H PROVE FALSE
    OBVIOUS
  <1>2. PICK T : T = {i \in 0..n : i \notin H}
    OBVIOUS
  <1>3. T \in SUBSET Nat /\ T # {}
    BY <1>1, <1>2
  <1>4. PICK m \in T : \A k \in T : m <= k
    BY <1>3, LeastOne
  <1>5. m \in 1..n /\ m - 1 \in 0..n /\ ~(m <= m - 1) /\ m \notin H
    BY <1>2, <1>4
  <1>. QED
    BY <1>2, <1>4, <1>5

\* A prefix is the one that is shorter by one with its last element.
LEMMA Prefix ==
  ASSUME NEW S, NEW b \in Seq(S)
  PROVE  /\ SubSeq(b, 1, 0) = <<>> /\ SubSeq(b, 1, Len(b)) = b
         /\ \A i \in 1..Len(b) :
              /\ b[i] \in S /\ SubSeq(b, 1, i - 1) \in Seq(S)
              /\ SubSeq(b, 1, i) = Append(SubSeq(b, 1, i - 1), b[i])
  <1>1. Len(b) \in Nat
    BY LenProperties
  <1>2. SubSeq(b, 1, 0) = <<>> /\ SubSeq(b, 1, Len(b)) = b
    BY SubSeqEmpty, SubSeqFull
  <1>3. ASSUME NEW i \in 1..Len(b)
        PROVE  /\ b[i] \in S /\ SubSeq(b, 1, i - 1) \in Seq(S)
               /\ SubSeq(b, 1, i) = Append(SubSeq(b, 1, i - 1), b[i])
    <2>1. b[i] \in S /\ \A j \in 1..(i - 1) : b[j] \in S
      BY <1>1, ElementOfSeq
    <2>2. SubSeq(b, 1, i - 1) \in Seq(S)
      BY <1>1, <2>1, SubSeqProperties
    <2>3. SubSeq(b, 1, i) = SubSeq(b, 1, i - 1) \o <<b[i]>>
      BY <1>1, SubSeqRecursiveSecond
    <2>. QED
      BY <2>1, <2>2, <2>3, AppendIsConcat
  <1>. QED
    BY <1>2, <1>3

LEMMA FlatStarts ==
  ASSUME NEW S
  PROVE  \E f : Flat(S, <<>>, f)
  <1>. DEFINE f == [i \in {0} |-> <<>>]
  <1>1. Len(<<>>) = 0 /\ 0..0 = {0} /\ 1..0 = {} /\ <<>> \in Seq(S)
    OBVIOUS
  <1>2. Flat(S, <<>>, f)
    BY <1>1 DEF Flat
  <1>. QED
    BY <1>2

LEMMA FlatAppend ==
  ASSUME NEW S, NEW b \in Seq(Seq(S)), NEW x \in Seq(S), NEW f, Flat(S, b, f)
  PROVE  Flat(S, Append(b, x), [i \in 0..(Len(b) + 1) |-> IF i = Len(b) + 1 THEN f[Len(b)] \o x ELSE f[i]])
  <1>. DEFINE a == Append(b, x)
              g == [i \in 0..(Len(b) + 1) |-> IF i = Len(b) + 1 THEN f[Len(b)] \o x ELSE f[i]]
  <1>1. /\ Len(b) \in Nat /\ Len(a) = Len(b) + 1 /\ a[Len(b) + 1] = x
        /\ \A i \in 1..Len(b) : a[i] = b[i]
    BY LenProperties, AppendProperties
  <1>2. /\ f \in [0..Len(b) -> Seq(S)] /\ f[0] = <<>>
        /\ \A i \in 1..Len(b) : f[i] = f[i - 1] \o b[i]
    BY DEF Flat
  <1>3. f[Len(b)] \in Seq(S) /\ f[Len(b)] \o x \in Seq(S)
    BY <1>1, <1>2, ConcatProperties
  <1>4. g \in [0..Len(a) -> Seq(S)]
    BY <1>1, <1>2, <1>3
  <1>5. g[0] = <<>>
    BY <1>1, <1>2
  <1>6. ASSUME NEW i \in 1..Len(a) PROVE g[i] = g[i - 1] \o a[i]
    <2>1. CASE i = Len(b) + 1
      <3>1. i - 1 = Len(b) /\ Len(b) \in 0..(Len(b) + 1) /\ Len(b) # Len(b) + 1 /\ i \in 0..(Len(b) + 1)
        BY <1>1, <2>1
      <3>. QED
        BY <1>1, <2>1, <3>1
    <2>2. CASE i # Len(b) + 1
      <3>1. /\ i \in 1..Len(b) /\ i \in 0..(Len(b) + 1) /\ i - 1 \in 0..(Len(b) + 1)
            /\ i # Len(b) + 1 /\ i - 1 # Len(b) + 1
        BY <1>1, <2>2
      <3>. QED
        BY <1>1, <1>2, <3>1
    <2>. QED
      BY <2>1, <2>2
  <1>. HIDE DEF a, g
  <1>7. Flat(S, a, g)
    BY <1>4, <1>5, <1>6 DEF Flat
  <1>. QED
    BY <1>7 DEF a, g

\* Every sequence of sequences has such an f, and only one.
LEMMA FlatExists ==
  ASSUME NEW S, NEW b \in Seq(Seq(S))
  PROVE  \E f : Flat(S, b, f)
  <1>1. PICK n \in Nat : n = Len(b)
    BY LenProperties
  <1>2. PICK H : H = {i \in 0..n : \E f : Flat(S, SubSeq(b, 1, i), f)}
    OBVIOUS
  <1>3. 0 \in H
    <2>1. SubSeq(b, 1, 0) = <<>> /\ \E f : Flat(S, <<>>, f)
      BY Prefix, FlatStarts
    <2>2. 0 \in 0..n
      OBVIOUS
    <2>3. \E f : Flat(S, SubSeq(b, 1, 0), f)
      BY <2>1
    <2>. QED
      BY <1>2, <2>2, <2>3
  <1>4. ASSUME NEW i \in 1..n, i - 1 \in H PROVE i \in H
    <2>1. PICK f : Flat(S, SubSeq(b, 1, i - 1), f)
      BY <1>2, <1>4
    <2>2. /\ b[i] \in Seq(S) /\ SubSeq(b, 1, i - 1) \in Seq(Seq(S))
          /\ SubSeq(b, 1, i) = Append(SubSeq(b, 1, i - 1), b[i])
      BY <1>1, Prefix
    <2>3. \E g : Flat(S, SubSeq(b, 1, i), g)
      BY <2>1, <2>2, FlatAppend
    <2>. QED
      BY <1>2, <2>3
  <1>5. n \in H
    <2>1. \A i \in 1..n : i - 1 \in H => i \in H
      BY <1>4
    <2>. QED
      BY <1>3, <2>1, UpTo
  <1>. QED
    BY <1>1, <1>2, <1>5, Prefix

LEMMA FlattenIs ==
  ASSUME NEW S, NEW b \in Seq(Seq(S)), NEW f, Flat(S, b, f)
  PROVE  FlattenSeq(b) = f[Len(b)] /\ FlattenSeq(b) \in Seq(S)
  <1>1. /\ f \in [0..Len(b) -> Seq(S)] /\ f[0] = <<>> /\ Len(b) \in Nat
        /\ \A i \in 1..Len(b) : f[i] = f[i - 1] \o b[i]
    BY LenProperties DEF Flat
  <1>2. CASE Len(b) = 0
    <2>1. b = <<>>
      BY <1>2, EmptySeq
    <2>. QED
      BY <1>1, <1>2, <2>1 DEF FlattenSeq
  <1>3. CASE Len(b) # 0
    <2>. DEFINE F(g) == [i \in 1..Len(b) |-> IF i = 1 THEN b[i] ELSE g[i - 1] \o b[i]]
    <2>1. PICK e : e = [i \in 1..Len(b) |-> f[i]]
      OBVIOUS
    <2>2. e = F(e)
      <3>1. ASSUME NEW i \in 1..Len(b) PROVE e[i] = IF i = 1 THEN b[i] ELSE e[i - 1] \o b[i]
        <4>1. CASE i = 1
          <5>1. b[1] \in Seq(S) /\ f[1] = f[0] \o b[1] /\ e[1] = f[1]
            <6>1. 1 \in 1..Len(b) /\ 1 - 1 = 0
              BY <4>1
            <6>. QED
              BY <1>1, <2>1, <6>1, ElementOfSeq
          <5>. QED
            BY <1>1, <4>1, <5>1, ConcatEmptySeq
        <4>2. CASE i # 1
          <5>1. i - 1 \in 1..Len(b)
            BY <1>1, <4>2
          <5>. QED
            BY <1>1, <2>1, <4>2, <5>1
        <4>. QED
          BY <4>1, <4>2
      <3>2. e = [i \in 1..Len(b) |-> e[i]]
        BY <2>1
      <3>. QED
        BY <3>1, <3>2
    <2>3. PICK h : h = CHOOSE g : g = F(g)
      OBVIOUS
    <2>4. h = F(h)
      <3>. HIDE DEF F
      <3>. QED
        BY <2>2, <2>3
    <2>5. FlattenSeq(b) = h[Len(b)]
      BY <1>3, <2>3 DEF FlattenSeq
    <2>6. \A i \in 1..Len(b) : h[i] = IF i = 1 THEN b[i] ELSE h[i - 1] \o b[i]
      BY <2>4
    <2>7. \A i \in 1..Len(b) : e[i] = IF i = 1 THEN b[i] ELSE e[i - 1] \o b[i]
      BY <2>2
    <2>. HIDE DEF F
    <2>8. PICK H : H = {i \in 0..Len(b) : i = 0 \/ h[i] = e[i]}
      OBVIOUS
    <2>9. ASSUME NEW i \in 1..Len(b), i - 1 \in H PROVE i \in H
      <3>1. i = 1 \/ h[i - 1] = e[i - 1]
        BY <2>8, <2>9
      <3>2. h[i] = e[i]
        BY <2>6, <2>7, <3>1
      <3>. QED
        BY <2>8, <3>2
    <2>10. Len(b) \in H
      <3>1. 0 \in H
        BY <1>1, <2>8
      <3>2. \A i \in 1..Len(b) : i - 1 \in H => i \in H
        BY <2>9
      <3>. QED
        BY <1>1, <3>1, <3>2, UpTo
    <2>11. h[Len(b)] = e[Len(b)] /\ e[Len(b)] = f[Len(b)]
      BY <1>1, <1>3, <2>1, <2>8, <2>10
    <2>. QED
      BY <1>1, <1>3, <2>5, <2>11
  <1>. QED
    BY <1>2, <1>3

LEMMA FlattenType ==
  ASSUME NEW S, NEW b \in Seq(Seq(S))
  PROVE  FlattenSeq(b) \in Seq(S)
  BY FlatExists, FlattenIs

LEMMA FlattenEmpty == FlattenSeq(<<>>) = <<>>
  BY DEF FlattenSeq

LEMMA FlattenAppend ==
  ASSUME NEW S, NEW b \in Seq(Seq(S)), NEW x \in Seq(S)
  PROVE  FlattenSeq(Append(b, x)) = FlattenSeq(b) \o x
  <1>1. PICK f : Flat(S, b, f)
    BY FlatExists
  <1>2. FlattenSeq(b) = f[Len(b)] /\ Len(b) \in Nat
    BY <1>1, FlattenIs, LenProperties
  <1>3. Append(b, x) \in Seq(Seq(S)) /\ Len(Append(b, x)) = Len(b) + 1
    BY AppendProperties
  <1>4. PICK g : /\ g = [i \in 0..(Len(b) + 1) |-> IF i = Len(b) + 1 THEN f[Len(b)] \o x ELSE f[i]]
                 /\ Flat(S, Append(b, x), g)
    BY <1>1, FlatAppend
  <1>5. FlattenSeq(Append(b, x)) = g[Len(b) + 1]
    BY <1>3, <1>4, FlattenIs
  <1>. QED
    BY <1>2, <1>4, <1>5

\* What stands first comes first.
LEMMA FlattenConcat ==
  ASSUME NEW S, NEW a \in Seq(Seq(S)), NEW b \in Seq(Seq(S))
  PROVE  FlattenSeq(a \o b) = FlattenSeq(a) \o FlattenSeq(b)
  <1>1. PICK n \in Nat : n = Len(b)
    BY LenProperties
  <1>2. PICK H : H = {i \in 0..n : FlattenSeq(a \o SubSeq(b, 1, i)) = FlattenSeq(a) \o FlattenSeq(SubSeq(b, 1, i))}
    OBVIOUS
  <1>3. FlattenSeq(a) \in Seq(S)
    BY FlattenType
  <1>4. 0 \in H
    <2>1. SubSeq(b, 1, 0) = <<>> /\ a \o <<>> = a
      BY Prefix, ConcatEmptySeq
    <2>2. FlattenSeq(a) \o <<>> = FlattenSeq(a)
      BY <1>3, ConcatEmptySeq
    <2>3. 0 \in 0..n
      OBVIOUS
    <2>4. FlattenSeq(a \o SubSeq(b, 1, 0)) = FlattenSeq(a) \o FlattenSeq(SubSeq(b, 1, 0))
      BY <2>1, <2>2, FlattenEmpty
    <2>. QED
      BY <1>2, <2>3, <2>4
  <1>5. ASSUME NEW i \in 1..n, i - 1 \in H PROVE i \in H
    <2>1. PICK q, x : q = SubSeq(b, 1, i - 1) /\ x = b[i]
      OBVIOUS
    <2>2. FlattenSeq(a \o q) = FlattenSeq(a) \o FlattenSeq(q)
      BY <1>2, <1>5, <2>1
    <2>3. x \in Seq(S) /\ q \in Seq(Seq(S)) /\ SubSeq(b, 1, i) = Append(q, x)
      BY <1>1, <2>1, Prefix
    <2>4. a \o q \in Seq(Seq(S)) /\ a \o Append(q, x) = Append(a \o q, x)
      BY <2>3
    <2>5. FlattenSeq(a \o Append(q, x)) = FlattenSeq(a \o q) \o x
      BY <2>3, <2>4, FlattenAppend
    <2>6. FlattenSeq(Append(q, x)) = FlattenSeq(q) \o x /\ FlattenSeq(q) \in Seq(S)
      BY <2>3, FlattenAppend, FlattenType
    <2>7. \A s, t, u \in Seq(S) : (s \o t) \o u = s \o (t \o u)
      BY ConcatAssociative
    <2>8. (FlattenSeq(a) \o FlattenSeq(q)) \o x = FlattenSeq(a) \o (FlattenSeq(q) \o x)
      BY <1>3, <2>3, <2>6, <2>7
    <2>9. FlattenSeq(a \o Append(q, x)) = FlattenSeq(a) \o FlattenSeq(Append(q, x))
      BY <2>2, <2>5, <2>6, <2>8
    <2>10. i \in 0..n
      OBVIOUS
    <2>. QED
      BY <1>2, <2>3, <2>9, <2>10
  <1>6. n \in H
    <2>1. \A i \in 1..n : i - 1 \in H => i \in H
      BY <1>5
    <2>. QED
      BY <1>4, <2>1, UpTo
  <1>. QED
    BY <1>1, <1>2, <1>6, Prefix

LEMMA FlattenOne ==
  ASSUME NEW S, NEW x \in Seq(S)
  PROVE  FlattenSeq(<<x>>) = x
  <1>1. <<x>> = Append(<<>>, x) /\ <<>> \in Seq(Seq(S))
    OBVIOUS
  <1>2. FlattenSeq(Append(<<>>, x)) = <<>> \o x
    BY <1>1, FlattenAppend, FlattenEmpty
  <1>. QED
    BY <1>1, <1>2, ConcatEmptySeq
=============================================================================
