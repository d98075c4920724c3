-------------------------- MODULE CollectionsProofs --------------------------
(***************************************************************************)
(* The HTTP collections and their sidebar, for any items, folders,         *)
(* collections, edits and failures: what the operations on trees keep, the *)
(* inductive invariant of the service, its files and the panel, and the    *)
(* properties that follow.                                                 *)
(***************************************************************************)
EXTENDS SidebarDrag, FiniteSetTheorems, FunctionTheorems, SequenceTheorems, WellFoundedInduction, TLAPS

-----------------------------------------------------------------------------
(* Sequences.                                                              *)

\* No element is there twice.
Distinct(s) == \A i, j \in 1 .. Len(s) : s[i] = s[j] => i = j

\* A set of numbers has a least one.
LEMMA LeastOf ==
  ASSUME NEW T, T \subseteq Nat, T # {}
  PROVE  \E n \in T : \A m \in T : ~ (m < n)
<1> DEFINE R == {pair \in Nat \X Nat : pair[1] < pair[2]}
<1>1. IsWellFoundedOn(R, Nat)
  BY NatLessThanWellFounded, Zenon DEF OpToRel
<1>2. PICK n \in T : \A m \in T : <<m, n>> \notin R
  <2> HIDE DEF R
  <2>1. QED
    BY <1>1, WFMin
<1>3. \A m \in T : m < n => <<m, n>> \in R
  OBVIOUS
<1>4. QED
  BY <1>2, <1>3

\* What is given for the numbers up to n is a sequence.
LEMMA UpToIsSeq ==
  ASSUME NEW A, NEW n \in Nat, NEW f \in [1 .. n -> A]
  PROVE  f \in Seq(A) /\ Len(f) = n
<1>1. f \in Seq(A)
  BY SeqDef
<1>2. QED
  BY <1>1, LenProperties

\* f is the function that Only defines, up to n.
FilterUpTo(f, seq, S, n) ==
    f = [i \in 0 .. n |->
            IF i = 0 THEN <<>>
            ELSE IF seq[i] \in S THEN Append(f[i - 1], seq[i]) ELSE f[i - 1]]

\* The recursive function that Only is defined by exists.
LEMMA FiltersExists ==
  ASSUME NEW seq, NEW S, NEW n \in Nat
  PROVE  \E f : FilterUpTo(f, seq, S, n)
<1> DEFINE T == {k \in Nat : ~ \E f : FilterUpTo(f, seq, S, k)}
<1>1. SUFFICES ASSUME T # {} PROVE FALSE
  OBVIOUS
<1>2. PICK k \in T : \A m \in T : ~ (m < k)
  BY <1>1, LeastOf
<1>3. CASE k = 0
  <2> DEFINE f == [i \in 0 .. 0 |-> <<>>]
  <2>1. FilterUpTo(f, seq, S, k)
    BY <1>3 DEF FilterUpTo
  <2>2. QED
    BY <2>1
<1>4. CASE k # 0
  <2>1. k \in Nat /\ k - 1 \in Nat /\ k - 1 < k
    BY <1>4
  <2>2. PICK g : FilterUpTo(g, seq, S, k - 1)
    BY <1>2, <2>1
  <2> DEFINE h == [i \in 0 .. k |->
                      IF i = k THEN (IF seq[k] \in S THEN Append(g[k - 1], seq[k]) ELSE g[k - 1])
                      ELSE g[i]]
  <2>3. ASSUME NEW i \in 0 .. k
        PROVE  h[i] = IF i = 0 THEN <<>>
                      ELSE IF seq[i] \in S THEN Append(h[i - 1], seq[i]) ELSE h[i - 1]
    <3>1. CASE i = k
      <4>1. i - 1 \in 0 .. k /\ i - 1 # k
        BY <3>1, <2>1
      <4>2. h[i - 1] = g[i - 1]
        BY <4>1
      <4>3. QED
        BY <3>1, <4>2, <1>4
    <3>2. CASE i # k
      <4>1. h[i] = g[i]
        BY <3>2
      <4>2. i \in 0 .. (k - 1)
        BY <3>2, <2>1
      <4>3. g[i] = IF i = 0 THEN <<>>
                   ELSE IF seq[i] \in S THEN Append(g[i - 1], seq[i]) ELSE g[i - 1]
        BY <4>2, <2>2 DEF FilterUpTo
      <4>4. i # 0 => h[i - 1] = g[i - 1]
        BY <4>2, <2>1
      <4>5. QED
        BY <4>1, <4>3, <4>4
    <3>3. QED
      BY <3>1, <3>2
  <2>4. FilterUpTo(h, seq, S, k)
    BY <2>3 DEF FilterUpTo
  <2>5. QED
    BY <2>4
<1>5. QED
  BY <1>3, <1>4

\* Only unfolds: its last step keeps the last element or leaves it out.
LEMMA OnlyFilters ==
  ASSUME NEW A, NEW seq \in Seq(A), NEW S
  PROVE  \E f : FilterUpTo(f, seq, S, Len(seq)) /\ Only(seq, S) = f[Len(seq)]
<1>1. Len(seq) \in Nat
  OBVIOUS
<1>2. \E f : FilterUpTo(f, seq, S, Len(seq))
  BY <1>1, FiltersExists
<1> DEFINE kept == CHOOSE f : FilterUpTo(f, seq, S, Len(seq))
<1>3. FilterUpTo(kept, seq, S, Len(seq))
  BY <1>2
<1>4. Only(seq, S) = kept[Len(seq)]
  BY DEF Only, FilterUpTo
<1>5. QED
  BY <1>3, <1>4


\* The elements of a sequence that has one more.
LEMMA MoreAtEnd ==
  ASSUME NEW A, NEW s \in Seq(A), NEW x \in A
  PROVE  ToSet(Append(s, x)) = ToSet(s) \cup {x}
<1>1. /\ Append(s, x) = s \o <<x>> /\ <<x>> \in Seq(A)
  BY AppendIsConcat
<1>2. ToSet(<<x>>) = {x}
  BY DEF ToSet
<1> DEFINE one == <<x>>
<1>3. Range(s \o one) = Range(s) \cup Range(one)
  <2>1. one \in Seq(A)
    OBVIOUS
  <2> HIDE DEF one
  <2>2. QED
    BY <2>1, RangeConcatenation
<1>4. QED
  BY <1>1, <1>2, <1>3 DEF Range, ToSet

\* A sequence that has a new element at its end.
LEMMA DistinctGrows ==
  ASSUME NEW A, NEW s \in Seq(A), Distinct(s), NEW x \in A, x \notin ToSet(s)
  PROVE  Append(s, x) \in Seq(A) /\ Distinct(Append(s, x))
<1>1. PICK n \in Nat : n = Len(s) /\ DOMAIN s = 1 .. n
  BY LenProperties
<1>2. PICK t \in Seq(A) : t = Append(s, x)
  BY AppendProperties
<1>3. /\ Len(t) = n + 1 /\ t[n + 1] = x /\ \A i \in 1 .. n : t[i] = s[i]
      /\ DOMAIN t = 1 .. n + 1
  BY <1>1, <1>2, AppendProperties, LenProperties
<1>4. \A i \in 1 .. n : s[i] # x
  BY <1>1 DEF ToSet
<1>5. ASSUME NEW i \in 1 .. n + 1, NEW j \in 1 .. n + 1, t[i] = t[j] PROVE i = j
  <2>1. CASE i \in 1 .. n /\ j \in 1 .. n
    BY <1>1, <1>3, <1>5, <2>1 DEF Distinct
  <2>2. CASE i = n + 1 /\ j = n + 1
    BY <2>2
  <2>3. CASE i \in 1 .. n /\ j = n + 1
    BY <1>3, <1>4, <1>5, <2>3
  <2>4. CASE i = n + 1 /\ j \in 1 .. n
    BY <1>3, <1>4, <1>5, <2>4
  <2>5. QED
    BY <2>1, <2>2, <2>3, <2>4
<1>6. QED
  BY <1>2, <1>3, <1>5 DEF Distinct

\* What is kept are the elements that are in S; none is there twice.
LEMMA OnlyIs ==
  ASSUME NEW A, NEW s \in Seq(A), NEW S
  PROVE  /\ Only(s, S) \in Seq(A) /\ ToSet(Only(s, S)) = ToSet(s) \cap S
         /\ Distinct(s) => Distinct(Only(s, S))
<1>1. PICK n \in Nat : n = Len(s) /\ DOMAIN s = 1 .. n
  BY LenProperties
<1>2. PICK f : FilterUpTo(f, s, S, n) /\ Only(s, S) = f[n]
  BY <1>1, OnlyFilters
<1> DEFINE Upto(k) == {s[i] : i \in 1 .. k}
           Good(k) == /\ f[k] \in Seq(A) /\ ToSet(f[k]) = Upto(k) \cap S
                      /\ Distinct(s) => Distinct(f[k])
           T == {k \in 0 .. n : ~Good(k)}
<1>3. ToSet(s) = Upto(n)
  BY <1>1 DEF ToSet
<1>4. SUFFICES ASSUME n \in T PROVE FALSE
  <2>1. n \in 0 .. n
    BY <1>1
  <2>2. Good(n) => Only(s, S) \in Seq(A) /\ ToSet(Only(s, S)) = ToSet(s) \cap S
                   /\ (Distinct(s) => Distinct(Only(s, S)))
    BY <1>2, <1>3
  <2>3. QED
    BY <2>1, <2>2
<1>5. T \subseteq Nat /\ T # {}
  <2>1. T \subseteq 0 .. n
    BY Zenon
  <2> HIDE DEF T
  <2>2. QED
    BY <1>4, <2>1
<1>6. PICK k \in T : \A m \in T : ~ (m < k)
  BY <1>5, LeastOf
<1>7. f[k] = IF k = 0 THEN <<>> ELSE IF s[k] \in S THEN Append(f[k - 1], s[k]) ELSE f[k - 1]
  BY <1>2, <1>6 DEF FilterUpTo
<1>8. CASE k = 0
  <2>1. f[k] = <<>> /\ Upto(k) = {}
    BY <1>7, <1>8
  <2>2. <<>> \in Seq(A) /\ Len(<<>>) = 0 /\ ToSet(<<>>) = {}
    BY EmptySeq DEF ToSet
  <2>3. Distinct(<<>>)
    BY <2>2 DEF Distinct
  <2>4. QED
    BY <1>6, <2>1, <2>2, <2>3
<1>9. CASE k # 0
  <2>1. k \in 1 .. n /\ k - 1 \in 0 .. n /\ k - 1 < k
    BY <1>6, <1>9
  <2>2. Good(k - 1) /\ s[k] \in A
    BY <1>1, <1>6, <2>1, ElementOfSeq
  <2>3. Upto(k) = Upto(k - 1) \cup {s[k]}
    <3>1. \A i \in 1 .. k : i \in 1 .. k - 1 \/ i = k
      BY <2>1
    <3>2. k \in 1 .. k /\ \A i \in 1 .. k - 1 : i \in 1 .. k
      BY <2>1
    <3>3. QED
      BY <3>1, <3>2
  <2>4. CASE s[k] \notin S
    <3>1. f[k] = f[k - 1]
      BY <1>7, <1>9, <2>4
    <3>2. QED
      BY <1>6, <2>2, <2>3, <2>4, <3>1
  <2>5. CASE s[k] \in S
    <3> DEFINE t == f[k - 1]
               x == s[k]
    <3>1. f[k] = Append(t, x)
      BY <1>7, <1>9, <2>5
    <3>2. t \in Seq(A) /\ x \in A /\ ToSet(t) = Upto(k - 1) \cap S /\ (Distinct(s) => Distinct(t))
      BY <2>2
    <3>3. Distinct(s) => x \notin Upto(k - 1)
      <4>1. ASSUME Distinct(s), NEW i \in 1 .. k - 1, s[i] = s[k] PROVE FALSE
        <5>1. i \in 1 .. n /\ i # k
          BY <2>1
        <5>2. QED
          BY <1>1, <2>1, <4>1, <5>1 DEF Distinct
      <4>2. QED
        BY <4>1
    <3> HIDE DEF t, x
    <3>4. Append(t, x) \in Seq(A) /\ ToSet(Append(t, x)) = ToSet(t) \cup {x}
      BY <3>2, MoreAtEnd, AppendProperties
    <3>5. Distinct(s) => Distinct(Append(t, x))
      BY <3>2, <3>3, DistinctGrows
    <3>6. Upto(k) \cap S = (Upto(k - 1) \cap S) \cup {x}
      BY <2>3, <2>5 DEF x
    <3>7. Good(k)
      BY <3>1, <3>2, <3>4, <3>5, <3>6
    <3>8. QED
      BY <1>6, <3>7
  <2>6. QED
    BY <2>4, <2>5
<1>10. QED
  BY <1>8, <1>9

\* A sequence with an element taken out.
LEMMA TakenOut ==
  ASSUME NEW A, NEW s \in Seq(A), NEW k \in 1 .. Len(s)
  PROVE  /\ RemoveAt(s, k) \in Seq(A) /\ Len(RemoveAt(s, k)) = Len(s) - 1
         /\ \A i \in 1 .. Len(s) - 1 : RemoveAt(s, k)[i] = IF i < k THEN s[i] ELSE s[i + 1]
<1>1. PICK n \in Nat : n = Len(s)
  BY LenProperties
<1>2. k \in 1 .. n /\ \A i \in 1 .. n : s[i] \in A
  BY <1>1, ElementOfSeq
<1> DEFINE before == SubSeq(s, 1, k - 1)
           after == SubSeq(s, k + 1, n)
<1>3. before \in Seq(A) /\ Len(before) = k - 1 /\ \A i \in 1 .. k - 1 : before[i] = s[i]
  <2>1. 1 \in Int /\ k - 1 \in Int /\ (\A i \in 1 .. k - 1 : s[i] \in A)
    BY <1>2
  <2>2. /\ before \in Seq(A) /\ Len(before) = IF 1 <= k - 1 THEN k - 1 - 1 + 1 ELSE 0
        /\ \A i \in 1 .. k - 1 - 1 + 1 : before[i] = s[1 + i - 1]
    BY <2>1, SubSeqProperties
  <2>3. k - 1 - 1 + 1 = k - 1 /\ (~ (1 <= k - 1) => k - 1 = 0)
    BY <1>2
  <2>4. ASSUME NEW i \in 1 .. k - 1 PROVE before[i] = s[i]
    <3>1. 1 + i - 1 = i
      OBVIOUS
    <3>2. QED
      BY <2>2, <2>3, <3>1, Zenon
  <2>5. QED
    BY <2>2, <2>3, <2>4
<1>4. after \in Seq(A) /\ Len(after) = n - k /\ \A i \in 1 .. n - k : after[i] = s[k + i]
  <2>1. k + 1 \in Int /\ n \in Int /\ (\A i \in k + 1 .. n : s[i] \in A)
    BY <1>2
  <2>2. /\ after \in Seq(A) /\ Len(after) = IF k + 1 <= n THEN n - (k + 1) + 1 ELSE 0
        /\ \A i \in 1 .. n - (k + 1) + 1 : after[i] = s[(k + 1) + i - 1]
    BY <2>1, SubSeqProperties
  <2>3. n - (k + 1) + 1 = n - k /\ (~ (k + 1 <= n) => n - k = 0)
    BY <1>2
  <2>4. ASSUME NEW i \in 1 .. n - k PROVE after[i] = s[k + i]
    <3>1. (k + 1) + i - 1 = k + i
      BY <1>2
    <3>2. QED
      BY <2>2, <2>3, <3>1, Zenon
  <2>5. QED
    BY <2>2, <2>3, <2>4
<1>5. RemoveAt(s, k) = before \o after
  BY <1>1 DEF RemoveAt
<1> HIDE DEF before, after
<1>6. /\ before \o after \in Seq(A) /\ Len(before \o after) = Len(before) + Len(after)
      /\ \A i \in 1 .. Len(before) + Len(after) :
            (before \o after)[i] = IF i <= Len(before) THEN before[i] ELSE after[i - Len(before)]
  BY <1>3, <1>4, ConcatProperties
<1>7. (k - 1) + (n - k) = n - 1
  BY <1>2
<1>8. ASSUME NEW i \in 1 .. n - 1
      PROVE  (before \o after)[i] = IF i < k THEN s[i] ELSE s[i + 1]
  <2>1. (before \o after)[i] = IF i <= k - 1 THEN before[i] ELSE after[i - (k - 1)]
    BY <1>3, <1>4, <1>6, <1>7
  <2>2. CASE i < k
    BY <1>2, <1>3, <2>1, <2>2
  <2>3. CASE ~ (i < k)
    <3>1. i - (k - 1) \in 1 .. n - k /\ k + (i - (k - 1)) = i + 1 /\ ~ (i <= k - 1)
      BY <1>2, <2>3
    <3>2. QED
      BY <1>4, <2>1, <2>3, <3>1
  <2>4. QED
    BY <2>2, <2>3
<1>9. QED
  BY <1>1, <1>3, <1>4, <1>5, <1>6, <1>7, <1>8

\* The sequences of all elements of a finite set.
LEMMA AllInOrder ==
  ASSUME NEW S, IsFiniteSet(S), NEW s \in SetToSeqs(S)
  PROVE  s \in Seq(S) /\ Distinct(s) /\ ToSet(s) = S
<1>1. PICK n \in Nat : n = Cardinality(S)
  BY FS_CardinalityType
<1>2. s \in [1 .. n -> S] /\ \A i, j \in 1 .. n : i # j => s[i] # s[j]
  BY <1>1 DEF SetToSeqs
<1>3. s \in Seq(S)
  BY <1>2, SeqDef
<1>4. Len(s) = n /\ DOMAIN s = 1 .. n
  BY <1>2, <1>3, LenProperties
<1>5. s \in Injection(1 .. n, S)
  BY <1>2 DEF Injection, IsInjective
<1>6. Cardinality(1 .. n) = n
  BY FS_Interval
<1>7. s \in Surjection(1 .. n, S)
  BY <1>1, <1>5, <1>6, FS_Injection
<1>8. ToSet(s) = S
  BY <1>4, <1>7 DEF Surjection, ToSet
<1>9. QED
  BY <1>2, <1>3, <1>4, <1>8 DEF Distinct

\* A sequence without repetitions is as long as it has elements.
LEMMA DistinctLength ==
  ASSUME NEW A, NEW s \in Seq(A), Distinct(s)
  PROVE  Len(s) = Cardinality(ToSet(s))
<1>1. PICK n \in Nat : n = Len(s) /\ DOMAIN s = 1 .. n
  BY LenProperties
<1>2. s \in [1 .. n -> ToSet(s)] /\ \A x \in ToSet(s) : \E i \in 1 .. n : s[i] = x
  BY <1>1 DEF ToSet
<1>3. \A i, j \in 1 .. n : s[i] = s[j] => i = j
  BY <1>1 DEF Distinct
<1>4. s \in Bijection(1 .. n, ToSet(s))
  BY <1>2, <1>3 DEF Bijection, Injection, Surjection, IsInjective
<1>5. IsFiniteSet(1 .. n) /\ Cardinality(1 .. n) = n
  BY FS_Interval
<1>6. Cardinality(ToSet(s)) = Cardinality(1 .. n)
  BY <1>4, <1>5, FS_Bijection DEF ExistsBijection
<1>7. QED
  BY <1>1, <1>5, <1>6


\* A finite set in a linear order: each element once, the earlier first.
LEMMA RankedIs ==
  ASSUME NEW S, IsFiniteSet(S), NEW R,
         \A x \in S : <<x, x>> \notin R,
         \A x, y, z \in S : <<x, y>> \in R /\ <<y, z>> \in R => <<x, z>> \in R,
         \A x, y \in S : x # y => <<x, y>> \in R \/ <<y, x>> \in R
  PROVE  /\ Ranked(S, R) \in [1 .. Cardinality(S) -> S]
         /\ \A i, j \in 1 .. Cardinality(S) : i < j => <<Ranked(S, R)[i], Ranked(S, R)[j]>> \in R
         /\ \A i, j \in 1 .. Cardinality(S) : Ranked(S, R)[i] = Ranked(S, R)[j] => i = j
<1>1. PICK n \in Nat : n = Cardinality(S)
  BY FS_CardinalityType
<1> DEFINE Before(x) == {y \in S : <<y, x>> \in R}
<1>2. ASSUME NEW x \in S
      PROVE  IsFiniteSet(Before(x)) /\ Cardinality(Before(x)) \in 0 .. n - 1
  <2>1. Before(x) \subseteq S /\ x \notin Before(x)
    OBVIOUS
  <2> HIDE DEF Before
  <2>2. /\ IsFiniteSet(Before(x)) /\ Cardinality(Before(x)) <= Cardinality(S)
        /\ (Cardinality(S) = Cardinality(Before(x)) => S = Before(x))
    BY <2>1, FS_Subset
  <2>3. Cardinality(Before(x)) \in Nat
    BY <2>2, FS_CardinalityType
  <2>4. QED
    BY <1>1, <2>1, <2>2, <2>3
<1>3. ASSUME NEW x \in S, NEW z \in S, <<x, z>> \in R
      PROVE  Cardinality(Before(x)) < Cardinality(Before(z))
  <2>1. Before(x) \subseteq Before(z)
    BY <1>3
  <2>2. x \in Before(z) /\ x \notin Before(x)
    BY <1>3
  <2>3. /\ IsFiniteSet(Before(z)) /\ Cardinality(Before(z)) \in 0 .. n - 1
        /\ Cardinality(Before(x)) \in 0 .. n - 1
    BY <1>2
  <2> HIDE DEF Before
  <2>4. /\ Cardinality(Before(x)) <= Cardinality(Before(z))
        /\ (Cardinality(Before(z)) = Cardinality(Before(x)) => Before(z) = Before(x))
    BY <2>1, <2>3, FS_Subset
  <2>5. QED
    BY <2>2, <2>3, <2>4
<1> DEFINE rank == [x \in S |-> Cardinality(Before(x))]
<1>4. rank \in [S -> 0 .. n - 1]
  BY <1>2
<1>5. \A x, z \in S : x # z => rank[x] # rank[z]
  <2>1. ASSUME NEW x \in S, NEW z \in S, x # z PROVE rank[x] # rank[z]
    <3>1. rank[x] = Cardinality(Before(x)) /\ rank[z] = Cardinality(Before(z))
      OBVIOUS
    <3>2. rank[x] < rank[z] \/ rank[z] < rank[x]
      BY <1>3, <2>1, <3>1
    <3>3. rank[x] \in 0 .. n - 1 /\ rank[z] \in 0 .. n - 1
      BY <1>4
    <3> HIDE DEF rank
    <3>4. QED
      BY <3>2, <3>3
  <2>2. QED
    BY <2>1
<1>6. rank \in Surjection(S, 0 .. n - 1)
  <2> HIDE DEF rank
  <2>1. rank \in Injection(S, 0 .. n - 1)
    BY <1>4, <1>5 DEF Injection, IsInjective
  <2>2. IsFiniteSet(0 .. n - 1) /\ Cardinality(0 .. n - 1) = n
    BY FS_Interval
  <2>3. QED
    BY <1>1, <2>1, <2>2, FS_Injection
<1>7. ASSUME NEW k \in 1 .. n PROVE \E x \in S : Cardinality(Before(x)) = k - 1
  <2>1. k - 1 \in 0 .. n - 1
    OBVIOUS
  <2>2. \E x \in S : rank[x] = k - 1
    BY <1>6, <2>1 DEF Surjection
  <2>3. QED
    BY <2>2
<1> DEFINE at == Ranked(S, R)
<1>8. ASSUME NEW k \in 1 .. n PROVE at[k] \in S /\ Cardinality(Before(at[k])) = k - 1
  <2>1. at[k] = CHOOSE x \in S : Cardinality(Before(x)) = k - 1
    BY <1>1 DEF Ranked
  <2>2. QED
    BY <1>7, <2>1
<1>9. at \in [1 .. n -> S]
  <2>1. at = [k \in 1 .. n |-> CHOOSE x \in S : Cardinality(Before(x)) = k - 1]
    BY <1>1 DEF Ranked
  <2>2. DOMAIN at = 1 .. n /\ at = [k \in 1 .. n |-> at[k]]
    BY <2>1
  <2> HIDE DEF at
  <2>3. QED
    BY <1>8, <2>2
<1> HIDE DEF at, Before, rank
<1>10. \A i, j \in 1 .. n : at[i] = at[j] => i = j
  BY <1>8
<1>11. ASSUME NEW i \in 1 .. n, NEW j \in 1 .. n, i < j PROVE <<at[i], at[j]>> \in R
  <2>1. at[i] \in S /\ at[j] \in S /\ at[i] # at[j]
    BY <1>8, <1>10, <1>11
  <2>2. <<at[j], at[i]>> \in R => j - 1 < i - 1
    BY <1>3, <1>8, <2>1
  <2>3. QED
    BY <1>11, <2>1, <2>2
<1>12. QED
  BY <1>1, <1>9, <1>10, <1>11 DEF at

\* A sequence with an element put in.
PutAt(t, s, k, x) ==
    t = [i \in 1 .. Len(s) + 1 |-> IF i < k THEN s[i] ELSE IF i = k THEN x ELSE s[i - 1]]

LEMMA PutIn ==
  ASSUME NEW A, NEW s \in Seq(A), NEW k \in 1 .. Len(s) + 1, NEW x \in A
  PROVE  InsertAt(s, k, x) \in Seq(A) /\ PutAt(InsertAt(s, k, x), s, k, x)
<1>1. PICK n \in Nat : n = Len(s)
  BY LenProperties
<1>2. k \in 1 .. n + 1 /\ \A i \in 1 .. n : s[i] \in A
  BY <1>1, ElementOfSeq
<1> DEFINE before == SubSeq(s, 1, k - 1)
           after == SubSeq(s, k, n)
           one == <<x>>
<1>3. before \in Seq(A) /\ Len(before) = k - 1 /\ \A i \in 1 .. k - 1 : before[i] = s[i]
  <2>1. 1 \in Int /\ k - 1 \in Int /\ (\A i \in 1 .. k - 1 : s[i] \in A)
    BY <1>2
  <2>2. /\ before \in Seq(A) /\ Len(before) = IF 1 <= k - 1 THEN k - 1 - 1 + 1 ELSE 0
        /\ \A i \in 1 .. k - 1 - 1 + 1 : before[i] = s[1 + i - 1]
    BY <2>1, SubSeqProperties
  <2>3. k - 1 - 1 + 1 = k - 1 /\ (~ (1 <= k - 1) => k - 1 = 0)
    BY <1>2
  <2>4. ASSUME NEW i \in 1 .. k - 1 PROVE before[i] = s[i]
    <3>1. 1 + i - 1 = i
      OBVIOUS
    <3>2. QED
      BY <2>2, <2>3, <3>1, Zenon
  <2>5. QED
    BY <2>2, <2>3, <2>4
<1>4. after \in Seq(A) /\ Len(after) = n - k + 1 /\ \A i \in 1 .. n - k + 1 : after[i] = s[k + i - 1]
  <2>1. k \in Int /\ n \in Int /\ (\A i \in k .. n : s[i] \in A)
    BY <1>2
  <2>2. /\ after \in Seq(A) /\ Len(after) = IF k <= n THEN n - k + 1 ELSE 0
        /\ \A i \in 1 .. n - k + 1 : after[i] = s[k + i - 1]
    BY <2>1, SubSeqProperties
  <2>3. ~ (k <= n) => n - k + 1 = 0
    BY <1>2
  <2>4. QED
    BY <2>2, <2>3
<1>5. one \in Seq(A) /\ Len(one) = 1 /\ one[1] = x
  OBVIOUS
<1>6. InsertAt(s, k, x) = before \o one \o after
  BY <1>1 DEF InsertAt
<1> HIDE DEF before, after, one
<1>7. PICK left \in Seq(A) : left = before \o one
  BY <1>3, <1>5, ConcatProperties
<1>8. /\ Len(left) = k
      /\ \A i \in 1 .. k : left[i] = IF i <= k - 1 THEN before[i] ELSE one[i - (k - 1)]
  <2>1. /\ Len(left) = Len(before) + Len(one)
        /\ \A i \in 1 .. Len(before) + Len(one) :
              left[i] = IF i <= Len(before) THEN before[i] ELSE one[i - Len(before)]
    BY <1>3, <1>5, <1>7, ConcatProperties
  <2>2. Len(before) = k - 1 /\ Len(one) = 1 /\ (k - 1) + 1 = k
    BY <1>2, <1>3, <1>5
  <2>3. QED
    BY <2>1, <2>2
<1>9. /\ left \o after \in Seq(A) /\ Len(left \o after) = n + 1
      /\ \A i \in 1 .. n + 1 : (left \o after)[i] = IF i <= k THEN left[i] ELSE after[i - k]
  <2>1. /\ left \o after \in Seq(A) /\ Len(left \o after) = Len(left) + Len(after)
        /\ \A i \in 1 .. Len(left) + Len(after) :
              (left \o after)[i] = IF i <= Len(left) THEN left[i] ELSE after[i - Len(left)]
    <3>1. left \in Seq(A) /\ after \in Seq(A)
      BY <1>4, <1>7
    <3>2. QED
      BY <3>1, ConcatProperties
  <2>2. Len(left) = k /\ Len(after) = n - k + 1 /\ k + (n - k + 1) = n + 1
    BY <1>2, <1>4, <1>8
  <2>3. QED
    BY <2>1, <2>2
<1>10. ASSUME NEW i \in 1 .. n + 1
       PROVE  (left \o after)[i] = IF i < k THEN s[i] ELSE IF i = k THEN x ELSE s[i - 1]
  <2>1. CASE i < k
    <3>1. i \in 1 .. k - 1 /\ i \in 1 .. k /\ i <= k /\ i <= k - 1
      BY <1>2, <2>1
    <3>2. left[i] = s[i]
      BY <1>3, <1>8, <3>1
    <3>3. QED
      BY <1>9, <2>1, <3>1, <3>2
  <2>2. CASE i = k
    <3>1. ~ (k <= k - 1) /\ k - (k - 1) = 1 /\ k \in 1 .. k
      BY <1>2
    <3>2. left[k] = one[1]
      BY <1>8, <3>1
    <3>3. QED
      BY <1>5, <1>9, <2>2, <3>2
  <2>3. CASE ~ (i < k) /\ i # k
    <3>1. i - k \in 1 .. n - k + 1 /\ k + (i - k) - 1 = i - 1 /\ ~ (i <= k)
      BY <1>2, <2>3
    <3>2. QED
      BY <1>4, <1>9, <2>3, <3>1
  <2>4. QED
    BY <2>1, <2>2, <2>3
<1>11. PICK t : t = left \o after
  OBVIOUS
<1>12. \A i \in 1 .. n + 1 : t[i] = IF i < k THEN s[i] ELSE IF i = k THEN x ELSE s[i - 1]
  BY <1>10, <1>11
<1>13. InsertAt(s, k, x) = t
  BY <1>6, <1>7, <1>11
<1>14. t \in Seq(A) /\ DOMAIN t = 1 .. n + 1 /\ t = [i \in 1 .. n + 1 |-> t[i]]
  <2>1. t \in Seq(A) /\ Len(t) = n + 1
    BY <1>9, <1>11
  <2>2. QED
    BY <2>1, LenProperties
<1>15. t = [i \in 1 .. n + 1 |-> IF i < k THEN s[i] ELSE IF i = k THEN x ELSE s[i - 1]]
  BY <1>12, <1>14
<1>16. PutAt(t, s, k, x)
  BY <1>1, <1>15 DEF PutAt
<1>17. QED
  BY <1>13, <1>14, <1>16

\* The first elements of a sequence.
Upto(s, n) == [i \in 1 .. n |-> s[i]]

LEMMA UptoIs ==
  ASSUME NEW A, NEW s \in Seq(A), NEW n \in 0 .. Len(s)
  PROVE  /\ Upto(s, n) \in Seq(A) /\ Len(Upto(s, n)) = n
         /\ n # 0 => Append(Upto(s, n - 1), s[n]) = Upto(s, n)
         /\ Upto(s, 0) = <<>> /\ Upto(s, Len(s)) = s
<1>1. PICK m \in Nat : m = Len(s) /\ DOMAIN s = 1 .. m /\ s \in [1 .. m -> A]
  BY LenProperties
<1>2. ASSUME NEW k \in 0 .. m PROVE Upto(s, k) \in Seq(A) /\ Len(Upto(s, k)) = k
  <2>1. Upto(s, k) \in [1 .. k -> A] /\ k \in Nat
    BY <1>1 DEF Upto
  <2>2. QED
    BY <2>1, UpToIsSeq
<1>3. ASSUME n # 0 PROVE Append(Upto(s, n - 1), s[n]) = Upto(s, n)
  <2>1. PICK k \in Nat : k + 1 = n /\ k \in 0 .. m /\ k = n - 1
    BY <1>1, <1>3
  <2>2. PICK t \in Seq(A) : t = Upto(s, k)
    BY <1>2, <2>1
  <2>3. Len(t) = k /\ s[n] \in A
    BY <1>1, <1>2, <2>1, <2>2
  <2>4. PICK u \in Seq(A) : u = Append(t, s[n])
    BY <2>3, AppendProperties
  <2>5. Len(u) = k + 1 /\ u[k + 1] = s[n] /\ \A i \in 1 .. k : u[i] = t[i]
    BY <2>3, <2>4, AppendProperties
  <2>6. \A i \in 1 .. n : u[i] = s[i]
    BY <2>1, <2>2, <2>5 DEF Upto
  <2>7. u = [i \in 1 .. n |-> s[i]]
    BY <2>1, <2>5, <2>6, LenProperties
  <2>8. QED
    BY <2>1, <2>2, <2>4, <2>7 DEF Upto
<1>4. Upto(s, m) = s
  BY <1>1 DEF Upto
<1>5. Upto(s, 0) = <<>>
  BY DEF Upto
<1>6. QED
  BY <1>1, <1>2, <1>3, <1>4, <1>5

\* Nothing is left out of a sequence that is in S.
LEMMA OnlyAll ==
  ASSUME NEW A, NEW s \in Seq(A), NEW S, ToSet(s) \subseteq S
  PROVE  Only(s, S) = s
<1>1. PICK n \in Nat : n = Len(s) /\ DOMAIN s = 1 .. n
  BY LenProperties
<1>2. PICK f : FilterUpTo(f, s, S, n) /\ Only(s, S) = f[n]
  BY <1>1, OnlyFilters
<1> DEFINE T == {k \in 0 .. n : f[k] # Upto(s, k)}
<1>3. SUFFICES ASSUME T # {} PROVE FALSE
  BY <1>1, <1>2, UptoIs
<1>4. T \subseteq Nat
  OBVIOUS
<1>5. PICK k \in T : \A m \in T : ~ (m < k)
  BY <1>3, <1>4, LeastOf
<1>6. f[k] = IF k = 0 THEN <<>> ELSE IF s[k] \in S THEN Append(f[k - 1], s[k]) ELSE f[k - 1]
  BY <1>2, <1>5 DEF FilterUpTo
<1>7. CASE k = 0
  BY <1>1, <1>5, <1>6, <1>7, UptoIs
<1>8. CASE k # 0
  <2>1. k - 1 \in 0 .. n /\ k - 1 < k /\ k \in 1 .. n /\ k \in 0 .. Len(s)
    BY <1>1, <1>5, <1>8
  <2>2. f[k - 1] = Upto(s, k - 1)
    BY <1>5, <2>1
  <2>3. s[k] \in S
    BY <1>1, <2>1 DEF ToSet
  <2>4. Append(Upto(s, k - 1), s[k]) = Upto(s, k)
    BY <1>8, <2>1, UptoIs
  <2>5. QED
    BY <1>5, <1>6, <1>8, <2>2, <2>3, <2>4
<1>9. QED
  BY <1>7, <1>8

\* What was put in is what is left out.
LEMMA OnlySkips ==
  ASSUME NEW A, NEW s \in Seq(A), NEW k \in 1 .. Len(s) + 1, NEW x \in A,
         NEW u \in Seq(A), PutAt(u, s, k, x), NEW S, ToSet(s) \subseteq S, x \notin S
  PROVE  Only(u, S) = s
<1>1. PICK n \in Nat : n = Len(s) /\ DOMAIN s = 1 .. n
  BY LenProperties
<1>2. Len(u) = n + 1 /\ DOMAIN u = 1 .. n + 1
  <2>1. DOMAIN u = 1 .. n + 1
    BY <1>1 DEF PutAt
  <2>2. QED
    BY <1>1, <2>1, LenProperties
<1>3. PICK f : FilterUpTo(f, u, S, n + 1) /\ Only(u, S) = f[n + 1]
  BY <1>2, OnlyFilters
<1> DEFINE Short(j) == IF j < k THEN Upto(s, j) ELSE Upto(s, j - 1)
           T == {j \in 0 .. n + 1 : f[j] # Short(j)}
<1>4. SUFFICES ASSUME T # {} PROVE FALSE
  <2>1. n + 1 \in 0 .. n + 1 /\ ~ (n + 1 < k) /\ n + 1 - 1 = n
    BY <1>1
  <2>2. Short(n + 1) = s
    BY <1>1, <2>1, UptoIs
  <2>3. QED
    BY <1>3, <2>1, <2>2
<1>5. T \subseteq Nat
  OBVIOUS
<1>6. PICK j \in T : \A m \in T : ~ (m < j)
  BY <1>4, <1>5, LeastOf
<1>7. f[j] = IF j = 0 THEN <<>> ELSE IF u[j] \in S THEN Append(f[j - 1], u[j]) ELSE f[j - 1]
  BY <1>3, <1>6 DEF FilterUpTo
<1>8. CASE j = 0
  <2>1. 0 < k
    BY <1>1
  <2>2. QED
    BY <1>1, <1>6, <1>7, <1>8, <2>1, UptoIs
<1>9. CASE j # 0
  <2>1. j - 1 \in 0 .. n + 1 /\ j - 1 < j /\ j \in 1 .. n + 1
    BY <1>1, <1>6, <1>9
  <2>2. f[j - 1] = Short(j - 1)
    BY <1>6, <2>1
  <2>3. CASE j < k
    <3>1. u[j] = s[j] /\ j \in 1 .. n /\ j - 1 < k /\ j \in 0 .. Len(s)
      BY <1>1, <2>1, <2>3 DEF PutAt
    <3>2. s[j] \in S
      BY <1>1, <3>1 DEF ToSet
    <3>3. Short(j) = Upto(s, j) /\ Short(j - 1) = Upto(s, j - 1)
      BY <2>3, <3>1
    <3>4. Append(Upto(s, j - 1), s[j]) = Upto(s, j)
      <4>1. PICK i \in 0 .. Len(s) : i = j /\ i # 0
        BY <1>9, <3>1
      <4>2. Append(Upto(s, i - 1), s[i]) = Upto(s, i)
        BY <4>1, UptoIs
      <4>3. QED
        BY <4>1, <4>2
    <3>5. QED
      BY <1>6, <1>7, <1>9, <2>2, <3>1, <3>2, <3>3, <3>4
  <2>4. CASE j = k
    <3>1. u[j] = x /\ ~ (j < k) /\ j - 1 < k
      BY <1>1, <2>1, <2>4 DEF PutAt
    <3>2. Short(j) = Short(j - 1)
      BY <3>1
    <3>3. QED
      BY <1>6, <1>7, <1>9, <2>2, <3>1, <3>2
  <2>5. CASE k < j
    <3>1. PICK h \in Nat : h = j - 1 /\ h \in 1 .. n /\ h # 0 /\ h \in 0 .. Len(s) /\ ~ (h < k) /\ ~ (j < k)
      BY <1>1, <2>1, <2>5
    <3>2. u[j] = s[h]
      BY <1>1, <2>1, <2>5, <3>1 DEF PutAt
    <3>3. s[h] \in S
      BY <1>1, <3>1 DEF ToSet
    <3>4. Short(j) = Upto(s, h) /\ Short(h) = Upto(s, h - 1)
      BY <3>1
    <3>5. Append(Upto(s, h - 1), s[h]) = Upto(s, h)
      BY <3>1, UptoIs
    <3>6. QED
      BY <1>6, <1>7, <1>9, <2>2, <3>1, <3>2, <3>3, <3>4, <3>5
  <2>6. j < k \/ j = k \/ k < j
    BY <1>1, <2>1
  <2>7. QED
    BY <2>3, <2>4, <2>5, <2>6
<1>10. QED
  BY <1>8, <1>9

-----------------------------------------------------------------------------
(* Trees.                                                                  *)

Tree == [name : Nat, kids : [Parents -> Seq(Items)], ver : [Items -> Nat]]
Kids(t, p) == ToSet(t.kids[p])

\* Everything is in one place and below the top; what is not there has neither
\* children nor a version.
Sound(t) ==
    /\ t \in Tree
    /\ \A p \in Parents : Distinct(t.kids[p])
    /\ \A p, q \in Parents : p # q => Kids(t, p) \cap Kids(t, q) = {}
    /\ \A f \in Folders : t.kids[f] # <<>> => f \in Nodes(t)
    /\ \A i \in Items : t.ver[i] # 0 => i \in Nodes(t)

LEMMA TreeHas ==
  ASSUME NEW t \in Tree
  PROVE  /\ \A p \in Parents : t.kids[p] \in Seq(Items) /\ Kids(t, p) \subseteq Items
         /\ \A f \in Folders : f \in Parents /\ f \in Items
         /\ Top \in Parents /\ Top \notin Folders
         /\ \A p \in Parents : p = Top \/ p \in Folders
         /\ \A p \in Parents : t.kids[p] # <<>> <=> Kids(t, p) # {}
<1>1. ASSUME NEW p \in Parents
      PROVE  /\ t.kids[p] \in Seq(Items) /\ Kids(t, p) \subseteq Items
             /\ t.kids[p] # <<>> <=> Kids(t, p) # {}
  <2>1. PICK s \in Seq(Items) : s = t.kids[p]
    BY DEF Tree
  <2>2. PICK n \in Nat : n = Len(s) /\ DOMAIN s = 1 .. n /\ \A k \in 1 .. n : s[k] \in Items
    BY LenProperties, ElementOfSeq
  <2>3. s # <<>> <=> n # 0
    BY <2>2, EmptySeq
  <2>4. ToSet(s) \subseteq Items /\ (n # 0 <=> ToSet(s) # {})
    BY <2>2 DEF ToSet
  <2>5. QED
    BY <2>1, <2>3, <2>4 DEF Kids
<1>2. QED
  BY <1>1, FoldersAreItems, IdsAreUnique DEF Parents

\* A walk finds what it starts with, and the children of what it enters.
LEMMA WithinHas ==
  ASSUME NEW t \in Tree, NEW start \in SUBSET Items, NEW stop
  PROVE  /\ start \subseteq Within(t, start, stop) /\ Within(t, start, stop) \subseteq Items
         /\ \A f \in Folders : f \in Within(t, start, stop) /\ f \notin stop
               => Kids(t, f) \subseteq Within(t, start, stop)
<1>1. start \subseteq Within(t, start, stop) /\ Within(t, start, stop) \subseteq Items
  BY DEF Within
<1>2. ASSUME NEW f \in Folders, f \in Within(t, start, stop), f \notin stop, NEW x \in Kids(t, f)
      PROVE  x \in Within(t, start, stop)
  <2>1. x \in Items
    BY TreeHas
  <2>2. ASSUME NEW S \in SUBSET Items, start \subseteq S, Followed(t, S, stop) PROVE x \in S
    <3>1. f \in S
      BY <1>2, <2>2 DEF Within
    <3>2. QED
      BY <1>2, <2>2, <3>1 DEF Followed, Kids
  <2>3. QED
    BY <2>1, <2>2 DEF Within
<1>3. QED
  BY <1>1, <1>2

\* It finds nothing else.
LEMMA WithinLeast ==
  ASSUME NEW t \in Tree, NEW start \in SUBSET Items, NEW stop, NEW S \in SUBSET Items, start \subseteq S,
         \A f \in Folders : f \in S /\ f \notin stop => Kids(t, f) \subseteq S
  PROVE  Within(t, start, stop) \subseteq S
<1>1. Followed(t, S, stop)
  BY DEF Followed, Kids
<1>2. QED
  BY <1>1 DEF Within

\* What a walk comes to has a parent that it entered.
LEMMA WithinFrom ==
  ASSUME NEW t \in Tree, NEW start \in SUBSET Items, NEW stop, NEW x \in Within(t, start, stop), x \notin start
  PROVE  \E f \in Folders : f \in Within(t, start, stop) /\ f \notin stop /\ f # x /\ x \in Kids(t, f)
<1>1. PICK W \in SUBSET Items :
        /\ W = Within(t, start, stop) /\ start \subseteq W
        /\ \A f \in Folders : f \in W /\ f \notin stop => Kids(t, f) \subseteq W
  BY WithinHas
<1>2. SUFFICES ASSUME \A f \in Folders : f \in W /\ f \notin stop /\ f # x => x \notin Kids(t, f)
               PROVE  FALSE
  BY <1>1
<1>3. PICK S \in SUBSET Items : S = W \ {x}
  OBVIOUS
<1>4. /\ start \subseteq S
      /\ \A f \in Folders : f \in S /\ f \notin stop => Kids(t, f) \subseteq S
  BY <1>1, <1>2, <1>3
<1>5. W \subseteq S
  BY <1>1, <1>4, WithinLeast
<1>6. QED
  BY <1>1, <1>3, <1>5

\* The nodes of a tree are the children of its folders and of its top.
LEMMA NodesAre ==
  ASSUME NEW t, Sound(t)
  PROVE  /\ Nodes(t) \subseteq Items
         /\ \A p \in Parents : Kids(t, p) \subseteq Nodes(t)
         /\ \A x \in Nodes(t) : \E p \in Parents : x \in Kids(t, p) /\ (p = Top \/ p \in Nodes(t))
         /\ \A S \in SUBSET Items :
               Kids(t, Top) \subseteq S /\ (\A f \in Folders : f \in S => Kids(t, f) \subseteq S)
                 => Nodes(t) \subseteq S
<1>1. t \in Tree
  BY DEF Sound
<1>2. PICK top \in SUBSET Items : top = Kids(t, Top)
  BY <1>1, TreeHas
<1>3. Nodes(t) = Within(t, top, {})
  BY <1>2 DEF Nodes, Kids
<1>4. /\ top \subseteq Nodes(t) /\ Nodes(t) \subseteq Items
      /\ \A f \in Folders : f \in Nodes(t) => Kids(t, f) \subseteq Nodes(t)
  BY <1>1, <1>3, WithinHas
<1>5. ASSUME NEW p \in Parents PROVE Kids(t, p) \subseteq Nodes(t)
  <2>1. CASE p = Top
    BY <1>2, <1>4, <2>1
  <2>2. CASE p \in Folders /\ Kids(t, p) # {}
    <3>1. p \in Nodes(t)
      BY <1>1, <2>2, TreeHas DEF Sound
    <3>2. QED
      BY <1>4, <2>2, <3>1
  <2>3. QED
    BY <1>1, <2>1, <2>2, TreeHas
<1>6. ASSUME NEW x \in Nodes(t) PROVE \E p \in Parents : x \in Kids(t, p) /\ (p = Top \/ p \in Nodes(t))
  <2>1. CASE x \in top
    BY <1>1, <1>2, <2>1, TreeHas
  <2>2. CASE x \notin top
    <3>1. \E f \in Folders : f \in Within(t, top, {}) /\ x \in Kids(t, f)
      BY <1>1, <1>3, <2>2, WithinFrom
    <3>2. QED
      BY <1>1, <1>3, <3>1, TreeHas
  <2>3. QED
    BY <2>1, <2>2
<1>7. ASSUME NEW S \in SUBSET Items, Kids(t, Top) \subseteq S, \A f \in Folders : f \in S => Kids(t, f) \subseteq S
      PROVE  Nodes(t) \subseteq S
  <2>1. Within(t, top, {}) \subseteq S
    BY <1>1, <1>2, <1>7, WithinLeast
  <2>2. QED
    BY <1>3, <2>1
<1>8. QED
  BY <1>4, <1>5, <1>6, <1>7

\* What is in one place has one parent.
LEMMA OneParent ==
  ASSUME NEW t, Sound(t), NEW p \in Parents, NEW q \in Parents, NEW x \in Kids(t, p), x \in Kids(t, q)
  PROVE  p = q
BY DEF Sound

\* What is under some nodes: the nodes, and what has its parent there.
LEMMA UnderIs ==
  ASSUME NEW t, Sound(t), NEW gone \in SUBSET Items
  PROVE  /\ gone \subseteq Within(t, gone, {}) /\ Within(t, gone, {}) \subseteq Items
         /\ \A f \in Folders : f \in Within(t, gone, {}) => Kids(t, f) \subseteq Within(t, gone, {})
         /\ \A p \in Parents, x \in Items :
               x \in Kids(t, p) /\ x \notin gone /\ x \in Within(t, gone, {})
                  => p \in Folders /\ p \in Within(t, gone, {}) /\ p # x
         /\ Within(t, gone, {}) \subseteq gone \cup Nodes(t)
<1>1. t \in Tree
  BY DEF Sound
<1>2. PICK W \in SUBSET Items :
        /\ W = Within(t, gone, {}) /\ gone \subseteq W
        /\ \A f \in Folders : f \in W => Kids(t, f) \subseteq W
  BY <1>1, WithinHas
<1>3. ASSUME NEW p \in Parents, NEW x \in Items, x \in Kids(t, p), x \notin gone, x \in W
      PROVE  p \in Folders /\ p \in W /\ p # x
  <2>1. PICK f \in Folders : f \in W /\ f # x /\ x \in Kids(t, f)
    BY <1>1, <1>2, <1>3, WithinFrom
  <2>2. f = p
    BY <1>1, <1>3, <2>1, OneParent, TreeHas
  <2>3. QED
    BY <2>1, <2>2
<1>4. W \subseteq gone \cup Nodes(t)
  <2>1. \A f \in Folders : Kids(t, f) \subseteq Nodes(t)
    BY <1>1, NodesAre, TreeHas
  <2>2. Nodes(t) \subseteq Items
    BY NodesAre
  <2>3. QED
    BY <1>1, <1>2, <2>1, <2>2, WithinLeast
<1>5. QED
  BY <1>2, <1>3, <1>4

\* A node is not under itself: its parent is elsewhere.
LEMMA NotUnderItself ==
  ASSUME NEW t, Sound(t), NEW i \in Nodes(t), NEW p \in Parents, i \in Kids(t, p)
  PROVE  p \notin Subtree(t, i)
<1>1. PICK sub \in SUBSET Items :
        /\ sub = Subtree(t, i) /\ i \in sub
        /\ \A q \in Parents, x \in Items : x \in Kids(t, q) /\ x # i /\ x \in sub => q \in Folders /\ q \in sub
  <2>1. i \in Items
    BY NodesAre
  <2>2. QED
    BY <2>1, UnderIs DEF Subtree
<1>2. t \in Tree
  BY DEF Sound
<1>3. SUFFICES ASSUME p \in sub PROVE FALSE
  BY <1>1
<1>4. PICK S \in SUBSET Items : S = Nodes(t) \ sub
  BY NodesAre
<1>5. ASSUME NEW q \in Parents, q \notin sub, NEW x \in Kids(t, q) PROVE x \in S
  <2>1. x \in Nodes(t) /\ x \in Items
    BY NodesAre
  <2>2. x # i
    BY <1>3, <1>5, OneParent
  <2>3. x \notin sub
    BY <1>1, <1>5, <2>1, <2>2
  <2>4. QED
    BY <1>4, <2>1, <2>3
<1>6. Kids(t, Top) \subseteq S
  <2>1. Top \in Parents /\ Top \notin sub
    BY <1>1, <1>2, TreeHas, IdsAreUnique
  <2>2. QED
    BY <1>5, <2>1
<1>7. \A f \in Folders : f \in S => Kids(t, f) \subseteq S
  BY <1>2, <1>4, <1>5, TreeHas
<1>8. Nodes(t) \subseteq S
  BY <1>6, <1>7, NodesAre
<1>9. QED
  BY <1>1, <1>4, <1>8

\* Trees with the same children and versions are the same.
LEMMA SameTree ==
  ASSUME NEW t \in Tree, NEW u \in Tree, t.name = u.name,
         \A p \in Parents : t.kids[p] = u.kids[p], \A i \in Items : t.ver[i] = u.ver[i]
  PROVE  t = u
<1>1. /\ t = [name |-> t.name, kids |-> t.kids, ver |-> t.ver]
      /\ u = [name |-> u.name, kids |-> u.kids, ver |-> u.ver]
  BY DEF Tree
<1>2. t.kids \in [Parents -> Seq(Items)] /\ u.kids \in [Parents -> Seq(Items)]
  BY DEF Tree
<1>3. t.ver \in [Items -> Nat] /\ u.ver \in [Items -> Nat]
  BY DEF Tree
<1>4. t.kids = u.kids
  BY <1>2
<1>5. t.ver = u.ver
  BY <1>3
<1>6. QED
  BY <1>1, <1>4, <1>5, Zenon

\* The nodes of any tree are what is under its top.
LEMMA NodesHave ==
  ASSUME NEW t \in Tree
  PROVE  /\ Kids(t, Top) \subseteq Nodes(t) /\ Nodes(t) \subseteq Items
         /\ \A f \in Folders : f \in Nodes(t) => Kids(t, f) \subseteq Nodes(t)
         /\ \A S \in SUBSET Items :
               Kids(t, Top) \subseteq S /\ (\A f \in Folders : f \in S => Kids(t, f) \subseteq S)
                 => Nodes(t) \subseteq S
<1>1. PICK top \in SUBSET Items : top = Kids(t, Top)
  BY TreeHas
<1>2. Nodes(t) = Within(t, top, {})
  BY <1>1 DEF Nodes, Kids
<1>3. /\ top \subseteq Nodes(t) /\ Nodes(t) \subseteq Items
      /\ \A f \in Folders : f \in Nodes(t) => Kids(t, f) \subseteq Nodes(t)
  BY <1>2, WithinHas
<1>4. ASSUME NEW S \in SUBSET Items, top \subseteq S, \A f \in Folders : f \in S => Kids(t, f) \subseteq S
      PROVE  Nodes(t) \subseteq S
  <2>1. Within(t, top, {}) \subseteq S
    BY <1>4, WithinLeast
  <2>2. QED
    BY <1>2, <2>1
<1>5. QED
  BY <1>1, <1>3, <1>4

\* What is left of a tree when nodes are removed.
LEMMA PrunedHas ==
  ASSUME NEW t \in Tree, NEW gone \in SUBSET Items
  PROVE  /\ Pruned(t, gone) \in Tree /\ Pruned(t, gone).name = t.name
         /\ \A p \in Parents : Pruned(t, gone).kids[p] =
               IF p \in Within(t, gone, {}) THEN <<>> ELSE Only(t.kids[p], Items \ gone)
         /\ \A i \in Items : i \in Within(t, gone, {}) => Pruned(t, gone).ver[i] = 0
         /\ \A i \in Items : i \notin Within(t, gone, {}) => Pruned(t, gone).ver[i] = t.ver[i]
         /\ \A p \in Parents : Kids(Pruned(t, gone), p) =
               IF p \in Within(t, gone, {}) THEN {} ELSE Kids(t, p) \ gone
<1> DEFINE sub == Within(t, gone, {})
<1> HIDE DEF sub
<1>1. PICK kids : kids = [p \in Parents |-> IF p \in sub THEN <<>> ELSE Only(t.kids[p], Items \ gone)]
  OBVIOUS
<1>2. PICK ver : ver = [i \in Items |-> IF i \in sub THEN 0 ELSE t.ver[i]]
  OBVIOUS
<1>3. PICK u : u = [name |-> t.name, kids |-> kids, ver |-> ver]
  OBVIOUS
<1>4. Pruned(t, gone) = u
  BY <1>1, <1>2, <1>3 DEF Pruned, sub
<1>5. ASSUME NEW p \in Parents
      PROVE  /\ kids[p] = IF p \in sub THEN <<>> ELSE Only(t.kids[p], Items \ gone)
             /\ kids[p] \in Seq(Items)
             /\ ToSet(kids[p]) = IF p \in sub THEN {} ELSE Kids(t, p) \ gone
  <2>1. kids[p] = IF p \in sub THEN <<>> ELSE Only(t.kids[p], Items \ gone)
    BY <1>1
  <2>2. PICK s \in Seq(Items) : s = t.kids[p]
    BY TreeHas
  <2>3. Only(s, Items \ gone) \in Seq(Items) /\ ToSet(Only(s, Items \ gone)) = ToSet(s) \cap (Items \ gone)
    BY OnlyIs
  <2>4. ToSet(s) \subseteq Items /\ ToSet(s) = Kids(t, p)
    BY <2>2, TreeHas DEF Kids
  <2>5. ToSet(<<>>) = {} /\ <<>> \in Seq(Items)
    BY EmptySeq DEF ToSet
  <2>6. QED
    BY <2>1, <2>2, <2>3, <2>4, <2>5
<1>6. kids \in [Parents -> Seq(Items)]
  <2>1. kids = [p \in Parents |-> kids[p]]
    BY <1>1
  <2>2. \A p \in Parents : kids[p] \in Seq(Items)
    BY <1>5
  <2>3. QED
    BY <2>1, <2>2
<1>7. ver \in [Items -> Nat] /\ t.name \in Nat
  BY <1>2 DEF Tree
<1>8. u \in Tree /\ u.name = t.name /\ u.kids = kids /\ u.ver = ver
  BY <1>3, <1>6, <1>7 DEF Tree
<1>9. \A p \in Parents : Kids(u, p) = ToSet(kids[p])
  BY <1>8 DEF Kids
<1>10. \A i \in Items : (i \in sub => ver[i] = 0) /\ (i \notin sub => ver[i] = t.ver[i])
  BY <1>2
<1>11. QED
  BY <1>4, <1>5, <1>8, <1>9, <1>10 DEF sub

\* Nodes are removed with all that is under them, and nothing else is.
LEMMA PrunedIs ==
  ASSUME NEW t, Sound(t), NEW gone \in SUBSET Items
  PROVE  Sound(Pruned(t, gone)) /\ Nodes(Pruned(t, gone)) = Nodes(t) \ Within(t, gone, {})
<1>1. t \in Tree
  BY DEF Sound
<1>2. PICK sub \in SUBSET Items :
        /\ sub = Within(t, gone, {}) /\ gone \subseteq sub
        /\ \A f \in Folders : f \in sub => Kids(t, f) \subseteq sub
        /\ \A p \in Parents, x \in Items :
              x \in Kids(t, p) /\ x \notin gone /\ x \in sub => p \in Folders /\ p \in sub
  BY UnderIs
<1> DEFINE u == Pruned(t, gone)
<1>3. /\ u \in Tree
      /\ \A p \in Parents : u.kids[p] = IF p \in sub THEN <<>> ELSE Only(t.kids[p], Items \ gone)
      /\ \A i \in Items : i \in sub => u.ver[i] = 0
      /\ \A i \in Items : i \notin sub => u.ver[i] = t.ver[i]
      /\ \A p \in Parents : Kids(u, p) = IF p \in sub THEN {} ELSE Kids(t, p) \ gone
  <2>1. sub = Within(t, gone, {})
    BY <1>2
  <2>2. /\ u \in Tree /\ u.name = t.name
        /\ \A p \in Parents :
             u.kids[p] = IF p \in Within(t, gone, {}) THEN <<>> ELSE Only(t.kids[p], Items \ gone)
        /\ \A i \in Items : i \in Within(t, gone, {}) => u.ver[i] = 0
        /\ \A i \in Items : i \notin Within(t, gone, {}) => u.ver[i] = t.ver[i]
        /\ \A p \in Parents : Kids(u, p) = IF p \in Within(t, gone, {}) THEN {} ELSE Kids(t, p) \ gone
    BY <1>1, PrunedHas, Zenon
  <2>3. QED
    BY <2>1, <2>2, Zenon
<1> HIDE DEF u
<1>4. Top \in Parents /\ Top \notin sub /\ Top \notin Folders /\ \A f \in Folders : f \in Parents
  BY <1>1, <1>2, TreeHas, IdsAreUnique
<1>5. /\ Nodes(t) \subseteq Items
      /\ \A p \in Parents : Kids(t, p) \subseteq Nodes(t)
  BY NodesAre
<1>6. Nodes(u) \subseteq Nodes(t) \ sub
  <2>1. PICK S \in SUBSET Items : S = Nodes(t) \ sub
    BY <1>5
  <2>2. ASSUME NEW p \in Parents, p = Top \/ p \in S PROVE Kids(u, p) \subseteq S
    <3>1. Kids(u, p) = Kids(t, p) \ gone /\ p \notin sub
      BY <1>3, <1>4, <2>1, <2>2
    <3>2. QED
      BY <1>2, <1>5, <2>1, <3>1
  <2>3. QED
    BY <1>3, <1>4, <2>1, <2>2, NodesHave
<1>7. Nodes(t) \subseteq Nodes(u) \cup sub
  <2>1. PICK S \in SUBSET Items : S = Nodes(u) \cup sub
    BY <1>3, NodesHave
  <2>2. Kids(t, Top) \subseteq S
    <3>1. Kids(u, Top) = Kids(t, Top) \ gone /\ Kids(u, Top) \subseteq Nodes(u)
      BY <1>3, <1>4, NodesHave
    <3>2. QED
      BY <1>2, <2>1, <3>1
  <2>3. ASSUME NEW f \in Folders, f \in S PROVE Kids(t, f) \subseteq S
    <3>1. CASE f \in sub
      BY <1>2, <2>1, <3>1
    <3>2. CASE f \notin sub
      <4>1. Kids(u, f) = Kids(t, f) \ gone /\ f \in Nodes(u)
        BY <1>3, <1>4, <2>1, <2>3, <3>2
      <4>2. Kids(u, f) \subseteq Nodes(u)
        BY <1>3, <4>1, NodesHave
      <4>3. QED
        BY <1>2, <2>1, <4>1, <4>2
    <3>3. QED
      BY <3>1, <3>2
  <2>4. QED
    BY <1>1, <2>1, <2>2, <2>3, NodesHave
<1>8. Nodes(u) = Nodes(t) \ sub
  BY <1>6, <1>7
<1>9. ASSUME NEW p \in Parents PROVE Distinct(u.kids[p])
  <2>1. PICK s \in Seq(Items) : s = t.kids[p] /\ Distinct(s)
    BY <1>1, TreeHas DEF Sound
  <2>2. Distinct(Only(s, Items \ gone))
    BY <2>1, OnlyIs
  <2>3. Distinct(<<>>)
    BY EmptySeq DEF Distinct
  <2>4. QED
    BY <1>3, <2>1, <2>2, <2>3
<1>10. \A p, q \in Parents : p # q => Kids(u, p) \cap Kids(u, q) = {}
  <2>1. \A p, q \in Parents : p # q => Kids(t, p) \cap Kids(t, q) = {}
    BY DEF Sound
  <2>2. \A p \in Parents : Kids(u, p) \subseteq Kids(t, p)
    BY <1>3
  <2>3. QED
    BY <2>1, <2>2
<1>11. ASSUME NEW f \in Folders, u.kids[f] # <<>> PROVE f \in Nodes(u)
  <2>1. Kids(u, f) # {}
    BY <1>3, <1>4, <1>11, TreeHas
  <2>2. f \notin sub /\ Kids(t, f) # {}
    BY <1>3, <1>4, <2>1
  <2>3. t.kids[f] # <<>>
    BY <1>1, <1>4, <2>2, TreeHas
  <2>4. f \in Nodes(t)
    BY <2>3 DEF Sound
  <2>5. QED
    BY <1>8, <2>2, <2>4
<1>12. ASSUME NEW i \in Items, u.ver[i] # 0 PROVE i \in Nodes(u)
  <2>1. i \notin sub /\ t.ver[i] # 0
    BY <1>3, <1>12
  <2>2. QED
    BY <1>8, <2>1 DEF Sound
<1>13. Sound(u)
  BY <1>3, <1>9, <1>10, <1>11, <1>12 DEF Sound
<1>14. QED
  BY <1>2, <1>8, <1>13 DEF u

\* If nothing is removed, the tree stays.
LEMMA PrunedNone ==
  ASSUME NEW t \in Tree
  PROVE  Pruned(t, {}) = t
<1>1. PICK none \in SUBSET Items : none = {}
  OBVIOUS
<1>2. Within(t, none, none) \subseteq none
  BY <1>1, WithinLeast
<1>3. none = Within(t, none, {})
  BY <1>1, <1>2
<1> DEFINE u == Pruned(t, none)
<1>4. /\ u \in Tree /\ u.name = t.name
      /\ \A p \in Parents : u.kids[p] = IF p \in none THEN <<>> ELSE Only(t.kids[p], Items \ none)
      /\ \A i \in Items : i \notin none => u.ver[i] = t.ver[i]
  <2>1. /\ u \in Tree /\ u.name = t.name
        /\ \A p \in Parents :
             u.kids[p] = IF p \in Within(t, none, {}) THEN <<>> ELSE Only(t.kids[p], Items \ none)
        /\ \A i \in Items : i \notin Within(t, none, {}) => u.ver[i] = t.ver[i]
    BY PrunedHas, Zenon
  <2>2. QED
    BY <1>3, <2>1, Zenon
<1> HIDE DEF u
<1>5. ASSUME NEW p \in Parents PROVE u.kids[p] = t.kids[p]
  <2>1. PICK s \in Seq(Items) : s = t.kids[p] /\ ToSet(s) \subseteq Items \ none
    BY <1>1, TreeHas DEF Kids
  <2>2. Only(s, Items \ none) = s
    BY <2>1, OnlyAll
  <2>3. QED
    BY <1>1, <1>4, <2>1, <2>2
<1>6. u = t
  BY <1>1, <1>4, <1>5, SameTree
<1>7. QED
  BY <1>1, <1>6 DEF u

\* An element put anywhere into a sequence.
LEMMA PlacedIs ==
  ASSUME NEW A, NEW s \in Seq(A), NEW x \in A, NEW pos
  PROVE  /\ Placed(s, x, pos) \in Seq(A) /\ ToSet(Placed(s, x, pos)) = ToSet(s) \cup {x}
         /\ Distinct(s) /\ x \notin ToSet(s) => Distinct(Placed(s, x, pos))
         /\ \A S : ToSet(s) \subseteq S /\ x \notin S => Only(Placed(s, x, pos), S) = s
<1>1. PICK n \in Nat : n = Len(s) /\ DOMAIN s = 1 .. n
  BY LenProperties
<1>2. PICK u : u = Placed(s, x, pos)
  OBVIOUS
<1>3. \E k \in 1 .. n + 1 : u \in Seq(A) /\ PutAt(u, s, k, x)
  <2>1. CASE pos \in 0 .. n
    <3>1. PICK k \in 1 .. Len(s) + 1 : k = pos + 1
      BY <1>1, <2>1
    <3>2. u = InsertAt(s, k, x)
      BY <1>1, <1>2, <2>1, <3>1 DEF Placed
    <3>3. QED
      BY <1>1, <3>1, <3>2, PutIn
  <2>2. CASE pos \notin 0 .. n
    <3>1. u = Append(s, x)
      BY <1>1, <1>2, <2>2 DEF Placed
    <3>2. u \in Seq(A) /\ Len(u) = n + 1 /\ u[n + 1] = x /\ \A i \in 1 .. n : u[i] = s[i]
      BY <1>1, <3>1, AppendProperties
    <3>3. DOMAIN u = 1 .. n + 1 /\ u = [i \in 1 .. n + 1 |-> u[i]]
      BY <3>2, LenProperties
    <3>4. \A i \in 1 .. n + 1 : u[i] = IF i < n + 1 THEN s[i] ELSE IF i = n + 1 THEN x ELSE s[i - 1]
      BY <1>1, <3>2
    <3>5. u = [i \in 1 .. n + 1 |-> IF i < n + 1 THEN s[i] ELSE IF i = n + 1 THEN x ELSE s[i - 1]]
      BY <3>3, <3>4
    <3>6. PutAt(u, s, n + 1, x)
      BY <1>1, <3>5 DEF PutAt
    <3>7. QED
      BY <1>1, <3>2, <3>6
  <2>3. QED
    BY <2>1, <2>2
<1>4. PICK k \in 1 .. n + 1 : u \in Seq(A) /\ PutAt(u, s, k, x)
  BY <1>3
<1>5. /\ Len(u) = n + 1 /\ DOMAIN u = 1 .. n + 1
      /\ \A i \in 1 .. n + 1 : u[i] = IF i < k THEN s[i] ELSE IF i = k THEN x ELSE s[i - 1]
  <2>1. DOMAIN u = 1 .. n + 1
    BY <1>1, <1>4 DEF PutAt
  <2>2. Len(u) = n + 1
    BY <1>1, <1>4, <2>1, LenProperties
  <2>3. QED
    BY <1>1, <1>4, <2>1, <2>2 DEF PutAt
<1>6. ToSet(u) = ToSet(s) \cup {x}
  <2>1. ASSUME NEW i \in 1 .. n + 1 PROVE u[i] \in ToSet(s) \cup {x}
    <3>1. CASE i < k
      <4>1. i \in 1 .. n
        BY <1>4, <3>1
      <4>2. QED
        BY <1>1, <1>5, <3>1, <4>1 DEF ToSet
    <3>2. CASE i = k
      BY <1>5, <3>2
    <3>3. CASE k < i
      <4>1. i - 1 \in 1 .. n /\ ~ (i < k) /\ i # k
        BY <1>4, <3>3
      <4>2. QED
        BY <1>1, <1>5, <4>1 DEF ToSet
    <3>4. QED
      BY <1>4, <3>1, <3>2, <3>3
  <2>2. ASSUME NEW j \in 1 .. n PROVE \E i \in 1 .. n + 1 : u[i] = s[j]
    <3>1. CASE j < k
      BY <1>4, <1>5, <3>1
    <3>2. CASE ~ (j < k)
      <4>1. j + 1 \in 1 .. n + 1 /\ ~ (j + 1 < k) /\ j + 1 # k /\ j + 1 - 1 = j
        BY <1>4, <3>2
      <4>2. u[j + 1] = s[j]
        BY <1>5, <4>1
      <4>3. QED
        BY <4>1, <4>2
    <3>3. QED
      BY <3>1, <3>2
  <2>3. u[k] = x
    BY <1>4, <1>5
  <2>4. ToSet(u) = {u[i] : i \in 1 .. n + 1} /\ ToSet(s) = {s[j] : j \in 1 .. n}
    BY <1>1, <1>5 DEF ToSet
  <2>5. ToSet(u) \subseteq ToSet(s) \cup {x}
    BY <2>1, <2>4
  <2>6. \A h \in 1 .. n + 1 : u[h] \in ToSet(u)
    BY <2>4
  <2>7. ToSet(s) \subseteq ToSet(u)
    BY <2>2, <2>4, <2>6
  <2>8. QED
    BY <1>4, <2>3, <2>5, <2>6, <2>7
<1>7. ASSUME Distinct(s), x \notin ToSet(s), NEW i \in 1 .. n + 1, NEW j \in 1 .. n + 1, u[i] = u[j]
      PROVE  i = j
  <2>1. \A h \in 1 .. n : s[h] # x
    BY <1>1, <1>7 DEF ToSet
  <2>2. \A h \in 1 .. n + 1 : h # k =>
           \E g \in 1 .. n : u[h] = s[g] /\ g = IF h < k THEN h ELSE h - 1
    <3>1. ASSUME NEW h \in 1 .. n + 1, h # k
          PROVE  \E g \in 1 .. n : u[h] = s[g] /\ g = IF h < k THEN h ELSE h - 1
      <4>1. PICK g \in 1 .. n : g = IF h < k THEN h ELSE h - 1
        BY <1>4, <3>1
      <4>2. u[h] = s[g]
        BY <1>5, <3>1, <4>1
      <4>3. QED
        BY <4>1, <4>2
    <3>2. QED
      BY <3>1
  <2>3. CASE i = k /\ j = k
    BY <2>3
  <2>4. CASE i = k /\ j # k
    BY <1>5, <1>7, <2>1, <2>2, <2>4
  <2>5. CASE i # k /\ j = k
    BY <1>5, <1>7, <2>1, <2>2, <2>5
  <2>6. CASE i # k /\ j # k
    <3>1. PICK g \in 1 .. n : u[i] = s[g] /\ g = IF i < k THEN i ELSE i - 1
      BY <2>2, <2>6
    <3>2. PICK h \in 1 .. n : u[j] = s[h] /\ h = IF j < k THEN j ELSE j - 1
      BY <2>2, <2>6
    <3>3. g = h
      BY <1>1, <1>7, <3>1, <3>2 DEF Distinct
    <3>4. QED
      BY <1>4, <2>6, <3>1, <3>2, <3>3
  <2>7. QED
    BY <2>3, <2>4, <2>5, <2>6
<1>8. ASSUME NEW S, ToSet(s) \subseteq S, x \notin S PROVE Only(u, S) = s
  <2>1. k \in 1 .. Len(s) + 1
    BY <1>1
  <2>2. QED
    BY <1>4, <1>8, <2>1, OnlySkips
<1>9. Distinct(s) /\ x \notin ToSet(s) => Distinct(u)
  BY <1>5, <1>7 DEF Distinct
<1>10. QED
  BY <1>2, <1>4, <1>6, <1>8, <1>9

\* Nothing is under an item that is not there.
LEMMA UnderNothing ==
  ASSUME NEW t, Sound(t), NEW i \in Items, i \notin Nodes(t)
  PROVE  Subtree(t, i) = {i}
<1>1. t \in Tree
  BY DEF Sound
<1>2. PICK one \in SUBSET Items : one = {i}
  OBVIOUS
<1>3. \A f \in Folders : f \in one => Kids(t, f) \subseteq one
  <2>1. \A f \in Folders : f = i => t.kids[f] = <<>>
    BY DEF Sound
  <2>2. QED
    BY <1>1, <1>2, <2>1, TreeHas
<1>4. Within(t, one, {}) = one
  <2>1. one \subseteq Within(t, one, {})
    BY <1>1, WithinHas
  <2>2. Within(t, one, {}) \subseteq one
    BY <1>1, <1>3, WithinLeast
  <2>3. QED
    BY <2>1, <2>2
<1>5. QED
  BY <1>2, <1>4 DEF Subtree

\* What is in a tree that got an item with all that is under it.
LEMMA InsertedHas ==
  ASSUME NEW t \in Tree, NEW from \in Tree, NEW i \in Items, NEW p \in Parents, NEW pos,
         p \notin Subtree(from, i)
  PROVE  /\ Inserted(t, from, i, p, pos) \in Tree /\ Inserted(t, from, i, p, pos).name = t.name
         /\ \A q \in Parents : Inserted(t, from, i, p, pos).kids[q] =
               IF q = p THEN Placed(t.kids[p], i, pos) ELSE IF q \in Subtree(from, i) THEN from.kids[q] ELSE t.kids[q]
         /\ \A j \in Items : Inserted(t, from, i, p, pos).ver[j] =
               IF j \in Subtree(from, i) THEN from.ver[j] ELSE t.ver[j]
         /\ \A q \in Parents : Kids(Inserted(t, from, i, p, pos), q) =
               IF q = p THEN Kids(t, p) \cup {i} ELSE IF q \in Subtree(from, i) THEN Kids(from, q) ELSE Kids(t, q)
<1> DEFINE sub == Subtree(from, i)
<1> HIDE DEF sub
<1> p \notin sub
  BY DEF sub
<1>1. PICK kids : kids = [q \in Parents |-> CASE q = p -> Placed(t.kids[p], i, pos)
                                              [] q \in sub -> from.kids[q]
                                              [] OTHER -> t.kids[q]]
  OBVIOUS
<1>2. PICK ver : ver = [j \in Items |-> IF j \in sub THEN from.ver[j] ELSE t.ver[j]]
  OBVIOUS
<1>3. PICK u : u = [name |-> t.name, kids |-> kids, ver |-> ver]
  OBVIOUS
<1>4. Inserted(t, from, i, p, pos) = u
  BY <1>1, <1>2, <1>3 DEF Inserted, sub
<1>5. ASSUME NEW q \in Parents
      PROVE  /\ kids[q] = IF q = p THEN Placed(t.kids[p], i, pos) ELSE IF q \in sub THEN from.kids[q] ELSE t.kids[q]
             /\ kids[q] \in Seq(Items)
             /\ ToSet(kids[q]) =
                  IF q = p THEN Kids(t, p) \cup {i} ELSE IF q \in sub THEN Kids(from, q) ELSE Kids(t, q)
  <2>1. kids[q] = IF q = p THEN Placed(t.kids[p], i, pos) ELSE IF q \in sub THEN from.kids[q] ELSE t.kids[q]
    BY <1>1
  <2>2. t.kids[q] \in Seq(Items) /\ from.kids[q] \in Seq(Items)
    BY TreeHas
  <2>3. PICK s \in Seq(Items) : s = t.kids[p]
    BY TreeHas
  <2>4. Placed(s, i, pos) \in Seq(Items) /\ ToSet(Placed(s, i, pos)) = ToSet(s) \cup {i}
    BY PlacedIs
  <2>5. QED
    BY <2>1, <2>2, <2>3, <2>4 DEF Kids
<1>6. kids \in [Parents -> Seq(Items)]
  <2>1. kids = [q \in Parents |-> kids[q]]
    BY <1>1
  <2>2. QED
    BY <1>5, <2>1
<1>7. ver \in [Items -> Nat] /\ t.name \in Nat
  BY <1>2 DEF Tree
<1>8. u \in Tree /\ u.name = t.name /\ u.kids = kids /\ u.ver = ver
  BY <1>3, <1>6, <1>7 DEF Tree
<1>9. \A q \in Parents : Kids(u, q) = ToSet(kids[q])
  BY <1>8 DEF Kids
<1>10. \A j \in Items : ver[j] = IF j \in sub THEN from.ver[j] ELSE t.ver[j]
  BY <1>2
<1>11. QED
  BY <1>4, <1>5, <1>8, <1>9, <1>10 DEF sub

\* Tree u is tree t with item i, and what is under it in another tree; the
\* item can be taken away again.
Grown(u, t, from, i) ==
    /\ Sound(u) /\ i \in Nodes(u) /\ Nodes(u) = Nodes(t) \cup Subtree(from, i)
    /\ Subtree(u, i) = Subtree(from, i) /\ Pruned(u, {i}) = t

\* An item that comes with all that is under it is there afterwards and no
\* other is.
LEMMA InsertedIs ==
  ASSUME NEW t, Sound(t), NEW from, Sound(from), NEW i \in Items, Subtree(from, i) \cap Nodes(t) = {},
         NEW p \in Parents, p = Top \/ p \in Nodes(t), NEW pos
  PROVE  Grown(Inserted(t, from, i, p, pos), t, from, i)
<1>1. t \in Tree /\ from \in Tree
  BY DEF Sound
<1>2. PICK one \in SUBSET Items : one = {i}
  OBVIOUS
<1>3. PICK sub \in SUBSET Items :
        /\ sub = Subtree(from, i) /\ i \in sub
        /\ \A f \in Folders : f \in sub => Kids(from, f) \subseteq sub
  <2>1. /\ one \subseteq Within(from, one, {}) /\ Within(from, one, {}) \subseteq Items
        /\ \A f \in Folders : f \in Within(from, one, {}) => Kids(from, f) \subseteq Within(from, one, {})
    BY <1>1, WithinHas
  <2>2. QED
    BY <1>2, <2>1 DEF Subtree
<1>4. sub \cap Nodes(t) = {}
  BY <1>3
<1>5. p \notin sub /\ Top \in Parents /\ Top \notin sub /\ Top \notin Folders /\ \A f \in Folders : f \in Parents
  BY <1>1, <1>3, <1>4, TreeHas, IdsAreUnique
<1> DEFINE u == Inserted(t, from, i, p, pos)
<1>6. /\ u \in Tree /\ u.name = t.name
      /\ \A q \in Parents : u.kids[q] =
            IF q = p THEN Placed(t.kids[p], i, pos) ELSE IF q \in sub THEN from.kids[q] ELSE t.kids[q]
      /\ \A j \in Items : u.ver[j] = IF j \in sub THEN from.ver[j] ELSE t.ver[j]
      /\ \A q \in Parents : Kids(u, q) =
            IF q = p THEN Kids(t, p) \cup {i} ELSE IF q \in sub THEN Kids(from, q) ELSE Kids(t, q)
  <2>1. sub = Subtree(from, i) /\ p \notin Subtree(from, i)
    BY <1>3, <1>5
  <2>2. u \in Tree /\ u.name = t.name
    BY <1>1, <2>1, InsertedHas
  <2>3. \A q \in Parents : u.kids[q] =
              IF q = p THEN Placed(t.kids[p], i, pos)
              ELSE IF q \in Subtree(from, i) THEN from.kids[q] ELSE t.kids[q]
    BY <1>1, <2>1, InsertedHas
  <2>4. \A j \in Items : u.ver[j] = IF j \in Subtree(from, i) THEN from.ver[j] ELSE t.ver[j]
    BY <1>1, <2>1, InsertedHas
  <2>5. \A q \in Parents : Kids(u, q) =
              IF q = p THEN Kids(t, p) \cup {i}
              ELSE IF q \in Subtree(from, i) THEN Kids(from, q) ELSE Kids(t, q)
    BY <1>1, <2>1, InsertedHas
  <2>6. QED
    BY <2>1, <2>2, <2>3, <2>4, <2>5, Zenon
<1> HIDE DEF u
<1>7. Nodes(t) \subseteq Items /\ \A q \in Parents : Kids(t, q) \subseteq Nodes(t)
  BY NodesAre
<1>8. \A f \in Folders : f \in sub => Kids(t, f) = {} /\ t.kids[f] = <<>>
  <2>1. \A f \in Folders : f \in sub => t.kids[f] = <<>>
    BY <1>4 DEF Sound
  <2>2. QED
    BY <1>1, <2>1, TreeHas
<1>9. Nodes(u) \subseteq Nodes(t) \cup sub
  <2>1. PICK S \in SUBSET Items : S = Nodes(t) \cup sub
    BY <1>7
  <2>2. Kids(u, Top) \subseteq S
    BY <1>3, <1>5, <1>6, <1>7, <2>1
  <2>3. ASSUME NEW f \in Folders, f \in S PROVE Kids(u, f) \subseteq S
    <3>1. CASE f = p
      BY <1>3, <1>5, <1>6, <1>7, <2>1, <3>1
    <3>2. CASE f # p /\ f \in sub
      BY <1>3, <1>5, <1>6, <2>1, <3>2
    <3>3. CASE f # p /\ f \notin sub
      BY <1>5, <1>6, <1>7, <2>1, <3>3
    <3>4. QED
      BY <3>1, <3>2, <3>3
  <2>4. QED
    BY <1>6, <2>1, <2>2, <2>3, NodesHave
<1>10. Nodes(t) \subseteq Nodes(u)
  <2>1. PICK S \in SUBSET Items : S = Nodes(u)
    BY <1>6, NodesHave
  <2>2. \A q \in Parents : Kids(t, q) \subseteq Kids(u, q)
    <3>1. ASSUME NEW q \in Parents PROVE Kids(t, q) \subseteq Kids(u, q)
      <4>1. CASE q = p
        BY <1>6, <4>1
      <4>2. CASE q # p /\ q \in sub
        <5>1. q \in Folders
          BY <1>1, <1>5, <4>2, TreeHas
        <5>2. QED
          BY <1>8, <4>2, <5>1
      <4>3. CASE q # p /\ q \notin sub
        BY <1>6, <4>3
      <4>4. QED
        BY <4>1, <4>2, <4>3
    <3>2. QED
      BY <3>1
  <2>3. Kids(t, Top) \subseteq S /\ \A f \in Folders : f \in S => Kids(t, f) \subseteq S
    <3>1. Kids(u, Top) \subseteq S /\ \A f \in Folders : f \in S => Kids(u, f) \subseteq S
      BY <1>6, <2>1, NodesHave
    <3>2. QED
      BY <1>5, <2>2, <3>1
  <2>4. Nodes(t) \subseteq S
    BY <1>1, <2>3, NodesHave
  <2>5. QED
    BY <2>1, <2>4
<1>11. i \in Nodes(u)
  <2>1. i \in Kids(u, p)
    BY <1>6
  <2>2. p = Top \/ (p \in Folders /\ p \in Nodes(u))
    BY <1>1, <1>10, TreeHas
  <2>3. QED
    BY <1>6, <2>1, <2>2, NodesHave
<1>12. \A f \in Folders : f \in sub => Kids(u, f) = Kids(from, f) /\ f # p
  BY <1>5, <1>6
<1>13. sub \subseteq Nodes(u)
  <2>1. PICK S \in SUBSET Items : S = Nodes(u) \cap sub
    BY <1>3
  <2>2. one \subseteq S
    BY <1>2, <1>3, <1>11, <2>1
  <2>3. \A f \in Folders : f \in S => Kids(from, f) \subseteq S
    <3>1. \A f \in Folders : f \in Nodes(u) => Kids(u, f) \subseteq Nodes(u)
      BY <1>6, NodesHave
    <3>2. QED
      BY <1>3, <1>12, <2>1, <3>1
  <2>4. Within(from, one, {}) \subseteq S
    BY <1>1, <2>2, <2>3, WithinLeast
  <2>5. QED
    BY <1>2, <1>3, <2>1, <2>4 DEF Subtree
<1>14. Nodes(u) = Nodes(t) \cup sub
  BY <1>9, <1>10, <1>13
<1>15. Subtree(u, i) = sub
  <2>1. Within(u, one, {}) \subseteq sub
    <3>1. one \subseteq sub /\ \A f \in Folders : f \in sub => Kids(u, f) \subseteq sub
      BY <1>2, <1>3, <1>12
    <3>2. QED
      BY <1>6, <3>1, WithinLeast
  <2>2. PICK S \in SUBSET Items : S = Within(u, one, {}) \cap sub
    BY <1>3
  <2>3. /\ one \subseteq Within(u, one, {})
        /\ \A f \in Folders : f \in Within(u, one, {}) => Kids(u, f) \subseteq Within(u, one, {})
    BY <1>6, WithinHas
  <2>4. one \subseteq S /\ \A f \in Folders : f \in S => Kids(from, f) \subseteq S
    BY <1>2, <1>3, <1>12, <2>2, <2>3
  <2>5. Within(from, one, {}) \subseteq S
    BY <1>1, <2>4, WithinLeast
  <2>6. QED
    BY <1>2, <1>3, <2>1, <2>2, <2>5 DEF Subtree
<1>16. ASSUME NEW q \in Parents PROVE Distinct(u.kids[q])
  <2>1. CASE q = p
    <3>1. PICK s \in Seq(Items) : s = t.kids[p] /\ Distinct(s) /\ ToSet(s) = Kids(t, p)
      BY <1>1, TreeHas DEF Sound, Kids
    <3>2. i \notin ToSet(s)
      BY <1>3, <1>4, <1>7, <3>1
    <3>3. Distinct(Placed(s, i, pos))
      BY <3>1, <3>2, PlacedIs
    <3>4. QED
      BY <1>6, <2>1, <3>1, <3>3
  <2>2. CASE q # p
    BY <1>6, <2>2 DEF Sound
  <2>3. QED
    BY <2>1, <2>2
<1>17. ASSUME NEW q \in Parents, NEW r \in Parents, q # r, NEW x \in Kids(u, q), x \in Kids(u, r)
       PROVE  FALSE
  <2>1. \A a, b \in Parents : a # b => Kids(t, a) \cap Kids(t, b) = {} /\ Kids(from, a) \cap Kids(from, b) = {}
    BY DEF Sound
  <2>2. \A a \in Parents : a \in sub => a \in Folders
    BY <1>1, <1>5, TreeHas
  <2>3. \A a \in Parents : a \in sub => i \notin Kids(from, a)
    <3>1. ASSUME NEW a \in Parents, a \in sub, i \in Kids(from, a) PROVE FALSE
      <4>1. i \in Nodes(from)
        BY <3>1, NodesAre
      <4>2. a \notin Subtree(from, i)
        BY <3>1, <4>1, NotUnderItself
      <4>3. QED
        BY <1>3, <3>1, <4>2
    <3>2. QED
      BY <3>1
  <2>4. ASSUME NEW a \in Parents, NEW b \in Parents, a # b, x \in Kids(u, a), x \in Kids(u, b), a \in sub
        PROVE  FALSE
    <3>1. a # p /\ x \in Kids(from, a) /\ x \in sub /\ x # i
      BY <1>3, <1>5, <1>6, <2>2, <2>3, <2>4
    <3>2. CASE b = p
      BY <1>4, <1>6, <1>7, <2>4, <3>1, <3>2
    <3>3. CASE b # p /\ b \in sub
      BY <1>6, <2>1, <2>4, <3>1, <3>3
    <3>4. CASE b # p /\ b \notin sub
      BY <1>4, <1>6, <1>7, <2>4, <3>1, <3>4
    <3>5. QED
      BY <3>2, <3>3, <3>4
  <2>5. q \notin sub /\ r \notin sub
    BY <1>17, <2>4
  <2>6. \A a \in Parents : a \notin sub => Kids(u, a) = IF a = p THEN Kids(t, a) \cup {i} ELSE Kids(t, a)
    BY <1>6
  <2>7. i \notin Kids(t, q) /\ i \notin Kids(t, r)
    BY <1>3, <1>4, <1>7
  <2>8. QED
    BY <1>17, <2>1, <2>5, <2>6, <2>7
<1>18. ASSUME NEW f \in Folders, u.kids[f] # <<>> PROVE f \in Nodes(u)
  <2>1. CASE f = p
    BY <1>1, <1>10, <2>1, TreeHas
  <2>2. CASE f # p /\ f \in sub
    BY <1>13, <2>2
  <2>3. CASE f # p /\ f \notin sub
    <3>1. t.kids[f] # <<>>
      BY <1>5, <1>6, <1>18, <2>3
    <3>2. QED
      BY <1>10, <3>1 DEF Sound
  <2>4. QED
    BY <2>1, <2>2, <2>3
<1>19. ASSUME NEW j \in Items, u.ver[j] # 0 PROVE j \in Nodes(u)
  <2>1. CASE j \in sub
    BY <1>13, <2>1
  <2>2. CASE j \notin sub
    <3>1. t.ver[j] # 0
      BY <1>6, <1>19, <2>2
    <3>2. QED
      BY <1>10, <3>1 DEF Sound
  <2>3. QED
    BY <2>1, <2>2
<1>20. Sound(u)
  BY <1>6, <1>16, <1>17, <1>18, <1>19 DEF Sound
<1>21. Pruned(u, one) = t
  <2>1. Within(u, one, {}) = sub
    BY <1>2, <1>15 DEF Subtree
  <2> DEFINE v == Pruned(u, one)
  <2>2. /\ v \in Tree /\ v.name = u.name
        /\ \A q \in Parents :
             v.kids[q] = IF q \in Within(u, one, {}) THEN <<>> ELSE Only(u.kids[q], Items \ one)
        /\ \A j \in Items : j \in Within(u, one, {}) => v.ver[j] = 0
        /\ \A j \in Items : j \notin Within(u, one, {}) => v.ver[j] = u.ver[j]
    BY <1>6, PrunedHas, Zenon
  <2> HIDE DEF v
  <2>3. ASSUME NEW q \in Parents PROVE v.kids[q] = t.kids[q]
    <3>1. PICK s \in Seq(Items) : s = t.kids[q] /\ ToSet(s) = Kids(t, q)
      BY <1>1, TreeHas DEF Kids
    <3>2. ToSet(s) \subseteq Items \ one /\ i \notin Items \ one
      BY <1>2, <1>3, <1>4, <1>7, <3>1
    <3>3. CASE q \in sub
      <4>1. q \in Folders /\ v.kids[q] = <<>>
        BY <1>1, <1>5, <2>1, <2>2, <3>3, TreeHas
      <4>2. QED
        BY <1>8, <3>3, <4>1
    <3>4. CASE q \notin sub /\ q # p
      <4>1. v.kids[q] = Only(s, Items \ one)
        BY <1>6, <2>1, <2>2, <3>1, <3>4
      <4>2. QED
        BY <3>1, <3>2, <4>1, OnlyAll
    <3>5. CASE q = p
      <4>1. v.kids[q] = Only(Placed(s, i, pos), Items \ one)
        BY <1>5, <1>6, <2>1, <2>2, <3>1, <3>5
      <4>2. Only(Placed(s, i, pos), Items \ one) = s
        BY <3>2, PlacedIs
      <4>3. QED
        BY <3>1, <4>1, <4>2
    <3>6. QED
      BY <3>3, <3>4, <3>5
  <2>4. ASSUME NEW j \in Items PROVE v.ver[j] = t.ver[j]
    <3>1. CASE j \in sub
      <4>1. t.ver[j] = 0
        BY <1>4, <3>1 DEF Sound
      <4>2. QED
        BY <2>1, <2>2, <3>1, <4>1
    <3>2. CASE j \notin sub
      BY <1>6, <2>1, <2>2, <3>2
    <3>3. QED
      BY <3>1, <3>2
  <2>5. v = t
    BY <1>1, <1>6, <2>2, <2>3, <2>4, SameTree
  <2>6. QED
    BY <2>5 DEF v
<1>22. Grown(u, t, from, i)
  BY <1>2, <1>3, <1>11, <1>14, <1>15, <1>20, <1>21, Zenon DEF Grown
<1>23. QED
  BY <1>22 DEF u

-----------------------------------------------------------------------------
(* The recovery of what is in two collections.                             *)

\* What a scan comes to in a collection, if it enters nothing that was seen.
Reached(t, seen) == Within(t, ToSet(t.kids[Top]), seen)

\* What the scan of a collection can come to.
LEMMA ReachedIs ==
  ASSUME NEW t, Sound(t), NEW seen
  PROVE  /\ Reached(t, seen) \subseteq Nodes(t) /\ Kids(t, Top) \subseteq Reached(t, seen)
         /\ \A f \in Folders : f \in Reached(t, seen) /\ f \notin seen => Kids(t, f) \subseteq Reached(t, seen)
         /\ \A x \in Reached(t, seen) : x \notin Kids(t, Top) =>
               \E f \in Folders : f \in Reached(t, seen) /\ f \notin seen /\ x \in Kids(t, f)
<1>1. t \in Tree
  BY DEF Sound
<1>2. PICK top \in SUBSET Items : top = Kids(t, Top)
  BY <1>1, TreeHas
<1>3. Reached(t, seen) = Within(t, top, seen)
  BY <1>2 DEF Reached, Kids
<1>4. /\ top \subseteq Within(t, top, seen)
      /\ \A f \in Folders : f \in Within(t, top, seen) /\ f \notin seen => Kids(t, f) \subseteq Within(t, top, seen)
  BY <1>1, WithinHas
<1>5. Within(t, top, seen) \subseteq Nodes(t)
  <2>1. PICK S \in SUBSET Items : S = Nodes(t)
    BY NodesAre
  <2>2. top \subseteq S /\ \A f \in Folders : f \in S => Kids(t, f) \subseteq S
    BY <1>1, <1>2, <2>1, NodesHave
  <2>3. Within(t, top, seen) \subseteq S
    BY <1>1, <2>2, WithinLeast
  <2>4. QED
    BY <2>1, <2>3
<1>6. \A x \in Within(t, top, seen) : x \notin top =>
         \E f \in Folders : f \in Within(t, top, seen) /\ f \notin seen /\ x \in Kids(t, f)
  BY <1>1, WithinFrom
<1>7. QED
  BY <1>2, <1>3, <1>4, <1>5, <1>6

\* A collection of which nothing was seen is walked through.
LEMMA Walked ==
  ASSUME NEW t, Sound(t), NEW seen, seen \cap Nodes(t) = {}
  PROVE  Reached(t, seen) = Nodes(t)
<1>1. t \in Tree
  BY DEF Sound
<1>2. PICK S \in SUBSET Items : S = Reached(t, seen)
  BY ReachedIs, NodesAre
<1>3. Kids(t, Top) \subseteq S /\ S \subseteq Nodes(t)
  BY <1>2, ReachedIs
<1>4. \A f \in Folders : f \in S => Kids(t, f) \subseteq S
  <2>1. \A f \in Folders : f \in S => f \notin seen
    BY <1>3
  <2>2. QED
    BY <1>2, <2>1, ReachedIs
<1>5. Nodes(t) \subseteq S
  BY <1>1, <1>3, <1>4, NodesHave
<1>6. QED
  BY <1>2, <1>3, <1>5

\* If what was seen is an item and what is under it, only the item is found again.
LEMMA Cut ==
  ASSUME NEW t, Sound(t), NEW i \in Nodes(t), NEW seen, seen \cap Nodes(t) = Subtree(t, i)
  PROVE  Reached(t, seen) \cap seen = {i}
<1>1. t \in Tree
  BY DEF Sound
<1>2. i \in Items
  BY NodesAre
<1>3. PICK sub \in SUBSET Items :
        /\ sub = Subtree(t, i) /\ i \in sub
        /\ \A p \in Parents, x \in Items : x \in Kids(t, p) /\ x # i /\ x \in sub => p \in Folders /\ p \in sub
  <2>1. PICK one \in SUBSET Items : one = {i}
    BY <1>2
  <2>2. /\ one \subseteq Within(t, one, {}) /\ Within(t, one, {}) \subseteq Items
        /\ \A p \in Parents, x \in Items :
              x \in Kids(t, p) /\ x \notin one /\ x \in Within(t, one, {})
                 => p \in Folders /\ p \in Within(t, one, {})
    BY UnderIs
  <2>3. QED
    BY <2>1, <2>2 DEF Subtree
<1>4. PICK W \in SUBSET Items : W = Reached(t, seen)
  BY ReachedIs, NodesAre
<1>5. W \subseteq Nodes(t) /\ seen \cap Nodes(t) = sub
  BY <1>3, <1>4, ReachedIs
<1>6. ASSUME NEW x \in W, x \in seen PROVE x = i
  <2>1. SUFFICES ASSUME x # i PROVE FALSE
    OBVIOUS
  <2>2. x \in sub /\ x \in Items
    BY <1>5, <1>6
  <2>3. CASE x \in Kids(t, Top)
    <3>1. Top \in Parents /\ Top \notin Folders
      BY <1>1, TreeHas
    <3>2. QED
      BY <1>3, <2>1, <2>2, <2>3, <3>1
  <2>4. CASE x \notin Kids(t, Top)
    <3>1. PICK f \in Folders : f \in W /\ f \notin seen /\ x \in Kids(t, f)
      BY <1>4, <1>6, <2>4, ReachedIs
    <3>2. f \in Parents
      BY <1>1, TreeHas
    <3>3. f \in sub
      BY <1>3, <2>1, <2>2, <3>1, <3>2
    <3>4. QED
      BY <1>5, <3>1, <3>3
  <2>5. QED
    BY <2>3, <2>4
<1>7. i \in W
  <2>1. SUFFICES ASSUME i \notin W PROVE FALSE
    OBVIOUS
  <2>2. \A f \in Folders : f \in W => f \notin seen
    BY <1>6, <2>1
  <2>3. Kids(t, Top) \subseteq W /\ \A f \in Folders : f \in W => Kids(t, f) \subseteq W
    BY <1>4, <2>2, ReachedIs
  <2>4. Nodes(t) \subseteq W
    BY <1>1, <2>3, NodesHave
  <2>5. QED
    BY <2>1, <2>4
<1>8. i \in seen
  BY <1>3, <1>5
<1>9. QED
  BY <1>4, <1>6, <1>7, <1>8

\* When what was found again is removed, the rest was not seen before.
LEMMA CutIs ==
  ASSUME NEW t, Sound(t), NEW seen
  PROVE  /\ Sound(Pruned(t, Reached(t, seen) \cap seen))
         /\ Nodes(Pruned(t, Reached(t, seen) \cap seen)) \subseteq Nodes(t) \cap Reached(t, seen)
         /\ Nodes(Pruned(t, Reached(t, seen) \cap seen)) \cap seen = {}
<1>1. t \in Tree
  BY DEF Sound
<1>2. PICK W \in SUBSET Items : W = Reached(t, seen)
  BY ReachedIs, NodesAre
<1>3. PICK dup \in SUBSET Items : dup = Reached(t, seen) \cap seen
  BY <1>2
<1>4. PICK sub \in SUBSET Items :
        /\ sub = Within(t, dup, {}) /\ dup \subseteq sub
        /\ \A f \in Folders : f \in sub => Kids(t, f) \subseteq sub
  BY UnderIs
<1>5. Sound(Pruned(t, dup)) /\ Nodes(Pruned(t, dup)) = Nodes(t) \ sub
  <2>1. Sound(Pruned(t, dup)) /\ Nodes(Pruned(t, dup)) = Nodes(t) \ Within(t, dup, {})
    BY PrunedIs
  <2>2. QED
    BY <1>4, <2>1
<1>6. Nodes(t) \subseteq (W \ seen) \cup sub
  <2>1. PICK S \in SUBSET Items : S = (W \ seen) \cup sub
    OBVIOUS
  <2>2. W \subseteq S
    BY <1>2, <1>3, <1>4, <2>1
  <2>3. Kids(t, Top) \subseteq S
    BY <1>2, <2>2, ReachedIs
  <2>4. \A f \in Folders : f \in S => Kids(t, f) \subseteq S
    <3>1. ASSUME NEW f \in Folders, f \in S PROVE Kids(t, f) \subseteq S
      <4>1. CASE f \in sub
        BY <1>4, <2>1, <4>1
      <4>2. CASE f \in W /\ f \notin seen
        BY <1>2, <2>2, <4>2, ReachedIs
      <4>3. QED
        BY <2>1, <3>1, <4>1, <4>2
    <3>2. QED
      BY <3>1
  <2>5. Nodes(t) \subseteq S
    BY <1>1, <2>3, <2>4, NodesHave
  <2>6. QED
    BY <2>1, <2>5
<1>7. QED
  BY <1>2, <1>3, <1>5, <1>6

\* f is the function that the scan defines, up to n.
ScanUpTo(f, cols, n) ==
    f = [c \in 0 .. n |->
            IF c = 0 THEN {} ELSE f[c - 1] \cup Within(cols[c - 1], ToSet(cols[c - 1].kids[Top]), f[c - 1])]

LEMMA ScanExists ==
  ASSUME NEW cols, NEW n \in Nat
  PROVE  \E f : ScanUpTo(f, cols, n)
<1> DEFINE T == {k \in Nat : ~ \E f : ScanUpTo(f, cols, k)}
<1>1. SUFFICES ASSUME T # {} PROVE FALSE
  OBVIOUS
<1>2. PICK k \in T : \A m \in T : ~ (m < k)
  BY <1>1, LeastOf
<1>3. CASE k = 0
  <2> DEFINE f == [i \in 0 .. 0 |-> {}]
  <2>1. ScanUpTo(f, cols, k)
    BY <1>3 DEF ScanUpTo
  <2>2. QED
    BY <2>1
<1>4. CASE k # 0
  <2>1. k \in Nat /\ k - 1 \in Nat /\ k - 1 < k
    BY <1>4
  <2>2. PICK g : ScanUpTo(g, cols, k - 1)
    BY <1>2, <2>1
  <2> DEFINE More(c, seen) == seen \cup Within(cols[c], ToSet(cols[c].kids[Top]), seen)
  <2>a. g = [c \in 0 .. k - 1 |-> IF c = 0 THEN {} ELSE More(c - 1, g[c - 1])]
    BY <2>2 DEF ScanUpTo
  <2>b. \A h : h = [c \in 0 .. k |-> IF c = 0 THEN {} ELSE More(c - 1, h[c - 1])] => ScanUpTo(h, cols, k)
    BY DEF ScanUpTo
  <2> HIDE DEF More
  <2> DEFINE h == [i \in 0 .. k |-> IF i = k THEN More(k - 1, g[k - 1]) ELSE g[i]]
  <2>3. ASSUME NEW i \in 0 .. k
        PROVE  h[i] = IF i = 0 THEN {} ELSE More(i - 1, h[i - 1])
    <3>1. CASE i = k
      <4>1. i - 1 \in 0 .. k /\ i - 1 # k
        BY <3>1, <2>1
      <4>2. h[i - 1] = g[i - 1]
        BY <4>1
      <4>3. QED
        BY <3>1, <4>2, <1>4
    <3>2. CASE i # k
      <4>1. h[i] = g[i]
        BY <3>2
      <4>2. i \in 0 .. (k - 1)
        BY <3>2, <2>1
      <4>3. g[i] = IF i = 0 THEN {} ELSE More(i - 1, g[i - 1])
        BY <4>2, <2>a
      <4>4. i # 0 => h[i - 1] = g[i - 1]
        BY <4>2, <2>1
      <4>5. QED
        BY <4>1, <4>3, <4>4
    <3>3. QED
      BY <3>1, <3>2
  <2>4. h = [c \in 0 .. k |-> IF c = 0 THEN {} ELSE More(c - 1, h[c - 1])]
    BY <2>3
  <2>5. ScanUpTo(h, cols, k)
    BY <2>4, <2>b
  <2>6. QED
    BY <2>5
<1>5. QED
  BY <1>3, <1>4

\* What was seen grows by what is reached.
LEMMA ScannedIs ==
  ASSUME NEW cols
  PROVE  /\ Scanned(cols)[0] = {}
         /\ \A c \in Cols : Scanned(cols)[c + 1] = Scanned(cols)[c] \cup Reached(cols[c], Scanned(cols)[c])
<1>1. MaxCol + 1 \in Nat
  BY MaxColIsNat
<1>2. \E f : ScanUpTo(f, cols, MaxCol + 1)
  BY <1>1, ScanExists
<1> DEFINE seen == CHOOSE f : ScanUpTo(f, cols, MaxCol + 1)
<1>3. ScanUpTo(seen, cols, MaxCol + 1)
  BY <1>2
<1>4. Scanned(cols) = seen
  BY DEF Scanned, ScanUpTo
<1> HIDE DEF seen
<1> DEFINE More(c, had) == had \cup Within(cols[c], ToSet(cols[c].kids[Top]), had)
<1>5. seen = [c \in 0 .. (MaxCol + 1) |-> IF c = 0 THEN {} ELSE More(c - 1, seen[c - 1])]
  BY <1>3 DEF ScanUpTo
<1>6. \A c, had : More(c, had) = had \cup Reached(cols[c], had)
  BY DEF Reached
<1> HIDE DEF More
<1>7. seen[0] = {}
  BY <1>1, <1>5
<1>8. ASSUME NEW c \in Cols PROVE seen[c + 1] = More(c, seen[c])
  <2>1. c + 1 \in 0 .. MaxCol + 1 /\ c + 1 # 0 /\ c + 1 - 1 = c
    BY MaxColIsNat DEF Cols
  <2>2. PICK n \in 0 .. (MaxCol + 1) : n = c + 1 /\ n # 0 /\ n - 1 = c
    BY <2>1, MaxColIsNat DEF Cols
  <2>3. seen[n] = More(n - 1, seen[n - 1])
    BY <1>5, <2>2
  <2>4. QED
    BY <2>2, <2>3
<1>9. QED
  BY <1>4, <1>6, <1>7, <1>8

\* What was seen before a collection is of those before it, and all that was
\* reached in them.
LEMMA SeenIs ==
  ASSUME NEW cols \in [Cols -> Tree], \A c \in Cols : Sound(cols[c])
  PROVE  /\ \A c \in Cols : \A x \in Scanned(cols)[c] : \E d \in Cols : d < c /\ x \in Nodes(cols[d])
         /\ \A c, d \in Cols : d < c => Reached(cols[d], Scanned(cols)[d]) \subseteq Scanned(cols)[c]
<1>1. PICK seen :
        /\ seen = Scanned(cols) /\ seen[0] = {}
        /\ \A c \in Cols : seen[c + 1] = seen[c] \cup Reached(cols[c], seen[c])
  BY ScannedIs
<1>2. \A c \in Cols : \A had : Reached(cols[c], had) \subseteq Nodes(cols[c])
  BY ReachedIs
<1>3. Cols \subseteq Nat /\ \A c \in Cols : c # 0 => c - 1 \in Cols /\ c - 1 < c /\ c - 1 + 1 = c
  BY MaxColIsNat DEF Cols
<1> DEFINE Bound(c) == \A x \in seen[c] : \E d \in Cols : d < c /\ x \in Nodes(cols[d])
           Full(c) == \A d \in Cols : d < c => Reached(cols[d], seen[d]) \subseteq seen[c]
           T == {c \in Cols : ~ (Bound(c) /\ Full(c))}
<1>4. SUFFICES ASSUME T # {} PROVE FALSE
  BY <1>1
<1>5. T \subseteq Nat
  BY <1>3
<1>6. PICK c \in T : \A m \in T : ~ (m < c)
  BY <1>4, <1>5, LeastOf
<1>7. CASE c = 0
  <2>1. \A d \in Cols : ~ (d < 0)
    BY DEF Cols
  <2>2. Bound(c) /\ Full(c)
    BY <1>1, <1>7, <2>1
  <2>3. QED
    BY <1>6, <2>2
<1>8. CASE c # 0
  <2>1. PICK b \in Cols : b = c - 1 /\ b < c /\ b + 1 = c
    BY <1>3, <1>6, <1>8
  <2>2. Bound(b) /\ Full(b)
    BY <1>6, <2>1
  <2>3. seen[c] = seen[b] \cup Reached(cols[b], seen[b])
    BY <1>1, <2>1
  <2>4. Bound(c)
    <3>1. ASSUME NEW x \in seen[c] PROVE \E d \in Cols : d < c /\ x \in Nodes(cols[d])
      <4>1. CASE x \in seen[b]
        <5>1. PICK d \in Cols : d < b /\ x \in Nodes(cols[d])
          BY <2>2, <4>1
        <5>2. d < c
          BY <1>3, <1>6, <2>1, <5>1
        <5>3. QED
          BY <5>1, <5>2
      <4>2. CASE x \in Reached(cols[b], seen[b])
        BY <1>2, <2>1, <4>2
      <4>3. QED
        BY <2>3, <3>1, <4>1, <4>2
    <3>2. QED
      BY <3>1
  <2>5. Full(c)
    <3>1. ASSUME NEW d \in Cols, d < c PROVE Reached(cols[d], seen[d]) \subseteq seen[c]
      <4>1. d < b \/ d = b
        BY <1>3, <1>6, <2>1, <3>1
      <4>2. QED
        BY <2>2, <2>3, <4>1
    <3>2. QED
      BY <3>1
  <2>6. QED
    BY <1>6, <2>4, <2>5
<1>9. QED
  BY <1>7, <1>8

\* What is found again in a collection.
Again(cols, c) == Reached(cols[c], Scanned(cols)[c]) \cap Scanned(cols)[c]

LEMMA DedupedHas ==
  ASSUME NEW cols
  PROVE  Deduped(cols) = [c \in Cols |-> Pruned(cols[c], Again(cols, c))]
BY Zenon DEF Deduped, Again, Reached

\* A collection of which nothing was seen stays.
LEMMA DedupedKeeps ==
  ASSUME NEW cols, NEW c \in Cols, Sound(cols[c]), Scanned(cols)[c] \cap Nodes(cols[c]) = {}
  PROVE  Deduped(cols)[c] = cols[c]
<1>1. Again(cols, c) = {}
  BY Walked DEF Again
<1>2. cols[c] \in Tree
  BY DEF Sound
<1>3. Deduped(cols)[c] = Pruned(cols[c], Again(cols, c))
  BY DedupedHas
<1>4. QED
  BY <1>1, <1>2, <1>3, PrunedNone

Apart(cols) == \A c, d \in Cols : c # d => Nodes(cols[c]) \cap Nodes(cols[d]) = {}

\* After the recovery no two collections share an item, and no item is new.
LEMMA DedupedIs ==
  ASSUME NEW cols \in [Cols -> Tree], \A c \in Cols : Sound(cols[c])
  PROVE  /\ Deduped(cols) \in [Cols -> Tree] /\ Apart(Deduped(cols))
         /\ \A c \in Cols : Sound(Deduped(cols)[c]) /\ Nodes(Deduped(cols)[c]) \subseteq Nodes(cols[c])
<1>1. PICK seen : seen = Scanned(cols)
  OBVIOUS
<1>2. PICK new : new = Deduped(cols)
  OBVIOUS
<1>3. new = [c \in Cols |-> Pruned(cols[c], Reached(cols[c], seen[c]) \cap seen[c])]
  BY <1>1, <1>2, DedupedHas DEF Again
<1>4. ASSUME NEW c \in Cols
      PROVE  /\ Sound(new[c]) /\ Nodes(new[c]) \cap seen[c] = {}
             /\ Nodes(new[c]) \subseteq Nodes(cols[c]) \cap Reached(cols[c], seen[c])
  <2>1. new[c] = Pruned(cols[c], Reached(cols[c], seen[c]) \cap seen[c])
    BY <1>3
  <2>2. QED
    BY <2>1, CutIs
<1>5. ASSUME NEW c \in Cols, NEW d \in Cols, d < c PROVE Nodes(new[c]) \cap Nodes(new[d]) = {}
  <2>1. Reached(cols[d], seen[d]) \subseteq seen[c]
    BY <1>1, <1>5, SeenIs
  <2>2. QED
    BY <1>4, <2>1
<1>6. Apart(new)
  <2>1. \A c, d \in Cols : c # d => d < c \/ c < d
    BY MaxColIsNat DEF Cols
  <2>2. QED
    BY <1>5, <2>1 DEF Apart
<1>7. new \in [Cols -> Tree]
  <2>1. \A c \in Cols : new[c] \in Tree
    BY <1>4 DEF Sound
  <2>2. QED
    BY <1>3, <2>1
<1>8. QED
  BY <1>2, <1>4, <1>6, <1>7

\* If no two collections share an item, the recovery changes nothing.
LEMMA DedupedApart ==
  ASSUME NEW cols \in [Cols -> Tree], \A c \in Cols : Sound(cols[c]), Apart(cols)
  PROVE  Deduped(cols) = cols
<1>1. ASSUME NEW c \in Cols PROVE Deduped(cols)[c] = cols[c]
  <2>1. Scanned(cols)[c] \cap Nodes(cols[c]) = {}
    <3>1. ASSUME NEW x \in Scanned(cols)[c], x \in Nodes(cols[c]) PROVE FALSE
      <4>1. PICK d \in Cols : d < c /\ x \in Nodes(cols[d])
        BY <3>1, SeenIs
      <4>2. d # c
        BY <4>1, MaxColIsNat DEF Cols
      <4>3. QED
        BY <3>1, <4>1, <4>2 DEF Apart
    <3>2. QED
      BY <3>1
  <2>2. QED
    BY <2>1, DedupedKeeps
<1>2. Deduped(cols) = [c \in Cols |-> Deduped(cols)[c]]
  BY DedupedHas
<1>3. QED
  BY <1>1, <1>2

\* If an item, with what is under it, is all that two collections share, it is
\* taken out of the second.
Clash(cols, a, b, i) ==
    /\ i \in Nodes(cols[b]) /\ Nodes(cols[a]) \cap Nodes(cols[b]) = Subtree(cols[b], i)
    /\ \A c, d \in Cols : c # d /\ {c, d} # {a, b} => Nodes(cols[c]) \cap Nodes(cols[d]) = {}

LEMMA DedupedClash ==
  ASSUME NEW cols \in [Cols -> Tree], \A c \in Cols : Sound(cols[c]),
         NEW a \in Cols, NEW b \in Cols, a < b, NEW i, Clash(cols, a, b, i)
  PROVE  Deduped(cols)[b] = Pruned(cols[b], {i}) /\ \A c \in Cols : c # b => Deduped(cols)[c] = cols[c]
<1>0. /\ i \in Nodes(cols[b]) /\ Nodes(cols[a]) \cap Nodes(cols[b]) = Subtree(cols[b], i)
      /\ \A c, d \in Cols : c # d /\ {c, d} # {a, b} => Nodes(cols[c]) \cap Nodes(cols[d]) = {}
  BY Zenon DEF Clash
<1>1. PICK seen : seen = Scanned(cols)
  OBVIOUS
<1>2. \A c \in Cols : \A x \in seen[c] : \E d \in Cols : d < c /\ x \in Nodes(cols[d])
  BY <1>1, SeenIs
<1>3. ASSUME NEW c \in Cols, c # b PROVE Deduped(cols)[c] = cols[c]
  <2>1. ASSUME NEW x \in seen[c], x \in Nodes(cols[c]) PROVE FALSE
    <3>1. PICK d \in Cols : d < c /\ x \in Nodes(cols[d])
      BY <1>2, <2>1
    <3>2. c # d /\ {c, d} # {a, b}
      <4>1. c # d /\ ~ (c = a /\ d = b)
        BY <3>1, MaxColIsNat DEF Cols
      <4>2. QED
        BY <1>3, <4>1
    <3>3. QED
      BY <1>0, <2>1, <3>1, <3>2
  <2>2. QED
    BY <1>1, <2>1, DedupedKeeps
<1>4. seen[b] \cap Nodes(cols[b]) = Subtree(cols[b], i)
  <2>1. seen[a] \cap Nodes(cols[a]) = {}
    <3>1. ASSUME NEW x \in seen[a], x \in Nodes(cols[a]) PROVE FALSE
      <4>1. PICK d \in Cols : d < a /\ x \in Nodes(cols[d])
        BY <1>2, <3>1
      <4>2. a # d /\ d # b
        BY <4>1, MaxColIsNat DEF Cols
      <4>3. {a, d} # {a, b}
        BY <4>2
      <4>4. QED
        BY <1>0, <3>1, <4>1, <4>2, <4>3
    <3>2. QED
      BY <3>1
  <2>2. Reached(cols[a], seen[a]) = Nodes(cols[a])
    BY <2>1, Walked
  <2>3. Nodes(cols[a]) \subseteq seen[b]
    BY <1>1, <2>2, SeenIs
  <2>4. ASSUME NEW x \in seen[b], x \in Nodes(cols[b]) PROVE x \in Nodes(cols[a])
    <3>1. PICK d \in Cols : d < b /\ x \in Nodes(cols[d])
      BY <1>2, <2>4
    <3>2. d # b
      BY <3>1, MaxColIsNat DEF Cols
    <3>3. d = a \/ {b, d} # {a, b}
      BY <3>2
    <3>4. QED
      BY <1>0, <2>4, <3>1, <3>2, <3>3
  <2>5. QED
    BY <1>0, <2>3, <2>4
<1>5. Again(cols, b) = {i}
  BY <1>0, <1>1, <1>4, Cut DEF Again
<1>6. Deduped(cols)[b] = Pruned(cols[b], {i})
  BY <1>5, DedupedHas
<1>7. QED
  BY <1>3, <1>6

-----------------------------------------------------------------------------
(* The layout of the sidebar.                                              *)

\* Where an element of a sequence is first.
LEMMA FirstOf ==
  ASSUME NEW A, NEW s \in Seq(A), NEW x \in ToSet(s)
  PROVE  \E k \in 1 .. Len(s) : s[k] = x /\ \A j \in 1 .. (k - 1) : s[j] # x
<1>1. PICK n \in Nat : n = Len(s) /\ DOMAIN s = 1 .. n
  BY LenProperties
<1> DEFINE T == {k \in 1 .. n : s[k] = x}
<1>2. T \subseteq Nat /\ T # {}
  BY <1>1 DEF ToSet
<1>3. PICK k \in T : \A m \in T : ~ (m < k)
  BY <1>2, LeastOf
<1>4. \A j \in 1 .. (k - 1) : s[j] # x
  <2>1. \A j \in 1 .. (k - 1) : j \in 1 .. n /\ j < k
    BY <1>3
  <2>2. QED
    BY <1>3, <2>1
<1>5. QED
  BY <1>1, <1>3, <1>4

\* Sequences that have nothing in common, one after the other.
LEMMA DistinctJoins ==
  ASSUME NEW A, NEW s \in Seq(A), NEW t \in Seq(A), Distinct(s), Distinct(t), ToSet(s) \cap ToSet(t) = {}
  PROVE  /\ s \o t \in Seq(A) /\ Distinct(s \o t) /\ ToSet(s \o t) = ToSet(s) \cup ToSet(t)
<1>1. PICK m \in Nat : m = Len(s) /\ DOMAIN s = 1 .. m
  BY LenProperties
<1>2. PICK n \in Nat : n = Len(t) /\ DOMAIN t = 1 .. n
  BY LenProperties
<1>3. PICK u \in Seq(A) : u = s \o t
  BY ConcatProperties
<1>4. Len(u) = m + n /\ \A i \in 1 .. m + n : u[i] = IF i <= m THEN s[i] ELSE t[i - m]
  BY <1>1, <1>2, <1>3, ConcatProperties
<1>5. Range(u) = Range(s) \cup Range(t)
  BY <1>3, RangeConcatenation
<1>6. ASSUME NEW i \in 1 .. m + n, NEW j \in 1 .. m + n, u[i] = u[j] PROVE i = j
  <2>1. \A k \in 1 .. m : s[k] \in ToSet(s)
    BY <1>1 DEF ToSet
  <2>2. \A k \in 1 .. n : t[k] \in ToSet(t)
    BY <1>2 DEF ToSet
  <2>3. CASE i <= m /\ j <= m
    <3>1. i \in 1 .. m /\ j \in 1 .. m /\ s[i] = s[j]
      BY <1>4, <1>6, <2>3
    <3>2. QED
      BY <1>1, <3>1 DEF Distinct
  <2>4. CASE ~ (i <= m) /\ ~ (j <= m)
    <3>1. i - m \in 1 .. n /\ j - m \in 1 .. n /\ t[i - m] = t[j - m]
      BY <1>4, <1>6, <2>4
    <3>2. i - m = j - m
      BY <1>2, <3>1 DEF Distinct
    <3>3. QED
      BY <3>2
  <2>5. CASE i <= m /\ ~ (j <= m)
    <3>1. i \in 1 .. m /\ j - m \in 1 .. n /\ s[i] = t[j - m]
      BY <1>4, <1>6, <2>5
    <3>2. QED
      BY <2>1, <2>2, <3>1
  <2>6. CASE ~ (i <= m) /\ j <= m
    <3>1. j \in 1 .. m /\ i - m \in 1 .. n /\ s[j] = t[i - m]
      BY <1>4, <1>6, <2>6
    <3>2. QED
      BY <2>1, <2>2, <3>1
  <2>7. QED
    BY <2>3, <2>4, <2>5, <2>6
<1>7. Distinct(u)
  BY <1>4, <1>6 DEF Distinct
<1>8. QED
  BY <1>3, <1>5, <1>7 DEF Range, ToSet

\* The valid entries, each once.
LEMMA FirstValidIs ==
  ASSUME NEW A, NEW s \in Seq(A), NEW valid
  PROVE  /\ FirstValid(s, valid) \in Seq(A) /\ Distinct(FirstValid(s, valid))
         /\ ToSet(FirstValid(s, valid)) = ToSet(s) \cap valid
<1>1. PICK n \in Nat : n = Len(s) /\ DOMAIN s = 1 .. n
  BY LenProperties
<1>2. PICK firsts : firsts = {k \in 1 .. n : s[k] \in valid /\ \A j \in 1 .. (k - 1) : s[j] # s[k]}
  OBVIOUS
<1>3. IsFiniteSet(firsts)
  <2>1. IsFiniteSet(1 .. n) /\ firsts \in SUBSET (1 .. n)
    BY <1>2, FS_Interval
  <2>2. QED
    BY <2>1, FS_Subset
<1>4. PICK m \in Nat : m = Cardinality(firsts)
  BY <1>3, FS_CardinalityType
<1> DEFINE R == {p \in firsts \X firsts : p[1] < p[2]}
           ranks == Ranked(firsts, R)
<1>5. \A x, y \in firsts : <<x, y>> \in R <=> x < y
  OBVIOUS
<1>6. /\ ranks \in [1 .. m -> firsts]
      /\ \A i, j \in 1 .. m : ranks[i] = ranks[j] => i = j
  <2> HIDE DEF R
  <2>1. firsts \subseteq Nat
    BY <1>2
  <2>2. /\ \A x \in firsts : <<x, x>> \notin R
        /\ \A x, y, z \in firsts : <<x, y>> \in R /\ <<y, z>> \in R => <<x, z>> \in R
        /\ \A x, y \in firsts : x # y => <<x, y>> \in R \/ <<y, x>> \in R
    <3>1. \A x \in firsts : ~ (x < x)
      BY <2>1
    <3>2. \A x, y, z \in firsts : x < y /\ y < z => x < z
      BY <2>1
    <3>3. \A x, y \in firsts : x # y => x < y \/ y < x
      BY <2>1
    <3>4. QED
      BY <1>5, <3>1, <3>2, <3>3
  <2>3. QED
    BY <1>3, <1>4, <2>2, RankedIs
<1>7. FirstValid(s, valid) = [k \in DOMAIN ranks |-> s[ranks[k]]]
  BY <1>1, <1>2 DEF FirstValid
<1> HIDE DEF R, ranks
<1>8. ranks \in Surjection(1 .. m, firsts)
  <2>1. ranks \in Injection(1 .. m, firsts)
    BY <1>6 DEF Injection, IsInjective
  <2>2. Cardinality(1 .. m) = m
    BY FS_Interval
  <2>3. QED
    BY <1>3, <1>4, <2>1, <2>2, FS_Injection
<1>9. PICK f : f = FirstValid(s, valid)
  OBVIOUS
<1>10. f \in [1 .. m -> A] /\ \A k \in 1 .. m : f[k] = s[ranks[k]]
  <2>1. f = [k \in 1 .. m |-> s[ranks[k]]]
    BY <1>6, <1>7, <1>9
  <2>2. \A k \in 1 .. m : ranks[k] \in 1 .. Len(s)
    BY <1>1, <1>2, <1>6
  <2>3. \A k \in 1 .. m : s[ranks[k]] \in A
    BY <2>2, ElementOfSeq
  <2>4. QED
    BY <2>1, <2>3
<1>11. f \in Seq(A) /\ Len(f) = m /\ DOMAIN f = 1 .. m
  <2>1. f \in Seq(A) /\ Len(f) = m
    BY <1>10, UpToIsSeq
  <2>2. QED
    BY <2>1, LenProperties
<1>12. ASSUME NEW i \in 1 .. m, NEW j \in 1 .. m, f[i] = f[j] PROVE i = j
  <2>1. PICK a \in firsts : a = ranks[i]
    BY <1>6
  <2>2. PICK b \in firsts : b = ranks[j]
    BY <1>6
  <2>3. s[a] = s[b] /\ a \in 1 .. n /\ b \in 1 .. n
    BY <1>2, <1>10, <1>12, <2>1, <2>2
  <2>4. ~ (a < b) /\ ~ (b < a)
    <3>1. a < b => a \in 1 .. (b - 1)
      BY <2>3
    <3>2. b < a => b \in 1 .. (a - 1)
      BY <2>3
    <3>3. QED
      BY <1>2, <2>3, <3>1, <3>2
  <2>5. a = b
    BY <2>3, <2>4
  <2>6. QED
    BY <1>6, <2>1, <2>2, <2>5
<1>13. ToSet(f) = ToSet(s) \cap valid
  <2>1. ASSUME NEW x \in ToSet(f) PROVE x \in ToSet(s) \cap valid
    <3>1. PICK k \in 1 .. m : x = s[ranks[k]] /\ ranks[k] \in firsts
      BY <1>6, <1>10, <1>11, <2>1 DEF ToSet
    <3>2. QED
      BY <1>1, <1>2, <3>1 DEF ToSet
  <2>2. ASSUME NEW x \in ToSet(s), x \in valid PROVE x \in ToSet(f)
    <3>1. PICK k \in 1 .. n : s[k] = x /\ \A j \in 1 .. (k - 1) : s[j] # x
      BY <1>1, <2>2, FirstOf
    <3>2. k \in firsts
      BY <1>2, <2>2, <3>1
    <3>3. PICK i \in 1 .. m : ranks[i] = k
      BY <1>8, <3>2 DEF Surjection
    <3>4. f[i] = x
      BY <1>10, <3>1, <3>3
    <3>5. QED
      BY <1>11, <3>4 DEF ToSet
  <2>3. QED
    BY <2>1, <2>2
<1>14. Distinct(f)
  BY <1>11, <1>12 DEF Distinct
<1>15. QED
  BY <1>9, <1>11, <1>13, <1>14

\* What is known of a snapshot.
IsSnapshot(s) ==
    /\ DOMAIN s.names \subseteq Cols \ {Root}
    /\ s.tops \in Seq(Items) /\ Distinct(s.tops)

LEMMA ColsAreFinite ==
  /\ IsFiniteSet(Cols) /\ Entries \cap {Root} = {} /\ (Cols \ {Root}) \cap Items = {}
  /\ Items \subseteq Entries /\ Cols \ {Root} \subseteq Entries
<1>1. IsFiniteSet(Cols)
  BY FS_Interval, MaxColIsNat DEF Cols
<1>2. Root \in Cols
  BY MaxColIsNat DEF Cols, Root
<1>3. QED
  BY <1>1, <1>2, IdsAreUnique DEF Entries

\* The reconciled layout shows what is there, each once.
LEMMA ReconciledIs ==
  ASSUME NEW s \in Seq(Entries), NEW sn, IsSnapshot(sn), NEW view \in Reconciled(s, sn)
  PROVE  view \in Seq(Entries) /\ Distinct(view) /\ ToSet(view) = Valid(sn)
<1>1. PICK valid : valid = Valid(sn)
  OBVIOUS
<1>2. PICK kept \in Seq(Entries) :
        kept = FirstValid(s, valid) /\ Distinct(kept) /\ ToSet(kept) = ToSet(s) \cap valid
  BY FirstValidIs
<1>3. PICK missing : missing = DOMAIN sn.names \ ToSet(kept)
  OBVIOUS
<1>4. PICK items : items = Only(sn.tops, Items \ ToSet(kept))
  OBVIOUS
<1>5. PICK cs \in SetToSeqs(missing) : view = kept \o cs \o items
  BY <1>1, <1>2, <1>3, <1>4 DEF Reconciled
<1>6. missing \subseteq Entries /\ missing \cap Items = {} /\ IsFiniteSet(missing)
  <2>1. missing \subseteq Cols \ {Root}
    BY <1>3 DEF IsSnapshot
  <2>2. QED
    BY <2>1, ColsAreFinite, FS_Subset
<1>7. cs \in Seq(Entries) /\ Distinct(cs) /\ ToSet(cs) = missing
  <2>1. cs \in Seq(missing) /\ Distinct(cs) /\ ToSet(cs) = missing
    BY <1>6, AllInOrder
  <2>2. QED
    BY <1>6, <2>1, SeqMonotonic
<1>8. items \in Seq(Entries) /\ Distinct(items) /\ ToSet(items) = ToSet(sn.tops) \ ToSet(kept)
  <2>1. PICK tops \in Seq(Items) : tops = sn.tops /\ Distinct(tops)
    BY DEF IsSnapshot
  <2>2. items \in Seq(Items) /\ Distinct(items) /\ ToSet(items) = ToSet(tops) \cap (Items \ ToSet(kept))
    BY <1>4, <2>1, OnlyIs
  <2>3. ToSet(tops) \subseteq Items
    BY LenProperties, ElementOfSeq DEF ToSet
  <2>4. items \in Seq(Entries)
    BY <2>2, ColsAreFinite, SeqMonotonic
  <2>5. QED
    BY <2>1, <2>2, <2>3, <2>4
<1>9. PICK u \in Seq(Entries) : u = kept \o cs /\ Distinct(u) /\ ToSet(u) = ToSet(kept) \cup missing
  <2>1. ToSet(kept) \cap ToSet(cs) = {}
    BY <1>3, <1>7
  <2>2. QED
    <3>1. /\ kept \o cs \in Seq(Entries) /\ Distinct(kept \o cs)
          /\ ToSet(kept \o cs) = ToSet(kept) \cup ToSet(cs)
      BY <1>2, <1>7, <2>1, DistinctJoins
    <3>2. QED
      BY <1>7, <3>1
<1>10. ToSet(sn.tops) \subseteq Items
  <2>1. PICK tops \in Seq(Items) : tops = sn.tops
    BY DEF IsSnapshot
  <2>2. ToSet(tops) \subseteq Items
    BY LenProperties, ElementOfSeq DEF ToSet
  <2>3. QED
    BY <2>1, <2>2
<1>11. /\ view \in Seq(Entries) /\ Distinct(view) /\ ToSet(view) = ToSet(u) \cup ToSet(items)
  <2>1. ToSet(u) \cap ToSet(items) = {}
    BY <1>6, <1>8, <1>9, <1>10
  <2>2. view = u \o items
    BY <1>5, <1>9
  <2>3. u \o items \in Seq(Entries) /\ Distinct(u \o items) /\ ToSet(u \o items) = ToSet(u) \cup ToSet(items)
    <3>1. items \in Seq(Entries) /\ Distinct(items) /\ Distinct(u)
      BY <1>8, <1>9
    <3>2. QED
      BY <2>1, <3>1, DistinctJoins
  <2>4. QED
    BY <2>2, <2>3
<1>12. ToSet(view) = valid
  <2>1. valid = DOMAIN sn.names \cup ToSet(sn.tops)
    BY <1>1 DEF Valid
  <2>2. QED
    BY <1>2, <1>3, <1>8, <1>9, <1>11, <2>1
<1>13. QED
  BY <1>1, <1>11, <1>12

\* An entry that is moved keeps the layout one of entries.
LEMMA MovedIs ==
  ASSUME NEW A, NEW s \in Seq(A), NEW e \in ToSet(s), NEW pos
  PROVE  Moved(s, e, pos) \in Seq(A)
<1>1. \E k \in 1 .. Len(s) : s[k] = e /\ \A j \in 1 .. (k - 1) : s[j] # e
  BY FirstOf
<1>2. PICK k \in 1 .. Len(s) :
        k = CHOOSE j \in 1 .. Len(s) : s[j] = e /\ \A l \in 1 .. (j - 1) : s[l] # e
  BY <1>1
<1>3. PICK rest \in Seq(A) : rest = RemoveAt(s, k)
  BY TakenOut
<1>4. e \in A
  <2>1. \A i \in DOMAIN s : s[i] \in A
    BY LenProperties, ElementOfSeq
  <2>2. QED
    BY <2>1 DEF ToSet
<1>5. Moved(s, e, pos) = Placed(rest, e, IF k <= pos THEN pos - 1 ELSE pos)
  BY <1>2, <1>3 DEF Moved
<1>6. QED
  BY <1>3, <1>4, <1>5, PlacedIs

\* What an operation does to a layout leaves it one of entries.
IsChange(ch) ==
    /\ ch.how \in {"none", "append", "remove", "insert"}
    /\ ch.how # "none" => ch.id \in Entries

LEMMA ChangedIs ==
  ASSUME NEW s \in Seq(Entries), NEW ch, IsChange(ch)
  PROVE  Changed(s, ch) \in Seq(Entries)
<1>1. CASE ch.how = "none"
  BY <1>1 DEF Changed
<1>2. CASE ch.how = "append"
  <2>1. Changed(s, ch) = Append(s, ch.id) /\ ch.id \in Entries
    BY <1>2 DEF Changed, IsChange
  <2>2. QED
    BY <2>1, AppendProperties
<1>3. CASE ch.how = "remove"
  <2>1. Changed(s, ch) = Only(s, ToSet(s) \ {ch.id})
    BY <1>3 DEF Changed
  <2>2. QED
    BY <2>1, OnlyIs
<1>4. CASE ch.how = "insert"
  <2>1. Changed(s, ch) = Placed(s, ch.id, ch.pos) /\ ch.id \in Entries
    BY <1>4 DEF Changed, IsChange
  <2>2. QED
    BY <2>1, PlacedIs
<1>5. QED
  BY <1>1, <1>2, <1>3, <1>4 DEF IsChange

\* A layout of exactly what is there is shown as it is.
LEMMA ShownAsIs ==
  ASSUME NEW sn, IsSnapshot(sn), NEW s \in SetToSeqs(Valid(sn))
  PROVE  s \in Seq(Entries) /\ s \in Reconciled(s, sn)
<1>1. PICK valid : valid = Valid(sn) /\ valid \subseteq Entries /\ IsFiniteSet(valid)
  <2>1. PICK tops \in Seq(Items) : tops = sn.tops
    BY DEF IsSnapshot
  <2>2. ToSet(tops) \subseteq Items
    BY LenProperties, ElementOfSeq DEF ToSet
  <2>3. IsFiniteSet(DOMAIN sn.names)
    BY ColsAreFinite, FS_Subset DEF IsSnapshot
  <2>4. IsFiniteSet(ToSet(tops))
    BY <2>2, FoldersAreItems, FS_Subset
  <2>5. IsFiniteSet(DOMAIN sn.names \cup ToSet(tops))
    BY <2>3, <2>4, FS_Union
  <2>6. Valid(sn) = DOMAIN sn.names \cup ToSet(tops) /\ Valid(sn) \subseteq Entries
    BY <2>1, <2>2, ColsAreFinite DEF Valid, IsSnapshot
  <2>7. QED
    BY <2>5, <2>6
<1>2. s \in Seq(Entries) /\ Distinct(s) /\ ToSet(s) = valid
  <2>1. s \in Seq(valid) /\ Distinct(s) /\ ToSet(s) = valid
    BY <1>1, AllInOrder
  <2>2. QED
    BY <1>1, <2>1, SeqMonotonic
<1>3. PICK n \in Nat : n = Len(s) /\ DOMAIN s = 1 .. n
  BY <1>2, LenProperties
<1>4. FirstValid(s, valid) = s
  <2>1. PICK firsts : firsts = {k \in DOMAIN s : s[k] \in valid /\ \A j \in 1 .. (k - 1) : s[j] # s[k]}
    OBVIOUS
  <2>2. firsts = 1 .. n
    <3>1. ASSUME NEW k \in 1 .. n PROVE s[k] \in valid /\ \A j \in 1 .. (k - 1) : s[j] # s[k]
      <4>1. s[k] \in valid
        BY <1>2, <1>3 DEF ToSet
      <4>2. \A j \in 1 .. (k - 1) : j \in 1 .. n /\ j # k
        OBVIOUS
      <4>3. QED
        BY <1>2, <1>3, <4>1, <4>2 DEF Distinct
    <3>2. QED
      BY <1>3, <2>1, <3>1
  <2>3. Cardinality(firsts) = n
    BY <2>2, FS_Interval
  <2> DEFINE R == {p \in firsts \X firsts : p[1] < p[2]}
             ranks == Ranked(firsts, R)
  <2>4. ASSUME NEW x \in 1 .. n PROVE Cardinality({y \in firsts : <<y, x>> \in R}) = x - 1
    <3>1. {y \in firsts : <<y, x>> \in R} = 1 .. (x - 1)
      <4>1. \A y \in firsts : <<y, x>> \in R <=> y < x
        BY <2>2
      <4>2. \A y \in 1 .. n : y < x <=> y \in 1 .. (x - 1)
        OBVIOUS
      <4>3. \A y \in 1 .. (x - 1) : y \in 1 .. n
        OBVIOUS
      <4>4. QED
        BY <2>2, <4>1, <4>2, <4>3
    <3>2. Cardinality(1 .. (x - 1)) = x - 1
      <4>1. 1 \in Int /\ x - 1 \in Int
        OBVIOUS
      <4>2. Cardinality(1 .. (x - 1)) = IF 1 > x - 1 THEN 0 ELSE x - 1 - 1 + 1
        BY <4>1, FS_Interval
      <4>3. QED
        BY <4>2
    <3>3. QED
      BY <3>1, <3>2
  <2>5. ranks = [k \in 1 .. n |-> CHOOSE x \in firsts : Cardinality({y \in firsts : <<y, x>> \in R}) = k - 1]
    BY <2>3 DEF Ranked
  <2>6. ASSUME NEW k \in 1 .. n PROVE ranks[k] = k
    <3>1. \A x \in firsts : Cardinality({y \in firsts : <<y, x>> \in R}) = k - 1 <=> x = k
      <4>1. \A x \in 1 .. n : x - 1 = k - 1 <=> x = k
        OBVIOUS
      <4>2. QED
        BY <2>2, <2>4, <4>1
    <3>2. k \in firsts
      BY <2>2
    <3>3. k = CHOOSE x \in firsts : Cardinality({y \in firsts : <<y, x>> \in R}) = k - 1
      BY <3>1, <3>2
    <3>4. QED
      BY <2>5, <3>3
  <2>7. DOMAIN ranks = 1 .. n
    BY <2>5
  <2>8. FirstValid(s, valid) = [k \in DOMAIN ranks |-> s[ranks[k]]]
    BY <2>1 DEF FirstValid
  <2> HIDE DEF ranks
  <2>9. FirstValid(s, valid) = [k \in 1 .. n |-> s[k]]
    BY <2>6, <2>7, <2>8
  <2>10. s = [k \in 1 .. n |-> s[k]]
    BY <1>2, <1>3, LenProperties
  <2>11. QED
    BY <2>9, <2>10
<1>5. DOMAIN sn.names \ ToSet(s) = {}
  BY <1>1, <1>2 DEF Valid
<1>6. PICK none : none = <<>> /\ none \in SetToSeqs({}) /\ Len(none) = 0
  <2>1. <<>> \in Seq({}) /\ Len(<<>>) = 0
    BY EmptySeq
  <2>2. <<>> \in [1 .. 0 -> {}]
    BY <2>1, LenProperties
  <2>3. <<>> \in SetToSeqs({})
    BY <2>2, FS_EmptySet DEF SetToSeqs
  <2>4. QED
    BY <2>1, <2>3
<1>7. Only(sn.tops, Items \ ToSet(s)) = <<>>
  <2>1. PICK tops \in Seq(Items) : tops = sn.tops
    BY DEF IsSnapshot
  <2>2. PICK items \in Seq(Items) : items = Only(tops, Items \ ToSet(s)) /\ ToSet(items) = ToSet(tops) \cap (Items \ ToSet(s))
    BY OnlyIs
  <2>3. ToSet(items) = {}
    BY <1>1, <1>2, <2>1, <2>2 DEF Valid
  <2>4. PICK m \in Nat : m = Len(items) /\ DOMAIN items = 1 .. m
    BY LenProperties
  <2>5. m = 0
    <3>1. m # 0 => 1 \in 1 .. m
      OBVIOUS
    <3>2. QED
      BY <2>3, <2>4, <3>1 DEF ToSet
  <2>6. items = <<>>
    BY <2>4, <2>5, EmptySeq
  <2>7. QED
    BY <2>1, <2>2, <2>6
<1>8. s \o none \o <<>> = s
  BY <1>2, <1>6, ConcatEmptySeq
<1>9. s \in Reconciled(s, sn)
  <2>1. \A j, k \in 1 .. Len(none) : j < k => sn.names[none[j]] <= sn.names[none[k]]
    BY <1>6
  <2>2. QED
    BY <1>1, <1>4, <1>5, <1>6, <1>7, <1>8, <2>1 DEF Reconciled
<1>10. QED
  BY <1>2, <1>9

-----------------------------------------------------------------------------
(* The inductive invariant.                                                *)

\* Collections whose items have been given out.
Trees(cols, ids) == cols \in [Cols -> Tree] /\ \A c \in Cols : Sound(cols[c]) /\ Nodes(cols[c]) \subseteq ids

\* The caches and the files are trees, and no two collections of a cache share
\* an item.
CacheTrue == Trees(cache, used) /\ Trees(next, used) /\ Trees(disk, used) /\ Apart(cache) /\ Apart(next)

\* An item is carried from one collection to another: the source gets rid of
\* it, the target gets it with all that is under it, and would be as before
\* without it.
Carried(i, dst, src) ==
    /\ i \in Nodes(cache[src]) /\ next[src] = Pruned(cache[src], {i})
    /\ i \in Nodes(next[dst]) /\ cache[dst] = Pruned(next[dst], {i})
    /\ Subtree(next[dst], i) = Subtree(cache[src], i)
    /\ Nodes(next[dst]) = Nodes(cache[dst]) \cup Subtree(cache[src], i)

\* An operation changes the collections it writes, one or two; two are those
\* between which an item is carried, the target first.
WritesTrue ==
    /\ writes \in Seq(Cols) /\ Len(writes) <= 2 /\ done \in 0 .. Len(writes)
    /\ undoing \in BOOLEAN /\ (undoing => done # 0)
    /\ \A c \in Cols : c \notin ToSet(writes) => next[c] = cache[c]
    /\ Len(writes) = 2 => writes[1] # writes[2] /\ \E i \in Items : Carried(i, writes[1], writes[2])

\* The files that are written are new, the others old, unless a rollback failed.
Written(c) == \E k \in 1 .. done : writes[k] = c
DiskTrue == ~torn => \A c \in Cols : disk[c] = IF Written(c) THEN next[c] ELSE cache[c]

\* The layout has entries, but not always those that exist.
LayoutTrue ==
    /\ layout \in Seq(Entries) /\ IsChange(change)
    /\ moving => IsSnapshot(snap)
    /\ faults \in Nat

FilesTrue == CacheTrue /\ WritesTrue /\ DiskTrue /\ LayoutTrue

\* Rows and calls are about collections.
RowTrue(row) == row.col \in Cols /\ row.parent \in Parents
CallTrue(call) == call.src \in Cols /\ call.dst \in Cols /\ call.parent \in Parents
QueueTrue ==
    /\ queue \in Seq(ToSet(queue)) /\ (queue = <<>> => step = "idle")
    /\ \A q \in ToSet(queue) : CallTrue(q.call)
    /\ (pressed # NoRow => RowTrue(pressed)) /\ (drag # NoRow => RowTrue(drag))

\* While nothing failed the tree that is shown is the service's, but for what is
\* read after a call.
ShownTrue ==
    part = "panel" /\ faults = 0 =>
      /\ step \in {"idle", "call"} => trees = cache /\ entries \in View(layout, cache)
      /\ step = "call" /\ queue[1].call.op = "reorder" => Idle
      /\ step = "read" /\ queue[1].call.op = "reorder" => trees = cache

Inv == FilesTrue /\ QueueTrue /\ ShownTrue

\* An operation that has not begun changes nothing.
LEMMA IdleIs ==
  ASSUME FilesTrue, Idle
  PROVE  done = 0 /\ ~undoing /\ next = cache /\ (~torn => disk = cache)
<1>1. Len(writes) = 0
  BY EmptySeq DEF Idle
<1>2. done = 0 /\ ~undoing
  BY <1>1 DEF FilesTrue, WritesTrue
<1>3. \A c \in Cols : ~Written(c)
  BY <1>2 DEF Written
<1>4. ToSet(writes) = {}
  BY DEF Idle, ToSet
<1>5. cache \in [Cols -> Tree] /\ next \in [Cols -> Tree] /\ disk \in [Cols -> Tree]
  BY DEF FilesTrue, CacheTrue, Trees
<1>6. next = cache
  <2>1. \A c \in Cols : next[c] = cache[c]
    BY <1>4 DEF FilesTrue, WritesTrue
  <2>2. QED
    BY <1>5, <2>1
<1>7. ASSUME ~torn PROVE disk = cache
  <2>1. \A c \in Cols : disk[c] = cache[c]
    BY <1>3, <1>7 DEF FilesTrue, DiskTrue
  <2>2. QED
    BY <1>5, <2>1
<1>8. QED
  BY <1>2, <1>6, <1>7

\* A snapshot of collections.
LEMMA SnapshotIs ==
  ASSUME NEW cols \in [Cols -> Tree], \A c \in Cols : Sound(cols[c])
  PROVE  IsSnapshot(Snapshot(cols))
<1>1. Root \in Cols /\ Top \in Parents
  BY MaxColIsNat DEF Cols, Root, Parents
<1>2. cols[Root].kids[Top] \in Seq(Items) /\ Distinct(cols[Root].kids[Top])
  <2>1. cols[Root] \in Tree
    BY <1>1
  <2>2. QED
    BY <1>1, <2>1, TreeHas DEF Sound
<1>3. PICK names : names = [c \in {d \in Cols \ {Root} : Exists(cols[d])} |-> cols[c].name]
  OBVIOUS
<1>4. DOMAIN names \subseteq Cols \ {Root}
  BY <1>3
<1>5. Snapshot(cols) = [names |-> names, tops |-> cols[Root].kids[Top]]
  BY <1>3 DEF Snapshot
<1>6. QED
  BY <1>2, <1>4, <1>5 DEF IsSnapshot

\* What the sidebar shows: everything that is there, once.
LEMMA ViewIs ==
  ASSUME FilesTrue, NEW view \in View(layout, cache)
  PROVE  Distinct(view) /\ ToSet(view) = Valid(Snapshot(cache)) /\ view \in Seq(Entries)
<1>1. IsSnapshot(Snapshot(cache)) /\ layout \in Seq(Entries)
  BY SnapshotIs DEF FilesTrue, CacheTrue, LayoutTrue, Trees
<1>2. QED
  BY <1>1, ReconciledIs DEF View

-----------------------------------------------------------------------------
(* Operations begin.                                                       *)

\* An operation that begins changes nothing but what it will write.
LEMMA BeginKeeps ==
  ASSUME FilesTrue, NEW new, NEW cols, NEW ch, Begin(new, cols, ch),
         used \subseteq used', Trees(new, used'), Apart(new),
         cols \in Seq(Cols), Len(cols) <= 2, IsChange(ch),
         \A c \in Cols : c \notin ToSet(cols) => new[c] = cache[c],
         Len(cols) = 2 => cols[1] # cols[2] /\ \E i \in Items : Carried(i, cols[1], cols[2])'
  PROVE  FilesTrue'
<1>1. /\ next' = new /\ writes' = cols /\ done' = 0 /\ undoing' = FALSE /\ change' = ch
      /\ cache' = cache /\ disk' = disk /\ layout' = layout /\ snap' = snap /\ moving' = moving
      /\ torn' = torn /\ faults' = faults /\ Idle
  BY DEF Begin, files, mover
<1>2. CacheTrue'
  BY <1>1 DEF FilesTrue, CacheTrue, Trees
<1>3. WritesTrue'
  <2>1. Len(cols) \in Nat
    BY LenProperties
  <2>2. done' \in 0 .. Len(writes')
    BY <1>1, <2>1
  <2>3. QED
    BY <1>1, <2>2 DEF WritesTrue
<1>4. DiskTrue'
  <2>1. \A c \in Cols : ~Written(c)'
    BY <1>1 DEF Written
  <2>2. ~torn => disk = cache
    BY <1>1, IdleIs
  <2>3. QED
    BY <1>1, <2>1, <2>2 DEF DiskTrue
<1>5. LayoutTrue'
  BY <1>1 DEF FilesTrue, LayoutTrue
<1>6. QED
  BY <1>2, <1>3, <1>4, <1>5 DEF FilesTrue

\* One that writes one collection.
LEMMA OneFile ==
  ASSUME FilesTrue, NEW c \in Cols, NEW t, NEW ch, Begin([cache EXCEPT ![c] = t], <<c>>, ch),
         used \subseteq used', Sound(t), Nodes(t) \subseteq used',
         \A d \in Cols : d # c => Nodes(t) \cap Nodes(cache[d]) = {}, IsChange(ch)
  PROVE  FilesTrue'
<1>1. PICK new : new = [cache EXCEPT ![c] = t]
  OBVIOUS
<1>2. PICK cols : cols = <<c>>
  OBVIOUS
<1>3. /\ cache \in [Cols -> Tree] /\ Apart(cache)
      /\ \A d \in Cols : Sound(cache[d]) /\ Nodes(cache[d]) \subseteq used
  BY DEF FilesTrue, CacheTrue, Trees
<1>4. new[c] = t /\ \A d \in Cols : d # c => new[d] = cache[d]
  BY <1>1, <1>3
<1>5. Trees(new, used')
  <2>1. t \in Tree
    BY DEF Sound
  <2>2. new \in [Cols -> Tree]
    BY <1>1, <1>3, <2>1
  <2>3. \A d \in Cols : Sound(new[d]) /\ Nodes(new[d]) \subseteq used'
    BY <1>3, <1>4
  <2>4. QED
    BY <2>2, <2>3 DEF Trees
<1>6. Apart(new)
  BY <1>3, <1>4 DEF Apart
<1>7. cols \in Seq(Cols) /\ Len(cols) = 1 /\ ToSet(cols) = {c}
  BY <1>2 DEF ToSet
<1>8. Begin(new, cols, ch)
  BY <1>1, <1>2
<1>9. \A d \in Cols : d \notin ToSet(cols) => new[d] = cache[d]
  BY <1>4, <1>7
<1>10. cols \in Seq(Cols) /\ Len(cols) <= 2 /\ Len(cols) # 2
  BY <1>7
<1>11. Len(cols) = 2 => cols[1] # cols[2] /\ \E i \in Items : Carried(i, cols[1], cols[2])'
  BY <1>10
<1>12. QED
  BY <1>5, <1>6, <1>8, <1>9, <1>10, <1>11, BeginKeeps, Zenon

\* A collection without items.
LEMMA EmptyIs ==
  ASSUME NEW n \in Nat
  PROVE  Sound(EmptyTree(n)) /\ Nodes(EmptyTree(n)) = {}
<1>1. PICK kids : kids = [p \in Parents |-> <<>>]
  OBVIOUS
<1>2. PICK ver : ver = [i \in Items |-> 0]
  OBVIOUS
<1>3. PICK t : t = [name |-> n, kids |-> kids, ver |-> ver]
  OBVIOUS
<1>4. t = EmptyTree(n)
  BY <1>1, <1>2, <1>3 DEF EmptyTree
<1>5. <<>> \in Seq(Items) /\ Len(<<>>) = 0 /\ ToSet(<<>>) = {} /\ Distinct(<<>>)
  <2>1. <<>> \in Seq(Items) /\ Len(<<>>) = 0
    BY EmptySeq
  <2>2. QED
    BY <2>1 DEF ToSet, Distinct
<1>6. kids \in [Parents -> Seq(Items)] /\ ver \in [Items -> Nat]
  BY <1>1, <1>2, <1>5
<1>7. t \in Tree /\ t.kids = kids /\ t.ver = ver
  BY <1>3, <1>6 DEF Tree
<1>8. \A p \in Parents : t.kids[p] = <<>> /\ Kids(t, p) = {}
  BY <1>1, <1>5, <1>7 DEF Kids
<1>9. Nodes(t) = {}
  <2>1. PICK none \in SUBSET Items : none = {}
    OBVIOUS
  <2>2. Kids(t, Top) \subseteq none /\ \A f \in Folders : f \in none => Kids(t, f) \subseteq none
    BY <1>7, <1>8, <2>1, TreeHas
  <2>3. Nodes(t) \subseteq none
    BY <1>7, <2>2, NodesHave
  <2>4. QED
    BY <2>1, <2>3
<1>10. \A f \in Folders : f \in Parents
  BY <1>7, TreeHas
<1>11. \A i \in Items : t.ver[i] = 0
  BY <1>2, <1>7
<1>12. Sound(t)
  BY <1>5, <1>7, <1>8, <1>10, <1>11 DEF Sound
<1>13. QED
  BY <1>4, <1>9, <1>12

\* The nodes depend on the children alone.
LEMMA SameNodes ==
  ASSUME NEW t, NEW u, u.kids = t.kids
  PROVE  Nodes(u) = Nodes(t)
BY DEF Nodes, Within, Followed

LEMMA SameShape ==
  ASSUME NEW t, Sound(t), NEW u \in Tree, u.kids = t.kids, \A i \in Items : u.ver[i] # 0 => i \in Nodes(t)
  PROVE  Sound(u) /\ Nodes(u) = Nodes(t)
<1>1. Nodes(u) = Nodes(t)
  BY SameNodes
<1>2. \A p \in Parents : Kids(u, p) = Kids(t, p) /\ u.kids[p] = t.kids[p]
  BY DEF Kids
<1>3. t \in Tree /\ \A f \in Folders : f \in Parents
  BY TreeHas DEF Sound
<1>4. /\ \A p \in Parents : Distinct(u.kids[p])
      /\ \A p, q \in Parents : p # q => Kids(u, p) \cap Kids(u, q) = {}
  BY <1>2 DEF Sound
<1>5. \A f \in Folders : u.kids[f] # <<>> => f \in Nodes(u)
  BY <1>1, <1>2, <1>3 DEF Sound
<1>6. QED
  BY <1>1, <1>4, <1>5 DEF Sound

\* What the caches are.
LEMMA CacheIs ==
  ASSUME FilesTrue
  PROVE  /\ cache \in [Cols -> Tree] /\ Apart(cache) /\ DOMAIN cache = Cols
         /\ \A c \in Cols : cache[c] \in Tree /\ Sound(cache[c]) /\ Nodes(cache[c]) \subseteq used
BY DEF FilesTrue, CacheTrue, Trees

LEMMA CreateKeeps ==
  ASSUME FilesTrue, NEW c \in Cols \ {Root}, NEW n \in Names, CreateCollection(c, n)
  PROVE  FilesTrue'
<1>1. Sound(EmptyTree(n)) /\ Nodes(EmptyTree(n)) = {}
  BY EmptyIs, NamesArePositive
<1>2. PICK ch : ch = AppendEntry(c)
  OBVIOUS
<1>3. IsChange(ch)
  BY <1>2, ColsAreFinite DEF AppendEntry, IsChange
<1>4. Begin([cache EXCEPT ![c] = EmptyTree(n)], <<c>>, ch) /\ used \subseteq used'
  BY <1>2 DEF CreateCollection, New
<1>5. QED
  BY <1>1, <1>3, <1>4, OneFile

LEMMA DeleteKeeps ==
  ASSUME FilesTrue, NEW c \in Cols \ {Root}, DeleteCollection(c)
  PROVE  FilesTrue'
<1>1. Sound(Absent) /\ Nodes(Absent) = {}
  <2>1. Absent = EmptyTree(0)
    BY DEF Absent, EmptyTree
  <2>2. QED
    BY <2>1, EmptyIs
<1>2. PICK ch : ch = RemoveEntry(c)
  OBVIOUS
<1>3. IsChange(ch)
  BY <1>2, ColsAreFinite DEF RemoveEntry, IsChange
<1>4. Begin([cache EXCEPT ![c] = Absent], <<c>>, ch) /\ used \subseteq used'
  BY <1>2 DEF DeleteCollection
<1>5. QED
  BY <1>1, <1>3, <1>4, OneFile

LEMMA RenameKeeps ==
  ASSUME FilesTrue, NEW c \in Cols, NEW n \in Names, RenameCollection(c, n)
  PROVE  FilesTrue'
<1>1. PICK t \in Tree : t = cache[c] /\ Sound(t) /\ Nodes(t) \subseteq used
  BY CacheIs
<1>2. PICK u : u = [t EXCEPT !.name = n]
  OBVIOUS
<1>3. u \in Tree /\ u.kids = t.kids /\ u.ver = t.ver
  BY <1>2, NamesArePositive DEF Tree
<1>4. Sound(u) /\ Nodes(u) = Nodes(t)
  <2>1. \A i \in Items : u.ver[i] # 0 => i \in Nodes(t)
    BY <1>1, <1>3 DEF Sound
  <2>2. QED
    BY <1>1, <1>3, <2>1, SameShape
<1>5. PICK ch : ch = NoChange /\ IsChange(ch)
  <2>1. IsChange(NoChange)
    BY DEF NoChange, IsChange
  <2>2. QED
    BY <2>1
<1>6. [cache EXCEPT ![c].name = n] = [cache EXCEPT ![c] = u]
  BY <1>1, <1>2
<1>7. Begin([cache EXCEPT ![c] = u], <<c>>, ch) /\ used' = used
  BY <1>5, <1>6 DEF RenameCollection
<1>8. \A d \in Cols : d # c => Nodes(u) \cap Nodes(cache[d]) = {}
  BY <1>1, <1>4, CacheIs DEF Apart
<1>9. QED
  BY <1>1, <1>4, <1>5, <1>7, <1>8, OneFile

LEMMA AddKeeps ==
  ASSUME FilesTrue, NEW c \in Cols, NEW p \in Parents, NEW i \in Items, AddItem(c, p, i)
  PROVE  FilesTrue'
<1>1. PICK t \in Tree : t = cache[c] /\ Sound(t) /\ Nodes(t) \subseteq used
  BY CacheIs
<1>2. i \notin used /\ used' = used \cup {i} /\ (p = Top \/ p \in Nodes(t))
  BY <1>1 DEF AddItem, New
<1>3. Subtree(t, i) = {i} /\ i \notin Nodes(t)
  BY <1>1, <1>2, UnderNothing
<1>4. p \notin Subtree(t, i) /\ Subtree(t, i) \cap Nodes(t) = {}
  BY <1>2, <1>3, IdsAreUnique
<1>5. PICK new : new = Inserted(t, t, i, p, AtEnd)
  OBVIOUS
<1>6. Sound(new) /\ Nodes(new) = Nodes(t) \cup {i}
  <2>1. Grown(Inserted(t, t, i, p, AtEnd), t, t, i)
    BY <1>1, <1>2, <1>4, InsertedIs
  <2>2. QED
    BY <1>3, <1>5, <2>1 DEF Grown
<1>7. PICK u : u = [t EXCEPT !.kids[p] = Append(@, i)]
  OBVIOUS
<1>8. u = new
  <2>1. PICK s \in Seq(Items) : s = t.kids[p]
    BY <1>1, TreeHas
  <2>2. Append(s, i) \in Seq(Items) /\ Placed(s, i, AtEnd) = Append(s, i)
    <3>1. ~ (AtEnd \in 0 .. Len(s))
      BY LenProperties DEF AtEnd
    <3>2. QED
      BY <3>1, AppendProperties DEF Placed
  <2>3. u.name = t.name /\ u.ver = t.ver /\ u.kids = [t.kids EXCEPT ![p] = Append(s, i)]
    BY <1>7, <2>1 DEF Tree
  <2>4. t.kids \in [Parents -> Seq(Items)]
    BY DEF Tree
  <2>5. u \in Tree
    <3>1. [t.kids EXCEPT ![p] = Append(s, i)] \in [Parents -> Seq(Items)]
      BY <2>2, <2>4
    <3>2. u \in [name : Nat, kids : [Parents -> Seq(Items)], ver : [Items -> Nat]]
      BY <1>7, <2>1, <3>1 DEF Tree
    <3>3. QED
      BY <3>2 DEF Tree
  <2>6. /\ new \in Tree /\ new.name = t.name
        /\ \A q \in Parents : new.kids[q] =
              IF q = p THEN Placed(t.kids[p], i, AtEnd)
              ELSE IF q \in Subtree(t, i) THEN t.kids[q] ELSE t.kids[q]
        /\ \A j \in Items : new.ver[j] = IF j \in Subtree(t, i) THEN t.ver[j] ELSE t.ver[j]
    <3>1. new \in Tree /\ new.name = t.name
      BY <1>4, <1>5, InsertedHas
    <3>2. \A q \in Parents : new.kids[q] =
              IF q = p THEN Placed(t.kids[p], i, AtEnd)
              ELSE IF q \in Subtree(t, i) THEN t.kids[q] ELSE t.kids[q]
      BY <1>4, <1>5, InsertedHas
    <3>3. \A j \in Items : new.ver[j] = IF j \in Subtree(t, i) THEN t.ver[j] ELSE t.ver[j]
      BY <1>4, <1>5, InsertedHas
    <3>4. QED
      BY <3>1, <3>2, <3>3
  <2>7. \A q \in Parents : u.kids[q] = new.kids[q]
    BY <2>1, <2>2, <2>3, <2>4, <2>6
  <2>8. \A j \in Items : u.ver[j] = new.ver[j]
    BY <2>3, <2>6
  <2>9. u.name = new.name /\ u \in Tree /\ new \in Tree
    BY <2>3, <2>5, <2>6
  <2>10. QED
    BY <2>7, <2>8, <2>9, SameTree
<1>9. PICK ch : ch = IF c = Root /\ p = Top THEN AppendEntry(i) ELSE NoChange
  OBVIOUS
<1>10. IsChange(ch)
  BY <1>9, ColsAreFinite DEF AppendEntry, NoChange, IsChange
<1>11. [cache EXCEPT ![c].kids[p] = Append(@, i)] = [cache EXCEPT ![c] = u]
  BY <1>1, <1>7
<1>12. Begin([cache EXCEPT ![c] = u], <<c>>, ch)
  BY <1>9, <1>11 DEF AddItem
<1>13. \A d \in Cols : d # c => Nodes(u) \cap Nodes(cache[d]) = {}
  <2>1. \A d \in Cols : d # c => Nodes(t) \cap Nodes(cache[d]) = {} /\ i \notin Nodes(cache[d])
    BY <1>1, <1>2, CacheIs DEF Apart
  <2>2. QED
    BY <1>6, <1>8, <2>1
<1>14. Nodes(u) \subseteq used' /\ used \subseteq used' /\ Sound(u)
  BY <1>1, <1>2, <1>6, <1>8
<1>15. QED
  BY <1>10, <1>12, <1>13, <1>14, OneFile

LEMMA RenameItemKeeps ==
  ASSUME FilesTrue, NEW c \in Cols, NEW i \in Items, RenameItem(c, i)
  PROVE  FilesTrue'
<1>1. PICK t \in Tree : t = cache[c] /\ Sound(t) /\ Nodes(t) \subseteq used
  BY CacheIs
<1>2. i \in Nodes(t)
  BY <1>1 DEF RenameItem
<1>3. PICK u : u = [t EXCEPT !.ver[i] = @ + 1]
  OBVIOUS
<1>4. t.ver \in [Items -> Nat]
  BY DEF Tree
<1>5. u.kids = t.kids /\ u.ver = [t.ver EXCEPT ![i] = @ + 1]
  BY <1>3 DEF Tree
<1>6. u \in Tree
  <2>1. [t.ver EXCEPT ![i] = @ + 1] \in [Items -> Nat]
    BY <1>4
  <2>2. u \in [name : Nat, kids : [Parents -> Seq(Items)], ver : [Items -> Nat]]
    BY <1>3, <2>1 DEF Tree
  <2>3. QED
    BY <2>2 DEF Tree
<1>7. Sound(u) /\ Nodes(u) = Nodes(t)
  <2>1. \A j \in Items : j # i => u.ver[j] = t.ver[j]
    BY <1>4, <1>5
  <2>2. \A j \in Items : u.ver[j] # 0 => j \in Nodes(t)
    BY <1>1, <1>2, <2>1 DEF Sound
  <2>3. QED
    BY <1>1, <1>5, <1>6, <2>2, SameShape
<1>8. PICK ch : ch = NoChange /\ IsChange(ch)
  <2>1. IsChange(NoChange)
    BY DEF NoChange, IsChange
  <2>2. QED
    BY <2>1
<1>9. [cache EXCEPT ![c].ver[i] = @ + 1] = [cache EXCEPT ![c] = u]
  BY <1>1, <1>3
<1>10. Begin([cache EXCEPT ![c] = u], <<c>>, ch) /\ used' = used
  BY <1>8, <1>9 DEF RenameItem
<1>11. \A d \in Cols : d # c => Nodes(u) \cap Nodes(cache[d]) = {}
  BY <1>1, <1>7, CacheIs DEF Apart
<1>12. QED
  BY <1>1, <1>7, <1>8, <1>10, <1>11, OneFile

LEMMA DeleteItemKeeps ==
  ASSUME FilesTrue, NEW c \in Cols, NEW i \in Items, DeleteItem(c, i)
  PROVE  FilesTrue'
<1>1. PICK t \in Tree : t = cache[c] /\ Sound(t) /\ Nodes(t) \subseteq used
  BY CacheIs
<1>2. PICK u : u = Pruned(t, {i})
  OBVIOUS
<1>3. Sound(u) /\ Nodes(u) \subseteq Nodes(t)
  <2>1. PICK one \in SUBSET Items : one = {i}
    OBVIOUS
  <2>2. Sound(Pruned(t, one)) /\ Nodes(Pruned(t, one)) = Nodes(t) \ Within(t, one, {})
    BY <1>1, PrunedIs
  <2>3. QED
    BY <1>2, <2>1, <2>2
<1>4. PICK ch : ch = IF c = Root THEN RemoveEntry(i) ELSE NoChange
  OBVIOUS
<1>5. IsChange(ch)
  BY <1>4, ColsAreFinite DEF RemoveEntry, NoChange, IsChange
<1>6. Begin([cache EXCEPT ![c] = u], <<c>>, ch) /\ used' = used
  <2>1. [cache EXCEPT ![c] = Pruned(@, {i})] = [cache EXCEPT ![c] = u]
    BY <1>1, <1>2
  <2>2. QED
    BY <1>4, <2>1 DEF DeleteItem
<1>7. \A d \in Cols : d # c => Nodes(u) \cap Nodes(cache[d]) = {}
  BY <1>1, <1>3, CacheIs DEF Apart
<1>8. QED
  BY <1>1, <1>3, <1>5, <1>6, <1>7, OneFile

\* A move between collections or inside one.
LEMMA MoveBetweenKeeps ==
  ASSUME FilesTrue, NEW src \in Cols, NEW dst \in Cols, NEW i, NEW p \in Parents, NEW pos, NEW ch,
         i \in Nodes(cache[src]), p = Top \/ (p \in Nodes(cache[dst]) /\ p \notin Subtree(cache[src], i)),
         IsChange(ch), MoveBetween(src, i, dst, p, pos, ch)
  PROVE  FilesTrue'
<1>1. PICK s \in Tree : s = cache[src] /\ Sound(s) /\ Nodes(s) \subseteq used
  BY CacheIs
<1>2. PICK t \in Tree : t = cache[dst] /\ Sound(t) /\ Nodes(t) \subseteq used
  BY CacheIs
<1>3. i \in Nodes(s) /\ i \in Items /\ used' = used /\ used \subseteq used'
  BY <1>1, NodesAre DEF MoveBetween
<1>4. PICK sub \in SUBSET Items : sub = Subtree(s, i) /\ i \in sub /\ sub \subseteq Nodes(s)
  <2>1. PICK one \in SUBSET Items : one = {i}
    BY <1>3
  <2>2. /\ one \subseteq Within(s, one, {}) /\ Within(s, one, {}) \subseteq Items
        /\ Within(s, one, {}) \subseteq one \cup Nodes(s)
    BY <1>1, UnderIs
  <2>3. QED
    BY <1>3, <2>1, <2>2 DEF Subtree
<1>5. PICK rest : rest = Pruned(s, {i})
  OBVIOUS
<1>6. Sound(rest) /\ Nodes(rest) = Nodes(s) \ sub
  <2>1. PICK one \in SUBSET Items : one = {i}
    BY <1>3
  <2>2. Sound(Pruned(s, one)) /\ Nodes(Pruned(s, one)) = Nodes(s) \ Within(s, one, {})
    BY <1>1, PrunedIs
  <2>3. QED
    BY <1>4, <1>5, <2>1, <2>2 DEF Subtree
<1>7. CASE src = dst
  <2>1. PICK u : u = Inserted(rest, s, i, p, pos)
    OBVIOUS
  <2>2. Subtree(s, i) \cap Nodes(rest) = {} /\ (p = Top \/ p \in Nodes(rest))
    BY <1>1, <1>2, <1>4, <1>6, <1>7
  <2>3. Sound(u) /\ Nodes(u) = Nodes(rest) \cup sub
    <3>1. Sound(rest) /\ Sound(s) /\ i \in Items
      BY <1>1, <1>3, <1>6
    <3>2. Grown(Inserted(rest, s, i, p, pos), rest, s, i)
      BY <2>2, <3>1, InsertedIs
    <3>3. QED
      BY <1>4, <2>1, <3>2 DEF Grown
  <2>4. Nodes(u) = Nodes(s)
    BY <1>4, <1>6, <2>3
  <2>5. [cache EXCEPT ![src] = Inserted(Pruned(@, {i}), @, i, p, pos)] = [cache EXCEPT ![src] = u]
    BY <1>1, <1>5, <2>1
  <2>6. Begin([cache EXCEPT ![src] = u], <<src>>, ch)
    BY <1>7, <2>5 DEF MoveBetween
  <2>7. \A d \in Cols : d # src => Nodes(u) \cap Nodes(cache[d]) = {}
    BY <1>1, <2>4, CacheIs DEF Apart
  <2>8. QED
    BY <1>1, <1>3, <2>3, <2>4, <2>6, <2>7, OneFile
<1>8. CASE src # dst
  <2>1. Nodes(s) \cap Nodes(t) = {}
    BY <1>1, <1>2, <1>8, CacheIs DEF Apart
  <2>2. PICK u : u = Inserted(t, s, i, p, pos)
    OBVIOUS
  <2>3. Subtree(s, i) \cap Nodes(t) = {} /\ (p = Top \/ p \in Nodes(t))
    BY <1>2, <1>4, <2>1
  <2>4. /\ Sound(u) /\ i \in Nodes(u) /\ Nodes(u) = Nodes(t) \cup sub
        /\ Subtree(u, i) = sub /\ Pruned(u, {i}) = t
    <3>1. Sound(t) /\ Sound(s) /\ i \in Items
      BY <1>1, <1>2, <1>3
    <3>2. Grown(Inserted(t, s, i, p, pos), t, s, i)
      BY <2>3, <3>1, InsertedIs
    <3>3. QED
      BY <1>4, <2>2, <3>2 DEF Grown
  <2>5. PICK new : new = [cache EXCEPT ![dst] = u, ![src] = rest]
    OBVIOUS
  <2>6. DOMAIN new = Cols /\ new[dst] = u /\ new[src] = rest /\ \A d \in Cols : d # dst /\ d # src => new[d] = cache[d]
    BY <1>8, <2>5, CacheIs
  <2>7. Trees(new, used')
    <3>1. \A d \in Cols : Sound(new[d]) /\ Nodes(new[d]) \subseteq used'
      <4>1. Nodes(u) \subseteq used' /\ Nodes(rest) \subseteq used'
        BY <1>1, <1>2, <1>3, <1>4, <1>6, <2>4
      <4>2. \A d \in Cols : Sound(cache[d]) /\ Nodes(cache[d]) \subseteq used'
        BY <1>3, CacheIs
      <4>3. QED
        BY <1>6, <2>4, <2>6, <4>1, <4>2
    <3>2. \A d \in Cols : new[d] \in Tree
      BY <3>1 DEF Sound
    <3>3. new = [d \in Cols |-> new[d]]
      BY <2>5, CacheIs
    <3>4. QED
      BY <3>1, <3>2, <3>3 DEF Trees
  <2>8. Apart(new)
    <3>1. \A c, d \in Cols : c # d => Nodes(cache[c]) \cap Nodes(cache[d]) = {}
      BY CacheIs DEF Apart
    <3>2. Nodes(u) \cap Nodes(rest) = {}
      BY <1>6, <2>1, <2>4
    <3>3. \A d \in Cols : d # src /\ d # dst => Nodes(u) \cap Nodes(cache[d]) = {}
      BY <1>1, <1>2, <1>4, <2>4, <3>1
    <3>4. \A d \in Cols : d # src /\ d # dst => Nodes(rest) \cap Nodes(cache[d]) = {}
      BY <1>1, <1>6, <3>1
    <3>5. ASSUME NEW c \in Cols, NEW d \in Cols, c # d PROVE Nodes(new[c]) \cap Nodes(new[d]) = {}
      <4>1. CASE c = dst /\ d = src
        BY <2>6, <3>2, <4>1
      <4>2. CASE c = src /\ d = dst
        BY <2>6, <3>2, <4>2
      <4>3. CASE c = dst /\ d # src
        BY <2>6, <3>3, <3>5, <4>3
      <4>4. CASE c = src /\ d # dst
        BY <2>6, <3>4, <3>5, <4>4
      <4>5. CASE c # dst /\ c # src /\ d = dst
        BY <2>6, <3>3, <4>5
      <4>6. CASE c # dst /\ c # src /\ d = src
        BY <2>6, <3>4, <4>6
      <4>7. CASE c # dst /\ c # src /\ d # dst /\ d # src
        BY <2>6, <3>1, <3>5, <4>7
      <4>8. QED
        BY <4>1, <4>2, <4>3, <4>4, <4>5, <4>6, <4>7
    <3>6. QED
      BY <3>5 DEF Apart
  <2>9. PICK cols : cols = <<dst, src>>
    OBVIOUS
  <2>10. /\ cols \in Seq(Cols) /\ Len(cols) = 2 /\ cols[1] = dst /\ cols[2] = src
         /\ dst \in ToSet(cols) /\ src \in ToSet(cols)
    <3>1. cols \in Seq(Cols) /\ Len(cols) = 2 /\ cols[1] = dst /\ cols[2] = src
      BY <2>9
    <3>2. 1 \in DOMAIN cols /\ 2 \in DOMAIN cols
      BY <2>9
    <3>3. QED
      BY <3>1, <3>2 DEF ToSet
  <2>11. Begin(new, cols, ch)
    <3>1. [cache EXCEPT ![dst] = Inserted(@, cache[src], i, p, pos), ![src] = Pruned(@, {i})] = new
      <4>1. cache[dst] = t /\ cache[src] = s /\ Inserted(t, s, i, p, pos) = u /\ Pruned(s, {i}) = rest
        BY <1>1, <1>2, <1>5, <2>2
      <4>2. QED
        BY <1>8, <2>5, <4>1, CacheIs
    <3>2. QED
      BY <1>8, <2>9, <3>1 DEF MoveBetween
  <2>12. Carried(i, dst, src)'
    <3>1. next' = new /\ cache' = cache
      BY <2>11 DEF Begin, files
    <3>2. QED
      BY <1>1, <1>2, <1>3, <1>4, <1>5, <2>4, <2>6, <3>1 DEF Carried
  <2>13. \A c \in Cols : c \notin ToSet(cols) => new[c] = cache[c]
    BY <2>6, <2>10
  <2>14. Len(cols) <= 2 /\ cols[1] # cols[2] /\ \E j \in Items : Carried(j, cols[1], cols[2])'
    <3>1. Carried(i, cols[1], cols[2])'
      BY <2>10, <2>12
    <3>2. QED
      BY <1>3, <1>8, <2>10, <3>1
  <2>15. QED
    BY <1>3, <2>7, <2>8, <2>10, <2>11, <2>13, <2>14, BeginKeeps, Zenon
<1>9. QED
  BY <1>7, <1>8

LEMMA MoveItemKeeps ==
  ASSUME FilesTrue, NEW src \in Cols, NEW i, NEW dst \in Cols, NEW p \in Parents, NEW pos,
         MoveItem(src, i, dst, p, pos)
  PROVE  FilesTrue'
<1>1. /\ i \in Nodes(cache[src])
      /\ p = Top \/ (p \in Nodes(cache[dst]) /\ p \notin Subtree(cache[src], i))
  BY DEF MoveItem, CanMove
<1>2. PICK ch : ch = NoChange
  OBVIOUS
<1>3. IsChange(ch)
  BY <1>2 DEF NoChange, IsChange
<1>4. PICK k : MoveBetween(src, i, dst, p, k, ch)
  BY <1>2 DEF MoveItem
<1>5. QED
  BY <1>1, <1>3, <1>4, MoveBetweenKeeps

LEMMA MoveOutKeeps ==
  ASSUME FilesTrue, NEW src \in Cols, NEW i, NEW pos, MoveItemToSidebar(src, i, pos)
  PROVE  FilesTrue'
<1>1. i \in Nodes(cache[src]) /\ Root \in Cols /\ Top \in Parents
  BY MaxColIsNat DEF MoveItemToSidebar, CanMove, Cols, Root, Parents
<1>2. i \in Items
  BY <1>1, CacheIs, NodesAre
<1>3. PICK ch : ch = InsertEntry(i, pos)
  OBVIOUS
<1>4. IsChange(ch)
  BY <1>2, <1>3, ColsAreFinite DEF InsertEntry, IsChange
<1>5. MoveBetween(src, i, Root, Top, AtEnd, ch)
  BY <1>3 DEF MoveItemToSidebar
<1>6. QED
  BY <1>1, <1>4, <1>5, MoveBetweenKeeps

\* Whatever the user asks of the service.
LEMMA OperationKeeps ==
  ASSUME FilesTrue, Operation
  PROVE  FilesTrue'
<1>1. ASSUME NEW c \in Cols \ {Root}, NEW n \in Names, CreateCollection(c, n) PROVE FilesTrue'
  BY <1>1, CreateKeeps
<1>2. ASSUME NEW c \in Cols \ {Root}, NEW n \in Names, RenameCollection(c, n) PROVE FilesTrue'
  BY <1>2, RenameKeeps
<1>3. ASSUME NEW c \in Cols \ {Root}, DeleteCollection(c) PROVE FilesTrue'
  BY <1>3, DeleteKeeps
<1>4. ASSUME NEW c \in Cols, NEW i \in Items, NEW p \in Parents, AddItem(c, p, i) PROVE FilesTrue'
  BY <1>4, AddKeeps
<1>5. ASSUME NEW c \in Cols, NEW i \in Items, RenameItem(c, i) PROVE FilesTrue'
  BY <1>5, RenameItemKeeps
<1>6. ASSUME NEW c \in Cols, NEW i \in Items, UpdateRequest(c, i) PROVE FilesTrue'
  BY <1>6, RenameItemKeeps DEF UpdateRequest
<1>7. ASSUME NEW c \in Cols, NEW i \in Items, DeleteItem(c, i) PROVE FilesTrue'
  BY <1>7, DeleteItemKeeps
<1>8. ASSUME NEW src \in Cols, NEW dst \in Cols, NEW i \in Items, NEW p \in Parents, NEW pos,
             MoveItem(src, i, dst, p, pos)
      PROVE  FilesTrue'
  BY <1>8, MoveItemKeeps
<1>9. ASSUME NEW src \in Cols \ {Root}, NEW i \in Items, NEW pos, MoveItemToSidebar(src, i, pos)
      PROVE  FilesTrue'
  BY <1>9, MoveOutKeeps
<1>10. QED
  BY <1>1, <1>2, <1>3, <1>4, <1>5, <1>6, <1>7, <1>8, <1>9, Zenon DEF Operation

-----------------------------------------------------------------------------
(* Files are written and restored.                                         *)

\* No file is written twice.
LEMMA WritesAre ==
  ASSUME WritesTrue
  PROVE  \E n \in 0 .. 2 :
           /\ n = Len(writes) /\ DOMAIN writes = 1 .. n /\ done \in 0 .. n
           /\ \A k \in 1 .. n : writes[k] \in Cols
           /\ \A j, k \in 1 .. n : writes[j] = writes[k] => j = k
           /\ ToSet(writes) = {writes[k] : k \in 1 .. n}
<1>1. PICK n \in Nat : n = Len(writes) /\ DOMAIN writes = 1 .. n /\ \A k \in 1 .. n : writes[k] \in Cols
  BY LenProperties, ElementOfSeq DEF WritesTrue
<1>2. n \in 0 .. 2 /\ done \in 0 .. n
  BY <1>1 DEF WritesTrue
<1>3. ASSUME NEW j \in 1 .. n, NEW k \in 1 .. n, writes[j] = writes[k] PROVE j = k
  <2>1. CASE n = 2
    <3>1. writes[1] # writes[2]
      BY <1>1, <2>1 DEF WritesTrue
    <3>2. (j = 1 \/ j = 2) /\ (k = 1 \/ k = 2)
      BY <2>1
    <3>3. QED
      BY <1>3, <3>1, <3>2
  <2>2. CASE n # 2
    BY <1>2, <2>2
  <2>3. QED
    BY <2>1, <2>2
<1>4. ToSet(writes) = {writes[k] : k \in 1 .. n}
  BY <1>1 DEF ToSet
<1>5. QED
  BY <1>1, <1>2, <1>3, <1>4

\* When an operation has ended nothing is to be written.
LEMMA EndKeeps ==
  ASSUME End, next' = cache'
  PROVE  WritesTrue' /\ IsChange(change')
<1>1. writes' = <<>> /\ done' = 0 /\ undoing' = FALSE /\ change' = NoChange
  BY DEF End
<1>2. IsChange(change')
  BY <1>1 DEF IsChange, NoChange
<1>3. <<>> \in Seq(Cols) /\ Len(<<>>) = 0
  BY EmptySeq
<1>4. WritesTrue'
  <2>1. writes' \in Seq(Cols) /\ Len(writes') = 0
    BY <1>1, <1>3
  <2>2. done' \in 0 .. Len(writes') /\ Len(writes') <= 2 /\ Len(writes') # 2
    BY <1>1, <2>1
  <2>3. undoing' \in BOOLEAN /\ (undoing' => done' # 0)
    BY <1>1
  <2>4. \A c \in Cols : next'[c] = cache'[c]
    OBVIOUS
  <2>5. QED
    BY <2>1, <2>2, <2>3, <2>4 DEF WritesTrue
<1>5. QED
  BY <1>2, <1>4

LEMMA WriteFileKeeps ==
  ASSUME FilesTrue, WriteFile
  PROVE  FilesTrue'
<1>1. /\ ~undoing /\ done < Len(writes)
      /\ disk' = [disk EXCEPT ![writes[done + 1]] = next[writes[done + 1]]] /\ done' = done + 1
      /\ cache' = cache /\ layout' = layout /\ next' = next /\ writes' = writes /\ undoing' = undoing
      /\ change' = change /\ snap' = snap /\ moving' = moving
      /\ used' = used /\ torn' = torn /\ faults' = faults
  BY DEF WriteFile, mover, history
<1>2. PICK n \in 0 .. 2 :
           /\ n = Len(writes) /\ DOMAIN writes = 1 .. n /\ done \in 0 .. n
           /\ \A k \in 1 .. n : writes[k] \in Cols
  BY WritesAre DEF FilesTrue
<1>3. PICK c \in Cols : c = writes[done + 1]
  BY <1>1, <1>2
<1>4. disk' = [disk EXCEPT ![c] = next[c]]
  BY <1>1, <1>3
<1>5. CacheTrue'
  <2>1. Trees(disk, used) /\ Trees(next, used)
    BY DEF FilesTrue, CacheTrue
  <2>2. Trees(disk', used)
    BY <1>4, <2>1 DEF Trees
  <2>3. QED
    BY <1>1, <2>2 DEF FilesTrue, CacheTrue
<1>6. WritesTrue'
  <2>1. done' \in 0 .. Len(writes')
    BY <1>1, <1>2
  <2>2. undoing' \in BOOLEAN /\ (undoing' => done' # 0)
    BY <1>1, <1>2 DEF FilesTrue, WritesTrue
  <2>3. \A i, d, s : Carried(i, d, s) => Carried(i, d, s)'
    BY <1>1 DEF Carried
  <2>4. QED
    BY <1>1, <2>1, <2>2, <2>3 DEF FilesTrue, WritesTrue
<1>7. DiskTrue'
  <2>1. ASSUME ~torn', NEW d \in Cols PROVE disk'[d] = IF Written(d)' THEN next'[d] ELSE cache'[d]
    <3>1. disk[d] = IF Written(d) THEN next[d] ELSE cache[d]
      BY <1>1, <2>1 DEF FilesTrue, DiskTrue
    <3>2. DOMAIN disk = Cols
      BY DEF FilesTrue, CacheTrue, Trees
    <3>3. CASE d = c
      <4>1. Written(d)'
        BY <1>1, <1>2, <1>3, <3>3 DEF Written
      <4>2. QED
        BY <1>1, <1>4, <3>2, <3>3, <4>1
    <3>4. CASE d # c
      <4>1. Written(d)' <=> Written(d)
        <5>1. \A k \in 1 .. done + 1 : k \in 1 .. done \/ k = done + 1
          BY <1>2
        <5>2. \A k \in 1 .. done : k \in 1 .. done + 1
          BY <1>2
        <5>3. QED
          BY <1>1, <1>3, <3>4, <5>1, <5>2 DEF Written
      <4>2. QED
        BY <1>1, <1>4, <3>1, <3>2, <3>4, <4>1
    <3>5. QED
      BY <3>3, <3>4
  <2>2. QED
    BY <2>1 DEF DiskTrue
<1>8. LayoutTrue'
  BY <1>1 DEF FilesTrue, LayoutTrue
<1>9. QED
  BY <1>5, <1>6, <1>7, <1>8 DEF FilesTrue

\* A write fails: there is nothing to undo, or the rollback begins.
LEMMA WriteFailsKeeps ==
  ASSUME FilesTrue, WriteFails
  PROVE  FilesTrue'
<1>1. /\ ~undoing /\ done < Len(writes) /\ faults' = faults + 1
      /\ cache' = cache /\ disk' = disk /\ layout' = layout
      /\ snap' = snap /\ moving' = moving /\ used' = used /\ torn' = torn
  BY DEF WriteFails, Fault, files, mover
<1>2. layout \in Seq(Entries) /\ IsChange(change) /\ (moving => IsSnapshot(snap)) /\ faults \in Nat
  BY DEF FilesTrue, LayoutTrue
<1>3. CASE done = 0
  <2>1. End /\ next' = cache'
    BY <1>1, <1>3 DEF WriteFails
  <2>2. WritesTrue' /\ IsChange(change')
    BY <2>1, EndKeeps
  <2>3. CacheTrue'
    BY <1>1, <2>1 DEF FilesTrue, CacheTrue
  <2>4. DiskTrue'
    <3>1. done' = 0
      BY <2>1 DEF End
    <3>2. \A c \in Cols : ~Written(c)' /\ ~Written(c)
      BY <1>3, <3>1 DEF Written
    <3>3. QED
      BY <1>1, <3>2 DEF FilesTrue, DiskTrue
  <2>5. LayoutTrue'
    BY <1>1, <1>2, <2>2 DEF LayoutTrue
  <2>6. QED
    BY <2>2, <2>3, <2>4, <2>5 DEF FilesTrue
<1>4. CASE done # 0
  <2>1. undoing' = TRUE /\ next' = next /\ writes' = writes /\ done' = done /\ change' = change
    BY <1>4 DEF WriteFails
  <2>2. CacheTrue'
    BY <1>1, <2>1 DEF FilesTrue, CacheTrue
  <2>3. WritesTrue'
    <3>1. \A i, d, s : Carried(i, d, s) => Carried(i, d, s)'
      BY <1>1, <2>1 DEF Carried
    <3>2. QED
      BY <1>1, <1>4, <2>1, <3>1 DEF FilesTrue, WritesTrue
  <2>4. DiskTrue'
    <3>1. \A c \in Cols : Written(c)' <=> Written(c)
      BY <2>1 DEF Written
    <3>2. QED
      BY <1>1, <2>1, <3>1 DEF FilesTrue, DiskTrue
  <2>5. LayoutTrue'
    BY <1>1, <1>2, <2>1 DEF LayoutTrue
  <2>6. QED
    BY <2>2, <2>3, <2>4, <2>5 DEF FilesTrue
<1>5. QED
  BY <1>3, <1>4

\* One file less is to be undone, or all are.
LEMMA UndoStepKeeps ==
  ASSUME FilesTrue, UndoStep, cache' = cache
  PROVE  WritesTrue' /\ IsChange(change') /\ (Trees(next, used) => Trees(next', used)) /\ (Apart(next) => Apart(next'))
<1>1. CASE done = 1
  <2>1. End /\ next' = cache'
    BY <1>1 DEF UndoStep
  <2>2. Trees(next', used) /\ Apart(next')
    BY <2>1 DEF FilesTrue, CacheTrue
  <2>3. QED
    BY <2>1, <2>2, EndKeeps
<1>2. CASE done # 1
  <2>1. /\ undoing /\ done' = done - 1 /\ next' = next /\ writes' = writes /\ undoing' = undoing /\ change' = change
    BY <1>2 DEF UndoStep
  <2>2. done' \in 0 .. Len(writes) /\ done' # 0
    <3>1. PICK n \in 0 .. 2 : n = Len(writes) /\ done \in 0 .. n
      BY WritesAre DEF FilesTrue
    <3>2. done # 0
      BY <2>1 DEF FilesTrue, WritesTrue
    <3>3. QED
      BY <1>2, <2>1, <3>1, <3>2
  <2>3. \A i, d, s : Carried(i, d, s) => Carried(i, d, s)'
    BY <2>1 DEF Carried
  <2>4. WritesTrue'
    BY <2>1, <2>2, <2>3 DEF FilesTrue, WritesTrue
  <2>5. QED
    BY <2>1, <2>4 DEF FilesTrue, LayoutTrue
<1>3. QED
  BY <1>1, <1>2

LEMMA UndoKeeps ==
  ASSUME FilesTrue, Undo
  PROVE  FilesTrue'
<1>1. /\ undoing /\ disk' = [disk EXCEPT ![writes[done]] = cache[writes[done]]]
      /\ cache' = cache /\ layout' = layout /\ snap' = snap /\ moving' = moving
      /\ used' = used /\ torn' = torn /\ faults' = faults
  BY DEF Undo, UndoStep, mover, history
<1>2. WritesTrue' /\ IsChange(change') /\ Trees(next', used) /\ Apart(next')
  BY <1>1, UndoStepKeeps DEF Undo, FilesTrue, CacheTrue
<1>3. PICK n \in 0 .. 2 :
           /\ n = Len(writes) /\ done \in 0 .. n
           /\ \A k \in 1 .. n : writes[k] \in Cols
           /\ \A j, k \in 1 .. n : writes[j] = writes[k] => j = k
  BY WritesAre DEF FilesTrue
<1>4. done \in 1 .. n
  BY <1>1, <1>3 DEF FilesTrue, WritesTrue
<1>5. PICK c \in Cols : c = writes[done]
  BY <1>3, <1>4
<1>6. disk' = [disk EXCEPT ![c] = cache[c]]
  BY <1>1, <1>5
<1>7. CacheTrue'
  <2>1. Trees(disk, used) /\ Trees(cache, used)
    BY DEF FilesTrue, CacheTrue
  <2>2. Trees(disk', used)
    BY <1>6, <2>1 DEF Trees
  <2>3. QED
    BY <1>1, <1>2, <2>2 DEF FilesTrue, CacheTrue
<1>8. \A d \in Cols : Written(d)' <=> Written(d) /\ d # c
  <2>1. CASE done = 1
    <3>1. done' = 0
      BY <2>1 DEF Undo, UndoStep, End
    <3>2. \A d \in Cols : ~Written(d)'
      BY <3>1 DEF Written
    <3>3. \A d \in Cols : Written(d) => d = c
      BY <1>5, <2>1 DEF Written
    <3>4. QED
      BY <3>2, <3>3
  <2>2. CASE done # 1
    <3>1. done' = done - 1 /\ writes' = writes
      BY <2>2 DEF Undo, UndoStep
    <3>2. \A k \in 1 .. done : k \in 1 .. n /\ (k \in 1 .. done - 1 <=> k # done)
      BY <1>4
    <3>3. \A k \in 1 .. done - 1 : k \in 1 .. done
      BY <1>4
    <3>4. \A k \in 1 .. done : writes[k] # c <=> k # done
      BY <1>3, <1>4, <1>5, <3>2
    <3>5. \A d \in Cols : Written(d)' <=> \E k \in 1 .. done - 1 : writes[k] = d
      BY <3>1 DEF Written
    <3>6. QED
      BY <3>2, <3>3, <3>4, <3>5 DEF Written
  <2>3. QED
    BY <2>1, <2>2
<1>9. \A d \in Cols : d # c /\ Written(d)' => next'[d] = next[d]
  <2>1. CASE done = 1
    <3>1. done' = 0
      BY <2>1 DEF Undo, UndoStep, End
    <3>2. \A d \in Cols : ~Written(d)'
      BY <3>1 DEF Written
    <3>3. QED
      BY <3>2
  <2>2. CASE done # 1
    <3>1. next' = next
      BY <2>2 DEF Undo, UndoStep
    <3>2. QED
      BY <3>1
  <2>3. QED
    BY <2>1, <2>2
<1>10. DiskTrue'
  <2>1. ASSUME ~torn', NEW d \in Cols PROVE disk'[d] = IF Written(d)' THEN next'[d] ELSE cache'[d]
    <3>1. disk[d] = IF Written(d) THEN next[d] ELSE cache[d]
      BY <1>1, <2>1 DEF FilesTrue, DiskTrue
    <3>2. DOMAIN disk = Cols
      BY DEF FilesTrue, CacheTrue, Trees
    <3>3. QED
      BY <1>1, <1>6, <1>8, <1>9, <3>1, <3>2
  <2>2. QED
    BY <2>1 DEF DiskTrue
<1>11. LayoutTrue'
  BY <1>1, <1>2 DEF FilesTrue, LayoutTrue
<1>12. QED
  BY <1>2, <1>7, <1>10, <1>11 DEF FilesTrue

LEMMA UndoFailsKeeps ==
  ASSUME FilesTrue, UndoFails
  PROVE  FilesTrue'
<1>1. /\ torn' = TRUE /\ cache' = cache /\ disk' = disk /\ layout' = layout
      /\ snap' = snap /\ moving' = moving /\ used' = used /\ faults' = faults
  BY DEF UndoFails, files, mover
<1>2. WritesTrue' /\ IsChange(change') /\ Trees(next', used) /\ Apart(next')
  BY <1>1, UndoStepKeeps DEF UndoFails, FilesTrue, CacheTrue
<1>3. CacheTrue' /\ DiskTrue'
  BY <1>1, <1>2 DEF FilesTrue, CacheTrue, DiskTrue
<1>4. LayoutTrue'
  BY <1>1, <1>2 DEF FilesTrue, LayoutTrue
<1>5. QED
  BY <1>2, <1>3, <1>4 DEF FilesTrue

\* Everything is written.
LEMMA CommitKeeps ==
  ASSUME FilesTrue, Commit
  PROVE  FilesTrue'
<1>1. /\ cache' = next /\ done = Len(writes) /\ disk' = disk /\ next' = next
      /\ snap' = snap /\ moving' = moving /\ used' = used /\ torn' = torn /\ End
      /\ \/ layout' = Changed(layout, change) /\ faults' = faults
         \/ layout' = layout /\ faults' = faults + 1
  BY DEF Commit, mover, Fault
<1>2. layout \in Seq(Entries) /\ IsChange(change) /\ (moving => IsSnapshot(snap)) /\ faults \in Nat
  BY DEF FilesTrue, LayoutTrue
<1>3. WritesTrue' /\ IsChange(change')
  BY <1>1, EndKeeps
<1>4. CacheTrue'
  BY <1>1 DEF FilesTrue, CacheTrue
<1>5. DiskTrue'
  <2>1. \A c \in Cols : ~Written(c)'
    BY <1>1 DEF End, Written
  <2>2. ASSUME ~torn, NEW c \in Cols PROVE disk[c] = next[c]
    <3>1. disk[c] = IF Written(c) THEN next[c] ELSE cache[c]
      BY <2>2 DEF FilesTrue, DiskTrue
    <3>2. PICK n \in 0 .. 2 : n = Len(writes) /\ ToSet(writes) = {writes[k] : k \in 1 .. n}
      BY WritesAre DEF FilesTrue
    <3>3. ~Written(c) => c \notin ToSet(writes)
      BY <1>1, <3>2 DEF Written
    <3>4. ~Written(c) => next[c] = cache[c]
      BY <3>3 DEF FilesTrue, WritesTrue
    <3>5. QED
      BY <3>1, <3>4
  <2>3. QED
    BY <1>1, <2>1, <2>2 DEF DiskTrue
<1>6. LayoutTrue'
  <2>1. layout' \in Seq(Entries) /\ faults' \in Nat
    BY <1>1, <1>2, ChangedIs
  <2>2. QED
    BY <1>1, <1>2, <1>3, <2>1 DEF LayoutTrue
<1>7. QED
  BY <1>3, <1>4, <1>5, <1>6 DEF FilesTrue

\* What goes on after an operation has begun.
LEMMA GoOnKeeps ==
  ASSUME FilesTrue, FilesGoOn
  PROVE  FilesTrue'
BY WriteFileKeeps, WriteFailsKeeps, UndoKeeps, UndoFailsKeeps, CommitKeeps DEF FilesGoOn

-----------------------------------------------------------------------------
(* The program starts again.                                               *)

\* What is read from the files.
LEMMA LoadedIs ==
  ASSUME NEW cols, NEW ids, Trees(cols, ids), NEW unread,
         NEW loaded, loaded = [c \in Cols |-> IF c \in unread THEN Absent ELSE cols[c]]
  PROVE  Trees(loaded, ids)
<1>1. Sound(Absent) /\ Nodes(Absent) = {} /\ Absent \in Tree
  <2>1. Absent = EmptyTree(0)
    BY DEF Absent, EmptyTree
  <2>2. QED
    BY <2>1, EmptyIs DEF Sound
<1>2. loaded \in [Cols -> Tree]
  BY <1>1 DEF Trees
<1>3. \A c \in Cols : Sound(loaded[c]) /\ Nodes(loaded[c]) \subseteq ids
  BY <1>1 DEF Trees
<1>4. QED
  BY <1>2, <1>3 DEF Trees

\* Whatever the start could not read or save, what it recovers is in one place.
LEMMA StartKeeps ==
  ASSUME FilesTrue, NEW unread, NEW unsaved, NEW keepLayout \in BOOLEAN,
         NEW recovered, Trees(recovered, used), Apart(recovered),
         StartWith(unread, recovered, unsaved, keepLayout)
  PROVE  FilesTrue'
<1>1. /\ cache' = recovered /\ next' = recovered /\ used' = used
      /\ disk' = [c \in Cols |-> IF c \in unread \cup unsaved THEN disk[c] ELSE recovered[c]]
      /\ torn' = (unread # {} \/ unsaved # {}) /\ End /\ moving' = FALSE
      /\ (faults' = faults \/ faults' = faults + 1)
      /\ (layout' = layout \/ layout' \in Reconciled(layout, Snapshot(recovered)))
  BY DEF StartWith, EndMove, Fault
<1>2. Trees(disk, used) /\ layout \in Seq(Entries) /\ faults \in Nat
  BY DEF FilesTrue, CacheTrue, LayoutTrue
<1>3. WritesTrue' /\ IsChange(change')
  BY <1>1, EndKeeps
<1>4. CacheTrue'
  <2>1. disk' \in [Cols -> Tree]
    BY <1>1, <1>2 DEF Trees
  <2>2. \A c \in Cols : Sound(disk'[c]) /\ Nodes(disk'[c]) \subseteq used
    BY <1>1, <1>2 DEF Trees
  <2>3. Trees(disk', used)
    BY <2>1, <2>2 DEF Trees
  <2>4. QED
    BY <1>1, <2>3 DEF CacheTrue
<1>5. DiskTrue'
  BY <1>1 DEF DiskTrue
<1>6. LayoutTrue'
  <2>1. recovered \in [Cols -> Tree] /\ \A c \in Cols : Sound(recovered[c])
    BY DEF Trees
  <2>2. IsSnapshot(Snapshot(recovered))
    BY <2>1, SnapshotIs
  <2>3. layout' \in Seq(Entries)
    BY <1>1, <1>2, <2>2, ReconciledIs
  <2>4. faults' \in Nat
    BY <1>1, <1>2
  <2>5. QED
    BY <1>1, <1>3, <2>3, <2>4 DEF LayoutTrue
<1>7. QED
  BY <1>3, <1>4, <1>5, <1>6 DEF FilesTrue

LEMMA RestartKeeps ==
  ASSUME FilesTrue, Restarts
  PROVE  FilesTrue'
<1>1. PICK unread, unsaved \in SUBSET {c \in Cols : Exists(disk[c])}, keepLayout \in BOOLEAN :
        StartWith(unread, Deduped(Loaded(unread)), unsaved, keepLayout)
  BY DEF Restarts, Restart
<1>2. PICK loaded : loaded = Loaded(unread)
  OBVIOUS
<1>3. Trees(loaded, used)
  <2>1. Trees(disk, used)
    BY DEF FilesTrue, CacheTrue
  <2>2. loaded = [c \in Cols |-> IF c \in unread THEN Absent ELSE disk[c]]
    BY <1>2 DEF Loaded
  <2>3. QED
    BY <2>1, <2>2, LoadedIs
<1>4. PICK recovered : recovered = Deduped(loaded)
  OBVIOUS
<1>5. loaded \in [Cols -> Tree] /\ \A c \in Cols : Sound(loaded[c]) /\ Nodes(loaded[c]) \subseteq used
  BY <1>3 DEF Trees
<1>6. /\ Deduped(loaded) \in [Cols -> Tree] /\ Apart(Deduped(loaded))
      /\ \A c \in Cols : Sound(Deduped(loaded)[c]) /\ Nodes(Deduped(loaded)[c]) \subseteq Nodes(loaded[c])
  BY <1>5, DedupedIs
<1>7. Trees(recovered, used) /\ Apart(recovered)
  <2>1. Apart(recovered)
    BY <1>4, <1>6
  <2>2. recovered \in [Cols -> Tree]
    BY <1>4, <1>6
  <2>3. \A c \in Cols : Sound(recovered[c]) /\ Nodes(recovered[c]) \subseteq used
    BY <1>4, <1>5, <1>6
  <2>4. QED
    BY <2>1, <2>2, <2>3 DEF Trees
<1>8. StartWith(unread, recovered, unsaved, keepLayout)
  BY <1>1, <1>2, <1>4
<1>9. QED
  BY <1>7, <1>8, StartKeeps

-----------------------------------------------------------------------------
(* Entries of the layout move.                                             *)

LEMMA SnapshotKeeps ==
  ASSUME FilesTrue, TakeSnapshot
  PROVE  FilesTrue'
<1>1. /\ snap' = Snapshot(cache) /\ moving' = TRUE
      /\ cache' = cache /\ disk' = disk /\ layout' = layout /\ next' = next /\ writes' = writes
      /\ done' = done /\ undoing' = undoing /\ change' = change
      /\ used' = used /\ torn' = torn /\ faults' = faults
  BY DEF TakeSnapshot, files, op, history
<1>2. IsSnapshot(Snapshot(cache))
  BY CacheIs, SnapshotIs
<1>3. CacheTrue'
  BY <1>1 DEF FilesTrue, CacheTrue
<1>4. WritesTrue'
  BY <1>1 DEF FilesTrue, WritesTrue, Carried
<1>5. DiskTrue'
  BY <1>1 DEF FilesTrue, DiskTrue, Written
<1>6. LayoutTrue'
  BY <1>1, <1>2 DEF FilesTrue, LayoutTrue
<1>7. QED
  BY <1>3, <1>4, <1>5, <1>6 DEF FilesTrue

\* The layout alone changes, and the move has ended.
LEMMA LayoutKeeps ==
  ASSUME FilesTrue, layout' \in Seq(Entries), moving' = FALSE, UNCHANGED <<files, op, history>>
  PROVE  FilesTrue'
<1>1. /\ cache' = cache /\ disk' = disk /\ next' = next /\ writes' = writes
      /\ done' = done /\ undoing' = undoing /\ change' = change
      /\ used' = used /\ torn' = torn /\ faults' = faults
  BY DEF files, op, history
<1>2. CacheTrue'
  BY <1>1 DEF FilesTrue, CacheTrue
<1>3. WritesTrue'
  BY <1>1 DEF FilesTrue, WritesTrue, Carried
<1>4. DiskTrue'
  BY <1>1 DEF FilesTrue, DiskTrue, Written
<1>5. LayoutTrue'
  BY <1>1 DEF FilesTrue, LayoutTrue
<1>6. QED
  BY <1>2, <1>3, <1>4, <1>5 DEF FilesTrue

LEMMA MoveEntryKeeps ==
  ASSUME FilesTrue, NEW e, NEW pos, MoveSidebarEntry(e, pos)
  PROVE  FilesTrue'
<1>1. moving /\ e \in Valid(snap) /\ moving' = FALSE /\ UNCHANGED <<files, op, history>>
  BY DEF MoveSidebarEntry, EndMove
<1>2. IsSnapshot(snap) /\ layout \in Seq(Entries)
  BY <1>1 DEF FilesTrue, LayoutTrue
<1>3. PICK view \in Reconciled(layout, snap) : layout' = Moved(view, e, pos)
  BY DEF MoveSidebarEntry
<1>4. view \in Seq(Entries) /\ e \in ToSet(view)
  BY <1>1, <1>2, <1>3, ReconciledIs
<1>5. layout' \in Seq(Entries)
  BY <1>3, <1>4, MovedIs
<1>6. QED
  BY <1>1, <1>5, LayoutKeeps

LEMMA MoveFailsKeeps ==
  ASSUME FilesTrue, MoveSidebarFails
  PROVE  FilesTrue'
<1>1. layout' = layout /\ moving' = FALSE /\ UNCHANGED <<files, op, history>>
  BY DEF MoveSidebarFails, EndMove
<1>2. layout' \in Seq(Entries)
  BY <1>1 DEF FilesTrue, LayoutTrue
<1>3. QED
  BY <1>1, <1>2, LayoutKeeps

LEMMA ReorderKeeps ==
  ASSUME FilesTrue, Reorder
  PROVE  FilesTrue'
BY SnapshotKeeps, MoveEntryKeeps, MoveFailsKeeps DEF Reorder

-----------------------------------------------------------------------------
(* The panel.                                                              *)

\* Nothing happens in the service.
LEMMA VarsKeep ==
  ASSUME FilesTrue, UNCHANGED <<files, layout, op, mover, used, torn>>, faults' \in Nat
  PROVE  FilesTrue'
<1>1. /\ cache' = cache /\ disk' = disk /\ layout' = layout /\ next' = next /\ writes' = writes
      /\ done' = done /\ undoing' = undoing /\ change' = change
      /\ snap' = snap /\ moving' = moving /\ used' = used /\ torn' = torn
  BY DEF files, op, mover
<1>2. CacheTrue'
  BY <1>1 DEF FilesTrue, CacheTrue
<1>3. WritesTrue'
  BY <1>1 DEF FilesTrue, WritesTrue, Carried
<1>4. DiskTrue'
  BY <1>1 DEF FilesTrue, DiskTrue, Written
<1>5. LayoutTrue'
  BY <1>1 DEF FilesTrue, LayoutTrue
<1>6. QED
  BY <1>2, <1>3, <1>4, <1>5 DEF FilesTrue

LEMMA RootIs ==
  Root \in Cols /\ Top \in Parents
BY MaxColIsNat DEF Cols, Root, Parents

\* The rows that are shown.
LEMMA RowsAre ==
  ASSUME NEW row \in RowsShown
  PROVE  RowTrue(row)
<1>1. CASE row \in {RowAt(e, e, Top) : e \in {c \in Cols \ {Root} : Exists(trees[c]) /\ InSidebar(c)}}
  <2>1. PICK e \in Cols : row = RowAt(e, e, Top)
    BY <1>1
  <2>2. QED
    BY <2>1, RootIs DEF RowAt, RowTrue
<1>2. CASE row \in UNION {{RowAt(i, l[1], l[2]) : i \in ToSet(trees[l[1]].kids[l[2]])} : l \in Lists}
  <2>1. PICK l \in Lists : row \in {RowAt(i, l[1], l[2]) : i \in ToSet(trees[l[1]].kids[l[2]])}
    BY <1>2
  <2>2. PICK i : row = RowAt(i, l[1], l[2])
    BY <2>1
  <2>3. l[1] \in Cols /\ l[2] \in Parents
    BY DEF Lists
  <2>4. QED
    BY <2>2, <2>3 DEF RowAt, RowTrue
<1>3. QED
  BY <1>1, <1>2 DEF RowsShown

\* What a drop calls.
LEMMA PlacesAre ==
  ASSUME NEW row, RowTrue(row), NEW place, place \in Under(row)
  PROVE  CallTrue(place.call)
<1>1. CASE place \in Edges(row)
  <2>1. PICK k : place.call = OnEdge(row, k)
    BY <1>1 DEF Edges
  <2>2. QED
    BY <2>1, RootIs DEF OnEdge, Call, RowTrue, CallTrue
<1>2. CASE place \in Headers(row)
  <2>1. PICK c \in Cols : place.call = OnHeader(row, c)
    BY <1>2 DEF Headers
  <2>2. QED
    BY <2>1, RootIs DEF OnHeader, Call, RowTrue, CallTrue
<1>3. ASSUME NEW l \in Lists, place \in GapsOf(row, l) PROVE CallTrue(place.call)
  <2>1. PICK k : place.call = OnGap(row, l, k)
    BY <1>3 DEF GapsOf
  <2>2. l[1] \in Cols /\ l[2] \in Parents
    BY DEF Lists
  <2>3. QED
    BY <2>1, <2>2 DEF OnGap, Call, RowTrue, CallTrue
<1>4. ASSUME NEW u \in RowsShown, place \in HalvesOf(row, u) PROVE CallTrue(place.call)
  <2>1. PICK h \in {0, 1} : place.call = OnRow(row, u, h)
    BY <1>4 DEF HalvesOf
  <2>2. RowTrue(u)
    BY RowsAre
  <2>3. QED
    BY <2>1, <2>2 DEF OnRow, Call, RowTrue, CallTrue
<1>5. ASSUME place \in Gaps(row) PROVE \E l \in Lists : place \in GapsOf(row, l)
  BY <1>5, Zenon DEF Gaps
<1>6. ASSUME place \in Halves(row) PROVE \E u \in RowsShown : place \in HalvesOf(row, u)
  BY <1>6, Zenon DEF Halves
<1>7. place \in Edges(row) \/ place \in Headers(row) \/ place \in Gaps(row) \/ place \in Halves(row)
  BY DEF Under
<1>8. QED
  BY <1>1, <1>2, <1>3, <1>4, <1>5, <1>6, <1>7

\* A call comes last in the queue.
LEMMA QueueGrows ==
  ASSUME NEW s, s \in Seq(ToSet(s)), NEW x
  PROVE  /\ Append(s, x) \in Seq(ToSet(Append(s, x))) /\ Append(s, x) # <<>>
         /\ ToSet(Append(s, x)) = ToSet(s) \cup {x}
         /\ s # <<>> => Append(s, x)[1] = s[1]
<1>1. PICK A : A = ToSet(s) \cup {x}
  OBVIOUS
<1>2. s \in Seq(A) /\ x \in A
  <2>1. ToSet(s) \subseteq A /\ x \in A
    BY <1>1
  <2>2. QED
    BY <2>1
<1>3. ToSet(Append(s, x)) = ToSet(s) \cup {x}
  BY <1>2, MoreAtEnd
<1>4. Append(s, x) \in Seq(A) /\ Append(s, x) # <<>>
  BY <1>2, AppendProperties
<1>5. ASSUME s # <<>> PROVE Append(s, x)[1] = s[1]
  <2>1. Len(s) \in Nat \ {0}
    BY <1>2, <1>5, EmptySeq
  <2>2. 1 \in 1 .. Len(s)
    BY <2>1
  <2>3. QED
    BY <1>2, <2>2, AppendProperties
<1>6. QED
  BY <1>1, <1>3, <1>4, <1>5

\* The first is done.
LEMMA QueueShrinks ==
  ASSUME NEW s, s \in Seq(ToSet(s)), s # <<>>
  PROVE  Tail(s) \in Seq(ToSet(Tail(s))) /\ ToSet(Tail(s)) \subseteq ToSet(s) /\ s[1] \in ToSet(s) /\ Head(s) = s[1]
<1>1. PICK n \in Nat : n = Len(s) /\ DOMAIN s = 1 .. n /\ n # 0
  BY LenProperties, EmptySeq
<1>2. Tail(s) \in Seq(ToSet(s)) /\ Len(Tail(s)) = n - 1 /\ \A i \in 1 .. n - 1 : Tail(s)[i] = s[i + 1]
  BY <1>1, HeadTailProperties
<1>3. DOMAIN Tail(s) = 1 .. n - 1
  BY <1>2, LenProperties
<1>4. \A i \in 1 .. n - 1 : Tail(s)[i] \in ToSet(Tail(s))
  BY <1>3 DEF ToSet
<1>5. Tail(s) \in Seq(ToSet(Tail(s)))
  <2>1. Tail(s) \in [1 .. n - 1 -> ToSet(Tail(s))]
    BY <1>2, <1>3, <1>4, LenProperties
  <2>2. n - 1 \in Nat
    BY <1>1
  <2>3. QED
    BY <2>1, <2>2, SeqDef
<1>6. ToSet(Tail(s)) \subseteq ToSet(s)
  <2>1. \A i \in 1 .. n - 1 : i + 1 \in 1 .. n
    BY <1>1
  <2>2. \A i \in 1 .. n - 1 : Tail(s)[i] \in ToSet(s)
    BY <1>1, <1>2, <2>1 DEF ToSet
  <2>3. QED
    BY <1>3, <2>2 DEF ToSet
<1>7. 1 \in DOMAIN s /\ Head(s) = s[1]
  BY <1>1
<1>8. QED
  BY <1>5, <1>6, <1>7 DEF ToSet

LEMMA TaskEnds ==
  ASSUME QueueTrue, queue # <<>>, EndTask, UNCHANGED Mouse
  PROVE  QueueTrue'
<1>1. queue' = Tail(queue) /\ step' = "idle" /\ pressed' = pressed /\ drag' = drag
  BY DEF EndTask, Mouse
<1>2. PICK s : s = queue /\ s \in Seq(ToSet(s)) /\ s # <<>> /\ \A q \in ToSet(s) : CallTrue(q.call)
  BY DEF QueueTrue
<1>3. Tail(s) \in Seq(ToSet(Tail(s))) /\ ToSet(Tail(s)) \subseteq ToSet(s)
  BY <1>2, QueueShrinks
<1>4. queue' \in Seq(ToSet(queue')) /\ \A q \in ToSet(queue') : CallTrue(q.call)
  BY <1>1, <1>2, <1>3
<1>5. QED
  BY <1>1, <1>4 DEF QueueTrue

\* What is shown is not looked at.
LEMMA ShownSame ==
  ASSUME ShownTrue, part' = part, step' = step, trees' = trees, entries' = entries,
         cache' = cache, layout' = layout, writes' = writes, faults' = faults,
         step # "idle" => queue'[1] = queue[1]
  PROVE  ShownTrue'
<1>1. CASE step = "idle"
  BY <1>1 DEF ShownTrue
<1>2. CASE step # "idle"
  BY <1>2 DEF ShownTrue, Idle
<1>3. QED
  BY <1>1, <1>2

\* The user does something with the mouse.
LEMMA MouseKeeps ==
  ASSUME Inv, MouseNext, part' = part
  PROVE  Inv'
<1>1. UNCHANGED <<vars, trees, entries, step>>
  BY DEF MouseNext, Press, Click, Activate, Miss, Drop
<1>2. FilesTrue'
  <2>1. UNCHANGED <<files, layout, op, mover, used, torn>> /\ faults' = faults
    BY <1>1 DEF vars, history
  <2>2. faults \in Nat
    BY DEF Inv, FilesTrue, LayoutTrue
  <2>3. QED
    BY <2>1, <2>2, VarsKeep DEF Inv
<1>3. QueueTrue /\ ShownTrue
  BY DEF Inv
<1>4. QueueTrue' /\ (step # "idle" => queue'[1] = queue[1])
  <2>1. ASSUME NEW row \in RowsShown, Press(row) PROVE QueueTrue' /\ queue' = queue
    <3>1. pressed' = row /\ drag' = drag /\ queue' = queue /\ step' = step
      BY <2>1 DEF Press
    <3>2. RowTrue(row)
      BY RowsAre
    <3>3. QED
      BY <1>3, <3>1, <3>2 DEF QueueTrue
  <2>2. ASSUME Click PROVE QueueTrue' /\ queue' = queue
    BY <1>3, <2>2 DEF QueueTrue, Click
  <2>3. ASSUME Activate PROVE QueueTrue' /\ queue' = queue
    <3>1. pressed # NoRow /\ pressed' = NoRow /\ queue' = queue /\ step' = step
      BY <2>3 DEF Activate
    <3>2. drag' = RowAt(pressed.id, pressed.col, pressed.parent) \/ drag' = pressed
      BY <2>3 DEF Activate
    <3>3. RowTrue(pressed)
      BY <1>3, <3>1 DEF QueueTrue
    <3>4. RowTrue(drag')
      BY <3>2, <3>3 DEF RowTrue, RowAt
    <3>5. QED
      BY <1>3, <3>1, <3>4 DEF QueueTrue
  <2>4. ASSUME Miss PROVE QueueTrue' /\ queue' = queue
    BY <1>3, <2>4 DEF QueueTrue, Miss
  <2>5. ASSUME drag # NoRow, NEW place, place \in Under(drag), Drop(place)
        PROVE  QueueTrue' /\ (step # "idle" => queue'[1] = queue[1])
    <3>1. PICK x : queue' = Append(queue, x) /\ x.call = place.call
      BY <2>5 DEF Drop
    <3>2. pressed' = pressed /\ drag' = NoRow /\ step' = step
      BY <2>5 DEF Drop
    <3>3. CallTrue(place.call)
      BY <1>3, <2>5, PlacesAre DEF QueueTrue
    <3>4. PICK s : s = queue /\ s \in Seq(ToSet(s)) /\ \A q \in ToSet(s) : CallTrue(q.call)
      BY <1>3 DEF QueueTrue
    <3>5. /\ Append(s, x) \in Seq(ToSet(Append(s, x))) /\ Append(s, x) # <<>>
          /\ ToSet(Append(s, x)) = ToSet(s) \cup {x}
          /\ s # <<>> => Append(s, x)[1] = s[1]
      BY <3>4, QueueGrows
    <3>6. queue' \in Seq(ToSet(queue')) /\ queue' # <<>> /\ \A q \in ToSet(queue') : CallTrue(q.call)
      BY <3>1, <3>3, <3>4, <3>5
    <3>7. queue # <<>> => queue'[1] = queue[1]
      BY <3>1, <3>4, <3>5
    <3>8. step # "idle" => queue # <<>>
      BY <1>3 DEF QueueTrue
    <3>9. QueueTrue'
      BY <1>3, <3>2, <3>6 DEF QueueTrue
    <3>10. QED
      BY <3>7, <3>8, <3>9
  <2>6. QED
    BY <2>1, <2>2, <2>3, <2>4, <2>5 DEF MouseNext
<1>5. ShownTrue'
  <2>1. step' = step /\ trees' = trees /\ entries' = entries /\ cache' = cache /\ layout' = layout
        /\ writes' = writes /\ faults' = faults
    BY <1>1 DEF vars, files, op, history
  <2>2. QED
    BY <1>3, <1>4, <2>1, ShownSame
<1>6. QED
  BY <1>2, <1>4, <1>5 DEF Inv

\* A call begins.
LEMMA BeginCallKeeps ==
  ASSUME Inv, BeginCall, part' = part
  PROVE  Inv'
<1>1. /\ step = "idle" /\ queue # <<>> /\ Served(Head1) /\ step' = "call"
      /\ trees' = trees /\ entries' = entries /\ queue' = queue /\ pressed' = pressed /\ drag' = drag
  BY DEF BeginCall, Mouse
<1>2. FilesTrue /\ QueueTrue /\ ShownTrue
  BY DEF Inv
<1>3. Head1 = queue[1].call /\ CallTrue(Head1)
  <2>1. PICK s : s = queue /\ s \in Seq(ToSet(s)) /\ s # <<>> /\ \A q \in ToSet(s) : CallTrue(q.call)
    BY <1>1, <1>2 DEF QueueTrue
  <2>2. s[1] \in ToSet(s) /\ Head(s) = s[1]
    BY <2>1, QueueShrinks
  <2>3. QED
    BY <2>1, <2>2 DEF Head1
<1>4. PICK c : c = Head1 /\ CallTrue(c) /\ Served(c)
  BY <1>1, <1>3
<1>5. \/ c.op = "move" /\ MoveItem(c.src, c.id, c.dst, c.parent, c.pos)
      \/ c.op = "out" /\ MoveItemToSidebar(c.src, c.id, c.pos)
      \/ c.op = "reorder" /\ TakeSnapshot
  BY <1>4 DEF Served
<1>6. FilesTrue' /\ cache' = cache /\ layout' = layout /\ faults' = faults /\ (c.op = "reorder" => Idle')
  <2>1. CASE c.op = "move" /\ MoveItem(c.src, c.id, c.dst, c.parent, c.pos)
    <3>1. FilesTrue'
      BY <1>2, <1>4, <2>1, MoveItemKeeps DEF CallTrue
    <3>2. cache' = cache /\ layout' = layout /\ faults' = faults
      BY <2>1 DEF MoveItem, MoveBetween, Begin, files
    <3>3. QED
      BY <2>1, <3>1, <3>2
  <2>2. CASE c.op = "out" /\ MoveItemToSidebar(c.src, c.id, c.pos)
    <3>1. FilesTrue'
      BY <1>2, <1>4, <2>2, MoveOutKeeps DEF CallTrue
    <3>2. cache' = cache /\ layout' = layout /\ faults' = faults
      BY <2>2 DEF MoveItemToSidebar, MoveBetween, Begin, files
    <3>3. QED
      BY <2>2, <3>1, <3>2
  <2>3. CASE c.op = "reorder" /\ TakeSnapshot
    <3>1. FilesTrue'
      BY <1>2, <2>3, SnapshotKeeps
    <3>2. cache' = cache /\ layout' = layout /\ faults' = faults /\ Idle'
      BY <2>3 DEF TakeSnapshot, files, op, history, Idle
    <3>3. QED
      BY <3>1, <3>2
  <2>4. QED
    BY <1>5, <2>1, <2>2, <2>3
<1>7. QueueTrue'
  BY <1>1, <1>2 DEF QueueTrue
<1>8. ShownTrue'
  <2>1. part = "panel" /\ faults = 0 => trees = cache /\ entries \in View(layout, cache)
    BY <1>1, <1>2 DEF ShownTrue
  <2>2. c.op = queue'[1].call.op
    BY <1>1, <1>3, <1>4
  <2>3. QED
    BY <1>1, <1>6, <2>1, <2>2 DEF ShownTrue
<1>9. QED
  BY <1>6, <1>7, <1>8 DEF Inv

LEMMA RefusedKeeps ==
  ASSUME Inv, CallRefused, part' = part
  PROVE  Inv'
<1>1. step = "idle" /\ queue # <<>> /\ EndTask /\ UNCHANGED Mouse /\ UNCHANGED <<vars, trees, entries>>
  BY DEF CallRefused
<1>2. FilesTrue /\ QueueTrue /\ ShownTrue
  BY DEF Inv
<1>3. FilesTrue'
  <2>1. UNCHANGED <<files, layout, op, mover, used, torn>> /\ faults' = faults
    BY <1>1 DEF vars, history
  <2>2. faults \in Nat
    BY <1>2 DEF FilesTrue, LayoutTrue
  <2>3. QED
    BY <1>2, <2>1, <2>2, VarsKeep
<1>4. QueueTrue'
  BY <1>1, <1>2, TaskEnds
<1>5. ShownTrue'
  <2>1. step' = "idle" /\ cache' = cache /\ layout' = layout /\ faults' = faults /\ trees' = trees /\ entries' = entries
    BY <1>1 DEF EndTask, vars, files, history
  <2>2. QED
    BY <1>1, <1>2, <2>1 DEF ShownTrue
<1>6. QED
  BY <1>3, <1>4, <1>5 DEF Inv

\* The files of a call are written or undone.
LEMMA ServiceKeeps ==
  ASSUME Inv, ServiceGoesOn, part' = part
  PROVE  Inv'
<1>1. /\ step = "call" /\ (WriteFile \/ WriteFails \/ Undo \/ UndoFails)
      /\ (IF writes' = <<>> THEN EndTask ELSE UNCHANGED <<queue, step>>)
      /\ trees' = trees /\ entries' = entries /\ UNCHANGED Mouse
  BY DEF ServiceGoesOn
<1>2. FilesTrue /\ QueueTrue /\ ShownTrue
  BY DEF Inv
<1>3. FilesTrue'
  BY <1>1, <1>2, WriteFileKeeps, WriteFailsKeeps, UndoKeeps, UndoFailsKeeps
<1>4. queue # <<>>
  BY <1>1, <1>2 DEF QueueTrue
<1>5. QueueTrue'
  <2>1. CASE writes' = <<>>
    BY <1>1, <1>2, <1>4, <2>1, TaskEnds
  <2>2. CASE writes' # <<>>
    <3>1. queue' = queue /\ step' = step /\ pressed' = pressed /\ drag' = drag
      BY <1>1, <2>2 DEF Mouse
    <3>2. QED
      BY <1>2, <3>1 DEF QueueTrue
  <2>3. QED
    BY <2>1, <2>2
<1>6. ~Idle
  <2>1. Idle => done = 0 /\ ~undoing /\ Len(writes) = 0
    BY <1>2, IdleIs, EmptySeq DEF Idle
  <2>2. done < Len(writes) \/ undoing
    BY <1>1 DEF WriteFile, WriteFails, Undo, UndoFails, UndoStep
  <2>3. QED
    BY <2>1, <2>2
<1>7. cache' = cache /\ layout' = layout
  BY <1>1 DEF WriteFile, WriteFails, Undo, UndoFails, files
<1>8. faults' = faults \/ faults' = faults + 1
  BY <1>1 DEF WriteFile, WriteFails, Undo, UndoFails, Fault, history
<1>9. faults \in Nat
  BY <1>2 DEF FilesTrue, LayoutTrue
<1>10. ShownTrue'
  <2>1. SUFFICES ASSUME part = "panel", faults' = 0 PROVE ShownTrue'
    BY DEF ShownTrue
  <2>2. faults = 0
    BY <1>8, <1>9, <2>1
  <2>3. trees = cache /\ entries \in View(layout, cache) /\ queue[1].call.op # "reorder"
    BY <1>1, <1>2, <1>6, <2>1, <2>2 DEF ShownTrue
  <2>4. step' = "idle" \/ (step' = "call" /\ queue' = queue)
    BY <1>1 DEF EndTask
  <2>5. QED
    BY <1>1, <1>7, <2>3, <2>4 DEF ShownTrue
<1>11. QED
  BY <1>3, <1>5, <1>10 DEF Inv

LEMMA SucceedsKeeps ==
  ASSUME Inv, CallSucceeds, part' = part
  PROVE  Inv'
<1>1. /\ step = "call" /\ (Commit \/ MoveSidebarEntry(Head1.id, Head1.pos)) /\ step' = "read"
      /\ trees' = trees /\ entries' = entries /\ queue' = queue /\ pressed' = pressed /\ drag' = drag
  BY DEF CallSucceeds, Mouse
<1>2. FilesTrue /\ QueueTrue /\ ShownTrue
  BY DEF Inv
<1>3. FilesTrue'
  BY <1>1, <1>2, CommitKeeps, MoveEntryKeeps
<1>4. QueueTrue'
  BY <1>1, <1>2 DEF QueueTrue
<1>5. ShownTrue'
  <2>1. SUFFICES ASSUME part = "panel", faults' = 0, queue[1].call.op = "reorder" PROVE trees' = cache'
    BY <1>1 DEF ShownTrue
  <2>2. faults = 0
    <3>1. faults' = faults \/ faults' = faults + 1
      BY <1>1 DEF Commit, MoveSidebarEntry, Fault, history
    <3>2. faults \in Nat
      BY <1>2 DEF FilesTrue, LayoutTrue
    <3>3. QED
      BY <2>1, <3>1, <3>2
  <2>3. trees = cache /\ Idle
    BY <1>1, <1>2, <2>1, <2>2 DEF ShownTrue
  <2>4. ~Commit
    BY <2>3 DEF Commit
  <2>5. cache' = cache
    BY <1>1, <2>4 DEF MoveSidebarEntry, files
  <2>6. QED
    BY <1>1, <2>3, <2>5
<1>6. QED
  BY <1>3, <1>4, <1>5 DEF Inv

LEMMA ReadKeeps ==
  ASSUME Inv, ReadTree, part' = part
  PROVE  Inv'
<1>1. /\ step = "read" /\ entries' \in View(layout, cache) /\ EndTask /\ UNCHANGED vars /\ UNCHANGED Mouse
      /\ trees' = IF Head1.op = "reorder" THEN trees ELSE cache
  BY DEF ReadTree
<1>2. FilesTrue /\ QueueTrue /\ ShownTrue
  BY DEF Inv
<1>3. FilesTrue'
  <2>1. UNCHANGED <<files, layout, op, mover, used, torn>> /\ faults' = faults
    BY <1>1 DEF vars, history
  <2>2. faults \in Nat
    BY <1>2 DEF FilesTrue, LayoutTrue
  <2>3. QED
    BY <1>2, <2>1, <2>2, VarsKeep
<1>4. queue # <<>>
  BY <1>1, <1>2 DEF QueueTrue
<1>5. QueueTrue'
  BY <1>1, <1>2, <1>4, TaskEnds
<1>6. ShownTrue'
  <2>1. Head1 = queue[1].call
    <3>1. PICK s : s = queue /\ s \in Seq(ToSet(s)) /\ s # <<>>
      BY <1>2, <1>4 DEF QueueTrue
    <3>2. Head(s) = s[1]
      BY <3>1, QueueShrinks
    <3>3. QED
      BY <3>1, <3>2 DEF Head1
  <2>2. step' = "idle" /\ cache' = cache /\ layout' = layout /\ faults' = faults
    BY <1>1 DEF EndTask, vars, files, history
  <2>3. part = "panel" /\ faults = 0 => trees' = cache
    BY <1>1, <1>2, <2>1 DEF ShownTrue
  <2>4. QED
    BY <1>1, <2>2, <2>3 DEF ShownTrue
<1>7. QED
  BY <1>3, <1>5, <1>6 DEF Inv

LEMMA ReadFailsKeeps ==
  ASSUME Inv, ReadFails, part' = part
  PROVE  Inv'
<1>1. /\ step = "read" /\ faults' = faults + 1 /\ EndTask
      /\ UNCHANGED <<files, layout, op, mover, used, torn>> /\ UNCHANGED Mouse
  BY DEF ReadFails, Fault
<1>2. FilesTrue /\ QueueTrue /\ ShownTrue /\ faults \in Nat
  BY DEF Inv, FilesTrue, LayoutTrue
<1>3. faults' \in Nat /\ faults' # 0
  BY <1>1, <1>2
<1>4. FilesTrue'
  BY <1>1, <1>2, <1>3, VarsKeep
<1>5. queue # <<>>
  BY <1>1, <1>2 DEF QueueTrue
<1>6. QueueTrue'
  BY <1>1, <1>2, <1>5, TaskEnds
<1>7. ShownTrue'
  BY <1>3 DEF ShownTrue
<1>8. QED
  BY <1>4, <1>6, <1>7 DEF Inv

-----------------------------------------------------------------------------
(* The program begins.                                                     *)

\* The service is idle.
LEMMA IdleStarts ==
  ASSUME Trees(cache, used), Apart(cache), disk = cache, next = cache,
         writes = <<>>, done = 0, undoing = FALSE, change = NoChange, moving = FALSE, faults = 0,
         layout \in Seq(Entries)
  PROVE  FilesTrue
<1>1. CacheTrue
  BY DEF CacheTrue
<1>2. WritesTrue
  <2>1. writes \in Seq(Cols) /\ Len(writes) = 0
    BY EmptySeq
  <2>2. done \in 0 .. Len(writes) /\ Len(writes) <= 2 /\ Len(writes) # 2
    BY <2>1
  <2>3. \A c \in Cols : next[c] = cache[c]
    OBVIOUS
  <2>4. undoing \in BOOLEAN /\ (undoing => done # 0)
    OBVIOUS
  <2>5. QED
    BY <2>1, <2>2, <2>3, <2>4 DEF WritesTrue
<1>3. DiskTrue
  BY DEF DiskTrue
<1>4. LayoutTrue
  BY DEF LayoutTrue, IsChange, NoChange
<1>5. QED
  BY <1>1, <1>2, <1>3, <1>4 DEF FilesTrue

LEMMA RootNameIs ==
  RootName \in Nat
<1>1. Names \subseteq Nat /\ Names # {}
  BY NamesArePositive
<1>2. \E n \in Names : \A m \in Names : n <= m
  <2>1. PICK n \in Names : \A m \in Names : ~ (m < n)
    BY <1>1, LeastOf
  <2>2. \A m \in Names : n <= m
    BY <1>1, <2>1
  <2>3. QED
    BY <2>2
<1>3. QED
  BY <1>1, <1>2 DEF RootName

\* The first start of the program.
LEMMA InitStarts ==
  ASSUME Init
  PROVE  FilesTrue
<1>1. /\ cache = [c \in Cols |-> IF c = Root THEN EmptyTree(RootName) ELSE Absent]
      /\ disk = cache /\ next = cache /\ layout = <<>>
      /\ writes = <<>> /\ done = 0 /\ undoing = FALSE /\ change = NoChange
      /\ moving = FALSE /\ used = {} /\ faults = 0
  BY DEF Init
<1>2. Sound(EmptyTree(RootName)) /\ Nodes(EmptyTree(RootName)) = {}
  BY RootNameIs, EmptyIs
<1>3. Sound(Absent) /\ Nodes(Absent) = {}
  <2>1. Absent = EmptyTree(0)
    BY DEF Absent, EmptyTree
  <2>2. QED
    BY <2>1, EmptyIs
<1>4. Trees(cache, used) /\ Apart(cache)
  <2>1. \A c \in Cols : Sound(cache[c]) /\ Nodes(cache[c]) = {}
    BY <1>1, <1>2, <1>3
  <2>2. \A c \in Cols : cache[c] \in Tree
    BY <2>1 DEF Sound
  <2>3. cache \in [Cols -> Tree]
    BY <1>1, <2>2
  <2>4. QED
    BY <1>1, <2>1, <2>3 DEF Trees, Apart
<1>5. layout \in Seq(Entries)
  BY <1>1, EmptySeq
<1>6. QED
  BY <1>1, <1>4, <1>5, IdleStarts

\* Items are in finitely many places.
LEMMA PlacesAreFinite ==
  ASSUME NEW cols, NEW i
  PROVE  IsFiniteSet(PlacesOf(cols, i))
<1>1. PICK K : K = 1 .. Cardinality(Items)
  OBVIOUS
<1>2. IsFiniteSet(Cols) /\ IsFiniteSet(Parents) /\ IsFiniteSet(K)
  <2>1. IsFiniteSet(Folders)
    BY FoldersAreItems, FS_Subset
  <2>2. IsFiniteSet(Folders \cup {Top})
    BY <2>1, FS_Singleton, FS_Union
  <2>3. Cardinality(Items) \in Nat
    BY FoldersAreItems, FS_CardinalityType
  <2>4. IsFiniteSet(K)
    BY <1>1, <2>3, FS_Interval
  <2>5. QED
    BY <2>2, <2>4, ColsAreFinite DEF Parents
<1>3. PICK P : P = Cols \X (Parents \X K)
  OBVIOUS
<1>4. IsFiniteSet(P)
  <2>1. IsFiniteSet(Parents \X K)
    BY <1>2, FS_Product
  <2>2. QED
    BY <1>2, <1>3, <2>1, FS_Product
<1>5. PICK T : T = Cols \X Parents \X K
  OBVIOUS
<1>6. PICK f : f = [y \in P |-> <<y[1], y[2][1], y[2][2]>>]
  OBVIOUS
<1>7. f \in Surjection(P, T)
  <2>1. \A y \in P : <<y[1], y[2][1], y[2][2]>> \in T
    BY <1>3, <1>5
  <2>2. f \in [P -> T]
    BY <1>6, <2>1
  <2>3. ASSUME NEW w \in T PROVE \E y \in P : f[y] = w
    <3>1. w = <<w[1], w[2], w[3]>> /\ w[1] \in Cols /\ w[2] \in Parents /\ w[3] \in K
      BY <1>5
    <3>2. PICK y : y = <<w[1], <<w[2], w[3]>>>>
      OBVIOUS
    <3>3. y \in P /\ y[1] = w[1] /\ y[2][1] = w[2] /\ y[2][2] = w[3]
      BY <1>3, <3>1, <3>2
    <3>4. QED
      BY <1>6, <3>1, <3>3
  <2>4. QED
    BY <2>2, <2>3 DEF Surjection
<1>8. IsFiniteSet(T)
  BY <1>4, <1>7, FS_Surjection
<1>9. PlacesOf(cols, i) \in SUBSET T
  BY <1>1, <1>5 DEF PlacesOf
<1>10. QED
  BY <1>8, <1>9, FS_Subset

\* An item that is in one place has one parent.
LEMMA OnePlace ==
  ASSUME NEW cols, \A c \in Cols, p \in Parents : cols[c].kids[p] \in Seq(Items) /\ Len(cols[c].kids[p]) <= Cardinality(Items),
         NEW i \in Items, Cardinality(PlacesOf(cols, i)) = 1,
         NEW c \in Cols, NEW p \in Parents, i \in Kids(cols[c], p),
         NEW d \in Cols, NEW q \in Parents, i \in Kids(cols[d], q)
  PROVE  c = d /\ p = q
<1>1. PICK w : PlacesOf(cols, i) = {w}
  BY PlacesAreFinite, FS_Singleton
<1>2. ASSUME NEW e \in Cols, NEW r \in Parents, i \in Kids(cols[e], r)
      PROVE  \E k : <<e, r, k>> = w
  <2>1. PICK s \in Seq(Items) : s = cols[e].kids[r] /\ Len(s) <= Cardinality(Items)
    OBVIOUS
  <2>2. PICK n \in Nat : n = Len(s) /\ DOMAIN s = 1 .. n
    BY LenProperties
  <2>3. PICK k \in 1 .. n : s[k] = i
    BY <1>2, <2>1, <2>2 DEF Kids, ToSet
  <2>4. PICK m \in Nat : m = Cardinality(Items)
    BY FoldersAreItems, FS_CardinalityType
  <2>5. k \in 1 .. m /\ k <= n
    BY <2>1, <2>2, <2>4
  <2>6. <<e, r, k>> \in PlacesOf(cols, i)
    BY <2>1, <2>2, <2>3, <2>4, <2>5 DEF PlacesOf
  <2>7. QED
    BY <1>1, <2>6
<1>3. PICK k : <<c, p, k>> = w
  BY <1>2
<1>4. PICK l : <<d, q, l>> = w
  BY <1>2
<1>5. QED
  BY <1>3, <1>4

\* The panel begins with any trees that have everything once.
LEMMA FullTreesAre ==
  ASSUME NEW cols, cols \in FullTrees
  PROVE  Trees(cols, Entries) /\ Apart(cols)
<1>1. PICK kids \in [Cols -> [Parents -> Lines]] :
        cols = [c \in Cols |-> [EmptyTree(RootName) EXCEPT !.kids = kids[c]]]
  BY DEF FullTrees
<1>2. /\ \A i \in Items : Cardinality(PlacesOf(cols, i)) = 1
      /\ \A c \in Cols, f \in Folders : cols[c].kids[f] # <<>> => f \in Nodes(cols[c])
  BY DEF FullTrees
<1>3. PICK m \in Nat : m = Cardinality(Items)
  BY FoldersAreItems, FS_CardinalityType
<1>4. \A s \in Lines : s \in Seq(Items) /\ Distinct(s) /\ Len(s) <= m
  <2>1. SUFFICES ASSUME NEW s \in Lines PROVE s \in Seq(Items) /\ Distinct(s) /\ Len(s) <= m
    OBVIOUS
  <2>2. \E n \in 0 .. m : s \in {x \in [1 .. n -> Items] : IsInjective(x)}
    BY <1>3 DEF Lines
  <2>3. PICK n \in 0 .. m : s \in [1 .. n -> Items] /\ IsInjective(s)
    BY <2>2
  <2>4. s \in Seq(Items) /\ Len(s) = n
    BY <2>3, UpToIsSeq
  <2>5. QED
    BY <2>3, <2>4 DEF IsInjective, Distinct
<1>5. PICK ver : ver = [i \in Items |-> 0]
  OBVIOUS
<1>6. \A c \in Cols : /\ cols[c] = [name |-> RootName, kids |-> kids[c], ver |-> ver]
  BY <1>1, <1>5 DEF EmptyTree
<1>6a. ASSUME NEW c \in Cols PROVE cols[c].kids = kids[c] /\ cols[c].ver = ver
  <2>1. PICK t : t = [name |-> RootName, kids |-> kids[c], ver |-> ver]
    OBVIOUS
  <2>2. t.kids = kids[c] /\ t.ver = ver
    BY <2>1
  <2>3. cols[c] = t
    BY <1>6, <2>1
  <2>4. QED
    BY <2>2, <2>3
<1>7. \A c \in Cols, p \in Parents : cols[c].kids[p] \in Seq(Items) /\ Distinct(cols[c].kids[p]) /\ Len(cols[c].kids[p]) <= m
  <2>1. SUFFICES ASSUME NEW c \in Cols, NEW p \in Parents
                 PROVE  cols[c].kids[p] \in Seq(Items) /\ Distinct(cols[c].kids[p]) /\ Len(cols[c].kids[p]) <= m
    OBVIOUS
  <2>2. cols[c].kids = kids[c]
    BY <1>6a
  <2>3. PICK s \in Lines : s = kids[c][p]
    OBVIOUS
  <2>4. QED
    BY <1>4, <2>2, <2>3
<1>8. \A c \in Cols : cols[c] \in Tree
  <2>1. SUFFICES ASSUME NEW c \in Cols PROVE cols[c] \in Tree
    OBVIOUS
  <2>2. kids[c] \in [Parents -> Seq(Items)]
    BY <1>4
  <2>3. ver \in [Items -> Nat]
    BY <1>5
  <2>4. cols[c] = [name |-> RootName, kids |-> kids[c], ver |-> ver]
    BY <1>6
  <2>5. [name |-> RootName, kids |-> kids[c], ver |-> ver] \in Tree
    BY <2>2, <2>3, RootNameIs DEF Tree
  <2>6. QED
    BY <2>4, <2>5
<1>9. \A c, d \in Cols, p, q \in Parents : \A i \in Items :
         i \in Kids(cols[c], p) /\ i \in Kids(cols[d], q) => c = d /\ p = q
  BY <1>2, <1>3, <1>7, OnePlace
<1>10. \A c \in Cols : Sound(cols[c])
  <2>1. SUFFICES ASSUME NEW c \in Cols PROVE Sound(cols[c])
    OBVIOUS
  <2>2. \A p \in Parents : Kids(cols[c], p) \subseteq Items
    BY <1>8, TreeHas
  <2>3. \A p, q \in Parents : p # q => Kids(cols[c], p) \cap Kids(cols[c], q) = {}
    BY <1>9, <2>2
  <2>4. \A i \in Items : cols[c].ver[i] = 0
    <3>1. cols[c].ver = ver
      BY <1>6a
    <3>2. QED
      BY <1>5, <3>1
  <2>5. QED
    BY <1>2, <1>7, <1>8, <2>3, <2>4 DEF Sound
<1>11. Trees(cols, Entries)
  <2>1. cols \in [Cols -> Tree]
    BY <1>1, <1>8
  <2>2. \A c \in Cols : Nodes(cols[c]) \subseteq Entries
    BY <1>10, NodesAre, ColsAreFinite
  <2>3. QED
    BY <1>10, <2>1, <2>2 DEF Trees
<1>12. Apart(cols)
  <2>1. SUFFICES ASSUME NEW c \in Cols, NEW d \in Cols, NEW i \in Nodes(cols[c]), i \in Nodes(cols[d]) PROVE c = d
    BY DEF Apart
  <2>2. PICK p \in Parents : i \in Kids(cols[c], p)
    BY <1>10, NodesAre
  <2>3. PICK q \in Parents : i \in Kids(cols[d], q)
    BY <1>10, <2>1, NodesAre
  <2>4. i \in Items
    BY <1>10, NodesAre
  <2>5. QED
    BY <1>9, <2>2, <2>3, <2>4
<1>13. QED
  BY <1>11, <1>12

LEMMA PanelStarts ==
  ASSUME PanelStart
  PROVE  FilesTrue /\ layout \in View(layout, cache)
<1>1. /\ cache \in FullTrees /\ disk = cache /\ next = cache
      /\ layout \in SetToSeqs(Valid(Snapshot(cache)))
      /\ writes = <<>> /\ done = 0 /\ undoing = FALSE /\ change = NoChange
      /\ moving = FALSE /\ used = Entries /\ faults = 0
  BY DEF PanelStart
<1>2. Trees(cache, used) /\ Apart(cache)
  BY <1>1, FullTreesAre
<1>3. PICK sn : sn = Snapshot(cache) /\ IsSnapshot(sn)
  <2>1. IsSnapshot(Snapshot(cache))
    BY <1>2, SnapshotIs DEF Trees
  <2>2. QED
    BY <2>1
<1>4. layout \in Seq(Entries) /\ layout \in Reconciled(layout, sn)
  BY <1>1, <1>3, ShownAsIs
<1>5. FilesTrue
  BY <1>1, <1>2, <1>4, IdleStarts
<1>6. QED
  BY <1>3, <1>4, <1>5 DEF View

LEMMA InvStarts ==
  ASSUME SidebarInit
  PROVE  Inv
<1>1. /\ IF part = "panel" THEN PanelStart ELSE Init
      /\ trees = cache /\ entries = layout
      /\ pressed = NoRow /\ drag = NoRow /\ queue = <<>> /\ step = "idle"
  BY DEF SidebarInit
<1>2. FilesTrue
  BY <1>1, InitStarts, PanelStarts
<1>3. QueueTrue
  <2>1. queue \in Seq(ToSet(queue))
    BY <1>1, EmptySeq
  <2>2. ToSet(queue) = {}
    BY <1>1 DEF ToSet
  <2>3. QED
    BY <1>1, <2>1, <2>2 DEF QueueTrue
<1>4. ShownTrue
  BY <1>1, PanelStarts DEF ShownTrue
<1>5. QED
  BY <1>2, <1>3, <1>4 DEF Inv

-----------------------------------------------------------------------------
(* Every step.                                                             *)

LEMMA PanelKeeps ==
  ASSUME Inv, PanelNext, part' = part
  PROVE  Inv'
BY MouseKeeps, BeginCallKeeps, RefusedKeeps, ServiceKeeps, SucceedsKeeps, ReadKeeps, ReadFailsKeeps
   DEF PanelNext

\* The service without a panel.
LEMMA AloneKeeps ==
  ASSUME Inv, UNCHANGED dragVars, part' = part, part # "panel", Operation \/ FilesGoOn \/ Restarts \/ Reorder
  PROVE  Inv'
<1>1. FilesTrue'
  BY OperationKeeps, GoOnKeeps, RestartKeeps, ReorderKeeps DEF Inv
<1>2. QueueTrue'
  <2>1. queue' = queue /\ step' = step /\ pressed' = pressed /\ drag' = drag
    BY DEF dragVars
  <2>2. QED
    BY <2>1 DEF Inv, QueueTrue
<1>3. ShownTrue'
  BY DEF ShownTrue
<1>4. QED
  BY <1>1, <1>2, <1>3 DEF Inv

LEMMA NextKeeps ==
  ASSUME Inv, [SidebarNext]_sidebarVars
  PROVE  Inv'
<1>1. CASE SidebarNext
  <2>1. part' = part
    BY <1>1 DEF SidebarNext
  <2>2. \/ part = "files" /\ UNCHANGED dragVars /\ (Operation \/ FilesGoOn \/ Restarts)
        \/ part = "overlap" /\ UNCHANGED dragVars /\ (Operation \/ FilesGoOn \/ Reorder)
        \/ part = "panel" /\ PanelNext
    BY <1>1 DEF SidebarNext
  <2>3. QED
    BY <2>1, <2>2, PanelKeeps, AloneKeeps
<1>2. CASE UNCHANGED sidebarVars
  <2>1. FilesTrue /\ QueueTrue /\ ShownTrue /\ faults \in Nat
    BY DEF Inv, FilesTrue, LayoutTrue
  <2>2. UNCHANGED vars /\ UNCHANGED dragVars /\ part' = part
    BY <1>2 DEF sidebarVars
  <2>3. FilesTrue'
    <3>1. UNCHANGED <<files, layout, op, mover, used, torn>> /\ faults' = faults
      BY <2>2 DEF vars, history
    <3>2. QED
      BY <2>1, <3>1, VarsKeep
  <2>4. QueueTrue'
    BY <2>1, <2>2 DEF QueueTrue, dragVars
  <2>5. ShownTrue'
    <3>1. cache' = cache /\ layout' = layout /\ writes' = writes /\ faults' = faults
      BY <2>2 DEF vars, files, op, history
    <3>2. step' = step /\ trees' = trees /\ entries' = entries /\ queue' = queue
      BY <2>2 DEF dragVars
    <3>3. QED
      BY <2>1, <2>2, <3>1, <3>2, ShownSame
  <2>6. QED
    BY <2>3, <2>4, <2>5 DEF Inv
<1>3. QED
  BY <1>1, <1>2

\* In every behaviour, whatever is asked, fails or dies: caches, next caches and
\* files are trees of given-out items, no cache has an item in two collections,
\* the files are the old and the new caches as far as they were written, and
\* the panel shows what the service has while nothing failed.
THEOREM InvHolds == SidebarSpec => []Inv
<1>1. SidebarInit => Inv
  BY InvStarts
<1>2. Inv /\ [SidebarNext]_sidebarVars => Inv'
  BY NextKeeps
<1>3. QED
  BY <1>1, <1>2, PTL DEF SidebarSpec

-----------------------------------------------------------------------------
(* What follows.                                                           *)

\* Two places of an item in the cache are one.
LEMMA NoneTwice ==
  ASSUME Inv
  PROVE  NoDuplicates
<1>1. SUFFICES ASSUME NEW i \in Items PROVE Cardinality(PlacesOf(cache, i)) <= 1
  BY DEF NoDuplicates
<1>2. ASSUME NEW v \in PlacesOf(cache, i), NEW w \in PlacesOf(cache, i) PROVE v = w
  <2>1. PICK c \in Cols, p \in Parents, k \in 1 .. Cardinality(Items) :
             /\ v = <<c, p, k>>
             /\ k <= Len(cache[c].kids[p]) /\ cache[c].kids[p][k] = i
    BY DEF PlacesOf
  <2>2. PICK d \in Cols, q \in Parents, l \in 1 .. Cardinality(Items) :
             /\ w = <<d, q, l>>
             /\ l <= Len(cache[d].kids[q]) /\ cache[d].kids[q][l] = i
    BY DEF PlacesOf
  <2>3. Sound(cache[c]) /\ Sound(cache[d]) /\ Apart(cache)
    BY CacheIs DEF Inv
  <2>4. PICK s \in Seq(Items) : s = cache[c].kids[p] /\ Distinct(s)
    BY <2>3, TreeHas DEF Sound
  <2>5. PICK t \in Seq(Items) : t = cache[d].kids[q]
    BY <2>3, TreeHas DEF Sound
  <2>6. PICK m \in Nat : m = Cardinality(Items)
    BY FoldersAreItems, FS_CardinalityType
  <2>7. k \in 1 .. Len(s) /\ s[k] = i
    BY <2>1, <2>4, <2>6, LenProperties
  <2>8. l \in 1 .. Len(t) /\ t[l] = i
    BY <2>2, <2>5, <2>6, LenProperties
  <2>9. i \in Kids(cache[c], p)
    BY <2>4, <2>7, LenProperties DEF Kids, ToSet
  <2>10. i \in Kids(cache[d], q)
    BY <2>5, <2>8, LenProperties DEF Kids, ToSet
  <2>11. i \in Nodes(cache[c]) /\ i \in Nodes(cache[d])
    BY <2>3, <2>9, <2>10, NodesAre
  <2>12. c = d
    BY <2>3, <2>11 DEF Apart
  <2>13. p = q
    BY <2>3, <2>9, <2>10, <2>12, OneParent
  <2>14. k = l
    BY <2>4, <2>5, <2>7, <2>8, <2>12, <2>13 DEF Distinct
  <2>15. QED
    BY <2>1, <2>2, <2>12, <2>13, <2>14
<1>3. CASE PlacesOf(cache, i) = {}
  BY <1>3, FS_EmptySet
<1>4. CASE PlacesOf(cache, i) # {}
  <2>1. PICK w : PlacesOf(cache, i) = {w}
    BY <1>2, <1>4
  <2>2. Cardinality({w}) = 1
    BY FS_Singleton
  <2>3. QED
    BY <2>1, <2>2
<1>5. QED
  BY <1>3, <1>4

\* A move has written its target, and not yet its source.
LEMMA HalfMoved ==
  ASSUME FilesTrue, ~torn, done # 0, done # Len(writes)
  PROVE  Deduped(disk) \in {cache, next}
<1>1. PICK n \in 0 .. 2 :
           /\ n = Len(writes) /\ done \in 0 .. n
           /\ \A k \in 1 .. n : writes[k] \in Cols
           /\ \A j, k \in 1 .. n : writes[j] = writes[k] => j = k
           /\ ToSet(writes) = {writes[k] : k \in 1 .. n}
  BY WritesAre DEF FilesTrue
<1>2. n = 2 /\ done = 1
  BY <1>1
<1>3. PICK dst \in Cols, src \in Cols : dst = writes[1] /\ src = writes[2] /\ dst # src
  BY <1>1, <1>2
<1>4. PICK i \in Items : Carried(i, dst, src)
  BY <1>1, <1>2, <1>3 DEF FilesTrue, WritesTrue
<1>5. /\ i \in Nodes(cache[src]) /\ next[src] = Pruned(cache[src], {i})
      /\ i \in Nodes(next[dst]) /\ cache[dst] = Pruned(next[dst], {i})
      /\ Subtree(next[dst], i) = Subtree(cache[src], i)
      /\ Nodes(next[dst]) = Nodes(cache[dst]) \cup Subtree(cache[src], i)
  BY <1>4 DEF Carried
<1>6. \A c \in Cols : Written(c) <=> c = dst
  BY <1>2, <1>3 DEF Written
<1>7. /\ cache \in [Cols -> Tree] /\ next \in [Cols -> Tree] /\ disk \in [Cols -> Tree]
      /\ Apart(cache) /\ Apart(next)
      /\ \A c \in Cols : Sound(cache[c]) /\ Sound(disk[c])
  BY DEF FilesTrue, CacheTrue, Trees
<1>8. disk[dst] = next[dst] /\ \A c \in Cols : c # dst => disk[c] = cache[c]
  BY <1>6 DEF FilesTrue, DiskTrue
<1>9. \A c \in Cols : c # dst /\ c # src => next[c] = cache[c]
  <2>1. ToSet(writes) = {dst, src}
    <3>1. \A k \in 1 .. n : k = 1 \/ k = 2
      BY <1>2
    <3>2. 1 \in 1 .. n /\ 2 \in 1 .. n
      BY <1>2
    <3>3. QED
      BY <1>1, <1>3, <3>1, <3>2
  <2>2. QED
    BY <2>1 DEF FilesTrue, WritesTrue
<1>10. Subtree(cache[src], i) \subseteq Nodes(cache[src])
  <2>1. Sound(cache[src]) /\ {i} \in SUBSET Items
    BY <1>7
  <2>2. Within(cache[src], {i}, {}) \subseteq {i} \cup Nodes(cache[src])
    BY <2>1, UnderIs
  <2>3. QED
    BY <1>5, <2>2 DEF Subtree
<1>11. Nodes(disk[dst]) \cap Nodes(disk[src]) = Subtree(cache[src], i)
  <2>1. Nodes(cache[dst]) \cap Nodes(cache[src]) = {}
    BY <1>3, <1>7 DEF Apart
  <2>2. disk[src] = cache[src] /\ disk[dst] = next[dst]
    BY <1>3, <1>8
  <2>3. QED
    BY <1>5, <1>10, <2>1, <2>2
<1>12. ASSUME NEW c \in Cols, NEW d \in Cols, c # d, {c, d} # {dst, src}
       PROVE  Nodes(disk[c]) \cap Nodes(disk[d]) = {}
  <2>1. CASE c # dst /\ d # dst
    BY <1>7, <1>8, <1>12, <2>1 DEF Apart
  <2>2. CASE c = dst
    <3>1. d # dst /\ d # src
      BY <1>12, <2>2
    <3>2. disk[c] = next[c] /\ disk[d] = next[d]
      BY <1>8, <1>9, <2>2, <3>1
    <3>3. QED
      BY <1>7, <1>12, <3>2 DEF Apart
  <2>3. CASE d = dst
    <3>1. c # dst /\ c # src
      BY <1>12, <2>3
    <3>2. disk[c] = next[c] /\ disk[d] = next[d]
      BY <1>8, <1>9, <2>3, <3>1
    <3>3. QED
      BY <1>7, <1>12, <3>2 DEF Apart
  <2>4. QED
    BY <2>1, <2>2, <2>3
<1>13. PICK cols \in [Cols -> Tree] : cols = disk
  BY <1>7
<1>14. \A c \in Cols : Sound(cols[c])
  BY <1>7, <1>13
<1>15. Deduped(cols) \in [Cols -> Tree]
  BY <1>14, DedupedIs
<1>16. CASE dst < src
  <2>1. Clash(cols, dst, src, i)
    <3>1. i \in Nodes(cols[src]) /\ Nodes(cols[dst]) \cap Nodes(cols[src]) = Subtree(cols[src], i)
      BY <1>3, <1>5, <1>8, <1>11, <1>13
    <3>2. \A c, d \in Cols : c # d /\ {c, d} # {dst, src} => Nodes(cols[c]) \cap Nodes(cols[d]) = {}
      BY <1>12, <1>13
    <3>3. QED
      BY <3>1, <3>2, Zenon DEF Clash
  <2>2. Deduped(cols)[src] = Pruned(cols[src], {i}) /\ \A c \in Cols : c # src => Deduped(cols)[c] = cols[c]
    BY <1>14, <1>16, <2>1, DedupedClash
  <2>3. \A c \in Cols : Deduped(cols)[c] = next[c]
    BY <1>3, <1>5, <1>8, <1>9, <1>13, <2>2
  <2>4. Deduped(cols) = next
    BY <1>7, <1>15, <2>3
  <2>5. QED
    BY <1>13, <2>4
<1>17. CASE src < dst
  <2>1. Clash(cols, src, dst, i)
    <3>1. i \in Nodes(cols[dst]) /\ Nodes(cols[src]) \cap Nodes(cols[dst]) = Subtree(cols[dst], i)
      BY <1>3, <1>5, <1>8, <1>11, <1>13
    <3>2. \A c, d \in Cols : c # d /\ {c, d} # {src, dst} => Nodes(cols[c]) \cap Nodes(cols[d]) = {}
      <4>1. {src, dst} = {dst, src}
        OBVIOUS
      <4>2. QED
        BY <1>12, <1>13, <4>1
    <3>3. QED
      BY <3>1, <3>2, Zenon DEF Clash
  <2>2. Deduped(cols)[dst] = Pruned(cols[dst], {i}) /\ \A c \in Cols : c # dst => Deduped(cols)[c] = cols[c]
    BY <1>14, <1>17, <2>1, DedupedClash
  <2>3. \A c \in Cols : Deduped(cols)[c] = cache[c]
    BY <1>3, <1>5, <1>8, <1>13, <2>2
  <2>4. Deduped(cols) = cache
    BY <1>7, <1>15, <2>3
  <2>5. QED
    BY <1>13, <2>4
<1>18. dst < src \/ src < dst
  BY <1>3, MaxColIsNat DEF Cols
<1>19. QED
  BY <1>16, <1>17, <1>18

LEMMA OldOrNew ==
  ASSUME Inv
  PROVE  CrashAtomic
<1>1. SUFFICES ASSUME ~torn PROVE Deduped(disk) \in {cache, next}
  BY DEF CrashAtomic
<1>2. /\ FilesTrue /\ cache \in [Cols -> Tree] /\ next \in [Cols -> Tree] /\ disk \in [Cols -> Tree]
      /\ Apart(cache) /\ Apart(next)
      /\ \A c \in Cols : Sound(cache[c]) /\ Sound(next[c])
  BY DEF Inv, FilesTrue, CacheTrue, Trees
<1>3. CASE done = 0
  <2>1. \A c \in Cols : disk[c] = cache[c]
    BY <1>1, <1>2, <1>3 DEF FilesTrue, DiskTrue, Written
  <2>2. disk = cache
    BY <1>2, <2>1
  <2>3. Deduped(cache) = cache
    BY <1>2, DedupedApart
  <2>4. QED
    BY <2>2, <2>3
<1>4. CASE done = Len(writes)
  <2>1. ASSUME NEW c \in Cols PROVE disk[c] = next[c]
    <3>1. PICK n \in 0 .. 2 : n = Len(writes) /\ ToSet(writes) = {writes[k] : k \in 1 .. n}
      BY <1>2, WritesAre DEF FilesTrue
    <3>2. ~Written(c) => c \notin ToSet(writes)
      BY <1>4, <3>1 DEF Written
    <3>3. ~Written(c) => next[c] = cache[c]
      BY <1>2, <3>2 DEF FilesTrue, WritesTrue
    <3>4. disk[c] = IF Written(c) THEN next[c] ELSE cache[c]
      BY <1>1, <1>2 DEF FilesTrue, DiskTrue
    <3>5. QED
      BY <3>3, <3>4
  <2>2. disk = next
    BY <1>2, <2>1
  <2>3. Deduped(next) = next
    BY <1>2, DedupedApart
  <2>4. QED
    BY <2>2, <2>3
<1>5. CASE done # 0 /\ done # Len(writes)
  BY <1>1, <1>2, <1>5, HalfMoved
<1>6. QED
  BY <1>3, <1>4, <1>5

LEMMA ShownExactly ==
  ASSUME Inv
  PROVE  SidebarExact
<1>1. ASSUME NEW view \in View(layout, cache)
      PROVE  ToSet(view) = Valid(Snapshot(cache)) /\ Len(view) = Cardinality(ToSet(view))
  BY ViewIs, DistinctLength DEF Inv
<1>2. ASSUME part = "panel", queue = <<>>, faults = 0 PROVE trees = cache /\ entries \in View(layout, cache)
  BY <1>2 DEF Inv, QueueTrue, ShownTrue
<1>3. QED
  BY <1>1, <1>2 DEF SidebarExact

\* No item is ever in two places of the cache: not in two collections, below
\* two folders or twice in a list, whatever was moved, what failed, what could
\* not be undone and when the program died.
THEOREM NeverDuplicated == SidebarSpec => []NoDuplicates
BY InvHolds, NoneTwice, PTL

\* Whenever the program dies, its next start finds the collections as they were
\* before the operation in progress or as they are after it, unless a rollback
\* failed: of a move that has written its target alone, the scan for duplicates
\* finishes or takes back the half that is written.
THEOREM AlwaysCrashAtomic == SidebarSpec => []CrashAtomic
BY InvHolds, OldOrNew, PTL

\* Whatever the stored layout lost or kept, the sidebar shows every collection
\* and every item of the root once; and when nothing is under way and nothing
\* failed, the panel shows what the service has.
THEOREM SidebarAlwaysExact == SidebarSpec => []SidebarExact
BY InvHolds, ShownExactly, PTL
=============================================================================
