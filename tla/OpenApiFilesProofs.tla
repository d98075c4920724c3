--------------------------- MODULE OpenApiFilesProofs ---------------------------
(***************************************************************************)
(* OpenApiFiles for any files, texts and number of flows: its inductive    *)
(* invariant, and what the run checks of it on a small instance.           *)
(***************************************************************************)
EXTENDS OpenApiFiles, FiniteSetTheorems, FunctionTheorems, SequenceTheorems, WellFoundedInduction, TLAPS

-----------------------------------------------------------------------------
(* Sequences.                                                              *)

\* A set of numbers has a least one.
LEMMA LeastOf ==
  ASSUME NEW T, T \subseteq Nat, T # {}
  PROVE  \E n \in T : \A m \in T : ~ (m < n)
<1> DEFINE R == {pair \in Nat \X Nat : pair[1] < pair[2]}
<1>1. IsWellFoundedOn(R, Nat)
  BY NatLessThanWellFounded, Zenon DEF OpToRel
<1>2. PICK n \in T : \A m \in T : <<m, n>> \notin R
  <2> HIDE DEF R
  <2>1. QED
    BY <1>1, WFMin
<1>3. \A m \in T : m < n => <<m, n>> \in R
  OBVIOUS
<1>4. QED
  BY <1>2, <1>3

\* What is given for the numbers up to n is a sequence.
LEMMA UpToIsSeq ==
  ASSUME NEW A, NEW n \in Nat, NEW f \in [1 .. n -> A]
  PROVE  f \in Seq(A) /\ Len(f) = n
<1>1. f \in Seq(A)
  BY SeqDef
<1>2. QED
  BY <1>1, LenProperties

\* f is the function that Only defines, up to n.
FilterUpTo(f, seq, S, n) ==
    f = [i \in 0 .. n |->
            IF i = 0 THEN <<>>
            ELSE IF seq[i] \in S THEN Append(f[i - 1], seq[i]) ELSE f[i - 1]]

\* The recursive function that Only is defined by exists.
LEMMA FiltersExists ==
  ASSUME NEW seq, NEW S, NEW n \in Nat
  PROVE  \E f : FilterUpTo(f, seq, S, n)
<1> DEFINE T == {k \in Nat : ~ \E f : FilterUpTo(f, seq, S, k)}
<1>1. SUFFICES ASSUME T # {} PROVE FALSE
  OBVIOUS
<1>2. PICK k \in T : \A m \in T : ~ (m < k)
  BY <1>1, LeastOf
<1>3. CASE k = 0
  <2> DEFINE f == [i \in 0 .. 0 |-> <<>>]
  <2>1. FilterUpTo(f, seq, S, k)
    BY <1>3 DEF FilterUpTo
  <2>2. QED
    BY <2>1
<1>4. CASE k # 0
  <2>1. k \in Nat /\ k - 1 \in Nat /\ k - 1 < k
    BY <1>4
  <2>2. PICK g : FilterUpTo(g, seq, S, k - 1)
    BY <1>2, <2>1
  <2> DEFINE h == [i \in 0 .. k |->
                      IF i = k THEN (IF seq[k] \in S THEN Append(g[k - 1], seq[k]) ELSE g[k - 1])
                      ELSE g[i]]
  <2>3. ASSUME NEW i \in 0 .. k
        PROVE  h[i] = IF i = 0 THEN <<>>
                      ELSE IF seq[i] \in S THEN Append(h[i - 1], seq[i]) ELSE h[i - 1]
    <3>1. CASE i = k
      <4>1. i - 1 \in 0 .. k /\ i - 1 # k
        BY <3>1, <2>1
      <4>2. h[i - 1] = g[i - 1]
        BY <4>1
      <4>3. QED
        BY <3>1, <4>2, <1>4
    <3>2. CASE i # k
      <4>1. h[i] = g[i]
        BY <3>2
      <4>2. i \in 0 .. (k - 1)
        BY <3>2, <2>1
      <4>3. g[i] = IF i = 0 THEN <<>>
                   ELSE IF seq[i] \in S THEN Append(g[i - 1], seq[i]) ELSE g[i - 1]
        BY <4>2, <2>2 DEF FilterUpTo
      <4>4. i # 0 => h[i - 1] = g[i - 1]
        BY <4>2, <2>1
      <4>5. QED
        BY <4>1, <4>3, <4>4
    <3>3. QED
      BY <3>1, <3>2
  <2>4. FilterUpTo(h, seq, S, k)
    BY <2>3 DEF FilterUpTo
  <2>5. QED
    BY <2>4
<1>5. QED
  BY <1>3, <1>4

\* Only unfolds: its last step keeps the last element or leaves it out.
LEMMA OnlyFilters ==
  ASSUME NEW A, NEW seq \in Seq(A), NEW S
  PROVE  \E f : FilterUpTo(f, seq, S, Len(seq)) /\ Only(seq, S) = f[Len(seq)]
<1>1. Len(seq) \in Nat
  OBVIOUS
<1>2. \E f : FilterUpTo(f, seq, S, Len(seq))
  BY <1>1, FiltersExists
<1> DEFINE kept == CHOOSE f : FilterUpTo(f, seq, S, Len(seq))
<1>3. FilterUpTo(kept, seq, S, Len(seq))
  BY <1>2
<1>4. Only(seq, S) = kept[Len(seq)]
  BY DEF Only, FilterUpTo
<1>5. QED
  BY <1>3, <1>4


\* The elements of a sequence that has one more.
LEMMA RangeAppend ==
  ASSUME NEW A, NEW s \in Seq(A), NEW x \in A
  PROVE  Range(Append(s, x)) = Range(s) \cup {x}
<1>1. /\ Append(s, x) = s \o <<x>> /\ <<x>> \in Seq(A)
  BY AppendIsConcat
<1>2. Range(<<x>>) = {x}
  BY DEF Range
<1> DEFINE one == <<x>>
<1>3. Range(s \o one) = Range(s) \cup Range(one)
  <2>1. one \in Seq(A)
    OBVIOUS
  <2> HIDE DEF one
  <2>2. QED
    BY <2>1, RangeConcatenation
<1>4. QED
  BY <1>1, <1>2, <1>3

\* What is kept are the elements that are in S.
LEMMA OnlyIs ==
  ASSUME NEW A, NEW s \in Seq(A), NEW S
  PROVE  Only(s, S) \in Seq(A) /\ Range(Only(s, S)) = Range(s) \cap S
<1>1. PICK n \in Nat : n = Len(s) /\ DOMAIN s = 1 .. n
  BY LenProperties
<1>2. PICK f : FilterUpTo(f, s, S, n) /\ Only(s, S) = f[n]
  BY <1>1, OnlyFilters
<1> DEFINE Upto(k) == {s[i] : i \in 1 .. k}
           Good(k) == f[k] \in Seq(A) /\ Range(f[k]) = Upto(k) \cap S
           T == {k \in 0 .. n : ~Good(k)}
<1>3. Range(s) = Upto(n)
  BY <1>1 DEF Range
<1>4. SUFFICES ASSUME n \in T PROVE FALSE
  <2>1. n \in 0 .. n
    BY <1>1
  <2>2. Good(n) => Only(s, S) \in Seq(A) /\ Range(Only(s, S)) = Range(s) \cap S
    BY <1>2, <1>3
  <2>3. QED
    BY <2>1, <2>2
<1>5. T \subseteq Nat /\ T # {}
  <2>1. T \subseteq 0 .. n
    BY Zenon
  <2> HIDE DEF T
  <2>2. QED
    BY <1>4, <2>1
<1>6. PICK k \in T : \A m \in T : ~ (m < k)
  BY <1>5, LeastOf
<1>7. f[k] = IF k = 0 THEN <<>> ELSE IF s[k] \in S THEN Append(f[k - 1], s[k]) ELSE f[k - 1]
  BY <1>2, <1>6 DEF FilterUpTo
<1>8. CASE k = 0
  <2>1. f[k] = <<>> /\ Upto(k) = {}
    BY <1>7, <1>8
  <2>2. <<>> \in Seq(A) /\ Len(<<>>) = 0 /\ Range(<<>>) = {}
    BY EmptySeq DEF Range
  <2>3. QED
    BY <1>6, <2>1, <2>2
<1>9. CASE k # 0
  <2>1. k \in 1 .. n /\ k - 1 \in 0 .. n /\ k - 1 < k
    BY <1>6, <1>9
  <2>2. Good(k - 1) /\ s[k] \in A
    BY <1>1, <1>6, <2>1, ElementOfSeq
  <2>3. Upto(k) = Upto(k - 1) \cup {s[k]}
    <3>1. \A i \in 1 .. k : i \in 1 .. k - 1 \/ i = k
      BY <2>1
    <3>2. k \in 1 .. k /\ \A i \in 1 .. k - 1 : i \in 1 .. k
      BY <2>1
    <3>3. QED
      BY <3>1, <3>2
  <2>4. CASE s[k] \notin S
    <3>1. f[k] = f[k - 1]
      BY <1>7, <1>9, <2>4
    <3>2. QED
      BY <1>6, <2>2, <2>3, <2>4, <3>1
  <2>5. CASE s[k] \in S
    <3> DEFINE t == f[k - 1]
               x == s[k]
    <3>1. f[k] = Append(t, x)
      BY <1>7, <1>9, <2>5
    <3>2. t \in Seq(A) /\ x \in A /\ Range(t) = Upto(k - 1) \cap S
      BY <2>2
    <3> HIDE DEF t, x
    <3>3. Append(t, x) \in Seq(A) /\ Range(Append(t, x)) = Range(t) \cup {x}
      BY <3>2, RangeAppend, AppendProperties
    <3>4. Upto(k) \cap S = (Upto(k - 1) \cap S) \cup {x}
      BY <2>3, <2>5 DEF x
    <3>5. Good(k)
      BY <3>1, <3>2, <3>3, <3>4
    <3>6. QED
      BY <1>6, <3>5
  <2>6. QED
    BY <2>4, <2>5
<1>10. QED
  BY <1>8, <1>9

\* A sequence with an element taken out.
LEMMA TakenOut ==
  ASSUME NEW A, NEW s \in Seq(A), NEW k \in 1 .. Len(s)
  PROVE  /\ RemoveAt(s, k) \in Seq(A) /\ Len(RemoveAt(s, k)) = Len(s) - 1
         /\ \A i \in 1 .. Len(s) - 1 : RemoveAt(s, k)[i] = IF i < k THEN s[i] ELSE s[i + 1]
<1>1. PICK n \in Nat : n = Len(s)
  BY LenProperties
<1>2. k \in 1 .. n /\ \A i \in 1 .. n : s[i] \in A
  BY <1>1, ElementOfSeq
<1> DEFINE before == SubSeq(s, 1, k - 1)
           after == SubSeq(s, k + 1, n)
<1>3. before \in Seq(A) /\ Len(before) = k - 1 /\ \A i \in 1 .. k - 1 : before[i] = s[i]
  <2>1. 1 \in Int /\ k - 1 \in Int /\ (\A i \in 1 .. k - 1 : s[i] \in A)
    BY <1>2
  <2>2. /\ before \in Seq(A) /\ Len(before) = IF 1 <= k - 1 THEN k - 1 - 1 + 1 ELSE 0
        /\ \A i \in 1 .. k - 1 - 1 + 1 : before[i] = s[1 + i - 1]
    BY <2>1, SubSeqProperties
  <2>3. k - 1 - 1 + 1 = k - 1 /\ (~ (1 <= k - 1) => k - 1 = 0)
    BY <1>2
  <2>4. ASSUME NEW i \in 1 .. k - 1 PROVE before[i] = s[i]
    <3>1. 1 + i - 1 = i
      OBVIOUS
    <3>2. QED
      BY <2>2, <2>3, <3>1, Zenon
  <2>5. QED
    BY <2>2, <2>3, <2>4
<1>4. after \in Seq(A) /\ Len(after) = n - k /\ \A i \in 1 .. n - k : after[i] = s[k + i]
  <2>1. k + 1 \in Int /\ n \in Int /\ (\A i \in k + 1 .. n : s[i] \in A)
    BY <1>2
  <2>2. /\ after \in Seq(A) /\ Len(after) = IF k + 1 <= n THEN n - (k + 1) + 1 ELSE 0
        /\ \A i \in 1 .. n - (k + 1) + 1 : after[i] = s[(k + 1) + i - 1]
    BY <2>1, SubSeqProperties
  <2>3. n - (k + 1) + 1 = n - k /\ (~ (k + 1 <= n) => n - k = 0)
    BY <1>2
  <2>4. ASSUME NEW i \in 1 .. n - k PROVE after[i] = s[k + i]
    <3>1. (k + 1) + i - 1 = k + i
      BY <1>2
    <3>2. QED
      BY <2>2, <2>3, <3>1, Zenon
  <2>5. QED
    BY <2>2, <2>3, <2>4
<1>5. RemoveAt(s, k) = before \o after
  BY <1>1 DEF RemoveAt
<1> HIDE DEF before, after
<1>6. /\ before \o after \in Seq(A) /\ Len(before \o after) = Len(before) + Len(after)
      /\ \A i \in 1 .. Len(before) + Len(after) :
            (before \o after)[i] = IF i <= Len(before) THEN before[i] ELSE after[i - Len(before)]
  BY <1>3, <1>4, ConcatProperties
<1>7. (k - 1) + (n - k) = n - 1
  BY <1>2
<1>8. ASSUME NEW i \in 1 .. n - 1
      PROVE  (before \o after)[i] = IF i < k THEN s[i] ELSE s[i + 1]
  <2>1. (before \o after)[i] = IF i <= k - 1 THEN before[i] ELSE after[i - (k - 1)]
    BY <1>3, <1>4, <1>6, <1>7
  <2>2. CASE i < k
    BY <1>2, <1>3, <2>1, <2>2
  <2>3. CASE ~ (i < k)
    <3>1. i - (k - 1) \in 1 .. n - k /\ k + (i - (k - 1)) = i + 1 /\ ~ (i <= k - 1)
      BY <1>2, <2>3
    <3>2. QED
      BY <1>4, <2>1, <2>3, <3>1
  <2>4. QED
    BY <2>2, <2>3
<1>9. QED
  BY <1>1, <1>3, <1>4, <1>5, <1>6, <1>7, <1>8

\* A sequence with an element put in.
WithIn(t, s, k, x) ==
    t = [i \in 1 .. Len(s) + 1 |-> IF i < k THEN s[i] ELSE IF i = k THEN x ELSE s[i - 1]]

LEMMA PutIn ==
  ASSUME NEW A, NEW s \in Seq(A), NEW k \in 1 .. Len(s) + 1, NEW x \in A
  PROVE  InsertAt(s, k, x) \in Seq(A) /\ WithIn(InsertAt(s, k, x), s, k, x)
<1>1. PICK n \in Nat : n = Len(s)
  BY LenProperties
<1>2. k \in 1 .. n + 1 /\ \A i \in 1 .. n : s[i] \in A
  BY <1>1, ElementOfSeq
<1> DEFINE before == SubSeq(s, 1, k - 1)
           after == SubSeq(s, k, n)
           one == <<x>>
<1>3. before \in Seq(A) /\ Len(before) = k - 1 /\ \A i \in 1 .. k - 1 : before[i] = s[i]
  <2>1. 1 \in Int /\ k - 1 \in Int /\ (\A i \in 1 .. k - 1 : s[i] \in A)
    BY <1>2
  <2>2. /\ before \in Seq(A) /\ Len(before) = IF 1 <= k - 1 THEN k - 1 - 1 + 1 ELSE 0
        /\ \A i \in 1 .. k - 1 - 1 + 1 : before[i] = s[1 + i - 1]
    BY <2>1, SubSeqProperties
  <2>3. k - 1 - 1 + 1 = k - 1 /\ (~ (1 <= k - 1) => k - 1 = 0)
    BY <1>2
  <2>4. ASSUME NEW i \in 1 .. k - 1 PROVE before[i] = s[i]
    <3>1. 1 + i - 1 = i
      OBVIOUS
    <3>2. QED
      BY <2>2, <2>3, <3>1, Zenon
  <2>5. QED
    BY <2>2, <2>3, <2>4
<1>4. after \in Seq(A) /\ Len(after) = n - k + 1 /\ \A i \in 1 .. n - k + 1 : after[i] = s[k + i - 1]
  <2>1. k \in Int /\ n \in Int /\ (\A i \in k .. n : s[i] \in A)
    BY <1>2
  <2>2. /\ after \in Seq(A) /\ Len(after) = IF k <= n THEN n - k + 1 ELSE 0
        /\ \A i \in 1 .. n - k + 1 : after[i] = s[k + i - 1]
    BY <2>1, SubSeqProperties
  <2>3. ~ (k <= n) => n - k + 1 = 0
    BY <1>2
  <2>4. QED
    BY <2>2, <2>3
<1>5. one \in Seq(A) /\ Len(one) = 1 /\ one[1] = x
  OBVIOUS
<1>6. InsertAt(s, k, x) = before \o one \o after
  BY <1>1 DEF InsertAt
<1> HIDE DEF before, after, one
<1>7. PICK left \in Seq(A) : left = before \o one
  BY <1>3, <1>5, ConcatProperties
<1>8. /\ Len(left) = k
      /\ \A i \in 1 .. k : left[i] = IF i <= k - 1 THEN before[i] ELSE one[i - (k - 1)]
  <2>1. /\ Len(left) = Len(before) + Len(one)
        /\ \A i \in 1 .. Len(before) + Len(one) :
              left[i] = IF i <= Len(before) THEN before[i] ELSE one[i - Len(before)]
    BY <1>3, <1>5, <1>7, ConcatProperties
  <2>2. Len(before) = k - 1 /\ Len(one) = 1 /\ (k - 1) + 1 = k
    BY <1>2, <1>3, <1>5
  <2>3. QED
    BY <2>1, <2>2
<1>9. /\ left \o after \in Seq(A) /\ Len(left \o after) = n + 1
      /\ \A i \in 1 .. n + 1 : (left \o after)[i] = IF i <= k THEN left[i] ELSE after[i - k]
  <2>1. /\ left \o after \in Seq(A) /\ Len(left \o after) = Len(left) + Len(after)
        /\ \A i \in 1 .. Len(left) + Len(after) :
              (left \o after)[i] = IF i <= Len(left) THEN left[i] ELSE after[i - Len(left)]
    <3>1. left \in Seq(A) /\ after \in Seq(A)
      BY <1>4, <1>7
    <3>2. QED
      BY <3>1, ConcatProperties
  <2>2. Len(left) = k /\ Len(after) = n - k + 1 /\ k + (n - k + 1) = n + 1
    BY <1>2, <1>4, <1>8
  <2>3. QED
    BY <2>1, <2>2
<1>10. ASSUME NEW i \in 1 .. n + 1
       PROVE  (left \o after)[i] = IF i < k THEN s[i] ELSE IF i = k THEN x ELSE s[i - 1]
  <2>1. CASE i < k
    <3>1. i \in 1 .. k - 1 /\ i \in 1 .. k /\ i <= k /\ i <= k - 1
      BY <1>2, <2>1
    <3>2. left[i] = s[i]
      BY <1>3, <1>8, <3>1
    <3>3. QED
      BY <1>9, <2>1, <3>1, <3>2
  <2>2. CASE i = k
    <3>1. ~ (k <= k - 1) /\ k - (k - 1) = 1 /\ k \in 1 .. k
      BY <1>2
    <3>2. left[k] = one[1]
      BY <1>8, <3>1
    <3>3. QED
      BY <1>5, <1>9, <2>2, <3>2
  <2>3. CASE ~ (i < k) /\ i # k
    <3>1. i - k \in 1 .. n - k + 1 /\ k + (i - k) - 1 = i - 1 /\ ~ (i <= k)
      BY <1>2, <2>3
    <3>2. QED
      BY <1>4, <1>9, <2>3, <3>1
  <2>4. QED
    BY <2>1, <2>2, <2>3
<1>11. PICK t : t = left \o after
  OBVIOUS
<1>12. \A i \in 1 .. n + 1 : t[i] = IF i < k THEN s[i] ELSE IF i = k THEN x ELSE s[i - 1]
  BY <1>10, <1>11
<1>13. InsertAt(s, k, x) = t
  BY <1>6, <1>7, <1>11
<1>14. t \in Seq(A) /\ DOMAIN t = 1 .. n + 1 /\ t = [i \in 1 .. n + 1 |-> t[i]]
  <2>1. t \in Seq(A) /\ Len(t) = n + 1
    BY <1>9, <1>11
  <2>2. QED
    BY <2>1, LenProperties
<1>15. t = [i \in 1 .. n + 1 |-> IF i < k THEN s[i] ELSE IF i = k THEN x ELSE s[i - 1]]
  BY <1>12, <1>14
<1>16. WithIn(t, s, k, x)
  BY <1>1, <1>15 DEF WithIn
<1>17. QED
  BY <1>13, <1>14, <1>16

\* A finite set in a linear order: each element once, the earlier first.
LEMMA RankedIs ==
  ASSUME NEW S, IsFiniteSet(S), NEW R,
         \A x \in S : <<x, x>> \notin R,
         \A x, y, z \in S : <<x, y>> \in R /\ <<y, z>> \in R => <<x, z>> \in R,
         \A x, y \in S : x # y => <<x, y>> \in R \/ <<y, x>> \in R
  PROVE  /\ Ranked(S, R) \in [1 .. Cardinality(S) -> S]
         /\ \A i, j \in 1 .. Cardinality(S) : i < j => <<Ranked(S, R)[i], Ranked(S, R)[j]>> \in R
         /\ \A i, j \in 1 .. Cardinality(S) : Ranked(S, R)[i] = Ranked(S, R)[j] => i = j
<1>1. PICK n \in Nat : n = Cardinality(S)
  BY FS_CardinalityType
<1> DEFINE Before(x) == {y \in S : <<y, x>> \in R}
<1>2. ASSUME NEW x \in S
      PROVE  IsFiniteSet(Before(x)) /\ Cardinality(Before(x)) \in 0 .. n - 1
  <2>1. Before(x) \subseteq S /\ x \notin Before(x)
    OBVIOUS
  <2> HIDE DEF Before
  <2>2. /\ IsFiniteSet(Before(x)) /\ Cardinality(Before(x)) <= Cardinality(S)
        /\ (Cardinality(S) = Cardinality(Before(x)) => S = Before(x))
    BY <2>1, FS_Subset
  <2>3. Cardinality(Before(x)) \in Nat
    BY <2>2, FS_CardinalityType
  <2>4. QED
    BY <1>1, <2>1, <2>2, <2>3
<1>3. ASSUME NEW x \in S, NEW z \in S, <<x, z>> \in R
      PROVE  Cardinality(Before(x)) < Cardinality(Before(z))
  <2>1. Before(x) \subseteq Before(z)
    BY <1>3
  <2>2. x \in Before(z) /\ x \notin Before(x)
    BY <1>3
  <2>3. /\ IsFiniteSet(Before(z)) /\ Cardinality(Before(z)) \in 0 .. n - 1
        /\ Cardinality(Before(x)) \in 0 .. n - 1
    BY <1>2
  <2> HIDE DEF Before
  <2>4. /\ Cardinality(Before(x)) <= Cardinality(Before(z))
        /\ (Cardinality(Before(z)) = Cardinality(Before(x)) => Before(z) = Before(x))
    BY <2>1, <2>3, FS_Subset
  <2>5. QED
    BY <2>2, <2>3, <2>4
<1> DEFINE rank == [x \in S |-> Cardinality(Before(x))]
<1>4. rank \in [S -> 0 .. n - 1]
  BY <1>2
<1>5. \A x, z \in S : x # z => rank[x] # rank[z]
  <2>1. ASSUME NEW x \in S, NEW z \in S, x # z PROVE rank[x] # rank[z]
    <3>1. rank[x] = Cardinality(Before(x)) /\ rank[z] = Cardinality(Before(z))
      OBVIOUS
    <3>2. rank[x] < rank[z] \/ rank[z] < rank[x]
      BY <1>3, <2>1, <3>1
    <3>3. rank[x] \in 0 .. n - 1 /\ rank[z] \in 0 .. n - 1
      BY <1>4
    <3> HIDE DEF rank
    <3>4. QED
      BY <3>2, <3>3
  <2>2. QED
    BY <2>1
<1>6. rank \in Surjection(S, 0 .. n - 1)
  <2> HIDE DEF rank
  <2>1. rank \in Injection(S, 0 .. n - 1)
    BY <1>4, <1>5 DEF Injection, IsInjective
  <2>2. IsFiniteSet(0 .. n - 1) /\ Cardinality(0 .. n - 1) = n
    BY FS_Interval
  <2>3. QED
    BY <1>1, <2>1, <2>2, FS_Injection
<1>7. ASSUME NEW k \in 1 .. n PROVE \E x \in S : Cardinality(Before(x)) = k - 1
  <2>1. k - 1 \in 0 .. n - 1
    OBVIOUS
  <2>2. \E x \in S : rank[x] = k - 1
    BY <1>6, <2>1 DEF Surjection
  <2>3. QED
    BY <2>2
<1> DEFINE at == Ranked(S, R)
<1>8. ASSUME NEW k \in 1 .. n PROVE at[k] \in S /\ Cardinality(Before(at[k])) = k - 1
  <2>1. at[k] = CHOOSE x \in S : Cardinality(Before(x)) = k - 1
    BY <1>1 DEF Ranked
  <2>2. QED
    BY <1>7, <2>1
<1>9. at \in [1 .. n -> S]
  <2>1. at = [k \in 1 .. n |-> CHOOSE x \in S : Cardinality(Before(x)) = k - 1]
    BY <1>1 DEF Ranked
  <2>2. DOMAIN at = 1 .. n /\ at = [k \in 1 .. n |-> at[k]]
    BY <2>1
  <2> HIDE DEF at
  <2>3. QED
    BY <1>8, <2>2
<1> HIDE DEF at, Before, rank
<1>10. \A i, j \in 1 .. n : at[i] = at[j] => i = j
  BY <1>8
<1>11. ASSUME NEW i \in 1 .. n, NEW j \in 1 .. n, i < j PROVE <<at[i], at[j]>> \in R
  <2>1. at[i] \in S /\ at[j] \in S /\ at[i] # at[j]
    BY <1>8, <1>10, <1>11
  <2>2. <<at[j], at[i]>> \in R => j - 1 < i - 1
    BY <1>3, <1>8, <2>1
  <2>3. QED
    BY <1>11, <2>1, <2>2
<1>12. QED
  BY <1>1, <1>9, <1>10, <1>11 DEF at

-----------------------------------------------------------------------------
(* The inductive invariant.                                                *)

\* the texts there are so far
Known == Blank .. typed
Stages == {"begin", "confirm", "text", "picker", "read", "loaded", "opened", "dialog", "write", "writing",
           "listing", "stored", "saved", "remove", "removed", "unlisted", "move", "moved", "reordered",
           "mounted", "listed"}
Operations == {"mount", "open", "select", "save", "new", "drop", "close", "remove", "move"}
AnyFlow ==
    [op : Operations, path : Paths \cup {None}, at : Stages, to : Paths \cup {Untitled, None} \cup Nat,
     text : Nat \cup {None}, choice : {"none", "discard", "save"}, list : Seq(Paths)]
Recent == [path : Paths, at : Nat]

EditorTrue ==
    /\ disk \in [Paths -> Known] /\ doc \in Paths \cup {Untitled, None}
    /\ text \in Known /\ saved \in Known /\ typed \in Given .. MaxText
    /\ timer \in {None, text} /\ (timer = None => preview = text)
    /\ settled \in BOOLEAN /\ lost = FALSE

BackendTrue == recents \in Seq(Recent) /\ clock \in Nat /\ faults \in Nat /\ crossed \in BOOLEAN

\* How far a flow is says what it has to go on with.
FlowTrue(f) ==
    /\ f.text \in Known \cup {None}
    /\ f.at \in {"dialog", "write", "writing", "listing", "stored", "saved"} => f.text # None
    /\ f.at \in {"write", "writing", "listing", "stored", "saved"} => f.to \in Paths
    /\ f.at \in {"read", "loaded", "opened"} \/ f.op = "select" => f.path \in Paths
    /\ f.at = "picker" => f.op = "open"
    /\ f.at \in {"loaded", "opened"} => f.to \in Known
    /\ f.at = "move" => f.to \in Nat
    /\ f.op = "mount" => f.at \in {"mounted", "listed"} /\ f.text = None
FlowsTrue == flows \in Seq(AnyFlow) /\ \A f \in Range(flows) : FlowTrue(f)

\* What is being saved has its permission as long as nothing crossed it.
ListedTrue ==
    ~crossed =>
        /\ Listed(recents) \subseteq granted
        /\ \A f \in Range(flows) : f.at \in {"writing", "listing"} => f.to \in granted

\* The list will be read for the sidebar; it was read and will be shown.
WillList(f) ==
    \/ f.at \in {"mounted", "stored", "loaded", "removed", "moved"}
    \/ f.at = "read" /\ f.op = "open" /\ f.path \in granted
WillShow(f) == f.at \in {"listed", "saved", "opened", "unlisted", "reordered"}

Carries(f) == WillList(f) \/ WillShow(f)

\* What was read last is the list that there is, or another read follows; and
\* it is shown, or will be, unless an older list was shown after it.
ShownTrue ==
    \/ files = latest
    \/ overtaken
    \/ \E f \in Range(flows) : WillShow(f) /\ f.list = latest
FilesTrue ==
    faults = 0 =>
        \/ \E f \in Range(flows) : WillList(f)
        \/ latest = Order(recents) /\ ShownTrue

\* What was typed when nothing was under way, and was not written since, is in
\* no file and counts as unsaved.  As long as the editor holds it each flow
\* that saves is saving it, and one that will replace it may discard it.
SettledTrue ==
    settled =>
        /\ typed > Given /\ saved # typed /\ \A p \in Paths : disk[p] # typed
        /\ \A f \in Range(flows) :
              /\ f.at \in {"loaded", "opened"} => f.to # typed
              /\ f.at \in {"listing", "stored", "saved"} => f.text # typed
              /\ text = typed => f.text \in {None, typed}
              /\ text = typed /\ doc # None /\ f.at \in {"picker", "read", "loaded", "opened"} => f.choice = "discard"

Inv == EditorTrue /\ BackendTrue /\ FlowsTrue /\ ListedTrue /\ FilesTrue /\ SettledTrue
-----------------------------------------------------------------------------
(* Flows that go on.                                                       *)

\* The flows in gone may have ended or become others, those in new are there;
\* a dialog that was open may be answered no more.
Becomes(gone, new) ==
    /\ flows' \in Seq(AnyFlow) /\ new \subseteq Range(flows')
    /\ \A f \in Range(flows') : f \in Range(flows) \/ f \in new
    /\ \A f \in Range(flows) : f \in gone \/ f.at = "confirm" \/ f \in Range(flows')

\* rest are the flows but for some in gone.
Rest(rest, gone) ==
    /\ rest \in Seq(AnyFlow) /\ \A f \in Range(rest) : f \in Range(flows)
    /\ \A f \in Range(flows) : f \in gone \/ f \in Range(rest)

LEMMA FlowIs ==
  ASSUME FlowsTrue, NEW i \in DOMAIN flows
  PROVE  flows[i] \in AnyFlow /\ flows[i] \in Range(flows) /\ FlowTrue(flows[i])
<1>1. flows[i] \in Range(flows)
  BY DEF Range
<1>2. DOMAIN flows = 1 .. Len(flows) /\ flows \in Seq(AnyFlow)
  BY LenProperties DEF FlowsTrue
<1>3. flows[i] \in AnyFlow
  BY <1>2, ElementOfSeq
<1>4. QED
  BY <1>1, <1>3 DEF FlowsTrue

LEMMA AllRest == ASSUME FlowsTrue PROVE Rest(flows, {})
  BY DEF FlowsTrue, Rest

LEMMA OthersRest ==
  ASSUME FlowsTrue, NEW i \in DOMAIN flows
  PROVE  Rest(Others(i), {flows[i]})
<1>1. flows \in Seq(AnyFlow)
  BY DEF FlowsTrue
<1>2. PICK n \in Nat : n = Len(flows) /\ DOMAIN flows = 1 .. n
  BY <1>1, LenProperties
<1>3. i \in 1 .. n
  BY <1>2
<1>4. PICK rest : rest = Others(i)
  OBVIOUS
<1>5. /\ rest \in Seq(AnyFlow) /\ Len(rest) = n - 1
      /\ \A j \in 1 .. n - 1 : rest[j] = IF j < i THEN flows[j] ELSE flows[j + 1]
  <2>1. /\ RemoveAt(flows, i) \in Seq(AnyFlow) /\ Len(RemoveAt(flows, i)) = Len(flows) - 1
        /\ \A j \in 1 .. Len(flows) - 1 :
              RemoveAt(flows, i)[j] = IF j < i THEN flows[j] ELSE flows[j + 1]
    BY <1>1, <1>2, <1>3, TakenOut
  <2>2. QED
    BY <1>2, <1>4, <2>1 DEF Others
<1>6. DOMAIN rest = 1 .. n - 1
  BY <1>5, LenProperties
<1>7. ASSUME NEW j \in 1 .. n - 1 PROVE \E k \in 1 .. n : rest[j] = flows[k]
  <2>1. CASE j < i
    BY <1>2, <1>5, <2>1
  <2>2. CASE ~ (j < i)
    <3>1. j + 1 \in 1 .. n
      BY <1>2
    <3>2. QED
      BY <1>5, <2>2, <3>1
  <2>3. QED
    BY <2>1, <2>2
<1>8. ASSUME NEW k \in 1 .. n, k # i PROVE \E j \in 1 .. n - 1 : rest[j] = flows[k]
  <2>1. CASE k < i
    <3>1. k \in 1 .. n - 1
      BY <1>2, <1>3, <2>1
    <3>2. QED
      BY <1>5, <2>1, <3>1
  <2>2. CASE i < k
    <3>1. k - 1 \in 1 .. n - 1 /\ ~ (k - 1 < i) /\ (k - 1) + 1 = k
      BY <1>2, <1>3, <2>2
    <3>2. rest[k - 1] = flows[(k - 1) + 1]
      BY <1>5, <3>1
    <3>3. QED
      BY <3>1, <3>2
  <2>3. QED
    BY <1>3, <1>8, <2>1, <2>2
<1>9. \A f \in Range(rest) : f \in Range(flows)
  BY <1>2, <1>6, <1>7 DEF Range
<1>10. \A f \in Range(flows) : f \in {flows[i]} \/ f \in Range(rest)
  BY <1>2, <1>6, <1>8 DEF Range
<1>11. QED
  BY <1>4, <1>5, <1>9, <1>10 DEF Rest

LEMMA RestEnds ==
  ASSUME NEW gone, NEW rest, Rest(rest, gone), flows' = rest
  PROVE  Becomes(gone, {})
  BY DEF Rest, Becomes

LEMMA RestGrows ==
  ASSUME NEW gone, NEW rest, Rest(rest, gone), NEW g \in AnyFlow, flows' = Append(rest, g)
  PROVE  Becomes(gone, {g})
<1>1. rest \in Seq(AnyFlow)
  BY DEF Rest
<1>2. Append(rest, g) \in Seq(AnyFlow) /\ Range(Append(rest, g)) = Range(rest) \cup {g}
  BY <1>1, RangeAppend, AppendProperties
<1>3. QED
  BY <1>2 DEF Rest, Becomes

LEMMA StepIs ==
  ASSUME FlowsTrue, NEW i \in DOMAIN flows, NEW g \in AnyFlow, Step(i, g)
  PROVE  Becomes({flows[i]}, {g})
<1>1. flows \in Seq(AnyFlow)
  BY DEF FlowsTrue
<1>2. PICK n \in Nat : n = Len(flows) /\ DOMAIN flows = 1 .. n
  BY <1>1, LenProperties
<1>3. flows \in [1 .. n -> AnyFlow]
  BY <1>1, <1>2, LenProperties
<1>4. flows' = [flows EXCEPT ![i] = g]
  BY DEF Step
<1>5. flows' \in [1 .. n -> AnyFlow]
  BY <1>3, <1>4
<1>6. flows' \in Seq(AnyFlow)
  <2>1. PICK following \in [1 .. n -> AnyFlow] : following = flows'
    BY <1>5
  <2>2. following \in Seq(AnyFlow)
    BY UpToIsSeq
  <2>3. QED
    BY <2>1, <2>2
<1>7. DOMAIN flows' = 1 .. n /\ DOMAIN flows = 1 .. n /\ flows'[i] = g
  BY <1>2, <1>3, <1>4
<1>8. \A j \in 1 .. n : j # i => flows'[j] = flows[j]
  BY <1>3, <1>4
<1>9. QED
  BY <1>2, <1>6, <1>7, <1>8 DEF Becomes, Range

\* A flow at another stage.
LEMMA AtIs ==
  ASSUME NEW f \in AnyFlow, NEW at \in Stages
  PROVE  /\ [f EXCEPT !.at = at] \in AnyFlow /\ [f EXCEPT !.at = at].at = at
         /\ [f EXCEPT !.at = at].op = f.op /\ [f EXCEPT !.at = at].path = f.path
         /\ [f EXCEPT !.at = at].to = f.to /\ [f EXCEPT !.at = at].text = f.text
         /\ [f EXCEPT !.at = at].choice = f.choice
         /\ [f EXCEPT !.at = at].list = f.list
  BY DEF AnyFlow

LEMMA PathIs ==
  ASSUME NEW f \in AnyFlow, NEW p \in Paths
  PROVE  /\ [f EXCEPT !.path = p] \in AnyFlow /\ [f EXCEPT !.path = p].path = p
         /\ [f EXCEPT !.path = p].op = f.op /\ [f EXCEPT !.path = p].at = f.at
         /\ [f EXCEPT !.path = p].to = f.to /\ [f EXCEPT !.path = p].text = f.text
         /\ [f EXCEPT !.path = p].choice = f.choice
         /\ [f EXCEPT !.path = p].list = f.list
  BY DEF AnyFlow

LEMMA ToIs ==
  ASSUME NEW f \in AnyFlow, NEW to \in Paths \cup {Untitled, None} \cup Nat
  PROVE  /\ [f EXCEPT !.to = to] \in AnyFlow /\ [f EXCEPT !.to = to].to = to
         /\ [f EXCEPT !.to = to].op = f.op /\ [f EXCEPT !.to = to].at = f.at
         /\ [f EXCEPT !.to = to].path = f.path /\ [f EXCEPT !.to = to].text = f.text
         /\ [f EXCEPT !.to = to].choice = f.choice
         /\ [f EXCEPT !.to = to].list = f.list
  BY DEF AnyFlow

LEMMA TextIs ==
  ASSUME NEW f \in AnyFlow, NEW t \in Nat \cup {None}
  PROVE  /\ [f EXCEPT !.text = t] \in AnyFlow /\ [f EXCEPT !.text = t].text = t
         /\ [f EXCEPT !.text = t].op = f.op /\ [f EXCEPT !.text = t].at = f.at
         /\ [f EXCEPT !.text = t].path = f.path /\ [f EXCEPT !.text = t].to = f.to
         /\ [f EXCEPT !.text = t].choice = f.choice
         /\ [f EXCEPT !.text = t].list = f.list
  BY DEF AnyFlow

LEMMA ChoiceIs ==
  ASSUME NEW f \in AnyFlow, NEW c \in {"none", "discard", "save"}
  PROVE  /\ [f EXCEPT !.choice = c] \in AnyFlow /\ [f EXCEPT !.choice = c].choice = c
         /\ [f EXCEPT !.choice = c].op = f.op /\ [f EXCEPT !.choice = c].at = f.at
         /\ [f EXCEPT !.choice = c].path = f.path /\ [f EXCEPT !.choice = c].to = f.to
         /\ [f EXCEPT !.choice = c].text = f.text
         /\ [f EXCEPT !.choice = c].list = f.list
  BY DEF AnyFlow

\* confirmUnsaved takes the place of a dialog that is open.
LEMMA AskIs ==
  ASSUME NEW gone, NEW rest, Rest(rest, gone), NEW f \in AnyFlow, Ask(f, rest)
  PROVE  \E g \in AnyFlow : /\ g.at = "confirm" /\ g.op = f.op /\ g.path = f.path
                            /\ g.text = f.text /\ Becomes(gone, {g})
<1> DEFINE open == {h \in Range(rest) : h.at # "confirm"}
<1>1. PICK left : left = Only(rest, open)
  OBVIOUS
<1>2. rest \in Seq(AnyFlow)
  BY DEF Rest
<1>3. left \in Seq(AnyFlow) /\ Range(left) = Range(rest) \cap open
  <2> HIDE DEF open
  <2>1. Only(rest, open) \in Seq(AnyFlow) /\ Range(Only(rest, open)) = Range(rest) \cap open
    BY <1>2, OnlyIs
  <2>2. QED
    BY <1>1, <2>1
<1>4. "confirm" \in Stages
  BY DEF Stages
<1>5. PICK g \in AnyFlow : /\ g = [f EXCEPT !.at = "confirm"] /\ g.at = "confirm" /\ g.op = f.op
                           /\ g.path = f.path /\ g.text = f.text
  BY <1>4, AtIs
<1>6. flows' = Append(left, g)
  BY <1>1, <1>5 DEF Ask
<1>7. Append(left, g) \in Seq(AnyFlow) /\ Range(Append(left, g)) = Range(left) \cup {g}
  BY <1>3, RangeAppend, AppendProperties
<1>8. Becomes(gone, {g})
  BY <1>3, <1>6, <1>7 DEF Rest, Becomes
<1>9. QED
  BY <1>5, <1>8

-----------------------------------------------------------------------------
(* The parts of the invariant that are about flows.                        *)

LEMMA FlowsStay ==
  ASSUME EditorTrue, FlowsTrue, NEW gone, NEW new, Becomes(gone, new),
         typed' \in Nat, typed <= typed', \A f \in new : FlowTrue(f)'
  PROVE  FlowsTrue'
<1>1. \A t \in Known : t \in Known'
  BY DEF EditorTrue, Known, Blank, Given
<1>2. ASSUME NEW f \in Range(flows') PROVE FlowTrue(f)'
  <2>1. CASE f \in new
    BY <2>1
  <2>2. CASE f \in Range(flows)
    <3>1. FlowTrue(f)
      BY <2>2 DEF FlowsTrue
    <3>2. QED
      BY <1>1, <3>1 DEF FlowTrue
  <2>3. QED
    BY <1>2, <2>1, <2>2 DEF Becomes
<1>3. QED
  BY <1>2 DEF FlowsTrue, Becomes

LEMMA ListedStay ==
  ASSUME ListedTrue, NEW gone, NEW new, Becomes(gone, new), UNCHANGED crossed,
         Listed(recents') \subseteq Listed(recents), granted \subseteq granted',
         \A f \in new : f.at \in {"writing", "listing"} => crossed \/ f.to \in granted'
  PROVE  ListedTrue'
<1>1. SUFFICES ASSUME ~crossed' PROVE /\ Listed(recents)' \subseteq granted'
                                      /\ \A f \in Range(flows') : f.at \in {"writing", "listing"} => f.to \in granted'
  BY DEF ListedTrue
<1>2. /\ Listed(recents) \subseteq granted
      /\ \A f \in Range(flows) : f.at \in {"writing", "listing"} => f.to \in granted
  BY <1>1 DEF ListedTrue
<1>3. Listed(recents)' \subseteq granted'
  BY <1>2 DEF Listed
<1>4. QED
  BY <1>1, <1>2, <1>3 DEF Becomes

\* A file that is being saved and loses its permission is what crossed tells of.
LEMMA ListedChanges ==
  ASSUME ListedTrue, crossed \in BOOLEAN, flows \in Seq(AnyFlow), NEW gone, NEW new, Becomes(gone, new), Crossing,
         ~crossed => Listed(recents)' \subseteq granted',
         \A f \in new : f.at \notin {"writing", "listing"}
  PROVE  ListedTrue' /\ crossed' \in BOOLEAN
<1>1. crossed' = (crossed \/ \E j \in DOMAIN flows :
                     flows[j].at \in {"writing", "listing"} /\ flows[j].to \in granted \ granted')
  BY DEF Crossing
<1>2. crossed' \in BOOLEAN
  BY <1>1
<1>3. ASSUME ~crossed' PROVE /\ Listed(recents)' \subseteq granted'
                             /\ \A f \in Range(flows') : f.at \in {"writing", "listing"} => f.to \in granted'
  <2>1. ~crossed /\ \A j \in DOMAIN flows :
            flows[j].at \in {"writing", "listing"} => flows[j].to \notin granted \ granted'
    BY <1>1, <1>3
  <2>2. \A f \in Range(flows) : f.at \in {"writing", "listing"} => f.to \in granted'
    BY <2>1 DEF ListedTrue, Range
  <2>3. QED
    BY <2>1, <2>2 DEF Becomes
<1>4. QED
  BY <1>2, <1>3 DEF ListedTrue

\* A flow that is not among those that are gone still carries the list.
LEMMA StillCarries ==
  ASSUME NEW gone, NEW new, Becomes(gone, new), granted \subseteq granted',
         NEW f \in Range(flows), f \notin gone
  PROVE  /\ WillList(f) => f \in Range(flows') /\ WillList(f)'
         /\ WillShow(f) => f \in Range(flows') /\ WillShow(f)'
<1>1. Carries(f) => f.at # "confirm"
  BY DEF Carries, WillList, WillShow
<1>2. Carries(f) => f \in Range(flows')
  BY <1>1 DEF Becomes
<1>3. (WillList(f) => WillList(f)') /\ (WillShow(f) => WillShow(f)')
  BY DEF WillList, WillShow
<1>4. QED
  BY <1>2, <1>3 DEF Carries

LEMMA FilesStay ==
  ASSUME FilesTrue, NEW gone, NEW new, Becomes(gone, new), UNCHANGED <<sidebarVars, recents>>,
         granted \subseteq granted', faults' = 0 => faults = 0 /\ \A f \in gone : ~Carries(f)
  PROVE  FilesTrue'
<1>1. SUFFICES ASSUME faults' = 0
               PROVE  \/ \E f \in Range(flows') : WillList(f)'
                      \/ latest' = Order(recents)' /\ ShownTrue'
  BY DEF FilesTrue
<1>2. /\ files' = files /\ latest' = latest /\ overtaken' = overtaken
      /\ Order(recents)' = Order(recents)
  BY DEF sidebarVars, Order
<1>3. \A f \in gone : ~WillList(f) /\ ~WillShow(f)
  BY <1>1 DEF Carries
<1>4. ASSUME NEW f \in Range(flows), WillList(f)
      PROVE  \E g \in Range(flows') : WillList(g)'
  BY <1>3, <1>4, StillCarries
<1>5. ASSUME ShownTrue PROVE ShownTrue'
  <2>1. ASSUME NEW f \in Range(flows), WillShow(f), f.list = latest PROVE ShownTrue'
    <3>1. f \in Range(flows') /\ WillShow(f)' /\ f.list = latest'
      BY <1>2, <1>3, <2>1, StillCarries
    <3>2. QED
      BY <3>1 DEF ShownTrue
  <2>2. CASE files = latest \/ overtaken
    BY <1>2, <2>2 DEF ShownTrue
  <2>3. QED
    BY <1>5, <2>1, <2>2 DEF ShownTrue
<1>6. QED
  BY <1>1, <1>2, <1>4, <1>5 DEF FilesTrue

\* A list that was read is shown.
Shown(gone) ==
    \E f \in gone : /\ gone = {f} /\ WillShow(f)
                    /\ files' = f.list /\ overtaken' = (f.list # latest) /\ latest' = latest

LEMMA FilesShown ==
  ASSUME FilesTrue, NEW gone, NEW new, Becomes(gone, new), Shown(gone), UNCHANGED <<recents, faults>>,
         granted \subseteq granted'
  PROVE  FilesTrue'
<1>1. PICK f \in gone : /\ gone = {f} /\ WillShow(f)
                        /\ files' = f.list /\ overtaken' = (f.list # latest) /\ latest' = latest
  BY DEF Shown
<1>2. ASSUME NEW g \in Range(flows), WillList(g)
      PROVE  \E h \in Range(flows') : WillList(h)'
  <2>1. g # f
    BY <1>1, <1>2 DEF WillList, WillShow
  <2>2. QED
    BY <1>1, <1>2, <2>1, StillCarries
<1>3. ShownTrue'
  <2>1. CASE f.list = latest
    BY <1>1, <2>1 DEF ShownTrue
  <2>2. CASE f.list # latest
    <3>1. overtaken'
      BY <1>1, <2>2
    <3>2. QED
      BY <3>1 DEF ShownTrue
  <2>3. QED
    BY <2>1, <2>2
<1>4. latest' = latest /\ Order(recents)' = Order(recents)
  BY <1>1 DEF Order
<1>5. QED
  BY <1>2, <1>3, <1>4 DEF FilesTrue

\* A list is read.
LEMMA FilesRead ==
  ASSUME NEW gone, NEW g, Becomes(gone, {g}), WillShow(g), UNCHANGED recents,
         latest' = Order(recents), g.list = latest'
  PROVE  FilesTrue'
<1>1. g \in Range(flows') /\ WillShow(g)'
  BY DEF Becomes, WillShow
<1>2. ShownTrue'
  BY <1>1 DEF ShownTrue
<1>3. latest' = Order(recents)'
  BY DEF Order
<1>4. QED
  BY <1>2, <1>3 DEF FilesTrue

LEMMA FilesPending ==
  ASSUME NEW gone, NEW g, Becomes(gone, {g}), WillList(g)'
  PROVE  FilesTrue'
  BY DEF FilesTrue, Becomes

\* What may become of a text that was not written yet.
FreshFlow(f) ==
    /\ f.at \in {"loaded", "opened"} => f.to # typed
    /\ f.at \in {"listing", "stored", "saved"} => f.text # typed
    /\ text = typed => f.text \in {None, typed}
    /\ text = typed /\ doc # None /\ f.at \in {"picker", "read", "loaded", "opened"} => f.choice = "discard"
LEMMA SettledStay ==
  ASSUME SettledTrue, NEW gone, NEW new, Becomes(gone, new), UNCHANGED typed,
         settled' => settled /\ saved' # typed /\ \A p \in Paths : disk'[p] # typed,
         settled' /\ text' = typed => text = typed,
         settled' /\ text' = typed /\ doc' # None => doc # None,
         settled' => \A f \in new : FreshFlow(f)'
  PROVE  SettledTrue'
<1>1. SUFFICES ASSUME settled'
               PROVE  /\ typed' > Given /\ saved' # typed' /\ \A p \in Paths : disk'[p] # typed'
                      /\ \A f \in Range(flows') : FreshFlow(f)'
  BY DEF SettledTrue, FreshFlow
<1>2. /\ typed > Given /\ saved # typed
      /\ \A f \in Range(flows) : FreshFlow(f)
  BY <1>1 DEF SettledTrue, FreshFlow
<1>3. ASSUME NEW f \in Range(flows') PROVE FreshFlow(f)'
  <2>1. CASE f \in new
    BY <1>1, <2>1
  <2>2. CASE f \in Range(flows)
    <3>1. FreshFlow(f)
      BY <1>2, <2>2
    <3>2. QED
      BY <1>1, <3>1 DEF FreshFlow
  <2>3. QED
    BY <1>3, <2>1, <2>2 DEF Becomes
<1>4. QED
  BY <1>1, <1>2, <1>3

\* What is dropped.
LEMMA DropKeeps ==
  ASSUME lost = FALSE, NEW f, Drop(f),
         Endangered => f.choice = "discard" \/ (f.at = "saved" /\ f.text = text)
  PROVE  lost' = FALSE
<1>1. lost' = (lost \/ (Endangered /\ f.choice # "discard" /\ ~(f.at = "saved" /\ f.text = text)))
  BY DEF Drop
<1>2. QED
  BY <1>1

\* Another document takes the place of the one that is open.
LEMMA LoadKeeps ==
  ASSUME EditorTrue, SettledTrue, NEW gone, Becomes(gone, {}),
         NEW d \in Paths \cup {Untitled}, NEW t \in Known, NEW f, Load(d, t, f),
         Endangered => f.choice = "discard" \/ (f.at = "saved" /\ f.text = text),
         settled' => settled /\ t # typed /\ \A p \in Paths : disk'[p] # typed,
         settled' \in BOOLEAN, UNCHANGED typed, disk' \in [Paths -> Known]
  PROVE  EditorTrue' /\ SettledTrue'
<1>1. doc' = d /\ text' = t /\ saved' = t /\ preview' = t /\ timer' = None /\ Drop(f)
  BY DEF Load
<1>2. lost' = FALSE
  BY <1>1, DropKeeps DEF EditorTrue
<1>3. Known' = Known
  BY DEF Known
<1>4. EditorTrue'
  BY <1>1, <1>2, <1>3 DEF EditorTrue
<1>5. SettledTrue'
  <2>1. settled' => text' # typed
    BY <1>1
  <2>2. QED
    BY <1>1, <2>1, SettledStay
<1>6. QED
  BY <1>4, <1>5

-----------------------------------------------------------------------------
(* Going on with one's own work.                                           *)

\* Neither the document nor a file changes.
LEMMA EditorStays ==
  ASSUME Inv, NEW gone, NEW new, Becomes(gone, new), UNCHANGED <<disk, editorVars, typed, settled>>,
         \A f \in new : FlowTrue(f) /\ (settled => FreshFlow(f))
  PROVE  EditorTrue' /\ FlowsTrue' /\ SettledTrue'
<1>1. UNCHANGED <<doc, text, saved, preview, timer, lost>>
  BY DEF editorVars
<1>2. EditorTrue'
  BY <1>1 DEF Inv, EditorTrue, Known
<1>3. typed \in Nat
  BY DEF Inv, EditorTrue, Given
<1>4. FlowsTrue'
  <2>1. \A f \in new : FlowTrue(f)'
    BY DEF FlowTrue, Known
  <2>2. QED
    BY <1>3, <2>1, FlowsStay DEF Inv
<1>5. SettledTrue'
  <2>1. settled' => \A f \in new : FreshFlow(f)'
    BY <1>1 DEF FreshFlow
  <2>2. settled' => settled /\ saved' # typed /\ \A p \in Paths : disk'[p] # typed
    BY <1>1 DEF Inv, SettledTrue
  <2>3. QED
    BY <1>1, <2>1, <2>2, SettledStay DEF Inv
<1>6. QED
  BY <1>2, <1>4, <1>5

\* Nothing but flows and permissions changes.
LEMMA OnlyFlows ==
  ASSUME Inv, NEW gone, NEW new, Becomes(gone, new),
         UNCHANGED <<disk, recents, clock, sidebarVars, editorVars, typed, settled, crossed>>,
         granted \subseteq granted', faults' \in Nat,
         faults' = 0 => faults = 0 /\ \A f \in gone : ~Carries(f),
         \A f \in new : /\ FlowTrue(f) /\ (settled => FreshFlow(f))
                        /\ f.at \in {"writing", "listing"} => f.to \in granted'
  PROVE  Inv'
<1>1. EditorTrue' /\ FlowsTrue' /\ SettledTrue'
  BY EditorStays
<1>2. BackendTrue'
  BY DEF Inv, BackendTrue
<1>3. Listed(recents') \subseteq Listed(recents)
  BY DEF Listed
<1>4. ListedTrue' /\ FilesTrue'
  BY <1>3, ListedStay, FilesStay DEF Inv
<1>5. QED
  BY <1>1, <1>2, <1>4 DEF Inv

LEMMA ProceedKeeps ==
  ASSUME Inv, NEW gone, NEW rest, Rest(rest, gone), NEW f \in AnyFlow, FlowTrue(f),
         NEW d \in Paths \cup {Untitled, None}, NEW s \in Known, Proceed(f, rest, d, s),
         UNCHANGED <<granted, recents, clock, faults, crossed, typed>>,
         disk' \in [Paths -> Known], settled' \in BOOLEAN,
         settled' => settled /\ s # typed /\ \A p \in Paths : disk'[p] # typed,
         Endangered => f.choice = "discard" \/ (f.at = "saved" /\ f.text = text),
         settled' /\ text = typed => f.text \in {None, typed},
         settled' /\ text = typed /\ d # None => doc # None /\ f.choice = "discard",
         Shown(gone) \/ (UNCHANGED sidebarVars /\ \A g \in gone : ~Carries(g))
  PROVE  Inv'
<1>1. EditorTrue /\ BackendTrue /\ FlowsTrue /\ ListedTrue /\ FilesTrue /\ SettledTrue
  BY DEF Inv
<1>2. BackendTrue' /\ Known' = Known /\ typed \in Nat
  BY <1>1 DEF BackendTrue, EditorTrue, Known, Given
<1>3. ASSUME NEW new, Becomes(gone, new), \A g \in new : FlowTrue(g) /\ g.at \in {"picker", "read"}
      PROVE  FlowsTrue' /\ ListedTrue' /\ FilesTrue'
  <2>1. \A g \in new : FlowTrue(g)'
    BY <1>2, <1>3 DEF FlowTrue
  <2>2. FlowsTrue'
    BY <1>1, <1>2, <1>3, <2>1, FlowsStay
  <2>3. ListedTrue'
    <3>1. \A g \in new : g.at \in {"writing", "listing"} => crossed \/ g.to \in granted'
      BY <1>3
    <3>2. Listed(recents') \subseteq Listed(recents)
      BY DEF Listed
    <3>3. QED
      BY <1>1, <1>3, <3>1, <3>2, ListedStay
  <2>4. CASE Shown(gone)
    <3>1. FilesTrue'
      BY <1>1, <1>3, <2>4, FilesShown
    <3>2. QED
      BY <2>2, <2>3, <3>1
  <2>5. CASE UNCHANGED sidebarVars /\ \A g \in gone : ~Carries(g)
    <3>1. FilesTrue'
      BY <1>1, <1>3, <2>5, FilesStay
    <3>2. QED
      BY <2>2, <2>3, <3>1
  <2>6. QED
    BY <2>4, <2>5
\* the document stays, its saved text may be another
<1>4. ASSUME NEW new, Becomes(gone, new), \A g \in new : FlowTrue(g) /\ g.at \in {"picker", "read"},
             \A g \in new : g.text = f.text /\ g.choice = f.choice,
             doc' = d, saved' = s, UNCHANGED <<text, preview, timer>>, lost' = FALSE
      PROVE  Inv'
  <2>1. EditorTrue'
    BY <1>1, <1>2, <1>4 DEF EditorTrue
  <2>2. \A g \in new : settled' => FreshFlow(g)'
    BY <1>4 DEF FreshFlow
  <2>3. settled' => settled /\ saved' # typed /\ \A p \in Paths : disk'[p] # typed
    BY <1>4
  <2>4. settled' /\ text' = typed /\ doc' # None => doc # None
    BY <1>4
  <2>5. SettledTrue'
    BY <1>1, <1>4, <2>2, <2>3, <2>4, SettledStay
  <2>6. QED
    BY <1>2, <1>3, <1>4, <2>1, <2>5 DEF Inv
<1>5. ASSUME NEW t \in {Blank, Given}, flows' = rest, Load(Untitled, t, f) PROVE Inv'
  <2>1. Becomes(gone, {})
    BY <1>5, RestEnds
  <2>2. t \in Known /\ Untitled \in Paths \cup {Untitled}
    BY <1>1, <1>5 DEF Known, EditorTrue, Blank, Given
  <2>3. settled' => settled /\ t # typed /\ \A p \in Paths : disk'[p] # typed
    BY <1>1 DEF SettledTrue, Blank, Given
  <2>4. EditorTrue' /\ SettledTrue'
    BY <1>1, <1>5, <2>1, <2>2, <2>3, LoadKeeps
  <2>5. QED
    BY <1>2, <1>3, <2>1, <2>4 DEF Inv
<1>6. ASSUME NEW at \in {"picker", "read"}, at = "picker" => f.op = "open", at = "read" => f.op = "select",
             flows' = Append(rest, [f EXCEPT !.at = at, !.list = <<>>]),
             doc' = d, saved' = s, UNCHANGED <<text, preview, timer, quit, lost>>
      PROVE  Inv'
  <2>1. at \in Stages
    BY <1>6 DEF Stages
  <2>2. PICK g \in AnyFlow : /\ g = [f EXCEPT !.at = at, !.list = <<>>] /\ g.at = at /\ g.op = f.op /\ g.path = f.path
                             /\ g.to = f.to /\ g.text = f.text /\ g.choice = f.choice
    <3>1. <<>> \in Seq(Paths)
      OBVIOUS
    <3>2. [f EXCEPT !.at = at, !.list = <<>>] \in AnyFlow
      BY <2>1, <3>1 DEF AnyFlow
    <3>3. QED
      BY <3>2 DEF AnyFlow
  <2>3. Becomes(gone, {g})
    BY <1>6, <2>2, RestGrows
  <2>4. FlowTrue(g) /\ g.at \in {"picker", "read"}
    BY <1>6, <2>2 DEF FlowTrue
  <2>5. lost' = FALSE
    BY <1>1, <1>6 DEF EditorTrue
  <2>6. PICK new : new = {g}
    OBVIOUS
  <2>7. /\ Becomes(gone, new) /\ \A h \in new : FlowTrue(h) /\ h.at \in {"picker", "read"}
        /\ \A h \in new : h.text = f.text /\ h.choice = f.choice
    BY <2>2, <2>3, <2>4, <2>6
  <2>8. QED
    BY <1>4, <1>6, <2>5, <2>7
<1>7. CASE f.op = "open" /\ flows' = Append(rest, [f EXCEPT !.at = "picker", !.list = <<>>])
           /\ doc' = d /\ saved' = s /\ UNCHANGED <<text, preview, timer, quit, lost>>
  BY <1>6, <1>7
<1>8. CASE f.op = "select" /\ flows' = Append(rest, [f EXCEPT !.at = "read", !.list = <<>>])
           /\ doc' = d /\ saved' = s /\ UNCHANGED <<text, preview, timer, quit, lost>>
  BY <1>6, <1>8
<1>9. CASE flows' = rest /\ doc' = d /\ saved' = s /\ UNCHANGED <<text, preview, timer, quit, lost>>
  <2>1. Becomes(gone, {}) /\ lost' = FALSE
    BY <1>1, <1>9, RestEnds DEF EditorTrue
  <2>2. PICK new : new = {}
    OBVIOUS
  <2>3. /\ Becomes(gone, new) /\ \A h \in new : FlowTrue(h) /\ h.at \in {"picker", "read"}
        /\ \A h \in new : h.text = f.text /\ h.choice = f.choice
    BY <2>1, <2>2
  <2>4. QED
    BY <1>4, <1>9, <2>1, <2>3
<1>10. CASE flows' = rest /\ Load(Untitled, Blank, f)
  BY <1>5, <1>10
<1>11. CASE flows' = rest /\ Load(Untitled, Given, f)
  BY <1>5, <1>11
<1>12. CASE flows' = rest /\ doc' = d /\ saved' = s /\ Drop(f) /\ UNCHANGED <<text, preview, timer>>
  <2>1. Becomes(gone, {}) /\ lost' = FALSE
    BY <1>1, <1>12, RestEnds, DropKeeps DEF EditorTrue
  <2>2. PICK new : new = {}
    OBVIOUS
  <2>3. /\ Becomes(gone, new) /\ \A h \in new : FlowTrue(h) /\ h.at \in {"picker", "read"}
        /\ \A h \in new : h.text = f.text /\ h.choice = f.choice
    BY <2>1, <2>2
  <2>4. QED
    BY <1>4, <1>12, <2>1, <2>3
<1>13. QED
  BY <1>7, <1>8, <1>9, <1>10, <1>11, <1>12 DEF Proceed

\* A flow that begins, or has read what was dropped.
LEMMA GuardKeeps ==
  ASSUME Inv, NEW gone, NEW rest, Rest(rest, gone), NEW f \in AnyFlow, FlowTrue(f), Guard(f, rest),
         settled /\ text = typed => f.text \in {None, typed}, f.at \in {"begin", "text"}, \A g \in gone : ~Carries(g),
         UNCHANGED <<backendVars, sidebarVars, faults, typed, settled, crossed>>
  PROVE  Inv'
<1>1. EditorTrue /\ SettledTrue /\ BackendTrue
  BY DEF Inv
<1>2. CASE ~HasUnsaved /\ Proceed(f, rest, doc, saved)
  <2>1. settled /\ text = typed => doc = None
    <3>1. settled => saved # typed /\ typed # Blank
      BY <1>1 DEF SettledTrue, Blank, Given
    <3>2. QED
      BY <1>1, <1>2, <3>1 DEF HasUnsaved, IsDirty, EditorTrue
  <2>2. ~Endangered
    BY <2>1 DEF Endangered
  <2>3. doc \in Paths \cup {Untitled, None} /\ saved \in Known /\ settled \in BOOLEAN /\ disk \in [Paths -> Known]
    BY <1>1 DEF EditorTrue
  <2>4. settled => settled /\ saved # typed /\ \A p \in Paths : disk[p] # typed
    BY <1>1 DEF SettledTrue
  <2>5. UNCHANGED <<disk, granted, recents, clock>>
    BY DEF backendVars
  <2>6. PICK d \in Paths \cup {Untitled, None}, s \in Known : d = doc /\ s = saved
    BY <2>3
  <2>7. Proceed(f, rest, d, s)
    BY <1>2, <2>6
  <2>8. QED
    BY <2>1, <2>2, <2>3, <2>4, <2>5, <2>6, <2>7, ProceedKeeps
<1>3. CASE Ask(f, rest)
  <2>1. PICK g \in AnyFlow : /\ g.at = "confirm" /\ g.op = f.op /\ g.path = f.path
                             /\ g.text = f.text /\ Becomes(gone, {g})
    BY <1>3, AskIs
  <2>2. FlowTrue(g) /\ (settled => FreshFlow(g))
    BY <2>1 DEF FlowTrue, FreshFlow
  <2>3. UNCHANGED editorVars
    BY <1>3 DEF Ask
  <2>4. faults' \in Nat
    BY <1>1 DEF BackendTrue
  <2>5. UNCHANGED <<disk, granted, recents, clock>>
    BY DEF backendVars
  <2>6. PICK new : new = {g}
    OBVIOUS
  <2>7. \A h \in new : /\ FlowTrue(h) /\ (settled => FreshFlow(h))
                       /\ h.at \in {"writing", "listing"} => h.to \in granted'
    BY <2>1, <2>2, <2>6
  <2>8. Becomes(gone, new)
    BY <2>1, <2>6
  <2>9. QED
    BY <2>3, <2>4, <2>5, <2>7, <2>8, OnlyFlows
<1>4. QED
  BY <1>2, <1>3 DEF Guard

\* saveActiveFile up to the first await.
LEMMA SaveNowKeeps ==
  ASSUME Inv, NEW gone, NEW rest, Rest(rest, gone), NEW f \in AnyFlow, FlowTrue(f), SaveNow(f, rest),
         doc # None, f.at \in {"begin", "confirm"}, \A g \in gone : ~Carries(g),
         UNCHANGED <<backendVars, sidebarVars, faults, typed, settled, crossed>>
  PROVE  Inv'
<1>1. EditorTrue /\ BackendTrue
  BY DEF Inv
<1>2. PICK at \in {"dialog", "write"} : at = IF doc = Untitled THEN "dialog" ELSE "write"
  OBVIOUS
<1>3. at \in Stages
  BY DEF Stages
<1>4. text \in Nat /\ text \in Known /\ doc \in Paths \cup {Untitled, None}
  BY <1>1 DEF EditorTrue, Known, Blank
<1>5. PICK t \in Nat : t = text /\ t # None
  BY <1>1, <1>4, FilesAssumption DEF EditorTrue, Known, Texts
<1>6. PICK to \in Paths \cup {Untitled, None} \cup Nat : to = doc
  BY <1>4
<1>7. PICK g \in AnyFlow : /\ g = [f EXCEPT !.text = t, !.to = to, !.at = at]
                           /\ g.text = t /\ g.to = to /\ g.at = at /\ g.op = f.op /\ g.path = f.path
                           /\ g.choice = f.choice
  <2>1. [f EXCEPT !.text = t, !.to = to, !.at = at] \in AnyFlow
    BY <1>3 DEF AnyFlow
  <2>2. QED
    BY <2>1 DEF AnyFlow
<1>8. flows' = Append(rest, g)
  BY <1>2, <1>5, <1>6, <1>7 DEF SaveNow
<1>9. Becomes(gone, {g})
  BY <1>8, RestGrows
<1>10. FlowTrue(g)
  BY <1>1, <1>2, <1>4, <1>5, <1>6, <1>7 DEF FlowTrue
<1>11. FreshFlow(g)
  BY <1>5, <1>7 DEF FreshFlow
<1>12. UNCHANGED editorVars /\ faults' \in Nat
  BY <1>1 DEF SaveNow, BackendTrue
<1>13. QED
  <2>1. PICK new : new = {g}
    OBVIOUS
  <2>2. \A h \in new : /\ FlowTrue(h) /\ (settled => FreshFlow(h))
                       /\ h.at \in {"writing", "listing"} => h.to \in granted'
    BY <1>7, <1>10, <1>11, <2>1
  <2>3. Becomes(gone, new)
    BY <1>9, <2>1
  <2>4. UNCHANGED <<disk, recents, clock, sidebarVars, editorVars, typed, settled, crossed>>
    BY <1>12 DEF backendVars
  <2>5. granted \subseteq granted'
    BY DEF backendVars
  <2>6. QED
    BY <1>12, <2>2, <2>3, <2>4, <2>5, OnlyFlows

-----------------------------------------------------------------------------
(* The list of recent files.                                               *)

LEMMA LatestIs ==
  ASSUME NEW rs \in Seq(Recent)
  PROVE  Latest(rs) \in Seq(Recent) /\ Len(Latest(rs)) = Len(rs) /\ Range(Latest(rs)) \subseteq Range(rs)
<1>1. PICK n \in Nat : n = Len(rs) /\ DOMAIN rs = 1 .. n
  BY LenProperties
<1>2. \A i \in 1 .. n : rs[i] \in Recent
  BY <1>1, ElementOfSeq
<1>3. PICK time : time = [i \in 1 .. n |-> rs[i].at]
  OBVIOUS
<1>4. \A i \in 1 .. n : time[i] \in Nat /\ time[i] = rs[i].at
  BY <1>2, <1>3 DEF Recent
<1> DEFINE later == {p \in (1 .. n) \X (1 .. n) :
                        time[p[1]] > time[p[2]] \/ (time[p[1]] = time[p[2]] /\ p[1] < p[2])}
<1>5. later = {p \in (DOMAIN rs) \X (DOMAIN rs) :
                  rs[p[1]].at > rs[p[2]].at \/ (rs[p[1]].at = rs[p[2]].at /\ p[1] < p[2])}
  BY <1>1, <1>4
<1>6. \A i, j \in 1 .. n : <<i, j>> \in later <=> time[i] > time[j] \/ (time[i] = time[j] /\ i < j)
  OBVIOUS
<1> HIDE DEF later
<1>7. IsFiniteSet(1 .. n) /\ Cardinality(1 .. n) = n
  BY FS_Interval
<1>8. /\ \A i \in 1 .. n : <<i, i>> \notin later
      /\ \A i, j, k \in 1 .. n : <<i, j>> \in later /\ <<j, k>> \in later => <<i, k>> \in later
      /\ \A i, j \in 1 .. n : i # j => <<i, j>> \in later \/ <<j, i>> \in later
  <2>1. \A i \in 1 .. n : <<i, i>> \notin later
    BY <1>4, <1>6
  <2>2. ASSUME NEW i \in 1 .. n, NEW j \in 1 .. n, NEW k \in 1 .. n, <<i, j>> \in later, <<j, k>> \in later
        PROVE  <<i, k>> \in later
    BY <1>4, <1>6, <2>2
  <2>3. ASSUME NEW i \in 1 .. n, NEW j \in 1 .. n, i # j PROVE <<i, j>> \in later \/ <<j, i>> \in later
    BY <1>4, <1>6, <2>3
  <2>4. QED
    BY <2>1, <2>2, <2>3
<1>9. PICK ranks \in [1 .. n -> 1 .. n] : ranks = Ranked(1 .. n, later)
  <2>1. PICK S : S = 1 .. n
    OBVIOUS
  <2>2. Ranked(S, later) \in [1 .. Cardinality(S) -> S]
    BY <1>7, <1>8, <2>1, RankedIs
  <2>3. QED
    BY <1>7, <2>1, <2>2
<1>10. Latest(rs) = [k \in 1 .. n |-> rs[ranks[k]]]
  BY <1>1, <1>5, <1>9 DEF Latest
<1>11. PICK sorted \in [1 .. n -> Recent] : sorted = [k \in 1 .. n |-> rs[ranks[k]]]
  BY <1>2
<1>12. sorted \in Seq(Recent) /\ Len(sorted) = n
  BY UpToIsSeq
<1>13. Range(sorted) \subseteq Range(rs)
  BY <1>1, <1>11 DEF Range
<1>14. QED
  BY <1>1, <1>10, <1>11, <1>12, <1>13

LEMMA WithRecentIs ==
  ASSUME BackendTrue, NEW p \in Paths
  PROVE  WithRecent(p) \in Seq(Recent) /\ Listed(WithRecent(p)) \subseteq Listed(recents) \cup {p}
<1>1. recents \in Seq(Recent) /\ clock \in Nat
  BY DEF BackendTrue
<1>2. PICK n \in Nat : n = Len(recents) /\ DOMAIN recents = 1 .. n
  BY <1>1, LenProperties
<1>3. \A i \in 1 .. n : recents[i] \in Recent
  BY <1>1, <1>2, ElementOfSeq
<1>4. PICK new \in Recent : new = [path |-> p, at |-> clock] /\ new.path = p
  <2>1. [path |-> p, at |-> clock] \in Recent
    BY <1>1 DEF Recent
  <2>2. QED
    BY <2>1
<1>5. CASE p \in Listed(recents)
  <2>1. PICK s : s = [i \in 1 .. n |-> IF recents[i].path = p THEN new ELSE recents[i]]
    OBVIOUS
  <2>2. s \in [1 .. n -> Recent]
    BY <1>3, <2>1
  <2>3. s \in Seq(Recent) /\ DOMAIN s = 1 .. n
    BY <2>2, UpToIsSeq
  <2>4. \A i \in 1 .. n : s[i].path = recents[i].path
    BY <1>4, <2>1
  <2>5. Listed(s) \subseteq Listed(recents)
    BY <1>2, <2>3, <2>4 DEF Listed, Range
  <2>6. WithRecent(p) = s
    BY <1>2, <1>4, <1>5, <2>1 DEF WithRecent
  <2>7. QED
    BY <2>3, <2>5, <2>6
<1>6. CASE p \notin Listed(recents)
  <2>1. WithRecent(p) = Append(recents, new)
    BY <1>4, <1>6 DEF WithRecent
  <2>2. Append(recents, new) \in Seq(Recent) /\ Range(Append(recents, new)) = Range(recents) \cup {new}
    BY <1>1, RangeAppend, AppendProperties
  <2>3. QED
    BY <1>4, <2>1, <2>2 DEF Listed
<1>7. QED
  BY <1>5, <1>6

\* A permission is taken away with the entry.
LEMMA AddRecentIs ==
  ASSUME BackendTrue, NEW p \in Paths, NEW perms, AddRecent(p, perms)
  PROVE  /\ recents' \in Seq(Recent) /\ faults' \in Nat /\ (p \in perms => p \in granted')
         /\ Listed(recents) \cup {p} \subseteq perms => Listed(recents') \subseteq granted'
<1>1. recents \in Seq(Recent) /\ faults \in Nat
  BY DEF BackendTrue
<1>2. CASE MayFail /\ Fail /\ granted' = perms /\ UNCHANGED recents
  BY <1>1, <1>2 DEF Fail
<1> DEFINE all == WithRecent(p)
           cut == IF Len(all) > MaxRecents THEN SubSeq(Latest(all), 1, MaxRecents) ELSE all
           dropped == (Listed(all) \ Listed(cut)) \ {p}
<1>3. all \in Seq(Recent) /\ Listed(all) \subseteq Listed(recents) \cup {p}
  BY WithRecentIs
<1>4. cut \in Seq(Recent) /\ Range(cut) \subseteq Range(all)
  <2> HIDE DEF all
  <2>1. Latest(all) \in Seq(Recent) /\ Len(Latest(all)) = Len(all) /\ Range(Latest(all)) \subseteq Range(all)
    BY <1>3, LatestIs
  <2>2. PICK sorted \in Seq(Recent) : sorted = Latest(all)
    BY <2>1
  <2>3. PICK n \in Nat : n = Len(sorted) /\ DOMAIN sorted = 1 .. n
    BY LenProperties
  <2>4. ASSUME Len(all) > MaxRecents
        PROVE  /\ SubSeq(sorted, 1, MaxRecents) \in Seq(Recent)
               /\ Range(SubSeq(sorted, 1, MaxRecents)) \subseteq Range(sorted)
    <3>1. n > MaxRecents /\ MaxRecents \in Nat \ {0}
      BY <2>1, <2>2, <2>3, <2>4, FilesAssumption
    <3>2. PICK m \in Nat : m = MaxRecents
      BY <3>1
    <3>3. \A i \in 1 .. m : i \in 1 .. n /\ sorted[i] \in Recent
      BY <2>3, <3>1, <3>2, ElementOfSeq
    <3>4. PICK head : head = SubSeq(sorted, 1, m)
      OBVIOUS
    <3>5. head \in Seq(Recent) /\ Len(head) = m /\ \A i \in 1 .. m : head[i] = sorted[i]
      <4>1. 1 \in Int /\ m \in Int /\ \A i \in 1 .. m : sorted[i] \in Recent
        BY <3>3
      <4>2. /\ SubSeq(sorted, 1, m) \in Seq(Recent)
            /\ Len(SubSeq(sorted, 1, m)) = IF 1 <= m THEN m - 1 + 1 ELSE 0
            /\ \A i \in 1 .. m - 1 + 1 : SubSeq(sorted, 1, m)[i] = sorted[1 + i - 1]
        BY <4>1, SubSeqProperties
      <4>3. m - 1 + 1 = m /\ 1 <= m
        BY <3>1, <3>2
      <4>4. ASSUME NEW i \in 1 .. m PROVE head[i] = sorted[i]
        <5>1. 1 + i - 1 = i
          OBVIOUS
        <5>2. QED
          BY <3>4, <4>2, <4>3, <5>1, Zenon
      <4>5. QED
        BY <3>4, <4>2, <4>3, <4>4
    <3>6. DOMAIN head = 1 .. m
      BY <3>5, LenProperties
    <3>7. Range(head) \subseteq Range(sorted)
      BY <2>3, <3>3, <3>5, <3>6 DEF Range
    <3>8. QED
      BY <3>2, <3>4, <3>5, <3>7
  <2>5. QED
    BY <1>3, <2>1, <2>2, <2>4
<1>5. CASE recents' = cut /\ granted' = perms \ dropped /\ UNCHANGED faults
  <2>1. Listed(cut) \subseteq Listed(all)
    BY <1>4 DEF Listed
  <2> HIDE DEF all, cut
  <2>2. QED
    BY <1>1, <1>3, <1>4, <1>5, <2>1
<1>6. QED
  BY <1>2, <1>5 DEF AddRecent

LEMMA WithoutIs ==
  ASSUME BackendTrue, NEW p
  PROVE  WithoutRecent(p) \in Seq(Recent) /\ Listed(WithoutRecent(p)) \subseteq Listed(recents) \ {p}
<1> DEFINE others == {r \in Range(recents) : r.path # p}
<1>1. recents \in Seq(Recent)
  BY DEF BackendTrue
<1>2. Only(recents, others) \in Seq(Recent) /\ Range(Only(recents, others)) = Range(recents) \cap others
  <2> HIDE DEF others
  <2>1. QED
    BY <1>1, OnlyIs
<1>3. QED
  BY <1>2 DEF WithoutRecent, Listed

LEMMA MovedIs ==
  ASSUME BackendTrue, NEW p \in Listed(recents), NEW index \in Nat
  PROVE  Moved(p, index) \in Seq(Recent) /\ Listed(Moved(p, index)) \subseteq Listed(recents)
<1>1. recents \in Seq(Recent)
  BY DEF BackendTrue
<1>2. PICK n \in Nat : n = Len(recents) /\ DOMAIN recents = 1 .. n
  BY <1>1, LenProperties
<1>3. PICK from : from = CHOOSE i \in DOMAIN recents : recents[i].path = p
  OBVIOUS
<1>4. from \in 1 .. n /\ recents[from] \in Recent
  <2>1. \E i \in DOMAIN recents : recents[i].path = p
    BY DEF Listed, Range
  <2>2. from \in DOMAIN recents
    BY <1>3, <2>1
  <2>3. QED
    BY <1>1, <1>2, <2>2, ElementOfSeq
<1>5. PICK rest \in Seq(Recent) : /\ rest = RemoveAt(recents, from) /\ Len(rest) = n - 1
                                  /\ \A i \in 1 .. n - 1 : rest[i] = IF i < from THEN recents[i] ELSE recents[i + 1]
  <2>1. /\ RemoveAt(recents, from) \in Seq(Recent) /\ Len(RemoveAt(recents, from)) = Len(recents) - 1
        /\ \A i \in 1 .. Len(recents) - 1 :
              RemoveAt(recents, from)[i] = IF i < from THEN recents[i] ELSE recents[i + 1]
    BY <1>1, <1>2, <1>4, TakenOut
  <2>2. QED
    BY <1>2, <2>1
<1>6. PICK to : to = IF from - 1 < index THEN index - 1 ELSE index
  OBVIOUS
<1>7. PICK k \in 1 .. n : k = IF to > Len(rest) THEN Len(recents) ELSE to + 1
  <2>1. to \in Nat
    BY <1>4, <1>6
  <2>2. to <= n - 1 => to + 1 \in 1 .. n
    BY <1>2, <2>1
  <2>3. QED
    BY <1>2, <1>4, <1>5, <2>1, <2>2
<1>8. PICK x \in Recent : x = recents[from]
  BY <1>4
<1>9. Moved(p, index) = InsertAt(rest, k, x)
  BY <1>3, <1>5, <1>6, <1>7, <1>8 DEF Moved
<1>10. PICK s \in Seq(Recent) : s = InsertAt(rest, k, x) /\ WithIn(s, rest, k, x)
  <2>1. k \in 1 .. Len(rest) + 1
    BY <1>2, <1>5, <1>7
  <2>2. InsertAt(rest, k, x) \in Seq(Recent) /\ WithIn(InsertAt(rest, k, x), rest, k, x)
    BY <2>1, PutIn
  <2>3. QED
    BY <2>2
<1>11. DOMAIN s = 1 .. n /\ \A i \in 1 .. n : s[i] = IF i < k THEN rest[i] ELSE IF i = k THEN x ELSE rest[i - 1]
  <2>1. Len(rest) + 1 = n
    BY <1>2, <1>5
  <2>2. s = [i \in 1 .. n |-> IF i < k THEN rest[i] ELSE IF i = k THEN x ELSE rest[i - 1]]
    BY <1>10, <2>1 DEF WithIn
  <2>3. QED
    BY <2>2
<1>12. ASSUME NEW i \in 1 .. n - 1 PROVE rest[i] \in Range(recents)
  <2>1. i \in 1 .. n /\ i + 1 \in 1 .. n
    BY <1>2
  <2>2. QED
    BY <1>2, <1>5, <2>1 DEF Range
<1>13. ASSUME NEW i \in 1 .. n PROVE s[i] \in Range(recents)
  <2>1. CASE i < k
    <3>1. i \in 1 .. n - 1 /\ s[i] = rest[i]
      BY <1>2, <1>7, <1>11, <2>1
    <3>2. QED
      BY <1>12, <3>1
  <2>2. CASE i = k
    <3>1. s[i] = x
      BY <1>7, <1>11, <2>2
    <3>2. QED
      BY <1>2, <1>4, <1>8, <3>1 DEF Range
  <2>3. CASE k < i
    <3>1. i - 1 \in 1 .. n - 1 /\ s[i] = rest[i - 1]
      BY <1>2, <1>7, <1>11, <2>3
    <3>2. QED
      BY <1>12, <3>1
  <2>4. QED
    BY <1>7, <2>1, <2>2, <2>3
<1>14. Listed(s) \subseteq Listed(recents)
  BY <1>11, <1>13 DEF Listed, Range
<1>15. QED
  BY <1>9, <1>10, <1>14

-----------------------------------------------------------------------------
(* The user.                                                               *)

LEMMA FlowBegins ==
  ASSUME NEW op \in Operations \ {"mount"}, NEW p \in Paths \cup {None}, op = "select" => p \in Paths
  PROVE  /\ Flow(op, p) \in AnyFlow /\ FlowTrue(Flow(op, p)) /\ Flow(op, p).at = "begin"
         /\ Flow(op, p).text = None /\ Flow(op, p).op = op
<1>1. PICK f : f = Flow(op, p)
  OBVIOUS
<1>2. /\ op # "mount"
      /\ f.op = op /\ f.path = p /\ f.at = "begin" /\ f.to = None /\ f.text = None /\ f.choice = "none"
      /\ f \in AnyFlow
  BY <1>1 DEF Flow, AnyFlow, Stages
<1>3. FlowTrue(f)
  BY <1>2 DEF FlowTrue
<1>4. QED
  BY <1>1, <1>2, <1>3

LEMMA GiveEnds ==
  ASSUME FlowsTrue, NEW i \in DOMAIN flows, Give(i)
  PROVE  Becomes({flows[i]}, {})
<1>1. Rest(Others(i), {flows[i]}) /\ flows' = Others(i)
  BY OthersRest DEF Give
<1>2. QED
  BY <1>1, RestEnds

\* A flow ends without having done anything.
LEMMA GiveKeeps ==
  ASSUME Inv, NEW i \in DOMAIN flows, GiveUp(i),
         UNCHANGED <<backendVars, sidebarVars, typed, settled, crossed>>, faults' \in Nat,
         faults' = 0 => faults = 0 /\ ~Carries(flows[i])
  PROVE  Inv'
<1>1. PICK gone, new : gone = {flows[i]} /\ new = {}
  OBVIOUS
<1>2. Becomes(gone, new)
  <2>1. Becomes({flows[i]}, {})
    BY GiveEnds DEF Inv, GiveUp
  <2>2. QED
    BY <1>1, <2>1
<1>3. UNCHANGED <<disk, recents, clock, sidebarVars, editorVars, typed, settled, crossed>> /\ granted \subseteq granted'
  BY DEF GiveUp, backendVars
<1>4. faults' = 0 => faults = 0 /\ \A f \in gone : ~Carries(f)
  BY <1>1
<1>5. \A f \in new : /\ FlowTrue(f) /\ (settled => FreshFlow(f))
                     /\ f.at \in {"writing", "listing"} => f.to \in granted'
  BY <1>1
<1>6. QED
  BY <1>2, <1>3, <1>4, <1>5, OnlyFlows

\* A flow that has not asked or saved is added.
LEMMA BeginKeeps ==
  ASSUME Inv, NEW g \in AnyFlow, FlowTrue(g), g.text = None,
         g.at \in {"text", "remove", "move"}, flows' = Append(flows, g),
         Started, UNCHANGED editorVars
  PROVE  Inv'
<1>1. PICK gone, new : gone = {} /\ new = {g}
  OBVIOUS
<1>2. Becomes(gone, new)
  <2>1. Rest(flows, {})
    BY AllRest DEF Inv
  <2>2. Becomes({}, {g})
    BY <2>1, RestGrows
  <2>3. QED
    BY <1>1, <2>2
<1>3. UNCHANGED <<disk, recents, clock, sidebarVars, editorVars, typed, settled, crossed>> /\ granted \subseteq granted'
  BY DEF Started, backendVars
<1>4. faults' \in Nat /\ (faults' = 0 => faults = 0 /\ \A f \in gone : ~Carries(f))
  BY <1>1 DEF Started, Inv, BackendTrue
<1>5. \A f \in new : /\ FlowTrue(f) /\ (settled => FreshFlow(f))
                     /\ f.at \in {"writing", "listing"} => f.to \in granted'
  BY <1>1 DEF FreshFlow
<1>6. QED
  BY <1>2, <1>3, <1>4, <1>5, OnlyFlows

\* An operation that may ask begins.
LEMMA StartKeeps ==
  ASSUME Inv, NEW op \in Operations \ {"mount"}, NEW p \in Paths \cup {None}, op = "select" => p \in Paths,
         Guard(Flow(op, p), flows), Started
  PROVE  Inv'
<1>1. PICK f \in AnyFlow : f = Flow(op, p) /\ FlowTrue(f) /\ f.at = "begin" /\ f.text = None
  BY FlowBegins
<1>2. Rest(flows, {})
  BY AllRest DEF Inv
<1>3. UNCHANGED <<backendVars, sidebarVars, faults, typed, settled, crossed>>
  BY DEF Started
<1>4. PICK gone : gone = {}
  OBVIOUS
<1>5. \A g \in gone : ~Carries(g)
  BY <1>4
<1>6. Rest(flows, gone) /\ Guard(f, flows)
  BY <1>1, <1>2, <1>4, <1>5
<1>7. QED
  BY <1>1, <1>3, <1>4, <1>5, <1>6, GuardKeeps

LEMMA DropFileKeeps == ASSUME Inv, DropFile PROVE Inv'
<1>1. "drop" \in Operations /\ "text" \in Stages
  BY DEF Operations, Stages
<1>2. PICK f \in AnyFlow : f = Flow("drop", None) /\ FlowTrue(f) /\ f.text = None /\ f.op = "drop"
  BY <1>1, FlowBegins
<1>3. PICK g \in AnyFlow : /\ g = [f EXCEPT !.at = "text"] /\ g.at = "text" /\ g.op = f.op
                           /\ g.path = f.path /\ g.to = f.to /\ g.text = f.text
  BY <1>1, AtIs
<1>4. FlowTrue(g)
  BY <1>2, <1>3 DEF FlowTrue
<1>5. flows' = Append(flows, g)
  BY <1>2, <1>3 DEF DropFile
<1>6. QED
  BY <1>2, <1>3, <1>4, <1>5, BeginKeeps DEF DropFile

LEMMA RemoveFileKeeps == ASSUME Inv, NEW p \in Paths, RemoveFile(p) PROVE Inv'
<1>1. "remove" \in Operations /\ "remove" \in Stages
  BY DEF Operations, Stages
<1>2. PICK f \in AnyFlow : f = Flow("remove", p) /\ FlowTrue(f) /\ f.text = None /\ f.op = "remove"
  BY <1>1, FlowBegins
<1>3. PICK g \in AnyFlow : /\ g = [f EXCEPT !.at = "remove"] /\ g.at = "remove" /\ g.op = f.op
                           /\ g.path = f.path /\ g.to = f.to /\ g.text = f.text
  BY <1>1, AtIs
<1>4. FlowTrue(g)
  BY <1>2, <1>3 DEF FlowTrue
<1>5. flows' = Append(flows, g)
  BY <1>2, <1>3 DEF RemoveFile
<1>6. QED
  BY <1>2, <1>3, <1>4, <1>5, BeginKeeps DEF RemoveFile

LEMMA MoveFileKeeps == ASSUME Inv, NEW p \in Paths, NEW n \in Nat, MoveFile(p, n) PROVE Inv'
<1>1. "move" \in Operations /\ "move" \in Stages
  BY DEF Operations, Stages
<1>2. PICK f \in AnyFlow : f = Flow("move", p) /\ FlowTrue(f) /\ f.text = None /\ f.op = "move"
  BY <1>1, FlowBegins
<1>3. PICK g \in AnyFlow : /\ g = [f EXCEPT !.at = "move", !.to = n] /\ g.at = "move" /\ g.op = f.op
                           /\ g.path = f.path /\ g.to = n /\ g.text = f.text
  <2>1. [f EXCEPT !.at = "move", !.to = n] \in AnyFlow
    BY <1>1 DEF AnyFlow
  <2>2. QED
    BY <2>1 DEF AnyFlow
<1>4. FlowTrue(g)
  BY <1>2, <1>3 DEF FlowTrue
<1>5. flows' = Append(flows, g)
  BY <1>2, <1>3 DEF MoveFile
<1>6. QED
  BY <1>2, <1>3, <1>4, <1>5, BeginKeeps DEF MoveFile

LEMMA SaveActiveKeeps == ASSUME Inv, SaveActive PROVE Inv'
<1>1. "save" \in Operations
  BY DEF Operations
<1>2. PICK f \in AnyFlow : f = Flow("save", None) /\ FlowTrue(f) /\ f.at = "begin"
  BY <1>1, FlowBegins
<1>3. PICK gone : gone = {}
  OBVIOUS
<1>4. \A g \in gone : ~Carries(g)
  BY <1>3
<1>5. Rest(flows, gone)
  BY <1>3, <1>4, AllRest DEF Inv
<1>6. SaveNow(f, flows) /\ doc # None /\ UNCHANGED <<backendVars, sidebarVars, faults, typed, settled, crossed>>
  BY <1>2 DEF SaveActive, Started
<1>7. QED
  BY <1>2, <1>3, <1>4, <1>5, <1>6, SaveNowKeeps

LEMMA TypeKeeps == ASSUME Inv, Type PROVE Inv'
<1>1. /\ typed < MaxText /\ typed' = typed + 1 /\ text' = typed + 1 /\ timer' = typed + 1
      /\ settled' = \A i \in DOMAIN flows : flows[i].op = "mount"
      /\ UNCHANGED <<disk, granted, recents, clock, sidebarVars, doc, saved, lost, flows, faults, crossed>>
  BY DEF Type, backendVars
<1>2. EditorTrue /\ BackendTrue /\ FlowsTrue /\ ListedTrue /\ FilesTrue /\ typed \in Nat
  BY DEF Inv, EditorTrue, Given
<1>3. \A t \in Known : t \in Known' /\ t # typed'
  BY <1>1, <1>2 DEF Known, Blank
<1>4. EditorTrue'
  <2>1. typed + 1 # None
    BY <1>1, <1>2, FilesAssumption DEF Texts, Blank
  <2>2. typed' \in Given .. MaxText /\ text' \in Known'
    BY <1>1, <1>2, FilesAssumption DEF EditorTrue, Known, Blank, Given
  <2>3. disk' \in [Paths -> Known'] /\ saved' \in Known'
    BY <1>1, <1>2, <1>3 DEF EditorTrue
  <2>4. settled' \in BOOLEAN
    BY <1>1
  <2>5. QED
    BY <1>1, <1>2, <2>1, <2>2, <2>3, <2>4 DEF EditorTrue
<1>5. PICK gone : gone = {}
  OBVIOUS
<1>6. \A f \in gone : FlowTrue(f)'
  BY <1>5
<1>7. Becomes(gone, gone)
  BY <1>1, <1>2, <1>5, <1>6 DEF Becomes, FlowsTrue
<1>8. FlowsTrue'
  BY <1>1, <1>2, <1>5, <1>6, <1>7, FlowsStay
<1>9. ListedTrue' /\ BackendTrue'
  BY <1>1, <1>2 DEF ListedTrue, BackendTrue, Listed
<1>10. FilesTrue'
  BY <1>1, <1>2 DEF FilesTrue, ShownTrue, sidebarVars, Order, WillList, WillShow
<1>11. SettledTrue'
  <2>1. SUFFICES ASSUME settled' PROVE SettledTrue'
    BY DEF SettledTrue
  <2>2. \A f \in Range(flows) : f.op = "mount"
    BY <1>1, <2>1 DEF Range
  <2>3. ASSUME NEW f \in Range(flows')
        PROVE  FreshFlow(f)'
    <3>1. FlowTrue(f) /\ f.op = "mount"
      BY <1>1, <1>2, <2>2 DEF FlowsTrue
    <3>2. f.at \in {"mounted", "listed"} /\ f.text = None
      BY <3>1 DEF FlowTrue
    <3>3. QED
      BY <3>2 DEF FreshFlow
  <2>4. saved' # typed' /\ \A p \in Paths : disk'[p] # typed'
    BY <1>1, <1>2, <1>3 DEF EditorTrue
  <2>5. typed' > Given
    BY <1>1, <1>2 DEF EditorTrue, Given
  <2>6. QED
    BY <2>3, <2>4, <2>5 DEF SettledTrue, FreshFlow
<1>12. QED
  BY <1>4, <1>8, <1>9, <1>10, <1>11 DEF Inv

\* What does not touch flows, files and texts.
LEMMA QuietKeeps ==
  ASSUME Inv, clock' \in Nat, timer' \in {None, text}, timer' = None => preview' = text,
         UNCHANGED <<disk, granted, recents, sidebarVars, doc, text, saved, lost, flows, faults, typed, settled, crossed>>
  PROVE  Inv'
<1>1. EditorTrue'
  BY DEF Inv, EditorTrue, Known
<1>2. BackendTrue' /\ FlowsTrue'
  BY DEF Inv, BackendTrue, FlowsTrue, FlowTrue, Known
<1>3. ListedTrue' /\ FilesTrue'
  BY DEF Inv, ListedTrue, Listed, FilesTrue, ShownTrue, sidebarVars, Order, WillList, WillShow
<1>4. SettledTrue'
  BY DEF Inv, SettledTrue
<1>5. QED
  BY <1>1, <1>2, <1>3, <1>4 DEF Inv

LEMMA ParseKeeps == ASSUME Inv, Parse PROVE Inv'
<1>1. timer' = None /\ preview' = text
  BY DEF Parse, Inv, EditorTrue
<1>2. clock' \in Nat
  BY DEF Parse, backendVars, Inv, BackendTrue
<1>3. QED
  BY <1>1, <1>2, QuietKeeps DEF Parse, backendVars

LEMMA TickKeeps == ASSUME Inv, Tick PROVE Inv'
<1>1. clock' \in Nat
  BY DEF Tick, Inv, BackendTrue
<1>2. timer' \in {None, text} /\ (timer' = None => preview' = text)
  BY DEF Tick, Inv, EditorTrue, editorVars
<1>3. QED
  BY <1>1, <1>2, QuietKeeps DEF Tick, editorVars

-----------------------------------------------------------------------------
(* The dialogs.                                                            *)

LEMMA DropReadKeeps == ASSUME Inv, NEW i \in DOMAIN flows, DropRead(i) PROVE Inv'
<1>1. PICK f \in AnyFlow : f = flows[i] /\ FlowTrue(f) /\ f \in Range(flows)
  BY FlowIs DEF Inv
<1>2. PICK gone : gone = {f}
  OBVIOUS
<1>3. PICK rest : rest = Others(i) /\ Rest(rest, gone)
  BY <1>1, <1>2, OthersRest DEF Inv
<1>4. f.at = "text" /\ Guard(f, rest) /\ UNCHANGED <<backendVars, sidebarVars, faults, typed, settled, crossed>>
  BY <1>1, <1>3 DEF DropRead
<1>5. \A g \in gone : ~Carries(g)
  BY <1>2, <1>4 DEF Carries, WillList, WillShow
<1>6. settled /\ text = typed => f.text \in {None, typed}
  BY <1>1 DEF Inv, SettledTrue
<1>7. QED
  BY <1>1, <1>3, <1>4, <1>5, <1>6, GuardKeeps

LEMMA CancelKeeps == ASSUME Inv, NEW i \in DOMAIN flows, Cancel(i) \/ Dismiss(i) \/ Denied(i) PROVE Inv'
<1>1. ~Carries(flows[i]) /\ GiveUp(i) /\ UNCHANGED <<backendVars, sidebarVars, faults, typed, settled, crossed>>
  BY DEF Cancel, Dismiss, Denied, GiveUp, Carries, WillList, WillShow
<1>2. faults' \in Nat /\ (faults' = 0 => faults = 0 /\ ~Carries(flows[i]))
  BY <1>1 DEF Inv, BackendTrue
<1>3. QED
  BY <1>1, <1>2, GiveKeeps

LEMMA IOFailsKeeps == ASSUME Inv, NEW i \in DOMAIN flows, IOFails(i) PROVE Inv'
<1>1. faults' \in Nat /\ faults' # 0
  BY DEF IOFails, Fail, Inv, BackendTrue
<1>2. GiveUp(i) /\ UNCHANGED <<backendVars, sidebarVars, typed, settled, crossed>>
  BY DEF IOFails
<1>3. QED
  BY <1>1, <1>2, GiveKeeps

LEMMA DiscardKeeps == ASSUME Inv, NEW i \in DOMAIN flows, Discard(i) PROVE Inv'
<1>1. PICK f \in AnyFlow : f = flows[i] /\ FlowTrue(f) /\ f \in Range(flows)
  BY FlowIs DEF Inv
<1>2. PICK g \in AnyFlow : /\ g = [f EXCEPT !.choice = "discard"] /\ g.choice = "discard" /\ g.op = f.op
                           /\ g.at = f.at /\ g.path = f.path /\ g.to = f.to /\ g.text = f.text
  BY ChoiceIs
<1>3. PICK gone : gone = {f}
  OBVIOUS
<1>4. PICK rest : rest = Others(i) /\ Rest(rest, gone)
  BY <1>1, <1>3, OthersRest DEF Inv
<1>5. f.at = "confirm" /\ UNCHANGED <<disk, granted, recents, clock, sidebarVars, faults, typed, settled, crossed>>
  BY <1>1 DEF Discard, backendVars
<1>6. PICK d \in Paths \cup {Untitled, None}, s \in Known : d = doc /\ s = saved
  BY DEF Inv, EditorTrue
<1>7. Proceed(g, rest, d, s)
  BY <1>1, <1>2, <1>4, <1>6 DEF Discard
<1>8. FlowTrue(g)
  BY <1>1, <1>2 DEF FlowTrue
<1>9. \A h \in gone : ~Carries(h)
  BY <1>3, <1>5 DEF Carries, WillList, WillShow
<1>10. disk' \in [Paths -> Known] /\ settled' \in BOOLEAN
  BY <1>5 DEF Inv, EditorTrue
<1>11. settled' => settled /\ s # typed /\ \A p \in Paths : disk'[p] # typed
  BY <1>5, <1>6 DEF Inv, SettledTrue
<1>12. settled' /\ text = typed => g.text \in {None, typed}
  BY <1>1, <1>2, <1>5 DEF Inv, SettledTrue
<1>13. QED
  BY <1>2, <1>4, <1>5, <1>6, <1>7, <1>8, <1>9, <1>10, <1>11, <1>12, ProceedKeeps

LEMMA SaveFirstKeeps == ASSUME Inv, NEW i \in DOMAIN flows, SaveFirst(i) PROVE Inv'
<1>1. PICK f \in AnyFlow : f = flows[i] /\ FlowTrue(f) /\ f \in Range(flows)
  BY FlowIs DEF Inv
<1>2. /\ f.at = "confirm" /\ ~Carries(f)
      /\ UNCHANGED <<backendVars, sidebarVars, faults, typed, settled, crossed>>
  BY <1>1 DEF SaveFirst, Carries, WillList, WillShow
<1>3. CASE doc = None
  <2>1. GiveUp(i)
    BY <1>3 DEF SaveFirst, GiveUp
  <2>2. faults' \in Nat /\ (faults' = 0 => faults = 0 /\ ~Carries(flows[i]))
    BY <1>1, <1>2 DEF Inv, BackendTrue
  <2>3. QED
    BY <1>2, <2>1, <2>2, GiveKeeps
<1>4. CASE doc # None
  <2>1. PICK g \in AnyFlow : /\ g = [f EXCEPT !.choice = "save"] /\ g.op = f.op
                             /\ g.at = f.at /\ g.path = f.path /\ g.to = f.to /\ g.text = f.text
    BY ChoiceIs
  <2>2. PICK gone : gone = {f}
    OBVIOUS
  <2>3. PICK rest : rest = Others(i) /\ Rest(rest, gone)
    BY <1>1, <2>2, OthersRest DEF Inv
  <2>4. SaveNow(g, rest)
    BY <1>1, <1>4, <2>1, <2>3 DEF SaveFirst
  <2>5. FlowTrue(g) /\ g.at = "confirm"
    BY <1>1, <1>2, <2>1 DEF FlowTrue
  <2>6. \A h \in gone : ~Carries(h)
    BY <1>2, <2>2
  <2>7. QED
    BY <1>2, <1>4, <2>3, <2>4, <2>5, <2>6, SaveNowKeeps
<1>5. QED
  BY <1>3, <1>4

LEMMA PickFileKeeps == ASSUME Inv, NEW i \in DOMAIN flows, NEW p \in Paths, PickFile(i, p) PROVE Inv'
<1>1. PICK f \in AnyFlow : f = flows[i] /\ FlowTrue(f) /\ f \in Range(flows)
  BY FlowIs DEF Inv
<1>2. /\ f.at = "picker" /\ AddRecent(p, granted \cup {p}) /\ Crossing
      /\ UNCHANGED <<disk, clock, sidebarVars, editorVars, typed, settled>>
  BY <1>1 DEF PickFile
<1>3. PICK g \in AnyFlow : /\ g = [f EXCEPT !.at = "read", !.path = p] /\ g.at = "read" /\ g.path = p
                           /\ g.op = f.op /\ g.to = f.to /\ g.text = f.text /\ g.choice = f.choice
  <2>1. "read" \in Stages
    BY DEF Stages
  <2>2. [f EXCEPT !.at = "read", !.path = p] \in AnyFlow
    BY <2>1 DEF AnyFlow
  <2>3. QED
    BY <2>2 DEF AnyFlow
<1>4. Becomes({f}, {g})
  <2>1. Step(i, g)
    BY <1>1, <1>3 DEF PickFile
  <2>2. QED
    BY <1>1, <2>1, StepIs DEF Inv
<1>5. PICK perms : perms = granted \cup {p}
  OBVIOUS
<1>6. /\ recents' \in Seq(Recent) /\ faults' \in Nat /\ (p \in perms => p \in granted')
      /\ Listed(recents) \cup {p} \subseteq perms => Listed(recents') \subseteq granted'
  BY <1>2, <1>5, AddRecentIs DEF Inv
<1>7. PICK gone, new : gone = {f} /\ new = {g}
  OBVIOUS
<1>8. FlowTrue(g) /\ (settled => FreshFlow(g))
  <2>1. FlowTrue(g)
    BY <1>1, <1>2, <1>3 DEF FlowTrue
  <2>2. settled => FreshFlow(f)
    BY <1>1 DEF Inv, SettledTrue, FreshFlow
  <2>3. QED
    BY <1>2, <1>3, <2>1, <2>2 DEF FreshFlow
<1>9. EditorTrue' /\ FlowsTrue' /\ SettledTrue'
  <2>1. Becomes(gone, new) /\ \A h \in new : FlowTrue(h) /\ (settled => FreshFlow(h))
    BY <1>4, <1>7, <1>8
  <2>2. QED
    BY <1>2, <2>1, EditorStays
<1>10. ListedTrue' /\ crossed' \in BOOLEAN
  <2>1. Becomes(gone, new) /\ \A h \in new : h.at \notin {"writing", "listing"}
    BY <1>3, <1>4, <1>7
  <2>2. ~crossed => Listed(recents)' \subseteq granted'
    <3>1. ~crossed => Listed(recents') \subseteq granted'
      BY <1>5, <1>6 DEF Inv, ListedTrue
    <3>2. QED
      BY <3>1 DEF Listed
  <2>3. QED
    BY <1>2, <2>1, <2>2, ListedChanges DEF Inv, BackendTrue, FlowsTrue
<1>11. FilesTrue'
  <2>1. g.op = "open" /\ g.path \in granted'
    BY <1>1, <1>2, <1>3, <1>5, <1>6 DEF FlowTrue
  <2>2. WillList(g)'
    BY <1>3, <2>1 DEF WillList
  <2>3. QED
    BY <1>4, <2>2, FilesPending
<1>12. BackendTrue'
  BY <1>2, <1>6, <1>10 DEF Inv, BackendTrue
<1>13. QED
  BY <1>9, <1>10, <1>11, <1>12 DEF Inv

LEMMA PickTargetKeeps == ASSUME Inv, NEW i \in DOMAIN flows, NEW p \in Paths, PickTarget(i, p) PROVE Inv'
<1>1. PICK f \in AnyFlow : f = flows[i] /\ FlowTrue(f) /\ f \in Range(flows)
  BY FlowIs DEF Inv
<1>2. /\ f.at = "dialog" /\ granted' = granted \cup {p}
      /\ UNCHANGED <<disk, recents, clock, sidebarVars, editorVars, faults, typed, settled, crossed>>
  BY <1>1 DEF PickTarget
<1>3. PICK g \in AnyFlow : /\ g = [f EXCEPT !.at = "writing", !.to = p] /\ g.at = "writing" /\ g.to = p
                           /\ g.op = f.op /\ g.path = f.path /\ g.text = f.text /\ g.choice = f.choice
  <2>1. "writing" \in Stages
    BY DEF Stages
  <2>2. [f EXCEPT !.at = "writing", !.to = p] \in AnyFlow
    BY <2>1 DEF AnyFlow
  <2>3. QED
    BY <2>2 DEF AnyFlow
<1>4. Becomes({f}, {g})
  <2>1. Step(i, g)
    BY <1>1, <1>3 DEF PickTarget
  <2>2. QED
    BY <1>1, <2>1, StepIs DEF Inv
<1>5. PICK gone, new : gone = {f} /\ new = {g}
  OBVIOUS
<1>6. FlowTrue(g) /\ (settled => FreshFlow(g))
  <2>1. FlowTrue(g)
    BY <1>1, <1>2, <1>3 DEF FlowTrue
  <2>2. settled => FreshFlow(f)
    BY <1>1 DEF Inv, SettledTrue, FreshFlow
  <2>3. QED
    BY <1>2, <1>3, <2>1, <2>2 DEF FreshFlow
<1>7. \A h \in new : /\ FlowTrue(h) /\ (settled => FreshFlow(h))
                     /\ h.at \in {"writing", "listing"} => h.to \in granted'
  BY <1>2, <1>3, <1>5, <1>6
<1>8. faults' \in Nat /\ (faults' = 0 => faults = 0 /\ \A h \in gone : ~Carries(h))
  BY <1>2, <1>5 DEF Inv, BackendTrue, Carries, WillList, WillShow
<1>9. Becomes(gone, new) /\ granted \subseteq granted'
  BY <1>2, <1>4, <1>5
<1>10. QED
  BY <1>2, <1>7, <1>8, <1>9, OnlyFlows

-----------------------------------------------------------------------------
(* Writing and reading.                                                    *)

\* A flow that is about to write holds a text, and the one that was typed is
\* the one it holds while the editor does.
LEMMA Holds ==
  ASSUME Inv, NEW f \in Range(flows), f.at \in {"write", "writing", "listing", "stored", "saved"}
  PROVE  /\ f.text \in Known /\ f.to \in Paths /\ (settled /\ text = typed => f.text = typed)
         /\ [disk EXCEPT ![f.to] = f.text] \in [Paths -> Known]
         /\ settled /\ f.text # typed => \A p \in Paths : [disk EXCEPT ![f.to] = f.text][p] # typed
<1>1. FlowTrue(f) /\ (settled /\ text = typed => f.text \in {None, typed}) /\ disk \in [Paths -> Known]
  BY DEF Inv, FlowsTrue, SettledTrue, EditorTrue
<1>2. f.text \in Known /\ f.to \in Paths /\ f.text # None
  BY <1>1 DEF FlowTrue
<1>3. [disk EXCEPT ![f.to] = f.text] \in [Paths -> Known]
  BY <1>1, <1>2
<1>4. settled => \A p \in Paths : disk[p] # typed
  BY DEF Inv, SettledTrue
<1>5. ASSUME settled, f.text # typed, NEW p \in Paths PROVE [disk EXCEPT ![f.to] = f.text][p] # typed
  BY <1>1, <1>2, <1>4, <1>5
<1>6. QED
  BY <1>1, <1>2, <1>3, <1>5

LEMMA WriteKeeps == ASSUME Inv, NEW i \in DOMAIN flows, Write(i) PROVE Inv'
<1>1. PICK f \in AnyFlow : f = flows[i] /\ FlowTrue(f) /\ f \in Range(flows)
  BY FlowIs DEF Inv
<1>2. /\ f.at = "write" /\ disk' = [disk EXCEPT ![f.to] = f.text] /\ settled' = (settled /\ f.text # typed)
      /\ UNCHANGED <<granted, recents, clock, sidebarVars, faults, typed, crossed>>
  BY <1>1 DEF Write
<1>3. /\ f.text \in Known /\ (settled /\ text = typed => f.text = typed)
      /\ disk' \in [Paths -> Known] /\ (settled' => \A p \in Paths : disk'[p] # typed)
  BY <1>1, <1>2, Holds
<1>4. PICK g \in AnyFlow : /\ g = [f EXCEPT !.at = "saved"] /\ g.at = "saved" /\ g.op = f.op
                           /\ g.path = f.path /\ g.to = f.to /\ g.text = f.text /\ g.choice = f.choice
  <2>1. "saved" \in Stages
    BY DEF Stages
  <2>2. QED
    BY <2>1, AtIs
<1>5. PICK gone : gone = {f}
  OBVIOUS
<1>6. PICK rest : rest = Others(i) /\ Rest(rest, gone)
  BY <1>1, <1>5, OthersRest DEF Inv
<1>7. PICK d \in Paths \cup {Untitled, None}, s \in Known : d = doc /\ s = text
  BY DEF Inv, EditorTrue
<1>8. Proceed(g, rest, d, s)
  BY <1>1, <1>4, <1>6, <1>7 DEF Write
<1>9. FlowTrue(g)
  BY <1>1, <1>2, <1>4 DEF FlowTrue
<1>10. \A h \in gone : ~Carries(h)
  BY <1>2, <1>5 DEF Carries, WillList, WillShow
<1>11. settled' \in BOOLEAN /\ (settled' => settled /\ s # typed)
  BY <1>2, <1>3, <1>7 DEF Inv, EditorTrue
<1>12. Endangered => g.at = "saved" /\ g.text = text
  BY <1>3, <1>4 DEF Endangered
<1>13. ~(settled' /\ text = typed)
  BY <1>2, <1>3
<1>14. QED
  BY <1>2, <1>3, <1>6, <1>8, <1>9, <1>10, <1>11, <1>12, <1>13, ProceedKeeps

LEMMA WriteAsKeeps == ASSUME Inv, NEW i \in DOMAIN flows, WriteAs(i) PROVE Inv'
<1>1. PICK f \in AnyFlow : f = flows[i] /\ FlowTrue(f) /\ f \in Range(flows)
  BY FlowIs DEF Inv
<1>2. /\ f.at = "writing" /\ disk' = [disk EXCEPT ![f.to] = f.text] /\ settled' = (settled /\ f.text # typed)
      /\ UNCHANGED <<granted, recents, clock, sidebarVars, editorVars, faults, typed, crossed>>
  BY <1>1 DEF WriteAs
<1>3. /\ f.text \in Known /\ (settled /\ text = typed => f.text = typed)
      /\ disk' \in [Paths -> Known] /\ (settled' => \A p \in Paths : disk'[p] # typed)
  BY <1>1, <1>2, Holds
<1>4. PICK g \in AnyFlow : /\ g = [f EXCEPT !.at = "listing"] /\ g.at = "listing" /\ g.op = f.op
                           /\ g.path = f.path /\ g.to = f.to /\ g.text = f.text /\ g.choice = f.choice
  <2>1. "listing" \in Stages
    BY DEF Stages
  <2>2. QED
    BY <2>1, AtIs
<1>5. Becomes({f}, {g})
  <2>1. Step(i, g)
    BY <1>1, <1>4 DEF WriteAs
  <2>2. QED
    BY <1>1, <2>1, StepIs DEF Inv
<1>6. PICK gone, new : gone = {f} /\ new = {g} /\ Becomes(gone, new)
  BY <1>5
<1>7. UNCHANGED <<doc, text, saved, preview, timer, lost>>
  BY <1>2 DEF editorVars
<1>8. EditorTrue'
  BY <1>2, <1>3, <1>7 DEF Inv, EditorTrue, Known
<1>9. FlowsTrue'
  <2>1. \A h \in new : FlowTrue(h)'
    <3>1. FlowTrue(g)
      BY <1>1, <1>2, <1>4 DEF FlowTrue
    <3>2. FlowTrue(g)'
      BY <1>2, <3>1 DEF FlowTrue, Known
    <3>3. QED
      BY <1>6, <3>2
  <2>2. typed' \in Nat /\ typed <= typed'
    BY <1>2 DEF Inv, EditorTrue, Given
  <2>3. QED
    BY <1>6, <2>1, <2>2, FlowsStay DEF Inv
<1>10. ListedTrue'
  <2>1. Listed(recents') \subseteq Listed(recents) /\ granted \subseteq granted'
    BY <1>2 DEF Listed
  <2>2. \A h \in new : crossed \/ h.to \in granted'
    BY <1>1, <1>2, <1>4, <1>6 DEF Inv, ListedTrue
  <2>3. QED
    BY <1>2, <1>6, <2>1, <2>2, ListedStay DEF Inv
<1>11. FilesTrue'
  <2>1. \A h \in gone : ~Carries(h)
    BY <1>2, <1>6 DEF Carries, WillList, WillShow
  <2>2. QED
    BY <1>2, <1>6, <2>1, FilesStay DEF Inv
<1>12. SettledTrue'
  <2>1. ~(settled' /\ text' = typed)
    BY <1>2, <1>3, <1>7
  <2>2. settled' => \A h \in new : FreshFlow(h)'
    BY <1>2, <1>4, <1>6, <2>1 DEF FreshFlow
  <2>3. settled' => settled /\ saved' # typed /\ \A p \in Paths : disk'[p] # typed
    BY <1>2, <1>3, <1>7 DEF Inv, SettledTrue
  <2>4. QED
    BY <1>2, <1>6, <2>1, <2>2, <2>3, SettledStay DEF Inv
<1>13. BackendTrue'
  BY <1>2 DEF Inv, BackendTrue
<1>14. QED
  BY <1>8, <1>9, <1>10, <1>11, <1>12, <1>13 DEF Inv

LEMMA ListSavedKeeps == ASSUME Inv, NEW i \in DOMAIN flows, ListSaved(i) PROVE Inv'
<1>1. PICK f \in AnyFlow : f = flows[i] /\ FlowTrue(f) /\ f \in Range(flows)
  BY FlowIs DEF Inv
<1>2. /\ f.at = "listing" /\ AddRecent(f.to, granted) /\ Crossing
      /\ UNCHANGED <<disk, clock, sidebarVars, editorVars, typed, settled>>
  BY <1>1 DEF ListSaved
<1>3. PICK g \in AnyFlow : /\ g = [f EXCEPT !.at = "stored"] /\ g.at = "stored" /\ g.op = f.op
                           /\ g.path = f.path /\ g.to = f.to /\ g.text = f.text /\ g.choice = f.choice
  <2>1. "stored" \in Stages
    BY DEF Stages
  <2>2. QED
    BY <2>1, AtIs
<1>4. Becomes({f}, {g})
  <2>1. Step(i, g)
    BY <1>1, <1>3 DEF ListSaved
  <2>2. QED
    BY <1>1, <2>1, StepIs DEF Inv
<1>5. PICK gone, new : gone = {f} /\ new = {g} /\ Becomes(gone, new)
  BY <1>4
<1>6. PICK p \in Paths : p = f.to
  BY <1>1, <1>2 DEF FlowTrue
<1>7. /\ recents' \in Seq(Recent) /\ faults' \in Nat
      /\ Listed(recents) \cup {p} \subseteq granted => Listed(recents') \subseteq granted'
  BY <1>2, <1>6, AddRecentIs DEF Inv
<1>8. EditorTrue' /\ FlowsTrue' /\ SettledTrue'
  <2>1. FlowTrue(g)
    BY <1>1, <1>2, <1>3 DEF FlowTrue
  <2>2. settled => FreshFlow(f)
    BY <1>1 DEF Inv, SettledTrue, FreshFlow
  <2>3. \A h \in new : FlowTrue(h) /\ (settled => FreshFlow(h))
    BY <1>2, <1>3, <1>5, <2>1, <2>2 DEF FreshFlow
  <2>4. QED
    BY <1>2, <1>5, <2>3, EditorStays
<1>9. ListedTrue' /\ crossed' \in BOOLEAN
  <2>1. \A h \in new : h.at \notin {"writing", "listing"}
    BY <1>3, <1>5
  <2>2. ~crossed => Listed(recents) \cup {p} \subseteq granted
    BY <1>1, <1>2, <1>6 DEF Inv, ListedTrue
  <2>3. ~crossed => Listed(recents)' \subseteq granted'
    <3>1. ~crossed => Listed(recents') \subseteq granted'
      BY <1>7, <2>2
    <3>2. QED
      BY <3>1 DEF Listed
  <2>4. QED
    BY <1>2, <1>5, <2>1, <2>3, ListedChanges DEF Inv, BackendTrue, FlowsTrue
<1>10. FilesTrue'
  <2>1. WillList(g)'
    BY <1>3 DEF WillList
  <2>2. QED
    BY <1>4, <2>1, FilesPending
<1>11. BackendTrue'
  BY <1>2, <1>7, <1>9 DEF Inv, BackendTrue
<1>12. QED
  BY <1>8, <1>9, <1>10, <1>11 DEF Inv

LEMMA FinishSaveAsKeeps == ASSUME Inv, NEW i \in DOMAIN flows, FinishSaveAs(i) PROVE Inv'
<1>1. PICK f \in AnyFlow : f = flows[i] /\ FlowTrue(f) /\ f \in Range(flows)
  BY FlowIs DEF Inv
<1>2. /\ f.at = "saved" /\ Show(f)
      /\ UNCHANGED <<disk, granted, recents, clock, faults, typed, settled, crossed>>
  BY <1>1 DEF FinishSaveAs, Show, backendVars
<1>3. ~(settled /\ text = typed)
  <2>1. settled => f.text # typed
    BY <1>1, <1>2 DEF Inv, SettledTrue
  <2>2. QED
    BY <1>1, <1>2, <2>1, Holds
<1>4. PICK gone : gone = {f}
  OBVIOUS
<1>5. PICK rest : rest = Others(i) /\ Rest(rest, gone)
  BY <1>1, <1>4, OthersRest DEF Inv
<1>6. f.to \in Paths
  BY <1>1, <1>2 DEF FlowTrue
<1>7. PICK d \in Paths \cup {Untitled, None}, s \in Known : d = f.to /\ s = text
  BY <1>6 DEF Inv, EditorTrue
<1>8. Proceed(f, rest, d, s)
  BY <1>1, <1>5, <1>7 DEF FinishSaveAs
<1>9. disk' \in [Paths -> Known] /\ settled' \in BOOLEAN /\ Shown(gone)
  <2>1. Shown(gone)
    BY <1>2, <1>4 DEF Show, Shown, WillShow
  <2>2. QED
    BY <1>2, <2>1 DEF Inv, EditorTrue
<1>10. settled' => settled /\ s # typed /\ \A p \in Paths : disk'[p] # typed
  BY <1>2, <1>3, <1>7 DEF Inv, SettledTrue
<1>11. ~Endangered
  BY <1>3 DEF Endangered
<1>12. QED
  BY <1>1, <1>2, <1>3, <1>5, <1>8, <1>9, <1>10, <1>11, ProceedKeeps

LEMMA ReadKeeps == ASSUME Inv, NEW i \in DOMAIN flows, Read(i) PROVE Inv'
<1>1. PICK f \in AnyFlow : f = flows[i] /\ FlowTrue(f) /\ f \in Range(flows)
  BY FlowIs DEF Inv
<1>2. /\ f.at = "read" /\ f.path \in granted
      /\ UNCHANGED <<disk, granted, recents, clock, sidebarVars, faults, typed, settled, crossed>>
  BY <1>1 DEF Read, backendVars
<1>3. PICK p \in Paths : p = f.path
  BY <1>1, <1>2 DEF FlowTrue
<1>4. PICK t \in Known : t = disk[p]
  BY DEF Inv, EditorTrue
<1>5. settled => t # typed /\ FreshFlow(f)
  BY <1>1, <1>4 DEF Inv, SettledTrue, FreshFlow
<1>6. BackendTrue'
  BY <1>2 DEF Inv, BackendTrue
<1>7. Listed(recents') \subseteq Listed(recents)
  BY <1>2 DEF Listed
<1>8. CASE f.op = "open" /\ Step(i, [f EXCEPT !.at = "loaded", !.to = disk[f.path]]) /\ UNCHANGED editorVars
  <2>1. t \in Nat
    BY DEF Inv, EditorTrue, Known, Blank
  <2>2. PICK g \in AnyFlow : /\ g = [f EXCEPT !.at = "loaded", !.to = t] /\ g.at = "loaded" /\ g.to = t
                             /\ g.op = f.op /\ g.path = f.path /\ g.text = f.text /\ g.choice = f.choice
    <3>1. "loaded" \in Stages
      BY DEF Stages
    <3>2. [f EXCEPT !.at = "loaded", !.to = t] \in AnyFlow
      BY <2>1, <3>1 DEF AnyFlow
    <3>3. QED
      BY <3>2 DEF AnyFlow
  <2>3. Becomes({f}, {g})
    BY <1>1, <1>3, <1>4, <1>8, <2>2, StepIs DEF Inv
  <2>4. PICK gone, new : gone = {f} /\ new = {g} /\ Becomes(gone, new)
    BY <2>3
  <2>5. EditorTrue' /\ FlowsTrue' /\ SettledTrue'
    <3>1. FlowTrue(g)
      BY <1>1, <1>2, <2>2 DEF FlowTrue
    <3>2. settled => FreshFlow(g)
      BY <1>2, <1>5, <2>2 DEF FreshFlow
    <3>3. \A h \in new : FlowTrue(h) /\ (settled => FreshFlow(h))
      BY <2>4, <3>1, <3>2
    <3>4. QED
      BY <1>2, <1>8, <2>4, <3>3, EditorStays
  <2>6. ListedTrue'
    <3>1. \A h \in new : h.at \notin {"writing", "listing"}
      BY <2>2, <2>4
    <3>2. QED
      BY <1>2, <1>7, <2>4, <3>1, ListedStay DEF Inv
  <2>7. FilesTrue'
    <3>1. WillList(g)'
      BY <2>2 DEF WillList
    <3>2. QED
      BY <2>3, <3>1, FilesPending
  <2>8. QED
    BY <1>6, <2>5, <2>6, <2>7 DEF Inv
<1>9. CASE f.op # "open" /\ Give(i) /\ Load(f.path, disk[f.path], f)
  <2>1. PICK gone, new : gone = {f} /\ new = {}
    OBVIOUS
  <2>2. Becomes(gone, new) /\ Becomes(gone, {})
    <3>1. Becomes({flows[i]}, {})
      BY <1>9, GiveEnds DEF Inv
    <3>2. QED
      BY <1>1, <2>1, <3>1
  <2>3. Load(p, t, f)
    BY <1>3, <1>4, <1>9
  <2>4. Endangered => f.choice = "discard"
    BY <1>2, <1>5 DEF Endangered, FreshFlow
  <2>5. /\ settled' => settled /\ t # typed /\ \A q \in Paths : disk'[q] # typed
        /\ settled' \in BOOLEAN /\ disk' \in [Paths -> Known]
    BY <1>2, <1>5 DEF Inv, EditorTrue, SettledTrue
  <2>6. EditorTrue' /\ SettledTrue'
    BY <1>2, <2>2, <2>3, <2>4, <2>5, LoadKeeps DEF Inv
  <2>7. FlowsTrue'
    <3>1. \A h \in new : FlowTrue(h)'
      BY <2>1
    <3>2. typed' \in Nat /\ typed <= typed'
      BY <1>2 DEF Inv, EditorTrue, Given
    <3>3. QED
      BY <2>2, <3>1, <3>2, FlowsStay DEF Inv
  <2>8. ListedTrue'
    <3>1. \A h \in new : h.at \notin {"writing", "listing"}
      BY <2>1
    <3>2. QED
      BY <1>2, <1>7, <2>2, <3>1, ListedStay DEF Inv
  <2>9. FilesTrue'
    <3>1. \A h \in gone : ~Carries(h)
      BY <1>2, <1>9, <2>1 DEF Carries, WillList, WillShow
    <3>2. QED
      BY <1>2, <2>2, <3>1, FilesStay DEF Inv
  <2>10. QED
    BY <1>6, <2>6, <2>7, <2>8, <2>9 DEF Inv
<1>10. QED
  BY <1>1, <1>8, <1>9 DEF Read

LEMMA FinishOpenKeeps == ASSUME Inv, NEW i \in DOMAIN flows, FinishOpen(i) PROVE Inv'
<1>1. PICK f \in AnyFlow : f = flows[i] /\ FlowTrue(f) /\ f \in Range(flows)
  BY FlowIs DEF Inv
<1>2. /\ f.at = "opened" /\ Show(f) /\ Give(i) /\ Load(f.path, f.to, f)
      /\ UNCHANGED <<disk, granted, recents, clock, faults, typed, settled, crossed>>
  BY <1>1 DEF FinishOpen, Show, backendVars
<1>3. PICK p \in Paths, t \in Known : p = f.path /\ t = f.to
  BY <1>1, <1>2 DEF FlowTrue
<1>4. settled => t # typed /\ FreshFlow(f)
  BY <1>1, <1>2, <1>3 DEF Inv, SettledTrue, FreshFlow
<1>5. PICK gone, new : gone = {f} /\ new = {}
  OBVIOUS
<1>6. Becomes(gone, new) /\ Becomes(gone, {})
  <2>1. Becomes({flows[i]}, {})
    BY <1>2, GiveEnds DEF Inv
  <2>2. QED
    BY <1>1, <1>5, <2>1
<1>7. EditorTrue' /\ SettledTrue'
  <2>1. Load(p, t, f)
    BY <1>2, <1>3
  <2>2. Endangered => f.choice = "discard"
    BY <1>2, <1>4 DEF Endangered, FreshFlow
  <2>3. /\ settled' => settled /\ t # typed /\ \A q \in Paths : disk'[q] # typed
        /\ settled' \in BOOLEAN /\ disk' \in [Paths -> Known]
    BY <1>2, <1>4 DEF Inv, EditorTrue, SettledTrue
  <2>4. QED
    BY <1>2, <1>6, <2>1, <2>2, <2>3, LoadKeeps DEF Inv
<1>8. FlowsTrue' /\ ListedTrue'
  <2>1. /\ \A h \in new : FlowTrue(h)'
        /\ \A h \in new : h.at \notin {"writing", "listing"}
    BY <1>5
  <2>2. typed' \in Nat /\ typed <= typed'
    BY <1>2 DEF Inv, EditorTrue, Given
  <2>3. Listed(recents') \subseteq Listed(recents)
    BY <1>2 DEF Listed
  <2>4. FlowsTrue'
    BY <1>6, <2>1, <2>2, FlowsStay DEF Inv
  <2>5. ListedTrue'
    BY <1>2, <1>6, <2>1, <2>3, ListedStay DEF Inv
  <2>6. QED
    BY <2>4, <2>5
<1>9. FilesTrue' /\ BackendTrue'
  <2>1. Shown(gone)
    BY <1>2, <1>5 DEF Show, Shown, WillShow
  <2>2. FilesTrue'
    BY <1>2, <1>6, <2>1, FilesShown DEF Inv
  <2>3. QED
    BY <1>2, <2>2 DEF Inv, BackendTrue
<1>10. QED
  BY <1>7, <1>8, <1>9 DEF Inv

-----------------------------------------------------------------------------
(* Removing and moving.                                                    *)

LEMMA CallRemoveKeeps == ASSUME Inv, NEW i \in DOMAIN flows, CallRemove(i) PROVE Inv'
<1>1. PICK f \in AnyFlow : f = flows[i] /\ FlowTrue(f) /\ f \in Range(flows)
  BY FlowIs DEF Inv
<1>2. /\ f.at = "remove" /\ Revoke(f.path) /\ Crossing
      /\ UNCHANGED <<disk, clock, sidebarVars, editorVars, typed, settled>>
  BY <1>1 DEF CallRemove
<1>3. faults \in Nat /\ recents \in Seq(Recent)
  BY DEF Inv, BackendTrue
<1>4. ASSUME NEW new, Becomes({f}, new), \A h \in new : FlowTrue(h) /\ h.at = "removed" /\ (settled => FreshFlow(h)),
             recents' \in Seq(Recent), faults' \in Nat, ~crossed => Listed(recents') \subseteq granted'
      PROVE  EditorTrue' /\ BackendTrue' /\ FlowsTrue' /\ ListedTrue' /\ SettledTrue'
  <2>1. PICK gone : gone = {f}
    OBVIOUS
  <2>2. Becomes(gone, new)
    BY <1>4, <2>1
  <2>3. EditorTrue' /\ FlowsTrue' /\ SettledTrue'
    BY <1>2, <1>4, <2>2, EditorStays
  <2>4. ~crossed => Listed(recents)' \subseteq granted'
    BY <1>4 DEF Listed
  <2>5. \A h \in new : h.at \notin {"writing", "listing"}
    BY <1>4
  <2>6. ListedTrue' /\ crossed' \in BOOLEAN
    BY <1>2, <2>2, <2>4, <2>5, ListedChanges DEF Inv, BackendTrue, FlowsTrue
  <2>7. BackendTrue'
    BY <1>2, <1>4, <2>6 DEF Inv, BackendTrue
  <2>8. QED
    BY <2>3, <2>6, <2>7
<1>5. CASE recents' = WithoutRecent(f.path) /\ granted' = granted \ {f.path} /\ UNCHANGED faults
  <2>1. PICK g \in AnyFlow : /\ g = [f EXCEPT !.at = "removed"] /\ g.at = "removed" /\ g.op = f.op
                             /\ g.path = f.path /\ g.to = f.to /\ g.text = f.text /\ g.choice = f.choice
    <3>1. "removed" \in Stages
      BY DEF Stages
    <3>2. QED
      BY <3>1, AtIs
  <2>2. Becomes({f}, {g})
    <3>1. Step(i, g)
      BY <1>1, <1>5, <2>1 DEF CallRemove
    <3>2. QED
      BY <1>1, <3>1, StepIs DEF Inv
  <2>3. PICK new : new = {g} /\ Becomes({f}, new)
    BY <2>2
  <2>4. \A h \in new : FlowTrue(h) /\ h.at = "removed" /\ (settled => FreshFlow(h))
    <3>1. FlowTrue(g)
      BY <1>1, <1>2, <2>1 DEF FlowTrue
    <3>2. settled => FreshFlow(f)
      BY <1>1 DEF Inv, SettledTrue, FreshFlow
    <3>3. QED
      BY <2>1, <2>3, <3>1, <3>2 DEF FreshFlow
  <2>5. recents' \in Seq(Recent) /\ (~crossed => Listed(recents') \subseteq granted')
    <3>1. WithoutRecent(f.path) \in Seq(Recent) /\ Listed(WithoutRecent(f.path)) \subseteq Listed(recents) \ {f.path}
      BY WithoutIs DEF Inv
    <3>2. QED
      BY <1>5, <3>1 DEF Inv, ListedTrue
  <2>6. WillList(g)'
    BY <2>1 DEF WillList
  <2>7. FilesTrue'
    BY <2>2, <2>6, FilesPending
  <2>8. QED
    BY <1>3, <1>4, <1>5, <2>3, <2>4, <2>5, <2>7 DEF Inv
<1>6. CASE MayFail /\ Fail /\ UNCHANGED <<recents, granted>>
  <2>1. faults' \in Nat /\ faults' # faults /\ faults' # 0
    BY <1>3, <1>6 DEF Fail
  <2>2. Give(i)
    BY <2>1 DEF CallRemove
  <2>3. PICK new : new = {} /\ Becomes({f}, new)
    BY <1>1, <2>2, GiveEnds DEF Inv
  <2>4. \A h \in new : FlowTrue(h) /\ h.at = "removed" /\ (settled => FreshFlow(h))
    BY <2>3
  <2>5. recents' \in Seq(Recent) /\ (~crossed => Listed(recents') \subseteq granted')
    BY <1>3, <1>6 DEF Inv, ListedTrue
  <2>6. FilesTrue'
    BY <2>1 DEF FilesTrue
  <2>7. QED
    BY <1>4, <2>1, <2>3, <2>4, <2>5, <2>6 DEF Inv
<1>7. QED
  BY <1>2, <1>5, <1>6 DEF Revoke

LEMMA CallMoveKeeps == ASSUME Inv, NEW i \in DOMAIN flows, CallMove(i) PROVE Inv'
<1>1. PICK f \in AnyFlow : f = flows[i] /\ FlowTrue(f) /\ f \in Range(flows)
  BY FlowIs DEF Inv
<1>2. f.at = "move" /\ UNCHANGED <<disk, granted, clock, sidebarVars, editorVars, typed, settled, crossed>>
  BY <1>1 DEF CallMove
<1>3. faults \in Nat /\ recents \in Seq(Recent)
  BY DEF Inv, BackendTrue
<1>4. ASSUME NEW new, Becomes({f}, new), \A h \in new : FlowTrue(h) /\ h.at = "moved" /\ (settled => FreshFlow(h)),
             recents' \in Seq(Recent), faults' \in Nat, Listed(recents') \subseteq Listed(recents)
      PROVE  EditorTrue' /\ BackendTrue' /\ FlowsTrue' /\ ListedTrue' /\ SettledTrue'
  <2>1. PICK gone : gone = {f} /\ Becomes(gone, new)
    BY <1>4
  <2>2. EditorTrue' /\ FlowsTrue' /\ SettledTrue'
    BY <1>2, <1>4, <2>1, EditorStays
  <2>3. \A h \in new : h.at \notin {"writing", "listing"}
    BY <1>4
  <2>4. ListedTrue'
    BY <1>2, <1>4, <2>1, <2>3, ListedStay DEF Inv
  <2>5. BackendTrue'
    BY <1>2, <1>4 DEF Inv, BackendTrue
  <2>6. QED
    BY <2>2, <2>4, <2>5
<1>5. CASE /\ recents' = IF f.path \in Listed(recents) THEN Moved(f.path, f.to) ELSE recents
           /\ Step(i, [f EXCEPT !.at = "moved"]) /\ UNCHANGED faults
  <2>1. PICK g \in AnyFlow : /\ g = [f EXCEPT !.at = "moved"] /\ g.at = "moved" /\ g.op = f.op
                             /\ g.path = f.path /\ g.to = f.to /\ g.text = f.text /\ g.choice = f.choice
    <3>1. "moved" \in Stages
      BY DEF Stages
    <3>2. QED
      BY <3>1, AtIs
  <2>2. Becomes({f}, {g})
    <3>1. Step(i, g)
      BY <1>5, <2>1
    <3>2. QED
      BY <1>1, <3>1, StepIs DEF Inv
  <2>3. PICK new : new = {g} /\ Becomes({f}, new)
    BY <2>2
  <2>4. \A h \in new : FlowTrue(h) /\ h.at = "moved" /\ (settled => FreshFlow(h))
    <3>1. FlowTrue(g)
      BY <1>1, <1>2, <2>1 DEF FlowTrue
    <3>2. settled => FreshFlow(f)
      BY <1>1 DEF Inv, SettledTrue, FreshFlow
    <3>3. QED
      BY <2>1, <2>3, <3>1, <3>2 DEF FreshFlow
  <2>5. recents' \in Seq(Recent) /\ Listed(recents') \subseteq Listed(recents)
    <3>1. CASE f.path \in Listed(recents)
      <4>1. f.to \in Nat
        BY <1>1, <1>2 DEF FlowTrue
      <4>2. /\ Moved(f.path, f.to) \in Seq(Recent)
            /\ Listed(Moved(f.path, f.to)) \subseteq Listed(recents)
        BY <3>1, <4>1, MovedIs DEF Inv
      <4>3. QED
        BY <1>5, <3>1, <4>2
    <3>2. CASE f.path \notin Listed(recents)
      BY <1>3, <1>5, <3>2
    <3>3. QED
      BY <3>1, <3>2
  <2>6. WillList(g)'
    BY <2>1 DEF WillList
  <2>7. FilesTrue'
    BY <2>2, <2>6, FilesPending
  <2>8. QED
    BY <1>3, <1>4, <1>5, <2>3, <2>4, <2>5, <2>7 DEF Inv
<1>6. CASE MayFail /\ Fail /\ Give(i) /\ UNCHANGED recents
  <2>1. faults' \in Nat /\ faults' # 0
    BY <1>3, <1>6 DEF Fail
  <2>2. PICK new : new = {} /\ Becomes({f}, new)
    BY <1>1, <1>6, GiveEnds DEF Inv
  <2>3. \A h \in new : FlowTrue(h) /\ h.at = "moved" /\ (settled => FreshFlow(h))
    BY <2>2
  <2>4. recents' \in Seq(Recent) /\ Listed(recents') \subseteq Listed(recents)
    BY <1>3, <1>6
  <2>5. FilesTrue'
    BY <2>1 DEF FilesTrue
  <2>6. QED
    BY <1>4, <2>1, <2>2, <2>3, <2>4, <2>5 DEF Inv
<1>7. QED
  BY <1>1, <1>5, <1>6 DEF CallMove

\* The list is shown; the document may close.
LEMMA FinishKeeps ==
  ASSUME Inv, NEW i \in DOMAIN flows, Give(i), Show(flows[i]), WillShow(flows[i]), doc' \in {doc, None},
         UNCHANGED <<text, saved, preview, timer, quit, lost>>
  PROVE  Inv'
<1>1. PICK f : f = flows[i]
  OBVIOUS
<1>2. PICK gone, new : gone = {f} /\ new = {}
  OBVIOUS
<1>3. Becomes(gone, new)
  <2>1. Becomes({flows[i]}, {})
    BY GiveEnds DEF Inv
  <2>2. QED
    BY <1>1, <1>2, <2>1
<1>4. UNCHANGED <<disk, granted, recents, clock, faults, typed, settled, crossed>>
  BY DEF Show, backendVars
<1>5. EditorTrue' /\ BackendTrue'
  BY <1>4 DEF Inv, EditorTrue, BackendTrue, Known
<1>6. FlowsTrue'
  <2>1. \A h \in new : FlowTrue(h)'
    BY <1>2
  <2>2. typed' \in Nat /\ typed <= typed'
    BY <1>4 DEF Inv, EditorTrue, Given
  <2>3. QED
    BY <1>3, <2>1, <2>2, FlowsStay DEF Inv
<1>7. ListedTrue'
  <2>1. Listed(recents') \subseteq Listed(recents) /\ \A h \in new : h.at \notin {"writing", "listing"}
    BY <1>2, <1>4 DEF Listed
  <2>2. QED
    BY <1>3, <1>4, <2>1, ListedStay DEF Inv
<1>8. FilesTrue'
  <2>1. Shown(gone)
    BY <1>1, <1>2 DEF Show, Shown
  <2>2. QED
    BY <1>3, <1>4, <2>1, FilesShown DEF Inv
<1>9. SettledTrue'
  <2>1. settled' => \A h \in new : FreshFlow(h)'
    BY <1>2
  <2>2. settled' => settled /\ saved' # typed /\ \A p \in Paths : disk'[p] # typed
    BY <1>4 DEF Inv, SettledTrue
  <2>3. QED
    BY <1>3, <1>4, <2>1, <2>2, SettledStay DEF Inv
<1>10. QED
  BY <1>5, <1>6, <1>7, <1>8, <1>9 DEF Inv

LEMMA FinishRemoveKeeps == ASSUME Inv, NEW i \in DOMAIN flows, FinishRemove(i) PROVE Inv'
<1>1. doc' \in {doc, None} /\ WillShow(flows[i])
  BY DEF FinishRemove, WillShow
<1>2. QED
  BY <1>1, FinishKeeps DEF FinishRemove

LEMMA FinishMoveKeeps == ASSUME Inv, NEW i \in DOMAIN flows, FinishMove(i) \/ FinishMount(i) PROVE Inv'
<1>1. WillShow(flows[i]) /\ Show(flows[i]) /\ Give(i) /\ UNCHANGED editorVars
  BY DEF FinishMove, FinishMount, GiveUp, WillShow
<1>2. QED
  BY <1>1, FinishKeeps DEF editorVars

\* What was read at a stage is shown at its next one.
LEMMA ShowsIs ==
  ASSUME NEW at \in DOMAIN Shows
  PROVE  \/ at = "mounted" /\ Shows[at] = "listed"
         \/ at = "stored" /\ Shows[at] = "saved"
         \/ at = "loaded" /\ Shows[at] = "opened"
         \/ at = "removed" /\ Shows[at] = "unlisted"
         \/ at = "moved" /\ Shows[at] = "reordered"
  BY DEF Shows

LEMMA OrderIs == BackendTrue => Order(recents) \in Seq(Paths)
<1>1. SUFFICES ASSUME BackendTrue PROVE Order(recents) \in Seq(Paths)
  OBVIOUS
<1>2. PICK n \in Nat : n = Len(recents) /\ DOMAIN recents = 1 .. n
  BY LenProperties DEF BackendTrue
<1>3. \A k \in 1 .. n : recents[k] \in Recent
  BY <1>1, <1>2, ElementOfSeq DEF BackendTrue
<1>4. \A k \in 1 .. n : recents[k].path \in Paths
  BY <1>3 DEF Recent
<1>5. PICK s \in [1 .. n -> Paths] : s = [k \in 1 .. n |-> recents[k].path]
  BY <1>4
<1>6. s \in Seq(Paths)
  BY UpToIsSeq
<1>7. QED
  BY <1>2, <1>5, <1>6 DEF Order

LEMMA ListFilesKeeps == ASSUME Inv, NEW i \in DOMAIN flows, ListFiles(i) PROVE Inv'
<1>1. PICK f \in AnyFlow : f = flows[i] /\ FlowTrue(f) /\ f \in Range(flows)
  BY FlowIs DEF Inv
<1>2. /\ f.at \in DOMAIN Shows /\ latest' = Order(recents)
      /\ UNCHANGED <<disk, granted, recents, clock, editorVars, faults, typed, settled, crossed>>
  BY <1>1 DEF ListFiles, backendVars
<1>3. PICK order \in Seq(Paths) : order = Order(recents)
  BY OrderIs DEF Inv
<1>4. PICK at \in {"listed", "saved", "opened", "unlisted", "reordered"} :
          /\ at = Shows[f.at]
          /\ \/ f.at = "mounted" /\ at = "listed"
             \/ f.at = "stored" /\ at = "saved"
             \/ f.at = "loaded" /\ at = "opened"
             \/ f.at = "removed" /\ at = "unlisted"
             \/ f.at = "moved" /\ at = "reordered"
  BY <1>2, ShowsIs
<1>5. PICK g \in AnyFlow : /\ g = [f EXCEPT !.at = at, !.list = order] /\ g.at = at /\ g.list = order
                           /\ g.op = f.op /\ g.path = f.path /\ g.to = f.to /\ g.text = f.text /\ g.choice = f.choice
  <2>1. at \in Stages
    BY DEF Stages
  <2>2. [f EXCEPT !.at = at, !.list = order] \in AnyFlow
    BY <2>1 DEF AnyFlow
  <2>3. QED
    BY <2>2 DEF AnyFlow
<1>6. Becomes({f}, {g})
  <2>1. Step(i, g)
    BY <1>1, <1>3, <1>4, <1>5 DEF ListFiles
  <2>2. QED
    BY <1>1, <2>1, StepIs DEF Inv
<1>7. PICK gone, new : gone = {f} /\ new = {g} /\ Becomes(gone, new)
  BY <1>6
<1>8. EditorTrue' /\ FlowsTrue' /\ SettledTrue'
  <2>1. FlowTrue(g)
    BY <1>1, <1>4, <1>5 DEF FlowTrue
  <2>2. settled => FreshFlow(f)
    BY <1>1 DEF Inv, SettledTrue, FreshFlow
  <2>3. settled => FreshFlow(g)
    BY <1>4, <1>5, <2>2 DEF FreshFlow
  <2>4. \A h \in new : FlowTrue(h) /\ (settled => FreshFlow(h))
    BY <1>7, <2>1, <2>3
  <2>5. QED
    BY <1>2, <1>7, <2>4, EditorStays
<1>9. ListedTrue'
  <2>1. \A h \in new : h.at \notin {"writing", "listing"}
    BY <1>4, <1>5, <1>7
  <2>2. Listed(recents') \subseteq Listed(recents)
    BY <1>2 DEF Listed
  <2>3. QED
    BY <1>2, <1>7, <2>1, <2>2, ListedStay DEF Inv
<1>10. FilesTrue'
  <2>1. WillShow(g)
    BY <1>5 DEF WillShow
  <2>2. QED
    BY <1>2, <1>3, <1>5, <1>6, <2>1, FilesRead
<1>11. BackendTrue'
  BY <1>2 DEF Inv, BackendTrue
<1>12. QED
  BY <1>8, <1>9, <1>10, <1>11 DEF Inv

-----------------------------------------------------------------------------
(* Every state.                                                            *)

LEMMA Initially == Init => Inv
<1>1. SUFFICES ASSUME Init PROVE Inv
  OBVIOUS
<1>2. PICK n \in Nat : \E s \in [1 .. n -> Paths] :
          recents = [j \in DOMAIN s |-> [path |-> s[j], at |-> 0]]
  <2>1. PICK s \in UNION {[1 .. m -> Paths] : m \in 0 .. MaxRecents} :
            recents = [j \in DOMAIN s |-> [path |-> s[j], at |-> 0]]
    BY <1>1 DEF Init
  <2>2. PICK m \in 0 .. MaxRecents : s \in [1 .. m -> Paths]
    BY <2>1
  <2>3. m \in Nat
    BY <2>2, FilesAssumption
  <2>4. QED
    BY <2>1, <2>2, <2>3
<1>3. recents \in Seq(Recent)
  <2>1. \A p \in Paths : [path |-> p, at |-> 0] \in Recent
    BY DEF Recent
  <2>2. PICK s \in [1 .. n -> Paths] : recents = [j \in DOMAIN s |-> [path |-> s[j], at |-> 0]]
    BY <1>2
  <2>3. PICK rs \in [1 .. n -> Recent] : rs = [j \in 1 .. n |-> [path |-> s[j], at |-> 0]]
    BY <2>1, <2>2
  <2>4. rs \in Seq(Recent)
    BY UpToIsSeq
  <2>5. recents = rs
    BY <2>2, <2>3
  <2>6. QED
    BY <2>4, <2>5
<1> DEFINE first == [Flow("mount", None) EXCEPT !.at = "mounted"]
<1>4. /\ first \in AnyFlow /\ first.at = "mounted" /\ first.op = "mount" /\ first.text = None
      /\ flows = <<first>> /\ <<first>> \in Seq(AnyFlow) /\ Range(<<first>>) = {first}
  <2>1. <<>> \in Seq(Paths)
    OBVIOUS
  <2>2. /\ first \in AnyFlow /\ first.at = "mounted" /\ first.op = "mount" /\ first.text = None
        /\ first.path = None /\ first.to = None
    BY <2>1 DEF Flow, AnyFlow, Stages, Operations
  <2>3. flows = <<first>>
    BY <1>1 DEF Init
  <2> HIDE DEF first
  <2>4. <<first>> \in Seq(AnyFlow) /\ Range(<<first>>) = {first}
    BY <2>2 DEF Range
  <2>5. QED
    BY <2>2, <2>3, <2>4
<1> HIDE DEF first
<1>5. BackendTrue /\ ListedTrue /\ FilesTrue /\ SettledTrue /\ FlowsTrue
  <2>1. granted = Listed(recents) /\ settled = FALSE /\ crossed = FALSE /\ clock = 0 /\ faults = 0
    BY <1>1 DEF Init
  <2>2. \A f \in Range(flows) : f = first
    BY <1>4
  <2>3. BackendTrue
    BY <1>3, <2>1 DEF BackendTrue
  <2>4. ListedTrue
    BY <1>4, <2>1, <2>2 DEF ListedTrue
  <2>5. FilesTrue
    BY <1>4 DEF FilesTrue, WillList
  <2>6. SettledTrue
    BY <2>1 DEF SettledTrue
  <2>7. FlowsTrue
    BY <1>4, <2>2 DEF FlowsTrue, FlowTrue
  <2>8. QED
    BY <2>3, <2>4, <2>5, <2>6, <2>7
<1>6. EditorTrue
  <2>1. typed = 1 /\ MaxText \in Nat \ {0}
    BY <1>1, FilesAssumption DEF Init, Given
  <2>2. typed \in Given .. MaxText /\ 0 \in Known /\ 1 \in Known
    BY <2>1 DEF Given, Known, Blank
  <2>3. disk \in [Paths -> Known]
    BY <1>1, <2>2 DEF Init, Given
  <2>4. text = 0 /\ saved = 0 /\ preview = 0 /\ timer = None /\ doc = None /\ settled = FALSE /\ lost = FALSE
    BY <1>1 DEF Init, Blank
  <2>5. QED
    BY <2>2, <2>3, <2>4 DEF EditorTrue
<1>7. QED
  BY <1>5, <1>6 DEF Inv

LEMMA Steps == Inv /\ [Next]_vars => Inv'
<1>1. SUFFICES ASSUME Inv, [Next]_vars PROVE Inv'
  OBVIOUS
<1>2. CASE OpenFile
  BY <1>1, <1>2, StartKeeps DEF OpenFile, Operations
<1>3. CASE NewUntitled
  BY <1>1, <1>3, StartKeeps DEF NewUntitled, Operations
<1>4. CASE CloseWindow
  BY <1>1, <1>4, StartKeeps DEF CloseWindow, Operations
<1>5. ASSUME NEW p \in Paths, SelectFile(p) PROVE Inv'
  BY <1>1, <1>5, StartKeeps DEF SelectFile, Operations
<1>6. ASSUME NEW p \in Paths, NEW n \in 0 .. MaxRecents, MoveFile(p, n) PROVE Inv'
  <2>1. n \in Nat
    BY FilesAssumption
  <2>2. QED
    BY <1>1, <1>6, <2>1, MoveFileKeeps
<1>7. CASE User
  BY <1>1, <1>2, <1>3, <1>4, <1>5, <1>6, <1>7, TypeKeeps, SaveActiveKeeps, DropFileKeeps, RemoveFileKeeps
  DEF User
<1>8. ASSUME NEW i \in DOMAIN flows, Dialog(i) PROVE Inv'
  BY <1>1, <1>8, CancelKeeps, DiscardKeeps, SaveFirstKeeps, PickFileKeeps, PickTargetKeeps DEF Dialog
<1>9. ASSUME NEW i \in DOMAIN flows, FlowGoesOn(i) PROVE Inv'
  BY <1>1, <1>9, DropReadKeeps, WriteKeeps, CancelKeeps, IOFailsKeeps, ReadKeeps, FinishOpenKeeps,
     WriteAsKeeps, ListSavedKeeps, FinishSaveAsKeeps, CallRemoveKeeps, FinishRemoveKeeps, CallMoveKeeps,
     FinishMoveKeeps, ListFilesKeeps DEF FlowGoesOn
<1>10. CASE UNCHANGED vars
  <2>1. clock' \in Nat /\ timer' \in {None, text} /\ (timer' = None => preview' = text)
    BY <1>1, <1>10 DEF vars, backendVars, editorVars, Inv, BackendTrue, EditorTrue
  <2>2. QED
    BY <1>1, <1>10, <2>1, QuietKeeps DEF vars, backendVars, editorVars
<1>11. QED
  BY <1>1, <1>7, <1>8, <1>9, <1>10, ParseKeeps, TickKeeps DEF Next

\* The invariant holds in every state of the editor.
THEOREM InvHolds == Spec => []Inv
<1>1. Init => Inv
  BY Initially
<1>2. Inv /\ [Next]_vars => Inv'
  BY Steps
<1>3. QED
  BY <1>1, <1>2, PTL DEF Spec

\* Nothing the user typed before an operation began is dropped unasked
\* (openapi-provider.tsx:102-112, 187-199).
THEOREM AlwaysAskedFirst == Spec => []AskedFirst
<1>1. Inv => AskedFirst
  BY DEF Inv, EditorTrue, AskedFirst
<1>2. QED
  BY <1>1, InvHolds, PTL

\* What the sidebar lists has its permission (file_service.go:89, 131-150).
THEOREM ListedAlwaysReadable == Spec => []ListedIsReadable
<1>1. Inv => ListedIsReadable
  BY DEF Inv, ListedTrue, ListedIsReadable
<1>2. QED
  BY <1>1, InvHolds, PTL

\* When nothing is under way the sidebar shows the backend's list, but for an
\* answer that was overtaken, and the preview is the parse of the text
\* (files.ts:21-37, editor.ts:34-41).
THEOREM AlwaysShownFresh == Spec => []ShownFresh
<1>1. Inv => ShownFresh
  <2>1. Range(<<>>) = {}
    BY DEF Range
  <2>2. QED
    BY <2>1 DEF Inv, EditorTrue, FilesTrue, ShownTrue, ShownFresh
<1>2. QED
  BY <1>1, InvHolds, PTL
=============================================================================
