--------------------------- MODULE UdpClientProofs ---------------------------
(***************************************************************************)
(* The listener and the targets of UdpClient, for any number of sessions,  *)
(* calls, packets and targets: their inductive invariants, and what the    *)
(* runs check of them on a small instance.                                 *)
(***************************************************************************)
EXTENDS UdpClient, FiniteSetTheorems, FunctionTheorems, SequenceTheorems, WellFoundedInduction, TLAPS

-----------------------------------------------------------------------------
(* Sequences.                                                              *)

\* No element is there twice.
Distinct(s) == \A i, j \in 1 .. Len(s) : s[i] = s[j] => i = j

\* A set of numbers has a least one.
LEMMA LeastOf ==
  ASSUME NEW T, T \subseteq Nat, T # {}
  PROVE  \E n \in T : \A m \in T : ~ (m < n)
<1> DEFINE R == {pair \in Nat \X Nat : pair[1] < pair[2]}
<1>1. IsWellFoundedOn(R, Nat)
  BY NatLessThanWellFounded, Zenon DEF OpToRel
<1>2. PICK n \in T : \A m \in T : <<m, n>> \notin R
  <2> HIDE DEF R
  <2>1. QED
    BY <1>1, WFMin
<1>3. \A m \in T : m < n => <<m, n>> \in R
  OBVIOUS
<1>4. QED
  BY <1>2, <1>3

\* What is given for the numbers up to n is a sequence.
LEMMA UpToIsSeq ==
  ASSUME NEW A, NEW n \in Nat, NEW f \in [1 .. n -> A]
  PROVE  f \in Seq(A) /\ Len(f) = n
<1>1. f \in Seq(A)
  BY SeqDef
<1>2. QED
  BY <1>1, LenProperties

\* f is the function that Only defines, up to n.
FilterUpTo(f, seq, S, n) ==
    f = [i \in 0 .. n |->
            IF i = 0 THEN <<>>
            ELSE IF seq[i] \in S THEN Append(f[i - 1], seq[i]) ELSE f[i - 1]]

\* The recursive function that Only is defined by exists.
LEMMA FiltersExists ==
  ASSUME NEW seq, NEW S, NEW n \in Nat
  PROVE  \E f : FilterUpTo(f, seq, S, n)
<1> DEFINE T == {k \in Nat : ~ \E f : FilterUpTo(f, seq, S, k)}
<1>1. SUFFICES ASSUME T # {} PROVE FALSE
  OBVIOUS
<1>2. PICK k \in T : \A m \in T : ~ (m < k)
  BY <1>1, LeastOf
<1>3. CASE k = 0
  <2> DEFINE f == [i \in 0 .. 0 |-> <<>>]
  <2>1. FilterUpTo(f, seq, S, k)
    BY <1>3 DEF FilterUpTo
  <2>2. QED
    BY <2>1
<1>4. CASE k # 0
  <2>1. k \in Nat /\ k - 1 \in Nat /\ k - 1 < k
    BY <1>4
  <2>2. PICK g : FilterUpTo(g, seq, S, k - 1)
    BY <1>2, <2>1
  <2> DEFINE h == [i \in 0 .. k |->
                      IF i = k THEN (IF seq[k] \in S THEN Append(g[k - 1], seq[k]) ELSE g[k - 1])
                      ELSE g[i]]
  <2>3. ASSUME NEW i \in 0 .. k
        PROVE  h[i] = IF i = 0 THEN <<>>
                      ELSE IF seq[i] \in S THEN Append(h[i - 1], seq[i]) ELSE h[i - 1]
    <3>1. CASE i = k
      <4>1. i - 1 \in 0 .. k /\ i - 1 # k
        BY <3>1, <2>1
      <4>2. h[i - 1] = g[i - 1]
        BY <4>1
      <4>3. QED
        BY <3>1, <4>2, <1>4
    <3>2. CASE i # k
      <4>1. h[i] = g[i]
        BY <3>2
      <4>2. i \in 0 .. (k - 1)
        BY <3>2, <2>1
      <4>3. g[i] = IF i = 0 THEN <<>>
                   ELSE IF seq[i] \in S THEN Append(g[i - 1], seq[i]) ELSE g[i - 1]
        BY <4>2, <2>2 DEF FilterUpTo
      <4>4. i # 0 => h[i - 1] = g[i - 1]
        BY <4>2, <2>1
      <4>5. QED
        BY <4>1, <4>3, <4>4
    <3>3. QED
      BY <3>1, <3>2
  <2>4. FilterUpTo(h, seq, S, k)
    BY <2>3 DEF FilterUpTo
  <2>5. QED
    BY <2>4
<1>5. QED
  BY <1>3, <1>4

\* Only unfolds: its last step keeps the last element or leaves it out.
LEMMA OnlyFilters ==
  ASSUME NEW A, NEW seq \in Seq(A), NEW S
  PROVE  \E f : FilterUpTo(f, seq, S, Len(seq)) /\ Only(seq, S) = f[Len(seq)]
<1>1. Len(seq) \in Nat
  OBVIOUS
<1>2. \E f : FilterUpTo(f, seq, S, Len(seq))
  BY <1>1, FiltersExists
<1> DEFINE kept == CHOOSE f : FilterUpTo(f, seq, S, Len(seq))
<1>3. FilterUpTo(kept, seq, S, Len(seq))
  BY <1>2
<1>4. Only(seq, S) = kept[Len(seq)]
  BY DEF Only, FilterUpTo
<1>5. QED
  BY <1>3, <1>4


\* The elements of a sequence that has one more.
LEMMA RangeAppend ==
  ASSUME NEW A, NEW s \in Seq(A), NEW x \in A
  PROVE  Range(Append(s, x)) = Range(s) \cup {x}
<1>1. /\ Append(s, x) = s \o <<x>> /\ <<x>> \in Seq(A)
  BY AppendIsConcat
<1>2. Range(<<x>>) = {x}
  BY DEF Range
<1> DEFINE one == <<x>>
<1>3. Range(s \o one) = Range(s) \cup Range(one)
  <2>1. one \in Seq(A)
    OBVIOUS
  <2> HIDE DEF one
  <2>2. QED
    BY <2>1, RangeConcatenation
<1>4. QED
  BY <1>1, <1>2, <1>3

\* A sequence that has a new element at its end.
LEMMA DistinctGrows ==
  ASSUME NEW A, NEW s \in Seq(A), Distinct(s), NEW x \in A, x \notin Range(s)
  PROVE  Append(s, x) \in Seq(A) /\ Distinct(Append(s, x))
<1>1. PICK n \in Nat : n = Len(s) /\ DOMAIN s = 1 .. n
  BY LenProperties
<1>2. PICK t \in Seq(A) : t = Append(s, x)
  BY AppendProperties
<1>3. /\ Len(t) = n + 1 /\ t[n + 1] = x /\ \A i \in 1 .. n : t[i] = s[i]
      /\ DOMAIN t = 1 .. n + 1
  BY <1>1, <1>2, AppendProperties, LenProperties
<1>4. \A i \in 1 .. n : s[i] # x
  BY <1>1 DEF Range
<1>5. ASSUME NEW i \in 1 .. n + 1, NEW j \in 1 .. n + 1, t[i] = t[j] PROVE i = j
  <2>1. CASE i \in 1 .. n /\ j \in 1 .. n
    BY <1>1, <1>3, <1>5, <2>1 DEF Distinct
  <2>2. CASE i = n + 1 /\ j = n + 1
    BY <2>2
  <2>3. CASE i \in 1 .. n /\ j = n + 1
    BY <1>3, <1>4, <1>5, <2>3
  <2>4. CASE i = n + 1 /\ j \in 1 .. n
    BY <1>3, <1>4, <1>5, <2>4
  <2>5. QED
    BY <2>1, <2>2, <2>3, <2>4
<1>6. QED
  BY <1>2, <1>3, <1>5 DEF Distinct

\* What is kept are the elements that are in S; none is there twice.
LEMMA OnlyIs ==
  ASSUME NEW A, NEW s \in Seq(A), NEW S
  PROVE  /\ Only(s, S) \in Seq(A) /\ Range(Only(s, S)) = Range(s) \cap S
         /\ Distinct(s) => Distinct(Only(s, S))
<1>1. PICK n \in Nat : n = Len(s) /\ DOMAIN s = 1 .. n
  BY LenProperties
<1>2. PICK f : FilterUpTo(f, s, S, n) /\ Only(s, S) = f[n]
  BY <1>1, OnlyFilters
<1> DEFINE Upto(k) == {s[i] : i \in 1 .. k}
           Good(k) == /\ f[k] \in Seq(A) /\ Range(f[k]) = Upto(k) \cap S
                      /\ Distinct(s) => Distinct(f[k])
           T == {k \in 0 .. n : ~Good(k)}
<1>3. Range(s) = Upto(n)
  BY <1>1 DEF Range
<1>4. SUFFICES ASSUME n \in T PROVE FALSE
  <2>1. n \in 0 .. n
    BY <1>1
  <2>2. Good(n) => Only(s, S) \in Seq(A) /\ Range(Only(s, S)) = Range(s) \cap S
                   /\ (Distinct(s) => Distinct(Only(s, S)))
    BY <1>2, <1>3
  <2>3. QED
    BY <2>1, <2>2
<1>5. T \subseteq Nat /\ T # {}
  <2>1. T \subseteq 0 .. n
    BY Zenon
  <2> HIDE DEF T
  <2>2. QED
    BY <1>4, <2>1
<1>6. PICK k \in T : \A m \in T : ~ (m < k)
  BY <1>5, LeastOf
<1>7. f[k] = IF k = 0 THEN <<>> ELSE IF s[k] \in S THEN Append(f[k - 1], s[k]) ELSE f[k - 1]
  BY <1>2, <1>6 DEF FilterUpTo
<1>8. CASE k = 0
  <2>1. f[k] = <<>> /\ Upto(k) = {}
    BY <1>7, <1>8
  <2>2. <<>> \in Seq(A) /\ Len(<<>>) = 0 /\ Range(<<>>) = {}
    BY EmptySeq DEF Range
  <2>3. Distinct(<<>>)
    BY <2>2 DEF Distinct
  <2>4. QED
    BY <1>6, <2>1, <2>2, <2>3
<1>9. CASE k # 0
  <2>1. k \in 1 .. n /\ k - 1 \in 0 .. n /\ k - 1 < k
    BY <1>6, <1>9
  <2>2. Good(k - 1) /\ s[k] \in A
    BY <1>1, <1>6, <2>1, ElementOfSeq
  <2>3. Upto(k) = Upto(k - 1) \cup {s[k]}
    <3>1. \A i \in 1 .. k : i \in 1 .. k - 1 \/ i = k
      BY <2>1
    <3>2. k \in 1 .. k /\ \A i \in 1 .. k - 1 : i \in 1 .. k
      BY <2>1
    <3>3. QED
      BY <3>1, <3>2
  <2>4. CASE s[k] \notin S
    <3>1. f[k] = f[k - 1]
      BY <1>7, <1>9, <2>4
    <3>2. QED
      BY <1>6, <2>2, <2>3, <2>4, <3>1
  <2>5. CASE s[k] \in S
    <3> DEFINE t == f[k - 1]
               x == s[k]
    <3>1. f[k] = Append(t, x)
      BY <1>7, <1>9, <2>5
    <3>2. t \in Seq(A) /\ x \in A /\ Range(t) = Upto(k - 1) \cap S /\ (Distinct(s) => Distinct(t))
      BY <2>2
    <3>3. Distinct(s) => x \notin Upto(k - 1)
      <4>1. ASSUME Distinct(s), NEW i \in 1 .. k - 1, s[i] = s[k] PROVE FALSE
        <5>1. i \in 1 .. n /\ i # k
          BY <2>1
        <5>2. QED
          BY <1>1, <2>1, <4>1, <5>1 DEF Distinct
      <4>2. QED
        BY <4>1
    <3> HIDE DEF t, x
    <3>4. Append(t, x) \in Seq(A) /\ Range(Append(t, x)) = Range(t) \cup {x}
      BY <3>2, RangeAppend, AppendProperties
    <3>5. Distinct(s) => Distinct(Append(t, x))
      BY <3>2, <3>3, DistinctGrows
    <3>6. Upto(k) \cap S = (Upto(k - 1) \cap S) \cup {x}
      BY <2>3, <2>5 DEF x
    <3>7. Good(k)
      BY <3>1, <3>2, <3>4, <3>5, <3>6
    <3>8. QED
      BY <1>6, <3>7
  <2>6. QED
    BY <2>4, <2>5
<1>10. QED
  BY <1>8, <1>9

\* A sequence with an element taken out.
LEMMA TakenOut ==
  ASSUME NEW A, NEW s \in Seq(A), NEW k \in 1 .. Len(s)
  PROVE  /\ RemoveAt(s, k) \in Seq(A) /\ Len(RemoveAt(s, k)) = Len(s) - 1
         /\ \A i \in 1 .. Len(s) - 1 : RemoveAt(s, k)[i] = IF i < k THEN s[i] ELSE s[i + 1]
<1>1. PICK n \in Nat : n = Len(s)
  BY LenProperties
<1>2. k \in 1 .. n /\ \A i \in 1 .. n : s[i] \in A
  BY <1>1, ElementOfSeq
<1> DEFINE before == SubSeq(s, 1, k - 1)
           after == SubSeq(s, k + 1, n)
<1>3. before \in Seq(A) /\ Len(before) = k - 1 /\ \A i \in 1 .. k - 1 : before[i] = s[i]
  <2>1. 1 \in Int /\ k - 1 \in Int /\ (\A i \in 1 .. k - 1 : s[i] \in A)
    BY <1>2
  <2>2. /\ before \in Seq(A) /\ Len(before) = IF 1 <= k - 1 THEN k - 1 - 1 + 1 ELSE 0
        /\ \A i \in 1 .. k - 1 - 1 + 1 : before[i] = s[1 + i - 1]
    BY <2>1, SubSeqProperties
  <2>3. k - 1 - 1 + 1 = k - 1 /\ (~ (1 <= k - 1) => k - 1 = 0)
    BY <1>2
  <2>4. ASSUME NEW i \in 1 .. k - 1 PROVE before[i] = s[i]
    <3>1. 1 + i - 1 = i
      OBVIOUS
    <3>2. QED
      BY <2>2, <2>3, <3>1, Zenon
  <2>5. QED
    BY <2>2, <2>3, <2>4
<1>4. after \in Seq(A) /\ Len(after) = n - k /\ \A i \in 1 .. n - k : after[i] = s[k + i]
  <2>1. k + 1 \in Int /\ n \in Int /\ (\A i \in k + 1 .. n : s[i] \in A)
    BY <1>2
  <2>2. /\ after \in Seq(A) /\ Len(after) = IF k + 1 <= n THEN n - (k + 1) + 1 ELSE 0
        /\ \A i \in 1 .. n - (k + 1) + 1 : after[i] = s[(k + 1) + i - 1]
    BY <2>1, SubSeqProperties
  <2>3. n - (k + 1) + 1 = n - k /\ (~ (k + 1 <= n) => n - k = 0)
    BY <1>2
  <2>4. ASSUME NEW i \in 1 .. n - k PROVE after[i] = s[k + i]
    <3>1. (k + 1) + i - 1 = k + i
      BY <1>2
    <3>2. QED
      BY <2>2, <2>3, <3>1, Zenon
  <2>5. QED
    BY <2>2, <2>3, <2>4
<1>5. RemoveAt(s, k) = before \o after
  BY <1>1 DEF RemoveAt
<1> HIDE DEF before, after
<1>6. /\ before \o after \in Seq(A) /\ Len(before \o after) = Len(before) + Len(after)
      /\ \A i \in 1 .. Len(before) + Len(after) :
            (before \o after)[i] = IF i <= Len(before) THEN before[i] ELSE after[i - Len(before)]
  BY <1>3, <1>4, ConcatProperties
<1>7. (k - 1) + (n - k) = n - 1
  BY <1>2
<1>8. ASSUME NEW i \in 1 .. n - 1
      PROVE  (before \o after)[i] = IF i < k THEN s[i] ELSE s[i + 1]
  <2>1. (before \o after)[i] = IF i <= k - 1 THEN before[i] ELSE after[i - (k - 1)]
    BY <1>3, <1>4, <1>6, <1>7
  <2>2. CASE i < k
    BY <1>2, <1>3, <2>1, <2>2
  <2>3. CASE ~ (i < k)
    <3>1. i - (k - 1) \in 1 .. n - k /\ k + (i - (k - 1)) = i + 1 /\ ~ (i <= k - 1)
      BY <1>2, <2>3
    <3>2. QED
      BY <1>4, <2>1, <2>3, <3>1
  <2>4. QED
    BY <2>2, <2>3
<1>9. QED
  BY <1>1, <1>3, <1>4, <1>5, <1>6, <1>7, <1>8

\* The sequences of all elements of a finite set.
LEMMA AllInOrder ==
  ASSUME NEW S, IsFiniteSet(S), NEW s \in SetToSeqs(S)
  PROVE  s \in Seq(S) /\ Distinct(s) /\ Range(s) = S
<1>1. PICK n \in Nat : n = Cardinality(S)
  BY FS_CardinalityType
<1>2. s \in [1 .. n -> S] /\ \A i, j \in 1 .. n : i # j => s[i] # s[j]
  BY <1>1 DEF SetToSeqs
<1>3. s \in Seq(S)
  BY <1>2, SeqDef
<1>4. Len(s) = n /\ DOMAIN s = 1 .. n
  BY <1>2, <1>3, LenProperties
<1>5. s \in Injection(1 .. n, S)
  BY <1>2 DEF Injection, IsInjective
<1>6. Cardinality(1 .. n) = n
  BY FS_Interval
<1>7. s \in Surjection(1 .. n, S)
  BY <1>1, <1>5, <1>6, FS_Injection
<1>8. Range(s) = S
  BY <1>4, <1>7 DEF Surjection, Range
<1>9. QED
  BY <1>2, <1>3, <1>4, <1>8 DEF Distinct

\* A sequence without repetitions is as long as it has elements.
LEMMA DistinctLength ==
  ASSUME NEW A, NEW s \in Seq(A), Distinct(s)
  PROVE  Len(s) = Cardinality(Range(s))
<1>1. PICK n \in Nat : n = Len(s) /\ DOMAIN s = 1 .. n
  BY LenProperties
<1>2. s \in [1 .. n -> Range(s)] /\ \A x \in Range(s) : \E i \in 1 .. n : s[i] = x
  BY <1>1 DEF Range
<1>3. \A i, j \in 1 .. n : s[i] = s[j] => i = j
  BY <1>1 DEF Distinct
<1>4. s \in Bijection(1 .. n, Range(s))
  BY <1>2, <1>3 DEF Bijection, Injection, Surjection, IsInjective
<1>5. IsFiniteSet(1 .. n) /\ Cardinality(1 .. n) = n
  BY FS_Interval
<1>6. Cardinality(Range(s)) = Cardinality(1 .. n)
  BY <1>4, <1>5, FS_Bijection DEF ExistsBijection
<1>7. QED
  BY <1>1, <1>5, <1>6

-----------------------------------------------------------------------------
(* The listener: the inductive invariant.                                  *)

Old == 1 .. next - 1
ListenCall ==
    [op : {"start", "stop", "list"}, arg : Sessions \cup Ports \cup {0},
     at : {"called", "closing", "answered"}, ok : BOOLEAN, ans : Seq(Sessions), heard : BOOLEAN]
ListenType ==
    /\ next \in 1 .. MaxSessions + 1 /\ sessions \subseteq Old /\ open \subseteq Old
    /\ loop \in [Sessions -> {"none", "read", "emit", "ended"}] /\ late \in [Sessions -> Nat]
    /\ rows \in Seq(Sessions) /\ log \in Seq(Sessions) /\ calls \in Seq(ListenCall)

\* What a call is about has been there; how far it is fits what it is.
CallsTrue ==
    /\ \A j \in 1 .. Len(rows) : rows[j] < next
    /\ \A i \in 1 .. Len(calls) :
          /\ calls[i].op = "stop" => calls[i].arg \in Old
          /\ \A j \in 1 .. Len(calls[i].ans) : calls[i].ans[j] < next
          /\ calls[i].at = "closing" => calls[i].op = "stop" /\ calls[i].arg \notin sessions
          /\ calls[i].at # "answered" => calls[i].ok
          /\ calls[i].op = "start" /\ calls[i].at = "answered" /\ calls[i].ok => Len(calls[i].ans) = 1

\* A socket that is open has a session, or a stop that will close it; a session
\* that was stopped reads no more, and was emitting once at most.
IsStopping(s) == \E i \in 1 .. Len(calls) : calls[i].at = "closing" /\ calls[i].arg = s
SocketsTrue ==
    /\ sessions \subseteq open
    /\ \A s \in open : s \in sessions \/ IsStopping(s)
    /\ \A s \in Sessions :
          /\ loop[s] # "none" => s < next
          /\ late[s] <= 1
          /\ late[s] = 1 => s \notin open /\ loop[s] \in {"read", "ended"}
    /\ Len(log) <= MaxLog

HeardCall(i, op) == i \in 1 .. Len(calls) /\ calls[i].heard /\ calls[i].op = op
Worked(i) == calls[i].at = "answered" /\ calls[i].ok

\* The page will hear that the session is there, or gone.
IsBorn(s) == \E i \in 1 .. Len(calls) : HeardCall(i, "start") /\ Worked(i) /\ calls[i].ans[1] = s
IsGone(s) == \E i \in 1 .. Len(calls) :
    HeardCall(i, "stop") /\ (calls[i].at = "closing" \/ Worked(i)) /\ calls[i].arg = s

\* A page that reads the list waits for nothing else, and has no row yet.
ListTrue ==
    \A k \in 1 .. Len(calls) : HeardCall(k, "list") =>
        /\ rows = <<>> /\ ~loading
        /\ \A i \in 1 .. Len(calls) : calls[i].heard => i = k
        /\ calls[k].at = "answered" =>
              calls[k].ok /\ Distinct(calls[k].ans) /\ Range(calls[k].ans) = sessions

\* One start at a time, of a page without rows; no stop is about what it starts.
StartTrue ==
    /\ \A i, j \in 1 .. Len(calls) : HeardCall(i, "start") =>
          rows = <<>> /\ loading /\ (HeardCall(j, "start") => i = j)
    /\ \A i, j \in 1 .. Len(calls) : HeardCall(i, "start") /\ Worked(i) /\ HeardCall(j, "stop") =>
          calls[j].arg # calls[i].ans[1]

\* A page that has read the list knows of each session, or will.
SessionsTrue ==
    (\A k \in 1 .. Len(calls) : ~HeardCall(k, "list")) =>
        /\ Distinct(rows)
        /\ \A s \in Sessions : s \in sessions <=> (s \in Range(rows) /\ ~IsGone(s)) \/ IsBorn(s)

ListenInv ==
    /\ ListenType /\ CallsTrue /\ SocketsTrue
    /\ ~awry => ListTrue /\ StartTrue /\ SessionsTrue
-----------------------------------------------------------------------------
(* How a step changes the calls: one goes on, one is over, one is made.    *)

LEMMA CallsAre ==
  ASSUME ListenType
  PROVE  /\ Len(calls) \in Nat /\ DOMAIN calls = 1 .. Len(calls)
         /\ calls = <<>> <=> Len(calls) = 0
         /\ \A i \in 1 .. Len(calls) :
               /\ calls[i] \in ListenCall /\ calls[i].ans \in Seq(Sessions)
               /\ calls[i].op \in {"start", "stop", "list"}
               /\ calls[i].at \in {"called", "closing", "answered"}
               /\ calls[i].ok \in BOOLEAN /\ calls[i].heard \in BOOLEAN
<1>1. calls \in Seq(ListenCall)
  BY DEF ListenType
<1>2. /\ Len(calls) \in Nat /\ DOMAIN calls = 1 .. Len(calls)
      /\ calls = <<>> <=> Len(calls) = 0
  BY <1>1, LenProperties, EmptySeq
<1>3. \A i \in 1 .. Len(calls) : calls[i] \in ListenCall
  BY <1>1, ElementOfSeq
<1>4. \A c \in ListenCall : /\ c.ans \in Seq(Sessions) /\ c.ok \in BOOLEAN /\ c.heard \in BOOLEAN
                            /\ c.op \in {"start", "stop", "list"}
                            /\ c.at \in {"called", "closing", "answered"}
  BY DEF ListenCall
<1>5. QED
  BY <1>2, <1>3, <1>4

GoesOn(i, to, ok, ans) ==
    /\ calls' \in Seq(ListenCall) /\ Len(calls') = Len(calls)
    /\ \A j \in 1 .. Len(calls) :
          /\ calls'[j].op = calls[j].op /\ calls'[j].arg = calls[j].arg /\ calls'[j].heard = calls[j].heard
          /\ calls'[j].at = IF j = i THEN to ELSE calls[j].at
          /\ calls'[j].ok = IF j = i THEN ok ELSE calls[j].ok
          /\ calls'[j].ans = IF j = i THEN ans ELSE calls[j].ans
IsOver(i) ==
    /\ calls' \in Seq(ListenCall) /\ Len(calls') = Len(calls) - 1
    /\ \A j \in 1 .. Len(calls) - 1 : calls'[j] = calls[IF j < i THEN j ELSE j + 1]
IsMade(c) ==
    /\ calls' \in Seq(ListenCall) /\ Len(calls') = Len(calls) + 1
    /\ \A j \in 1 .. Len(calls) : calls'[j] = calls[j]
    /\ calls'[Len(calls) + 1] = c

LEMMA GoesOnIs ==
  ASSUME ListenType, NEW i \in 1 .. Len(calls), NEW to \in {"called", "closing", "answered"},
         NEW ok \in BOOLEAN, NEW ans \in Seq(Sessions),
         calls' = [calls EXCEPT ![i].at = to, ![i].ok = ok, ![i].ans = ans]
  PROVE  GoesOn(i, to, ok, ans)
<1>1. calls \in [1 .. Len(calls) -> ListenCall] /\ Len(calls) \in Nat
  BY CallsAre DEF ListenType
<1>2. calls' \in [1 .. Len(calls) -> ListenCall]
  <2> DEFINE d == [[[calls[i] EXCEPT !.at = to] EXCEPT !.ok = ok] EXCEPT !.ans = ans]
  <2>1. calls[i] \in ListenCall
    BY <1>1
  <2>2. d \in ListenCall
    BY <2>1 DEF ListenCall
  <2>3. calls' = [calls EXCEPT ![i] = d]
    BY <1>1
  <2> HIDE DEF d
  <2>4. QED
    BY <1>1, <2>2, <2>3
<1>3. calls' \in Seq(ListenCall) /\ Len(calls') = Len(calls)
  <2>1. PICK n \in Nat : n = Len(calls)
    BY <1>1
  <2>2. calls' \in [1 .. n -> ListenCall]
    BY <1>2, <2>1
  <2>3. PICK following \in [1 .. n -> ListenCall] : following = calls'
    BY <2>2
  <2>4. following \in Seq(ListenCall) /\ Len(following) = n
    BY UpToIsSeq
  <2>5. QED
    BY <2>1, <2>3, <2>4
<1>4. ASSUME NEW j \in 1 .. Len(calls)
      PROVE  /\ calls'[j].op = calls[j].op /\ calls'[j].arg = calls[j].arg /\ calls'[j].heard = calls[j].heard
             /\ calls'[j].at = IF j = i THEN to ELSE calls[j].at
             /\ calls'[j].ok = IF j = i THEN ok ELSE calls[j].ok
             /\ calls'[j].ans = IF j = i THEN ans ELSE calls[j].ans
  <2>1. CASE j = i
    <3>1. calls'[j] = [[[calls[i] EXCEPT !.at = to] EXCEPT !.ok = ok] EXCEPT !.ans = ans]
      BY <1>1, <2>1
    <3>2. calls[i] \in ListenCall
      BY <1>1
    <3>3. QED
      BY <2>1, <3>1, <3>2 DEF ListenCall
  <2>2. CASE j # i
    <3>1. calls'[j] = calls[j]
      BY <1>1, <2>2
    <3>2. QED
      BY <2>2, <3>1
  <2>3. QED
    BY <2>1, <2>2
<1>5. QED
  BY <1>3, <1>4 DEF GoesOn

\* A call that is answered.
LEMMA DoneIs ==
  ASSUME ListenType, NEW i \in 1 .. Len(calls), NEW ans \in Seq(Sessions), Done(i, ans)
  PROVE  GoesOn(i, "answered", calls[i].ok, ans)
<1>1. calls[i] \in ListenCall /\ calls[i].ok \in BOOLEAN /\ calls \in [1 .. Len(calls) -> ListenCall]
  BY CallsAre DEF ListenType
<1>2. [calls EXCEPT ![i].at = "answered", ![i].ans = ans]
       = [calls EXCEPT ![i].at = "answered", ![i].ok = calls[i].ok, ![i].ans = ans]
  BY <1>1 DEF ListenCall
<1>3. calls' = [calls EXCEPT ![i].at = "answered", ![i].ok = calls[i].ok, ![i].ans = ans]
  BY <1>2, Zenon DEF Done
<1>4. PICK ok \in BOOLEAN : ok = calls[i].ok
  BY <1>1, Zenon
<1>5. QED
  BY <1>3, <1>4, GoesOnIs

LEMMA FailsIs ==
  ASSUME ListenType, NEW i \in 1 .. Len(calls), Fails(i)
  PROVE  GoesOn(i, "answered", FALSE, calls[i].ans)
<1>1. calls[i] \in ListenCall /\ calls[i].ans \in Seq(Sessions) /\ calls \in [1 .. Len(calls) -> ListenCall]
  BY CallsAre DEF ListenType
<1>2. [calls EXCEPT ![i].at = "answered", ![i].ok = FALSE]
       = [calls EXCEPT ![i].at = "answered", ![i].ok = FALSE, ![i].ans = calls[i].ans]
  BY <1>1 DEF ListenCall
<1>3. calls' = [calls EXCEPT ![i].at = "answered", ![i].ok = FALSE, ![i].ans = calls[i].ans]
  BY <1>2, Zenon DEF Fails
<1>4. QED
  BY <1>1, <1>3, GoesOnIs

LEMMA ClosingIs ==
  ASSUME ListenType, NEW i \in 1 .. Len(calls), calls' = [calls EXCEPT ![i].at = "closing"]
  PROVE  GoesOn(i, "closing", calls[i].ok, calls[i].ans)
<1>1. /\ calls[i] \in ListenCall /\ calls[i].ans \in Seq(Sessions) /\ calls[i].ok \in BOOLEAN
      /\ calls \in [1 .. Len(calls) -> ListenCall]
  BY CallsAre DEF ListenType
<1>2. [calls EXCEPT ![i].at = "closing"]
       = [calls EXCEPT ![i].at = "closing", ![i].ok = calls[i].ok, ![i].ans = calls[i].ans]
  BY <1>1 DEF ListenCall
<1>3. calls' = [calls EXCEPT ![i].at = "closing", ![i].ok = calls[i].ok, ![i].ans = calls[i].ans]
  BY <1>2, Zenon
<1>4. PICK ok \in BOOLEAN : ok = calls[i].ok
  BY <1>1, Zenon
<1>5. QED
  BY <1>1, <1>3, <1>4, GoesOnIs

LEMMA IsOverIs ==
  ASSUME ListenType, NEW i \in 1 .. Len(calls), calls' = RemoveAt(calls, i)
  PROVE  IsOver(i)
<1>1. calls \in Seq(ListenCall)
  BY DEF ListenType
<1>2. \A j \in 1 .. Len(calls) - 1 : RemoveAt(calls, i)[j] = calls[IF j < i THEN j ELSE j + 1]
  BY <1>1, TakenOut
<1>3. QED
  BY <1>1, <1>2, TakenOut DEF IsOver

LEMMA IsMadeIs ==
  ASSUME ListenType, NEW c \in ListenCall, calls' = Append(calls, c)
  PROVE  IsMade(c)
BY AppendProperties, LenProperties DEF ListenType, IsMade

\* A call that is made.
LEMMA CallIs ==
  ASSUME NEW op \in {"start", "stop", "list"}, NEW arg \in Sessions \cup Ports \cup {0}
  PROVE  /\ Call(op, arg) \in ListenCall
         /\ Call(op, arg).op = op /\ Call(op, arg).arg = arg /\ Call(op, arg).at = "called"
         /\ Call(op, arg).ok /\ Call(op, arg).heard /\ Call(op, arg).ans = <<>>
BY EmptySeq DEF Call, ListenCall

-----------------------------------------------------------------------------
(* The steps of the receive loops, and of the log.                         *)

LEMMA StoppingIs ==
  ASSUME ListenType, NEW s
  PROVE  Stopping(s) <=> IsStopping(s)
BY CallsAre DEF Stopping, IsStopping

\* What such a step leaves alone.
Aside == UNCHANGED <<next, sessions, open, rows, loading, calls, awry>>
LEMMA AsideKeeps ==
  ASSUME ListenInv, Aside,
         loop' \in [Sessions -> {"none", "read", "emit", "ended"}], late' \in [Sessions -> Nat],
         log' \in Seq(Sessions), Len(log') <= MaxLog,
         \A s \in Sessions :
            /\ loop'[s] # "none" => s < next
            /\ late'[s] <= 1
            /\ late'[s] = 1 => s \notin open /\ loop'[s] \in {"read", "ended"}
  PROVE  ListenInv'
<1>1. ListenType'
  BY DEF ListenInv, ListenType, Aside, Old
<1>2. CallsTrue'
  BY DEF ListenInv, CallsTrue, Aside, Old
<1>3. SocketsTrue'
  BY DEF ListenInv, SocketsTrue, IsStopping, Aside
<1>4. ~awry => ListTrue' /\ StartTrue' /\ SessionsTrue'
  BY DEF ListenInv, ListTrue, StartTrue, SessionsTrue, IsBorn, IsGone, HeardCall, Worked, Aside
<1>5. awry' = awry
  BY DEF Aside
<1>6. QED
  BY <1>1, <1>2, <1>3, <1>4, <1>5 DEF ListenInv

LEMMA ClearMessagesKeeps ==
  ASSUME ListenInv, ClearMessages
  PROVE  ListenInv'
<1>1. Aside /\ loop' = loop /\ late' = late
  BY DEF ClearMessages, Aside, listenBackendVars
<1>2. log' = <<>> /\ log' \in Seq(Sessions) /\ Len(log') = 0
  BY EmptySeq DEF ClearMessages
<1>3. Len(log') <= MaxLog
  BY <1>2, ListenerAssumption
<1>4. QED
  BY <1>1, <1>2, <1>3, AsideKeeps DEF ListenInv, ListenType, SocketsTrue

LEMMA ReceiveKeeps ==
  ASSUME ListenInv, NEW s \in Sessions, Receive(s)
  PROVE  ListenInv'
<1>1. Aside /\ late' = late /\ log' = log
  BY DEF Receive, Aside
<1>2. loop' \in [Sessions -> {"none", "read", "emit", "ended"}]
  BY DEF Receive, ListenInv, ListenType
<1>3. \A r \in Sessions : loop'[r] = IF r = s THEN "emit" ELSE loop[r]
  BY DEF Receive, ListenInv, ListenType
<1>4. s \in open /\ loop[s] = "read"
  BY DEF Receive
<1>5. ASSUME NEW r \in Sessions
      PROVE  /\ loop'[r] # "none" => r < next
             /\ late'[r] <= 1
             /\ late'[r] = 1 => r \notin open /\ loop'[r] \in {"read", "ended"}
  BY <1>1, <1>3, <1>4 DEF ListenInv, SocketsTrue
<1>6. QED
  BY <1>1, <1>2, <1>5, AsideKeeps DEF ListenInv, ListenType, SocketsTrue

LEMMA EndLoopKeeps ==
  ASSUME ListenInv, NEW s \in Sessions, EndLoop(s)
  PROVE  ListenInv'
<1>1. Aside /\ late' = late /\ log' = log
  BY DEF EndLoop, Aside
<1>2. loop' \in [Sessions -> {"none", "read", "emit", "ended"}]
  BY DEF EndLoop, ListenInv, ListenType
<1>3. \A r \in Sessions : loop'[r] = IF r = s THEN "ended" ELSE loop[r]
  BY DEF EndLoop, ListenInv, ListenType
<1>4. loop[s] = "read"
  BY DEF EndLoop
<1>5. ASSUME NEW r \in Sessions
      PROVE  /\ loop'[r] # "none" => r < next
             /\ late'[r] <= 1
             /\ late'[r] = 1 => r \notin open /\ loop'[r] \in {"read", "ended"}
  BY <1>1, <1>3, <1>4 DEF ListenInv, SocketsTrue
<1>6. QED
  BY <1>1, <1>2, <1>5, AsideKeeps DEF ListenInv, ListenType, SocketsTrue

\* The log is cut to its maximum.
LEMMA KeptIs ==
  ASSUME NEW msgs \in Seq(Sessions)
  PROVE  Kept(msgs) \in Seq(Sessions) /\ Len(Kept(msgs)) <= MaxLog
<1>1. PICK m \in Nat : m = IF Len(msgs) < MaxLog THEN Len(msgs) ELSE MaxLog
  BY LenProperties, ListenerAssumption
<1>2. m <= MaxLog /\ m <= Len(msgs) /\ Len(msgs) \in Nat /\ MaxLog \in Nat
  BY <1>1, LenProperties, ListenerAssumption
<1>3. \A i \in 1 .. m : msgs[i] \in Sessions
  BY <1>2, ElementOfSeq
<1>4. SubSeq(msgs, 1, m) \in Seq(Sessions) /\ Len(SubSeq(msgs, 1, m)) = IF 1 <= m THEN m - 1 + 1 ELSE 0
  BY <1>3, SubSeqProperties
<1>5. Kept(msgs) = SubSeq(msgs, 1, m)
  BY <1>1, Zenon DEF Kept
<1>6. QED
  BY <1>2, <1>4, <1>5

LEMMA EmitKeeps ==
  ASSUME ListenInv, NEW s \in Sessions, Emit(s)
  PROVE  ListenInv'
<1>1. Aside
  BY DEF Emit, Aside
<1>2. loop' \in [Sessions -> {"none", "read", "emit", "ended"}]
  BY DEF Emit, ListenInv, ListenType
<1>3. \A r \in Sessions : loop'[r] = IF r = s THEN "read" ELSE loop[r]
  BY DEF Emit, ListenInv, ListenType
<1>4. log' \in Seq(Sessions) /\ Len(log') <= MaxLog
  <2>1. log \in Seq(Sessions) /\ <<s>> \in Seq(Sessions)
    BY DEF ListenInv, ListenType
  <2>2. <<s>> \o log \in Seq(Sessions)
    BY <2>1, ConcatProperties
  <2>3. QED
    BY <2>2, KeptIs DEF Emit
<1>5. loop[s] = "emit" /\ s < next /\ late[s] \in Nat /\ late[s] <= 1 /\ late[s] # 1
  BY DEF Emit, ListenInv, ListenType, SocketsTrue
<1>6. late[s] = 0
  BY <1>5
<1>7. late' \in [Sessions -> Nat]
  BY <1>5 DEF Emit, ListenInv, ListenType
<1>8. /\ \A r \in Sessions : r # s => late'[r] = late[r]
      /\ late'[s] \in {0, 1} /\ (late'[s] = 1 => s \notin open)
  <2>1. late \in [Sessions -> Nat]
    BY DEF ListenInv, ListenType
  <2>2. CASE s \in sessions \/ Stopping(s)
    BY <1>6, <2>2 DEF Emit
  <2>3. CASE ~ (s \in sessions \/ Stopping(s))
    <3>1. late' = [late EXCEPT ![s] = @ + 1]
      BY <2>3 DEF Emit
    <3>2. s \notin open
      BY <2>3, StoppingIs DEF ListenInv, SocketsTrue
    <3>3. QED
      BY <1>6, <2>1, <3>1, <3>2
  <2>4. QED
    BY <2>2, <2>3
<1>9. ASSUME NEW r \in Sessions
      PROVE  /\ loop'[r] # "none" => r < next
             /\ late'[r] <= 1
             /\ late'[r] = 1 => r \notin open /\ loop'[r] \in {"read", "ended"}
  <2>1. CASE r = s
    BY <1>3, <1>5, <1>8, <2>1
  <2>2. CASE r # s
    BY <1>3, <1>8, <2>2 DEF ListenInv, SocketsTrue
  <2>3. QED
    BY <2>1, <2>2
<1>10. QED
  BY <1>1, <1>2, <1>4, <1>7, <1>9, AsideKeeps

-----------------------------------------------------------------------------
(* The steps of the backend that take a call on.                           *)

LEMMA SessionsOf ==
  ASSUME NEW s \in Seq(Sessions), NEW j \in 1 .. Len(s)
  PROVE  s[j] \in Sessions /\ s[j] \in Nat
<1>1. s[j] \in Sessions
  BY ElementOfSeq
<1>2. QED
  BY <1>1 DEF Sessions

LEMMA GoesOnCalls ==
  ASSUME ListenInv, NEW i \in 1 .. Len(calls), NEW to \in {"called", "closing", "answered"},
         NEW ok \in BOOLEAN, NEW ans \in Seq(Sessions), GoesOn(i, to, ok, ans),
         rows' = rows, next' \in {next, next + 1}, sessions' \subseteq sessions \cup {next},
         \A j \in 1 .. Len(ans) : ans[j] < next',
         to = "closing" => calls[i].op = "stop" /\ calls[i].arg \notin sessions',
         to # "answered" => ok,
         calls[i].op = "start" /\ to = "answered" /\ ok => Len(ans) = 1
  PROVE  CallsTrue'
<1>1. next \in Nat /\ next <= next' /\ (\A x \in Old : x \in Old' /\ x # next)
  BY DEF ListenInv, ListenType, Old
<1>2. \A j \in 1 .. Len(rows) : rows[j] \in Nat /\ rows[j] < next
  BY SessionsOf DEF ListenInv, ListenType, CallsTrue
<1>3. \A j \in 1 .. Len(rows') : rows'[j] < next'
  BY <1>1, <1>2
<1>4. ASSUME NEW k \in 1 .. Len(calls)
      PROVE  /\ calls'[k].op = "stop" => calls'[k].arg \in Old'
             /\ \A j \in 1 .. Len(calls'[k].ans) : calls'[k].ans[j] < next'
             /\ calls'[k].at = "closing" => calls'[k].op = "stop" /\ calls'[k].arg \notin sessions'
             /\ calls'[k].at # "answered" => calls'[k].ok
             /\ calls'[k].op = "start" /\ calls'[k].at = "answered" /\ calls'[k].ok
                  => Len(calls'[k].ans) = 1
  <2>1. /\ calls'[k].op = calls[k].op /\ calls'[k].arg = calls[k].arg
        /\ calls'[k].at = IF k = i THEN to ELSE calls[k].at
        /\ calls'[k].ok = IF k = i THEN ok ELSE calls[k].ok
        /\ calls'[k].ans = IF k = i THEN ans ELSE calls[k].ans
    BY DEF GoesOn
  <2>2. calls[k].op = "stop" => calls[k].arg \in Old
    BY DEF ListenInv, CallsTrue
  <2>3. CASE k = i
    BY <1>1, <2>1, <2>2, <2>3
  <2>4. CASE k # i
    <3>1. /\ \A j \in 1 .. Len(calls[k].ans) : calls[k].ans[j] < next
          /\ calls[k].at = "closing" => calls[k].op = "stop" /\ calls[k].arg \notin sessions
          /\ calls[k].at # "answered" => calls[k].ok
          /\ calls[k].op = "start" /\ calls[k].at = "answered" /\ calls[k].ok => Len(calls[k].ans) = 1
      BY DEF ListenInv, CallsTrue
    <3>2. \A j \in 1 .. Len(calls[k].ans) : calls[k].ans[j] \in Nat
      BY CallsAre, SessionsOf DEF ListenInv
    <3>3. \A j \in 1 .. Len(calls[k].ans) : calls[k].ans[j] < next'
      BY <1>1, <3>1, <3>2
    <3>4. calls[k].at = "closing" => calls[k].arg \notin sessions'
      BY <1>1, <2>2, <3>1
    <3>5. QED
      BY <1>1, <2>1, <2>2, <2>4, <3>1, <3>3, <3>4
  <2>5. QED
    BY <2>3, <2>4
<1>5. Len(calls') = Len(calls)
  BY DEF GoesOn
<1>6. QED
  BY <1>3, <1>4, <1>5 DEF CallsTrue

\* A call that goes on, of which the page will hear nothing new.
LEMMA GoesOnTrue ==
  ASSUME ListenInv, ~awry,
         NEW i \in 1 .. Len(calls), NEW to \in {"called", "closing", "answered"},
         NEW ok \in BOOLEAN, NEW ans \in Seq(Sessions), GoesOn(i, to, ok, ans),
         UNCHANGED <<rows, loading, sessions>>,
         calls[i].op = "list" => ok /\ Distinct(ans) /\ Range(ans) = sessions,
         calls[i].op = "start" => ~Worked(i) /\ ~ (to = "answered" /\ ok),
         calls[i].op = "stop" =>
            ((calls[i].at = "closing" \/ Worked(i)) <=> (to = "closing" \/ (to = "answered" /\ ok)))
  PROVE  ListTrue' /\ StartTrue' /\ SessionsTrue'
<1>1. ListTrue /\ StartTrue /\ SessionsTrue
  BY DEF ListenInv
<1>2. Len(calls') = Len(calls)
  BY DEF GoesOn
<1>3. \A k \in 1 .. Len(calls) :
          /\ calls'[k].op = calls[k].op /\ calls'[k].arg = calls[k].arg
          /\ calls'[k].heard = calls[k].heard
  BY DEF GoesOn
<1>4. \A k \in 1 .. Len(calls) : k # i =>
          calls'[k].at = calls[k].at /\ calls'[k].ok = calls[k].ok /\ calls'[k].ans = calls[k].ans
  BY DEF GoesOn
<1>5. calls'[i].at = to /\ calls'[i].ok = ok /\ calls'[i].ans = ans
  BY DEF GoesOn
<1>6. ASSUME NEW k \in 1 .. Len(calls)
      PROVE  /\ calls[k].op = "start" => (Worked(k)' <=> Worked(k)) /\ (Worked(k) => k # i)
             /\ calls[k].op = "stop" =>
                  ((calls'[k].at = "closing" \/ Worked(k)') <=> (calls[k].at = "closing" \/ Worked(k)))
  BY <1>4, <1>5 DEF Worked
<1>7. ListTrue'
  <2>1. ASSUME NEW k \in 1 .. Len(calls), HeardCall(k, "list")'
        PROVE  /\ rows' = <<>> /\ ~loading'
               /\ \A j \in 1 .. Len(calls') : calls'[j].heard => j = k
               /\ calls'[k].at = "answered" =>
                     calls'[k].ok /\ Distinct(calls'[k].ans) /\ Range(calls'[k].ans) = sessions'
    <3>1. HeardCall(k, "list")
      BY <1>2, <1>3, <2>1 DEF HeardCall
    <3>2. /\ rows' = <<>> /\ ~loading'
          /\ \A j \in 1 .. Len(calls') : calls'[j].heard => j = k
      BY <1>1, <1>2, <1>3, <3>1 DEF ListTrue
    <3>3. CASE k = i
      BY <1>5, <3>1, <3>2, <3>3 DEF HeardCall
    <3>4. CASE k # i
      BY <1>1, <1>4, <3>1, <3>2, <3>4 DEF ListTrue
    <3>5. QED
      BY <3>3, <3>4
  <2>2. QED
    BY <1>2, <2>1 DEF ListTrue
<1>8. StartTrue'
  <2>1. ASSUME NEW k \in 1 .. Len(calls), NEW j \in 1 .. Len(calls), HeardCall(k, "start")'
        PROVE  rows' = <<>> /\ loading' /\ (HeardCall(j, "start")' => k = j)
    BY <1>1, <1>2, <1>3, <2>1 DEF StartTrue, HeardCall
  <2>2. ASSUME NEW k \in 1 .. Len(calls), NEW j \in 1 .. Len(calls), HeardCall(k, "start")',
               Worked(k)', HeardCall(j, "stop")'
        PROVE  calls'[j].arg # calls'[k].ans[1]
    <3>1. HeardCall(k, "start") /\ Worked(k) /\ HeardCall(j, "stop")
      BY <1>2, <1>3, <1>6, <2>2 DEF HeardCall
    <3>2. k # i
      BY <1>6, <3>1 DEF HeardCall
    <3>3. QED
      BY <1>1, <1>3, <1>4, <3>1, <3>2 DEF StartTrue
  <2>3. QED
    BY <1>2, <2>1, <2>2 DEF StartTrue
<1>9. ASSUME NEW s \in Sessions
      PROVE  (IsBorn(s)' <=> IsBorn(s)) /\ (IsGone(s)' <=> IsGone(s))
  <2>1. ASSUME NEW k \in 1 .. Len(calls)
        PROVE  (HeardCall(k, "start")' /\ Worked(k)' /\ calls'[k].ans[1] = s)
               <=> (HeardCall(k, "start") /\ Worked(k) /\ calls[k].ans[1] = s)
    BY <1>2, <1>3, <1>4, <1>6 DEF HeardCall
  <2>2. ASSUME NEW k \in 1 .. Len(calls)
        PROVE  (HeardCall(k, "stop")' /\ (calls'[k].at = "closing" \/ Worked(k)') /\ calls'[k].arg = s)
               <=> (HeardCall(k, "stop") /\ (calls[k].at = "closing" \/ Worked(k)) /\ calls[k].arg = s)
    BY <1>2, <1>3, <1>6 DEF HeardCall
  <2>3. QED
    BY <1>2, <2>1, <2>2 DEF IsBorn, IsGone
<1>10. SessionsTrue'
  <2>1. (\A k \in 1 .. Len(calls') : ~HeardCall(k, "list")') => (\A k \in 1 .. Len(calls) : ~HeardCall(k, "list"))
    BY <1>2, <1>3 DEF HeardCall
  <2>2. QED
    BY <1>1, <1>9, <2>1 DEF SessionsTrue
<1>11. QED
  BY <1>7, <1>8, <1>10

\* A session, a socket and a loop that stay as they are, while a call goes on.
LEMMA GoesOnSockets ==
  ASSUME ListenInv, NEW i \in 1 .. Len(calls), NEW to \in {"called", "closing", "answered"},
         NEW ok \in BOOLEAN, NEW ans \in Seq(Sessions), GoesOn(i, to, ok, ans),
         UNCHANGED <<next, sessions, open, loop, rows, log, late>>,
         calls[i].at # "closing"
  PROVE  ListenType' /\ SocketsTrue'
<1>1. ListenType'
  BY DEF ListenInv, ListenType, Old, GoesOn
<1>2. \A k \in 1 .. Len(calls) : calls[k].at = "closing" =>
          calls'[k].at = "closing" /\ calls'[k].arg = calls[k].arg
  BY DEF GoesOn
<1>3. Len(calls') = Len(calls)
  BY DEF GoesOn
<1>4. \A s : IsStopping(s) => IsStopping(s)'
  BY <1>2, <1>3 DEF IsStopping
<1>5. SocketsTrue'
  BY <1>4 DEF ListenInv, SocketsTrue
<1>6. QED
  BY <1>1, <1>5

LEMMA RefuseStartKeeps ==
  ASSUME ListenInv, NEW i \in 1 .. Len(calls), RefuseStart(i)
  PROVE  ListenInv'
<1>1. /\ calls[i].at = "called" /\ calls[i].op = "start" /\ Fails(i) /\ calls[i].ans \in Seq(Sessions)
      /\ UNCHANGED <<next, sessions, open, loop, rows, log, loading, late, awry>>
  BY CallsAre DEF RefuseStart, Serves, listenBackendVars, ListenInv
<1>2. GoesOn(i, "answered", FALSE, calls[i].ans)
  BY <1>1, FailsIs DEF ListenInv
<1>3. ListenType' /\ SocketsTrue'
  BY <1>1, <1>2, GoesOnSockets
<1>4. CallsTrue'
  <2>1. \A j \in 1 .. Len(calls[i].ans) : calls[i].ans[j] < next'
    BY <1>1 DEF ListenInv, CallsTrue
  <2>2. QED
    BY <1>1, <1>2, <2>1, GoesOnCalls
<1>5. ~awry => ListTrue' /\ StartTrue' /\ SessionsTrue'
  BY <1>1, <1>2, GoesOnTrue DEF Worked
<1>6. QED
  BY <1>1, <1>3, <1>4, <1>5 DEF ListenInv

LEMMA NoSuchSessionKeeps ==
  ASSUME ListenInv, NEW i \in 1 .. Len(calls), NoSuchSession(i)
  PROVE  ListenInv'
<1>1. /\ calls[i].at = "called" /\ calls[i].op = "stop" /\ Fails(i) /\ calls[i].ans \in Seq(Sessions)
      /\ UNCHANGED <<next, sessions, open, loop, rows, log, loading, late, awry>>
  BY CallsAre DEF NoSuchSession, Serves, listenBackendVars, ListenInv
<1>2. GoesOn(i, "answered", FALSE, calls[i].ans)
  BY <1>1, FailsIs DEF ListenInv
<1>3. ListenType' /\ SocketsTrue'
  BY <1>1, <1>2, GoesOnSockets
<1>4. CallsTrue'
  <2>1. \A j \in 1 .. Len(calls[i].ans) : calls[i].ans[j] < next'
    BY <1>1 DEF ListenInv, CallsTrue
  <2>2. QED
    BY <1>1, <1>2, <2>1, GoesOnCalls
<1>5. ~awry => ListTrue' /\ StartTrue' /\ SessionsTrue'
  BY <1>1, <1>2, GoesOnTrue DEF Worked
<1>6. QED
  BY <1>1, <1>3, <1>4, <1>5 DEF ListenInv

LEMMA CloseSocketKeeps ==
  ASSUME ListenInv, NEW i \in 1 .. Len(calls), CloseSocket(i)
  PROVE  ListenInv'
<1>1. /\ calls[i].at = "closing" /\ open' = open \ {calls[i].arg}
      /\ UNCHANGED <<next, sessions, loop, rows, log, loading, late>>
  BY DEF CloseSocket, Close
<1>2. /\ calls[i].op = "stop" /\ calls[i].arg \notin sessions /\ calls[i].ok = TRUE
      /\ calls[i].ans \in Seq(Sessions) /\ \A j \in 1 .. Len(calls[i].ans) : calls[i].ans[j] < next
  BY <1>1, CallsAre DEF ListenInv, CallsTrue
<1>3. PICK ok \in BOOLEAN, ans \in Seq(Sessions) :
          /\ GoesOn(i, "answered", ok, ans) /\ \A j \in 1 .. Len(ans) : ans[j] < next
          /\ (awry' = awry /\ ok) \/ awry'
  <2>1. CASE Done(i, <<>>) /\ UNCHANGED awry
    <3>1. <<>> \in Seq(Sessions) /\ Len(<<>>) = 0
      BY EmptySeq
    <3>2. GoesOn(i, "answered", TRUE, <<>>)
      BY <1>2, <2>1, <3>1, DoneIs DEF ListenInv
    <3>3. \A j \in 1 .. Len(<<>>) : <<>>[j] < next
      BY <3>1
    <3>4. QED
      BY <2>1, <3>1, <3>2, <3>3
  <2>2. CASE Fails(i) /\ awry' = TRUE
    <3>1. GoesOn(i, "answered", FALSE, calls[i].ans)
      BY <2>2, FailsIs DEF ListenInv
    <3>2. QED
      BY <1>2, <2>2, <3>1
  <2>3. QED
    BY <2>1, <2>2 DEF CloseSocket
<1>4. ListenType'
  BY <1>1, <1>3 DEF ListenInv, ListenType, Old, GoesOn
<1>5. CallsTrue'
  BY <1>1, <1>2, <1>3, GoesOnCalls
<1>6. SocketsTrue'
  <2>1. ASSUME NEW s, s # calls[i].arg, IsStopping(s) PROVE IsStopping(s)'
    <3>1. PICK k \in 1 .. Len(calls) : calls[k].at = "closing" /\ calls[k].arg = s
      BY <2>1 DEF IsStopping
    <3>2. k # i
      BY <2>1, <3>1
    <3>3. calls'[k].at = "closing" /\ calls'[k].arg = s /\ Len(calls') = Len(calls)
      BY <1>3, <3>1, <3>2 DEF GoesOn
    <3>4. QED
      BY <3>3 DEF IsStopping
  <2>2. sessions' \subseteq open'
    BY <1>1, <1>2 DEF ListenInv, SocketsTrue
  <2>3. \A s \in open' : s \in sessions' \/ IsStopping(s)'
    BY <1>1, <2>1 DEF ListenInv, SocketsTrue
  <2>4. QED
    BY <1>1, <2>2, <2>3 DEF ListenInv, SocketsTrue
<1>7. ~awry' => ListTrue' /\ StartTrue' /\ SessionsTrue'
  <2>1. ASSUME ~awry' PROVE ListTrue' /\ StartTrue' /\ SessionsTrue'
    <3>1. awry' = awry /\ ok
      BY <1>3, <2>1
    <3>2. QED
      BY <1>1, <1>2, <1>3, <2>1, <3>1, GoesOnTrue DEF Worked
  <2>2. QED
    BY <2>1
<1>8. QED
  BY <1>4, <1>5, <1>6, <1>7 DEF ListenInv

LEMMA GetListenersKeeps ==
  ASSUME ListenInv, NEW i \in 1 .. Len(calls), GetListeners(i)
  PROVE  ListenInv'
<1>1. /\ calls[i].at = "called" /\ calls[i].op = "list"
      /\ UNCHANGED <<next, sessions, open, loop, rows, log, loading, late, awry>>
  BY DEF GetListeners, Serves, listenBackendVars
<1>2. next \in Nat /\ sessions \subseteq 1 .. next - 1 /\ sessions \subseteq Sessions
  BY ListenerAssumption DEF ListenInv, ListenType, Old, Sessions
<1>3. IsFiniteSet(sessions)
  <2>1. next - 1 \in Int /\ 1 \in Int
    BY <1>2
  <2>2. QED
    BY <1>2, <2>1, FS_Interval, FS_Subset
<1>4. PICK ans \in SetToSeqs(sessions) : Done(i, ans)
  BY DEF GetListeners
<1>5. ans \in Seq(sessions) /\ Distinct(ans) /\ Range(ans) = sessions
  BY <1>3, AllInOrder
<1>6. ans \in Seq(Sessions) /\ \A j \in 1 .. Len(ans) : ans[j] < next
  <2>1. \A j \in 1 .. Len(ans) : ans[j] \in sessions
    BY <1>5, ElementOfSeq
  <2>2. ans \in Seq(Sessions)
    BY <1>2, <1>5, SeqMonotonic
  <2>3. \A s \in sessions : s < next
    BY <1>2
  <2>4. QED
    BY <2>1, <2>2, <2>3
<1>7. calls[i].ok = TRUE
  BY <1>1, CallsAre DEF ListenInv, CallsTrue
<1>8. GoesOn(i, "answered", TRUE, ans)
  BY <1>4, <1>6, <1>7, DoneIs DEF ListenInv
<1>9. ListenType' /\ SocketsTrue'
  BY <1>1, <1>6, <1>8, GoesOnSockets
<1>10. CallsTrue'
  BY <1>1, <1>6, <1>8, GoesOnCalls
<1>11. ~awry => ListTrue' /\ StartTrue' /\ SessionsTrue'
  BY <1>1, <1>5, <1>6, <1>8, GoesOnTrue
<1>12. QED
  BY <1>1, <1>9, <1>10, <1>11 DEF ListenInv

-----------------------------------------------------------------------------
(* A session starts, or ends.                                              *)

\* For a page that is gone, while the page that replaced it asks for the list:
\* it will read what is true then.
LEMMA UnheardWorks ==
  ASSUME ListenInv, ~awry,
         NEW i \in 1 .. Len(calls), NEW to \in {"called", "closing", "answered"},
         NEW ok \in BOOLEAN, NEW ans \in Seq(Sessions), GoesOn(i, to, ok, ans),
         UNCHANGED <<rows, loading>>, ~calls[i].heard, ~Unseen(i)
  PROVE  ListTrue' /\ StartTrue' /\ SessionsTrue'
<1>1. ListTrue /\ StartTrue
  BY DEF ListenInv
<1>2. PICK m \in 1 .. Len(calls) : HeardCall(m, "list") /\ calls[m].at = "called"
  BY CallsAre DEF Unseen, Listing, HeardCall, ListenInv
<1>3. /\ rows = <<>> /\ ~loading
      /\ \A k \in 1 .. Len(calls) : calls[k].heard => k = m
  BY <1>1, <1>2 DEF ListTrue
<1>4. Len(calls') = Len(calls) /\ m # i
  BY <1>2 DEF GoesOn, HeardCall
<1>5. \A k \in 1 .. Len(calls) : calls'[k].op = calls[k].op /\ calls'[k].heard = calls[k].heard
  BY DEF GoesOn
<1>6. calls'[m].at = "called"
  BY <1>2, <1>4 DEF GoesOn
<1>7. \A k \in 1 .. Len(calls) : HeardCall(k, "list")' => k = m
  BY <1>3, <1>4, <1>5 DEF HeardCall
<1>8. \A k \in 1 .. Len(calls) : ~HeardCall(k, "start")'
  BY <1>2, <1>3, <1>4, <1>5 DEF HeardCall
<1>9. HeardCall(m, "list")'
  BY <1>2, <1>4, <1>5 DEF HeardCall
<1>10. ListTrue'
  BY <1>3, <1>4, <1>5, <1>6, <1>7 DEF ListTrue
<1>11. StartTrue'
  BY <1>4, <1>8 DEF StartTrue
<1>12. SessionsTrue'
  BY <1>4, <1>9 DEF SessionsTrue
<1>13. QED
  BY <1>10, <1>11, <1>12

\* While the page waits for something else it does not ask for the list.
LEMMA NoList ==
  ASSUME ListenInv, ~awry, NEW i \in 1 .. Len(calls), calls[i].heard, calls[i].op # "list"
  PROVE  \A k \in 1 .. Len(calls) : ~HeardCall(k, "list")
BY DEF ListenInv, ListTrue, HeardCall

LEMMA DoStopKeeps ==
  ASSUME ListenInv, NEW i \in 1 .. Len(calls), DoStop(i)
  PROVE  ListenInv'
<1>1. PICK x : x = calls[i].arg
  OBVIOUS
<1>2. /\ calls[i].at = "called" /\ calls[i].op = "stop" /\ x \in sessions
      /\ sessions' = sessions \ {x} /\ awry' = (awry \/ Unseen(i))
      /\ UNCHANGED <<next, open, loop, rows, log, loading, late>>
  BY <1>1 DEF DoStop, Serves
<1>3. /\ calls[i].ok = TRUE /\ calls[i].ans \in Seq(Sessions)
      /\ \A j \in 1 .. Len(calls[i].ans) : calls[i].ans[j] < next
  BY <1>2, CallsAre DEF ListenInv, CallsTrue
<1>4. PICK ans \in Seq(Sessions) : ans = calls[i].ans
  BY <1>3
<1>5. GoesOn(i, "closing", TRUE, ans)
  BY <1>3, <1>4, ClosingIs DEF DoStop, ListenInv
<1>6. Len(calls') = Len(calls)
  BY <1>5 DEF GoesOn
<1>7. \A k \in 1 .. Len(calls) :
          /\ calls'[k].op = calls[k].op /\ calls'[k].arg = calls[k].arg
          /\ calls'[k].heard = calls[k].heard
  BY <1>5 DEF GoesOn
<1>8. \A k \in 1 .. Len(calls) : k # i =>
          calls'[k].at = calls[k].at /\ calls'[k].ok = calls[k].ok /\ calls'[k].ans = calls[k].ans
  BY <1>5 DEF GoesOn
<1>9. calls'[i].at = "closing"
  BY <1>5 DEF GoesOn
<1>10. ListenType'
  BY <1>2, <1>5 DEF ListenInv, ListenType, Old, GoesOn
<1>11. CallsTrue'
  BY <1>1, <1>2, <1>3, <1>4, <1>5, GoesOnCalls
<1>12. SocketsTrue'
  <2>1. ASSUME NEW s, IsStopping(s) PROVE IsStopping(s)'
    <3>1. PICK k \in 1 .. Len(calls) : calls[k].at = "closing" /\ calls[k].arg = s
      BY <2>1 DEF IsStopping
    <3>2. k # i
      BY <1>2, <3>1
    <3>3. QED
      BY <1>6, <1>7, <1>8, <3>1, <3>2 DEF IsStopping
  <2>2. IsStopping(x)'
    BY <1>1, <1>6, <1>7, <1>9 DEF IsStopping
  <2>3. \A s \in open' : s \in sessions' \/ IsStopping(s)'
    BY <1>2, <2>1, <2>2 DEF ListenInv, SocketsTrue
  <2>4. sessions' \subseteq open'
    BY <1>2 DEF ListenInv, SocketsTrue
  <2>5. QED
    BY <1>2, <2>3, <2>4 DEF ListenInv, SocketsTrue
<1>13. ASSUME ~awry', calls[i].heard PROVE ListTrue' /\ StartTrue' /\ SessionsTrue'
  <2>1. ~awry /\ ListTrue /\ StartTrue /\ SessionsTrue
    BY <1>2, <1>13 DEF ListenInv
  <2>2. \A k \in 1 .. Len(calls) : ~HeardCall(k, "list")
    BY <1>2, <1>13, <2>1, NoList
  <2>3. \A k \in 1 .. Len(calls) : ~HeardCall(k, "list")'
    BY <1>6, <1>7, <2>2 DEF HeardCall
  <2>4. ListTrue'
    BY <1>6, <2>3 DEF ListTrue
  <2>5. \A k \in 1 .. Len(calls) : \A op : HeardCall(k, op)' <=> HeardCall(k, op)
    BY <1>6, <1>7 DEF HeardCall
  <2>6. \A k \in 1 .. Len(calls) : HeardCall(k, "start") => k # i /\ (Worked(k)' <=> Worked(k))
    BY <1>2, <1>8 DEF HeardCall, Worked
  <2>7. StartTrue'
    <3>1. ASSUME NEW k \in 1 .. Len(calls), NEW j \in 1 .. Len(calls), HeardCall(k, "start")'
          PROVE  rows' = <<>> /\ loading' /\ (HeardCall(j, "start")' => k = j)
      BY <1>2, <2>1, <2>5, <3>1 DEF StartTrue
    <3>2. ASSUME NEW k \in 1 .. Len(calls), NEW j \in 1 .. Len(calls), HeardCall(k, "start")',
                 Worked(k)', HeardCall(j, "stop")'
          PROVE  calls'[j].arg # calls'[k].ans[1]
      BY <1>7, <1>8, <2>1, <2>5, <2>6, <3>2 DEF StartTrue
    <3>3. QED
      BY <1>6, <3>1, <3>2 DEF StartTrue
  <2>8. \A s \in Sessions : IsBorn(s)' <=> IsBorn(s)
    BY <1>6, <1>8, <2>5, <2>6 DEF IsBorn
  <2>9. ~IsBorn(x)
    BY <1>1, <1>2, <1>13, <2>1 DEF IsBorn, StartTrue, HeardCall
  <2>10. IsGone(x)'
    BY <1>1, <1>2, <1>6, <1>7, <1>9, <1>13 DEF IsGone, HeardCall
  <2>11. ASSUME NEW s \in Sessions, s # x PROVE IsGone(s)' <=> IsGone(s)
    <3>1. ASSUME NEW k \in 1 .. Len(calls)
          PROVE  (HeardCall(k, "stop")' /\ (calls'[k].at = "closing" \/ Worked(k)') /\ calls'[k].arg = s)
                 <=> (HeardCall(k, "stop") /\ (calls[k].at = "closing" \/ Worked(k)) /\ calls[k].arg = s)
      <4>1. CASE k = i
        BY <1>1, <1>7, <2>11, <4>1
      <4>2. CASE k # i
        BY <1>7, <1>8, <2>5, <4>2 DEF Worked
      <4>3. QED
        BY <4>1, <4>2
    <3>2. QED
      BY <1>6, <3>1 DEF IsGone
  <2>12. ASSUME NEW s \in Sessions
         PROVE  s \in sessions' <=> (s \in Range(rows') /\ ~IsGone(s)') \/ IsBorn(s)'
    <3>1. s \in sessions <=> (s \in Range(rows) /\ ~IsGone(s)) \/ IsBorn(s)
      BY <2>1, <2>2 DEF SessionsTrue
    <3>2. CASE s = x
      BY <1>2, <2>8, <2>9, <2>10, <3>2
    <3>3. CASE s # x
      BY <1>2, <2>8, <2>11, <3>1, <3>3
    <3>4. QED
      BY <3>2, <3>3
  <2>13. Distinct(rows')
    BY <1>2, <2>1, <2>2 DEF SessionsTrue
  <2>14. SessionsTrue'
    BY <2>12, <2>13 DEF SessionsTrue
  <2>15. QED
    BY <2>4, <2>7, <2>14
<1>14. ASSUME ~awry', ~calls[i].heard PROVE ListTrue' /\ StartTrue' /\ SessionsTrue'
  BY <1>2, <1>5, <1>14, UnheardWorks
<1>15. QED
  BY <1>10, <1>11, <1>12, <1>13, <1>14 DEF ListenInv

LEMMA DoStartKeeps ==
  ASSUME ListenInv, NEW i \in 1 .. Len(calls), DoStart(i)
  PROVE  ListenInv'
<1>1. /\ calls[i].at = "called" /\ calls[i].op = "start" /\ next \in Sessions
      /\ next' = next + 1 /\ sessions' = sessions \cup {next} /\ open' = open \cup {next}
      /\ loop' = [loop EXCEPT ![next] = "read"] /\ Done(i, <<next>>)
      /\ awry' = (awry \/ Unseen(i))
      /\ UNCHANGED <<rows, log, loading, late>>
  BY DEF DoStart, Serves
<1>2. next \in 1 .. MaxSessions /\ MaxSessions \in Nat
  BY <1>1, ListenerAssumption DEF Sessions
<1>3. calls[i].ok = TRUE
  BY <1>1, CallsAre DEF ListenInv, CallsTrue
<1>4. PICK ans \in Seq(Sessions) : ans = <<next>>
  <2>1. next \in Sessions
    BY <1>1
  <2>2. <<next>> \in Seq(Sessions)
    BY <2>1
  <2>3. QED
    BY <2>2
<1>5. Len(ans) = 1 /\ ans[1] = next /\ \A j \in 1 .. Len(ans) : ans[j] < next'
  BY <1>1, <1>2, <1>4
<1>6. GoesOn(i, "answered", TRUE, ans)
  BY <1>1, <1>3, <1>4, DoneIs DEF ListenInv
<1>7. Len(calls') = Len(calls)
  BY <1>6 DEF GoesOn
<1>8. \A k \in 1 .. Len(calls) :
          /\ calls'[k].op = calls[k].op /\ calls'[k].arg = calls[k].arg
          /\ calls'[k].heard = calls[k].heard
  BY <1>6 DEF GoesOn
<1>9. \A k \in 1 .. Len(calls) : k # i =>
          calls'[k].at = calls[k].at /\ calls'[k].ok = calls[k].ok /\ calls'[k].ans = calls[k].ans
  BY <1>6 DEF GoesOn
<1>10. calls'[i].at = "answered" /\ calls'[i].ok /\ calls'[i].ans[1] = next
  BY <1>5, <1>6 DEF GoesOn
<1>11. ListenType'
  <2>1. next' \in 1 .. MaxSessions + 1 /\ Old' = Old \cup {next}
    BY <1>1, <1>2 DEF Old
  <2>2. loop' \in [Sessions -> {"none", "read", "emit", "ended"}]
    BY <1>1 DEF ListenInv, ListenType
  <2>3. QED
    BY <1>1, <1>6, <2>1, <2>2 DEF ListenInv, ListenType, GoesOn
<1>12. CallsTrue'
  BY <1>1, <1>5, <1>6, GoesOnCalls
<1>13. SocketsTrue'
  <2>1. \A k \in 1 .. Len(calls) : calls[k].at = "closing" =>
            calls'[k].at = "closing" /\ calls'[k].arg = calls[k].arg
    BY <1>1, <1>8, <1>9
  <2>2. \A s : IsStopping(s) => IsStopping(s)'
    BY <1>7, <2>1 DEF IsStopping
  <2>3. sessions' \subseteq open' /\ \A s \in open' : s \in sessions' \/ IsStopping(s)'
    BY <1>1, <2>2 DEF ListenInv, SocketsTrue
  <2>4. ASSUME NEW s \in Sessions
        PROVE  /\ loop'[s] # "none" => s < next'
               /\ late'[s] <= 1
               /\ late'[s] = 1 => s \notin open' /\ loop'[s] \in {"read", "ended"}
    <3>1. /\ loop[s] # "none" => s < next
          /\ late[s] <= 1
          /\ late[s] = 1 => s \notin open /\ loop[s] \in {"read", "ended"}
      BY DEF ListenInv, SocketsTrue
    <3>2. s \in Nat /\ loop'[s] = IF s = next THEN "read" ELSE loop[s]
      BY <1>1 DEF ListenInv, ListenType, Sessions
    <3>3. loop[next] = "none"
      BY <1>1, <1>2 DEF ListenInv, SocketsTrue
    <3>4. QED
      BY <1>1, <1>2, <3>1, <3>2, <3>3
  <2>5. QED
    BY <1>1, <2>3, <2>4 DEF ListenInv, SocketsTrue
<1>14. ASSUME ~awry', calls[i].heard PROVE ListTrue' /\ StartTrue' /\ SessionsTrue'
  <2>1. ~awry /\ ListTrue /\ StartTrue /\ SessionsTrue
    BY <1>1, <1>14 DEF ListenInv
  <2>2. \A k \in 1 .. Len(calls) : ~HeardCall(k, "list")
    BY <1>1, <1>14, <2>1, NoList
  <2>3. \A k \in 1 .. Len(calls) : \A op : HeardCall(k, op)' <=> HeardCall(k, op)
    BY <1>7, <1>8 DEF HeardCall
  <2>4. ListTrue'
    BY <1>7, <2>2, <2>3 DEF ListTrue
  <2>5. /\ rows = <<>> /\ loading /\ HeardCall(i, "start")
        /\ \A k \in 1 .. Len(calls) : HeardCall(k, "start") => k = i
    BY <1>1, <1>14, <2>1 DEF StartTrue, HeardCall
  <2>6. StartTrue'
    <3>1. ASSUME NEW k \in 1 .. Len(calls), NEW j \in 1 .. Len(calls), HeardCall(k, "start")'
          PROVE  rows' = <<>> /\ loading' /\ (HeardCall(j, "start")' => k = j)
      BY <1>1, <2>3, <2>5, <3>1
    <3>2. ASSUME NEW k \in 1 .. Len(calls), NEW j \in 1 .. Len(calls), HeardCall(k, "start")',
                 Worked(k)', HeardCall(j, "stop")'
          PROVE  calls'[j].arg # calls'[k].ans[1]
      <4>1. k = i /\ HeardCall(j, "stop")
        BY <2>3, <2>5, <3>2
      <4>2. calls[j].arg \in Old
        BY <4>1 DEF HeardCall, ListenInv, CallsTrue
      <4>3. calls[j].arg # next
        BY <1>2, <4>2 DEF Old
      <4>4. QED
        BY <1>8, <1>10, <4>1, <4>3
    <3>3. QED
      BY <1>7, <3>1, <3>2 DEF StartTrue
  <2>7. \A s : ~IsBorn(s)
    BY <1>1, <2>5 DEF IsBorn, Worked
  <2>8. \A s : s \notin Range(rows)
    BY <2>5 DEF Range
  <2>9. sessions = {}
    <3>1. \A s \in Sessions : s \notin sessions
      BY <2>1, <2>2, <2>7, <2>8 DEF SessionsTrue
    <3>2. sessions \subseteq Sessions
      BY <1>2 DEF ListenInv, ListenType, Old, Sessions
    <3>3. QED
      BY <3>1, <3>2
  <2>10. ASSUME NEW s \in Sessions PROVE IsBorn(s)' <=> s = next
    BY <1>7, <1>10, <2>3, <2>5 DEF IsBorn, Worked
  <2>11. Distinct(rows')
    BY <1>1, <2>1, <2>2 DEF SessionsTrue
  <2>12. SessionsTrue'
    BY <1>1, <2>8, <2>9, <2>10, <2>11 DEF SessionsTrue
  <2>13. QED
    BY <2>4, <2>6, <2>12
<1>15. ASSUME ~awry', ~calls[i].heard PROVE ListTrue' /\ StartTrue' /\ SessionsTrue'
  BY <1>1, <1>6, <1>15, UnheardWorks
<1>16. QED
  BY <1>11, <1>12, <1>13, <1>14, <1>15 DEF ListenInv

-----------------------------------------------------------------------------
(* The page makes a call.                                                  *)

\* A call that was made is the last; the others are where they were.
LEMMA CallMade ==
  ASSUME ListenInv, NEW op \in {"start", "stop", "list"}, NEW arg \in Sessions \cup Ports \cup {0},
         calls' = Append(calls, Call(op, arg))
  PROVE  /\ calls' \in Seq(ListenCall) /\ Len(calls') = Len(calls) + 1 /\ Len(calls) \in Nat
         /\ \A k \in 1 .. Len(calls) : calls'[k] = calls[k] /\ k # Len(calls')
         /\ calls'[Len(calls')].op = op /\ calls'[Len(calls')].arg = arg
         /\ calls'[Len(calls')].at = "called" /\ calls'[Len(calls')].ok
         /\ calls'[Len(calls')].heard /\ calls'[Len(calls')].ans = <<>>
         /\ \A k \in 1 .. Len(calls') : k \in 1 .. Len(calls) \/ k = Len(calls')
<1>1. PICK c \in ListenCall : c = Call(op, arg)
  BY CallIs
<1>2. IsMade(c)
  BY <1>1, IsMadeIs DEF ListenInv
<1>3. PICK n \in Nat : n = Len(calls)
  BY CallsAre DEF ListenInv
<1>4. \A k \in 1 .. n + 1 : k \in 1 .. n \/ k = n + 1
  OBVIOUS
<1>5. \A k \in 1 .. n : k # n + 1
  OBVIOUS
<1>6. /\ c.op = op /\ c.arg = arg /\ c.at = "called" /\ c.ok /\ c.heard /\ c.ans = <<>>
  BY <1>1, CallIs
<1>7. /\ calls' \in Seq(ListenCall) /\ Len(calls') = n + 1
      /\ \A k \in 1 .. n : calls'[k] = calls[k]
      /\ calls'[n + 1] = c
  BY <1>2, <1>3 DEF IsMade
<1>8. QED
  BY <1>3, <1>4, <1>5, <1>6, <1>7

\* What the making of a call leaves true.
LEMMA CallMadeKeeps ==
  ASSUME ListenInv, NEW op \in {"start", "stop"}, NEW arg \in Sessions \cup Ports \cup {0},
         calls' = Append(calls, Call(op, arg)), op = "stop" => arg \in Old,
         UNCHANGED <<next, sessions, open, loop, log, late, rows>>
  PROVE  ListenType' /\ CallsTrue' /\ SocketsTrue'
<1>1. /\ calls' \in Seq(ListenCall) /\ Len(calls') = Len(calls) + 1 /\ Len(calls) \in Nat
      /\ \A k \in 1 .. Len(calls) : calls'[k] = calls[k] /\ k # Len(calls')
      /\ calls'[Len(calls')].op = op /\ calls'[Len(calls')].arg = arg
      /\ calls'[Len(calls')].at = "called" /\ calls'[Len(calls')].ok
      /\ calls'[Len(calls')].heard /\ calls'[Len(calls')].ans = <<>>
      /\ \A k \in 1 .. Len(calls') : k \in 1 .. Len(calls) \/ k = Len(calls')
  BY CallMade
<1>2. ListenType'
  BY <1>1 DEF ListenInv, ListenType, Old
<1>3. ASSUME NEW k \in 1 .. Len(calls')
      PROVE  /\ calls'[k].op = "stop" => calls'[k].arg \in Old'
             /\ \A j \in 1 .. Len(calls'[k].ans) : calls'[k].ans[j] < next'
             /\ calls'[k].at = "closing" => calls'[k].op = "stop" /\ calls'[k].arg \notin sessions'
             /\ calls'[k].at # "answered" => calls'[k].ok
             /\ calls'[k].op = "start" /\ calls'[k].at = "answered" /\ calls'[k].ok
                  => Len(calls'[k].ans) = 1
  <2>1. Old' = Old
    BY DEF Old
  <2>2. CASE k \in 1 .. Len(calls)
    BY <1>1, <2>1, <2>2 DEF ListenInv, CallsTrue
  <2>3. CASE k = Len(calls')
    <3>1. Len(calls'[k].ans) = 0
      BY <1>1, <2>3, EmptySeq
    <3>2. QED
      BY <1>1, <2>1, <2>3, <3>1
  <2>4. QED
    BY <1>1, <2>2, <2>3
<1>4. CallsTrue'
  BY <1>3 DEF ListenInv, CallsTrue
<1>5. \A s : IsStopping(s) => IsStopping(s)'
  <2>1. \A k \in 1 .. Len(calls) : k \in 1 .. Len(calls')
    BY <1>1
  <2>2. QED
    BY <1>1, <2>1 DEF IsStopping
<1>6. SocketsTrue'
  BY <1>5 DEF ListenInv, SocketsTrue
<1>7. QED
  BY <1>2, <1>4, <1>6

\* What the page will hear of the sessions does not depend on a call just made.
LEMMA CallMadeTrue ==
  ASSUME ListenInv, ~awry, Listing = {}, NEW op \in {"start", "stop"},
         NEW arg \in Sessions \cup Ports \cup {0},
         calls' = Append(calls, Call(op, arg)), UNCHANGED <<rows, sessions>>
  PROVE  /\ ListTrue' /\ SessionsTrue'
         /\ \A k \in 1 .. Len(calls) : \A o : HeardCall(k, o)' <=> HeardCall(k, o)
         /\ \A k \in 1 .. Len(calls') : Worked(k)' => k \in 1 .. Len(calls)
<1>1. /\ calls' \in Seq(ListenCall) /\ Len(calls') = Len(calls) + 1 /\ Len(calls) \in Nat
      /\ \A k \in 1 .. Len(calls) : calls'[k] = calls[k] /\ k # Len(calls')
      /\ calls'[Len(calls')].op = op /\ calls'[Len(calls')].arg = arg
      /\ calls'[Len(calls')].at = "called" /\ calls'[Len(calls')].ok
      /\ calls'[Len(calls')].heard /\ calls'[Len(calls')].ans = <<>>
      /\ \A k \in 1 .. Len(calls') : k \in 1 .. Len(calls) \/ k = Len(calls')
  BY CallMade
<1>2. \A k \in 1 .. Len(calls) : k \in 1 .. Len(calls')
  BY <1>1
<1>3. \A k \in 1 .. Len(calls) : \A o : HeardCall(k, o)' <=> HeardCall(k, o)
  BY <1>1, <1>2 DEF HeardCall
<1>4. \A k \in 1 .. Len(calls) : Worked(k)' <=> Worked(k)
  BY <1>1 DEF Worked
<1>5. ASSUME NEW k \in 1 .. Len(calls'), Worked(k)' \/ calls'[k].at = "closing"
      PROVE  k \in 1 .. Len(calls)
  BY <1>1, <1>5 DEF Worked
<1>6. \A k \in 1 .. Len(calls) : ~HeardCall(k, "list")
  BY CallsAre DEF Listing, HeardCall, ListenInv
<1>7. \A k \in 1 .. Len(calls') : ~HeardCall(k, "list")'
  BY <1>1, <1>3, <1>6 DEF HeardCall
<1>8. ListTrue'
  BY <1>7 DEF ListTrue
<1>9. ASSUME NEW s PROVE IsBorn(s)' <=> IsBorn(s)
  BY <1>1, <1>2, <1>3, <1>4, <1>5 DEF IsBorn
<1>10. ASSUME NEW s PROVE IsGone(s)' <=> IsGone(s)
  BY <1>1, <1>2, <1>3, <1>4, <1>5 DEF IsGone
<1>11. SessionsTrue'
  BY <1>6, <1>9, <1>10 DEF ListenInv, SessionsTrue
<1>12. QED
  BY <1>3, <1>5, <1>8, <1>11

LEMMA StartListenKeeps ==
  ASSUME ListenInv, NEW p \in Ports, StartListen(p)
  PROVE  ListenInv'
<1>1. /\ ~loading /\ rows = <<>> /\ loading' = TRUE /\ calls' = Append(calls, Call("start", p))
      /\ awry' = (awry \/ Listing # {})
      /\ UNCHANGED <<next, sessions, open, loop, rows, log, late>>
  BY DEF StartListen, listenBackendVars
<1>2. ListenType' /\ CallsTrue' /\ SocketsTrue'
  BY <1>1, CallMadeKeeps
<1>3. ASSUME ~awry' PROVE ListTrue' /\ StartTrue' /\ SessionsTrue'
  <2>1. ~awry /\ Listing = {} /\ StartTrue
    BY <1>1, <1>3 DEF ListenInv
  <2>2. /\ ListTrue' /\ SessionsTrue'
        /\ \A k \in 1 .. Len(calls) : \A o : HeardCall(k, o)' <=> HeardCall(k, o)
        /\ \A k \in 1 .. Len(calls') : Worked(k)' => k \in 1 .. Len(calls)
    BY <1>1, <2>1, CallMadeTrue
  <2>3. \A k \in 1 .. Len(calls) : ~HeardCall(k, "start")
    BY <1>1, <2>1 DEF StartTrue
  <2>4. \A k \in 1 .. Len(calls') : k \in 1 .. Len(calls) \/ k = Len(calls')
    BY <1>1, CallMade
  <2>5. \A k \in 1 .. Len(calls') : HeardCall(k, "start")' => k = Len(calls')
    BY <2>2, <2>3, <2>4
  <2>6. StartTrue'
    <3>1. \A k \in 1 .. Len(calls) : k # Len(calls')
      BY <1>1, CallMade
    <3>2. \A k \in 1 .. Len(calls') : HeardCall(k, "start")' => ~Worked(k)'
      BY <2>2, <2>5, <3>1
    <3>3. rows' = <<>> /\ loading'
      BY <1>1
    <3>4. QED
      BY <2>5, <3>2, <3>3 DEF StartTrue
  <2>7. QED
    BY <2>2, <2>6
<1>4. QED
  BY <1>2, <1>3 DEF ListenInv

LEMMA StopListenKeeps ==
  ASSUME ListenInv, NEW s \in Sessions, StopListen(s)
  PROVE  ListenInv'
<1>1. /\ s \in Range(rows) /\ calls' = Append(calls, Call("stop", s))
      /\ awry' = (awry \/ Listing # {})
      /\ UNCHANGED <<next, sessions, open, loop, rows, log, loading, late>>
  BY DEF StopListen, listenBackendVars
<1>2. PICK j \in 1 .. Len(rows) : rows[j] = s
  BY <1>1, LenProperties DEF Range, ListenInv, ListenType
<1>3. s \in Old
  <2>1. MaxSessions \in Nat /\ s \in 1 .. MaxSessions
    BY ListenerAssumption DEF Sessions
  <2>2. next \in Nat
    BY <2>1 DEF ListenInv, ListenType
  <2>3. s < next
    BY <1>2 DEF ListenInv, CallsTrue
  <2>4. QED
    BY <2>1, <2>2, <2>3 DEF Old
<1>4. ListenType' /\ CallsTrue' /\ SocketsTrue'
  BY <1>1, <1>3, CallMadeKeeps
<1>5. ASSUME ~awry' PROVE ListTrue' /\ StartTrue' /\ SessionsTrue'
  <2>1. ~awry /\ Listing = {} /\ StartTrue
    BY <1>1, <1>5 DEF ListenInv
  <2>2. /\ ListTrue' /\ SessionsTrue'
        /\ \A k \in 1 .. Len(calls) : \A o : HeardCall(k, o)' <=> HeardCall(k, o)
        /\ \A k \in 1 .. Len(calls') : Worked(k)' => k \in 1 .. Len(calls)
    BY <1>1, <2>1, CallMadeTrue
  <2>3. rows # <<>>
    BY <1>2, EmptySeq DEF ListenInv, ListenType
  <2>4. \A k \in 1 .. Len(calls) : ~HeardCall(k, "start")
    BY <2>1, <2>3 DEF StartTrue
  <2>5. /\ \A k \in 1 .. Len(calls') : k \in 1 .. Len(calls) \/ k = Len(calls')
        /\ calls'[Len(calls')].op = "stop"
    BY <1>1, CallMade
  <2>6. \A k \in 1 .. Len(calls') : ~HeardCall(k, "start")'
    <3>1. ASSUME NEW k, k = Len(calls') PROVE ~HeardCall(k, "start")'
      BY <2>5, <3>1 DEF HeardCall
    <3>2. QED
      BY <2>2, <2>4, <2>5, <3>1
  <2>7. StartTrue'
    BY <2>6 DEF StartTrue
  <2>8. QED
    BY <2>2, <2>7
<1>6. QED
  BY <1>4, <1>5 DEF ListenInv

\* The page is loaded again: nothing of what it asked before is heard.
LEMMA ListenReloadKeeps ==
  ASSUME ListenInv, ListenReload
  PROVE  ListenInv'
<1>1. /\ rows' = <<>> /\ log' = <<>> /\ loading' = FALSE
      /\ calls' = Append([i \in DOMAIN calls |-> [calls[i] EXCEPT !.heard = FALSE]], Refresh)
      /\ UNCHANGED <<next, sessions, open, loop, late, awry>>
  BY DEF ListenReload, listenBackendVars
<1>2. PICK n \in Nat : n = Len(calls) /\ DOMAIN calls = 1 .. n
  BY CallsAre DEF ListenInv
<1>3. PICK old \in [1 .. n -> ListenCall] :
          /\ old = [i \in DOMAIN calls |-> [calls[i] EXCEPT !.heard = FALSE]]
          /\ \A i \in 1 .. n : old[i] = [calls[i] EXCEPT !.heard = FALSE]
  <2>1. \A c \in ListenCall : [c EXCEPT !.heard = FALSE] \in ListenCall
    BY DEF ListenCall
  <2>2. \A i \in 1 .. n : calls[i] \in ListenCall
    BY <1>2, CallsAre DEF ListenInv
  <2> DEFINE d(i) == [calls[i] EXCEPT !.heard = FALSE]
  <2>3. \A i \in 1 .. n : d(i) \in ListenCall
    BY <2>1, <2>2
  <2> HIDE DEF d
  <2>4. PICK all \in [1 .. n -> ListenCall] : all = [i \in 1 .. n |-> d(i)]
    BY <2>3
  <2>5. \A i \in 1 .. n : all[i] = d(i)
    BY <2>4
  <2>6. QED
    BY <1>2, <2>4, <2>5 DEF d
<1>4. old \in Seq(ListenCall) /\ Len(old) = n
  <2>1. old \in Seq(ListenCall)
    BY <1>3, SeqDef
  <2>2. QED
    BY <1>3, <2>1, LenProperties
<1>5. ASSUME NEW i \in 1 .. n
      PROVE  /\ old[i].op = calls[i].op /\ old[i].arg = calls[i].arg /\ old[i].at = calls[i].at
             /\ old[i].ok = calls[i].ok /\ old[i].ans = calls[i].ans /\ ~old[i].heard
  <2>1. calls[i] \in ListenCall
    BY <1>2, CallsAre DEF ListenInv
  <2>2. \A c \in ListenCall :
            LET d == [c EXCEPT !.heard = FALSE] IN
            d.op = c.op /\ d.arg = c.arg /\ d.at = c.at /\ d.ok = c.ok /\ d.ans = c.ans /\ ~d.heard
    BY DEF ListenCall
  <2>3. QED
    BY <1>3, <2>1, <2>2
<1>6. PICK c \in ListenCall :
          /\ c = Refresh /\ c.op = "list" /\ c.at = "called" /\ c.ok /\ c.heard /\ c.ans = <<>>
  BY CallIs DEF Refresh
<1>7. /\ calls' \in Seq(ListenCall) /\ Len(calls') = n + 1
      /\ \A i \in 1 .. n : calls'[i] = old[i]
      /\ calls'[n + 1] = c
  <2>1. calls' = Append(old, c)
    BY <1>1, <1>3, <1>6
  <2>2. QED
    BY <1>4, <2>1, AppendProperties
<1>8. \A k \in 1 .. n + 1 : k \in 1 .. n \/ k = n + 1
  OBVIOUS
<1>9. \A k \in 1 .. n : k \in 1 .. n + 1 /\ k # n + 1
  OBVIOUS
<1>10. rows' \in Seq(Sessions) /\ log' \in Seq(Sessions) /\ Len(rows') = 0 /\ Len(log') = 0
  BY <1>1, EmptySeq
<1>11. ListenType'
  BY <1>1, <1>7, <1>10 DEF ListenInv, ListenType, Old
<1>12. CallsTrue'
  <2>1. ASSUME NEW k \in 1 .. n + 1
        PROVE  /\ calls'[k].op = "stop" => calls'[k].arg \in Old'
               /\ \A j \in 1 .. Len(calls'[k].ans) : calls'[k].ans[j] < next'
               /\ calls'[k].at = "closing" => calls'[k].op = "stop" /\ calls'[k].arg \notin sessions'
               /\ calls'[k].at # "answered" => calls'[k].ok
               /\ calls'[k].op = "start" /\ calls'[k].at = "answered" /\ calls'[k].ok
                    => Len(calls'[k].ans) = 1
    <3>1. Old' = Old
      BY <1>1 DEF Old
    <3>2. CASE k \in 1 .. n
      <4>1. /\ calls[k].op = "stop" => calls[k].arg \in Old
            /\ \A j \in 1 .. Len(calls[k].ans) : calls[k].ans[j] < next
            /\ calls[k].at = "closing" => calls[k].op = "stop" /\ calls[k].arg \notin sessions
            /\ calls[k].at # "answered" => calls[k].ok
            /\ calls[k].op = "start" /\ calls[k].at = "answered" /\ calls[k].ok
                 => Len(calls[k].ans) = 1
        BY <1>2, <3>2 DEF ListenInv, CallsTrue
      <4>2. /\ calls'[k].op = calls[k].op /\ calls'[k].arg = calls[k].arg /\ calls'[k].at = calls[k].at
            /\ calls'[k].ok = calls[k].ok /\ calls'[k].ans = calls[k].ans
        BY <1>5, <1>7, <3>2
      <4>3. QED
        BY <1>1, <3>1, <4>1, <4>2
    <3>3. CASE k = n + 1
      <4>1. Len(calls'[k].ans) = 0
        BY <1>6, <1>7, <3>3, EmptySeq
      <4>2. QED
        BY <1>6, <1>7, <3>3, <4>1
    <3>4. QED
      BY <1>8, <3>2, <3>3
  <2>2. \A j \in 1 .. Len(rows') : rows'[j] < next'
    BY <1>10
  <2>3. QED
    BY <1>7, <2>1, <2>2 DEF CallsTrue
<1>13. SocketsTrue'
  <2>1. \A s : IsStopping(s) => IsStopping(s)'
    BY <1>2, <1>5, <1>7, <1>9 DEF IsStopping
  <2>2. Len(log') <= MaxLog
    BY <1>10, ListenerAssumption
  <2>3. QED
    BY <1>1, <2>1, <2>2 DEF ListenInv, SocketsTrue
<1>14. \A k \in 1 .. n + 1 : calls'[k].heard => k = n + 1
  BY <1>5, <1>7, <1>8
<1>15. ListTrue'
  BY <1>1, <1>6, <1>7, <1>14 DEF ListTrue, HeardCall
<1>16. StartTrue'
  <2>1. \A k \in 1 .. Len(calls') : ~HeardCall(k, "start")'
    BY <1>6, <1>7, <1>14 DEF HeardCall
  <2>2. QED
    BY <2>1 DEF StartTrue
<1>17. SessionsTrue'
  <2>1. n + 1 \in 1 .. n + 1
    OBVIOUS
  <2>2. \E k \in 1 .. n + 1 : HeardCall(k, "list")'
    BY <1>6, <1>7, <2>1 DEF HeardCall
  <2>3. QED
    BY <1>7, <2>2 DEF SessionsTrue
<1>18. QED
  BY <1>11, <1>12, <1>13, <1>15, <1>16, <1>17 DEF ListenInv

-----------------------------------------------------------------------------
(* The program ends.                                                       *)

LEMMA StopAllKeeps ==
  ASSUME ListenInv, StopAll
  PROVE  ListenInv'
<1>1. /\ sessions' = {} /\ awry' = TRUE
      /\ UNCHANGED <<next, open, loop, rows, log, loading, late>>
  BY DEF StopAll
<1>2. next \in Nat /\ sessions \subseteq 1 .. next - 1 /\ sessions \subseteq Sessions
  BY ListenerAssumption DEF ListenInv, ListenType, Old, Sessions
<1>3. IsFiniteSet(sessions)
  <2>1. next - 1 \in Int /\ 1 \in Int
    BY <1>2
  <2>2. QED
    BY <1>2, <2>1, FS_Interval, FS_Subset
<1>4. PICK list \in SetToSeqs(sessions) :
          calls' = calls \o [k \in DOMAIN list |->
                                [Call("stop", list[k]) EXCEPT !.at = "closing", !.heard = FALSE]]
  BY DEF StopAll
<1>5. list \in Seq(sessions) /\ Range(list) = sessions
  BY <1>3, AllInOrder
<1>6. PICK m \in Nat : m = Len(list) /\ DOMAIN list = 1 .. m
  BY <1>5, LenProperties
<1>7. \A k \in 1 .. m : list[k] \in sessions /\ list[k] \in Sessions
  BY <1>2, <1>5, <1>6, ElementOfSeq
<1> DEFINE stop(s) == [Call("stop", s) EXCEPT !.at = "closing", !.heard = FALSE]
<1>8. ASSUME NEW s \in Sessions
      PROVE  /\ stop(s) \in ListenCall /\ stop(s).op = "stop" /\ stop(s).arg = s
             /\ stop(s).at = "closing" /\ stop(s).ok /\ stop(s).ans = <<>> /\ ~stop(s).heard
  <2>1. Call("stop", s) \in ListenCall /\ Call("stop", s).op = "stop" /\ Call("stop", s).arg = s
        /\ Call("stop", s).ok /\ Call("stop", s).ans = <<>>
    BY CallIs
  <2>2. \A c \in ListenCall :
            LET d == [c EXCEPT !.at = "closing", !.heard = FALSE] IN
            /\ d \in ListenCall /\ d.op = c.op /\ d.arg = c.arg /\ d.at = "closing"
            /\ d.ok = c.ok /\ d.ans = c.ans /\ ~d.heard
    BY DEF ListenCall
  <2>3. QED
    BY <2>1, <2>2, Zenon
<1>9. calls' = calls \o [k \in DOMAIN list |-> stop(list[k])]
  BY <1>4
<1> HIDE DEF stop
<1>10. PICK stops \in [1 .. m -> ListenCall] :
           /\ stops = [k \in DOMAIN list |-> stop(list[k])]
           /\ \A k \in 1 .. m : stops[k] = stop(list[k])
  <2>1. \A k \in 1 .. m : stop(list[k]) \in ListenCall
    BY <1>7, <1>8
  <2>2. PICK all \in [1 .. m -> ListenCall] : all = [k \in 1 .. m |-> stop(list[k])]
    BY <2>1
  <2>3. \A k \in 1 .. m : all[k] = stop(list[k])
    BY <2>2
  <2>4. QED
    BY <1>6, <2>2, <2>3
<1>11. stops \in Seq(ListenCall) /\ Len(stops) = m
  <2>1. stops \in Seq(ListenCall)
    BY <1>10, SeqDef
  <2>2. QED
    BY <1>10, <2>1, LenProperties
<1>12. PICK n \in Nat : n = Len(calls)
  BY CallsAre DEF ListenInv
<1>13. /\ calls' \in Seq(ListenCall) /\ Len(calls') = n + m
       /\ \A k \in 1 .. n + m : calls'[k] = IF k <= n THEN calls[k] ELSE stops[k - n]
  <2>1. calls' = calls \o stops /\ calls \in Seq(ListenCall)
    BY <1>9, <1>10 DEF ListenInv, ListenType
  <2>2. QED
    BY <1>11, <1>12, <2>1, ConcatProperties
<1>14. ASSUME NEW k \in 1 .. n + m
       PROVE  \/ k \in 1 .. n /\ calls'[k] = calls[k]
              \/ k - n \in 1 .. m /\ calls'[k] = stop(list[k - n])
  <2>1. CASE k <= n
    BY <1>13, <2>1
  <2>2. CASE ~ (k <= n)
    <3>1. k - n \in 1 .. m
      BY <2>2
    <3>2. QED
      BY <1>10, <1>13, <2>2, <3>1
  <2>3. QED
    BY <2>1, <2>2
<1>15. ListenType'
  BY <1>1, <1>13 DEF ListenInv, ListenType, Old
<1>16. CallsTrue'
  <2>1. ASSUME NEW k \in 1 .. n + m
        PROVE  /\ calls'[k].op = "stop" => calls'[k].arg \in Old'
               /\ \A j \in 1 .. Len(calls'[k].ans) : calls'[k].ans[j] < next'
               /\ calls'[k].at = "closing" => calls'[k].op = "stop" /\ calls'[k].arg \notin sessions'
               /\ calls'[k].at # "answered" => calls'[k].ok
               /\ calls'[k].op = "start" /\ calls'[k].at = "answered" /\ calls'[k].ok
                    => Len(calls'[k].ans) = 1
    <3>1. Old' = Old
      BY <1>1 DEF Old
    <3>2. CASE k \in 1 .. n /\ calls'[k] = calls[k]
      BY <1>1, <1>12, <3>1, <3>2 DEF ListenInv, CallsTrue
    <3>3. CASE k - n \in 1 .. m /\ calls'[k] = stop(list[k - n])
      <4>1. PICK s : s = list[k - n] /\ s \in sessions /\ s \in Sessions
        BY <1>7, <3>3
      <4>2. /\ calls'[k].op = "stop" /\ calls'[k].arg = s /\ calls'[k].at = "closing"
            /\ calls'[k].ok /\ calls'[k].ans = <<>>
        BY <1>8, <3>3, <4>1
      <4>3. Len(calls'[k].ans) = 0
        BY <4>2, EmptySeq
      <4>4. s \in Old
        BY <4>1 DEF ListenInv, ListenType
      <4>5. QED
        BY <1>1, <3>1, <4>2, <4>3, <4>4
    <3>4. QED
      BY <1>14, <3>2, <3>3
  <2>2. \A j \in 1 .. Len(rows') : rows'[j] < next'
    BY <1>1 DEF ListenInv, CallsTrue
  <2>3. QED
    BY <1>13, <2>1, <2>2 DEF CallsTrue
<1>17. SocketsTrue'
  <2>1. ASSUME NEW s, IsStopping(s) PROVE IsStopping(s)'
    <3>1. PICK k \in 1 .. n : calls[k].at = "closing" /\ calls[k].arg = s
      BY <1>12, <2>1 DEF IsStopping
    <3>2. k \in 1 .. n + m /\ k <= n
      OBVIOUS
    <3>3. QED
      BY <1>13, <3>1, <3>2 DEF IsStopping
  <2>2. ASSUME NEW s \in sessions PROVE IsStopping(s)'
    <3>1. PICK k \in 1 .. m : list[k] = s
      BY <1>5, <1>6 DEF Range
    <3>2. n + k \in 1 .. n + m /\ ~ (n + k <= n) /\ n + k - n = k
      OBVIOUS
    <3>3. calls'[n + k] = stop(s)
      BY <1>10, <1>13, <3>1, <3>2
    <3>4. calls'[n + k].at = "closing" /\ calls'[n + k].arg = s
      BY <1>2, <1>8, <3>3
    <3>5. QED
      BY <1>13, <3>2, <3>4 DEF IsStopping
  <2>3. \A s \in open' : IsStopping(s)'
    BY <1>1, <2>1, <2>2 DEF ListenInv, SocketsTrue
  <2>4. QED
    BY <1>1, <2>3 DEF ListenInv, SocketsTrue
<1>18. QED
  BY <1>1, <1>15, <1>16, <1>17 DEF ListenInv

-----------------------------------------------------------------------------
(* The page is answered.                                                   *)

\* Where a call was before call i was taken out.
From(k, i) == IF k < i THEN k ELSE k + 1

LEMMA OverIs ==
  ASSUME ListenInv, NEW i \in 1 .. Len(calls), calls' = RemoveAt(calls, i)
  PROVE  /\ calls' \in Seq(ListenCall)
         /\ \A k \in 1 .. Len(calls') :
               From(k, i) \in 1 .. Len(calls) /\ From(k, i) # i /\ calls'[k] = calls[From(k, i)]
         /\ \A m \in 1 .. Len(calls) : m # i => \E k \in 1 .. Len(calls') : From(k, i) = m
         /\ \A k, l \in 1 .. Len(calls') : From(k, i) = From(l, i) => k = l
<1>1. PICK n \in Nat : n = Len(calls)
  BY CallsAre DEF ListenInv
<1>2. /\ calls' \in Seq(ListenCall) /\ Len(calls') = n - 1
      /\ \A k \in 1 .. n - 1 : calls'[k] = calls[IF k < i THEN k ELSE k + 1]
  BY <1>1, IsOverIs DEF IsOver, ListenInv
<1>3. i \in 1 .. n
  BY <1>1
<1>4. \A k \in 1 .. n - 1 : From(k, i) \in 1 .. n /\ From(k, i) # i
  BY <1>3 DEF From
<1>5. \A k \in 1 .. n - 1 : calls'[k] = calls[From(k, i)]
  BY <1>2, Zenon DEF From
<1>6. ASSUME NEW m \in 1 .. n, m # i PROVE \E k \in 1 .. n - 1 : From(k, i) = m
  <2>1. CASE m < i
    <3>1. m \in 1 .. n - 1 /\ From(m, i) = m
      BY <1>3, <2>1 DEF From
    <3>2. QED
      BY <3>1
  <2>2. CASE ~ (m < i)
    <3>1. m - 1 \in 1 .. n - 1 /\ From(m - 1, i) = m
      BY <1>3, <1>6, <2>2 DEF From
    <3>2. QED
      BY <3>1
  <2>3. QED
    BY <2>1, <2>2
<1>7. \A k, l \in 1 .. n - 1 : From(k, i) = From(l, i) => k = l
  BY <1>3 DEF From
<1>8. QED
  BY <1>1, <1>2, <1>4, <1>5, <1>6, <1>7

\* What is true of the calls and sockets stays true of those that are left.
LEMMA ReturnSockets ==
  ASSUME ListenInv, NEW i \in 1 .. Len(calls), calls' = RemoveAt(calls, i), calls[i].at = "answered",
         UNCHANGED <<next, sessions, open, loop, log, late>>,
         rows' \in Seq(Sessions), \A j \in 1 .. Len(rows') : rows'[j] < next
  PROVE  ListenType' /\ CallsTrue' /\ SocketsTrue'
<1>1. /\ calls' \in Seq(ListenCall)
      /\ \A k \in 1 .. Len(calls') :
            From(k, i) \in 1 .. Len(calls) /\ From(k, i) # i /\ calls'[k] = calls[From(k, i)]
      /\ \A m \in 1 .. Len(calls) : m # i => \E k \in 1 .. Len(calls') : From(k, i) = m
  BY OverIs
<1>2. ListenType'
  BY <1>1 DEF ListenInv, ListenType, Old
<1>3. CallsTrue'
  <2>1. ASSUME NEW k \in 1 .. Len(calls')
        PROVE  /\ calls'[k].op = "stop" => calls'[k].arg \in Old'
               /\ \A j \in 1 .. Len(calls'[k].ans) : calls'[k].ans[j] < next'
               /\ calls'[k].at = "closing" => calls'[k].op = "stop" /\ calls'[k].arg \notin sessions'
               /\ calls'[k].at # "answered" => calls'[k].ok
               /\ calls'[k].op = "start" /\ calls'[k].at = "answered" /\ calls'[k].ok
                    => Len(calls'[k].ans) = 1
    <3>1. PICK m \in 1 .. Len(calls) : calls'[k] = calls[m]
      BY <1>1
    <3>2. Old' = Old
      BY DEF Old
    <3>3. QED
      BY <3>1, <3>2 DEF ListenInv, CallsTrue
  <2>2. QED
    BY <2>1 DEF CallsTrue
<1>4. SocketsTrue'
  <2>1. ASSUME NEW s, IsStopping(s) PROVE IsStopping(s)'
    <3>1. PICK m \in 1 .. Len(calls) : calls[m].at = "closing" /\ calls[m].arg = s
      BY <2>1 DEF IsStopping
    <3>2. PICK k \in 1 .. Len(calls') : calls'[k] = calls[m]
      BY <1>1, <3>1
    <3>3. QED
      BY <3>1, <3>2 DEF IsStopping
  <2>2. QED
    BY <2>1 DEF ListenInv, SocketsTrue
<1>5. QED
  BY <1>2, <1>3, <1>4

\* What the page hears of the sessions, but from the call that is over.
LEMMA OverHeard ==
  ASSUME ListenInv, NEW i \in 1 .. Len(calls), calls' = RemoveAt(calls, i)
  PROVE  /\ \A k \in 1 .. Len(calls') :
               /\ From(k, i) \in 1 .. Len(calls) /\ From(k, i) # i
               /\ \A op : HeardCall(k, op)' <=> HeardCall(From(k, i), op)
         /\ \A s : IsBorn(s)' <=> \E m \in 1 .. Len(calls) :
               m # i /\ HeardCall(m, "start") /\ Worked(m) /\ calls[m].ans[1] = s
         /\ \A s : IsGone(s)' <=> \E m \in 1 .. Len(calls) :
               /\ m # i /\ HeardCall(m, "stop") /\ (calls[m].at = "closing" \/ Worked(m))
               /\ calls[m].arg = s
<1>1. /\ \A k \in 1 .. Len(calls') :
            From(k, i) \in 1 .. Len(calls) /\ From(k, i) # i /\ calls'[k] = calls[From(k, i)]
      /\ \A m \in 1 .. Len(calls) : m # i => \E k \in 1 .. Len(calls') : From(k, i) = m
  BY OverIs
<1>2. ASSUME NEW k \in 1 .. Len(calls')
      PROVE  /\ \A op : HeardCall(k, op)' <=> HeardCall(From(k, i), op)
             /\ Worked(k)' <=> Worked(From(k, i))
  BY <1>1 DEF HeardCall, Worked
<1>3. ASSUME NEW s
      PROVE  IsBorn(s)' <=> \E m \in 1 .. Len(calls) :
                m # i /\ HeardCall(m, "start") /\ Worked(m) /\ calls[m].ans[1] = s
  <2>1. ASSUME NEW k \in 1 .. Len(calls')
        PROVE  (HeardCall(k, "start")' /\ Worked(k)' /\ calls'[k].ans[1] = s)
               <=> (/\ HeardCall(From(k, i), "start") /\ Worked(From(k, i))
                    /\ calls[From(k, i)].ans[1] = s)
    BY <1>1, <1>2
  <2>2. IsBorn(s)' <=> \E k \in 1 .. Len(calls') :
            HeardCall(From(k, i), "start") /\ Worked(From(k, i)) /\ calls[From(k, i)].ans[1] = s
    BY <2>1 DEF IsBorn
  <2>3. QED
    BY <1>1, <2>2
<1>4. ASSUME NEW s
      PROVE  IsGone(s)' <=> \E m \in 1 .. Len(calls) :
                /\ m # i /\ HeardCall(m, "stop") /\ (calls[m].at = "closing" \/ Worked(m))
                /\ calls[m].arg = s
  <2>1. ASSUME NEW k \in 1 .. Len(calls')
        PROVE  (HeardCall(k, "stop")' /\ (calls'[k].at = "closing" \/ Worked(k)') /\ calls'[k].arg = s)
               <=> (/\ HeardCall(From(k, i), "stop")
                    /\ (calls[From(k, i)].at = "closing" \/ Worked(From(k, i)))
                    /\ calls[From(k, i)].arg = s)
    BY <1>1, <1>2
  <2>2. IsGone(s)' <=> \E k \in 1 .. Len(calls') :
            /\ HeardCall(From(k, i), "stop")
            /\ (calls[From(k, i)].at = "closing" \/ Worked(From(k, i))) /\ calls[From(k, i)].arg = s
    BY <2>1 DEF IsGone
  <2>3. QED
    BY <1>1, <2>2
<1>5. QED
  BY <1>1, <1>2, <1>3, <1>4

\* A call that told the page nothing: it was made before the page was loaded,
\* or it failed.
LEMMA NothingTold ==
  ASSUME ListenInv, ~awry, NEW i \in 1 .. Len(calls), calls' = RemoveAt(calls, i),
         calls[i].at = "answered", ~calls[i].heard \/ ~calls[i].ok,
         loading' = (loading /\ ~(calls[i].op = "start" /\ calls[i].heard)),
         UNCHANGED <<sessions, rows>>
  PROVE  ListTrue' /\ StartTrue' /\ SessionsTrue'
<1>1. ListTrue /\ StartTrue /\ SessionsTrue
  BY DEF ListenInv
<1>2. /\ \A k \in 1 .. Len(calls') :
            From(k, i) \in 1 .. Len(calls) /\ From(k, i) # i /\ calls'[k] = calls[From(k, i)]
      /\ \A m \in 1 .. Len(calls) : m # i => \E k \in 1 .. Len(calls') : From(k, i) = m
      /\ \A k, l \in 1 .. Len(calls') : From(k, i) = From(l, i) => k = l
  BY OverIs
<1>3. /\ \A k \in 1 .. Len(calls') : \A op : HeardCall(k, op)' <=> HeardCall(From(k, i), op)
      /\ \A s : IsBorn(s)' <=> \E m \in 1 .. Len(calls) :
            m # i /\ HeardCall(m, "start") /\ Worked(m) /\ calls[m].ans[1] = s
      /\ \A s : IsGone(s)' <=> \E m \in 1 .. Len(calls) :
            /\ m # i /\ HeardCall(m, "stop") /\ (calls[m].at = "closing" \/ Worked(m))
            /\ calls[m].arg = s
  BY OverHeard
<1>4. \A op : ~(HeardCall(i, op) /\ (calls[i].at = "closing" \/ Worked(i)))
  BY DEF HeardCall, Worked
<1>5. ~HeardCall(i, "list")
  BY <1>1 DEF HeardCall, ListTrue
<1>6. ASSUME NEW k \in 1 .. Len(calls'), HeardCall(k, "list")'
      PROVE  /\ rows' = <<>> /\ ~loading'
             /\ \A j \in 1 .. Len(calls') : calls'[j].heard => j = k
             /\ calls'[k].at = "answered" =>
                   calls'[k].ok /\ Distinct(calls'[k].ans) /\ Range(calls'[k].ans) = sessions'
  <2>1. HeardCall(From(k, i), "list")
    BY <1>3, <1>6
  <2>2. /\ rows' = <<>> /\ ~loading'
        /\ \A j \in 1 .. Len(calls') : calls'[j].heard => From(j, i) = From(k, i)
    BY <1>1, <1>2, <2>1 DEF ListTrue
  <2>3. calls'[k].at = "answered" =>
           calls'[k].ok /\ Distinct(calls'[k].ans) /\ Range(calls'[k].ans) = sessions'
    BY <1>1, <1>2, <2>1 DEF ListTrue
  <2>4. QED
    BY <1>2, <2>2, <2>3
<1>7. ListTrue'
  BY <1>6 DEF ListTrue
<1>8. ASSUME NEW k \in 1 .. Len(calls'), NEW j \in 1 .. Len(calls'), HeardCall(k, "start")'
      PROVE  rows' = <<>> /\ loading' /\ (HeardCall(j, "start")' => k = j)
  <2>1. HeardCall(From(k, i), "start") /\ From(k, i) # i
    BY <1>2, <1>3, <1>8
  <2>2. rows = <<>> /\ loading /\ ~HeardCall(i, "start")
    BY <1>1, <1>2, <2>1 DEF StartTrue
  <2>3. rows' = <<>> /\ loading'
    BY <2>2 DEF HeardCall
  <2>4. HeardCall(j, "start")' => From(k, i) = From(j, i)
    BY <1>1, <1>2, <1>3, <2>1 DEF StartTrue
  <2>5. QED
    BY <1>2, <2>3, <2>4
<1>9. ASSUME NEW k \in 1 .. Len(calls'), NEW j \in 1 .. Len(calls'), HeardCall(k, "start")',
             Worked(k)', HeardCall(j, "stop")'
      PROVE  calls'[j].arg # calls'[k].ans[1]
  <2>1. PICK a \in 1 .. Len(calls), b \in 1 .. Len(calls) :
            a = From(k, i) /\ b = From(j, i) /\ calls'[k] = calls[a] /\ calls'[j] = calls[b]
    BY <1>2
  <2>2. HeardCall(a, "start") /\ Worked(a) /\ HeardCall(b, "stop")
    BY <1>3, <1>9, <2>1 DEF Worked
  <2>3. calls[b].arg # calls[a].ans[1]
    BY <1>1, <2>2 DEF StartTrue
  <2>4. QED
    BY <2>1, <2>3
<1>10. StartTrue'
  BY <1>8, <1>9 DEF StartTrue
<1>11. ASSUME NEW s PROVE (IsBorn(s)' <=> IsBorn(s)) /\ (IsGone(s)' <=> IsGone(s))
  <2>1. IsBorn(s)' <=> IsBorn(s)
    BY <1>3, <1>4 DEF IsBorn
  <2>2. IsGone(s)' <=> IsGone(s)
    BY <1>3, <1>4 DEF IsGone
  <2>3. QED
    BY <2>1, <2>2
<1>12. SessionsTrue'
  <2>1. (\A k \in 1 .. Len(calls') : ~HeardCall(k, "list")')
          => (\A m \in 1 .. Len(calls) : ~HeardCall(m, "list"))
    BY <1>2, <1>3, <1>5
  <2>2. QED
    BY <1>1, <1>11, <2>1 DEF SessionsTrue
<1>13. QED
  BY <1>7, <1>10, <1>12

\* The list is there: the page waited for nothing else.
LEMMA ListTold ==
  ASSUME ListenInv, ~awry, NEW i \in 1 .. Len(calls), calls' = RemoveAt(calls, i),
         calls[i].at = "answered", HeardCall(i, "list"),
         rows' = calls[i].ans, sessions' = sessions
  PROVE  ListTrue' /\ StartTrue' /\ SessionsTrue'
<1>1. ListTrue
  BY DEF ListenInv
<1>2. /\ Distinct(calls[i].ans) /\ Range(calls[i].ans) = sessions
      /\ \A m \in 1 .. Len(calls) : \A op : HeardCall(m, op) => m = i
  BY <1>1 DEF ListTrue, HeardCall
<1>3. /\ \A k \in 1 .. Len(calls') :
            /\ From(k, i) \in 1 .. Len(calls) /\ From(k, i) # i
            /\ \A op : HeardCall(k, op)' <=> HeardCall(From(k, i), op)
      /\ \A s : IsBorn(s)' <=> \E m \in 1 .. Len(calls) :
            m # i /\ HeardCall(m, "start") /\ Worked(m) /\ calls[m].ans[1] = s
      /\ \A s : IsGone(s)' <=> \E m \in 1 .. Len(calls) :
            /\ m # i /\ HeardCall(m, "stop") /\ (calls[m].at = "closing" \/ Worked(m))
            /\ calls[m].arg = s
  BY OverHeard
<1>4. \A k \in 1 .. Len(calls') : \A op : ~HeardCall(k, op)'
  BY <1>2, <1>3
<1>5. \A s : ~IsBorn(s)' /\ ~IsGone(s)'
  BY <1>2, <1>3
<1>6. ListTrue'
  BY <1>4 DEF ListTrue
<1>7. StartTrue'
  BY <1>4 DEF StartTrue
<1>8. SessionsTrue'
  BY <1>2, <1>5 DEF SessionsTrue
<1>9. QED
  BY <1>6, <1>7, <1>8

\* A start is answered: it was the only one, and there was no row.
LEMMA StartTold ==
  ASSUME ListenInv, ~awry, NEW i \in 1 .. Len(calls), calls' = RemoveAt(calls, i),
         calls[i].at = "answered", HeardCall(i, "start"), calls[i].ok,
         rows' = Append(rows, calls[i].ans[1]), calls[i].ans[1] \in Sessions, sessions' = sessions
  PROVE  ListTrue' /\ StartTrue' /\ SessionsTrue'
<1>1. StartTrue /\ SessionsTrue /\ Worked(i)
  BY DEF ListenInv, Worked
<1>2. PICK x \in Sessions : x = calls[i].ans[1]
  OBVIOUS
<1>3. rows = <<>> /\ \A m \in 1 .. Len(calls) : HeardCall(m, "start") => m = i
  BY <1>1 DEF StartTrue
<1>4. /\ \A k \in 1 .. Len(calls') :
            /\ From(k, i) \in 1 .. Len(calls) /\ From(k, i) # i
            /\ \A op : HeardCall(k, op)' <=> HeardCall(From(k, i), op)
      /\ \A s : IsBorn(s)' <=> \E m \in 1 .. Len(calls) :
            m # i /\ HeardCall(m, "start") /\ Worked(m) /\ calls[m].ans[1] = s
      /\ \A s : IsGone(s)' <=> \E m \in 1 .. Len(calls) :
            /\ m # i /\ HeardCall(m, "stop") /\ (calls[m].at = "closing" \/ Worked(m))
            /\ calls[m].arg = s
  BY OverHeard
<1>5. \A m \in 1 .. Len(calls) : ~HeardCall(m, "list")
  BY NoList DEF HeardCall
<1>6. \A k \in 1 .. Len(calls') : ~HeardCall(k, "list")' /\ ~HeardCall(k, "start")'
  BY <1>3, <1>4, <1>5
<1>7. ListTrue'
  BY <1>6 DEF ListTrue
<1>8. StartTrue'
  BY <1>6 DEF StartTrue
<1>9. \A s : ~IsBorn(s)'
  BY <1>3, <1>4
<1>10. \A s : IsBorn(s) <=> s = x
  BY <1>1, <1>2, <1>3 DEF IsBorn
<1>11. ~IsGone(x)'
  BY <1>1, <1>2, <1>4 DEF StartTrue
<1>12. Range(rows) = {} /\ rows \in Seq(Sessions) /\ Distinct(rows)
  <2>1. rows \in Seq(Sessions) /\ Len(rows) = 0
    BY <1>3, EmptySeq DEF ListenInv, ListenType
  <2>2. Range(rows) = {}
    BY <1>3, <2>1 DEF Range
  <2>3. QED
    BY <2>1, <2>2 DEF Distinct
<1>13. Range(rows') = {x} /\ Distinct(rows')
  <2>1. rows' = Append(rows, x) /\ x \notin Range(rows)
    BY <1>2, <1>12
  <2>2. Range(Append(rows, x)) = Range(rows) \cup {x}
    BY <1>12, RangeAppend
  <2>3. Distinct(Append(rows, x))
    BY <1>12, <2>1, DistinctGrows
  <2>4. QED
    BY <1>12, <2>1, <2>2, <2>3
<1>14. \A s \in Sessions : s \in sessions <=> s = x
  BY <1>1, <1>5, <1>10, <1>12 DEF SessionsTrue
<1>15. SessionsTrue'
  BY <1>9, <1>11, <1>13, <1>14 DEF SessionsTrue
<1>16. QED
  BY <1>7, <1>8, <1>15

\* A stop is answered: the row goes.
LEMMA StopTold ==
  ASSUME ListenInv, ~awry, NEW i \in 1 .. Len(calls), calls' = RemoveAt(calls, i),
         calls[i].at = "answered", HeardCall(i, "stop"), calls[i].ok,
         rows' = Only(rows, Sessions \ {calls[i].arg}), sessions' = sessions, loading' <=> loading
  PROVE  ListTrue' /\ StartTrue' /\ SessionsTrue'
<1>1. StartTrue /\ SessionsTrue /\ Worked(i)
  BY DEF ListenInv, Worked
<1>2. PICK x : x = calls[i].arg
  OBVIOUS
<1>3. /\ \A k \in 1 .. Len(calls') :
            From(k, i) \in 1 .. Len(calls) /\ From(k, i) # i /\ calls'[k] = calls[From(k, i)]
      /\ \A k, l \in 1 .. Len(calls') : From(k, i) = From(l, i) => k = l
  BY OverIs
<1>4. /\ \A k \in 1 .. Len(calls') : \A op : HeardCall(k, op)' <=> HeardCall(From(k, i), op)
      /\ \A s : IsBorn(s)' <=> \E m \in 1 .. Len(calls) :
            m # i /\ HeardCall(m, "start") /\ Worked(m) /\ calls[m].ans[1] = s
      /\ \A s : IsGone(s)' <=> \E m \in 1 .. Len(calls) :
            /\ m # i /\ HeardCall(m, "stop") /\ (calls[m].at = "closing" \/ Worked(m))
            /\ calls[m].arg = s
  BY OverHeard
<1>5. \A m \in 1 .. Len(calls) : ~HeardCall(m, "list")
  BY NoList DEF HeardCall
<1>6. \A k \in 1 .. Len(calls') : ~HeardCall(k, "list")'
  BY <1>3, <1>4, <1>5
<1>7. ListTrue'
  BY <1>6 DEF ListTrue
<1>8. /\ rows' \in Seq(Sessions) /\ Range(rows') = Range(rows) \cap (Sessions \ {x})
      /\ Distinct(rows')
  <2>1. rows \in Seq(Sessions) /\ Distinct(rows) /\ rows' = Only(rows, Sessions \ {x})
    BY <1>1, <1>2, <1>5 DEF ListenInv, ListenType, SessionsTrue
  <2>2. /\ Only(rows, Sessions \ {x}) \in Seq(Sessions)
        /\ Range(Only(rows, Sessions \ {x})) = Range(rows) \cap (Sessions \ {x})
        /\ Distinct(rows) => Distinct(Only(rows, Sessions \ {x}))
    BY <2>1, OnlyIs
  <2>3. QED
    BY <2>1, <2>2
<1>9. rows = <<>> => rows' = <<>>
  <2>1. ASSUME rows = <<>> PROVE rows' = <<>>
    <3>1. \A s : s \notin Range(rows)
      BY <2>1 DEF Range
    <3>2. PICK n \in Nat : n = Len(rows') /\ DOMAIN rows' = 1 .. n
      BY <1>8, LenProperties
    <3>3. n # 0 => rows'[1] \in Range(rows')
      <4>1. n # 0 => 1 \in 1 .. n
        OBVIOUS
      <4>2. QED
        BY <3>2, <4>1 DEF Range
    <3>4. n = 0
      BY <1>8, <3>1, <3>3
    <3>5. QED
      BY <1>8, <3>2, <3>4, EmptySeq
  <2>2. QED
    BY <2>1
<1>10. ASSUME NEW k \in 1 .. Len(calls'), NEW j \in 1 .. Len(calls'), HeardCall(k, "start")'
       PROVE  rows' = <<>> /\ loading' /\ (HeardCall(j, "start")' => k = j)
  <2>1. HeardCall(From(k, i), "start") /\ From(k, i) \in 1 .. Len(calls)
    BY <1>3, <1>4, <1>10
  <2>2. rows' = <<>> /\ loading'
    BY <1>1, <1>9, <2>1 DEF StartTrue
  <2>3. HeardCall(j, "start")' => From(k, i) = From(j, i)
    BY <1>1, <1>3, <1>4, <2>1 DEF StartTrue
  <2>4. QED
    BY <1>3, <2>2, <2>3
<1>11. ASSUME NEW k \in 1 .. Len(calls'), NEW j \in 1 .. Len(calls'), HeardCall(k, "start")',
              Worked(k)', HeardCall(j, "stop")'
       PROVE  calls'[j].arg # calls'[k].ans[1]
  <2>1. PICK a \in 1 .. Len(calls), b \in 1 .. Len(calls) :
            a = From(k, i) /\ b = From(j, i) /\ calls'[k] = calls[a] /\ calls'[j] = calls[b]
    BY <1>3
  <2>2. HeardCall(a, "start") /\ Worked(a) /\ HeardCall(b, "stop")
    BY <1>4, <1>11, <2>1 DEF Worked
  <2>3. calls[b].arg # calls[a].ans[1]
    BY <1>1, <2>2 DEF StartTrue
  <2>4. QED
    BY <2>1, <2>3
<1>12. StartTrue'
  BY <1>10, <1>11 DEF StartTrue
<1>13. \A s : IsBorn(s)' <=> IsBorn(s)
  BY <1>4 DEF IsBorn, HeardCall
<1>14. \A s : s # x => (IsGone(s)' <=> IsGone(s))
  BY <1>2, <1>4 DEF IsGone
<1>15. IsGone(x) /\ ~IsBorn(x)
  BY <1>1, <1>2 DEF IsGone, IsBorn, StartTrue
<1>16. ASSUME NEW s \in Sessions
       PROVE  s \in sessions' <=> (s \in Range(rows') /\ ~IsGone(s)') \/ IsBorn(s)'
  <2>1. s \in sessions <=> (s \in Range(rows) /\ ~IsGone(s)) \/ IsBorn(s)
    BY <1>1, <1>5 DEF SessionsTrue
  <2>2. CASE s = x
    BY <1>8, <1>13, <1>15, <2>1, <2>2
  <2>3. CASE s # x
    BY <1>8, <1>13, <1>14, <2>1, <2>3
  <2>4. QED
    BY <2>2, <2>3
<1>17. SessionsTrue'
  BY <1>8, <1>16 DEF SessionsTrue
<1>18. QED
  BY <1>7, <1>12, <1>17

LEMMA ReturnKeeps ==
  ASSUME ListenInv, NEW i \in 1 .. Len(calls), Return(i)
  PROVE  ListenInv'
<1>1. /\ calls[i].at = "answered" /\ calls' = RemoveAt(calls, i)
      /\ loading' = (loading /\ ~(calls[i].op = "start" /\ calls[i].heard))
      /\ UNCHANGED <<next, sessions, open, loop, log, late, awry>>
  BY DEF Return, listenBackendVars
<1>2. /\ calls[i].op \in {"start", "stop", "list"} /\ calls[i].ok \in BOOLEAN
      /\ calls[i].heard \in BOOLEAN /\ calls[i].ans \in Seq(Sessions)
  BY CallsAre DEF ListenInv
<1>3. /\ ~calls[i].heard \/ ~calls[i].ok => rows' = rows
      /\ calls[i].heard /\ calls[i].ok /\ calls[i].op = "start" => rows' = Append(rows, calls[i].ans[1])
      /\ calls[i].heard /\ calls[i].ok /\ calls[i].op = "stop"
           => rows' = Only(rows, Sessions \ {calls[i].arg})
      /\ calls[i].heard /\ calls[i].ok /\ calls[i].op = "list" => rows' = calls[i].ans
  BY <1>2 DEF Return, Started, Stopped, Listed
<1>4. rows \in Seq(Sessions) /\ \A j \in 1 .. Len(rows) : rows[j] < next
  BY DEF ListenInv, ListenType, CallsTrue
<1>5. \A j \in 1 .. Len(calls[i].ans) : calls[i].ans[j] < next
  BY DEF ListenInv, CallsTrue
<1>6. calls[i].op = "start" /\ calls[i].ok => calls[i].ans[1] \in Sessions /\ calls[i].ans[1] < next
  <2>1. calls[i].op = "start" /\ calls[i].ok => Len(calls[i].ans) = 1
    BY <1>1 DEF ListenInv, CallsTrue
  <2>2. Len(calls[i].ans) = 1 => calls[i].ans[1] \in Sessions /\ calls[i].ans[1] < next
    BY <1>2, <1>5, ElementOfSeq
  <2>3. QED
    BY <2>1, <2>2
<1>7. CASE ~calls[i].heard \/ ~calls[i].ok
  <2>1. ListenType' /\ CallsTrue' /\ SocketsTrue'
    BY <1>1, <1>3, <1>4, <1>7, ReturnSockets
  <2>2. ~awry => ListTrue' /\ StartTrue' /\ SessionsTrue'
    BY <1>1, <1>3, <1>7, NothingTold
  <2>3. QED
    BY <1>1, <2>1, <2>2 DEF ListenInv
<1>8. CASE calls[i].heard /\ calls[i].ok /\ calls[i].op = "start"
  <2>1. PICK x \in Sessions : x = calls[i].ans[1] /\ x < next
    BY <1>6, <1>8
  <2>2. rows' = Append(rows, x)
    BY <1>3, <1>8, <2>1
  <2>3. rows' \in Seq(Sessions) /\ \A j \in 1 .. Len(rows') : rows'[j] < next
    <3>1. PICK n \in Nat : n = Len(rows)
      BY <1>4, LenProperties
    <3>2. /\ rows' \in Seq(Sessions) /\ Len(rows') = n + 1 /\ rows'[n + 1] = x
          /\ \A j \in 1 .. n : rows'[j] = rows[j]
      BY <1>4, <2>2, <3>1, AppendProperties
    <3>3. \A j \in 1 .. n + 1 : j \in 1 .. n \/ j = n + 1
      OBVIOUS
    <3>4. QED
      BY <1>4, <2>1, <3>1, <3>2, <3>3
  <2>4. ListenType' /\ CallsTrue' /\ SocketsTrue'
    BY <1>1, <2>3, ReturnSockets
  <2>5. ~awry => ListTrue' /\ StartTrue' /\ SessionsTrue'
    BY <1>1, <1>3, <1>8, <2>1, StartTold DEF HeardCall
  <2>6. QED
    BY <1>1, <2>4, <2>5 DEF ListenInv
<1>9. CASE calls[i].heard /\ calls[i].ok /\ calls[i].op = "stop"
  <2>1. rows' = Only(rows, Sessions \ {calls[i].arg}) /\ (loading' <=> loading)
    <3>1. calls[i].op # "start"
      BY <1>9
    <3>2. loading' <=> loading
      BY <1>1, <3>1, Zenon
    <3>3. QED
      BY <1>3, <1>9, <3>2
  <2>2. rows' \in Seq(Sessions) /\ Range(rows') \subseteq Range(rows)
    BY <1>4, <2>1, OnlyIs
  <2>3. \A x \in Range(rows) : x < next
    BY <1>4, LenProperties DEF Range
  <2>4. \A j \in 1 .. Len(rows') : rows'[j] < next
    BY <2>2, <2>3, LenProperties DEF Range
  <2>5. ListenType' /\ CallsTrue' /\ SocketsTrue'
    BY <1>1, <2>2, <2>4, ReturnSockets
  <2>6. ~awry => ListTrue' /\ StartTrue' /\ SessionsTrue'
    BY <1>1, <1>9, <2>1, StopTold DEF HeardCall
  <2>7. QED
    BY <1>1, <2>5, <2>6 DEF ListenInv
<1>10. CASE calls[i].heard /\ calls[i].ok /\ calls[i].op = "list"
  <2>1. rows' = calls[i].ans
    BY <1>3, <1>10
  <2>2. ListenType' /\ CallsTrue' /\ SocketsTrue'
    BY <1>1, <1>2, <1>5, <2>1, ReturnSockets
  <2>3. ~awry => ListTrue' /\ StartTrue' /\ SessionsTrue'
    BY <1>1, <1>10, <2>1, ListTold DEF HeardCall
  <2>4. QED
    BY <1>1, <2>2, <2>3 DEF ListenInv
<1>11. QED
  BY <1>2, <1>7, <1>8, <1>9, <1>10

-----------------------------------------------------------------------------
(* The listener by itself.                                                 *)

LEMMA ListenInitially ==
  ASSUME ListenInit
  PROVE  ListenInv
<1>1. PICK c \in ListenCall :
          /\ c = Refresh /\ c.op = "list" /\ c.at = "called" /\ c.ok /\ c.heard /\ c.ans = <<>>
  BY CallIs DEF Refresh
<1>2. /\ next = 1 /\ sessions = {} /\ open = {} /\ rows = <<>> /\ log = <<>> /\ ~loading
      /\ loop = [s \in Sessions |-> "none"] /\ late = [s \in Sessions |-> 0] /\ calls = <<c>>
  BY <1>1 DEF ListenInit
<1>3. /\ calls \in Seq(ListenCall) /\ Len(calls) = 1 /\ calls[1] = c
      /\ rows \in Seq(Sessions) /\ log \in Seq(Sessions) /\ Len(rows) = 0 /\ Len(log) = 0
      /\ Len(<<>>) = 0
  BY <1>2, EmptySeq
<1>4. MaxSessions \in Nat /\ MaxLog \in Nat
  BY ListenerAssumption
<1>5. ListenType
  BY <1>2, <1>3, <1>4 DEF ListenType, Old
<1>6. \A i \in 1 .. Len(calls) : calls[i] = c /\ i = 1
  BY <1>3
<1>7. CallsTrue
  BY <1>1, <1>3, <1>6 DEF CallsTrue
<1>8. SocketsTrue
  BY <1>2, <1>3, <1>4 DEF SocketsTrue
<1>9. ListTrue
  BY <1>1, <1>2, <1>6 DEF ListTrue, HeardCall
<1>10. StartTrue
  BY <1>1, <1>6 DEF StartTrue, HeardCall
<1>11. SessionsTrue
  <2>1. HeardCall(1, "list") /\ 1 \in 1 .. Len(calls)
    BY <1>1, <1>3 DEF HeardCall
  <2>2. QED
    BY <2>1 DEF SessionsTrue
<1>12. QED
  BY <1>5, <1>7, <1>8, <1>9, <1>10, <1>11 DEF ListenInv

LEMMA ListenUserKeeps ==
  ASSUME ListenInv, ListenUser
  PROVE  ListenInv'
BY ClearMessagesKeeps, StartListenKeeps, StopListenKeeps DEF ListenUser

LEMMA ListenSystemKeeps ==
  ASSUME ListenInv, ListenSystem
  PROVE  ListenInv'
<1>1. DOMAIN calls = 1 .. Len(calls)
  BY CallsAre DEF ListenInv
<1>2. CASE \E s \in Sessions : Receive(s) \/ Emit(s) \/ EndLoop(s)
  BY <1>2, ReceiveKeeps, EmitKeeps, EndLoopKeeps
<1>3. ASSUME NEW i \in DOMAIN calls,
             \/ DoStart(i) \/ RefuseStart(i) \/ DoStop(i) \/ NoSuchSession(i)
             \/ CloseSocket(i) \/ GetListeners(i) \/ Return(i)
      PROVE  ListenInv'
  <2>1. i \in 1 .. Len(calls)
    BY <1>1
  <2>2. QED
    BY <1>3, <2>1, DoStartKeeps, RefuseStartKeeps, DoStopKeeps, NoSuchSessionKeeps,
       CloseSocketKeeps, GetListenersKeeps, ReturnKeeps
<1>4. QED
  BY <1>2, <1>3 DEF ListenSystem

LEMMA ListenStays ==
  ASSUME ListenInv, UNCHANGED listenVars
  PROVE  ListenInv'
<1>1. Aside /\ UNCHANGED <<loop, late, log>>
  BY DEF listenVars, listenBackendVars, Aside
<1>2. QED
  BY <1>1, AsideKeeps DEF ListenInv, ListenType, SocketsTrue

\* Nothing is under way: the page hears of nothing any more.
LEMMA ListenTells ==
  ASSUME ListenInv
  PROVE  RowsTrue /\ QuietAfterStop
<1>1. QuietAfterStop
  BY DEF ListenInv, SocketsTrue, QuietAfterStop
<1>2. ASSUME calls = <<>>, ~awry PROVE Range(rows) = sessions /\ Len(rows) = Cardinality(sessions)
  <2>1. Len(calls) = 0
    BY <1>2, EmptySeq
  <2>2. \A s : ~IsBorn(s) /\ ~IsGone(s)
    BY <2>1 DEF IsBorn, IsGone
  <2>3. Distinct(rows) /\ \A s \in Sessions : s \in sessions <=> s \in Range(rows)
    BY <1>2, <2>1, <2>2 DEF ListenInv, SessionsTrue
  <2>4. rows \in Seq(Sessions)
    BY DEF ListenInv, ListenType
  <2>5. Range(rows) \subseteq Sessions
    BY <2>4, LenProperties, ElementOfSeq DEF Range
  <2>6. sessions \subseteq Sessions
    <3>1. next \in 1 .. MaxSessions + 1 /\ sessions \subseteq 1 .. next - 1 /\ MaxSessions \in Nat
      BY ListenerAssumption DEF ListenInv, ListenType, Old
    <3>2. QED
      BY <3>1 DEF Sessions
  <2>7. Range(rows) = sessions
    BY <2>3, <2>5, <2>6
  <2>8. QED
    BY <2>3, <2>4, <2>7, DistinctLength
<1>3. QED
  BY <1>1, <1>2 DEF RowsTrue

-----------------------------------------------------------------------------

\* A finite set in a linear order: each element once, the earlier first.
LEMMA RankedIs ==
  ASSUME NEW S, IsFiniteSet(S), NEW R,
         \A x \in S : <<x, x>> \notin R,
         \A x, y, z \in S : <<x, y>> \in R /\ <<y, z>> \in R => <<x, z>> \in R,
         \A x, y \in S : x # y => <<x, y>> \in R \/ <<y, x>> \in R
  PROVE  /\ Ranked(S, R) \in [1 .. Cardinality(S) -> S]
         /\ \A i, j \in 1 .. Cardinality(S) : i < j => <<Ranked(S, R)[i], Ranked(S, R)[j]>> \in R
         /\ \A i, j \in 1 .. Cardinality(S) : Ranked(S, R)[i] = Ranked(S, R)[j] => i = j
<1>1. PICK n \in Nat : n = Cardinality(S)
  BY FS_CardinalityType
<1> DEFINE Before(x) == {y \in S : <<y, x>> \in R}
<1>2. ASSUME NEW x \in S
      PROVE  IsFiniteSet(Before(x)) /\ Cardinality(Before(x)) \in 0 .. n - 1
  <2>1. Before(x) \subseteq S /\ x \notin Before(x)
    OBVIOUS
  <2> HIDE DEF Before
  <2>2. /\ IsFiniteSet(Before(x)) /\ Cardinality(Before(x)) <= Cardinality(S)
        /\ (Cardinality(S) = Cardinality(Before(x)) => S = Before(x))
    BY <2>1, FS_Subset
  <2>3. Cardinality(Before(x)) \in Nat
    BY <2>2, FS_CardinalityType
  <2>4. QED
    BY <1>1, <2>1, <2>2, <2>3
<1>3. ASSUME NEW x \in S, NEW z \in S, <<x, z>> \in R
      PROVE  Cardinality(Before(x)) < Cardinality(Before(z))
  <2>1. Before(x) \subseteq Before(z)
    BY <1>3
  <2>2. x \in Before(z) /\ x \notin Before(x)
    BY <1>3
  <2>3. /\ IsFiniteSet(Before(z)) /\ Cardinality(Before(z)) \in 0 .. n - 1
        /\ Cardinality(Before(x)) \in 0 .. n - 1
    BY <1>2
  <2> HIDE DEF Before
  <2>4. /\ Cardinality(Before(x)) <= Cardinality(Before(z))
        /\ (Cardinality(Before(z)) = Cardinality(Before(x)) => Before(z) = Before(x))
    BY <2>1, <2>3, FS_Subset
  <2>5. QED
    BY <2>2, <2>3, <2>4
<1> DEFINE rank == [x \in S |-> Cardinality(Before(x))]
<1>4. rank \in [S -> 0 .. n - 1]
  BY <1>2
<1>5. \A x, z \in S : x # z => rank[x] # rank[z]
  <2>1. ASSUME NEW x \in S, NEW z \in S, x # z PROVE rank[x] # rank[z]
    <3>1. rank[x] = Cardinality(Before(x)) /\ rank[z] = Cardinality(Before(z))
      OBVIOUS
    <3>2. rank[x] < rank[z] \/ rank[z] < rank[x]
      BY <1>3, <2>1, <3>1
    <3>3. rank[x] \in 0 .. n - 1 /\ rank[z] \in 0 .. n - 1
      BY <1>4
    <3> HIDE DEF rank
    <3>4. QED
      BY <3>2, <3>3
  <2>2. QED
    BY <2>1
<1>6. rank \in Surjection(S, 0 .. n - 1)
  <2> HIDE DEF rank
  <2>1. rank \in Injection(S, 0 .. n - 1)
    BY <1>4, <1>5 DEF Injection, IsInjective
  <2>2. IsFiniteSet(0 .. n - 1) /\ Cardinality(0 .. n - 1) = n
    BY FS_Interval
  <2>3. QED
    BY <1>1, <2>1, <2>2, FS_Injection
<1>7. ASSUME NEW k \in 1 .. n PROVE \E x \in S : Cardinality(Before(x)) = k - 1
  <2>1. k - 1 \in 0 .. n - 1
    OBVIOUS
  <2>2. \E x \in S : rank[x] = k - 1
    BY <1>6, <2>1 DEF Surjection
  <2>3. QED
    BY <2>2
<1> DEFINE at == Ranked(S, R)
<1>8. ASSUME NEW k \in 1 .. n PROVE at[k] \in S /\ Cardinality(Before(at[k])) = k - 1
  <2>1. at[k] = CHOOSE x \in S : Cardinality(Before(x)) = k - 1
    BY <1>1 DEF Ranked
  <2>2. QED
    BY <1>7, <2>1
<1>9. at \in [1 .. n -> S]
  <2>1. at = [k \in 1 .. n |-> CHOOSE x \in S : Cardinality(Before(x)) = k - 1]
    BY <1>1 DEF Ranked
  <2>2. DOMAIN at = 1 .. n /\ at = [k \in 1 .. n |-> at[k]]
    BY <2>1
  <2> HIDE DEF at
  <2>3. QED
    BY <1>8, <2>2
<1> HIDE DEF at, Before, rank
<1>10. \A i, j \in 1 .. n : at[i] = at[j] => i = j
  BY <1>8
<1>11. ASSUME NEW i \in 1 .. n, NEW j \in 1 .. n, i < j PROVE <<at[i], at[j]>> \in R
  <2>1. at[i] \in S /\ at[j] \in S /\ at[i] # at[j]
    BY <1>8, <1>10, <1>11
  <2>2. <<at[j], at[i]>> \in R => j - 1 < i - 1
    BY <1>3, <1>8, <2>1
  <2>3. QED
    BY <1>11, <2>1, <2>2
<1>12. QED
  BY <1>1, <1>9, <1>10, <1>11 DEF at

\* A sequence with an element put in.
WithIn(t, s, k, x) ==
    t = [i \in 1 .. Len(s) + 1 |-> IF i < k THEN s[i] ELSE IF i = k THEN x ELSE s[i - 1]]

LEMMA PutIn ==
  ASSUME NEW A, NEW s \in Seq(A), NEW k \in 1 .. Len(s) + 1, NEW x \in A
  PROVE  InsertAt(s, k, x) \in Seq(A) /\ WithIn(InsertAt(s, k, x), s, k, x)
<1>1. PICK n \in Nat : n = Len(s)
  BY LenProperties
<1>2. k \in 1 .. n + 1 /\ \A i \in 1 .. n : s[i] \in A
  BY <1>1, ElementOfSeq
<1> DEFINE before == SubSeq(s, 1, k - 1)
           after == SubSeq(s, k, n)
           one == <<x>>
<1>3. before \in Seq(A) /\ Len(before) = k - 1 /\ \A i \in 1 .. k - 1 : before[i] = s[i]
  <2>1. 1 \in Int /\ k - 1 \in Int /\ (\A i \in 1 .. k - 1 : s[i] \in A)
    BY <1>2
  <2>2. /\ before \in Seq(A) /\ Len(before) = IF 1 <= k - 1 THEN k - 1 - 1 + 1 ELSE 0
        /\ \A i \in 1 .. k - 1 - 1 + 1 : before[i] = s[1 + i - 1]
    BY <2>1, SubSeqProperties
  <2>3. k - 1 - 1 + 1 = k - 1 /\ (~ (1 <= k - 1) => k - 1 = 0)
    BY <1>2
  <2>4. ASSUME NEW i \in 1 .. k - 1 PROVE before[i] = s[i]
    <3>1. 1 + i - 1 = i
      OBVIOUS
    <3>2. QED
      BY <2>2, <2>3, <3>1, Zenon
  <2>5. QED
    BY <2>2, <2>3, <2>4
<1>4. after \in Seq(A) /\ Len(after) = n - k + 1 /\ \A i \in 1 .. n - k + 1 : after[i] = s[k + i - 1]
  <2>1. k \in Int /\ n \in Int /\ (\A i \in k .. n : s[i] \in A)
    BY <1>2
  <2>2. /\ after \in Seq(A) /\ Len(after) = IF k <= n THEN n - k + 1 ELSE 0
        /\ \A i \in 1 .. n - k + 1 : after[i] = s[k + i - 1]
    BY <2>1, SubSeqProperties
  <2>3. ~ (k <= n) => n - k + 1 = 0
    BY <1>2
  <2>4. QED
    BY <2>2, <2>3
<1>5. one \in Seq(A) /\ Len(one) = 1 /\ one[1] = x
  OBVIOUS
<1>6. InsertAt(s, k, x) = before \o one \o after
  BY <1>1 DEF InsertAt
<1> HIDE DEF before, after, one
<1>7. PICK left \in Seq(A) : left = before \o one
  BY <1>3, <1>5, ConcatProperties
<1>8. /\ Len(left) = k
      /\ \A i \in 1 .. k : left[i] = IF i <= k - 1 THEN before[i] ELSE one[i - (k - 1)]
  <2>1. /\ Len(left) = Len(before) + Len(one)
        /\ \A i \in 1 .. Len(before) + Len(one) :
              left[i] = IF i <= Len(before) THEN before[i] ELSE one[i - Len(before)]
    BY <1>3, <1>5, <1>7, ConcatProperties
  <2>2. Len(before) = k - 1 /\ Len(one) = 1 /\ (k - 1) + 1 = k
    BY <1>2, <1>3, <1>5
  <2>3. QED
    BY <2>1, <2>2
<1>9. /\ left \o after \in Seq(A) /\ Len(left \o after) = n + 1
      /\ \A i \in 1 .. n + 1 : (left \o after)[i] = IF i <= k THEN left[i] ELSE after[i - k]
  <2>1. /\ left \o after \in Seq(A) /\ Len(left \o after) = Len(left) + Len(after)
        /\ \A i \in 1 .. Len(left) + Len(after) :
              (left \o after)[i] = IF i <= Len(left) THEN left[i] ELSE after[i - Len(left)]
    <3>1. left \in Seq(A) /\ after \in Seq(A)
      BY <1>4, <1>7
    <3>2. QED
      BY <3>1, ConcatProperties
  <2>2. Len(left) = k /\ Len(after) = n - k + 1 /\ k + (n - k + 1) = n + 1
    BY <1>2, <1>4, <1>8
  <2>3. QED
    BY <2>1, <2>2
<1>10. ASSUME NEW i \in 1 .. n + 1
       PROVE  (left \o after)[i] = IF i < k THEN s[i] ELSE IF i = k THEN x ELSE s[i - 1]
  <2>1. CASE i < k
    <3>1. i \in 1 .. k - 1 /\ i \in 1 .. k /\ i <= k /\ i <= k - 1
      BY <1>2, <2>1
    <3>2. left[i] = s[i]
      BY <1>3, <1>8, <3>1
    <3>3. QED
      BY <1>9, <2>1, <3>1, <3>2
  <2>2. CASE i = k
    <3>1. ~ (k <= k - 1) /\ k - (k - 1) = 1 /\ k \in 1 .. k
      BY <1>2
    <3>2. left[k] = one[1]
      BY <1>8, <3>1
    <3>3. QED
      BY <1>5, <1>9, <2>2, <3>2
  <2>3. CASE ~ (i < k) /\ i # k
    <3>1. i - k \in 1 .. n - k + 1 /\ k + (i - k) - 1 = i - 1 /\ ~ (i <= k)
      BY <1>2, <2>3
    <3>2. QED
      BY <1>4, <1>9, <2>3, <3>1
  <2>4. QED
    BY <2>1, <2>2, <2>3
<1>11. PICK t : t = left \o after
  OBVIOUS
<1>12. \A i \in 1 .. n + 1 : t[i] = IF i < k THEN s[i] ELSE IF i = k THEN x ELSE s[i - 1]
  BY <1>10, <1>11
<1>13. InsertAt(s, k, x) = t
  BY <1>6, <1>7, <1>11
<1>14. t \in Seq(A) /\ DOMAIN t = 1 .. n + 1 /\ t = [i \in 1 .. n + 1 |-> t[i]]
  <2>1. t \in Seq(A) /\ Len(t) = n + 1
    BY <1>9, <1>11
  <2>2. QED
    BY <2>1, LenProperties
<1>15. t = [i \in 1 .. n + 1 |-> IF i < k THEN s[i] ELSE IF i = k THEN x ELSE s[i - 1]]
  BY <1>12, <1>14
<1>16. WithIn(t, s, k, x)
  BY <1>1, <1>15 DEF WithIn
<1>17. QED
  BY <1>13, <1>14, <1>16

-----------------------------------------------------------------------------
(* The targets: the inductive invariant.                                   *)

\* A call; no list that is answered has a target twice.
WaitCall ==
    [op : {"get", "save", "delete"}, id : Targets \cup {New} \cup {"mount", "save", "delete"},
     at : {"called", "answered"}, ok : BOOLEAN, list : Seq(Targets), heard : BOOLEAN]
SoundCall == {c \in WaitCall : Distinct(c.list)}

\* What localStorage holds is the order that the user arranged last; the list
\* that is shown has no target twice.
TargetsType ==
    /\ stored \subseteq Targets /\ targets \in Seq(Targets) /\ wanted \in Seq(Targets)
    /\ waits \in Seq(SoundCall)
    /\ dialog \in Targets \cup {New, None} /\ dragging \in Nat \cup {None}
TargetsInv == TargetsType /\ order = wanted /\ Distinct(targets) /\ OrderKept

\* A list that is in no order is sorted: every target of the set once.
LEMMA AscendingIs ==
  ASSUME NEW S, S \subseteq Targets
  PROVE  Ascending(S) \in Seq(Targets) /\ Distinct(Ascending(S))
<1> DEFINE R == {p \in S \X S : p[1] < p[2]}
<1>1. IsFiniteSet(S) /\ S \subseteq Nat
  BY TargetsAssumption, FS_Subset
<1>2. \A x, y \in S : <<x, y>> \in R <=> x < y
  OBVIOUS
<1>3. Ascending(S) = Ranked(S, R)
  BY DEF Ascending
<1> HIDE DEF R
<1>4. /\ \A x \in S : <<x, x>> \notin R
      /\ \A x, y, z \in S : <<x, y>> \in R /\ <<y, z>> \in R => <<x, z>> \in R
      /\ \A x, y \in S : x # y => <<x, y>> \in R \/ <<y, x>> \in R
  BY <1>1, <1>2
<1>5. PICK n \in Nat : n = Cardinality(S)
  BY <1>1, FS_CardinalityType
<1>6. /\ Ascending(S) \in [1 .. n -> S]
      /\ \A i, j \in 1 .. n : Ascending(S)[i] = Ascending(S)[j] => i = j
  <2>1. /\ Ranked(S, R) \in [1 .. Cardinality(S) -> S]
        /\ \A i, j \in 1 .. Cardinality(S) : Ranked(S, R)[i] = Ranked(S, R)[j] => i = j
    BY <1>1, <1>4, RankedIs
  <2>2. QED
    BY <1>3, <1>5, <2>1
<1>7. Ascending(S) \in [1 .. n -> Targets]
  BY <1>6
<1>8. Ascending(S) \in Seq(Targets)
  BY <1>7, SeqDef
<1>9. Len(Ascending(S)) = n
  BY <1>7, <1>8, LenProperties
<1>10. QED
  BY <1>6, <1>8, <1>9 DEF Distinct

\* An element of a sequence has a place of its own.
LEMMA PlaceIs ==
  ASSUME NEW A, NEW ids \in Seq(A), NEW x
  PROVE  /\ Place(x, ids) \in Nat
         /\ x \in Range(ids) => Place(x, ids) \in 1 .. Len(ids) /\ ids[Place(x, ids)] = x
<1>1. PICK n \in Nat : n = Len(ids) /\ DOMAIN ids = 1 .. n
  BY LenProperties
<1>2. CASE \E k \in 1 .. n : ids[k] = x
  <2>1. Place(x, ids) = CHOOSE k \in 1 .. n : ids[k] = x
    BY <1>1, <1>2 DEF Place
  <2>2. Place(x, ids) \in 1 .. n /\ ids[Place(x, ids)] = x
    BY <1>2, <2>1
  <2>3. QED
    BY <1>1, <2>2
<1>3. CASE ~ \E k \in 1 .. n : ids[k] = x
  <2>1. Place(x, ids) = n + 1
    BY <1>1, <1>3 DEF Place
  <2>2. x \notin Range(ids)
    BY <1>1, <1>3 DEF Range
  <2>3. QED
    BY <2>1, <2>2
<1>4. QED
  BY <1>2, <1>3

\* Applying an order keeps the targets, and sorts them by their places.
LEMMA ApplyOrderIs ==
  ASSUME NEW list \in Seq(Targets), Distinct(list), NEW ids \in Seq(Targets)
  PROVE  /\ ApplyOrder(list, ids) \in Seq(Targets) /\ Distinct(ApplyOrder(list, ids))
         /\ \A i, j \in 1 .. Len(ApplyOrder(list, ids)) : i < j =>
               Place(ApplyOrder(list, ids)[i], ids) <= Place(ApplyOrder(list, ids)[j], ids)
<1>1. PICK n \in Nat : n = Len(list) /\ DOMAIN list = 1 .. n
  BY LenProperties
<1>2. \A k \in 1 .. n : list[k] \in Targets
  BY <1>1, ElementOfSeq
<1> DEFINE S == 1 .. n
           R == Sooner(list, ids)
           at(k) == Place(list[k], ids)
<1>3. \A k \in S : at(k) \in Nat
  BY PlaceIs
<1>4. ASSUME NEW x \in S, NEW y \in S
      PROVE  <<x, y>> \in R <=> at(x) < at(y) \/ (at(x) = at(y) /\ x < y)
  BY <1>1 DEF Sooner
<1> HIDE DEF at, R
<1>5. /\ \A x \in S : <<x, x>> \notin R
      /\ \A x, y, z \in S : <<x, y>> \in R /\ <<y, z>> \in R => <<x, z>> \in R
      /\ \A x, y \in S : x # y => <<x, y>> \in R \/ <<y, x>> \in R
  BY <1>3, <1>4
<1>6. IsFiniteSet(S) /\ Cardinality(S) = n
  BY FS_Interval
<1>7. PICK ranks : ranks = Ranked(S, R)
  OBVIOUS
<1>8. /\ ranks \in [1 .. n -> S]
      /\ \A i, j \in 1 .. n : i < j => <<ranks[i], ranks[j]>> \in R
      /\ \A i, j \in 1 .. n : ranks[i] = ranks[j] => i = j
  <2> HIDE DEF S
  <2>1. QED
    BY <1>5, <1>6, <1>7, RankedIs
<1>9. PICK sorted : /\ sorted = ApplyOrder(list, ids)
                    /\ sorted = [k \in 1 .. n |-> list[ranks[k]]]
  <2>1. ApplyOrder(list, ids) = [k \in 1 .. n |-> list[Ranked(S, R)[k]]]
    BY <1>1 DEF ApplyOrder, R
  <2>2. QED
    BY <1>7, <2>1
<1>10. \A k \in 1 .. n : sorted[k] = list[ranks[k]] /\ ranks[k] \in 1 .. n
  BY <1>8, <1>9
<1>11. sorted \in [1 .. n -> Targets]
  BY <1>2, <1>8, <1>9
<1>12. sorted \in Seq(Targets)
  BY <1>11, SeqDef
<1>13. Len(sorted) = n
  BY <1>11, <1>12, LenProperties
<1>14. ASSUME NEW i \in 1 .. n, NEW j \in 1 .. n, sorted[i] = sorted[j] PROVE i = j
  <2>1. PICK a \in 1 .. n, b \in 1 .. n : a = ranks[i] /\ b = ranks[j]
    BY <1>10
  <2>2. list[a] = list[b]
    BY <1>10, <1>14, <2>1
  <2>3. a = b
    BY <1>1, <2>2 DEF Distinct
  <2>4. QED
    BY <1>8, <2>1, <2>3
<1>15. \A i, j \in 1 .. n : i < j => Place(sorted[i], ids) <= Place(sorted[j], ids)
  <2>1. \A i, j \in 1 .. n : i < j => at(ranks[i]) <= at(ranks[j])
    <3>1. ASSUME NEW i \in 1 .. n, NEW j \in 1 .. n, i < j PROVE at(ranks[i]) <= at(ranks[j])
      <4>1. PICK x \in S, y \in S : x = ranks[i] /\ y = ranks[j] /\ <<x, y>> \in R
        BY <1>8, <3>1
      <4>2. at(x) < at(y) \/ at(x) = at(y)
        BY <1>4, <4>1
      <4>3. at(x) <= at(y)
        BY <1>3, <4>2
      <4>4. QED
        BY <4>1, <4>3
    <3>2. QED
      BY <3>1
  <2>2. \A i \in 1 .. n : at(ranks[i]) = Place(sorted[i], ids)
    BY <1>10 DEF at
  <2>3. QED
    BY <2>1, <2>2
<1>16. QED
  BY <1>9, <1>12, <1>13, <1>14, <1>15 DEF Distinct

\* An item that is moved: the list has the same targets.
LEMMA MoveItemIs ==
  ASSUME NEW list \in Seq(Targets), Distinct(list), NEW from \in DOMAIN list, NEW to \in DOMAIN list
  PROVE  MoveItem(list, from, to) \in Seq(Targets) /\ Distinct(MoveItem(list, from, to))
<1>1. PICK n \in Nat : n = Len(list) /\ DOMAIN list = 1 .. n
  BY LenProperties
<1>2. from \in 1 .. n /\ to \in 1 .. n /\ list[from] \in Targets
  BY <1>1, ElementOfSeq
<1>3. PICK rest : /\ rest = RemoveAt(list, from) /\ rest \in Seq(Targets) /\ Len(rest) = n - 1
                  /\ \A i \in 1 .. n - 1 : rest[i] = IF i < from THEN list[i] ELSE list[i + 1]
  <2>1. /\ RemoveAt(list, from) \in Seq(Targets) /\ Len(RemoveAt(list, from)) = Len(list) - 1
        /\ \A i \in 1 .. Len(list) - 1 :
              RemoveAt(list, from)[i] = IF i < from THEN list[i] ELSE list[i + 1]
    BY <1>1, <1>2, TakenOut
  <2>2. QED
    BY <1>1, <2>1
<1>4. PICK moved : /\ moved = InsertAt(rest, to, list[from]) /\ moved \in Seq(Targets)
                   /\ moved = [i \in 1 .. n |-> IF i < to THEN rest[i]
                                               ELSE IF i = to THEN list[from] ELSE rest[i - 1]]
  <2>1. PICK x \in Targets : x = list[from]
    BY <1>2
  <2>2. rest \in Seq(Targets) /\ to \in 1 .. Len(rest) + 1 /\ Len(rest) + 1 = n
    BY <1>2, <1>3
  <2>3. InsertAt(rest, to, x) \in Seq(Targets) /\ WithIn(InsertAt(rest, to, x), rest, to, x)
    BY <2>2, PutIn
  <2>4. InsertAt(rest, to, x)
          = [i \in 1 .. n |-> IF i < to THEN rest[i] ELSE IF i = to THEN x ELSE rest[i - 1]]
    BY <2>2, <2>3 DEF WithIn
  <2>5. QED
    BY <2>1, <2>3, <2>4
<1>5. MoveItem(list, from, to) = moved
  BY <1>3, <1>4 DEF MoveItem
<1> DEFINE was(i) == IF i < from THEN i ELSE i + 1
<1>6. \A i \in 1 .. n - 1 : was(i) \in 1 .. n /\ was(i) # from /\ rest[i] = list[was(i)]
  BY <1>2, <1>3
<1>7. \A i, j \in 1 .. n - 1 : was(i) = was(j) => i = j
  BY <1>2
<1> HIDE DEF was
<1>8. \A i, j \in 1 .. n : list[i] = list[j] => i = j
  BY <1>1 DEF Distinct
<1>9. \A i, j \in 1 .. n - 1 : rest[i] = rest[j] => i = j
  BY <1>6, <1>7, <1>8
<1>10. \A i \in 1 .. n - 1 : rest[i] # list[from]
  BY <1>2, <1>6, <1>8
<1>11. \A i, j \in 1 .. n : moved[i] = moved[j] => i = j
  <2>1. \A i \in 1 .. n : moved[i] = IF i < to THEN rest[i] ELSE IF i = to THEN list[from] ELSE rest[i - 1]
    BY <1>4
  <2>2. ASSUME NEW i \in 1 .. n, NEW j \in 1 .. n, moved[i] = moved[j], i < j PROVE FALSE
    <3>1. CASE i = to
      <4>1. j - 1 \in 1 .. n - 1 /\ moved[i] = list[from] /\ moved[j] = rest[j - 1]
        BY <1>2, <2>1, <2>2, <3>1
      <4>2. QED
        BY <1>10, <2>2, <4>1
    <3>2. CASE j = to
      <4>1. i \in 1 .. n - 1 /\ moved[j] = list[from] /\ moved[i] = rest[i]
        BY <1>2, <2>1, <2>2, <3>2
      <4>2. QED
        BY <1>10, <2>2, <4>1
    <3>3. CASE i # to /\ j # to
      <4>1. PICK k \in 1 .. n - 1, l \in 1 .. n - 1 :
                /\ k = (IF i < to THEN i ELSE i - 1) /\ l = (IF j < to THEN j ELSE j - 1)
                /\ moved[i] = rest[k] /\ moved[j] = rest[l]
        BY <1>2, <2>1, <2>2, <3>3
      <4>2. k # l
        BY <1>2, <2>2, <3>3, <4>1
      <4>3. QED
        BY <1>9, <2>2, <4>1, <4>2
    <3>4. QED
      BY <3>1, <3>2, <3>3
  <2>3. QED
    BY <2>2
<1>12. Len(moved) = n
  BY <1>4, LenProperties
<1>13. QED
  BY <1>4, <1>5, <1>11, <1>12 DEF Distinct

-----------------------------------------------------------------------------
(* The targets: the steps.                                                 *)

LEMMA WaitIs ==
  ASSUME NEW op \in {"get", "save", "delete"}, NEW id \in Targets \cup {New} \cup {"mount", "save", "delete"}
  PROVE  Wait(op, id) \in SoundCall
<1>1. <<>> \in Seq(Targets) /\ Distinct(<<>>)
  BY EmptySeq DEF Distinct
<1>2. Wait(op, id) \in WaitCall /\ Wait(op, id).list = <<>>
  BY <1>1 DEF Wait, WaitCall
<1>3. QED
  BY <1>1, <1>2 DEF SoundCall

\* A call that goes on.
LEMMA SoundCallGoesOn ==
  ASSUME NEW c \in SoundCall
  PROVE  /\ [c EXCEPT !.at = "answered"] \in SoundCall
         /\ [c EXCEPT !.at = "answered", !.ok = FALSE] \in SoundCall
         /\ [c EXCEPT !.heard = FALSE] \in SoundCall
         /\ c.op \in {"get", "save", "delete"} /\ c.list \in Seq(Targets) /\ Distinct(c.list)
         /\ \A list \in Seq(Targets) : Distinct(list) =>
               [c EXCEPT !.at = "answered", !.list = list] \in SoundCall
<1>1. c \in WaitCall /\ Distinct(c.list)
  BY DEF SoundCall
<1>2. /\ [c EXCEPT !.at = "answered"] \in WaitCall /\ [c EXCEPT !.at = "answered"].list = c.list
  BY <1>1 DEF WaitCall
<1>3. /\ [c EXCEPT !.at = "answered", !.ok = FALSE] \in WaitCall
      /\ [c EXCEPT !.at = "answered", !.ok = FALSE].list = c.list
  BY <1>1 DEF WaitCall
<1>4. [c EXCEPT !.heard = FALSE] \in WaitCall /\ [c EXCEPT !.heard = FALSE].list = c.list
  BY <1>1 DEF WaitCall
<1>5. ASSUME NEW list \in Seq(Targets)
      PROVE  /\ [c EXCEPT !.at = "answered", !.list = list] \in WaitCall
             /\ [c EXCEPT !.at = "answered", !.list = list].list = list
  BY <1>1 DEF WaitCall
<1>6. c.op \in {"get", "save", "delete"} /\ c.list \in Seq(Targets)
  BY <1>1 DEF WaitCall
<1>7. QED
  BY <1>1, <1>2, <1>3, <1>4, <1>5, <1>6 DEF SoundCall

LEMMA WaitsAre ==
  ASSUME TargetsInv
  PROVE  /\ waits \in Seq(SoundCall) /\ Len(waits) \in Nat /\ DOMAIN waits = 1 .. Len(waits)
         /\ waits \in [1 .. Len(waits) -> SoundCall]
         /\ \A i \in 1 .. Len(waits) : waits[i] \in SoundCall
<1>1. waits \in Seq(SoundCall)
  BY DEF TargetsInv, TargetsType
<1>2. QED
  BY <1>1, LenProperties, ElementOfSeq

\* One call changes.
LEMMA WaitChanges ==
  ASSUME TargetsInv, NEW i \in 1 .. Len(waits), NEW c \in SoundCall, waits' = [waits EXCEPT ![i] = c]
  PROVE  waits' \in Seq(SoundCall)
<1>1. PICK n \in Nat : n = Len(waits)
  BY WaitsAre
<1>2. waits' \in [1 .. n -> SoundCall]
  BY <1>1, WaitsAre
<1>3. QED
  BY <1>2, SeqDef

\* The list that is shown, and the order, stay as they are.
LEMMA ListStays ==
  ASSUME TargetsInv, UNCHANGED <<order, targets, wanted>>,
         stored' \subseteq Targets, waits' \in Seq(SoundCall),
         dialog' \in Targets \cup {New, None}, dragging' \in Nat \cup {None}
  PROVE  TargetsInv'
<1>1. TargetsType'
  BY DEF TargetsInv, TargetsType
<1>2. OrderKept' /\ Distinct(targets') /\ order' = wanted'
  BY DEF TargetsInv, OrderKept
<1>3. QED
  BY <1>1, <1>2 DEF TargetsInv

\* The steps of the user that leave the list as it is.
LEMMA TargetsLooks ==
  ASSUME TargetsInv,
         \/ CloseDialog \/ SaveTarget \/ DragEnd
         \/ \E id \in Targets \cup {New} : OpenDialog(id) \/ DeleteTarget(id) \/ LoadTarget(id)
         \/ \E i \in Nat : DragStart(i)
  PROVE  TargetsInv'
<1>1. /\ stored \subseteq Targets /\ waits \in Seq(SoundCall) /\ targets \in Seq(Targets)
      /\ dialog \in Targets \cup {New, None} /\ dragging \in Nat \cup {None}
  BY DEF TargetsInv, TargetsType
<1>2. CASE CloseDialog
  BY <1>1, <1>2, ListStays DEF CloseDialog
<1>3. CASE SaveTarget
  <2>1. PICK c \in SoundCall : c = Wait("save", dialog)
    BY <1>1, <1>3, WaitIs DEF SaveTarget
  <2>2. waits' \in Seq(SoundCall)
    BY <1>1, <1>3, <2>1, AppendProperties DEF SaveTarget
  <2>3. QED
    BY <1>1, <1>3, <2>2, ListStays DEF SaveTarget
<1>4. CASE DragEnd
  BY <1>1, <1>4, ListStays DEF DragEnd
<1>5. ASSUME NEW id \in Targets \cup {New}, OpenDialog(id) PROVE TargetsInv'
  BY <1>1, <1>5, ListStays DEF OpenDialog
<1>6. ASSUME NEW id \in Targets \cup {New}, DeleteTarget(id) PROVE TargetsInv'
  <2>1. PICK c \in SoundCall : c = Wait("delete", id)
    BY <1>6, WaitIs
  <2>2. waits' \in Seq(SoundCall)
    BY <1>1, <1>6, <2>1, AppendProperties DEF DeleteTarget
  <2>3. QED
    BY <1>1, <1>6, <2>2, ListStays DEF DeleteTarget
<1>7. ASSUME NEW id \in Targets \cup {New}, LoadTarget(id) PROVE TargetsInv'
  BY <1>1, <1>7, ListStays DEF LoadTarget
<1>8. ASSUME NEW i \in Nat, DragStart(i) PROVE TargetsInv'
  BY <1>1, <1>8, ListStays DEF DragStart
<1>9. QED
  BY <1>2, <1>3, <1>4, <1>5, <1>6, <1>7, <1>8

\* The user drops an item: the list he sees is the one he wants.
LEMMA DropKeeps ==
  ASSUME TargetsInv, NEW p \in Nat, Drop(p)
  PROVE  TargetsInv'
<1>1. /\ stored \subseteq Targets /\ waits \in Seq(SoundCall) /\ targets \in Seq(Targets)
      /\ Distinct(targets) /\ dialog \in Targets \cup {New, None}
  BY DEF TargetsInv, TargetsType
<1>2. dragging' = None /\ UNCHANGED <<stored, waits, dialog>>
  BY DEF Drop
<1>3. PICK to : to = IF p > dragging THEN p - 1 ELSE p
  OBVIOUS
<1>4. CASE dragging \in DOMAIN targets /\ to \in DOMAIN targets
  <2>1. PICK list : list = MoveItem(targets, dragging, to)
    OBVIOUS
  <2>2. list \in Seq(Targets) /\ Distinct(list)
    BY <1>1, <1>4, <2>1, MoveItemIs
  <2>3. targets' = list /\ wanted' = list /\ order' = list
    BY <1>3, <1>4, <2>1 DEF Drop, Reorder
  <2>4. PICK n \in Nat : n = Len(list) /\ DOMAIN list = 1 .. n
    BY <2>2, LenProperties
  <2>5. ASSUME NEW i \in 1 .. n PROVE Place(list[i], list) = i
    <3>1. list[i] \in Range(list)
      BY <2>4 DEF Range
    <3>2. PICK k \in 1 .. n : k = Place(list[i], list) /\ list[k] = list[i]
      BY <2>2, <2>4, <3>1, PlaceIs
    <3>3. k = i
      BY <2>2, <2>4, <3>2 DEF Distinct
    <3>4. QED
      BY <3>2, <3>3
  <2>6. OrderKept'
    BY <2>3, <2>4, <2>5 DEF OrderKept
  <2>7. TargetsType'
    BY <1>1, <1>2, <2>2, <2>3 DEF TargetsType
  <2>8. QED
    BY <2>2, <2>3, <2>6, <2>7 DEF TargetsInv
<1>5. CASE ~ (dragging \in DOMAIN targets /\ to \in DOMAIN targets)
  <2>1. UNCHANGED <<order, targets, wanted>>
    BY <1>3, <1>5 DEF Drop
  <2>2. QED
    BY <1>1, <1>2, <2>1, ListStays
<1>6. QED
  BY <1>4, <1>5

\* The page is loaded again.
LEMMA TargetsReloadKeeps ==
  ASSUME TargetsInv, TargetsReload
  PROVE  TargetsInv'
<1>1. /\ targets' = <<>> /\ dialog' = None /\ dragging' = None
      /\ waits' = Append([i \in DOMAIN waits |-> [waits[i] EXCEPT !.heard = FALSE]], Get("mount"))
      /\ UNCHANGED <<stored, order, wanted>>
  BY DEF TargetsReload
<1>2. PICK n \in Nat : n = Len(waits) /\ DOMAIN waits = 1 .. n
  BY WaitsAre
<1> DEFINE unheard(i) == [waits[i] EXCEPT !.heard = FALSE]
<1>3. \A i \in 1 .. n : unheard(i) \in SoundCall
  BY <1>2, WaitsAre, SoundCallGoesOn
<1> HIDE DEF unheard
<1>4. PICK old \in [1 .. n -> SoundCall] : old = [i \in 1 .. n |-> unheard(i)]
  BY <1>3
<1>5. old \in Seq(SoundCall)
  BY SeqDef
<1>6. PICK c \in SoundCall : c = Get("mount")
  BY WaitIs DEF Get
<1>7. waits' \in Seq(SoundCall)
  <2>1. waits' = Append(old, c)
    BY <1>1, <1>2, <1>4, <1>6 DEF unheard
  <2>2. QED
    BY <1>5, <2>1, AppendProperties
<1>8. <<>> \in Seq(Targets) /\ Len(<<>>) = 0 /\ DOMAIN <<>> = {}
  BY EmptySeq
<1>9. TargetsType'
  BY <1>1, <1>7, <1>8 DEF TargetsInv, TargetsType
<1>10. OrderKept' /\ Distinct(targets')
  BY <1>1, <1>8 DEF OrderKept, Distinct
<1>11. QED
  BY <1>1, <1>9, <1>10 DEF TargetsInv

\* The steps of the backend, and the answers that show no list.
LEMMA TargetsWorks ==
  ASSUME TargetsInv, NEW i \in 1 .. Len(waits),
         DoSave(i) \/ DoDelete(i) \/ RefuseCall(i) \/ DoGet(i) \/ Ignore(i) \/ ThenRefresh(i)
  PROVE  TargetsInv'
<1>1. /\ stored \subseteq Targets /\ waits \in Seq(SoundCall)
      /\ dialog \in Targets \cup {New, None} /\ dragging \in Nat \cup {None}
  BY DEF TargetsInv, TargetsType
<1>2. PICK c \in SoundCall : c = waits[i]
  BY WaitsAre
<1>3. /\ [c EXCEPT !.at = "answered"] \in SoundCall
      /\ [c EXCEPT !.at = "answered", !.ok = FALSE] \in SoundCall
      /\ c.op \in {"get", "save", "delete"}
      /\ \A list \in Seq(Targets) : Distinct(list) =>
            [c EXCEPT !.at = "answered", !.list = list] \in SoundCall
  BY SoundCallGoesOn
<1>4. CASE DoSave(i) \/ DoDelete(i)
  <2>1. waits' = [waits EXCEPT ![i] = [c EXCEPT !.at = "answered"]]
    BY <1>2, <1>4, WaitsAre DEF DoSave, DoDelete, Works
  <2>2. PICK d \in SoundCall : d = [c EXCEPT !.at = "answered"]
    BY <1>3
  <2>3. waits' \in Seq(SoundCall)
    BY <2>1, <2>2, WaitChanges
  <2>4. stored' \subseteq Targets
    BY <1>1, <1>4 DEF DoSave, DoDelete
  <2>5. UNCHANGED <<order, targets, wanted, dialog, dragging>>
    BY <1>4 DEF DoSave, DoDelete
  <2>6. QED
    BY <1>1, <2>3, <2>4, <2>5, ListStays
<1>5. CASE RefuseCall(i)
  <2>1. waits' = [waits EXCEPT ![i] = [c EXCEPT !.at = "answered", !.ok = FALSE]]
    BY <1>2, <1>5, WaitsAre DEF RefuseCall, Errs
  <2>2. PICK d \in SoundCall : d = [c EXCEPT !.at = "answered", !.ok = FALSE]
    BY <1>3
  <2>3. waits' \in Seq(SoundCall)
    BY <2>1, <2>2, WaitChanges
  <2>4. QED
    BY <1>1, <1>5, <2>3, ListStays DEF RefuseCall
<1>6. CASE DoGet(i)
  <2>1. PICK list \in Seq(Targets) : list = Ascending(stored) /\ Distinct(list)
    BY <1>1, AscendingIs
  <2>2. waits' = [waits EXCEPT ![i] = [c EXCEPT !.at = "answered", !.list = list]]
    BY <1>2, <1>6, <2>1, WaitsAre DEF DoGet
  <2>3. PICK d \in SoundCall : d = [c EXCEPT !.at = "answered", !.list = list]
    BY <1>3, <2>1
  <2>4. waits' \in Seq(SoundCall)
    BY <2>2, <2>3, WaitChanges
  <2>5. QED
    BY <1>1, <1>6, <2>4, ListStays DEF DoGet
<1>7. PICK rest \in Seq(SoundCall) : rest = RemoveAt(waits, i)
  BY <1>1, TakenOut
<1>8. CASE Ignore(i)
  BY <1>1, <1>7, <1>8, ListStays DEF Ignore
<1>9. CASE ThenRefresh(i)
  <2>1. c.op \in {"save", "delete"} /\ waits' = Append(rest, Get(c.op))
    BY <1>2, <1>3, <1>7, <1>9 DEF ThenRefresh
  <2>2. PICK d \in SoundCall : d = Get(c.op)
    BY <2>1, WaitIs DEF Get
  <2>3. waits' \in Seq(SoundCall)
    BY <2>1, <2>2, AppendProperties
  <2>4. QED
    BY <1>1, <1>9, <2>3, ListStays DEF ThenRefresh
<1>10. QED
  BY <1>4, <1>5, <1>6, <1>8, <1>9

\* The list is there: it is shown in the order of localStorage.
LEMMA RefreshedKeeps ==
  ASSUME TargetsInv, NEW i \in 1 .. Len(waits), Refreshed(i)
  PROVE  TargetsInv'
<1>1. PICK list \in Seq(Targets) : list = waits[i].list /\ Distinct(list)
  BY WaitsAre, SoundCallGoesOn
<1>2. PICK sorted : sorted = ApplyOrder(list, wanted)
  OBVIOUS
<1>3. targets' = sorted /\ UNCHANGED <<stored, order, dragging, wanted>>
  BY <1>1, <1>2 DEF Refreshed, TargetsInv
<1>4. /\ sorted \in Seq(Targets) /\ Distinct(sorted)
      /\ \A k, l \in 1 .. Len(sorted) : k < l => Place(sorted[k], wanted) <= Place(sorted[l], wanted)
  BY <1>1, <1>2, ApplyOrderIs DEF TargetsInv, TargetsType
<1>5. PICK n \in Nat : n = Len(sorted) /\ DOMAIN sorted = 1 .. n
  BY <1>4, LenProperties
<1>6. ASSUME NEW k \in 1 .. n, NEW l \in 1 .. n, k < l, {sorted[k], sorted[l]} \subseteq Range(wanted)
      PROVE  Place(sorted[k], wanted) < Place(sorted[l], wanted)
  <2>1. sorted[k] # sorted[l]
    BY <1>4, <1>5, <1>6 DEF Distinct
  <2>2. PICK a, b : a = Place(sorted[k], wanted) /\ b = Place(sorted[l], wanted)
    OBVIOUS
  <2>3. wanted[a] = sorted[k] /\ wanted[b] = sorted[l] /\ a \in Nat /\ b \in Nat
    BY <1>6, <2>2, PlaceIs DEF TargetsInv, TargetsType
  <2>4. a # b /\ a <= b
    BY <1>4, <1>5, <1>6, <2>1, <2>2, <2>3
  <2>5. QED
    BY <2>2, <2>3, <2>4
<1>7. OrderKept'
  BY <1>3, <1>5, <1>6 DEF OrderKept
<1>8. waits' \in Seq(SoundCall)
  BY WaitsAre, TakenOut DEF Refreshed
<1>9. dialog' \in Targets \cup {New, None}
  BY DEF Refreshed, TargetsInv, TargetsType
<1>10. TargetsType'
  BY <1>3, <1>4, <1>8, <1>9 DEF TargetsInv, TargetsType
<1>11. QED
  BY <1>3, <1>4, <1>7, <1>10 DEF TargetsInv

LEMMA TargetsInitially ==
  ASSUME TargetsInit
  PROVE  TargetsInv
<1>1. <<>> \in Seq(Targets) /\ Len(<<>>) = 0 /\ DOMAIN <<>> = {}
  BY EmptySeq
<1>2. PICK c \in SoundCall : c = Get("mount")
  BY WaitIs DEF Get
<1>3. waits \in Seq(SoundCall)
  BY <1>2 DEF TargetsInit
<1>4. TargetsType
  BY <1>1, <1>3, TargetsAssumption DEF TargetsInit, TargetsType
<1>5. OrderKept /\ Distinct(targets)
  BY <1>1 DEF TargetsInit, OrderKept, Distinct
<1>6. QED
  BY <1>4, <1>5 DEF TargetsInit, TargetsInv

LEMMA TargetsStays ==
  ASSUME TargetsInv, UNCHANGED targetVars
  PROVE  TargetsInv'
BY ListStays DEF targetVars, TargetsInv, TargetsType

LEMMA TargetsUserKeeps ==
  ASSUME TargetsInv, TargetsUser
  PROVE  TargetsInv'
<1>1. CASE CloseDialog \/ SaveTarget \/ DragEnd \/ \E id \in Targets \cup {New} : OpenDialog(id) \/ DeleteTarget(id)
  BY <1>1, TargetsLooks
<1>2. ASSUME NEW i \in 1 .. Cardinality(Targets) + 1, DragStart(i) \/ Drop(i) PROVE TargetsInv'
  <2>1. i \in Nat
    BY TargetsAssumption, FS_CardinalityType
  <2>2. QED
    BY <1>2, <2>1, TargetsLooks, DropKeeps
<1>3. QED
  BY <1>1, <1>2 DEF TargetsUser

LEMMA TargetsSystemKeeps ==
  ASSUME TargetsInv, TargetsSystem
  PROVE  TargetsInv'
<1>1. DOMAIN waits = 1 .. Len(waits)
  BY WaitsAre
<1>2. QED
  BY <1>1, TargetsWorks, RefreshedKeeps DEF TargetsSystem

-----------------------------------------------------------------------------
(* The client.                                                             *)

ClientInv == ListenInv /\ TargetsInv

LEMMA ClientSteps ==
  ASSUME ClientInv, [Next]_vars
  PROVE  ClientInv'
<1>1. ListenInv /\ TargetsInv
  BY DEF ClientInv
<1>2. CASE UNCHANGED vars
  <2>1. UNCHANGED listenVars /\ UNCHANGED targetVars
    BY <1>2 DEF vars
  <2>2. QED
    BY <1>1, <2>1, ListenStays, TargetsStays DEF ClientInv
<1>3. CASE User
  <2>1. CASE ListenUser /\ UNCHANGED targetVars
    BY <1>1, <2>1, ListenUserKeeps, TargetsStays DEF ClientInv
  <2>2. CASE UNCHANGED listenVars /\ UNCHANGED targetVars
    BY <1>1, <2>2, ListenStays, TargetsStays DEF ClientInv
  <2>3. CASE TargetsUser /\ UNCHANGED listenVars
    BY <1>1, <2>3, ListenStays, TargetsUserKeeps DEF ClientInv
  <2>4. CASE Reload
    BY <1>1, <2>4, ListenReloadKeeps, TargetsReloadKeeps DEF ClientInv, Reload
  <2>5. QED
    BY <1>3, <2>1, <2>2, <2>3, <2>4 DEF User
<1>4. CASE Look
  <2>1. ASSUME NEW id \in Targets, LoadTarget(id), UNCHANGED listenVars PROVE ClientInv'
    BY <1>1, <2>1, ListenStays, TargetsLooks DEF ClientInv
  <2>2. CASE UNCHANGED listenVars /\ UNCHANGED targetVars
    BY <1>1, <2>2, ListenStays, TargetsStays DEF ClientInv
  <2>3. QED
    BY <1>4, <2>1, <2>2 DEF Look
<1>5. CASE System
  <2>1. CASE ListenSystem /\ UNCHANGED targetVars
    BY <1>1, <2>1, ListenSystemKeeps, TargetsStays DEF ClientInv
  <2>2. CASE UNCHANGED listenVars /\ UNCHANGED targetVars
    BY <1>1, <2>2, ListenStays, TargetsStays DEF ClientInv
  <2>3. CASE TargetsSystem /\ UNCHANGED listenVars
    BY <1>1, <2>3, ListenStays, TargetsSystemKeeps DEF ClientInv
  <2>4. QED
    BY <1>5, <2>1, <2>2, <2>3 DEF System
<1>6. CASE Shutdown
  BY <1>1, <1>6, StopAllKeeps, TargetsStays DEF ClientInv, Shutdown
<1>7. QED
  BY <1>2, <1>3, <1>4, <1>5, <1>6 DEF Next

\* The invariants hold in every state of the client.
THEOREM ClientInvHolds == Spec => []ClientInv
<1>1. Init => ClientInv
  BY ListenInitially, TargetsInitially DEF Init, ClientInv
<1>2. ClientInv /\ [Next]_vars => ClientInv'
  BY ClientSteps
<1>3. QED
  BY <1>1, <1>2, PTL DEF Spec

\* When nothing is under way every session has one row, and every row a
\* session (receive.ts:34-41), whatever was started, stopped and loaded again.
THEOREM RowsAlwaysTrue == Spec => []RowsTrue
<1>1. ClientInv => RowsTrue
  BY ListenTells DEF ClientInv
<1>2. QED
  BY <1>1, ClientInvHolds, PTL

\* After StopListen returned at most one packet is shown, and the log never
\* holds more than its maximum (listener_service.go:142).
THEOREM AlwaysQuietAfterStop == Spec => []QuietAfterStop
<1>1. ClientInv => QuietAfterStop
  BY ListenTells DEF ClientInv
<1>2. QED
  BY <1>1, ClientInvHolds, PTL

\* The order in which the user left the targets is kept by saves, deletions,
\* late refreshes and loading the page again (targets.ts:22-33).
THEOREM OrderAlwaysKept == Spec => []OrderKept
<1>1. ClientInv => OrderKept
  BY DEF ClientInv, TargetsInv
<1>2. QED
  BY <1>1, ClientInvHolds, PTL
=============================================================================
