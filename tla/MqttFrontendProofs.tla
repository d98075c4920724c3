------------------------- MODULE MqttFrontendProofs -------------------------
(***************************************************************************)
(* Proofs about the MQTT panel, for any profiles, any number of            *)
(* connections and events on their way, and any operations under way.      *)
(***************************************************************************)
EXTENDS MqttFrontend, FiniteSetTheorems, SequenceTheorems, WellFoundedInduction, TLAPS
-----------------------------------------------------------------------------
(* Filtering.  What the recursive function of Only computes is proved for  *)
(* sequences of any length by way of the shortest one it would fail for.   *)

\* A set of numbers has a least one.
LEMMA LeastOf ==
  ASSUME NEW T, T \subseteq Nat, T # {}
  PROVE  \E n \in T : \A m \in T : ~ (m < n)
<1> DEFINE R == {pair \in Nat \X Nat : pair[1] < pair[2]}
<1>1. IsWellFoundedOn(R, Nat)
  BY NatLessThanWellFounded, Zenon DEF OpToRel
<1>2. PICK n \in T : \A m \in T : <<m, n>> \notin R
  <2> HIDE DEF R
  <2>1. QED
    BY <1>1, WFMin
<1>3. \A m \in T : m < n => <<m, n>> \in R
  OBVIOUS
<1>4. QED
  BY <1>2, <1>3

\* f is the function that Only defines, up to n.
FilterUpTo(f, seq, S, n) ==
    f = [i \in 0 .. n |->
            IF i = 0 THEN <<>>
            ELSE IF seq[i] \in S THEN Append(f[i - 1], seq[i]) ELSE f[i - 1]]

\* The recursive function that Only is defined by exists.
LEMMA FiltersExists ==
  ASSUME NEW seq, NEW S, NEW n \in Nat
  PROVE  \E f : FilterUpTo(f, seq, S, n)
<1> DEFINE T == {k \in Nat : ~ \E f : FilterUpTo(f, seq, S, k)}
<1>1. SUFFICES ASSUME T # {} PROVE FALSE
  OBVIOUS
<1>2. PICK k \in T : \A m \in T : ~ (m < k)
  BY <1>1, LeastOf
<1>3. CASE k = 0
  <2> DEFINE f == [i \in 0 .. 0 |-> <<>>]
  <2>1. FilterUpTo(f, seq, S, k)
    BY <1>3 DEF FilterUpTo
  <2>2. QED
    BY <2>1
<1>4. CASE k # 0
  <2>1. k \in Nat /\ k - 1 \in Nat /\ k - 1 < k
    BY <1>4
  <2>2. PICK g : FilterUpTo(g, seq, S, k - 1)
    BY <1>2, <2>1
  <2> DEFINE h == [i \in 0 .. k |->
                      IF i = k THEN (IF seq[k] \in S THEN Append(g[k - 1], seq[k]) ELSE g[k - 1])
                      ELSE g[i]]
  <2>3. ASSUME NEW i \in 0 .. k
        PROVE  h[i] = IF i = 0 THEN <<>>
                      ELSE IF seq[i] \in S THEN Append(h[i - 1], seq[i]) ELSE h[i - 1]
    <3>1. CASE i = k
      <4>1. i - 1 \in 0 .. k /\ i - 1 # k
        BY <3>1, <2>1
      <4>2. h[i - 1] = g[i - 1]
        BY <4>1
      <4>3. QED
        BY <3>1, <4>2, <1>4
    <3>2. CASE i # k
      <4>1. h[i] = g[i]
        BY <3>2
      <4>2. i \in 0 .. (k - 1)
        BY <3>2, <2>1
      <4>3. g[i] = IF i = 0 THEN <<>>
                   ELSE IF seq[i] \in S THEN Append(g[i - 1], seq[i]) ELSE g[i - 1]
        BY <4>2, <2>2 DEF FilterUpTo
      <4>4. i # 0 => h[i - 1] = g[i - 1]
        BY <4>2, <2>1
      <4>5. QED
        BY <4>1, <4>3, <4>4
    <3>3. QED
      BY <3>1, <3>2
  <2>4. FilterUpTo(h, seq, S, k)
    BY <2>3 DEF FilterUpTo
  <2>5. QED
    BY <2>4
<1>5. QED
  BY <1>3, <1>4

\* Only unfolds: its last step keeps the last element or leaves it out.
LEMMA OnlyFilters ==
  ASSUME NEW A, NEW seq \in Seq(A), NEW S
  PROVE  \E f : FilterUpTo(f, seq, S, Len(seq)) /\ Only(seq, S) = f[Len(seq)]
<1>1. Len(seq) \in Nat
  OBVIOUS
<1>2. \E f : FilterUpTo(f, seq, S, Len(seq))
  BY <1>1, FiltersExists
<1> DEFINE kept == CHOOSE f : FilterUpTo(f, seq, S, Len(seq))
<1>3. FilterUpTo(kept, seq, S, Len(seq))
  BY <1>2
<1>4. Only(seq, S) = kept[Len(seq)]
  BY DEF Only, FilterUpTo
<1>5. QED
  BY <1>3, <1>4

\* Filtering a sequence and filtering one that goes on agree where both are.
LEMMA FiltersAgree ==
  ASSUME NEW A, NEW s \in Seq(A), NEW x \in A, NEW S, NEW f, NEW g,
         FilterUpTo(f, s, S, Len(s)), FilterUpTo(g, Append(s, x), S, Len(s) + 1)
  PROVE  g[Len(s)] = f[Len(s)]
<1> DEFINE T == {k \in 0 .. Len(s) : g[k] # f[k]}
<1>1. Len(s) \in Nat /\ T \subseteq Nat
  OBVIOUS
<1>2. SUFFICES ASSUME T # {} PROVE FALSE
  BY <1>1
<1>3. PICK k \in T : \A m \in T : ~ (m < k)
  BY <1>1, <1>2, LeastOf
<1>4. /\ f[k] = IF k = 0 THEN <<>> ELSE IF s[k] \in S THEN Append(f[k - 1], s[k]) ELSE f[k - 1]
      /\ g[k] = IF k = 0 THEN <<>>
                ELSE IF Append(s, x)[k] \in S THEN Append(g[k - 1], Append(s, x)[k]) ELSE g[k - 1]
  <2> DEFINE t == Append(s, x)
  <2>1. k \in 0 .. Len(s) /\ k \in 0 .. Len(s) + 1
    BY <1>1, <1>3
  <2>2. FilterUpTo(g, t, S, Len(s) + 1)
    OBVIOUS
  <2> HIDE DEF t
  <2>3. /\ f[k] = IF k = 0 THEN <<>> ELSE IF s[k] \in S THEN Append(f[k - 1], s[k]) ELSE f[k - 1]
        /\ g[k] = IF k = 0 THEN <<>> ELSE IF t[k] \in S THEN Append(g[k - 1], t[k]) ELSE g[k - 1]
    BY <2>1, <2>2 DEF FilterUpTo
  <2>4. QED
    BY <2>3 DEF t
<1>5. k # 0 => Append(s, x)[k] = s[k] /\ g[k - 1] = f[k - 1]
  <2>1. k # 0 => k - 1 \in 0 .. Len(s) /\ k - 1 < k /\ k \in 1 .. Len(s)
    BY <1>1, <1>3
  <2>2. k # 0 => k - 1 \notin T
    BY <1>3, <2>1
  <2>3. QED
    BY <2>1, <2>2, AppendProperties
<1>6. QED
  BY <1>3, <1>4, <1>5

\* Nothing is kept of nothing.
LEMMA OnlyEmpty == ASSUME NEW S PROVE Only(<<>>, S) = <<>>
<1>1. <<>> \in Seq({}) /\ Len(<<>>) = 0
  BY EmptySeq
<1>2. PICK f : FilterUpTo(f, <<>>, S, 0) /\ Only(<<>>, S) = f[0]
  BY <1>1, OnlyFilters
<1>3. QED
  BY <1>2 DEF FilterUpTo

\* Filtering a sequence with one more element.
LEMMA OnlyAppend ==
  ASSUME NEW A, NEW s \in Seq(A), NEW x \in A, NEW S
  PROVE  Only(Append(s, x), S) = IF x \in S THEN Append(Only(s, S), x) ELSE Only(s, S)
<1>1. /\ Append(s, x) \in Seq(A) /\ Len(Append(s, x)) = Len(s) + 1 /\ Len(s) \in Nat
      /\ Append(s, x)[Len(s) + 1] = x
  BY AppendProperties
<1>2. PICK f : FilterUpTo(f, s, S, Len(s)) /\ Only(s, S) = f[Len(s)]
  BY OnlyFilters
<1>3. PICK g : FilterUpTo(g, Append(s, x), S, Len(s) + 1) /\ Only(Append(s, x), S) = g[Len(s) + 1]
  BY <1>1, OnlyFilters
<1>4. g[Len(s)] = f[Len(s)]
  BY <1>2, <1>3, FiltersAgree
<1>5. Len(s) + 1 \in 0 .. Len(s) + 1 /\ Len(s) + 1 # 0 /\ (Len(s) + 1) - 1 = Len(s)
  BY <1>1
<1>6. g[Len(s) + 1] = IF x \in S THEN Append(g[Len(s)], x) ELSE g[Len(s)]
  BY <1>1, <1>3, <1>5 DEF FilterUpTo
<1>7. QED
  BY <1>2, <1>3, <1>4, <1>6

\* A shortest sequence of a kind is empty, or one element longer than one of
\* another kind.
LEMMA Shortest ==
  ASSUME NEW A, NEW K, K \subseteq Seq(A), K # {}
  PROVE  \E s \in K : s = <<>> \/ \E t \in Seq(A), x \in A : s = Append(t, x) /\ t \notin K
<1> DEFINE T == {Len(s) : s \in K}
<1>1. T \subseteq Nat /\ T # {}
  <2>1. \A s \in K : Len(s) \in Nat
    OBVIOUS
  <2>2. QED
    BY <2>1
<1>2. PICK n \in T : \A m \in T : ~ (m < n)
  BY <1>1, LeastOf
<1>3. PICK s \in K : Len(s) = n
  OBVIOUS
<1>4. CASE s = <<>>
  BY <1>4
<1>5. CASE s # <<>>
  <2>1. PICK t \in Seq(A), x \in A : s = Append(t, x)
    BY <1>5, SequenceEmptyOrAppend
  <2>2. Len(t) < n /\ Len(t) \in Nat
    BY <1>3, <2>1, AppendProperties
  <2>3. t \notin K
    BY <1>2, <2>2
  <2>4. QED
    BY <2>1, <2>3
<1>6. QED
  BY <1>4, <1>5

\* The elements of a sequence that has one more.
LEMMA RangeAppend ==
  ASSUME NEW A, NEW s \in Seq(A), NEW x \in A
  PROVE  Range(Append(s, x)) = Range(s) \cup {x}
<1>1. /\ Append(s, x) = s \o <<x>> /\ <<x>> \in Seq(A)
  BY AppendIsConcat
<1>2. Range(<<x>>) = {x}
  BY DEF Range
<1> DEFINE one == <<x>>
<1>3. Range(s \o one) = Range(s) \cup Range(one)
  <2>1. one \in Seq(A)
    OBVIOUS
  <2> HIDE DEF one
  <2>2. QED
    BY <2>1, RangeConcatenation
<1>4. QED
  BY <1>1, <1>2, <1>3

\* The empty sequence has no elements.
LEMMA RangeEmpty == Range(<<>>) = {}
  BY DEF Range

\* The last of a sequence with one more element.
LEMMA LastAppend ==
  ASSUME NEW A, NEW s \in Seq(A), NEW x \in A
  PROVE  Append(s, x) # <<>> /\ Last(Append(s, x)) = x
  BY AppendProperties DEF Last

\* What is kept are the elements that are in S.
LEMMA OnlyRange ==
  ASSUME NEW A, NEW s \in Seq(A), NEW S
  PROVE  Only(s, S) \in Seq(A) /\ Range(Only(s, S)) = Range(s) \cap S
<1> DEFINE Right(t) == Only(t, S) \in Seq(A) /\ Range(Only(t, S)) = Range(t) \cap S
           K == {t \in Seq(A) : ~Right(t)}
<1>1. SUFFICES ASSUME K # {} PROVE FALSE
  OBVIOUS
<1>2. PICK t \in K : t = <<>> \/ \E u \in Seq(A), x \in A : t = Append(u, x) /\ u \notin K
  BY <1>1, Shortest
<1>3. CASE t = <<>>
  BY <1>3, OnlyEmpty, EmptySeq, RangeEmpty
<1>4. ASSUME NEW u \in Seq(A), NEW x \in A, t = Append(u, x), u \notin K PROVE FALSE
  <2>1. Right(u)
    BY <1>4
  <2>2. Only(t, S) = IF x \in S THEN Append(Only(u, S), x) ELSE Only(u, S)
    BY <1>4, OnlyAppend
  <2>3. Range(t) = Range(u) \cup {x}
    BY <1>4, RangeAppend
  <2>4. CASE x \in S
    <3>1. Append(Only(u, S), x) \in Seq(A)
      BY <2>1, AppendProperties
    <3>2. Range(Append(Only(u, S), x)) = Range(Only(u, S)) \cup {x}
      BY <2>1, RangeAppend
    <3>3. Right(t)
      BY <2>1, <2>2, <2>3, <2>4, <3>1, <3>2
    <3>4. QED
      BY <3>3
  <2>5. CASE x \notin S
    <3>1. Right(t)
      BY <2>1, <2>2, <2>3, <2>5
    <3>2. QED
      BY <3>1
  <2>6. QED
    BY <2>4, <2>5
<1>5. QED
  BY <1>2, <1>3, <1>4

\* Only the elements of the sequence itself matter.
LEMMA OnlyOf ==
  ASSUME NEW A, NEW s \in Seq(A), NEW S, NEW T, A \cap S = A \cap T
  PROVE  Only(s, S) = Only(s, T)
<1> DEFINE K == {t \in Seq(A) : Only(t, S) # Only(t, T)}
<1>1. SUFFICES ASSUME K # {} PROVE FALSE
  OBVIOUS
<1>2. PICK t \in K : t = <<>> \/ \E u \in Seq(A), x \in A : t = Append(u, x) /\ u \notin K
  BY <1>1, Shortest
<1>3. CASE t = <<>>
  BY <1>3, OnlyEmpty
<1>4. ASSUME NEW u \in Seq(A), NEW x \in A, t = Append(u, x), u \notin K PROVE FALSE
  <2>1. /\ Only(t, S) = IF x \in S THEN Append(Only(u, S), x) ELSE Only(u, S)
        /\ Only(t, T) = IF x \in T THEN Append(Only(u, T), x) ELSE Only(u, T)
    BY <1>4, OnlyAppend
  <2>2. x \in S <=> x \in T
    OBVIOUS
  <2>3. QED
    BY <1>4, <2>1, <2>2
<1>5. QED
  BY <1>2, <1>3, <1>4

\* The last of a kind stays the last when others go.
LEMMA LastKept ==
  ASSUME NEW A, NEW s \in Seq(A), NEW S, NEW T,
         Only(s, T) # <<>>, Last(Only(s, T)) \in S
  PROVE  Only(Only(s, S), T) # <<>> /\ Last(Only(Only(s, S), T)) = Last(Only(s, T))
<1> DEFINE Right(t) == Only(t, T) # <<>> /\ Last(Only(t, T)) \in S =>
                          /\ Only(Only(t, S), T) # <<>>
                          /\ Last(Only(Only(t, S), T)) = Last(Only(t, T))
           K == {t \in Seq(A) : ~Right(t)}
<1>1. SUFFICES ASSUME K # {} PROVE FALSE
  OBVIOUS
<1>2. PICK t \in K : t = <<>> \/ \E u \in Seq(A), x \in A : t = Append(u, x) /\ u \notin K
  BY <1>1, Shortest
<1>3. CASE t = <<>>
  BY <1>3, OnlyEmpty
<1>4. ASSUME NEW u \in Seq(A), NEW x \in A, t = Append(u, x), u \notin K PROVE FALSE
  <2>1. Right(u)
    BY <1>4
  <2>2. /\ Only(t, S) = IF x \in S THEN Append(Only(u, S), x) ELSE Only(u, S)
        /\ Only(t, T) = IF x \in T THEN Append(Only(u, T), x) ELSE Only(u, T)
    BY <1>4, OnlyAppend
  <2>3. /\ Only(u, S) \in Seq(A) /\ Only(u, T) \in Seq(A)
        /\ Only(Only(u, S), T) \in Seq(A)
    BY OnlyRange
  <2>4. CASE x \in T /\ x \in S
    <3>1. Only(Only(t, S), T) = Append(Only(Only(u, S), T), x)
      BY <2>2, <2>3, <2>4, OnlyAppend
    <3>2. /\ Append(Only(u, T), x) # <<>>
          /\ Append(Only(Only(u, S), T), x) # <<>>
      BY <2>3, LastAppend
    <3>3. Last(Append(Only(u, T), x)) = x /\ Last(Append(Only(Only(u, S), T), x)) = x
      BY <2>3, LastAppend
    <3>4. Right(t)
      BY <2>2, <2>4, <3>1, <3>2, <3>3
    <3>5. QED
      BY <3>4
  <2>5. CASE x \in T /\ x \notin S
    <3>1. Last(Append(Only(u, T), x)) = x
      BY <2>3, LastAppend
    <3>2. Right(t)
      BY <2>2, <2>5, <3>1
    <3>3. QED
      BY <3>2
  <2>6. CASE x \notin T
    <3>1. Only(t, T) = Only(u, T)
      BY <2>2, <2>6
    <3>2. Only(Only(t, S), T) = Only(Only(u, S), T)
      <4>1. CASE x \in S
        BY <2>2, <2>3, <2>6, <4>1, OnlyAppend
      <4>2. CASE x \notin S
        BY <2>2, <4>2
      <4>3. QED
        BY <4>1, <4>2
    <3>3. Right(t)
      BY <2>1, <3>1, <3>2
    <3>4. QED
      BY <3>3
  <2>7. QED
    BY <2>4, <2>5, <2>6
<1>5. QED
  BY <1>2, <1>3, <1>4
-----------------------------------------------------------------------------
(* The tabs: the inductive invariant.                                      *)

EarlyStates == {None, "connected", "lost", "closed"}
Record == [connected : BOOLEAN, closed : BOOLEAN, ver : Vers]
Connecting == [pc : {"idle", "cutting", "dialing", "rows"}, ver : Vers, got : Conns \cup {None}]
SaveOf == [kind : {"none", "save", "connect", "edit"}, ver : Vers, ok : BOOLEAN]
Lives == {"none", "dialing", "up", "lost", "over"}
Living == {"dialing", "up", "lost"}
Events == {"connected", "lost", "closed"}

BackendType ==
    /\ life \in [Conns -> Lives] /\ owner \in [Conns -> Profiles]
    /\ dialed \in [Conns -> Vers] /\ news \in [Conns -> Seq(Events)]
TabType ==
    /\ listed \in SUBSET Profiles /\ saved \in [Profiles -> Vers]
    /\ tabs \in Seq(TabIds) /\ node \in [TabIds -> Record] /\ active \in TabIds \cup {None}
    /\ early \in [Conns -> EarlyStates] /\ orphaned \in SUBSET Conns
CallType ==
    /\ restore \in {"start", "asked", "answered", "done", "failed"}
    /\ snapshot \in [live : SUBSET Conns, up : SUBSET Conns, profiles : SUBSET Profiles]
    /\ dial \in [Profiles -> Connecting] /\ flow \in [TabIds -> Connecting]
    /\ saving \in [Profiles -> SaveOf] /\ leaving \in SUBSET Conns
TabsType == BackendType /\ TabType /\ CallType

\* what an event says of a connection if none follows it
Says(event, l) ==
    \/ event = "connected" /\ l = "up"
    \/ event = "lost" /\ l = "lost"
    \/ event = "closed" /\ l = "over"

\* The events on their way end with the state of the connection; a connection
\* that they close is over; there is no word of one that is not made.
NewsOf(ns, l, e) ==
    /\ ns # <<>> => Says(ns[Len(ns)], l)
    /\ \A i \in DOMAIN ns : ns[i] = "closed" => l = "over"
    /\ l = "none" => e = None
NewsTrue == \A c \in Conns : NewsOf(news[c], life[c], early[c])

\* The record of a tab is right up to the events that are on their way.
RecordOf(rec, l, ns, d) ==
    /\ l # "none"
    /\ rec.closed => ~rec.connected /\ l = "over"
    /\ ns = <<>> => (rec.connected <=> l = "up") /\ (rec.closed <=> l = "over")
    /\ l \in Living => rec.ver = d
RecordTrue == \A c \in Conns : Shown(c) => RecordOf(node[c], life[c], news[c], dialed[c])

\* So is the early state of a connection that has no tab yet.
EarlyOf(e, l, ns) ==
    /\ e = "closed" => l = "over"
    /\ ns = <<>> /\ e # None => Says(e, l)

\* A connection that an answer names has no tab and is named by no other.
Owing(e, l, ns, d, ver) ==
    /\ l # "none" /\ (l \in Living => d = ver)
    /\ EarlyOf(e, l, ns)
    /\ ns = <<>> /\ e = None => l = "dialing"
Owed(c, ver) == c \in Conns /\ ~Shown(c) /\ Owing(early[c], life[c], news[c], dialed[c], ver)
DialsTrue ==
    /\ \A p \in Profiles : dial[p].got # None =>
          /\ dial[p].pc = "dialing" /\ owner[dial[p].got] = p
          /\ Owed(dial[p].got, dial[p].ver)
    /\ \A p, q \in Profiles : dial[p].got # None /\ dial[p].got = dial[q].got => p = q
FlowsTrue ==
    /\ \A id \in TabIds : flow[id].got # None =>
          flow[id].pc = "dialing" /\ Owed(flow[id].got, flow[id].ver)
    /\ \A i, j \in TabIds : flow[i].got # None /\ flow[i].got = flow[j].got => i = j
AnswersTrue ==
    /\ DialsTrue /\ FlowsTrue
    /\ \A p \in Profiles, id \in TabIds : dial[p].got # None => dial[p].got # flow[id].got

\* A connection is over once its handler has cut it.
CutTrue == \A c \in Conns : flow[c].pc # "idle" \/ c \in leaving => life[c] = "over"

\* Before the start is over there is at most one connection, which the
\* backend has kept, and nothing of the user's is under way.
FirstTrue ==
    ~Ready =>
        /\ tabs = <<>> /\ active = None /\ leaving = {}
        /\ \A c \in Conns : c # 1 => life[c] = "none"
        /\ \A c \in Conns : dialed[c] = 0
        /\ \A p \in Profiles : saved[p] = Loaded /\ dial[p] = Idle /\ saving[p] = NotSaving
        /\ \A id \in TabIds : flow[id] = Idle
        /\ restore = "start" => early = NoEarly
        /\ \A c \in Conns : EarlyOf(early[c], life[c], news[c])
        /\ \A c \in snapshot.live :
              /\ life[c] # "none"
              /\ restore = "answered" /\ news[c] = <<>> /\ early[c] = None =>
                    life[c] \in Living /\ (c \in snapshot.up <=> life[c] = "up")

\* A live connection is in the list, or its tab is under way, or it was given up.
Known(c) == c \in orphaned \/ Awaited(c) \/ TabOf(owner[c]) = c
ReachTrue == Ready => \A c \in Conns : Live(c) => Known(c)

TabsInv ==
    TabsType /\ NewsTrue /\ RecordTrue /\ AnswersTrue /\ CutTrue /\ FirstTrue /\ ReachTrue

\* What the constants are.
LEMMA Known0 ==
  /\ Conns \cap Profiles = {} /\ None \notin TabIds /\ None \notin Conns /\ None \notin Profiles
  /\ None \notin Events
  /\ IsFiniteSet(Conns) /\ IsFiniteSet(Profiles) /\ IsFiniteSet(TabIds)
  /\ 0 \in Vers /\ TabIds = Conns \cup Profiles
<1>1. MaxConns \in Nat /\ MaxVer \in Nat
  BY TabAssumption
<1>2. IsFiniteSet(Conns)
  BY <1>1, FS_Interval DEF Conns
<1>3. IsFiniteSet(Profiles)
  BY TabAssumption
<1>4. IsFiniteSet(TabIds)
  BY <1>2, <1>3, FS_Union DEF TabIds
<1>5. QED
  BY <1>1, <1>2, <1>3, <1>4, TabAssumption DEF TabIds, Vers, Events

\* What happens to one connection in a step: nothing; something that it
\* tells; it is made; one of its events is heard.
Stays(c) == life'[c] = life[c] /\ news'[c] = news[c] /\ dialed'[c] = dialed[c]
Moves(c) ==
    /\ life[c] \in Living /\ life'[c] \in {"up", "lost", "over"}
    /\ \E e \in Events : news'[c] = Append(news[c], e) /\ Says(e, life'[c])
    /\ dialed'[c] = IF life'[c] = "over" THEN 0 ELSE dialed[c]
Born(c) == life[c] = "none" /\ life'[c] = "dialing" /\ news'[c] = news[c]
Hears(c) ==
    /\ life'[c] = life[c] /\ dialed'[c] = dialed[c]
    /\ news[c] # <<>> /\ news'[c] = Tail(news[c])

\* News that arrives is told after what was on its way.
LEMMA NewsAppend ==
  ASSUME NEW ns \in Seq(Events), NEW l \in Living, NEW k \in {"up", "lost", "over"}, NEW x,
         NEW e \in Events, NewsOf(ns, l, x), Says(e, k)
  PROVE  /\ Append(ns, e) \in Seq(Events) /\ Append(ns, e) # <<>>
         /\ NewsOf(Append(ns, e), k, x)
<1>1. /\ Append(ns, e) \in Seq(Events) /\ Append(ns, e) # <<>>
      /\ Len(Append(ns, e)) = Len(ns) + 1 /\ Append(ns, e)[Len(ns) + 1] = e
      /\ \A i \in 1 .. Len(ns) : Append(ns, e)[i] = ns[i]
  BY AppendProperties
<1>2. Len(ns) \in Nat /\ DOMAIN Append(ns, e) = 1 .. (Len(ns) + 1) /\ DOMAIN ns = 1 .. Len(ns)
  BY <1>1, LenProperties
<1>3. \A i \in DOMAIN ns : ns[i] # "closed"
  BY DEF NewsOf, Living
<1>4. \A i \in 1 .. (Len(ns) + 1) : i \in 1 .. Len(ns) \/ i = Len(ns) + 1
  BY <1>2
<1>5. \A i \in DOMAIN Append(ns, e) : Append(ns, e)[i] = "closed" => k = "over"
  BY <1>1, <1>2, <1>3, <1>4 DEF Says
<1>6. QED
  BY <1>1, <1>5 DEF NewsOf

\* News that is heard leaves the rest as it was.
LEMMA NewsTail ==
  ASSUME NEW ns \in Seq(Events), NEW l, NEW x, NEW y, ns # <<>>, NewsOf(ns, l, x),
         l = "none" => y = None
  PROVE  /\ Tail(ns) \in Seq(Events) /\ NewsOf(Tail(ns), l, y)
         /\ Head(ns) = ns[1] /\ ns[1] \in Events
         /\ Tail(ns) = <<>> => Says(Head(ns), l)
         /\ Head(ns) = "closed" => l = "over"
         /\ l # "none"
<1>1. /\ Tail(ns) \in Seq(Events) /\ Len(Tail(ns)) = Len(ns) - 1
      /\ \A i \in 1 .. Len(Tail(ns)) : Tail(ns)[i] = ns[i + 1]
  BY HeadTailProperties
<1>2. /\ Len(ns) \in Nat \ {0} /\ DOMAIN ns = 1 .. Len(ns) /\ DOMAIN Tail(ns) = 1 .. Len(Tail(ns))
      /\ 1 \in DOMAIN ns /\ Head(ns) = ns[1] /\ ns[1] \in Events
  BY <1>1, EmptySeq, LenProperties
<1>3. Tail(ns) = <<>> <=> Len(ns) = 1
  <2> DEFINE t == Tail(ns)
  <2>1. t \in Seq(Events) /\ Len(t) = Len(ns) - 1
    BY <1>1
  <2> HIDE DEF t
  <2>2. t = <<>> <=> Len(t) = 0
    BY <2>1, EmptySeq
  <2>3. QED
    BY <1>2, <2>1, <2>2 DEF t
<1>4. Tail(ns) # <<>> => Tail(ns)[Len(Tail(ns))] = ns[Len(ns)]
  BY <1>1, <1>2, <1>3
<1>5. \A i \in DOMAIN Tail(ns) : i + 1 \in DOMAIN ns /\ Tail(ns)[i] = ns[i + 1]
  BY <1>1, <1>2
<1>6. \A i \in DOMAIN Tail(ns) : Tail(ns)[i] = "closed" => l = "over"
  BY <1>5 DEF NewsOf
<1>7. NewsOf(Tail(ns), l, y)
  BY <1>4, <1>6 DEF NewsOf
<1>8. Says(ns[Len(ns)], l)
  BY DEF NewsOf
<1>9. l # "none"
  BY <1>8 DEF Says
<1>10. Head(ns) = "closed" => l = "over"
  BY <1>2 DEF NewsOf
<1>11. QED
  BY <1>1, <1>2, <1>3, <1>7, <1>8, <1>9, <1>10

\* What a step does to one connection keeps what its news, its tab and the
\* answer that names it say.
LEMMA ConnKept ==
  ASSUME BackendType, NEW c \in Conns, NEW x, NewsOf(news[c], life[c], x), Stays(c) \/ Moves(c)
  PROVE  /\ NewsOf(news'[c], life'[c], x)
         /\ \A rec \in Record : RecordOf(rec, life[c], news[c], dialed[c]) =>
                                RecordOf(rec, life'[c], news'[c], dialed'[c])
         /\ \A e, ver : Owing(e, life[c], news[c], dialed[c], ver) =>
                        Owing(e, life'[c], news'[c], dialed'[c], ver)
         /\ \A e : EarlyOf(e, life[c], news[c]) => EarlyOf(e, life'[c], news'[c])
         /\ life[c] = "over" => life'[c] = "over"
         /\ life'[c] = "none" <=> life[c] = "none"
         /\ life'[c] \in Living => life[c] \in Living
<1>1. CASE Stays(c)
  BY <1>1 DEF Stays
<1>2. CASE Moves(c)
  <2>1. PICK e \in Events : news'[c] = Append(news[c], e) /\ Says(e, life'[c])
    BY <1>2 DEF Moves
  <2>2. news[c] \in Seq(Events) /\ life[c] \in Living /\ life'[c] \in {"up", "lost", "over"}
    BY <1>2 DEF Moves, BackendType
  <2>3. news'[c] # <<>> /\ NewsOf(news'[c], life'[c], x)
    BY <2>1, <2>2, NewsAppend
  <2>4. life'[c] # "over" => dialed'[c] = dialed[c]
    BY <1>2 DEF Moves
  <2>5. \A rec \in Record : RecordOf(rec, life[c], news[c], dialed[c]) =>
                            RecordOf(rec, life'[c], news'[c], dialed'[c])
    BY <2>2, <2>3, <2>4 DEF RecordOf, Living
  <2>6. \A e1 : EarlyOf(e1, life[c], news[c]) => EarlyOf(e1, life'[c], news'[c])
    BY <2>2, <2>3 DEF EarlyOf, Living
  <2>7. \A e1, ver : Owing(e1, life[c], news[c], dialed[c], ver) =>
                    Owing(e1, life'[c], news'[c], dialed'[c], ver)
    BY <2>2, <2>3, <2>4, <2>6 DEF Owing, Living
  <2>8. QED
    BY <2>2, <2>3, <2>5, <2>6, <2>7 DEF Living
<1>3. QED
  BY <1>1, <1>2

\* A connection that is made has no news, and is owed to whoever asked for it.
LEMMA ConnBorn ==
  ASSUME NEW c \in Conns, NEW x, NewsOf(news[c], life[c], x), Born(c)
  PROVE  /\ NewsOf(news'[c], life'[c], x) /\ news'[c] = <<>>
         /\ \A ver : dialed'[c] = ver => Owing(x, life'[c], news'[c], dialed'[c], ver)
         /\ life[c] \notin Living /\ life[c] # "over" /\ x = None
<1>1. news[c] = <<>> /\ x = None
  BY DEF NewsOf, Born, Says
<1>2. NewsOf(news'[c], life'[c], x)
  BY <1>1 DEF NewsOf, Born
<1>3. EarlyOf(x, life'[c], news'[c])
  BY <1>1, Known0 DEF EarlyOf, Events
<1>4. QED
  BY <1>1, <1>2, <1>3 DEF Born, Owing, Living

\* A connection that is over is told of rightly by a tab that is closed.
LEMMA RecordOver ==
  ASSUME NEW rec, NEW ns, NEW d, rec.closed = TRUE, rec.connected = FALSE
  PROVE  RecordOf(rec, "over", ns, d)
  BY DEF RecordOf, Living
-----------------------------------------------------------------------------
(* The backend's part of a step.                                           *)

\* What happens to a connection and what is told of it.
LEMMA HappensStep ==
  ASSUME BackendType, NEW c \in Conns, NEW from \in SUBSET Living, NEW to \in {"up", "lost", "over"},
         NEW e \in Events, Says(e, to), Happens(c, from, to, e)
  PROVE  BackendType' /\ \A k \in Conns : Stays(k) \/ Moves(k)
<1>1. /\ life[c] \in Living /\ life' = [life EXCEPT ![c] = to] /\ owner' = owner
      /\ news' = [news EXCEPT ![c] = Append(@, e)]
      /\ dialed' = IF to = "over" THEN [dialed EXCEPT ![c] = 0] ELSE dialed
  BY DEF Happens, Tell
<1>2. Append(news[c], e) \in Seq(Events)
  BY AppendProperties DEF BackendType
<1>3. dialed' \in [Conns -> Vers]
  BY <1>1, Known0 DEF BackendType
<1>4. life' \in [Conns -> Lives] /\ news' \in [Conns -> Seq(Events)]
  BY <1>1, <1>2 DEF BackendType, Lives
<1>5. BackendType'
  BY <1>1, <1>3, <1>4 DEF BackendType
<1>6. Moves(c)
  BY <1>1, <1>2 DEF Moves, BackendType
<1>7. \A k \in Conns \ {c} : Stays(k)
  BY <1>1 DEF Stays, BackendType
<1>8. QED
  BY <1>5, <1>6, <1>7

\* A connection is cut, and told of as closed.
LEMMA CutStep ==
  ASSUME BackendType, NEW id \in Conns, Cut(id), owner' = owner, life[id] # "none"
  PROVE  /\ BackendType' /\ life'[id] = "over"
         /\ \A k \in Conns : Stays(k) \/ Moves(k)
<1>1. CASE Live(id)
  <2>1. /\ life[id] \in Living /\ life' = [life EXCEPT ![id] = "over"]
        /\ news' = [news EXCEPT ![id] = Append(@, "closed")]
        /\ dialed' = [dialed EXCEPT ![id] = 0]
    BY <1>1 DEF Cut, Live, Living, Tell
  <2>2. Append(news[id], "closed") \in Seq(Events)
    BY AppendProperties DEF BackendType, Events
  <2>3. BackendType'
    BY <2>1, <2>2, Known0 DEF BackendType, Lives
  <2>4. Moves(id)
    BY <2>1, <2>2 DEF Moves, BackendType, Events, Says
  <2>5. \A k \in Conns \ {id} : Stays(k)
    BY <2>1 DEF Stays, BackendType
  <2>6. QED
    BY <2>1, <2>3, <2>4, <2>5 DEF BackendType
<1>2. CASE ~Live(id)
  <2>1. UNCHANGED <<life, dialed, news>>
    BY <1>2 DEF Cut
  <2>2. life[id] = "over"
    BY <1>2 DEF Live, BackendType, Lives
  <2>3. QED
    BY <2>1, <2>2 DEF BackendType, Stays
<1>3. QED
  BY <1>1, <1>2

\* The backend makes a connection, or refuses to.
LEMMA DialStep ==
  ASSUME BackendType, NEW p \in Profiles, NEW ver \in Vers, NEW c, DialFor(p, ver, c), news' = news
  PROVE  /\ BackendType' /\ c \in Conns \cup {None}
         /\ c # None => Born(c) /\ owner'[c] = p /\ dialed'[c] = ver /\ c \in Conns
         /\ \A k \in Conns \ {c} : Stays(k) /\ owner'[k] = owner[k]
<1>1. c \in {None} \cup Spare /\ Spare \subseteq Conns /\ None \notin Conns
  BY Known0 DEF DialFor, Spare
<1>2. CASE c = None
  BY <1>1, <1>2 DEF DialFor, BackendType, Stays
<1>3. CASE c # None
  <2>1. /\ c \in Conns /\ life[c] = "none"
        /\ life' = [life EXCEPT ![c] = "dialing"] /\ owner' = [owner EXCEPT ![c] = p]
        /\ dialed' = [dialed EXCEPT ![c] = ver]
    BY <1>1, <1>3 DEF DialFor, Spare
  <2>2. BackendType'
    BY <2>1 DEF BackendType, Lives
  <2>3. Born(c) /\ owner'[c] = p /\ dialed'[c] = ver
    BY <2>1 DEF Born, BackendType
  <2>4. \A k \in Conns \ {c} : Stays(k) /\ owner'[k] = owner[k]
    BY <2>1 DEF Stays, BackendType
  <2>5. QED
    BY <2>1, <2>2, <2>3, <2>4
<1>4. QED
  BY <1>2, <1>3
-----------------------------------------------------------------------------
(* The tab of a profile.                                                   *)

Kind(own, p) == {id \in TabIds : (IF id \in Conns THEN own[id] ELSE id) = p}
LastIn(ts, K) == IF Only(ts, K) = <<>> THEN None ELSE Last(Only(ts, K))

\* TabOf finds a tab of the profile if there is one.
LEMMA TabOfIs ==
  ASSUME NEW p
  PROVE  TabOf(p) = LastIn(tabs, Kind(owner, p)) /\ TabsOf(p) = Only(tabs, Kind(owner, p))
  BY DEF TabOf, TabsOf, ProfileOf, Online, LastIn, Kind

\* The tab of the profile a connection is made for, before and after a step.
LEMMA TabOfOwner ==
  ASSUME NEW c
  PROVE  /\ TabOf(owner[c]) = LastIn(tabs, Kind(owner, owner[c]))
         /\ (TabOf(owner[c]))' = LastIn(tabs', Kind(owner', owner'[c]))
  BY DEF TabOf, TabsOf, ProfileOf, Online, LastIn, Kind

\* The last element of a kind is one of them, if there are any.
LEMMA LastInIs ==
  ASSUME NEW ts \in Seq(TabIds), NEW K
  PROVE  /\ Only(ts, K) \in Seq(TabIds) /\ Range(Only(ts, K)) = Range(ts) \cap K
         /\ LastIn(ts, K) = None <=> Range(ts) \cap K = {}
         /\ LastIn(ts, K) # None => LastIn(ts, K) \in Range(ts) \cap K
         /\ Only(ts, K) # <<>> => Head(Only(ts, K)) \in Range(ts) \cap K
<1> DEFINE s == Only(ts, K)
<1>1. s \in Seq(TabIds) /\ Range(s) = Range(ts) \cap K
  BY OnlyRange
<1>2. LastIn(ts, K) = IF s = <<>> THEN None ELSE Last(s)
  BY DEF LastIn
<1> HIDE DEF s
<1>3. CASE s = <<>>
  BY <1>1, <1>2, <1>3, RangeEmpty DEF s
<1>4. CASE s # <<>>
  <2>1. Len(s) \in Nat \ {0} /\ DOMAIN s = 1 .. Len(s)
    BY <1>1, <1>4, EmptySeq, LenProperties
  <2>2. Last(s) \in Range(s)
    BY <2>1 DEF Last, Range
  <2>3. Head(s) \in Range(s)
    <3>1. 1 \in DOMAIN s /\ Head(s) = s[1]
      BY <1>1, <1>4, <2>1
    <3>2. QED
      BY <3>1 DEF Range
  <2>4. Last(s) # None
    <3>1. Last(s) \in TabIds
      BY <1>1, <2>2, RangeOfSeq
    <3>2. QED
      BY <3>1, Known0
  <2>5. QED
    BY <1>1, <1>2, <1>4, <2>2, <2>3, <2>4 DEF s
<1>5. QED
  BY <1>3, <1>4

\* An element of the kind that is added is the last of its kind.
LEMMA LastInAppend ==
  ASSUME NEW ts \in Seq(TabIds), NEW x \in TabIds, NEW K
  PROVE  LastIn(Append(ts, x), K) = IF x \in K THEN x ELSE LastIn(ts, K)
<1>1. Only(ts, K) \in Seq(TabIds)
  BY LastInIs
<1>2. Only(Append(ts, x), K) = IF x \in K THEN Append(Only(ts, K), x) ELSE Only(ts, K)
  BY OnlyAppend
<1>3. Append(Only(ts, K), x) # <<>> /\ Last(Append(Only(ts, K), x)) = x
  BY <1>1, LastAppend
<1>4. QED
  BY <1>2, <1>3 DEF LastIn

\* The last of a kind stays the last when others are taken out.
LEMMA LastInKept ==
  ASSUME NEW ts \in Seq(TabIds), NEW S, NEW K, LastIn(ts, K) # None, LastIn(ts, K) \in S
  PROVE  LastIn(Only(ts, S), K) = LastIn(ts, K)
<1>1. Only(ts, K) # <<>> /\ Last(Only(ts, K)) \in S /\ LastIn(ts, K) = Last(Only(ts, K))
  BY DEF LastIn
<1>2. QED
  BY <1>1, LastKept DEF LastIn

\* Whose connections are not shown does not matter.
LEMMA LastInOwner ==
  ASSUME NEW ts \in Seq(TabIds), NEW own, NEW other, NEW p,
         \A c \in Conns : c \in Range(ts) => other[c] = own[c]
  PROVE  LastIn(ts, Kind(other, p)) = LastIn(ts, Kind(own, p))
<1>1. ts \in Seq(Range(ts)) /\ Range(ts) \subseteq TabIds
  BY SeqOfRange, RangeOfSeq
<1>2. Range(ts) \cap Kind(other, p) = Range(ts) \cap Kind(own, p)
  BY <1>1 DEF Kind
<1>3. Only(ts, Kind(other, p)) = Only(ts, Kind(own, p))
  BY <1>1, <1>2, OnlyOf
<1>4. QED
  BY <1>3 DEF LastIn

\* The tabs that are left when some are taken out.
LEMMA WithoutIs ==
  ASSUME TabType, NEW out
  PROVE  /\ Without(out) \in Seq(TabIds) /\ Range(Without(out)) = Range(tabs) \ out
         /\ \A K : LastIn(tabs, K) # None /\ LastIn(tabs, K) \notin out =>
                      LastIn(Without(out), K) = LastIn(tabs, K)
<1>1. tabs \in Seq(TabIds) /\ Range(tabs) \subseteq TabIds /\ Without(out) = Only(tabs, TabIds \ out)
  BY RangeOfSeq DEF TabType, Without
<1>2. Without(out) \in Seq(TabIds) /\ Range(Without(out)) = Range(tabs) \cap (TabIds \ out)
  BY <1>1, OnlyRange
<1>3. ASSUME NEW K, LastIn(tabs, K) # None, LastIn(tabs, K) \notin out
      PROVE  LastIn(Without(out), K) = LastIn(tabs, K)
  <2>1. LastIn(tabs, K) \in TabIds \ out
    BY <1>1, <1>3, LastInIs
  <2>2. QED
    BY <1>1, <1>3, <2>1, LastInKept
<1>4. QED
  BY <1>1, <1>2, <1>3
-----------------------------------------------------------------------------
(* The calls that are counted.                                             *)

\* A call that is under way is counted, and two are not one.
LEMMA Rpcs ==
  ASSUME CallType
  PROVE  /\ TabRpcs \in Nat
         /\ restore \in {"asked", "answered"} => TabRpcs # 0
         /\ \A p \in Profiles : dial[p].pc = "dialing" => TabRpcs # 0
         /\ \A id \in TabIds : flow[id].pc = "dialing" => TabRpcs # 0
         /\ \A p, q \in Profiles :
               p # q /\ dial[p].pc = "dialing" /\ dial[q].pc = "dialing" => TabRpcs # 1
         /\ \A i, j \in TabIds :
               i # j /\ flow[i].pc = "dialing" /\ flow[j].pc = "dialing" => TabRpcs # 1
         /\ \A p \in Profiles, id \in TabIds :
               dial[p].pc = "dialing" /\ flow[id].pc = "dialing" => TabRpcs # 1
<1> DEFINE D == {p \in Profiles : dial[p].pc = "dialing"}
           F == {id \in TabIds : flow[id].pc = "dialing"}
           r == IF restore \in {"asked", "answered"} THEN 1 ELSE 0
<1>1. IsFiniteSet(D) /\ IsFiniteSet(F)
  BY Known0, FS_Subset
<1>2. TabRpcs = Cardinality(D) + Cardinality(F) + r
  BY DEF TabRpcs
<1>3. \A S : IsFiniteSet(S) =>
         /\ Cardinality(S) \in Nat
         /\ \A x \in S : Cardinality(S) # 0
         /\ \A x, y \in S : x # y => Cardinality(S) # 1
  BY FS_CardinalityType, FS_EmptySet, FS_Singleton
<1>4. /\ Cardinality(D) \in Nat /\ Cardinality(F) \in Nat
      /\ \A p \in D : Cardinality(D) # 0
      /\ \A id \in F : Cardinality(F) # 0
      /\ \A p, q \in D : p # q => Cardinality(D) # 1
      /\ \A i, j \in F : i # j => Cardinality(F) # 1
  BY <1>1, <1>3
<1> DEFINE d == Cardinality(D)
           f == Cardinality(F)
<1>5. /\ d \in Nat /\ f \in Nat /\ TabRpcs = d + f + r
      /\ \A p \in Profiles : dial[p].pc = "dialing" => d # 0
      /\ \A id \in TabIds : flow[id].pc = "dialing" => f # 0
      /\ \A p, q \in Profiles : p # q /\ dial[p].pc = "dialing" /\ dial[q].pc = "dialing" => d # 1
      /\ \A i, j \in TabIds : i # j /\ flow[i].pc = "dialing" /\ flow[j].pc = "dialing" => f # 1
  BY <1>2, <1>4
<1>6. r \in {0, 1} /\ (restore \in {"asked", "answered"} => r = 1)
  OBVIOUS
<1> HIDE DEF d, f, r, D, F
<1>7. /\ TabRpcs \in Nat /\ (r = 1 => TabRpcs # 0)
      /\ (d # 0 => TabRpcs # 0) /\ (f # 0 => TabRpcs # 0)
      /\ (d # 0 /\ d # 1 => TabRpcs # 1) /\ (f # 0 /\ f # 1 => TabRpcs # 1)
      /\ (d # 0 /\ f # 0 => TabRpcs # 1)
  BY <1>5, <1>6
<1>8. QED
  BY <1>5, <1>6, <1>7

\* Early states are forgotten when the last call ends, not while another waits.
LEMMA EarlyStays ==
  ASSUME CallType, EndTabRpc, Ready
  PROVE  /\ early' = early \/ early' = NoEarly
         /\ \A p, q \in Profiles :
               p # q /\ dial[p].pc = "dialing" /\ dial[q].pc = "dialing" => early' = early
         /\ \A i, j \in TabIds :
               i # j /\ flow[i].pc = "dialing" /\ flow[j].pc = "dialing" => early' = early
         /\ \A p \in Profiles, id \in TabIds :
               dial[p].pc = "dialing" /\ flow[id].pc = "dialing" => early' = early
<1>1. early' = IF TabRpcs = 1 THEN NoEarly ELSE early
  BY DEF EndTabRpc
<1>2. QED
  BY <1>1, Rpcs
-----------------------------------------------------------------------------
(* Steps that make neither a connection nor its tab.                       *)

USE DEF Ready

\* What is under way for the user is so after the start is over.
LEMMA UnderWay ==
  ASSUME FirstTrue
  PROVE  /\ \A p \in Profiles : dial[p].pc # "idle" \/ saving[p].kind # "none" => Ready
         /\ \A id \in TabIds : flow[id].pc # "idle" => Ready
         /\ leaving # {} \/ tabs # <<>> => Ready
  BY DEF FirstTrue, Idle, NotSaving

\* An answer that is still owed is owed after the step.
LEMMA OwedKept ==
  ASSUME BackendType, NewsTrue, NEW c, NEW ver, Owed(c, ver), Stays(c) \/ Moves(c),
         early'[c] = early[c], c \notin Range(tabs')
  PROVE  Owed(c, ver)'
<1>1. c \in Conns /\ NewsOf(news[c], life[c], early[c])
  BY DEF Owed, NewsTrue
<1>2. Owing(early[c], life'[c], news'[c], dialed'[c], ver)
  BY <1>1, ConnKept DEF Owed
<1>3. QED
  BY <1>1, <1>2 DEF Owed, Shown

\* Answers that the step leaves alone, or takes, name connections as before.
LEMMA AnswersKept ==
  ASSUME AnswersTrue, dial \in [Profiles -> Connecting], flow \in [TabIds -> Connecting],
         \A p \in Profiles : dial'[p] = dial[p] \/ dial'[p].got = None,
         \A id \in TabIds : flow'[id] = flow[id] \/ flow'[id].got = None,
         \A p \in Profiles : dial'[p].got # None =>
            /\ owner'[dial[p].got] = owner[dial[p].got]
            /\ \A c, ver : c = dial[p].got /\ Owed(c, ver) => Owed(c, ver)',
         \A id \in TabIds : flow'[id].got # None =>
            \A c, ver : c = flow[id].got /\ Owed(c, ver) => Owed(c, ver)'
  PROVE  AnswersTrue'
<1>1. ASSUME NEW p \in Profiles, dial'[p].got # None
      PROVE  /\ dial'[p] = dial[p] /\ dial'[p].pc = "dialing" /\ owner'[dial'[p].got] = p
             /\ Owed(dial[p].got, dial[p].ver)
             /\ \A c, ver : c = dial[p].got /\ ver = dial[p].ver => Owed(c, ver)'
  <2>1. dial'[p] = dial[p] /\ dial[p].got # None
    BY <1>1
  <2>2. /\ dial[p].pc = "dialing" /\ owner[dial[p].got] = p
        /\ Owed(dial[p].got, dial[p].ver)
    BY <2>1 DEF AnswersTrue, DialsTrue
  <2>3. owner'[dial[p].got] = owner[dial[p].got]
    BY <1>1
  <2>4. \A c, ver : c = dial[p].got /\ ver = dial[p].ver => Owed(c, ver)'
    BY <1>1, <2>2
  <2>5. QED
    BY <2>1, <2>2, <2>3, <2>4
<1>2. ASSUME NEW id \in TabIds, flow'[id].got # None
      PROVE  /\ flow'[id] = flow[id] /\ flow'[id].pc = "dialing"
             /\ Owed(flow[id].got, flow[id].ver)
             /\ \A c, ver : c = flow[id].got /\ ver = flow[id].ver => Owed(c, ver)'
  BY <1>2 DEF AnswersTrue, FlowsTrue
<1>3. ASSUME NEW p \in Profiles, dial'[p].got # None PROVE Owed(dial[p].got, dial[p].ver)'
  BY <1>1, <1>3 DEF Owed
<1>4. ASSUME NEW id \in TabIds, flow'[id].got # None PROVE Owed(flow[id].got, flow[id].ver)'
  BY <1>2, <1>4 DEF Owed
<1>5. DialsTrue'
  BY <1>1, <1>3 DEF AnswersTrue, DialsTrue
<1>6. FlowsTrue'
  BY <1>2, <1>4 DEF AnswersTrue, FlowsTrue
<1>7. \A p \in Profiles, id \in TabIds : dial'[p].got # None => dial'[p].got # flow'[id].got
  BY <1>1, <1>2 DEF AnswersTrue
<1>8. QED
  BY <1>5, <1>6, <1>7 DEF AnswersTrue

FirstVars == <<tabs, active, leaving, saved, dial, saving, flow, early, restoreVars>>

\* Steps that make no connection and add no tab: each connection stays as it is
\* or only its news moves, and the invariant stays true.
LEMMA Frame ==
  ASSUME TabsInv, TabsType', owner' = owner, restore' = restore,
         \A c \in Conns : Stays(c) \/ Moves(c),
         \A c \in Conns : c \in Range(tabs') => c \in Range(tabs) /\
            (node'[c] = node[c] \/ RecordOf(node'[c], life'[c], news'[c], dialed'[c])),
         \A p \in Profiles : IF dial[p].got # None THEN dial'[p] = dial[p] ELSE dial'[p].got = None,
         \A id \in TabIds : IF flow[id].got # None THEN flow'[id] = flow[id] ELSE flow'[id].got = None,
         \/ early' = early
         \/ /\ early' = NoEarly
            /\ \A p \in Profiles : dial[p].got = None
            /\ \A id \in TabIds : flow[id].got = None,
         \A c \in Conns : flow'[c].pc # "idle" \/ c \in leaving' =>
            flow[c].pc # "idle" \/ c \in leaving \/ life'[c] = "over",
         \A c \in Conns : c \in orphaned => c \in orphaned',
         \A c \in Conns : life'[c] \in Living /\ TabOf(owner[c]) = c => (TabOf(owner[c]))' = c,
         Ready \/ UNCHANGED FirstVars
  PROVE  TabsInv'
<1> USE DEF TabsInv, TabsType
<1>1. ASSUME NEW c \in Conns
      PROVE  /\ NewsOf(news'[c], life'[c], early[c])
             /\ \A rec \in Record : RecordOf(rec, life[c], news[c], dialed[c]) =>
                                    RecordOf(rec, life'[c], news'[c], dialed'[c])
             /\ \A e : EarlyOf(e, life[c], news[c]) => EarlyOf(e, life'[c], news'[c])
             /\ life[c] = "over" => life'[c] = "over"
             /\ life'[c] = "none" <=> life[c] = "none"
             /\ life'[c] \in Living => life[c] \in Living
  BY <1>1, ConnKept DEF NewsTrue
<1>2. NewsTrue'
  BY <1>1 DEF NewsTrue, NewsOf, NoEarly
<1>3. ASSUME NEW c \in Conns, c \in Range(tabs')
      PROVE  RecordOf(node'[c], life'[c], news'[c], dialed'[c])
  <2>1. c \in Range(tabs) /\ c \in TabIds /\ node[c] \in Record
    BY <1>3, Known0 DEF TabType
  <2>2. RecordOf(node[c], life[c], news[c], dialed[c])
    BY <2>1 DEF RecordTrue, Shown
  <2>3. QED
    BY <1>1, <1>3, <2>1, <2>2
<1>4. RecordTrue'
  BY <1>3 DEF RecordTrue, Shown
<1>5. ASSUME NEW c, NEW ver, Owed(c, ver), early'[c] = early[c] PROVE Owed(c, ver)'
  <2>1. c \in Conns /\ c \notin Range(tabs)
    BY <1>5 DEF Owed, Shown
  <2>2. QED
    BY <1>5, <2>1, OwedKept
<1>6. AnswersTrue'
  <2>1. \A p \in Profiles : dial'[p] = dial[p] \/ dial'[p].got = None
    OBVIOUS
  <2>2. \A id \in TabIds : flow'[id] = flow[id] \/ flow'[id].got = None
    OBVIOUS
  <2>3. \A p \in Profiles : dial'[p].got # None =>
            /\ owner'[dial[p].got] = owner[dial[p].got]
            /\ \A c, ver : c = dial[p].got /\ Owed(c, ver) => Owed(c, ver)'
    BY <1>5
  <2>4. \A id \in TabIds : flow'[id].got # None =>
            \A c, ver : c = flow[id].got /\ Owed(c, ver) => Owed(c, ver)'
    BY <1>5
  <2>5. dial \in [Profiles -> Connecting] /\ flow \in [TabIds -> Connecting]
    BY DEF CallType
  <2>6. QED
    BY <2>1, <2>2, <2>3, <2>4, <2>5, AnswersKept
<1>7. CutTrue'
  BY <1>1 DEF CutTrue
<1>8. FirstTrue'
  <2>1. CASE Ready
    BY <2>1 DEF FirstTrue
  <2>2. CASE ~Ready
    <3>1. UNCHANGED FirstVars
      BY <2>2
    <3>2. ASSUME NEW c \in Conns
          PROVE  /\ c # 1 => life'[c] = "none"
                 /\ dialed'[c] = 0
                 /\ EarlyOf(early'[c], life'[c], news'[c])
      BY <1>1, <2>2, <3>1, <3>2 DEF FirstTrue, FirstVars, Stays, Moves
    <3>3. ASSUME NEW c \in snapshot.live
          PROVE  /\ life'[c] # "none"
                 /\ restore = "answered" /\ news'[c] = <<>> /\ early[c] = None =>
                       life'[c] \in Living /\ (c \in snapshot.up <=> life'[c] = "up")
      <4>1. c \in Conns /\ life[c] # "none" /\ life'[c] # "none"
        BY <1>1, <2>2, <3>3 DEF FirstTrue, CallType
      <4>2. CASE Stays(c)
        BY <2>2, <3>3, <4>1, <4>2 DEF FirstTrue, Stays
      <4>3. CASE Moves(c)
        <5>1. news[c] \in Seq(Events)
          BY <4>1 DEF BackendType
        <5>2. news'[c] # <<>>
          BY <4>3, <5>1, LastAppend DEF Moves
        <5>3. QED
          BY <4>1, <5>2
      <4>4. QED
        BY <4>1, <4>2, <4>3
    <3>4. snapshot' = snapshot /\ early' = early
      BY <3>1 DEF FirstVars, restoreVars
    <3>5. QED
      BY <2>2, <3>1, <3>2, <3>3, <3>4 DEF FirstTrue, FirstVars, NoEarly, Idle, NotSaving
  <2>3. QED
    BY <2>1, <2>2
<1>9. ReachTrue'
  <2>1. SUFFICES ASSUME Ready, NEW c \in Conns, life'[c] \in Living PROVE Known(c)'
    BY DEF ReachTrue, Ready, Live, Living
  <2>2. Known(c)
    BY <1>1, <2>1 DEF ReachTrue, Ready, Live, Living
  <2>3. Awaited(c) => Awaited(c)'
    BY Known0 DEF Awaited
  <2>4. QED
    BY <2>1, <2>2, <2>3 DEF Known
<1>10. QED
  BY <1>2, <1>4, <1>6, <1>7, <1>8, <1>9
-----------------------------------------------------------------------------
(* The actions that only move on what there is.                            *)

USE DEF backendVars, listVars, tabVars, callVars, restoreVars, FirstVars

\* The backend: a link comes up, is lost, or a dial fails.
LEMMA HappensKeeps ==
  ASSUME TabsInv, NEW c \in Conns, Establish(c) \/ LoseLink(c) \/ FailDial(c)
  PROVE  TabsInv'
<1>1. \E from \in SUBSET Living, to \in {"up", "lost", "over"}, e \in Events :
         Says(e, to) /\ Happens(c, from, to, e)
  BY DEF Establish, LoseLink, FailDial, Living, Events, Says
<1>2. BackendType' /\ (\A k \in Conns : Stays(k) \/ Moves(k))
  BY <1>1, HappensStep DEF TabsInv, TabsType
<1>3. UNCHANGED <<owner, listVars, tabVars, early, callVars, restoreVars, orphaned>>
  BY <1>1 DEF Happens
<1>4. (\A k \in Conns : TabOf(owner[k]) = k => (TabOf(owner[k]))' = k)
  BY <1>3, TabOfOwner
<1>5. TabsType'
  BY <1>2, <1>3 DEF TabsInv, TabsType, TabType, CallType
<1>6. QED
  BY <1>2, <1>3, <1>4, <1>5, Frame

\* The records that are kept.
LEMMA HeldIs ==
  ASSUME NEW records \in [TabIds -> Record], NEW left, NEW ended
  PROVE  /\ Held(records, left, ended) \in [TabIds -> Record]
         /\ \A id \in TabIds : id \in left => Held(records, left, ended)[id] = records[id]
  BY Known0 DEF Held, Fresh, Record

\* The calls that no answer has named a connection for, and saves, go on.
LEMMA CallsKeep ==
  ASSUME TabsInv, UNCHANGED <<life, owner, dialed, news, tabVars, early, orphaned, dial, flow,
                              leaving, restoreVars>>,
         saving' \in [Profiles -> SaveOf], listed' \in SUBSET Profiles,
         saved' \in [Profiles -> Vers], Ready \/ UNCHANGED <<saving, saved>>
  PROVE  TabsInv'
<1>1. TabsType'
  BY DEF TabsInv, TabsType, BackendType, TabType, CallType
<1>2. \A k \in Conns : Stays(k)
  BY DEF Stays
<1>3. \A k \in Conns : TabOf(owner[k]) = k => (TabOf(owner[k]))' = k
  BY TabOfOwner
<1>4. QED
  BY <1>1, <1>2, <1>3, Frame

\* What sending a save changes.
LEMMA SendSaveIs ==
  ASSUME CallType, NEW p \in Profiles, NEW kind \in {"save", "connect", "edit"}, NEW ver \in Vers,
         SendSave(p, kind, ver)
  PROVE  saving' \in [Profiles -> SaveOf]
<1>1. PICK ok \in BOOLEAN : saving' = [saving EXCEPT ![p] = [kind |-> kind, ver |-> ver, ok |-> ok]]
  BY DEF SendSave
<1>2. [kind |-> kind, ver |-> ver, ok |-> ok] \in SaveOf
  BY DEF SaveOf
<1>3. QED
  BY <1>1, <1>2 DEF CallType

\* The answer of a save.
LEMMA SavedIs ==
  ASSUME TabsInv, NEW p \in Profiles, NEW kind \in {"save", "connect", "edit"}, Saved(p, kind)
  PROVE  /\ saving' \in [Profiles -> SaveOf] /\ listed' \in SUBSET Profiles
         /\ saved' \in [Profiles -> Vers] /\ saving[p].ver \in Vers /\ Ready
<1>1. saving[p] \in SaveOf /\ saving[p].kind # "none" /\ NotSaving \in SaveOf
  BY Known0 DEF TabsInv, TabsType, CallType, Saved, NotSaving, SaveOf
<1>2. saving[p].ver \in Vers /\ Ready
  BY <1>1, UnderWay DEF SaveOf, TabsInv
<1>3. QED
  BY <1>1, <1>2 DEF TabsInv, TabsType, CallType, TabType, Saved

\* The actions of the user and the answers, one lemma for each.
LEMMA AskSaveKeeps ==
  ASSUME TabsInv, Ready, NEW p \in Profiles, NEW kind \in {"save", "connect"}, NEW ver \in Vers,
         AskSave(p, kind, ver)
  PROVE  TabsInv'
<1>1. saving' \in [Profiles -> SaveOf]
  BY SendSaveIs DEF AskSave, TabsInv, TabsType
<1>2. Ready
  BY DEF AskSave, MayAct, Ready
<1>3. QED
  BY <1>1, <1>2, CallsKeep DEF AskSave, TabsInv, TabsType, TabType

LEMMA SaveFailsKeeps == ASSUME TabsInv, NEW p \in Profiles, SaveFails(p) PROVE TabsInv'
<1>1. saving' \in [Profiles -> SaveOf] /\ Ready
  BY Known0, UnderWay DEF SaveFails, TabsInv, TabsType, CallType, NotSaving, SaveOf
<1>2. QED
  BY <1>1, CallsKeep DEF SaveFails, TabsInv, TabsType, TabType

LEMMA SavedEditKeeps == ASSUME TabsInv, NEW p \in Profiles, SavedEdit(p) PROVE TabsInv'
<1>1. Saved(p, "edit")
  BY DEF SavedEdit
<1>2. QED
  BY <1>1, SavedIs, CallsKeep DEF SavedEdit

LEMMA AskDeleteKeeps == ASSUME TabsInv, Ready, NEW p \in Profiles, AskDelete(p) PROVE TabsInv'
  BY CallsKeep DEF AskDelete, TabsInv, TabsType, TabType, CallType

LEMMA DeleteFailsKeeps == ASSUME TabsInv, NEW p \in Profiles, DeleteFails(p) PROVE TabsInv'
  BY CallsKeep DEF DeleteFails, TabsInv, TabsType, TabType, CallType

\* A shown connection that the backend does not keep is over.
LEMMA ShownOver ==
  ASSUME TabsInv, NEW c \in Conns, Shown(c)
  PROVE  /\ life[c] # "none" /\ node[c] \in Record
         /\ node[c].closed => ~node[c].connected /\ life[c] = "over"
  BY Known0 DEF TabsInv, TabsType, TabType, RecordTrue, RecordOf

LEMMA ClickDisconnectKeeps == ASSUME TabsInv, Ready, ClickDisconnect PROVE TabsInv'
<1>1. active \in Conns /\ Shown(active) /\ Ready
  BY DEF ClickDisconnect, OffersDisconnect, OnActive, IsConnected, HasLive, Online, MayAct, Ready
<1>2. life[active] # "none"
  BY <1>1, ShownOver
<1>3. /\ BackendType' /\ life'[active] = "over"
      /\ \A k \in Conns : Stays(k) \/ Moves(k)
  BY <1>1, <1>2, CutStep DEF ClickDisconnect, TabsInv, TabsType
<1>4. (\A k \in Conns : TabOf(owner[k]) = k => (TabOf(owner[k]))' = k)
  BY TabOfOwner DEF ClickDisconnect
<1>5. TabsType'
  BY <1>1, <1>3 DEF TabsInv, TabsType, TabType, CallType, ClickDisconnect
<1>6. leaving' = leaving \cup {active}
  BY DEF ClickDisconnect
<1>7. QED
  BY <1>1, <1>3, <1>4, <1>5, <1>6, Frame DEF ClickDisconnect

LEMMA AnswerDisconnectKeeps == ASSUME TabsInv, NEW c \in Conns, AnswerDisconnect(c) PROVE TabsInv'
<1>1. life[c] = "over" /\ Ready
  BY UnderWay DEF AnswerDisconnect, TabsInv, CutTrue
<1>2. c \in TabIds /\ node \in [TabIds -> Record] /\ node[c] \in Record
  BY Known0 DEF TabsInv, TabsType, TabType
<1>3. Closed(c) \in Record /\ Closed(c).closed = TRUE /\ Closed(c).connected = FALSE
  BY <1>2 DEF Closed, Record
<1>4. node' \in [TabIds -> Record] /\ (\A k \in TabIds \ {c} : node'[k] = node[k])
  BY <1>2, <1>3 DEF AnswerDisconnect, Put
<1>5. node'[c] = node[c] \/ RecordOf(node'[c], life'[c], news'[c], dialed'[c])
  BY <1>1, <1>2, <1>3, RecordOver DEF AnswerDisconnect, Put
<1>6. \A k \in Conns : k \in Range(tabs') => k \in Range(tabs) /\
         (node'[k] = node[k] \/ RecordOf(node'[k], life'[k], news'[k], dialed'[k]))
  BY <1>4, <1>5, Known0 DEF AnswerDisconnect
<1>7. \A k \in Conns : Stays(k)
  BY DEF AnswerDisconnect, Stays
<1>8. (\A k \in Conns : TabOf(owner[k]) = k => (TabOf(owner[k]))' = k)
  BY TabOfOwner DEF AnswerDisconnect
<1>9. TabsType'
  BY <1>4 DEF TabsInv, TabsType, BackendType, TabType, CallType, AnswerDisconnect
<1>10. leaving' \subseteq leaving
  BY DEF AnswerDisconnect
<1>11. QED
  BY <1>1, <1>6, <1>7, <1>8, <1>9, <1>10, Frame DEF AnswerDisconnect

LEMMA EditBrokerKeeps == ASSUME TabsInv, Ready, NEW ver \in Vers, EditBroker(ver) PROVE TabsInv'
<1>1. active \in TabIds /\ Shown(active) /\ Ready
  BY DEF EditBroker, OnActive, MayAct, Ready, OffersEdit, TabsInv, TabsType, TabType
<1>2. node \in [TabIds -> Record] /\ node[active] \in Record
  BY <1>1 DEF TabsInv, TabsType, TabType
<1>3. active \in Conns => node[active].closed /\ ~node[active].connected /\ life[active] = "over"
  BY <1>1, ShownOver DEF EditBroker, HasLive, Online
<1> DEFINE rec == [node[active] EXCEPT !.ver = ver]
<1>4. rec \in Record /\ rec.closed = node[active].closed /\ rec.connected = node[active].connected
  BY <1>2 DEF Record
<1>5. node' = [node EXCEPT ![active] = rec]
  BY <1>1 DEF EditBroker, Put
<1> HIDE DEF rec
<1>6. node' \in [TabIds -> Record] /\ (\A k \in TabIds \ {active} : node'[k] = node[k]) /\ node'[active] = rec
  BY <1>1, <1>2, <1>4, <1>5
<1>7. /\ UNCHANGED <<life, owner, dialed, news, listVars, tabs, active, last, early, restoreVars,
                     dial, flow, deleting, leaving, orphaned>>
      /\ SendSave(ProfileOf(active), "edit", ver)
  BY DEF EditBroker
<1>8. active \in Conns => RecordOf(node'[active], life'[active], news'[active], dialed'[active])
  <2>1. active \in Conns => rec.closed = TRUE /\ rec.connected = FALSE
    BY <1>2, <1>3, <1>4 DEF Record
  <2>2. QED
    BY <1>3, <1>6, <1>7, <2>1, RecordOver
<1>9. \A k \in Conns : k \in Range(tabs') => k \in Range(tabs) /\
         (node'[k] = node[k] \/ RecordOf(node'[k], life'[k], news'[k], dialed'[k]))
  BY <1>6, <1>7, <1>8, Known0
<1>10. \A k \in Conns : Stays(k)
  BY <1>7 DEF Stays
<1>11. (\A k \in Conns : TabOf(owner[k]) = k => (TabOf(owner[k]))' = k)
  BY <1>7, TabOfOwner
<1>12. saving' \in [Profiles -> SaveOf]
  <2>1. ProfileOf(active) \in Profiles
    BY <1>1, Known0 DEF ProfileOf, Online, TabsInv, TabsType, BackendType
  <2>2. QED
    BY <1>7, <2>1, SendSaveIs DEF TabsInv, TabsType
<1>13. TabsType'
  BY <1>6, <1>7, <1>12 DEF TabsInv, TabsType, BackendType, TabType, CallType
<1>14. QED
  BY <1>1, <1>7, <1>9, <1>10, <1>11, <1>13, Frame

\* The offline tab that a profile without a tab is given.
LEMMA CreateStep ==
  ASSUME TabsInv, NEW p \in Profiles, NEW ver \in Vers, TabOf(p) = None, CreateOffline(p, ver),
         owner' = owner
  PROVE  /\ tabs' \in Seq(TabIds) /\ node' \in [TabIds -> Record] /\ active' \in TabIds
         /\ orphaned' = orphaned
         /\ \A c \in Conns : c \in Range(tabs') => c \in Range(tabs) /\ node'[c] = node[c]
         /\ \A c \in Conns : TabOf(owner[c]) = c => (TabOf(owner[c]))' = c
<1> DEFINE out == Range(TabsOf(p))
<1>1. TabType /\ p \in TabIds /\ p \notin Conns /\ tabs \in Seq(TabIds)
  BY Known0 DEF TabsInv, TabsType, TabType
<1>2. out = {}
  BY <1>1, TabOfIs, LastInIs
<1>3. /\ tabs' = Append(Without(out), p) /\ active' = p
      /\ orphaned' = orphaned \cup {c \in out : Online(c) /\ Live(c)}
      /\ node' = Held([node EXCEPT ![p] = Fresh(ver)], (Range(tabs) \ out) \cup {p}, None)
  BY DEF CreateOffline, ReplaceTab
<1> HIDE DEF out
<1>4. Without(out) \in Seq(TabIds) /\ Range(Without(out)) = Range(tabs)
  BY <1>1, <1>2, WithoutIs
<1>5. tabs' \in Seq(TabIds) /\ Range(tabs') = Range(tabs) \cup {p}
  BY <1>1, <1>3, <1>4, RangeAppend, AppendProperties
<1>6. orphaned' = orphaned
  BY <1>2, <1>3
<1> DEFINE records == [node EXCEPT ![p] = Fresh(ver)]
<1>7. records \in [TabIds -> Record] /\ (\A c \in TabIds \ {p} : records[c] = node[c])
  BY <1>1 DEF TabType, Fresh, Record
<1>8. node' = Held(records, (Range(tabs) \ out) \cup {p}, None)
  BY <1>3
<1> HIDE DEF records
<1> DEFINE left == (Range(tabs) \ out) \cup {p}
<1>12. /\ Held(records, left, None) \in [TabIds -> Record]
       /\ \A c \in TabIds : c \in left => Held(records, left, None)[c] = records[c]
  BY <1>7, HeldIs
<1>13. \A c \in Range(tabs) : c \in left
  BY <1>2
<1>14. node' = Held(records, left, None)
  BY <1>8
<1> HIDE DEF left
<1>9. node' \in [TabIds -> Record] /\ (\A c \in Conns : c \in Range(tabs) => node'[c] = node[c])
  <2>1. \A c \in Conns : c \in TabIds \ {p}
    BY <1>1, Known0
  <2>2. QED
    BY <1>7, <1>12, <1>13, <1>14, <2>1
<1>10. ASSUME NEW c \in Conns, TabOf(owner[c]) = c PROVE (TabOf(owner[c]))' = c
  <2>1. PICK q \in Profiles : q = owner[c]
    BY DEF TabsInv, TabsType, BackendType
  <2>2. LastIn(tabs, Kind(owner, q)) = c /\ c # None
    BY <1>10, <2>1, TabOfOwner, Known0
  <2>3. q # p
    BY <2>2, TabOfIs
  <2>4. p \notin Kind(owner, q)
    BY <1>1, <2>3 DEF Kind
  <2>5. LastIn(Without(out), Kind(owner, q)) = c
    BY <1>1, <1>2, <2>2, WithoutIs
  <2>6. LastIn(tabs', Kind(owner, q)) = c
    BY <1>1, <1>3, <1>4, <2>4, <2>5, LastInAppend
  <2>7. QED
    BY <2>1, <2>6, TabOfOwner
<1>11. QED
  BY <1>1, <1>3, <1>5, <1>6, <1>9, <1>10

\* The tab that a profile is shown in.
LEMMA TabOfTab ==
  ASSUME TabsInv, NEW p \in Profiles, TabOf(p) # None
  PROVE  /\ TabOf(p) \in TabIds /\ Shown(TabOf(p)) /\ ProfileOf(TabOf(p)) = p
         /\ Head(TabsOf(p)) \in TabIds /\ Shown(Head(TabsOf(p)))
<1>1. tabs \in Seq(TabIds) /\ Range(tabs) \subseteq TabIds
  BY RangeOfSeq DEF TabsInv, TabsType, TabType
<1>2. TabOf(p) \in Range(tabs) \cap Kind(owner, p)
  BY <1>1, TabOfIs, LastInIs
<1>3. Only(tabs, Kind(owner, p)) # <<>>
  BY TabOfIs DEF LastIn
<1>4. Head(TabsOf(p)) \in Range(tabs)
  BY <1>1, <1>3, TabOfIs, LastInIs
<1>5. QED
  BY <1>1, <1>2, <1>4 DEF Kind, Shown, ProfileOf, Online

LEMMA ClickProfileKeeps == ASSUME TabsInv, Ready, NEW p \in Profiles, ClickProfile(p) PROVE TabsInv'
<1>1. /\ Ready /\ saved[p] \in Vers
      /\ UNCHANGED <<backendVars, listVars, callVars, early, restoreVars>>
  BY DEF ClickProfile, Ready, TabsInv, TabsType, TabType
<1>2. \A k \in Conns : Stays(k)
  BY <1>1 DEF Stays
<1>3. CASE TabOf(p) # None
  <2>1. UNCHANGED <<tabs, node, orphaned>> /\ active' \in TabIds
    BY <1>3, TabOfTab DEF ClickProfile
  <2>2. \A k \in Conns : TabOf(owner[k]) = k => (TabOf(owner[k]))' = k
    BY <1>1, <2>1, TabOfOwner
  <2>3. TabsType'
    BY <1>1, <2>1 DEF TabsInv, TabsType, BackendType, TabType, CallType
  <2>4. QED
    BY <1>1, <1>2, <2>1, <2>2, <2>3, Frame
<1>4. CASE TabOf(p) = None
  <2>1. CreateOffline(p, saved[p])
    BY <1>4 DEF ClickProfile
  <2>2. /\ tabs' \in Seq(TabIds) /\ node' \in [TabIds -> Record] /\ active' \in TabIds
        /\ orphaned' = orphaned
        /\ \A c \in Conns : c \in Range(tabs') => c \in Range(tabs) /\ node'[c] = node[c]
        /\ \A c \in Conns : TabOf(owner[c]) = c => (TabOf(owner[c]))' = c
    BY <1>1, <1>4, <2>1, CreateStep
  <2>3. TabsType'
    BY <1>1, <2>2 DEF TabsInv, TabsType, BackendType, TabType, CallType
  <2>4. QED
    BY <1>1, <1>2, <2>2, <2>3, Frame
<1>5. QED
  BY <1>3, <1>4

LEMMA SavedProfileKeeps == ASSUME TabsInv, NEW p \in Profiles, SavedProfile(p) PROVE TabsInv'
<1>1. Saved(p, "save")
  BY DEF SavedProfile
<1>2. /\ saving' \in [Profiles -> SaveOf] /\ listed' \in SUBSET Profiles
      /\ saved' \in [Profiles -> Vers] /\ saving[p].ver \in Vers /\ Ready
  BY <1>1, SavedIs
<1>3. UNCHANGED <<owner, stored, early, restoreVars, dial, flow, deleting, leaving>>
  BY DEF SavedProfile
<1>4. CASE TabOf(p) = None
  <2>1. CreateOffline(p, saving[p].ver) /\ UNCHANGED <<life, dialed, news>>
    BY <1>4 DEF SavedProfile
  <2>2. /\ tabs' \in Seq(TabIds) /\ node' \in [TabIds -> Record] /\ active' \in TabIds
        /\ orphaned' = orphaned
        /\ \A c \in Conns : c \in Range(tabs') => c \in Range(tabs) /\ node'[c] = node[c]
        /\ \A c \in Conns : TabOf(owner[c]) = c => (TabOf(owner[c]))' = c
    BY <1>2, <1>3, <1>4, <2>1, CreateStep
  <2>3. TabsType'
    BY <1>2, <1>3, <2>1, <2>2 DEF TabsInv, TabsType, BackendType, TabType, CallType
  <2>4. \A k \in Conns : Stays(k)
    BY <2>1 DEF Stays
  <2>5. QED
    BY <1>2, <1>3, <2>2, <2>3, <2>4, Frame
<1>5. CASE TabOf(p) # None
  <2> DEFINE id == Head(TabsOf(p))
             was == IF HasLive(id) THEN Closed(id) ELSE node[id]
             rec == [was EXCEPT !.ver = saving[p].ver]
  <2>1. /\ IF HasLive(id) THEN Cut(id) ELSE UNCHANGED <<life, dialed, news>>
        /\ node' = Put(id, rec) /\ active' = id /\ UNCHANGED <<tabs, orphaned>>
    BY <1>5 DEF SavedProfile
  <2>2. id \in TabIds /\ Shown(id)
    BY <1>5, TabOfTab
  <2> HIDE DEF id
  <2>3. node \in [TabIds -> Record] /\ node[id] \in Record
    BY <2>2 DEF TabsInv, TabsType, TabType
  <2>4. was \in Record /\ (HasLive(id) => was.closed = TRUE /\ was.connected = FALSE)
    BY <2>3 DEF Closed, Record
  <2> HIDE DEF was
  <2>5. rec \in Record /\ rec.closed = was.closed /\ rec.connected = was.connected
    BY <1>2, <2>4 DEF Record
  <2>6. node' = [node EXCEPT ![id] = rec]
    BY <2>1, <2>2 DEF Put
  <2> HIDE DEF rec
  <2>7. node' \in [TabIds -> Record] /\ (\A k \in TabIds \ {id} : node'[k] = node[k]) /\ node'[id] = rec
    BY <2>2, <2>3, <2>5, <2>6
  <2>8. id \in Conns => life[id] # "none" /\ (node[id].closed => ~node[id].connected /\ life[id] = "over")
    BY <2>2, ShownOver
  <2>9. /\ BackendType' /\ \A k \in Conns : Stays(k) \/ Moves(k)
        /\ id \in Conns => life'[id] = "over" /\ rec.closed = TRUE /\ rec.connected = FALSE
    <3>1. CASE HasLive(id)
      <4>1. id \in Conns /\ Cut(id)
        BY <2>1, <3>1 DEF HasLive, Online
      <4>2. QED
        BY <1>3, <2>4, <2>5, <2>8, <3>1, <4>1, CutStep DEF TabsInv, TabsType
    <3>2. CASE ~HasLive(id)
      <4>1. UNCHANGED <<life, dialed, news>> /\ was = node[id]
        BY <2>1, <3>2 DEF was
      <4>2. id \in Conns => node[id].closed = TRUE /\ node[id].connected = FALSE /\ life[id] = "over"
        BY <2>3, <2>8, <3>2 DEF HasLive, Online, Record
      <4>3. BackendType' /\ (\A k \in Conns : Stays(k))
        BY <1>3, <4>1 DEF Stays, BackendType, TabsInv, TabsType
      <4>4. QED
        BY <2>5, <4>1, <4>2, <4>3
    <3>3. QED
      BY <3>1, <3>2
  <2>10. \A k \in Conns : k \in Range(tabs') => k \in Range(tabs) /\
           (node'[k] = node[k] \/ RecordOf(node'[k], life'[k], news'[k], dialed'[k]))
    <3>1. id \in Conns => RecordOf(rec, "over", news'[id], dialed'[id])
      BY <2>9, RecordOver
    <3>2. id \in Conns => RecordOf(node'[id], life'[id], news'[id], dialed'[id])
      BY <2>7, <2>9, <3>1
    <3>3. \A k \in Conns : k \in TabIds
      BY Known0
    <3>4. QED
      BY <2>1, <2>7, <3>2, <3>3
  <2>11. \A k \in Conns : TabOf(owner[k]) = k => (TabOf(owner[k]))' = k
    BY <1>3, <2>1, TabOfOwner
  <2>12. TabsType'
    BY <1>2, <1>3, <2>1, <2>2, <2>7, <2>9 DEF TabsInv, TabsType, TabType, CallType
  <2>13. QED
    BY <1>2, <1>3, <2>1, <2>9, <2>10, <2>11, <2>12, Frame
<1>6. QED
  BY <1>4, <1>5

LEMMA DeletedKeeps == ASSUME TabsInv, NEW p \in Profiles, Deleted(p) PROVE TabsInv'
<1>1. /\ listed' \in SUBSET Profiles
      /\ UNCHANGED <<owner, stored, saved, early, restoreVars, dial, flow, saving, leaving, orphaned>>
  BY DEF Deleted, TabsInv, TabsType, TabType
<1>2. CASE TabOf(p) = None
  <2>1. UNCHANGED <<life, dialed, news, tabs, active, node>>
    BY <1>2 DEF Deleted
  <2>2. TabsType' /\ (\A k \in Conns : Stays(k))
    BY <1>1, <2>1 DEF TabsInv, TabsType, BackendType, TabType, CallType, Stays
  <2>3. \A k \in Conns : TabOf(owner[k]) = k => (TabOf(owner[k]))' = k
    BY <1>1, <2>1, TabOfOwner
  <2>4. QED
    BY <1>1, <2>1, <2>2, <2>3, Frame
<1>3. CASE TabOf(p) # None
  <2>1. PICK id : id = TabOf(p)
    OBVIOUS
  <2>2. /\ id \in TabIds /\ Shown(id) /\ ProfileOf(id) = p
        /\ CloseTab(id) /\ node' = Held(node, Range(tabs) \ {id}, None)
    BY <1>3, <2>1, TabOfTab DEF Deleted
  <2>3. TabType /\ tabs' = Without({id})
    BY <2>2 DEF CloseTab, TabsInv, TabsType
  <2>4. tabs' \in Seq(TabIds) /\ Range(tabs') = Range(tabs) \ {id}
    BY <2>3, WithoutIs
  <2>5. node' \in [TabIds -> Record] /\ (\A k \in TabIds : k \in Range(tabs) \ {id} => node'[k] = node[k])
    BY <2>2, <2>3, HeldIs DEF TabType
  <2>6. active' \in TabIds \cup {None}
    <3>1. Without({id}) # <<>> => Head(Without({id})) \in TabIds
      BY <2>3, <2>4, HeadTailProperties
    <3>2. QED
      BY <2>2, <2>3, <3>1 DEF CloseTab, TabType
  <2>7. /\ BackendType' /\ \A k \in Conns : Stays(k) \/ Moves(k)
        /\ id \in Conns => life'[id] = "over"
    <3>1. CASE id \in Conns
      <4>1. Cut(id) /\ life[id] # "none"
        BY <2>2, <3>1, ShownOver DEF CloseTab, Online
      <4>2. QED
        BY <1>1, <3>1, <4>1, CutStep DEF TabsInv, TabsType
    <3>2. CASE id \notin Conns
      BY <1>1, <2>2, <3>2 DEF CloseTab, Online, BackendType, Stays, TabsInv, TabsType
    <3>3. QED
      BY <3>1, <3>2
  <2>8. ASSUME NEW k \in Conns, life'[k] \in Living, TabOf(owner[k]) = k PROVE (TabOf(owner[k]))' = k
    <3>1. k # id
      BY <2>7, <2>8 DEF Living
    <3>2. PICK q : q = owner[k]
      OBVIOUS
    <3>3. LastIn(tabs, Kind(owner, q)) = k /\ k # None
      BY <2>8, <3>2, TabOfOwner, Known0
    <3>4. LastIn(tabs', Kind(owner, q)) = k
      BY <2>3, <3>1, <3>3, WithoutIs
    <3>5. QED
      BY <1>1, <3>2, <3>4, TabOfOwner
  <2>9. Ready
    <3>1. tabs # <<>>
      BY <2>2, RangeEmpty DEF Shown
    <3>2. QED
      BY <3>1, UnderWay DEF TabsInv
  <2>10. TabsType'
    BY <1>1, <2>4, <2>5, <2>6, <2>7 DEF TabsInv, TabsType, TabType, CallType
  <2>11. \A k \in Conns : k \in Range(tabs') => k \in Range(tabs) /\ node'[k] = node[k]
    BY <2>4, <2>5, Known0
  <2>12. QED
    BY <1>1, <2>7, <2>8, <2>9, <2>10, <2>11, Frame
<1>4. QED
  BY <1>2, <1>3

\* The answer None: no connection is made, and the call is over.
LEMMA Refused ==
  ASSUME TabsInv, EndTabRpc, Ready,
         \/ \E p \in Profiles : dial[p].pc = "dialing" /\ dial[p].got = None
         \/ \E id \in TabIds : flow[id].pc = "dialing" /\ flow[id].got = None
  PROVE  \/ early' = early
         \/ /\ early' = NoEarly
            /\ \A p \in Profiles : dial[p].got = None
            /\ \A id \in TabIds : flow[id].got = None
<1>1. /\ \A p \in Profiles : dial[p].got # None => dial[p].pc = "dialing"
      /\ \A id \in TabIds : flow[id].got # None => flow[id].pc = "dialing"
  BY DEF TabsInv, AnswersTrue, DialsTrue, FlowsTrue
<1>2. /\ early' = early \/ early' = NoEarly
      /\ \A p, q \in Profiles :
            p # q /\ dial[p].pc = "dialing" /\ dial[q].pc = "dialing" => early' = early
      /\ \A i, j \in TabIds :
            i # j /\ flow[i].pc = "dialing" /\ flow[j].pc = "dialing" => early' = early
      /\ \A p \in Profiles, id \in TabIds :
            dial[p].pc = "dialing" /\ flow[id].pc = "dialing" => early' = early
  BY EarlyStays DEF TabsInv, TabsType
<1>3. CASE \E p \in Profiles : dial[p].pc = "dialing" /\ dial[p].got = None
  <2>1. PICK p \in Profiles : dial[p].pc = "dialing" /\ dial[p].got = None
    BY <1>3
  <2>2. \A q \in Profiles : dial[q].got # None => q # p /\ dial[q].pc = "dialing"
    BY <1>1, <2>1
  <2>3. QED
    BY <1>1, <1>2, <2>1, <2>2
<1>4. CASE \E id \in TabIds : flow[id].pc = "dialing" /\ flow[id].got = None
  <2>1. PICK id \in TabIds : flow[id].pc = "dialing" /\ flow[id].got = None
    BY <1>4
  <2>2. \A k \in TabIds : flow[k].got # None => k # id /\ flow[k].pc = "dialing"
    BY <1>1, <2>1
  <2>3. QED
    BY <1>1, <1>2, <2>1, <2>2
<1>5. QED
  BY <1>3, <1>4

\* A profile that is not being connected.
LEMMA IdleIs == Idle \in Connecting /\ Idle.got = None /\ Idle.pc = "idle"
  BY Known0 DEF Idle, Connecting

LEMMA DialRefusedKeeps == ASSUME TabsInv, NEW p \in Profiles, DialRefused(p) PROVE TabsInv'
<1>1. /\ dial[p].pc = "dialing" /\ dial[p].got = None /\ EndTabRpc
      /\ dial' = [dial EXCEPT ![p] = Idle]
      /\ UNCHANGED <<backendVars, listVars, tabVars, restoreVars, flow, saving, deleting, leaving,
                     orphaned>>
  BY DEF DialRefused
<1>2. Ready
  BY <1>1, UnderWay DEF TabsInv
<1>3. \/ early' = early
      \/ /\ early' = NoEarly
         /\ \A q \in Profiles : dial[q].got = None
         /\ \A id \in TabIds : flow[id].got = None
  BY <1>1, <1>2, Refused
<1>4. /\ dial' \in [Profiles -> Connecting] /\ dial'[p].got = None
      /\ \A q \in Profiles \ {p} : dial'[q] = dial[q]
  BY <1>1, IdleIs DEF TabsInv, TabsType, CallType
<1>5. \A q \in Profiles : IF dial[q].got # None THEN dial'[q] = dial[q] ELSE dial'[q].got = None
  BY <1>1, <1>4
<1>6. early' \in [Conns -> EarlyStates]
  BY <1>3 DEF NoEarly, EarlyStates, TabsInv, TabsType, TabType
<1>7. TabsType'
  BY <1>1, <1>4, <1>6 DEF TabsInv, TabsType, BackendType, TabType, CallType
<1>8. \A k \in Conns : Stays(k) /\ (TabOf(owner[k]) = k => (TabOf(owner[k]))' = k)
  BY <1>1, TabOfOwner DEF Stays
<1>9. QED
  BY <1>1, <1>2, <1>3, <1>5, <1>7, <1>8, Frame

\* A handleReconnect that ends lets go of the record it held.
LEMMA FlowEnds ==
  ASSUME TabsInv, NEW id \in TabIds, flow[id].got = None, flow[id].pc # "idle",
         flow' = [flow EXCEPT ![id] = Idle], node' = Held(node, Range(tabs), id),
         UNCHANGED <<backendVars, listVars, tabs, active, last, restoreVars, dial, saving,
                     deleting, leaving, orphaned>>,
         \/ early' = early
         \/ /\ early' = NoEarly
            /\ \A q \in Profiles : dial[q].got = None
            /\ \A k \in TabIds : flow[k].got = None
  PROVE  TabsInv'
<1>1. Ready
  BY UnderWay DEF TabsInv
<1>2. /\ flow' \in [TabIds -> Connecting] /\ flow'[id].got = None /\ flow'[id].pc = "idle"
      /\ \A k \in TabIds \ {id} : flow'[k] = flow[k]
  BY IdleIs DEF TabsInv, TabsType, CallType
<1>3. \A k \in TabIds : IF flow[k].got # None THEN flow'[k] = flow[k] ELSE flow'[k].got = None
  BY <1>2
<1>4. \A k \in Conns : k \in TabIds
  BY Known0
<1>5. \A k \in Conns : flow'[k].pc # "idle" => flow[k].pc # "idle"
  BY <1>2, <1>4
<1>6. node \in [TabIds -> Record]
  BY DEF TabsInv, TabsType, TabType
<1>7. /\ Held(node, Range(tabs), id) \in [TabIds -> Record]
      /\ \A k \in TabIds : k \in Range(tabs) => Held(node, Range(tabs), id)[k] = node[k]
  BY <1>6, HeldIs
<1>8. /\ node' \in [TabIds -> Record] /\ tabs' = tabs
      /\ \A k \in Conns : k \in Range(tabs) => node'[k] = node[k]
  BY <1>4, <1>7
<1>9. early' \in [Conns -> EarlyStates]
  BY DEF NoEarly, EarlyStates, TabsInv, TabsType, TabType
<1>10. TabsType'
  BY <1>2, <1>8, <1>9 DEF TabsInv, TabsType, BackendType, TabType, CallType
<1>11. \A k \in Conns : Stays(k) /\ (TabOf(owner[k]) = k => (TabOf(owner[k]))' = k)
  BY TabOfOwner DEF Stays
<1>12. QED
  BY <1>1, <1>3, <1>5, <1>8, <1>10, <1>11, Frame

LEMMA ReconnectRefusedKeeps == ASSUME TabsInv, NEW id \in TabIds, ReconnectRefused(id) PROVE TabsInv'
<1>1. /\ flow[id].pc = "dialing" /\ flow[id].got = None /\ EndTabRpc
      /\ flow' = [flow EXCEPT ![id] = Idle] /\ node' = Held(node, Range(tabs), id)
      /\ UNCHANGED <<backendVars, listVars, tabs, active, last, restoreVars, dial, saving,
                     deleting, leaving, orphaned>>
  BY DEF ReconnectRefused
<1>2. Ready
  BY <1>1, UnderWay DEF TabsInv
<1>3. QED
  BY <1>1, <1>2, Refused, FlowEnds

LEMMA RowsDoneKeeps == ASSUME TabsInv, NEW id \in TabIds, RowsDone(id) PROVE TabsInv'
<1>1. /\ flow[id].pc = "rows"
      /\ flow' = [flow EXCEPT ![id] = Idle] /\ node' = Held(node, Range(tabs), id)
      /\ UNCHANGED <<backendVars, listVars, tabs, active, last, early, restoreVars, dial, saving,
                     deleting, leaving, orphaned>>
  BY DEF RowsDone
<1>2. flow[id].got = None
  BY <1>1 DEF TabsInv, AnswersTrue, FlowsTrue
<1>3. QED
  BY <1>1, <1>2, FlowEnds

\* handleReconnect of an online tab: its connection is cut first.
LEMMA CuttingKeeps ==
  ASSUME TabsInv, NEW id \in Conns, Shown(id), NEW ver \in Vers, Ready,
         flow[id].pc = "idle", Cut(id),
         flow' = [flow EXCEPT ![id] = [pc |-> "cutting", ver |-> ver, got |-> None]],
         UNCHANGED <<owner, tabVars, early, restoreVars, dial, leaving, orphaned>>,
         saving' \in [Profiles -> SaveOf], listed' \in SUBSET Profiles,
         saved' \in [Profiles -> Vers]
  PROVE  TabsInv'
<1>1. /\ BackendType' /\ life'[id] = "over"
      /\ \A k \in Conns : Stays(k) \/ Moves(k)
  BY ShownOver, CutStep DEF TabsInv, TabsType
<1>2. id \in TabIds /\ flow \in [TabIds -> Connecting] /\ flow[id].got = None
  BY Known0 DEF TabsInv, TabsType, CallType, AnswersTrue, FlowsTrue
<1>3. [pc |-> "cutting", ver |-> ver, got |-> None] \in Connecting
  BY DEF Connecting
<1>4. /\ flow' \in [TabIds -> Connecting] /\ flow'[id].got = None
      /\ \A k \in TabIds \ {id} : flow'[k] = flow[k]
  BY <1>2, <1>3
<1>5. \A k \in TabIds : IF flow[k].got # None THEN flow'[k] = flow[k] ELSE flow'[k].got = None
  BY <1>2, <1>4
<1>6. \A k \in Conns : flow'[k].pc # "idle" => flow[k].pc # "idle" \/ life'[k] = "over"
  BY <1>1, <1>4, Known0
<1>7. TabsType'
  BY <1>1, <1>4 DEF TabsInv, TabsType, TabType, CallType
<1>8. (\A k \in Conns : TabOf(owner[k]) = k => (TabOf(owner[k]))' = k)
  BY TabOfOwner
<1>9. QED
  BY <1>1, <1>5, <1>6, <1>7, <1>8, Frame
-----------------------------------------------------------------------------
(* Steps that make a connection.                                           *)

\* What a call to connect leaves as it was, and what it owes.
LEMMA BornStep ==
  ASSUME TabsInv, NEW q \in Profiles, NEW ver \in Vers, NEW c, DialFor(q, ver, c), news' = news,
         UNCHANGED <<tabs, node, early>>
  PROVE  /\ BackendType' /\ NewsTrue' /\ RecordTrue' /\ c \in Conns \cup {None}
         /\ \A k \in Conns : life[k] = "over" => life'[k] = "over"
         /\ \A k, v : Owed(k, v) => k # c /\ owner'[k] = owner[k] /\ Owed(k, v)'
         /\ c # None => owner'[c] = q /\ Owed(c, ver)'
         /\ \A k \in Conns : life'[k] \in Living /\ k # c => life[k] \in Living
         /\ \A k \in Conns : TabOf(owner[k]) = k => (TabOf(owner[k]))' = k
<1>1. /\ BackendType' /\ c \in Conns \cup {None}
      /\ c # None => Born(c) /\ owner'[c] = q /\ dialed'[c] = ver /\ c \in Conns
      /\ \A k \in Conns \ {c} : Stays(k) /\ owner'[k] = owner[k]
  BY DialStep DEF TabsInv, TabsType
<1>2. \A k \in Conns : NewsOf(news[k], life[k], early[k])
  BY DEF TabsInv, NewsTrue
<1>3. c # None => /\ NewsOf(news'[c], life'[c], early[c])
                  /\ \A v : dialed'[c] = v => Owing(early[c], life'[c], news'[c], dialed'[c], v)
                  /\ life[c] = "none" /\ life'[c] = "dialing"
  BY <1>1, <1>2, ConnBorn DEF Born
<1>4. NewsTrue'
  <2>1. \A k \in Conns : NewsOf(news'[k], life'[k], early'[k])
    BY <1>1, <1>2, <1>3, Known0 DEF Stays
  <2>2. QED
    BY <2>1 DEF NewsTrue
<1>5. \A k \in Conns : k \in Range(tabs) => k # c /\ RecordOf(node[k], life[k], news[k], dialed[k])
  BY <1>1, <1>3, Known0 DEF TabsInv, RecordTrue, RecordOf, Shown
<1>6. RecordTrue'
  BY <1>1, <1>5 DEF RecordTrue, Shown, Stays
<1>7. ASSUME NEW k, NEW v, Owed(k, v) PROVE k # c /\ owner'[k] = owner[k] /\ Owed(k, v)'
  <2>1. /\ k \in Conns /\ k \notin Range(tabs)
        /\ Owing(early[k], life[k], news[k], dialed[k], v) /\ life[k] # "none"
    BY <1>7 DEF Owed, Owing, Shown
  <2>2. k # c
    BY <1>1, <1>3, <2>1, Known0
  <2>3. Owing(early'[k], life'[k], news'[k], dialed'[k], v)
    BY <1>1, <2>1, <2>2 DEF Stays
  <2>4. Owed(k, v)'
    BY <2>1, <2>3 DEF Owed, Shown
  <2>5. QED
    BY <1>1, <2>1, <2>2, <2>4
<1>8. c # None => owner'[c] = q /\ Owed(c, ver)'
  BY <1>1, <1>3, <1>5 DEF Owed, Shown
<1>9. ASSUME NEW k \in Conns, TabOf(owner[k]) = k PROVE (TabOf(owner[k]))' = k
  <2>1. PICK p : p = owner[k]
    OBVIOUS
  <2>2. tabs \in Seq(TabIds) /\ LastIn(tabs, Kind(owner, p)) = k /\ k # None
    BY <1>9, <2>1, TabOfOwner, Known0 DEF TabsInv, TabsType, TabType
  <2>3. k \in Range(tabs)
    BY <2>2, LastInIs
  <2>4. \A x \in Conns : x \in Range(tabs) => owner'[x] = owner[x]
    BY <1>1, <1>5
  <2>5. LastIn(tabs, Kind(owner', p)) = k
    BY <2>2, <2>4, LastInOwner
  <2>6. owner'[k] = p
    BY <2>1, <2>3, <2>4
  <2>7. QED
    BY <2>5, <2>6, TabOfOwner
<1>10. \A k \in Conns : /\ life[k] = "over" => life'[k] = "over"
                        /\ life'[k] \in Living /\ k # c => life[k] \in Living
  BY <1>1, <1>3, Known0 DEF Stays
<1>11. QED
  BY <1>1, <1>4, <1>6, <1>7, <1>8, <1>9, <1>10

\* handleReconnect connects.
LEMMA FlowDials ==
  ASSUME TabsInv, NEW id \in TabIds, NEW q \in Profiles, NEW ver \in Vers, NEW c,
         DialFor(q, ver, c), flow[id].got = None, id \in Conns => life[id] = "over",
         flow' = [flow EXCEPT ![id] = [pc |-> "dialing", ver |-> ver, got |-> c]],
         UNCHANGED <<news, tabVars, early, restoreVars, dial, leaving, orphaned>>,
         Ready, saving' \in [Profiles -> SaveOf], listed' \in SUBSET Profiles,
         saved' \in [Profiles -> Vers]
  PROVE  TabsInv'
<1>1. /\ BackendType' /\ NewsTrue' /\ RecordTrue' /\ c \in Conns \cup {None}
      /\ \A k \in Conns : life[k] = "over" => life'[k] = "over"
      /\ \A k, v : Owed(k, v) => k # c /\ owner'[k] = owner[k] /\ Owed(k, v)'
      /\ c # None => owner'[c] = q /\ Owed(c, ver)'
      /\ \A k \in Conns : life'[k] \in Living /\ k # c => life[k] \in Living
      /\ \A k \in Conns : TabOf(owner[k]) = k => (TabOf(owner[k]))' = k
  BY BornStep
<1>2. [pc |-> "dialing", ver |-> ver, got |-> c] \in Connecting
  BY <1>1 DEF Connecting
<1>3. /\ flow' \in [TabIds -> Connecting]
      /\ flow'[id].got = c /\ flow'[id].pc = "dialing" /\ flow'[id].ver = ver
      /\ \A k \in TabIds \ {id} : flow'[k] = flow[k]
  BY <1>2 DEF TabsInv, TabsType, CallType
<1>4. TabsType'
  BY <1>1, <1>3 DEF TabsInv, TabsType, TabType, CallType
<1>5. ASSUME NEW p \in Profiles, dial[p].got # None
      PROVE  /\ dial[p].got # c /\ dial[p].pc = "dialing" /\ owner'[dial[p].got] = p
             /\ \A k, v : k = dial[p].got /\ v = dial[p].ver => Owed(k, v)'
  <2>1. dial[p].pc = "dialing" /\ owner[dial[p].got] = p /\ Owed(dial[p].got, dial[p].ver)
    BY <1>5 DEF TabsInv, AnswersTrue, DialsTrue
  <2>2. QED
    BY <1>1, <2>1
<1>6. ASSUME NEW k \in TabIds, k # id, flow[k].got # None
      PROVE  /\ flow[k].got # c /\ flow[k].pc = "dialing"
             /\ \A x, v : x = flow[k].got /\ v = flow[k].ver => Owed(x, v)'
  <2>1. flow[k].pc = "dialing" /\ Owed(flow[k].got, flow[k].ver)
    BY <1>6 DEF TabsInv, AnswersTrue, FlowsTrue
  <2>2. QED
    BY <1>1, <2>1
<1>7. DialsTrue'
  <2>1. \A p, r \in Profiles : dial[p].got # None /\ dial[p].got = dial[r].got => p = r
    BY DEF TabsInv, AnswersTrue, DialsTrue
  <2>2. ASSUME NEW p \in Profiles, dial[p].got # None PROVE Owed(dial[p].got, dial[p].ver)'
    BY <1>5, <2>2 DEF Owed
  <2>3. QED
    BY <1>5, <2>1, <2>2 DEF DialsTrue
<1>8. FlowsTrue'
  <2>1. ASSUME NEW k \in TabIds, flow'[k].got # None
        PROVE  flow'[k].pc = "dialing" /\ \A x, v : x = flow'[k].got /\ v = flow'[k].ver => Owed(x, v)'
    BY <1>1, <1>3, <1>6, <2>1
  <2>2. ASSUME NEW k \in TabIds, flow'[k].got # None PROVE Owed(flow[k].got, flow[k].ver)'
    BY <2>1, <2>2 DEF Owed
  <2>3. \A i, j \in TabIds : flow'[i].got # None /\ flow'[i].got = flow'[j].got => i = j
    BY <1>3, <1>6 DEF TabsInv, AnswersTrue, FlowsTrue
  <2>4. QED
    BY <2>1, <2>2, <2>3 DEF FlowsTrue
<1>9. \A p \in Profiles, k \in TabIds : dial'[p].got # None => dial'[p].got # flow'[k].got
  BY <1>3, <1>5 DEF TabsInv, AnswersTrue
<1>10. AnswersTrue'
  BY <1>7, <1>8, <1>9 DEF AnswersTrue
<1>11. CutTrue'
  <2>1. \A k \in Conns : k \in TabIds
    BY Known0
  <2>2. QED
    BY <1>1, <1>3, <2>1 DEF CutTrue, TabsInv
<1>12. FirstTrue'
  BY DEF FirstTrue
<1>13. ReachTrue'
  <2>1. SUFFICES ASSUME NEW k \in Conns, life'[k] \in Living PROVE Known(k)'
    BY DEF ReachTrue, Live, Living
  <2>2. CASE k = c
    <3>1. Awaited(k)'
      BY <1>3, <2>2 DEF Awaited
    <3>2. QED
      BY <3>1 DEF Known
  <2>3. CASE k # c
    <3>1. Known(k) /\ k # None
      BY <1>1, <2>1, <2>3, Known0 DEF TabsInv, ReachTrue, Ready, Live, Living
    <3>2. Awaited(k) => Awaited(k)'
      BY <1>3, <3>1 DEF Awaited
    <3>3. QED
      BY <1>1, <3>1, <3>2 DEF Known
  <2>4. QED
    BY <2>2, <2>3
<1>14. QED
  BY <1>1, <1>4, <1>10, <1>11, <1>12, <1>13 DEF TabsInv

\* handleConnect connects.
LEMMA Dials ==
  ASSUME TabsInv, NEW p \in Profiles, NEW ver \in Vers, NEW c,
         DialFor(p, ver, c), dial[p].got = None,
         dial' = [dial EXCEPT ![p] = [pc |-> "dialing", ver |-> ver, got |-> c]],
         UNCHANGED <<news, tabVars, early, restoreVars, flow, leaving, orphaned>>,
         Ready, saving' \in [Profiles -> SaveOf], listed' \in SUBSET Profiles,
         saved' \in [Profiles -> Vers]
  PROVE  TabsInv'
<1>1. /\ BackendType' /\ NewsTrue' /\ RecordTrue' /\ c \in Conns \cup {None}
      /\ \A k \in Conns : life[k] = "over" => life'[k] = "over"
      /\ \A k, v : Owed(k, v) => k # c /\ owner'[k] = owner[k] /\ Owed(k, v)'
      /\ c # None => owner'[c] = p /\ Owed(c, ver)'
      /\ \A k \in Conns : life'[k] \in Living /\ k # c => life[k] \in Living
      /\ \A k \in Conns : TabOf(owner[k]) = k => (TabOf(owner[k]))' = k
  BY BornStep
<1>2. [pc |-> "dialing", ver |-> ver, got |-> c] \in Connecting
  BY <1>1 DEF Connecting
<1>3. /\ dial' \in [Profiles -> Connecting]
      /\ dial'[p].got = c /\ dial'[p].pc = "dialing" /\ dial'[p].ver = ver
      /\ \A r \in Profiles \ {p} : dial'[r] = dial[r]
  BY <1>2 DEF TabsInv, TabsType, CallType
<1>4. TabsType'
  BY <1>1, <1>3 DEF TabsInv, TabsType, TabType, CallType
<1>5. ASSUME NEW r \in Profiles, r # p, dial[r].got # None
      PROVE  /\ dial[r].got # c /\ dial[r].pc = "dialing" /\ owner'[dial[r].got] = r
             /\ \A k, v : k = dial[r].got /\ v = dial[r].ver => Owed(k, v)'
  <2>1. dial[r].pc = "dialing" /\ owner[dial[r].got] = r /\ Owed(dial[r].got, dial[r].ver)
    BY <1>5 DEF TabsInv, AnswersTrue, DialsTrue
  <2>2. QED
    BY <1>1, <2>1
<1>6. ASSUME NEW k \in TabIds, flow[k].got # None
      PROVE  /\ flow[k].got # c /\ flow[k].pc = "dialing"
             /\ \A x, v : x = flow[k].got /\ v = flow[k].ver => Owed(x, v)'
  <2>1. flow[k].pc = "dialing" /\ Owed(flow[k].got, flow[k].ver)
    BY <1>6 DEF TabsInv, AnswersTrue, FlowsTrue
  <2>2. QED
    BY <1>1, <2>1
<1>7. DialsTrue'
  <2>1. ASSUME NEW r \in Profiles, dial'[r].got # None
        PROVE  /\ dial'[r].pc = "dialing" /\ owner'[dial'[r].got] = r
               /\ \A k, v : k = dial'[r].got /\ v = dial'[r].ver => Owed(k, v)'
    BY <1>1, <1>3, <1>5, <2>1
  <2>2. ASSUME NEW r \in Profiles, dial'[r].got # None PROVE Owed(dial[r].got, dial[r].ver)'
    BY <2>1, <2>2 DEF Owed
  <2>3. \A q, r \in Profiles : dial'[q].got # None /\ dial'[q].got = dial'[r].got => q = r
    BY <1>3, <1>5 DEF TabsInv, AnswersTrue, DialsTrue
  <2>4. QED
    BY <2>1, <2>2, <2>3 DEF DialsTrue
<1>8. FlowsTrue'
  <2>1. \A i, j \in TabIds : flow[i].got # None /\ flow[i].got = flow[j].got => i = j
    BY DEF TabsInv, AnswersTrue, FlowsTrue
  <2>2. ASSUME NEW k \in TabIds, flow[k].got # None PROVE Owed(flow[k].got, flow[k].ver)'
    BY <1>6, <2>2 DEF Owed
  <2>3. QED
    BY <1>6, <2>1, <2>2 DEF FlowsTrue
<1>9. \A r \in Profiles, k \in TabIds : dial'[r].got # None => dial'[r].got # flow'[k].got
  BY <1>3, <1>6 DEF TabsInv, AnswersTrue
<1>10. AnswersTrue'
  BY <1>7, <1>8, <1>9 DEF AnswersTrue
<1>11. CutTrue'
  BY <1>1 DEF CutTrue, TabsInv
<1>12. FirstTrue'
  BY DEF FirstTrue
<1>13. ReachTrue'
  <2>1. SUFFICES ASSUME NEW k \in Conns, life'[k] \in Living PROVE Known(k)'
    BY DEF ReachTrue, Live, Living
  <2>2. CASE k = c
    <3>1. Awaited(k)'
      BY <1>3, <2>2 DEF Awaited
    <3>2. QED
      BY <3>1 DEF Known
  <2>3. CASE k # c
    <3>1. Known(k) /\ k # None
      BY <1>1, <2>1, <2>3, Known0 DEF TabsInv, ReachTrue, Ready, Live, Living
    <3>2. Awaited(k) => Awaited(k)'
      BY <1>3, <3>1 DEF Awaited
    <3>3. QED
      BY <1>1, <3>1, <3>2 DEF Known
  <2>4. QED
    BY <2>2, <2>3
<1>14. QED
  BY <1>1, <1>4, <1>10, <1>11, <1>12, <1>13 DEF TabsInv

\* A connection or none: what DialFor may answer.
LEMMA StartReconnectKeeps ==
  ASSUME TabsInv, NEW id \in TabIds, CanReconnect(id), NEW ver \in Vers, StartReconnect(id, ver),
         Ready, UNCHANGED <<tabVars, early, restoreVars, dial, leaving, orphaned>>,
         saving' \in [Profiles -> SaveOf], listed' \in SUBSET Profiles,
         saved' \in [Profiles -> Vers]
  PROVE  TabsInv'
<1>1. Shown(id) /\ flow[id].pc = "idle" /\ flow[id].got = None
  BY DEF CanReconnect, TabsInv, AnswersTrue, FlowsTrue
<1>2. CASE id \in Conns
  BY <1>1, <1>2, CuttingKeeps DEF StartReconnect, Online
<1>3. CASE id \notin Conns
  <2>1. PICK c \in Conns \cup {None} :
           /\ DialFor(id, ver, c)
           /\ flow' = [flow EXCEPT ![id] = [pc |-> "dialing", ver |-> ver, got |-> c]]
           /\ UNCHANGED <<news, stored>>
    BY <1>3 DEF StartReconnect, Online
  <2>2. id \in Profiles
    BY <1>3, Known0
  <2>3. QED
    BY <1>1, <1>3, <2>1, <2>2, FlowDials
<1>4. QED
  BY <1>2, <1>3

LEMMA ClickConnectKeeps == ASSUME TabsInv, Ready, ClickConnect PROVE TabsInv'
<1>1. /\ active \in TabIds /\ CanReconnect(active) /\ Ready
      /\ StartReconnect(active, node[active].ver)
      /\ UNCHANGED <<listVars, tabVars, early, restoreVars, dial, saving, deleting, leaving, orphaned>>
  BY DEF ClickConnect, OffersConnect, OnActive, MayAct, Ready, TabsInv, TabsType, TabType
<1>2. node[active].ver \in Vers
  BY <1>1 DEF TabsInv, TabsType, TabType, Record
<1>3. saving' \in [Profiles -> SaveOf] /\ listed' \in SUBSET Profiles /\ saved' \in [Profiles -> Vers]
  BY <1>1 DEF TabsInv, TabsType, TabType, CallType
<1>4. QED
  BY <1>1, <1>2, <1>3, StartReconnectKeeps

LEMMA SavedThenReconnectKeeps ==
  ASSUME TabsInv, NEW p \in Profiles, SavedThenReconnect(p) PROVE TabsInv'
<1>1. /\ Saved(p, "connect") /\ TabOf(p) # None
      /\ UNCHANGED <<tabVars, early, restoreVars, dial, deleting, leaving, orphaned>>
  BY DEF SavedThenReconnect
<1>2. /\ saving' \in [Profiles -> SaveOf] /\ listed' \in SUBSET Profiles
      /\ saved' \in [Profiles -> Vers] /\ saving[p].ver \in Vers /\ Ready
  BY <1>1, SavedIs
<1>3. CASE CanReconnect(TabOf(p))
  <2>1. PICK id : id = TabOf(p)
    OBVIOUS
  <2>2. id \in TabIds /\ CanReconnect(id) /\ StartReconnect(id, saving[p].ver)
    BY <1>1, <1>3, <2>1, TabOfTab DEF SavedThenReconnect
  <2>3. QED
    BY <1>1, <1>2, <2>2, StartReconnectKeeps
<1>4. CASE ~CanReconnect(TabOf(p))
  <2>1. UNCHANGED <<backendVars, flow>>
    BY <1>4 DEF SavedThenReconnect
  <2>2. QED
    BY <1>1, <1>2, <2>1, CallsKeep
<1>5. QED
  BY <1>3, <1>4

LEMMA SavedThenConnectKeeps ==
  ASSUME TabsInv, NEW p \in Profiles, SavedThenConnect(p) PROVE TabsInv'
<1>1. /\ Saved(p, "connect")
      /\ UNCHANGED <<news, stored, tabVars, early, restoreVars, flow, deleting, leaving, orphaned>>
  BY DEF SavedThenConnect
<1>2. /\ saving' \in [Profiles -> SaveOf] /\ listed' \in SUBSET Profiles
      /\ saved' \in [Profiles -> Vers] /\ saving[p].ver \in Vers /\ Ready
  BY <1>1, SavedIs
<1>3. CASE dial[p].pc = "idle"
  <2>1. PICK c \in Conns \cup {None} :
           /\ DialFor(p, saving[p].ver, c)
           /\ dial' = [dial EXCEPT ![p] = [pc |-> "dialing", ver |-> saving[p].ver, got |-> c]]
    BY <1>3 DEF SavedThenConnect
  <2>2. dial[p].got = None
    BY <1>3 DEF TabsInv, AnswersTrue, DialsTrue
  <2>3. PICK ver \in Vers : ver = saving[p].ver
    BY <1>2
  <2>4. /\ DialFor(p, ver, c)
        /\ dial' = [dial EXCEPT ![p] = [pc |-> "dialing", ver |-> ver, got |-> c]]
    BY <2>1, <2>3
  <2>5. QED
    BY <1>1, <1>2, <2>2, <2>4, Dials
<1>4. CASE dial[p].pc # "idle"
  <2>1. UNCHANGED <<life, owner, dialed, dial>>
    BY <1>4 DEF SavedThenConnect
  <2>2. QED
    BY <1>1, <1>2, <2>1, CallsKeep
<1>5. QED
  BY <1>3, <1>4

LEMMA CutAnsweredKeeps == ASSUME TabsInv, NEW id \in TabIds, CutAnswered(id) PROVE TabsInv'
<1>1. PICK c \in Conns \cup {None} :
         /\ DialFor(ProfileOf(id), flow[id].ver, c)
         /\ flow' = [flow EXCEPT ![id] = [pc |-> "dialing", ver |-> @.ver, got |-> c]]
  BY DEF CutAnswered
<1>2. /\ flow[id].pc = "cutting"
      /\ UNCHANGED <<news, stored, listVars, tabVars, early, restoreVars, dial, saving, deleting,
                     leaving, orphaned>>
  BY DEF CutAnswered
<1>3. flow[id] \in Connecting /\ flow[id].got = None /\ Ready
  BY <1>2, UnderWay DEF TabsInv, TabsType, CallType, AnswersTrue, FlowsTrue
<1>4. PICK ver \in Vers, q \in Profiles : ver = flow[id].ver /\ q = ProfileOf(id)
  BY <1>3, Known0 DEF Connecting, ProfileOf, Online, TabsInv, TabsType, BackendType
<1>6. flow' = [flow EXCEPT ![id] = [pc |-> "dialing", ver |-> ver, got |-> c]]
  BY <1>1, <1>4 DEF TabsInv, TabsType, CallType
<1>7. id \in Conns => life[id] = "over"
  BY <1>2 DEF TabsInv, CutTrue
<1>8. saving' \in [Profiles -> SaveOf] /\ listed' \in SUBSET Profiles /\ saved' \in [Profiles -> Vers]
  BY <1>2 DEF TabsInv, TabsType, TabType, CallType
<1>9. DialFor(q, ver, c)
  BY <1>1, <1>4
<1>10. QED
  BY <1>2, <1>3, <1>6, <1>7, <1>8, <1>9, FlowDials
-----------------------------------------------------------------------------
(* Events.                                                                 *)

\* Where no call that makes tabs is under way, none is counted.
LEMMA NoRpcs ==
  ASSUME CallType, restore = "start", \A p \in Profiles : dial[p] = Idle,
         \A id \in TabIds : flow[id] = Idle
  PROVE  TabRpcs = 0
<1>1. \A p \in Profiles : dial[p].pc # "dialing"
  BY IdleIs
<1>2. \A id \in TabIds : flow[id].pc # "dialing"
  BY IdleIs
<1>3. {p \in Profiles : dial[p].pc = "dialing"} = {} /\ {id \in TabIds : flow[id].pc = "dialing"} = {}
  BY <1>1, <1>2
<1>4. Cardinality({}) = 0
  BY FS_EmptySet
<1>5. QED
  BY <1>3, <1>4 DEF TabRpcs

\* The news is one event shorter, and what it says is in the tab or kept.
LEMMA HearStep ==
  ASSUME TabsInv, NEW c \in Conns, NEW event \in Events, Deliver(c, event),
         node' \in [TabIds -> Record], \A k \in TabIds \ {c} : node'[k] = node[k],
         Shown(c) => RecordOf(node'[c], life[c], Tail(news[c]), dialed[c])
  PROVE  TabsInv'
<1>1. /\ news[c] # <<>> /\ Head(news[c]) = event
      /\ news' = [news EXCEPT ![c] = Tail(@)] /\ RememberEarly(c, event)
      /\ UNCHANGED <<life, owner, dialed, stored, listVars, tabs, active, last, callVars,
                     restoreVars, orphaned>>
  BY DEF Deliver
<1>2. news \in [Conns -> Seq(Events)] /\ news[c] \in Seq(Events) /\ NewsOf(news[c], life[c], early[c])
  BY DEF TabsInv, TabsType, BackendType, NewsTrue
<1>3. life[c] # "none"
  BY <1>1, <1>2 DEF NewsOf, Says
<1>4. /\ Tail(news[c]) \in Seq(Events) /\ NewsOf(Tail(news[c]), life[c], early'[c])
      /\ Tail(news[c]) = <<>> => Says(event, life[c])
      /\ event = "closed" => life[c] = "over"
  BY <1>1, <1>2, <1>3, NewsTail
<1>5. /\ news' \in [Conns -> Seq(Events)] /\ news'[c] = Tail(news[c])
      /\ \A k \in Conns \ {c} : news'[k] = news[k]
  BY <1>1, <1>2, <1>4
<1>6. early' = IF TabRpcs = 0 \/ Shown(c) THEN early ELSE [early EXCEPT ![c] = event]
  BY <1>1 DEF RememberEarly
<1>7. /\ early' \in [Conns -> EarlyStates]
      /\ \A k \in Conns \ {c} : early'[k] = early[k]
      /\ TabRpcs # 0 /\ ~Shown(c) => early'[c] = event
      /\ early'[c] = early[c] \/ early'[c] = event
  BY <1>6 DEF TabsInv, TabsType, TabType, EarlyStates, Events
<1>8. TabsType'
  BY <1>1, <1>5, <1>7 DEF TabsInv, TabsType, BackendType, TabType, CallType
<1>9. NewsTrue'
  <2>1. \A k \in Conns : NewsOf(news'[k], life'[k], early'[k])
    BY <1>1, <1>4, <1>5, <1>7 DEF TabsInv, NewsTrue
  <2>2. QED
    BY <2>1 DEF NewsTrue
<1>10. RecordTrue'
  <2>1. \A k \in Conns : k \in TabIds
    BY Known0
  <2>2. \A k \in Conns : k \in Range(tabs) => RecordOf(node'[k], life'[k], news'[k], dialed'[k])
    BY <1>1, <1>5, <2>1 DEF TabsInv, RecordTrue, Shown
  <2>3. QED
    BY <1>1, <2>2 DEF RecordTrue, Shown
<1>11. EarlyOf(event, life[c], Tail(news[c]))
  BY <1>4 DEF EarlyOf
<1>12. ASSUME NEW k, NEW ver, Owed(k, ver), TabRpcs # 0 PROVE Owed(k, ver)'
  <2>1. /\ k \in Conns /\ k \notin Range(tabs) /\ k \notin Range(tabs')
        /\ Owing(early[k], life[k], news[k], dialed[k], ver)
    BY <1>1, <1>12 DEF Owed, Shown
  <2>2. Owing(early'[k], life'[k], news'[k], dialed'[k], ver)
    <3>1. CASE k = c
      <4>1. early'[c] = event /\ event # None
        BY <1>7, <1>12, <2>1, <3>1, Known0 DEF Shown
      <4>2. QED
        BY <1>1, <1>5, <1>11, <2>1, <3>1, <4>1 DEF Owing
    <3>2. CASE k # c
      BY <1>1, <1>5, <1>7, <2>1, <3>2
    <3>3. QED
      BY <3>1, <3>2
  <2>3. QED
    BY <2>1, <2>2 DEF Owed, Shown
<1>13. AnswersTrue'
  <2>1. CallType
    BY DEF TabsInv, TabsType
  <2>2. \A p \in Profiles : dial[p].got # None => TabRpcs # 0
    BY <2>1, Rpcs DEF TabsInv, AnswersTrue, DialsTrue
  <2>3. \A id \in TabIds : flow[id].got # None => TabRpcs # 0
    BY <2>1, Rpcs DEF TabsInv, AnswersTrue, FlowsTrue
  <2>4. \A p \in Profiles : dial'[p].got # None =>
            /\ owner'[dial[p].got] = owner[dial[p].got]
            /\ \A k, ver : k = dial[p].got /\ Owed(k, ver) => Owed(k, ver)'
    BY <1>1, <1>12, <2>2
  <2>5. \A id \in TabIds : flow'[id].got # None =>
            \A k, ver : k = flow[id].got /\ Owed(k, ver) => Owed(k, ver)'
    BY <1>1, <1>12, <2>3
  <2>6. /\ dial \in [Profiles -> Connecting] /\ flow \in [TabIds -> Connecting]
        /\ \A p \in Profiles : dial'[p] = dial[p] \/ dial'[p].got = None
        /\ \A id \in TabIds : flow'[id] = flow[id] \/ flow'[id].got = None
    BY <1>1, <2>1 DEF CallType
  <2>7. QED
    BY <2>4, <2>5, <2>6, AnswersKept DEF TabsInv
<1>14. CutTrue'
  BY <1>1 DEF TabsInv, CutTrue
<1>15. FirstTrue'
  <2>1. CASE Ready
    BY <1>1, <2>1 DEF FirstTrue
  <2>2. CASE ~Ready
    <3>1. /\ tabs = <<>> /\ (\A p \in Profiles : dial[p] = Idle) /\ (\A id \in TabIds : flow[id] = Idle)
          /\ restore = "start" => early = NoEarly
          /\ \A k \in Conns : EarlyOf(early[k], life[k], news[k])
          /\ CallType /\ ~Shown(c)
      BY <2>2, RangeEmpty DEF TabsInv, FirstTrue, TabsType, Shown
    <3>2. restore = "start" => early' = NoEarly
      BY <1>6, <3>1, NoRpcs
    <3>3. restore # "start" => early'[c] = event
      BY <1>7, <2>2, <3>1, Rpcs DEF CallType
    <3>4. EarlyOf(early'[c], life'[c], news'[c])
      <4>1. CASE restore = "start"
        BY <3>2, <4>1, Known0 DEF NoEarly, EarlyOf, Events
      <4>2. CASE restore # "start"
        BY <1>1, <1>5, <1>11, <3>3, <4>2
      <4>3. QED
        BY <4>1, <4>2
    <3>5. \A k \in Conns : EarlyOf(early'[k], life'[k], news'[k])
      BY <1>1, <1>5, <1>7, <3>1, <3>4
    <3>6. \A k \in snapshot.live :
             /\ k \in Conns /\ life[k] # "none"
             /\ restore = "answered" /\ news'[k] = <<>> /\ early'[k] = None =>
                   life'[k] \in Living /\ (k \in snapshot.up <=> life'[k] = "up")
      <4>1. \A k \in snapshot.live : k \in Conns
        BY <3>1 DEF CallType
      <4>2. restore = "answered" => early'[c] # None
        BY <3>3, Known0
      <4>3. QED
        BY <1>1, <1>5, <1>7, <2>2, <4>1, <4>2 DEF TabsInv, FirstTrue
    <3>7. QED
      BY <1>1, <2>2, <3>2, <3>5, <3>6 DEF TabsInv, FirstTrue, NoEarly, Idle, NotSaving
  <2>3. QED
    BY <2>1, <2>2
<1>16. ReachTrue'
  <2>1. \A k \in Conns : Known(k) => Known(k)'
    <3>1. \A k \in Conns : TabOf(owner[k]) = k => (TabOf(owner[k]))' = k
      BY <1>1, TabOfOwner
    <3>2. \A k \in Conns : Awaited(k) => Awaited(k)'
      BY <1>1 DEF Awaited
    <3>3. QED
      BY <1>1, <3>1, <3>2 DEF Known
  <2>2. QED
    BY <1>1, <2>1 DEF TabsInv, ReachTrue, Ready, Live
<1>17. QED
  BY <1>8, <1>9, <1>10, <1>13, <1>14, <1>15, <1>16 DEF TabsInv

\* What replacing one tab changes.
LEMMA PutIs ==
  ASSUME TabsInv, NEW c \in Conns, NEW rec \in Record, node' = Put(c, rec)
  PROVE  /\ node' \in [TabIds -> Record] /\ \A k \in TabIds \ {c} : node'[k] = node[k]
         /\ Shown(c) => node'[c] = rec
  BY Known0 DEF Put, TabsInv, TabsType, TabType

\* News is heard: the tab that shows the connection takes the state told.
LEMMA HearKeeps ==
  ASSUME TabsInv, NEW c \in Conns, HearConnected(c) \/ HearLost(c) \/ HearClosed(c)
  PROVE  TabsInv'
<1>1. /\ node[c] \in Record /\ news[c] \in Seq(Events) /\ NewsOf(news[c], life[c], early[c])
      /\ Shown(c) => RecordOf(node[c], life[c], news[c], dialed[c])
  BY Known0 DEF TabsInv, TabsType, TabType, BackendType, NewsTrue, RecordTrue
<1>2. ASSUME NEW event \in Events, Deliver(c, event)
      PROVE  /\ Tail(news[c]) = <<>> => Says(event, life[c])
             /\ event = "closed" => life[c] = "over"
  <2>1. news[c] # <<>> /\ Head(news[c]) = event
    BY <1>2 DEF Deliver
  <2>2. life[c] # "none"
    BY <1>1, <2>1 DEF NewsOf, Says
  <2>3. QED
    BY <1>1, <2>1, <2>2, NewsTail
<1>3. CASE HearConnected(c)
  <2> DEFINE rec == IF node[c].closed THEN node[c] ELSE [node[c] EXCEPT !.connected = TRUE]
  <2>1. Deliver(c, "connected") /\ node' = Put(c, rec)
    BY <1>3 DEF HearConnected
  <2>2. rec \in Record /\ rec.closed = node[c].closed /\ rec.ver = node[c].ver
    BY <1>1 DEF Record
  <2>3. ~node[c].closed => rec.connected = TRUE
    BY <1>1 DEF Record
  <2>4. node[c].closed => rec = node[c]
    OBVIOUS
  <2> HIDE DEF rec
  <2>5. Tail(news[c]) = <<>> => life[c] = "up"
    BY <1>2, <2>1 DEF Says, Events
  <2>6. Shown(c) => RecordOf(rec, life[c], Tail(news[c]), dialed[c])
    BY <1>1, <2>2, <2>3, <2>4, <2>5 DEF RecordOf, Record
  <2>7. /\ node' \in [TabIds -> Record] /\ \A k \in TabIds \ {c} : node'[k] = node[k]
        /\ Shown(c) => node'[c] = rec
    BY <2>1, <2>2, PutIs
  <2>8. QED
    BY <2>1, <2>6, <2>7, HearStep DEF Events
<1>4. CASE HearLost(c)
  <2> DEFINE rec == [node[c] EXCEPT !.connected = FALSE]
  <2>1. Deliver(c, "lost") /\ node' = Put(c, rec)
    BY <1>4 DEF HearLost
  <2>2. rec \in Record /\ rec.closed = node[c].closed /\ rec.ver = node[c].ver /\ rec.connected = FALSE
    BY <1>1 DEF Record
  <2> HIDE DEF rec
  <2>5. Tail(news[c]) = <<>> => life[c] = "lost"
    BY <1>2, <2>1 DEF Says, Events
  <2>6. Shown(c) => RecordOf(rec, life[c], Tail(news[c]), dialed[c])
    BY <1>1, <2>2, <2>5 DEF RecordOf, Record
  <2>7. /\ node' \in [TabIds -> Record] /\ \A k \in TabIds \ {c} : node'[k] = node[k]
        /\ Shown(c) => node'[c] = rec
    BY <2>1, <2>2, PutIs
  <2>8. QED
    BY <2>1, <2>6, <2>7, HearStep DEF Events
<1>5. CASE HearClosed(c)
  <2> DEFINE rec == Closed(c)
  <2>1. Deliver(c, "closed") /\ node' = Put(c, rec)
    BY <1>5 DEF HearClosed
  <2>2. rec \in Record /\ rec.closed = TRUE /\ rec.connected = FALSE
    BY <1>1 DEF Record, Closed
  <2> HIDE DEF rec
  <2>5. life[c] = "over"
    BY <1>2, <2>1 DEF Events
  <2>6. RecordOf(rec, life[c], Tail(news[c]), dialed[c])
    BY <2>2, <2>5, RecordOver
  <2>7. /\ node' \in [TabIds -> Record] /\ \A k \in TabIds \ {c} : node'[k] = node[k]
        /\ Shown(c) => node'[c] = rec
    BY <2>1, <2>2, PutIs
  <2>8. QED
    BY <2>1, <2>6, <2>7, HearStep DEF Events
<1>6. QED
  BY <1>3, <1>4, <1>5
-----------------------------------------------------------------------------
(* Restoring.                                                              *)

\* The load fails: what lives in the backend is out of sight, nothing else changes.
LEMMA LoadFailsKeeps == ASSUME TabsInv, LoadFails PROVE TabsInv'
<1>1. /\ restore = "start" /\ restore' = "failed" /\ snapshot' = Unread
      /\ orphaned' = orphaned \cup Unseen(Range(tabs))
      /\ UNCHANGED <<backendVars, listVars, tabVars, early, callVars>>
  BY DEF LoadFails
<1>2. /\ tabs = <<>> /\ Range(tabs) = {}
      /\ (\A p \in Profiles : dial[p].got = None) /\ (\A id \in TabIds : flow[id].got = None)
  BY <1>1, RangeEmpty, IdleIs DEF TabsInv, FirstTrue
<1>3. /\ \A c \in Conns : Live(c) => c \in orphaned'
      /\ orphaned \subseteq Conns => orphaned' \subseteq Conns
  BY <1>1, <1>2, Known0 DEF Unseen, Awaited
<1>4. TabsType'
  BY <1>1, <1>3 DEF TabsInv, TabsType, BackendType, TabType, CallType, Unread
<1>5. NewsTrue'
  BY <1>1 DEF TabsInv, NewsTrue
<1>6. RecordTrue'
  BY <1>1 DEF TabsInv, RecordTrue, Shown
<1>7. AnswersTrue'
  BY <1>1 DEF TabsInv, AnswersTrue, DialsTrue, FlowsTrue, Owed, Shown
<1>8. CutTrue'
  BY <1>1 DEF TabsInv, CutTrue
<1>9. FirstTrue'
  BY <1>1 DEF FirstTrue
<1>10. ReachTrue'
  BY <1>1, <1>3 DEF ReachTrue, Known, Live
<1>11. QED
  BY <1>4, <1>5, <1>6, <1>7, <1>8, <1>9, <1>10 DEF TabsInv

LEMMA AskRestoreKeeps == ASSUME TabsInv, AskRestore PROVE TabsInv'
<1>1. /\ restore = "start" /\ restore' = "asked" /\ listed' = snapshot.profiles
      /\ UNCHANGED <<backendVars, saved, tabVars, early, snapshot, callVars, orphaned>>
  BY DEF AskRestore
<1>2. TabsType'
  BY <1>1 DEF TabsInv, TabsType, BackendType, TabType, CallType
<1>3. NewsTrue'
  BY <1>1 DEF TabsInv, NewsTrue
<1>4. RecordTrue'
  BY <1>1 DEF TabsInv, RecordTrue, Shown
<1>5. AnswersTrue'
  BY <1>1 DEF TabsInv, AnswersTrue, DialsTrue, FlowsTrue, Owed, Shown
<1>6. CutTrue'
  BY <1>1 DEF TabsInv, CutTrue
<1>7. FirstTrue'
  BY <1>1 DEF TabsInv, FirstTrue, NoEarly, Idle, NotSaving
<1>8. ReachTrue'
  BY <1>1 DEF ReachTrue, Ready
<1>9. QED
  BY <1>2, <1>3, <1>4, <1>5, <1>6, <1>7, <1>8 DEF TabsInv

LEMMA AnswerRestoreKeeps == ASSUME TabsInv, AnswerRestore PROVE TabsInv'
<1>1. /\ restore = "asked" /\ restore' = "answered"
      /\ \E live \in {{c \in Conns : Live(c)}, {}} :
            snapshot' = [snapshot EXCEPT !.live = live, !.up = {c \in Conns : life[c] = "up"}]
      /\ UNCHANGED <<backendVars, listVars, tabVars, early, callVars, orphaned>>
  BY DEF AnswerRestore
<1>2. /\ snapshot' \in [live : SUBSET Conns, up : SUBSET Conns, profiles : SUBSET Profiles]
      /\ snapshot'.live \subseteq {c \in Conns : Live(c)}
      /\ snapshot'.up = {c \in Conns : life[c] = "up"}
  <2>1. snapshot \in [live : SUBSET Conns, up : SUBSET Conns, profiles : SUBSET Profiles]
    BY DEF TabsInv, TabsType, CallType
  <2>2. QED
    BY <1>1, <2>1
<1>3. TabsType'
  BY <1>1, <1>2 DEF TabsInv, TabsType, BackendType, TabType, CallType
<1>4. NewsTrue'
  BY <1>1 DEF TabsInv, NewsTrue
<1>5. RecordTrue'
  BY <1>1 DEF TabsInv, RecordTrue, Shown
<1>6. AnswersTrue'
  BY <1>1 DEF TabsInv, AnswersTrue, DialsTrue, FlowsTrue, Owed, Shown
<1>7. CutTrue'
  BY <1>1 DEF TabsInv, CutTrue
<1>8. FirstTrue'
  <2>1. \A c \in snapshot'.live :
           /\ life'[c] # "none" /\ life'[c] \in Living
           /\ c \in snapshot'.up <=> life'[c] = "up"
    BY <1>1, <1>2 DEF Live, Living
  <2>2. QED
    BY <1>1, <2>1 DEF TabsInv, FirstTrue, NoEarly, Idle, NotSaving
<1>9. ReachTrue'
  BY <1>1 DEF ReachTrue, Ready
<1>10. QED
  BY <1>3, <1>4, <1>5, <1>6, <1>7, <1>8, <1>9 DEF TabsInv

\* A set as a sequence has the elements of the set.
LEMMA SetToSeqIs ==
  ASSUME NEW S, IsFiniteSet(S)
  PROVE  SetToSeq(S) \in Seq(S) /\ Range(SetToSeq(S)) = S
<1> DEFINE n == Cardinality(S)
<1>1. n \in Nat /\ ExistsBijection(1 .. n, S)
  BY FS_CardinalityType
<1>2. \E f \in [1 .. n -> S] : IsInjective(f)
  BY <1>1 DEF ExistsBijection, Bijection, Injection, IsInjective
<1>3. PICK f \in [1 .. n -> S] : f = SetToSeq(S) /\ IsInjective(f)
  BY <1>2 DEF SetToSeq
<1>4. IsFiniteSet(1 .. n) /\ Cardinality(1 .. n) = n
  BY <1>1, FS_Interval
<1>5. f \in Injection(1 .. n, S)
  BY <1>3 DEF Injection
<1>6. f \in Surjection(1 .. n, S)
  BY <1>4, <1>5, FS_Injection
<1>7. f \in Seq(S) /\ DOMAIN f = 1 .. n
  BY <1>1, <1>3, SeqDef
<1>8. Range(f) = S
  BY <1>6, <1>7 DEF Surjection, Range
<1>9. QED
  BY <1>3, <1>7, <1>8

\* The tabs of the connections that are restored, and of the other profiles.
LEMMA RestoredTabs ==
  ASSUME NEW A \in SUBSET Conns, NEW B \in SUBSET Profiles
  PROVE  /\ SetToSeq(A) \o SetToSeq(B) \in Seq(TabIds)
         /\ Range(SetToSeq(A) \o SetToSeq(B)) = A \cup B
<1>1. IsFiniteSet(A) /\ IsFiniteSet(B) /\ A \subseteq TabIds /\ B \subseteq TabIds
  BY Known0, FS_Subset
<1>2. PICK a, b : a = SetToSeq(A) /\ b = SetToSeq(B)
  OBVIOUS
<1>3. a \in Seq(A) /\ Range(a) = A /\ b \in Seq(B) /\ Range(b) = B
  BY <1>1, <1>2, SetToSeqIs
<1>4. a \in Seq(TabIds) /\ b \in Seq(TabIds)
  BY <1>1, <1>3
<1>5. a \o b \in Seq(TabIds) /\ Range(a \o b) = A \cup B
  BY <1>3, <1>4, RangeConcatenation, ConcatProperties
<1>6. QED
  BY <1>2, <1>5

\* A record with the state that came before its tab.
LEMMA EarlyOrIs ==
  ASSUME NEW c \in Conns, early[c] \in EarlyStates, NEW rec \in Record
  PROVE  /\ EarlyOr(c, rec) \in Record /\ EarlyOr(c, rec).ver = rec.ver
         /\ early[c] = None => EarlyOr(c, rec) = rec
         /\ early[c] = "connected" => EarlyOr(c, rec).connected = TRUE /\ EarlyOr(c, rec).closed = FALSE
         /\ early[c] = "lost" => EarlyOr(c, rec).connected = FALSE /\ EarlyOr(c, rec).closed = FALSE
         /\ early[c] = "closed" => EarlyOr(c, rec).connected = FALSE /\ EarlyOr(c, rec).closed = TRUE
<1>1. CASE early[c] = None
  BY <1>1, Known0 DEF EarlyOr, Events
<1>2. CASE early[c] = "connected"
  <2>1. EarlyOr(c, rec) = [rec EXCEPT !.connected = TRUE, !.closed = FALSE]
    BY <1>2, Known0 DEF EarlyOr, Events
  <2>2. QED
    BY <1>2, <2>1, Known0 DEF Record, Events
<1>3. CASE early[c] = "lost"
  <2>1. EarlyOr(c, rec) = [rec EXCEPT !.connected = FALSE, !.closed = FALSE]
    BY <1>3, Known0 DEF EarlyOr, Events
  <2>2. QED
    BY <1>3, <2>1, Known0 DEF Record, Events
<1>4. CASE early[c] = "closed"
  <2>1. EarlyOr(c, rec) = [rec EXCEPT !.connected = FALSE, !.closed = TRUE]
    BY <1>4, Known0 DEF EarlyOr, Events
  <2>2. QED
    BY <1>4, <2>1, Known0 DEF Record, Events
<1>5. QED
  BY <1>1, <1>2, <1>3, <1>4 DEF EarlyStates

\* So that record tells the truth of a connection that was not heard before.
LEMMA EarlyTrue ==
  ASSUME NEW c \in Conns, early[c] \in EarlyStates, NEW rec \in Record, NEW l, NEW ns, NEW d,
         EarlyOf(early[c], l, ns), l # "none", rec.closed = FALSE, l \in Living => rec.ver = d,
         ns = <<>> /\ early[c] = None => l \in Living /\ (rec.connected <=> l = "up")
  PROVE  RecordOf(EarlyOr(c, rec), l, ns, d)
<1>1. PICK r : r = EarlyOr(c, rec)
  OBVIOUS
<1>2. /\ r \in Record /\ r.ver = rec.ver
      /\ early[c] = None => r = rec
      /\ early[c] = "connected" => r.connected = TRUE /\ r.closed = FALSE
      /\ early[c] = "lost" => r.connected = FALSE /\ r.closed = FALSE
      /\ early[c] = "closed" => r.connected = FALSE /\ r.closed = TRUE
  BY <1>1, EarlyOrIs
<1>3. RecordOf(r, l, ns, d)
  <2>1. CASE early[c] = None
    BY <1>2, <2>1 DEF RecordOf, Living
  <2>2. CASE early[c] = "connected"
    BY <1>2, <2>2, Known0 DEF RecordOf, EarlyOf, Says, Events
  <2>3. CASE early[c] = "lost"
    BY <1>2, <2>3, Known0 DEF RecordOf, EarlyOf, Says, Events
  <2>4. CASE early[c] = "closed"
    BY <1>2, <2>4 DEF RecordOf, EarlyOf
  <2>5. QED
    BY <2>1, <2>2, <2>3, <2>4 DEF EarlyStates
<1>4. QED
  BY <1>1, <1>3

LEMMA RestoreKeeps == ASSUME TabsInv, Restore PROVE TabsInv'
<1> DEFINE live == snapshot.live
           offline == {p \in snapshot.profiles : \A c \in live : owner[c] # p}
<1>1. /\ restore = "answered" /\ restore' = "done"
      /\ tabs' = tabs \o SetToSeq(live \ Range(tabs)) \o SetToSeq(offline \ Range(tabs))
      /\ node' = [id \in TabIds |->
            IF id \in live THEN Restored(id)
            ELSE IF id \in offline THEN Fresh(Loaded) ELSE node[id]]
      /\ active' = IF \E c \in live : owner[c] = last
                   THEN CHOOSE c \in live : owner[c] = last
                   ELSE IF last \in snapshot.profiles THEN last ELSE active
      /\ orphaned' = orphaned \cup Unseen(Range(tabs'))
      /\ EndTabRpc
      /\ snapshot' = Unread
      /\ UNCHANGED <<backendVars, listVars, callVars>>
  BY DEF Restore
<1>2. /\ live \in SUBSET Conns /\ snapshot.profiles \in SUBSET Profiles
      /\ offline \in SUBSET Profiles /\ Loaded \in Vers /\ active \in TabIds \cup {None} /\ owner \in [Conns -> Profiles]
      /\ early \in [Conns -> EarlyStates] /\ node \in [TabIds -> Record]
  BY Known0 DEF TabsInv, TabsType, CallType, TabType, BackendType, Loaded
<1>3. /\ \A c \in Conns : c # 1 => life[c] = "none"
      /\ \A c \in Conns : dialed[c] = 0
      /\ \A p \in Profiles : dial[p] = Idle
      /\ \A id \in TabIds : flow[id] = Idle
      /\ leaving = {} /\ tabs = <<>>
      /\ \A c \in Conns : EarlyOf(early[c], life[c], news[c])
      /\ \A c \in live :
            /\ life[c] # "none"
            /\ news[c] = <<>> /\ early[c] = None =>
                  life[c] \in Living /\ (c \in snapshot.up <=> life[c] = "up")
  BY <1>1 DEF TabsInv, FirstTrue
<1>4. tabs' \in Seq(TabIds) /\ Range(tabs') = live \cup offline
  <2>1. Range(tabs) = {}
    BY <1>3, RangeEmpty
  <2> DEFINE s == SetToSeq(live \ Range(tabs)) \o SetToSeq(offline \ Range(tabs))
  <2>2. s \in Seq(TabIds) /\ Range(s) = live \cup offline
    BY <1>2, <2>1, RestoredTabs
  <2>3. tabs' = tabs \o s
    BY <1>1, <1>2, <1>3, <2>1, RestoredTabs, Known0
  <2> HIDE DEF s
  <2>4. tabs' = s
    BY <1>3, <2>2, <2>3
  <2>5. QED
    BY <2>2, <2>4
<1>5. ASSUME NEW c \in Conns, c \in live
      PROVE  Restored(c) \in Record /\ RecordOf(Restored(c), life[c], news[c], dialed[c])
  <2> DEFINE rec == [connected |-> c \in snapshot.up, closed |-> FALSE,
                     ver |-> IF owner[c] \in snapshot.profiles THEN Loaded ELSE dialed[c]]
  <2>1. rec.ver = 0
    BY <1>2, <1>3 DEF Loaded
  <2>2. rec.connected \in BOOLEAN /\ rec.closed = FALSE /\ (rec.connected <=> c \in snapshot.up)
    <3>1. rec.closed = FALSE /\ rec.connected = (c \in snapshot.up)
      BY Zenon
    <3>2. PICK b \in BOOLEAN : b = (c \in snapshot.up)
      <4>1. CASE c \in snapshot.up
        <5>1. TRUE = (c \in snapshot.up)
          BY <4>1
        <5>2. QED
          BY <5>1, Zenon
      <4>2. CASE c \notin snapshot.up
        <5>1. FALSE = (c \in snapshot.up)
          BY <4>2
        <5>2. QED
          BY <5>1, Zenon
      <4>3. QED
        BY <4>1, <4>2
    <3>3. b \in BOOLEAN /\ (b <=> c \in snapshot.up)
      BY <3>2, Zenon
    <3>4. rec.connected = b
      BY <3>1, <3>2, Zenon
    <3> HIDE DEF rec
    <3>5. QED
      BY <3>1, <3>3, <3>4
  <2>3. rec \in Record
    BY <2>1, Known0 DEF Record
  <2>4. Restored(c) = EarlyOr(c, rec)
    BY DEF Restored
  <2> HIDE DEF rec
  <2>5. EarlyOr(c, rec) \in Record
    BY <1>2, <2>3, EarlyOrIs
  <2>6. RecordOf(EarlyOr(c, rec), life[c], news[c], dialed[c])
    BY <1>2, <1>3, <1>5, <2>1, <2>2, <2>3, EarlyTrue
  <2>7. QED
    BY <2>4, <2>5, <2>6
<1> HIDE DEF live, offline
<1>6. node' \in [TabIds -> Record]
  <2>1. \A id \in offline : Fresh(Loaded) \in Record
    BY <1>2 DEF Fresh, Record
  <2>2. \A id \in live : Restored(id) \in Record
    BY <1>2, <1>5
  <2>3. \A id \in TabIds : (IF id \in live THEN Restored(id)
            ELSE IF id \in offline THEN Fresh(Loaded) ELSE node[id]) \in Record
    BY <1>2, <2>1, <2>2
  <2>4. QED
    BY <1>1, <2>3
<1>7. active' \in TabIds \cup {None}
  BY <1>1, <1>2, Known0
<1>8. early' = early \/ early' = NoEarly
  BY <1>1 DEF EndTabRpc
<1>9. early' \in [Conns -> EarlyStates]
  BY <1>2, <1>8 DEF NoEarly, EarlyStates
<1>10. TabsType'
  BY <1>1, <1>4, <1>6, <1>7, <1>9 DEF TabsInv, TabsType, BackendType, TabType, CallType, Unread, Unseen
<1>11. NewsTrue'
  BY <1>1, <1>8 DEF TabsInv, NewsTrue, NewsOf, NoEarly
<1>12. RecordTrue'
  <2>1. \A c \in Conns : c \in Range(tabs') => c \in live /\ c \in TabIds
    BY <1>2, <1>4, Known0
  <2>2. \A c \in Conns : c \in Range(tabs') => node'[c] = Restored(c)
    BY <1>1, <2>1
  <2>3. \A c \in Conns : c \in Range(tabs') => RecordOf(node'[c], life[c], news[c], dialed[c])
    BY <1>5, <2>1, <2>2
  <2>4. QED
    BY <1>1, <2>3 DEF RecordTrue, Shown
<1>13. AnswersTrue'
  <2>1. (\A p \in Profiles : dial'[p].got = None) /\ (\A id \in TabIds : flow'[id].got = None)
    BY <1>1, <1>3, IdleIs
  <2>2. QED
    BY <2>1 DEF AnswersTrue, DialsTrue, FlowsTrue
<1>14. CutTrue'
  <2>1. \A c \in Conns : flow'[c].pc = "idle" /\ c \notin leaving'
    BY <1>1, <1>3, IdleIs, Known0
  <2>2. QED
    BY <2>1 DEF CutTrue
<1>15. FirstTrue'
  BY <1>1 DEF FirstTrue
<1>16. ReachTrue'
  <2>1. SUFFICES ASSUME NEW k \in Conns, life'[k] \in Living PROVE Known(k)'
    BY DEF ReachTrue, Live, Living
  <2>2. CASE k \in live
    <3>1. PICK p \in Profiles : p = owner[k]
      BY <1>2
    <3>2. Range(tabs') \cap Kind(owner, p) = {k}
      <4>1. k \in Range(tabs') \cap Kind(owner, p)
        BY <1>4, <2>2, <3>1, Known0 DEF Kind
      <4>2. ASSUME NEW x \in Range(tabs') \cap Kind(owner, p) PROVE x = k
        <5>1. CASE x \in live
          BY <1>2, <1>3, <2>2, <5>1
        <5>2. CASE x \in offline
          <6>1. x \in Profiles /\ x \notin Conns /\ x = p
            BY <1>2, <4>2, <5>2, Known0 DEF Kind
          <6>2. owner[k] # x
            BY <2>2, <5>2 DEF offline
          <6>3. QED
            BY <3>1, <6>1, <6>2
        <5>3. QED
          BY <1>4, <5>1, <5>2
      <4>3. QED
        BY <4>1, <4>2
    <3>3. LastIn(tabs', Kind(owner, p)) = k
      BY <1>4, <3>2, LastInIs
    <3>4. owner' = owner
      BY <1>1
    <3>5. QED
      BY <3>1, <3>3, <3>4, TabOfOwner DEF Known
  <2>3. CASE k \notin live
    <3>1. life[k] \in Living
      BY <1>1, <2>1
    <3>2. k \in orphaned'
      <4>1. ~Awaited(k)
        BY <1>3, IdleIs, Known0 DEF Awaited
      <4>2. k \notin Range(tabs')
        BY <1>2, <1>4, <2>3, Known0
      <4>3. QED
        BY <1>1, <3>1, <4>1, <4>2 DEF Unseen, Live, Living
    <3>3. QED
      BY <3>2 DEF Known
  <2>4. QED
    BY <2>2, <2>3
<1>17. QED
  BY <1>10, <1>11, <1>12, <1>13, <1>14, <1>15, <1>16 DEF TabsInv
-----------------------------------------------------------------------------
(* The answers that make tabs.                                             *)

\* The tab of the connection c takes the place of the tabs that are out.
LEMMA TabArrives ==
  ASSUME TabsInv, NEW c, NEW ver \in Vers, NEW out, Owed(c, ver), Ready,
         UNCHANGED <<backendVars, listVars, restoreVars, saving, leaving>>,
         tabs' = Append(Without(out), c),
         node' \in [TabIds -> Record], node'[c] = EarlyOr(c, Fresh(ver)),
         \A k \in Conns \ {c} : k \in Range(tabs) \ out => node'[k] = node[k],
         active' \in TabIds \cup {None},
         early' = early \/ early' = NoEarly,
         dial' \in [Profiles -> Connecting], flow' \in [TabIds -> Connecting],
         \A p \in Profiles : dial'[p] = dial[p] \/ dial'[p].got = None,
         \A id \in TabIds : flow'[id] = flow[id] \/ flow'[id].got = None,
         \A p \in Profiles : dial'[p].got # None => dial[p].got # c /\ early' = early,
         \A id \in TabIds : flow'[id].got # None => flow[id].got # c /\ early' = early,
         \A k \in Conns \ {c} : Awaited(k) => Awaited(k)',
         \A k \in Conns : flow'[k].pc # "idle" => flow[k].pc # "idle",
         orphaned \subseteq orphaned', orphaned' \subseteq Conns,
         \A k \in Conns : Live(k) /\ k \in Range(tabs) /\ TabOf(owner[k]) = k
                          /\ (owner[k] = owner[c] \/ k \in out) => k \in orphaned'
  PROVE  TabsInv'
<1>1. /\ c \in Conns /\ c \in TabIds /\ c \notin Range(tabs)
      /\ Owing(early[c], life[c], news[c], dialed[c], ver)
  BY Known0 DEF Owed, Shown
<1>2. TabType /\ BackendType /\ CallType
  BY DEF TabsInv, TabsType
<1>3. /\ Without(out) \in Seq(TabIds) /\ Range(Without(out)) = Range(tabs) \ out
      /\ \A K : LastIn(tabs, K) # None /\ LastIn(tabs, K) \notin out =>
                      LastIn(Without(out), K) = LastIn(tabs, K)
  BY <1>2, WithoutIs
<1>4. tabs' \in Seq(TabIds) /\ Range(tabs') = (Range(tabs) \ out) \cup {c}
  <2>1. PICK w : w = Without(out)
    OBVIOUS
  <2>2. Append(w, c) \in Seq(TabIds) /\ Range(Append(w, c)) = Range(w) \cup {c}
    BY <1>1, <1>3, <2>1, RangeAppend, AppendProperties
  <2>3. QED
    BY <1>3, <2>1, <2>2
<1>5. early' \in [Conns -> EarlyStates]
  BY <1>2 DEF TabType, NoEarly, EarlyStates
<1>6. TabsType'
  BY <1>2, <1>4, <1>5 DEF TabsType, BackendType, TabType, CallType
<1>7. NewsTrue'
  BY DEF TabsInv, NewsTrue, NewsOf, NoEarly
<1>8. RecordOf(node'[c], life[c], news[c], dialed[c])
  <2>1. PICK rec \in Record : rec = Fresh(ver) /\ rec.closed = FALSE /\ rec.connected = FALSE /\ rec.ver = ver
    <3>1. /\ Fresh(ver) \in Record /\ Fresh(ver).closed = FALSE
          /\ Fresh(ver).connected = FALSE /\ Fresh(ver).ver = ver
      BY DEF Fresh, Record
    <3>2. QED
      BY <3>1
  <2>2. early[c] \in EarlyStates
    BY <1>1, <1>2 DEF TabType
  <2>3. /\ EarlyOf(early[c], life[c], news[c]) /\ life[c] # "none"
        /\ life[c] \in Living => rec.ver = dialed[c]
        /\ news[c] = <<>> /\ early[c] = None => life[c] = "dialing"
    BY <1>1, <2>1 DEF Owing
  <2>4. news[c] = <<>> /\ early[c] = None =>
           life[c] \in Living /\ (rec.connected <=> life[c] = "up")
    BY <2>1, <2>3 DEF Living
  <2>5. RecordOf(EarlyOr(c, rec), life[c], news[c], dialed[c])
    BY <1>1, <2>1, <2>2, <2>3, <2>4, EarlyTrue
  <2>6. QED
    BY <2>1, <2>5
<1>9. RecordTrue'
  <2>1. ASSUME NEW k \in Conns, k \in Range(tabs') PROVE RecordOf(node'[k], life[k], news[k], dialed[k])
    <3>1. CASE k = c
      BY <1>8, <3>1
    <3>2. CASE k # c
      BY <1>4, <2>1, <3>2 DEF TabsInv, RecordTrue, Shown
    <3>3. QED
      BY <3>1, <3>2
  <2>2. QED
    BY <2>1 DEF RecordTrue, Shown
<1>10. ASSUME NEW k, NEW v, Owed(k, v), k # c, early' = early PROVE Owed(k, v)'
  BY <1>4, <1>10 DEF Owed, Shown
<1>11. AnswersTrue'
  <2>1. \A p \in Profiles : dial'[p].got # None =>
            /\ owner'[dial[p].got] = owner[dial[p].got]
            /\ \A k, v : k = dial[p].got /\ Owed(k, v) => Owed(k, v)'
    BY <1>10
  <2>2. \A id \in TabIds : flow'[id].got # None =>
            \A k, v : k = flow[id].got /\ Owed(k, v) => Owed(k, v)'
    BY <1>10
  <2>3. dial \in [Profiles -> Connecting] /\ flow \in [TabIds -> Connecting]
    BY <1>2 DEF CallType
  <2>4. QED
    BY <2>1, <2>2, <2>3, AnswersKept DEF TabsInv
<1>12. CutTrue'
  BY DEF TabsInv, CutTrue
<1>13. FirstTrue'
  BY DEF FirstTrue
<1>14. ReachTrue'
  <2>1. SUFFICES ASSUME NEW k \in Conns, life[k] \in Living PROVE Known(k)'
    BY DEF ReachTrue, Live, Living
  <2>2. PICK q \in Profiles : q = owner[k]
    BY <1>2 DEF BackendType
  <2>3. CASE k = c
    <3>1. c \in Kind(owner, q)
      BY <1>1, <2>2, <2>3 DEF Kind
    <3>2. LastIn(tabs', Kind(owner, q)) = c
      BY <1>1, <1>3, <3>1, LastInAppend
    <3>3. QED
      BY <2>2, <2>3, <3>2, TabOfOwner DEF Known
  <2>4. CASE k # c
    <3>1. Known(k)
      BY <2>1 DEF TabsInv, ReachTrue, Ready, Live, Living
    <3>2. CASE k \in orphaned \/ Awaited(k)
      BY <2>4, <3>2 DEF Known
    <3>3. CASE TabOf(owner[k]) = k
      <4>1. tabs \in Seq(TabIds) /\ LastIn(tabs, Kind(owner, q)) = k /\ k # None
        BY <1>2, <2>2, <3>3, TabOfOwner, Known0 DEF TabType
      <4>2. k \in Range(tabs)
        BY <4>1, LastInIs
      <4>3. CASE owner[k] = owner[c] \/ k \in out
        <5>1. k \in orphaned'
          BY <2>1, <3>3, <4>2, <4>3 DEF Live, Living
        <5>2. QED
          BY <5>1 DEF Known
      <4>4. CASE owner[k] # owner[c] /\ k \notin out
        <5>1. LastIn(Without(out), Kind(owner, q)) = k
          BY <1>3, <4>1, <4>4
        <5>2. c \notin Kind(owner, q)
          BY <1>1, <2>2, <4>4 DEF Kind
        <5>3. LastIn(tabs', Kind(owner, q)) = k
          BY <1>1, <1>3, <5>1, <5>2, LastInAppend
        <5>4. QED
          BY <2>2, <5>3, TabOfOwner DEF Known
      <4>5. QED
        BY <4>3, <4>4
    <3>4. QED
      BY <3>1, <3>2, <3>3 DEF Known
  <2>5. QED
    BY <2>3, <2>4
<1>15. QED
  BY <1>6, <1>7, <1>9, <1>11, <1>12, <1>13, <1>14 DEF TabsInv

LEMMA DialAnsweredKeeps == ASSUME TabsInv, NEW p \in Profiles, DialAnswered(p) PROVE TabsInv'
<1>1. PICK c : c = dial[p].got
  OBVIOUS
<1>2. PICK ver : ver = dial[p].ver
  OBVIOUS
<1>3. PICK out : out = Range(TabsOf(p))
  OBVIOUS
<1>4. /\ dial[p].pc = "dialing" /\ c # None /\ EndTabRpc
      /\ tabs' = Append(Without(out), c)
      /\ orphaned' = orphaned \cup {o \in out : Online(o) /\ Live(o)}
      /\ node' = Held([node EXCEPT ![c] = EarlyOr(c, Fresh(ver))], (Range(tabs) \ out) \cup {c}, None)
      /\ active' = c
      /\ dial' = [dial EXCEPT ![p] = Idle]
      /\ UNCHANGED <<flow, backendVars, listVars, restoreVars, saving, deleting, leaving>>
  BY <1>1, <1>2, <1>3 DEF DialAnswered, ReplaceTab
<1>5. /\ CallType /\ TabType /\ BackendType /\ Ready /\ ver \in Vers
      /\ Owed(c, ver) /\ owner[c] = p /\ c \in Conns /\ c \in TabIds /\ c \notin Range(tabs)
  <2>1. CallType /\ TabType /\ BackendType /\ Ready
    BY <1>4, UnderWay DEF TabsInv, TabsType
  <2>2. ver \in Vers
    BY <1>2, <2>1 DEF CallType, Connecting
  <2>3. Owed(c, ver) /\ owner[c] = p
    BY <1>1, <1>2, <1>4 DEF TabsInv, AnswersTrue, DialsTrue
  <2>4. QED
    BY <2>1, <2>2, <2>3, Known0 DEF Owed, Shown
<1>6. out = Range(tabs) \cap Kind(owner, p)
  BY <1>3, <1>5, TabOfIs, LastInIs DEF TabType
<1> DEFINE records == [node EXCEPT ![c] = EarlyOr(c, Fresh(ver))]
           left == (Range(tabs) \ out) \cup {c}
<1>7. EarlyOr(c, Fresh(ver)) \in Record
  <2>1. Fresh(ver) \in Record
    BY <1>5 DEF Fresh, Record
  <2>2. QED
    BY <1>5, <2>1, EarlyOrIs DEF TabType
<1>8. /\ records \in [TabIds -> Record] /\ records[c] = EarlyOr(c, Fresh(ver))
      /\ \A k \in TabIds \ {c} : records[k] = node[k]
  BY <1>5, <1>7 DEF TabType
<1>9. node' = Held(records, left, None)
  BY <1>4
<1>10. c \in left /\ (\A k \in Range(tabs) \ out : k \in left)
  OBVIOUS
<1> HIDE DEF records, left
<1>11. /\ Held(records, left, None) \in [TabIds -> Record]
       /\ \A k \in TabIds : k \in left => Held(records, left, None)[k] = records[k]
  BY <1>8, HeldIs
<1>12. /\ node' \in [TabIds -> Record] /\ node'[c] = EarlyOr(c, Fresh(ver))
       /\ \A k \in Conns \ {c} : k \in Range(tabs) \ out => node'[k] = node[k]
  BY <1>5, <1>8, <1>9, <1>10, <1>11, Known0
<1>13. /\ dial' \in [Profiles -> Connecting] /\ dial'[p].got = None
       /\ \A r \in Profiles \ {p} : dial'[r] = dial[r]
  BY <1>4, <1>5, IdleIs DEF CallType
<1>14. /\ early' = early \/ early' = NoEarly
       /\ \A q, r \in Profiles :
             q # r /\ dial[q].pc = "dialing" /\ dial[r].pc = "dialing" => early' = early
       /\ \A q \in Profiles, id \in TabIds :
             dial[q].pc = "dialing" /\ flow[id].pc = "dialing" => early' = early
  BY <1>4, <1>5, EarlyStays
<1>15. \A r \in Profiles : dial'[r].got # None => dial[r].got # c /\ early' = early
  BY <1>1, <1>4, <1>13, <1>14 DEF TabsInv, AnswersTrue, DialsTrue
<1>16. \A id \in TabIds : flow'[id].got # None => flow[id].got # c /\ early' = early
  BY <1>1, <1>4, <1>14 DEF TabsInv, AnswersTrue, FlowsTrue
<1>17. \A k \in Conns \ {c} : Awaited(k) => Awaited(k)'
  BY <1>1, <1>4, <1>13 DEF Awaited
<1>18. /\ orphaned \subseteq orphaned' /\ orphaned' \subseteq Conns
       /\ \A k \in Conns : Live(k) /\ k \in Range(tabs) /\ TabOf(owner[k]) = k
                          /\ (owner[k] = owner[c] \/ k \in out) => k \in orphaned'
  <2>1. \A k \in Conns : k \in Range(tabs) /\ owner[k] = owner[c] => k \in out
    BY <1>5, <1>6, Known0 DEF Kind
  <2>2. QED
    BY <1>4, <1>5, <2>1 DEF TabType, Online
<1>19. flow' \in [TabIds -> Connecting] /\ flow' = flow
  BY <1>4, <1>5 DEF CallType
<1>20. active' \in TabIds \cup {None} /\ UNCHANGED <<backendVars, listVars, restoreVars, saving, leaving>>
  BY <1>4, <1>5
<1>21. (\A r \in Profiles : dial'[r] = dial[r] \/ dial'[r].got = None)
  BY <1>13
<1>22. tabs' = Append(Without(out), c)
  BY <1>4
<1>23. \A k \in Conns : flow'[k].pc # "idle" => flow[k].pc # "idle"
  BY <1>19
<1>24. /\ ver \in Vers /\ Owed(c, ver) /\ Ready
  BY <1>5
<1>25. \A id \in TabIds : flow'[id] = flow[id] \/ flow'[id].got = None
  BY <1>19
<1>26. QED
  BY <1>12, <1>13, <1>14, <1>15, <1>16, <1>17, <1>18, <1>19, <1>20, <1>21, <1>22,
     <1>23, <1>24, <1>25, TabArrives

LEMMA ReconnectedKeeps == ASSUME TabsInv, NEW id \in TabIds, Reconnected(id) PROVE TabsInv'
<1>1. PICK c : c = flow[id].got
  OBVIOUS
<1>2. PICK ver : ver = flow[id].ver
  OBVIOUS
<1>3. PICK rest : rest = Without({id, c})
  OBVIOUS
<1>4. /\ flow[id].pc = "dialing" /\ c # None /\ EndTabRpc
      /\ tabs' = Append(rest, c)
      /\ orphaned' = orphaned \cup {o \in Range(rest) : Online(o) /\ Live(o) /\ owner[o] = owner[c]}
      /\ node' = Held([node EXCEPT ![c] = EarlyOr(c, Fresh(ver))], Range(rest) \cup {c}, id)
      /\ active' = IF active = id THEN c ELSE active
      /\ flow' = [flow EXCEPT ![id] = [Idle EXCEPT !.pc = "rows"]]
      /\ UNCHANGED <<backendVars, listVars, restoreVars, dial, saving, deleting, leaving>>
  BY <1>1, <1>2, <1>3 DEF Reconnected
<1>5. /\ CallType /\ TabType /\ BackendType /\ Ready /\ ver \in Vers
      /\ Owed(c, ver) /\ c \in Conns /\ c \in TabIds /\ c \notin Range(tabs)
  <2>1. CallType /\ TabType /\ BackendType /\ Ready
    BY <1>4, UnderWay DEF TabsInv, TabsType
  <2>2. ver \in Vers
    BY <1>2, <2>1 DEF CallType, Connecting
  <2>3. Owed(c, ver)
    BY <1>1, <1>2, <1>4 DEF TabsInv, AnswersTrue, FlowsTrue
  <2>4. QED
    BY <2>1, <2>2, <2>3, Known0 DEF Owed, Shown
<1>6. Range(rest) = Range(tabs) \ {id, c}
  BY <1>3, <1>5, WithoutIs
<1> DEFINE records == [node EXCEPT ![c] = EarlyOr(c, Fresh(ver))]
           left == Range(rest) \cup {c}
<1>7. EarlyOr(c, Fresh(ver)) \in Record
  <2>1. Fresh(ver) \in Record
    BY <1>5 DEF Fresh, Record
  <2>2. QED
    BY <1>5, <2>1, EarlyOrIs DEF TabType
<1>8. /\ records \in [TabIds -> Record] /\ records[c] = EarlyOr(c, Fresh(ver))
      /\ \A k \in TabIds \ {c} : records[k] = node[k]
  BY <1>5, <1>7 DEF TabType
<1>9. node' = Held(records, left, id)
  BY <1>4
<1>10. c \in left /\ (\A k \in Range(tabs) \ {id, c} : k \in left)
  BY <1>6
<1> HIDE DEF records, left
<1>11. /\ Held(records, left, id) \in [TabIds -> Record]
       /\ \A k \in TabIds : k \in left => Held(records, left, id)[k] = records[k]
  BY <1>8, HeldIs
<1>12. /\ node' \in [TabIds -> Record] /\ node'[c] = EarlyOr(c, Fresh(ver))
       /\ \A k \in Conns \ {c} : k \in Range(tabs) \ {id, c} => node'[k] = node[k]
  BY <1>5, <1>8, <1>9, <1>10, <1>11, Known0
<1>13. /\ flow' \in [TabIds -> Connecting] /\ flow'[id].got = None
       /\ \A k \in TabIds \ {id} : flow'[k] = flow[k]
  <2>1. /\ [Idle EXCEPT !.pc = "rows"] \in Connecting /\ [Idle EXCEPT !.pc = "rows"].got = None
    BY Known0 DEF Idle, Connecting
  <2>2. QED
    BY <1>4, <1>5, <2>1 DEF CallType
<1>14. /\ early' = early \/ early' = NoEarly
       /\ \A i, j \in TabIds :
             i # j /\ flow[i].pc = "dialing" /\ flow[j].pc = "dialing" => early' = early
       /\ \A q \in Profiles, k \in TabIds :
             dial[q].pc = "dialing" /\ flow[k].pc = "dialing" => early' = early
  BY <1>4, <1>5, EarlyStays
<1>15. \A r \in Profiles : dial'[r].got # None => dial[r].got # c /\ early' = early
  BY <1>1, <1>4, <1>14 DEF TabsInv, AnswersTrue, DialsTrue
<1>16. \A k \in TabIds : flow'[k].got # None => flow[k].got # c /\ early' = early
  BY <1>1, <1>4, <1>13, <1>14 DEF TabsInv, AnswersTrue, FlowsTrue
<1>17. \A k \in Conns \ {c} : Awaited(k) => Awaited(k)'
  BY <1>1, <1>4, <1>13 DEF Awaited
<1>18. /\ orphaned \subseteq orphaned' /\ orphaned' \subseteq Conns
       /\ \A k \in Conns : Live(k) /\ k \in Range(tabs) /\ TabOf(owner[k]) = k
                          /\ (owner[k] = owner[c] \/ k \in {id, c}) => k \in orphaned'
  <2>1. \A k \in Conns : Live(k) /\ k \in Range(tabs) => k # id /\ k # c
    BY <1>4, <1>5 DEF TabsInv, CutTrue, Live
  <2>2. QED
    BY <1>4, <1>5, <1>6, <2>1 DEF TabType, Online
<1>19. \A k \in Conns : flow'[k].pc # "idle" => flow[k].pc # "idle"
  BY <1>4, <1>13, Known0
<1>20. /\ active' \in TabIds \cup {None} /\ dial' \in [Profiles -> Connecting] /\ dial' = dial
       /\ UNCHANGED <<backendVars, listVars, restoreVars, saving, leaving>>
  BY <1>4, <1>5 DEF TabType, CallType
<1>21. (\A k \in TabIds : flow'[k] = flow[k] \/ flow'[k].got = None)
  BY <1>13
<1>22. tabs' = Append(Without({id, c}), c)
  BY <1>3, <1>4
<1>23. QED
  BY <1>5, <1>12, <1>13, <1>14, <1>15, <1>16, <1>17, <1>18, <1>19, <1>20, <1>21, <1>22, TabArrives
-----------------------------------------------------------------------------
(* The tabs: what holds of every behaviour.                                *)

\* The panel starts in the invariant, steps keep it, and it says what is wanted.
LEMMA InitTabsInv == ASSUME Init PROVE TabsInv
<1>1. /\ life \in [Conns -> {"none", "dialing", "up", "lost"}]
      /\ \A c \in Conns : c > 1 => life[c] = "none"
      /\ \E p \in Profiles : owner = [c \in Conns |-> p]
      /\ dialed = [c \in Conns |-> 0] /\ news = [c \in Conns |-> <<>>]
      /\ listed = {}
      /\ saved = [p \in Profiles |-> Loaded]
      /\ tabs = <<>> /\ node = [id \in TabIds |-> Fresh(0)] /\ active = None
      /\ early = NoEarly /\ restore = "start"
      /\ snapshot = [live |-> {}, up |-> {}, profiles |-> {p \in Profiles : stored[p] = "kept"}]
      /\ dial = [p \in Profiles |-> Idle] /\ flow = [id \in TabIds |-> Idle]
      /\ saving = [p \in Profiles |-> NotSaving] /\ leaving = {} /\ orphaned = {}
  BY DEF Init, Unread
<1>2. Fresh(0) \in Record /\ NotSaving \in SaveOf /\ Idle \in Connecting /\ Idle.got = None /\ Idle.pc = "idle"
  BY Known0, IdleIs DEF Fresh, Record, NotSaving, SaveOf
<1>3. BackendType
  <2>1. <<>> \in Seq(Events)
    OBVIOUS
  <2>2. QED
    BY <1>1, <2>1, Known0 DEF BackendType, Lives
<1>4. TabType
  BY <1>1, <1>2, Known0 DEF TabType, NoEarly, EarlyStates, Loaded
<1>5. CallType
  BY <1>1, <1>2 DEF CallType
<1>6. NewsTrue
  <2>1. \A c \in Conns : NewsOf(<<>>, life[c], None)
    BY DEF NewsOf
  <2>2. QED
    BY <1>1, <2>1 DEF NewsTrue, NoEarly
<1>7. RecordTrue
  BY <1>1, RangeEmpty DEF RecordTrue, Shown
<1>8. AnswersTrue
  <2>1. (\A p \in Profiles : dial[p].got = None) /\ (\A id \in TabIds : flow[id].got = None)
    BY <1>1, <1>2
  <2>2. QED
    BY <2>1 DEF AnswersTrue, DialsTrue, FlowsTrue
<1>9. CutTrue
  BY <1>1, <1>2, Known0 DEF CutTrue
<1>10. FirstTrue
  <2>1. \A c \in Conns : c # 1 => c > 1
    BY TabAssumption DEF Conns
  <2>2. \A c \in Conns : EarlyOf(early[c], life[c], news[c])
    BY <1>1, Known0 DEF EarlyOf, NoEarly, Events
  <2>3. QED
    BY <1>1, <2>1, <2>2 DEF FirstTrue
<1>11. ReachTrue
  BY <1>1 DEF ReachTrue, Ready
<1>12. QED
  BY <1>3, <1>4, <1>5, <1>6, <1>7, <1>8, <1>9, <1>10, <1>11 DEF TabsInv, TabsType

LEMMA StutterTabsInv == ASSUME TabsInv, UNCHANGED vars PROVE TabsInv'
<1>1. /\ UNCHANGED <<life, owner, dialed, news, listed, saved, tabs, node, active, early, orphaned,
                     restore, snapshot, dial, flow, saving, leaving>>
  BY DEF vars
<1>2. TabsType'
  BY <1>1 DEF TabsInv, TabsType, BackendType, TabType, CallType
<1>3. \A k \in Conns : Stays(k) /\ (TabOf(owner[k]) = k => (TabOf(owner[k]))' = k)
  BY <1>1, TabOfOwner DEF Stays
<1>4. UNCHANGED FirstVars
  BY <1>1
<1>5. QED
  BY <1>1, <1>2, <1>3, <1>4, Frame

LEMMA NextTabsInv == ASSUME TabsInv, [Next]_vars PROVE TabsInv'
<1>1. CASE UNCHANGED vars
  BY <1>1, StutterTabsInv
<1>2. CASE Backend
  BY <1>2, HappensKeeps DEF Backend
<1>3. CASE Hear
  BY <1>3, HearKeeps DEF Hear
<1>4. CASE Restoring
  BY <1>4, LoadFailsKeeps, AskRestoreKeeps, AnswerRestoreKeeps, RestoreKeeps DEF Restoring
<1>5. CASE Ready /\ User
  <2>1. CASE ClickConnect \/ ClickDisconnect
    BY <1>5, <2>1, ClickConnectKeeps, ClickDisconnectKeeps
  <2>2. CASE \E p \in Profiles : ClickProfile(p) \/ AskDelete(p)
    BY <1>5, <2>2, ClickProfileKeeps, AskDeleteKeeps
  <2>3. CASE \E ver \in Vers : \/ EditBroker(ver)
                              \/ \E p \in Profiles, kind \in {"save", "connect"} : AskSave(p, kind, ver)
    BY <1>5, <2>3, EditBrokerKeeps, AskSaveKeeps
  <2>4. QED
    BY <1>5, <2>1, <2>2, <2>3 DEF User
<1>6. CASE Answers
  <2>1. ASSUME NEW p \in Profiles,
               \/ SaveFails(p) \/ SavedEdit(p) \/ SavedProfile(p)
               \/ SavedThenReconnect(p) \/ SavedThenConnect(p)
               \/ DeleteFails(p) \/ Deleted(p) \/ DialAnswered(p) \/ DialRefused(p)
        PROVE  TabsInv'
    BY <2>1, SaveFailsKeeps, SavedEditKeeps, SavedProfileKeeps, SavedThenReconnectKeeps,
       SavedThenConnectKeeps, DeleteFailsKeeps, DeletedKeeps, DialAnsweredKeeps, DialRefusedKeeps
  <2>2. ASSUME NEW c \in Conns, AnswerDisconnect(c) PROVE TabsInv'
    BY <2>2, AnswerDisconnectKeeps
  <2>3. ASSUME NEW id \in TabIds,
               CutAnswered(id) \/ ReconnectRefused(id) \/ Reconnected(id) \/ RowsDone(id)
        PROVE  TabsInv'
    BY <2>3, CutAnsweredKeeps, ReconnectRefusedKeeps, ReconnectedKeeps, RowsDoneKeeps
  <2>4. QED
    BY <1>6, <2>1, <2>2, <2>3 DEF Answers
<1>7. QED
  BY <1>1, <1>2, <1>3, <1>4, <1>5, <1>6 DEF Next

\* The tabs keep their invariant whatever the user does, and in whatever order
\* answers and events arrive.
THEOREM TabsInvHolds == Spec => []TabsInv
<1>1. Init => TabsInv
  BY InitTabsInv
<1>2. TabsInv /\ [Next]_vars => TabsInv'
  BY NextTabsInv
<1>3. QED
  BY <1>1, <1>2, PTL DEF Spec

LEMMA TabsInvTruth == ASSUME TabsInv PROVE TabTruth /\ NothingHidden /\ TargetTrue
<1>1. NothingHidden
  BY DEF TabsInv, ReachTrue, Known, NothingHidden
<1>2. ASSUME NEW c \in Conns, Shown(c)
      PROVE  /\ RecordOf(node[c], life[c], news[c], dialed[c]) /\ node[c] \in Record
             /\ life[c] \in Lives /\ life[c] # "none"
  BY <1>2, Known0 DEF TabsInv, TabsType, TabType, BackendType, RecordTrue, RecordOf
<1>3. TabTruth
  <2>1. ASSUME NEW c \in Conns, Shown(c)
        PROVE  /\ node[c].closed => ~node[c].connected
               /\ news[c] = <<>> => /\ node[c].connected <=> life[c] = "up"
                                   /\ node[c].closed <=> ~Live(c)
    BY <1>2, <2>1 DEF RecordOf, Live, Lives
  <2>2. QED
    BY <2>1 DEF TabTruth
<1>4. TargetTrue
  BY <1>2 DEF RecordOf, TargetTrue, Live, Living
<1>5. QED
  BY <1>1, <1>3, <1>4

\* A tab tells the truth of its connection once it has heard everything.
THEOREM TabsTellTruth == Spec => []TabTruth
<1>1. TabsInv => TabTruth
  BY TabsInvTruth
<1>2. QED
  BY <1>1, TabsInvHolds, PTL

\* No connection that the backend keeps is out of the user's reach.
THEOREM NothingEverHidden == Spec => []NothingHidden
<1>1. TabsInv => NothingHidden
  BY TabsInvTruth
<1>2. QED
  BY <1>1, TabsInvHolds, PTL

\* A tab names the broker that its connection goes to.
THEOREM TargetsAlwaysTrue == Spec => []TargetTrue
<1>1. TabsInv => TargetTrue
  BY TabsInvTruth
<1>2. QED
  BY <1>1, TabsInvHolds, PTL

\* The panel's tabs are those, whatever its other parts do.
THEOREM PanelHasTabs == FrontSpec => Spec
<1>1. FrontInit => Init
  BY DEF FrontInit
<1>2. [FrontNext]_frontVars => [Next]_vars
  <2>1. SUFFICES ASSUME [FrontNext]_frontVars PROVE [Next]_vars
    OBVIOUS
  <2>2. CASE UNCHANGED frontVars
    BY <2>2 DEF frontVars
  <2>3. CASE FrontNext
    BY <2>3 DEF FrontNext
  <2>4. QED
    BY <2>1, <2>2, <2>3
<1>3. QED
  BY <1>1, <1>2, PTL DEF Spec, FrontSpec
-----------------------------------------------------------------------------
(* The messages: the inductive invariant.                                  *)

Message == [n : Nat \ {0}, topic : Names, tab : OpenTabs]
MessagesType ==
    /\ subscribed \in [OpenTabs -> SUBSET Filters] /\ muted \in [OpenTabs -> SUBSET Filters]
    /\ buffer \in Seq(Message) /\ messages \in [OpenTabs -> Seq(Message)]
    /\ selected \in [OpenTabs -> Message \cup {Nothing}] /\ follow \in [OpenTabs -> BOOLEAN]
    /\ inFront \in OpenTabs /\ arrived \in Nat /\ due \in [OpenTabs -> SUBSET Nat]

\* Messages are kept in the order of their arrival; what waits is newer than
\* what is shown.
InOrder(ms) == \A i, j \in 1 .. Len(ms) : i < j => ms[i].n < ms[j].n
OrderTrue ==
    /\ InOrder(buffer) /\ \A m \in Range(buffer) : m.n <= arrived
    /\ \A c \in OpenTabs :
          /\ InOrder(messages[c]) /\ Len(messages[c]) <= MaxMessages
          /\ \A m \in Range(messages[c]) :
                m.n <= arrived /\ \A w \in Range(buffer) : m.n < w.n

\* A message that is due waits where it will be let through, is shown, or is
\* older than a full list.
Waits(c, n) == \E m \in Range(buffer) : m.n = n /\ m.tab = c /\ Passes(c, m.topic)
OldFor(ms, n) == Len(ms) = MaxMessages /\ \A m \in Range(ms) : n < m.n
In(ms, n) == \E m \in Range(ms) : m.n = n
DueTrue == \A c \in OpenTabs : \A n \in due[c] :
              Waits(c, n) \/ In(messages[c], n) \/ OldFor(messages[c], n)

MessagesInv == MessagesType /\ OrderTrue /\ DueTrue /\ FollowShown
MessagesSpec == MessagesInit /\ [][MessagesNext]_messageVars

\* The elements of a sequence are its range.
LEMMA RangeIs ==
  ASSUME NEW A, NEW s \in Seq(A)
  PROVE  /\ Len(s) \in Nat /\ \A i \in 1 .. Len(s) : s[i] \in A /\ s[i] \in Range(s)
         /\ \A x \in Range(s) : x \in A /\ \E i \in 1 .. Len(s) : s[i] = x
<1>1. DOMAIN s = 1 .. Len(s) /\ Len(s) \in Nat /\ \A i \in 1 .. Len(s) : s[i] \in A
  BY LenProperties, ElementOfSeq
<1>2. QED
  BY <1>1 DEF Range

\* A later message keeps a list in order.
LEMMA AppendInOrder ==
  ASSUME NEW s \in Seq(Message), NEW m \in Message, InOrder(s), \A k \in Range(s) : k.n < m.n
  PROVE  InOrder(Append(s, m))
<1>1. /\ Len(Append(s, m)) = Len(s) + 1 /\ Append(s, m)[Len(s) + 1] = m
      /\ \A i \in 1 .. Len(s) : Append(s, m)[i] = s[i]
  BY AppendProperties
<1>2. Len(s) \in Nat /\ \A i \in 1 .. Len(s) : s[i] \in Range(s)
  BY RangeIs
<1>3. ASSUME NEW i \in 1 .. Len(s) + 1, NEW j \in 1 .. Len(s) + 1, i < j
      PROVE  Append(s, m)[i].n < Append(s, m)[j].n
  <2>1. i \in 1 .. Len(s)
    BY <1>2, <1>3
  <2>2. CASE j \in 1 .. Len(s)
    BY <1>1, <1>3, <2>1, <2>2 DEF InOrder
  <2>3. CASE j = Len(s) + 1
    BY <1>1, <1>2, <2>1, <2>3
  <2>4. QED
    BY <1>2, <2>2, <2>3
<1>4. QED
  BY <1>1, <1>3 DEF InOrder

\* The newest messages of a list in order are in order, and what is left out is older.
LEMMA PrefixInOrder ==
  ASSUME NEW s \in Seq(Message), NEW m \in Message, InOrder(Append(s, m))
  PROVE  InOrder(s) /\ \A k \in Range(s) : k.n < m.n
<1>1. /\ Len(Append(s, m)) = Len(s) + 1 /\ Append(s, m)[Len(s) + 1] = m
      /\ \A i \in 1 .. Len(s) : Append(s, m)[i] = s[i]
  BY AppendProperties
<1>2. Len(s) \in Nat /\ \A k \in Range(s) : \E i \in 1 .. Len(s) : s[i] = k
  BY RangeIs
<1>3. \A i \in 1 .. Len(s) : i \in 1 .. Len(s) + 1 /\ i < Len(s) + 1 /\ Len(s) + 1 \in 1 .. Len(s) + 1
  BY <1>2
<1>4. InOrder(s)
  BY <1>1, <1>3 DEF InOrder
<1>5. \A i \in 1 .. Len(s) : s[i].n < m.n
  BY <1>1, <1>3 DEF InOrder
<1>6. QED
  BY <1>2, <1>4, <1>5

\* A filter keeps the order.
LEMMA OnlyInOrder ==
  ASSUME NEW s \in Seq(Message), NEW S, InOrder(s)
  PROVE  InOrder(Only(s, S))
<1> DEFINE K == {t \in Seq(Message) : InOrder(t) /\ ~InOrder(Only(t, S))}
<1>1. SUFFICES ASSUME K # {} PROVE FALSE
  OBVIOUS
<1>2. PICK t \in K : t = <<>> \/ \E u \in Seq(Message), x \in Message : t = Append(u, x) /\ u \notin K
  BY <1>1, Shortest
<1>3. CASE t = <<>>
  BY <1>3, OnlyEmpty DEF InOrder
<1>4. ASSUME NEW u \in Seq(Message), NEW x \in Message, t = Append(u, x), u \notin K PROVE FALSE
  <2>1. InOrder(u) /\ \A k \in Range(u) : k.n < x.n
    BY <1>4, PrefixInOrder
  <2>2. InOrder(Only(u, S))
    BY <1>4, <2>1
  <2>3. Only(u, S) \in Seq(Message) /\ Range(Only(u, S)) = Range(u) \cap S
    BY OnlyRange
  <2>4. Only(t, S) = IF x \in S THEN Append(Only(u, S), x) ELSE Only(u, S)
    BY <1>4, OnlyAppend
  <2>5. InOrder(Append(Only(u, S), x))
    BY <2>1, <2>2, <2>3, AppendInOrder
  <2>6. QED
    BY <2>2, <2>4, <2>5
<1>5. QED
  BY <1>2, <1>3, <1>4

\* Two lists in order, one before the other.
LEMMA ConcatInOrder ==
  ASSUME NEW s \in Seq(Message), NEW t \in Seq(Message), InOrder(s), InOrder(t),
         \A k \in Range(s), m \in Range(t) : k.n < m.n
  PROVE  InOrder(s \o t)
<1>1. /\ Len(s \o t) = Len(s) + Len(t)
      /\ \A i \in 1 .. Len(s) + Len(t) : (s \o t)[i] = IF i <= Len(s) THEN s[i] ELSE t[i - Len(s)]
  BY ConcatProperties
<1>2. /\ Len(s) \in Nat /\ \A i \in 1 .. Len(s) : s[i] \in Range(s)
      /\ Len(t) \in Nat /\ \A i \in 1 .. Len(t) : t[i] \in Range(t)
  BY RangeIs
<1>3. ASSUME NEW i \in 1 .. Len(s) + Len(t), NEW j \in 1 .. Len(s) + Len(t), i < j
      PROVE  (s \o t)[i].n < (s \o t)[j].n
  <2>1. CASE j <= Len(s)
    <3>1. i \in 1 .. Len(s) /\ j \in 1 .. Len(s) /\ i <= Len(s)
      BY <1>2, <1>3, <2>1
    <3>2. QED
      BY <1>1, <1>3, <2>1, <3>1 DEF InOrder
  <2>2. CASE i <= Len(s) /\ ~(j <= Len(s))
    <3>1. i \in 1 .. Len(s) /\ j - Len(s) \in 1 .. Len(t)
      BY <1>2, <2>2
    <3>2. QED
      BY <1>1, <1>2, <2>2, <3>1
  <2>3. CASE ~(i <= Len(s))
    <3>1. /\ i - Len(s) \in 1 .. Len(t) /\ j - Len(s) \in 1 .. Len(t)
          /\ i - Len(s) < j - Len(s) /\ ~(j <= Len(s))
      BY <1>2, <1>3, <2>3
    <3>2. QED
      BY <1>1, <2>3, <3>1 DEF InOrder
  <2>4. QED
    BY <1>2, <2>1, <2>2, <2>3
<1>4. QED
  BY <1>1, <1>3 DEF InOrder

\* What a full list loses is older than all that it keeps.
LEMMA NewestIs ==
  ASSUME NEW s \in Seq(Message), InOrder(s), MaxMessages \in Nat \ {0}
  PROVE  /\ Newest(s) \in Seq(Message) /\ InOrder(Newest(s)) /\ Len(Newest(s)) <= MaxMessages
         /\ Range(Newest(s)) \subseteq Range(s)
         /\ \A m \in Range(s) : m \in Range(Newest(s)) \/ OldFor(Newest(s), m.n)
         /\ Len(s) <= MaxMessages => Newest(s) = s
         /\ Len(s) > MaxMessages => Len(Newest(s)) = MaxMessages
<1>1. Len(s) \in Nat /\ (\A i \in 1 .. Len(s) : s[i] \in Range(s))
      /\ \A m \in Range(s) : \E i \in 1 .. Len(s) : s[i] = m
  BY RangeIs
<1>2. CASE Len(s) <= MaxMessages
  BY <1>1, <1>2 DEF Newest
<1>3. CASE Len(s) > MaxMessages
  <2> DEFINE d == Len(s) - MaxMessages
             r == SubSeq(s, d + 1, Len(s))
  <2>1. d \in Nat /\ d + 1 \in 1 .. Len(s) /\ Len(s) - (d + 1) + 1 = MaxMessages
    BY <1>1, <1>3
  <2>2. Newest(s) = r
    BY <1>3 DEF Newest
  <2>3. /\ r \in Seq(Message) /\ Len(r) = MaxMessages
        /\ \A i \in 1 .. MaxMessages : r[i] = s[d + i] /\ d + i \in 1 .. Len(s)
    <3>1. d + 1 \in 1 .. Len(s) + 1 /\ Len(s) \in d .. Len(s)
      BY <1>1, <2>1
    <3>2. /\ r \in Seq(Message) /\ Len(r) = MaxMessages
          /\ \A i \in 1 .. MaxMessages : r[i] = s[d + 1 + i - 1]
      BY <2>1, <3>1, SubSeqProperties
    <3>3. \A i \in 1 .. MaxMessages : d + 1 + i - 1 = d + i /\ d + i \in 1 .. Len(s)
      BY <1>1, <1>3, <2>1
    <3>4. QED
      BY <3>2, <3>3
  <2> HIDE DEF r, d
  <2>4. /\ \A i \in 1 .. MaxMessages : r[i] \in Range(r)
        /\ \A m \in Range(r) : \E i \in 1 .. MaxMessages : r[i] = m
    BY <2>3, RangeIs
  <2>5. \A i, j \in 1 .. MaxMessages : i < j => d + i < d + j
    BY <2>1
  <2>6. InOrder(r)
    BY <2>3, <2>5 DEF InOrder
  <2>7. Range(r) \subseteq Range(s)
    <3>1. SUFFICES ASSUME NEW m \in Range(r) PROVE m \in Range(s)
      OBVIOUS
    <3>2. PICK i \in 1 .. MaxMessages : r[i] = m
      BY <2>4
    <3>3. r[i] = s[d + i] /\ s[d + i] \in Range(s)
      BY <1>1, <2>3
    <3>4. QED
      BY <3>2, <3>3
  <2>8. ASSUME NEW m \in Range(s), m \notin Range(r) PROVE OldFor(r, m.n)
    <3>1. PICK i \in 1 .. Len(s) : s[i] = m
      BY <1>1
    <3>2. i <= d
      <4>1. CASE i > d
        <5>1. i - d \in 1 .. MaxMessages /\ d + (i - d) = i
          BY <1>1, <2>1, <4>1 DEF d
        <5>2. QED
          BY <2>3, <2>4, <2>8, <3>1, <5>1
      <4>2. QED
        BY <2>1, <4>1
    <3>3. \A j \in 1 .. MaxMessages : i < d + j /\ d + j \in 1 .. Len(s)
      BY <2>1, <2>3, <3>2
    <3>4. \A j \in 1 .. MaxMessages : m.n < r[j].n
      BY <2>3, <3>1, <3>3 DEF InOrder
    <3>5. QED
      BY <2>3, <2>4, <3>4 DEF OldFor
  <2>9. QED
    BY <1>1, <1>3, <2>2, <2>3, <2>6, <2>7, <2>8
<1>4. QED
  BY <1>1, <1>2, <1>3
-----------------------------------------------------------------------------
(* What each step leaves of it.                                            *)

\* Steps keep the types.
LEMMA MessagesTyped ==
  ASSUME MessagesInv
  PROVE  /\ \A w \in Range(buffer) : w \in Message /\ w.n \in Nat /\ w.topic \in Names /\ w.n <= arrived
         /\ \A c \in OpenTabs : \A w \in Range(messages[c]) :
               w \in Message /\ w.n \in Nat /\ w.topic \in Names /\ w.n <= arrived
<1>1. \A w \in Message : w.n \in Nat /\ w.topic \in Names
  BY DEF Message
<1>2. buffer \in Seq(Message) /\ \A c \in OpenTabs : messages[c] \in Seq(Message)
  BY DEF MessagesInv, MessagesType
<1>3. \A w \in Range(buffer) : w \in Message
  BY <1>2, RangeIs
<1>4. \A c \in OpenTabs : \A w \in Range(messages[c]) : w \in Message
  BY <1>2, RangeIs
<1>5. QED
  BY <1>1, <1>3, <1>4 DEF MessagesInv, OrderTrue


\* The effects of a step select a message that is shown.
LEMMA EffectsShow ==
  ASSUME MessagesType, NEW ms \in [OpenTabs -> Seq(Message)], NEW fs \in [OpenTabs -> SUBSET Filters],
         NEW c \in OpenTabs, NEW fol \in [OpenTabs -> BOOLEAN], NEW f,
         NEW sel \in [OpenTabs -> Message \cup {Nothing}],
         Effects(ms, fs, c, fol, f, sel),
         messages' = ms, subscribed' = fs, follow' = fol, inFront' = c
  PROVE  selected' \in [OpenTabs -> Message \cup {Nothing}] /\ FollowShown'
<1> DEFINE kept == IF f \in FilterTopics(fs[c], ms[c]) THEN f ELSE Nothing
           vis == Visible(ms[c], fs[c], kept)
<1>1. /\ filter' = kept
      /\ selected' = IF fol[c] /\ vis # <<>> THEN [selected EXCEPT ![c] = Last(vis)] ELSE sel
  BY DEF Effects, Follow
<1>2. vis \in Seq(Message)
  BY OnlyRange DEF Visible
<1>3. (Visible(messages[inFront], subscribed[inFront], filter))' = vis
  BY <1>1 DEF Visible
<1> HIDE DEF vis, kept
<1>4. vis # <<>> => Last(vis) \in Range(vis) /\ Last(vis) \in Message
  <2>1. CASE vis # <<>>
    <3>1. Len(vis) \in 1 .. Len(vis)
      BY <1>2, <2>1, EmptySeq, RangeIs
    <3>2. QED
      BY <1>2, <3>1, RangeIs DEF Last
  <2>2. QED
    BY <2>1
<1>5. selected' \in [OpenTabs -> Message \cup {Nothing}]
  BY <1>1, <1>4 DEF MessagesType
<1>6. fol[c] /\ vis # <<>> => selected'[c] \in Range(vis)
  BY <1>1, <1>4 DEF MessagesType
<1>7. FollowShown'
  BY <1>3, <1>6 DEF FollowShown
<1>8. QED
  BY <1>5, <1>7

\* What a row that goes or is muted no longer lets through is not due.
LEMMA StillDueStep ==
  ASSUME MessagesInv, NEW fs, NEW mu, StillDue(fs, mu),
         subscribed' = fs, muted' = mu, UNCHANGED <<buffer, messages, arrived>>
  PROVE  due' \in [OpenTabs -> SUBSET Nat] /\ DueTrue'
<1>1. due' = [c \in OpenTabs |-> {n \in due[c] : \A i \in DOMAIN buffer :
                 buffer[i].n = n => \E f \in fs[c] \ mu[c] : Covers(f, buffer[i].topic)}]
  BY DEF StillDue
<1>2. \A c \in OpenTabs : due'[c] \subseteq due[c]
  BY <1>1
<1>3. ASSUME NEW c \in OpenTabs, NEW n \in due'[c], Waits(c, n) PROVE Waits(c, n)'
  <2>1. PICK m \in Range(buffer) : m.n = n /\ m.tab = c
    BY <1>3 DEF Waits
  <2>2. PICK i \in DOMAIN buffer : buffer[i] = m
    BY <2>1 DEF Range
  <2>3. \E f \in fs[c] \ mu[c] : Covers(f, m.topic)
    BY <1>1, <1>3, <2>1, <2>2
  <2>4. QED
    BY <2>1, <2>3 DEF Waits, Passes
<1>4. \A c \in OpenTabs : \A n \in due'[c] :
         Waits(c, n)' \/ In(messages'[c], n) \/ OldFor(messages'[c], n)
  BY <1>2, <1>3 DEF MessagesInv, DueTrue
<1>5. QED
  BY <1>1, <1>4 DEF MessagesInv, MessagesType, DueTrue

\* A step after which the rows let through what they did.
LEMMA DueStays ==
  ASSUME MessagesInv, UNCHANGED <<buffer, messages, due>>,
         \A c \in OpenTabs, t \in Names : Passes(c, t) => Passes(c, t)'
  PROVE  DueTrue'
<1>1. ASSUME NEW c \in OpenTabs, NEW n, Waits(c, n) PROVE Waits(c, n)'
  <2>1. PICK m \in Range(buffer) : m.n = n /\ m.tab = c /\ Passes(c, m.topic)
    BY <1>1 DEF Waits
  <2>2. m.topic \in Names
    BY <2>1, MessagesTyped
  <2>3. \A t \in Names : t = m.topic => Passes(c, t)'
    BY <2>1
  <2>4. PICK t \in Names : t = m.topic
    BY <2>2
  <2>5. Passes(c, t)'
    BY <2>3, <2>4
  <2>6. QED
    BY <2>1, <2>4, <2>5 DEF Waits, Passes
<1>2. QED
  BY <1>1 DEF MessagesInv, DueTrue

\* Steps that move no message.
LEMMA OrderStays == ASSUME OrderTrue, UNCHANGED <<buffer, messages, arrived>> PROVE OrderTrue'
  BY DEF OrderTrue, InOrder

\* One lemma for each step of the panel.
LEMMA ArriveKeeps == ASSUME MessagesInv, NEW c \in OpenTabs, NEW t \in Names, Arrive(c, t) PROVE MessagesInv'
<1>0. PICK m : m = [n |-> arrived + 1, topic |-> t, tab |-> c]
  OBVIOUS
<1>1. /\ arrived' = arrived + 1
      /\ IF Len(buffer) < MaxBuffered
         THEN /\ buffer' = Append(buffer, m)
              /\ due' = IF Passes(c, t) THEN [due EXCEPT ![c] = @ \cup {m.n}] ELSE due
         ELSE UNCHANGED <<buffer, due>>
      /\ UNCHANGED <<subscribed, muted, messages, selected, follow, filter, inFront, clicks>>
  BY <1>0 DEF Arrive
<1>2. m \in Message /\ m.n = arrived + 1 /\ m.topic = t /\ m.tab = c /\ arrived + 1 \in Nat /\ arrived \in Nat
  BY <1>0 DEF MessagesInv, MessagesType, Message
<1>3. buffer \in Seq(Message) /\ \A w \in Range(buffer) : w \in Message /\ w.n <= arrived /\ w.n < m.n
  <2>1. buffer \in Seq(Message) /\ \A w \in Range(buffer) : w \in Message /\ w.n <= arrived /\ w.n \in Nat
    BY MessagesTyped DEF MessagesInv, MessagesType
  <2>2. QED
    BY <1>2, <2>1
<1>4. FollowShown'
  BY <1>1 DEF MessagesInv, FollowShown, Visible
<1>5. \A k \in OpenTabs : \A s \in Range(messages[k]) : s \in Message /\ s.n <= arrived /\ s.n \in Nat
  BY MessagesTyped
<1>6. \A k \in OpenTabs : \A s \in Range(messages[k]) : s.n < m.n /\ s.n <= arrived + 1
  BY <1>2, <1>5
<1>7. CASE Len(buffer) < MaxBuffered
  <2>1. buffer' = Append(buffer, m)
    BY <1>1, <1>7
  <2>2. due' = IF Passes(c, t) THEN [due EXCEPT ![c] = @ \cup {m.n}] ELSE due
    BY <1>1, <1>7
  <2>3. buffer' \in Seq(Message) /\ Range(buffer') = Range(buffer) \cup {m} /\ InOrder(buffer')
    BY <1>2, <1>3, <2>1, AppendProperties, RangeAppend, AppendInOrder DEF MessagesInv, OrderTrue
  <2>4. MessagesType'
    BY <1>1, <1>2, <2>2, <2>3 DEF MessagesInv, MessagesType
  <2>5. \A w \in Range(buffer') : w.n <= arrived'
    <3>1. \A w \in Range(buffer) : w.n <= arrived + 1
      BY <1>2, <1>3 DEF Message
    <3>2. QED
      BY <1>1, <1>2, <2>3, <3>1
  <2>6. OrderTrue'
    BY <1>1, <1>6, <2>3, <2>5 DEF MessagesInv, OrderTrue, InOrder
  <2>7. ASSUME NEW k \in OpenTabs, NEW n, Waits(k, n) PROVE Waits(k, n)'
    BY <1>1, <2>3, <2>7 DEF Waits, Passes
  <2>8. Passes(c, t) => Waits(c, m.n)'
    BY <1>1, <1>2, <2>3 DEF Waits, Passes
  <2>9. ASSUME NEW k \in OpenTabs, NEW n \in due'[k]
        PROVE  n \in due[k] \/ (k = c /\ n = m.n /\ Passes(c, t))
    BY <2>2, <2>9 DEF MessagesInv, MessagesType
  <2>10. ASSUME NEW k \in OpenTabs, NEW n \in due'[k]
         PROVE  Waits(k, n)' \/ In(messages'[k], n) \/ OldFor(messages'[k], n)
    <3>1. CASE n \in due[k]
      BY <1>1, <2>7, <3>1 DEF MessagesInv, DueTrue
    <3>2. CASE k = c /\ n = m.n /\ Passes(c, t)
      <4>1. Waits(c, m.n)'
        BY <2>8, <3>2
      <4>2. QED
        BY <3>2, <4>1
    <3>3. QED
      BY <2>9, <3>1, <3>2
  <2>11. DueTrue'
    BY <2>10 DEF DueTrue
  <2>12. QED
    BY <1>4, <2>4, <2>6, <2>11 DEF MessagesInv
<1>8. CASE ~(Len(buffer) < MaxBuffered)
  <2>1. UNCHANGED <<buffer, due>>
    BY <1>1, <1>8
  <2>2. MessagesType'
    BY <1>1, <1>2, <2>1 DEF MessagesInv, MessagesType
  <2>3. \A w \in Range(buffer) : w.n <= arrived + 1
    BY <1>2, <1>3 DEF Message
  <2>4. OrderTrue'
    BY <1>1, <1>6, <2>1, <2>3 DEF MessagesInv, OrderTrue, InOrder
  <2>5. DueTrue'
    BY <1>1, <2>1, DueStays DEF Passes
  <2>6. QED
    BY <1>4, <2>2, <2>4, <2>5 DEF MessagesInv
<1>9. QED
  BY <1>7, <1>8

LEMMA FlushKeeps == ASSUME MessagesInv, Flush PROVE MessagesInv'
<1> DEFINE batch(c) == Only(buffer, {m \in Range(buffer) : m.tab = c /\ Passes(c, m.topic)})
           next == [c \in OpenTabs |-> IF batch(c) = <<>> THEN messages[c] ELSE Newest(messages[c] \o batch(c))]
<1>1. /\ buffer # <<>> /\ buffer' = <<>> /\ messages' = next
      /\ IF next[inFront] = messages[inFront] THEN UNCHANGED <<filter, selected>>
         ELSE Effects(next, subscribed, inFront, follow, filter, selected)
      /\ UNCHANGED <<subscribed, muted, follow, inFront, arrived, clicks, due>>
  BY DEF Flush, Kept
<1>2. /\ MaxMessages \in Nat \ {0} /\ buffer \in Seq(Message) /\ InOrder(buffer)
      /\ \A c \in OpenTabs :
            /\ messages[c] \in Seq(Message) /\ InOrder(messages[c]) /\ Len(messages[c]) <= MaxMessages
            /\ \A m \in Range(messages[c]), w \in Range(buffer) : m.n < w.n
  BY MessagesAssumption DEF MessagesInv, MessagesType, OrderTrue
<1>3. ASSUME NEW c \in OpenTabs
      PROVE  /\ batch(c) \in Seq(Message) /\ InOrder(batch(c))
             /\ Range(batch(c)) = {m \in Range(buffer) : m.tab = c /\ Passes(c, m.topic)}
  <2> DEFINE S == {m \in Range(buffer) : m.tab = c /\ Passes(c, m.topic)}
  <2>1. S \subseteq Range(buffer) /\ batch(c) = Only(buffer, S)
    OBVIOUS
  <2> HIDE DEF S
  <2>2. Only(buffer, S) \in Seq(Message) /\ Range(Only(buffer, S)) = Range(buffer) \cap S
    BY <1>2, OnlyRange
  <2>3. InOrder(Only(buffer, S))
    BY <1>2, OnlyInOrder
  <2>4. QED
    BY <2>1, <2>2, <2>3 DEF S
<1>4. ASSUME NEW c \in OpenTabs
      PROVE  /\ next[c] \in Seq(Message) /\ InOrder(next[c]) /\ Len(next[c]) <= MaxMessages
             /\ Range(next[c]) \subseteq Range(messages[c]) \cup Range(buffer)
             /\ \A m \in Range(messages[c]) \cup Range(batch(c)) :
                   m \in Range(next[c]) \/ OldFor(next[c], m.n)
             /\ \A n \in Nat : OldFor(messages[c], n) => OldFor(next[c], n)
  <2> DEFINE b == batch(c)
             s == messages[c] \o b
  <2>1. b \in Seq(Message) /\ InOrder(b) /\ Range(b) \subseteq Range(buffer)
    BY <1>3
  <2>2. next[c] = IF b = <<>> THEN messages[c] ELSE Newest(s)
    OBVIOUS
  <2> HIDE DEF b, next, batch
  <2>3. CASE b = <<>>
    <3>1. Range(b) = {}
      BY <2>3, RangeEmpty
    <3>2. QED
      BY <1>2, <2>2, <2>3, <3>1 DEF b
  <2>4. CASE b # <<>>
    <3>1. s \in Seq(Message) /\ Range(s) = Range(messages[c]) \cup Range(b) /\ Len(s) = Len(messages[c]) + Len(b)
      BY <1>2, <2>1, RangeConcatenation, ConcatProperties
    <3>2. InOrder(s)
      BY <1>2, <2>1, ConcatInOrder
    <3> HIDE DEF s
    <3>3. /\ Newest(s) \in Seq(Message) /\ InOrder(Newest(s)) /\ Len(Newest(s)) <= MaxMessages
          /\ Range(Newest(s)) \subseteq Range(s)
          /\ \A m \in Range(s) : m \in Range(Newest(s)) \/ OldFor(Newest(s), m.n)
          /\ Len(s) > MaxMessages => Len(Newest(s)) = MaxMessages
      BY <1>2, <3>1, <3>2, NewestIs
    <3>4. ASSUME NEW n \in Nat, OldFor(messages[c], n) PROVE OldFor(Newest(s), n)
      <4>1. Len(messages[c]) = MaxMessages /\ \A m \in Range(messages[c]) : n < m.n
        BY <3>4 DEF OldFor
      <4>2. Len(b) \in Nat \ {0} /\ Len(messages[c]) \in Nat
        BY <1>2, <2>1, <2>4, EmptySeq, LenProperties
      <4>3. Len(Newest(s)) = MaxMessages
        BY <1>2, <3>1, <3>3, <4>1, <4>2
      <4>4. PICK m \in Range(messages[c]) : m \in Message /\ n < m.n
        <5>1. 1 \in 1 .. Len(messages[c])
          BY <1>2, <4>1
        <5>2. QED
          BY <1>2, <4>1, <5>1, RangeIs
      <4>5. \A w \in Range(buffer) : n < w.n
        <5>1. \A w \in Range(buffer) : m.n < w.n /\ w.n \in Nat
          BY <1>2, <4>4, MessagesTyped
        <5>2. m.n \in Nat
          BY <4>4 DEF Message
        <5>3. QED
          BY <4>4, <5>1, <5>2
      <4>6. \A w \in Range(Newest(s)) : n < w.n
        BY <2>1, <3>1, <3>3, <4>1, <4>5
      <4>7. QED
        BY <4>3, <4>6 DEF OldFor
    <3>5. QED
      BY <2>1, <2>2, <2>4, <3>1, <3>3, <3>4 DEF b
  <2>5. QED
    BY <2>3, <2>4
<1> HIDE DEF next, batch
<1>5. next \in [OpenTabs -> Seq(Message)] /\ <<>> \in Seq(Message)
  <2>1. \A c \in OpenTabs : next[c] \in Seq(Message)
    BY <1>4
  <2>2. next = [c \in OpenTabs |-> next[c]]
    BY DEF next
  <2>3. QED
    BY <2>1, <2>2
<1>6. selected' \in [OpenTabs -> Message \cup {Nothing}] /\ FollowShown'
  <2>1. CASE next[inFront] = messages[inFront]
    <3>1. UNCHANGED <<filter, selected, subscribed, follow, inFront>> /\ messages'[inFront] = messages[inFront]
      BY <1>1, <2>1
    <3>2. QED
      BY <3>1 DEF MessagesInv, MessagesType, FollowShown, Visible
  <2>2. CASE next[inFront] # messages[inFront]
    <3>1. Effects(next, subscribed, inFront, follow, filter, selected)
      BY <1>1, <2>2
    <3>2. QED
      BY <1>1, <1>5, <3>1, EffectsShow DEF MessagesInv, MessagesType
  <2>3. QED
    BY <2>1, <2>2
<1>7. MessagesType'
  BY <1>1, <1>5, <1>6 DEF MessagesInv, MessagesType
<1>8. OrderTrue'
  <2>1. \A c \in OpenTabs : \A m \in Range(next[c]) : m.n <= arrived
    BY <1>4, MessagesTyped
  <2>2. InOrder(<<>>) /\ Range(<<>>) = {}
    BY RangeEmpty DEF InOrder
  <2>3. /\ InOrder(buffer') /\ \A m \in Range(buffer') : m.n <= arrived'
    BY <1>1, <2>2
  <2>4. \A c \in OpenTabs :
          /\ InOrder(messages'[c]) /\ Len(messages'[c]) <= MaxMessages
          /\ \A m \in Range(messages'[c]) :
                m.n <= arrived' /\ \A w \in Range(buffer') : m.n < w.n
    BY <1>1, <1>4, <2>1, <2>2
  <2>5. QED
    BY <2>3, <2>4 DEF OrderTrue, InOrder
<1>9. ASSUME NEW c \in OpenTabs, NEW n \in due[c] PROVE In(next[c], n) \/ OldFor(next[c], n)
  <2>1. n \in Nat /\ (Waits(c, n) \/ In(messages[c], n) \/ OldFor(messages[c], n))
    BY DEF MessagesInv, MessagesType, DueTrue
  <2>2. CASE Waits(c, n)
    <3>1. PICK m \in Range(buffer) : m.n = n /\ m.tab = c /\ Passes(c, m.topic)
      BY <2>2 DEF Waits
    <3>2. m \in Range(batch(c))
      BY <1>3, <3>1
    <3>3. m \in Range(next[c]) \/ OldFor(next[c], m.n)
      BY <1>4, <3>2
    <3>4. QED
      BY <3>1, <3>3 DEF In
  <2>3. CASE In(messages[c], n)
    <3>1. PICK m \in Range(messages[c]) : m.n = n
      BY <2>3 DEF In
    <3>2. m \in Range(next[c]) \/ OldFor(next[c], m.n)
      BY <1>4, <3>1
    <3>3. QED
      BY <3>1, <3>2 DEF In
  <2>4. CASE OldFor(messages[c], n)
    BY <1>4, <2>1, <2>4
  <2>5. QED
    BY <2>1, <2>2, <2>3, <2>4
<1>10. DueTrue'
  BY <1>1, <1>9 DEF DueTrue, In, OldFor
<1>11. QED
  BY <1>6, <1>7, <1>8, <1>10 DEF MessagesInv

\* Steps of the user that leave the messages and the buffer alone.
LEMMA ToggleMuteKeeps == ASSUME MessagesInv, NEW f \in Filters, ToggleMute(f) PROVE MessagesInv'
<1> DEFINE mu == [muted EXCEPT ![inFront] = IF f \in @ THEN @ \ {f} ELSE @ \cup {f}]
<1>1. /\ muted' = mu /\ StillDue(subscribed, mu)
      /\ UNCHANGED <<subscribed, buffer, messages, selected, follow, filter, inFront, arrived>>
  BY DEF ToggleMute
<1>2. mu \in [OpenTabs -> SUBSET Filters]
  BY DEF MessagesInv, MessagesType
<1> HIDE DEF mu
<1>3. due' \in [OpenTabs -> SUBSET Nat] /\ DueTrue'
  BY <1>1, StillDueStep
<1>4. OrderTrue'
  BY <1>1, OrderStays DEF MessagesInv
<1>5. FollowShown'
  BY <1>1 DEF MessagesInv, FollowShown, Visible
<1>6. QED
  BY <1>1, <1>2, <1>3, <1>4, <1>5 DEF MessagesInv, MessagesType

LEMMA RowAddedKeeps ==
  ASSUME MessagesInv, NEW c \in OpenTabs, NEW f \in Filters, RowAdded(c, f) PROVE MessagesInv'
<1> DEFINE fs == [subscribed EXCEPT ![c] = @ \cup {f}]
<1>1. /\ subscribed' = fs
      /\ IF c = inFront THEN Effects(messages, fs, c, follow, filter, selected) ELSE UNCHANGED <<filter, selected>>
      /\ UNCHANGED <<muted, buffer, messages, follow, inFront, arrived, due>>
  BY DEF RowAdded
<1>2. fs \in [OpenTabs -> SUBSET Filters] /\ (\A k \in OpenTabs : subscribed[k] \subseteq fs[k])
      /\ \A k \in OpenTabs \ {c} : fs[k] = subscribed[k]
  BY DEF MessagesInv, MessagesType
<1> HIDE DEF fs
<1>3. DueTrue'
  <2>1. \A k \in OpenTabs, t \in Names : Passes(k, t) => Passes(k, t)'
    BY <1>1, <1>2 DEF Passes
  <2>2. QED
    BY <1>1, <2>1, DueStays
<1>4. OrderTrue'
  BY <1>1, OrderStays DEF MessagesInv
<1>5. selected' \in [OpenTabs -> Message \cup {Nothing}] /\ FollowShown'
  <2>1. CASE c = inFront
    <3>1. Effects(messages, fs, c, follow, filter, selected)
      BY <1>1, <2>1
    <3>2. QED
      BY <1>1, <1>2, <2>1, <3>1, EffectsShow DEF MessagesInv, MessagesType
  <2>2. CASE c # inFront
    <3>1. UNCHANGED <<filter, selected>> /\ subscribed'[inFront] = subscribed[inFront]
      BY <1>1, <1>2, <2>2 DEF MessagesInv, MessagesType
    <3>2. QED
      BY <1>1, <3>1 DEF MessagesInv, MessagesType, FollowShown, Visible
  <2>3. QED
    BY <2>1, <2>2
<1>6. QED
  BY <1>1, <1>2, <1>3, <1>4, <1>5 DEF MessagesInv, MessagesType

LEMMA RowRemovedKeeps ==
  ASSUME MessagesInv, NEW c \in OpenTabs, NEW f \in Filters, RowRemoved(c, f) PROVE MessagesInv'
<1> DEFINE fs == [subscribed EXCEPT ![c] = @ \ {f}]
           mu == [muted EXCEPT ![c] = @ \ {f}]
<1>1. /\ subscribed' = fs /\ muted' = mu /\ StillDue(fs, mu)
      /\ IF c = inFront THEN Effects(messages, fs, c, follow, filter, selected) ELSE UNCHANGED <<filter, selected>>
      /\ UNCHANGED <<buffer, messages, follow, inFront, arrived>>
  BY DEF RowRemoved
<1>2. fs \in [OpenTabs -> SUBSET Filters] /\ mu \in [OpenTabs -> SUBSET Filters]
      /\ \A k \in OpenTabs \ {c} : fs[k] = subscribed[k]
  BY DEF MessagesInv, MessagesType
<1> HIDE DEF fs, mu
<1>3. due' \in [OpenTabs -> SUBSET Nat] /\ DueTrue'
  BY <1>1, StillDueStep
<1>4. OrderTrue'
  BY <1>1, OrderStays DEF MessagesInv
<1>5. selected' \in [OpenTabs -> Message \cup {Nothing}] /\ FollowShown'
  <2>1. CASE c = inFront
    <3>1. Effects(messages, fs, c, follow, filter, selected)
      BY <1>1, <2>1
    <3>2. QED
      BY <1>1, <1>2, <2>1, <3>1, EffectsShow DEF MessagesInv, MessagesType
  <2>2. CASE c # inFront
    <3>1. UNCHANGED <<filter, selected>> /\ subscribed'[inFront] = subscribed[inFront]
      BY <1>1, <1>2, <2>2 DEF MessagesInv, MessagesType
    <3>2. QED
      BY <1>1, <3>1 DEF MessagesInv, MessagesType, FollowShown, Visible
  <2>3. QED
    BY <2>1, <2>2
<1>6. QED
  BY <1>1, <1>2, <1>3, <1>4, <1>5 DEF MessagesInv, MessagesType

\* The filter, the tab in front and what is followed.
LEMMA ViewStep ==
  ASSUME MessagesInv, NEW c \in OpenTabs, NEW fol \in [OpenTabs -> BOOLEAN], NEW f,
         Effects(messages, subscribed, c, fol, f, selected),
         follow' = fol, inFront' = c, UNCHANGED <<subscribed, muted, buffer, messages, arrived, due>>
  PROVE  MessagesInv'
<1>1. DueTrue' /\ OrderTrue'
  BY DueStays, OrderStays DEF MessagesInv, Passes
<1>2. selected' \in [OpenTabs -> Message \cup {Nothing}] /\ FollowShown'
  BY EffectsShow DEF MessagesInv, MessagesType
<1>3. QED
  BY <1>1, <1>2 DEF MessagesInv, MessagesType

LEMMA SetTopicFilterKeeps == ASSUME MessagesInv, NEW f, SetTopicFilter(f) PROVE MessagesInv'
<1>1. /\ Effects(messages, subscribed, inFront, follow, f, selected)
      /\ UNCHANGED <<subscribed, muted, buffer, messages, follow, inFront, arrived, due>>
  BY DEF SetTopicFilter
<1>2. inFront \in OpenTabs /\ follow \in [OpenTabs -> BOOLEAN]
  BY DEF MessagesInv, MessagesType
<1>3. QED
  BY <1>1, <1>2, ViewStep

LEMMA SetAutoFollowKeeps == ASSUME MessagesInv, SetAutoFollow PROVE MessagesInv'
<1> DEFINE fol == [follow EXCEPT ![inFront] = ~@]
<1>1. /\ follow' = fol /\ Effects(messages, subscribed, inFront, fol, filter, selected)
      /\ UNCHANGED <<subscribed, muted, buffer, messages, inFront, arrived, due>>
  BY DEF SetAutoFollow
<1>2. inFront \in OpenTabs /\ fol \in [OpenTabs -> BOOLEAN]
  BY DEF MessagesInv, MessagesType
<1> HIDE DEF fol
<1>3. QED
  BY <1>1, <1>2, ViewStep

LEMMA SwitchToKeeps == ASSUME MessagesInv, NEW c \in OpenTabs, SwitchTo(c) PROVE MessagesInv'
<1>1. /\ inFront' = c /\ Effects(messages, subscribed, c, follow, filter, selected)
      /\ UNCHANGED <<subscribed, muted, buffer, messages, follow, arrived, due>>
  BY DEF SwitchTo
<1>2. follow \in [OpenTabs -> BOOLEAN]
  BY DEF MessagesInv, MessagesType
<1>3. QED
  BY <1>1, <1>2, ViewStep

LEMMA SetSelectedMessageKeeps == ASSUME MessagesInv, NEW m, SetSelectedMessage(m) PROVE MessagesInv'
<1> DEFINE vis == Visible(messages[inFront], subscribed[inFront], filter)
<1>1. /\ m \in Range(vis) /\ selected' = [selected EXCEPT ![inFront] = m]
      /\ UNCHANGED <<subscribed, muted, buffer, messages, follow, filter, inFront, arrived, due>>
  BY DEF SetSelectedMessage
<1>2. vis \in Seq(Message) /\ vis' = vis
  BY <1>1, OnlyRange DEF MessagesInv, MessagesType, Visible
<1>3. m \in Message
  BY <1>1, <1>2, RangeIs
<1>4. selected' \in [OpenTabs -> Message \cup {Nothing}] /\ selected'[inFront] = m
  BY <1>1, <1>3 DEF MessagesInv, MessagesType
<1>5. FollowShown'
  BY <1>1, <1>2, <1>4 DEF FollowShown
<1>6. DueTrue' /\ OrderTrue'
  BY <1>1, DueStays, OrderStays DEF MessagesInv, Passes
<1>7. QED
  BY <1>1, <1>4, <1>5, <1>6 DEF MessagesInv, MessagesType

LEMMA ClearMessagesKeeps == ASSUME MessagesInv, ClearMessages PROVE MessagesInv'
<1> DEFINE ms == [messages EXCEPT ![inFront] = <<>>]
           sel == [selected EXCEPT ![inFront] = Nothing]
<1>1. /\ messages' = ms
      /\ due' = [due EXCEPT ![inFront] = @ \cap {buffer[i].n : i \in DOMAIN buffer}]
      /\ Effects(ms, subscribed, inFront, follow, filter, sel)
      /\ UNCHANGED <<subscribed, muted, buffer, follow, inFront, arrived>>
  BY DEF ClearMessages
<1>2. /\ inFront \in OpenTabs /\ follow \in [OpenTabs -> BOOLEAN] /\ MaxMessages \in Nat \ {0}
      /\ buffer \in Seq(Message)
  BY MessagesAssumption DEF MessagesInv, MessagesType
<1>3. /\ ms \in [OpenTabs -> Seq(Message)] /\ ms[inFront] = <<>>
      /\ \A c \in OpenTabs \ {inFront} : ms[c] = messages[c]
  <2>1. <<>> \in Seq(Message)
    OBVIOUS
  <2>2. QED
    BY <2>1 DEF MessagesInv, MessagesType
<1>4. sel \in [OpenTabs -> Message \cup {Nothing}]
  BY DEF MessagesInv, MessagesType
<1> HIDE DEF ms, sel
<1>5. selected' \in [OpenTabs -> Message \cup {Nothing}] /\ FollowShown'
  BY <1>1, <1>2, <1>3, <1>4, EffectsShow DEF MessagesInv, MessagesType
<1>6. OrderTrue'
  <2>1. InOrder(<<>>) /\ Range(<<>>) = {} /\ Len(<<>>) = 0
    BY RangeEmpty DEF InOrder
  <2>2. ASSUME NEW c \in OpenTabs
        PROVE  /\ InOrder(messages'[c]) /\ Len(messages'[c]) <= MaxMessages
               /\ \A m \in Range(messages'[c]) :
                     m.n <= arrived' /\ \A w \in Range(buffer') : m.n < w.n
    <3>1. /\ InOrder(messages[c]) /\ Len(messages[c]) <= MaxMessages
          /\ \A m \in Range(messages[c]) :
                m.n <= arrived /\ \A w \in Range(buffer) : m.n < w.n
      BY DEF MessagesInv, OrderTrue
    <3>2. CASE c = inFront
      <4>1. messages'[c] = <<>>
        BY <1>1, <1>3, <3>2
      <4>2. QED
        BY <1>2, <2>1, <4>1
    <3>3. CASE c # inFront
      <4>1. messages'[c] = messages[c] /\ buffer' = buffer /\ arrived' = arrived
        BY <1>1, <1>3, <3>3
      <4>2. QED
        BY <3>1, <4>1
    <3>4. QED
      BY <3>2, <3>3
  <2>3. QED
    BY <1>1, <2>2 DEF MessagesInv, OrderTrue, InOrder
<1>7. due' \in [OpenTabs -> SUBSET Nat] /\ \A c \in OpenTabs : due'[c] \subseteq due[c]
  BY <1>1 DEF MessagesInv, MessagesType
<1>8. \A c \in OpenTabs : \A n : Waits(c, n) => Waits(c, n)'
  BY <1>1 DEF Waits, Passes
<1>9. ASSUME NEW n \in due'[inFront] PROVE Waits(inFront, n)
  <2>1. n \in due[inFront] /\ \E i \in DOMAIN buffer : buffer[i].n = n
    BY <1>1, <1>2, <1>9 DEF MessagesInv, MessagesType
  <2>2. PICK w \in Range(buffer) : w.n = n
    BY <2>1 DEF Range
  <2>3. n \in Nat /\ \A m \in Range(messages[inFront]) : m \in Message /\ m.n \in Nat /\ m.n < n
    BY <1>2, <2>2, MessagesTyped DEF MessagesInv, OrderTrue
  <2>4. ~ In(messages[inFront], n)
    BY <2>3 DEF In
  <2>5. ~ OldFor(messages[inFront], n)
    <3>1. SUFFICES ASSUME OldFor(messages[inFront], n) PROVE FALSE
      OBVIOUS
    <3>2. messages[inFront] \in Seq(Message) /\ 1 \in 1 .. Len(messages[inFront])
      BY <1>2, <3>1 DEF OldFor, MessagesInv, MessagesType
    <3>3. PICK m : m \in Range(messages[inFront])
      BY <3>2, RangeIs
    <3>4. QED
      BY <2>3, <3>1, <3>3 DEF OldFor
  <2>6. QED
    BY <1>2, <2>1, <2>4, <2>5 DEF MessagesInv, DueTrue
<1>10. ASSUME NEW c \in OpenTabs, NEW n \in due'[c]
       PROVE  Waits(c, n)' \/ In(messages'[c], n) \/ OldFor(messages'[c], n)
  <2>1. CASE c = inFront
    BY <1>8, <1>9, <1>10, <2>1
  <2>2. CASE c # inFront
    BY <1>1, <1>3, <1>7, <1>8, <1>10, <2>2 DEF MessagesInv, DueTrue
  <2>3. QED
    BY <2>1, <2>2
<1>11. DueTrue'
  BY <1>10 DEF DueTrue
<1>12. QED
  BY <1>1, <1>3, <1>5, <1>6, <1>7, <1>11 DEF MessagesInv, MessagesType
-----------------------------------------------------------------------------
(* The messages: what holds of every behaviour.                            *)

\* The panel starts without messages, and every step keeps the invariant.
LEMMA InitMessagesInv == ASSUME MessagesInit PROVE MessagesInv
<1>1. <<>> \in Seq(Message) /\ Range(<<>>) = {} /\ Len(<<>>) = 0 /\ InOrder(<<>>) /\ MaxMessages \in Nat
  BY RangeEmpty, MessagesAssumption DEF InOrder
<1>2. MessagesType
  BY <1>1 DEF MessagesInit, MessagesType, Filters
<1>3. OrderTrue /\ DueTrue
  BY <1>1 DEF MessagesInit, OrderTrue, DueTrue
<1>4. FollowShown
  BY DEF MessagesInit, FollowShown
<1>5. QED
  BY <1>2, <1>3, <1>4 DEF MessagesInv

LEMMA NextMessagesInv == ASSUME MessagesInv, [MessagesNext]_messageVars PROVE MessagesInv'
<1>1. CASE UNCHANGED messageVars
  <2>1. DueTrue' /\ OrderTrue'
    BY <1>1, DueStays, OrderStays DEF MessagesInv, Passes, messageVars
  <2>2. QED
    BY <1>1, <2>1 DEF messageVars, MessagesInv, MessagesType, FollowShown, Visible
<1>2. CASE \E c \in OpenTabs, t \in Names : Arrive(c, t)
  BY <1>2, ArriveKeeps
<1>3. CASE Flush
  BY <1>3, FlushKeeps
<1>4. CASE SetAutoFollow \/ ClearMessages
  BY <1>4, SetAutoFollowKeeps, ClearMessagesKeeps
<1>5. CASE \E f \in Filters : ToggleMute(f) \/ \E c \in OpenTabs : RowAdded(c, f) \/ RowRemoved(c, f)
  BY <1>5, ToggleMuteKeeps, RowAddedKeeps, RowRemovedKeeps
<1>6. CASE \E f \in Filters \cup {Nothing} : SetTopicFilter(f)
  BY <1>6, SetTopicFilterKeeps
<1>7. CASE \E m \in Range(messages[inFront]) : SetSelectedMessage(m)
  BY <1>7, SetSelectedMessageKeeps
<1>8. CASE \E c \in OpenTabs : SwitchTo(c)
  BY <1>8, SwitchToKeeps
<1>9. QED
  BY <1>1, <1>2, <1>3, <1>4, <1>5, <1>6, <1>7, <1>8 DEF MessagesNext

\* Messages are in order and not lost, and the selection follows, always:
\* the invariant that MessagesShown rests on.
THEOREM MessagesInvHolds == MessagesSpec => []MessagesInv
<1>1. MessagesInit => MessagesInv
  BY InitMessagesInv
<1>2. MessagesInv /\ [MessagesNext]_messageVars => MessagesInv'
  BY NextMessagesInv
<1>3. QED
  BY <1>1, <1>2, PTL DEF MessagesSpec

\* The invariant says what is shown.
LEMMA MessagesInvShows == ASSUME MessagesInv PROVE MessagesShown
<1>1. ASSUME NEW c \in OpenTabs, NEW ns, ns = [i \in DOMAIN messages[c] |-> messages[c][i].n],
             NEW waiting, waiting = {buffer[i].n : i \in DOMAIN buffer}
      PROVE  /\ \A i \in DOMAIN ns : i > 1 => ns[i - 1] < ns[i]
             /\ \A n \in due[c] \ waiting :
                   n \in Range(ns) \/ (Len(ns) = MaxMessages /\ \A i \in DOMAIN ns : n < ns[i])
  <2>1. messages[c] \in Seq(Message) /\ InOrder(messages[c]) /\ buffer \in Seq(Message)
    BY DEF MessagesInv, MessagesType, OrderTrue
  <2>2. /\ Len(messages[c]) \in Nat /\ DOMAIN messages[c] = 1 .. Len(messages[c])
        /\ \A i \in 1 .. Len(messages[c]) : messages[c][i] \in Range(messages[c])
        /\ \A x \in Range(messages[c]) : \E i \in 1 .. Len(messages[c]) : messages[c][i] = x
    BY <2>1, RangeIs, LenProperties
  <2>3. /\ DOMAIN ns = 1 .. Len(messages[c]) /\ Len(ns) = Len(messages[c])
        /\ \A i \in 1 .. Len(messages[c]) : ns[i] = messages[c][i].n
    <3>1. /\ DOMAIN ns = 1 .. Len(messages[c])
          /\ \A i \in 1 .. Len(messages[c]) : ns[i] = messages[c][i].n
      BY <1>1, <2>2
    <3>2. ns \in Seq(Nat)
      <4>1. \A i \in 1 .. Len(messages[c]) : messages[c][i].n \in Nat
        BY <2>2, MessagesTyped
      <4>2. ns \in [1 .. Len(messages[c]) -> Nat]
        BY <1>1, <2>2, <4>1
      <4>3. PICK k \in Nat : k = Len(messages[c])
        BY <2>2
      <4>4. ns \in [1 .. k -> Nat]
        BY <4>2, <4>3
      <4>5. QED
        BY <4>4, SeqDef
    <3>3. QED
      BY <2>2, <3>1, <3>2, LenProperties
  <2>4. ASSUME NEW i \in DOMAIN ns, i > 1 PROVE ns[i - 1] < ns[i]
    <3>1. i \in 1 .. Len(messages[c]) /\ i - 1 \in 1 .. Len(messages[c]) /\ i - 1 < i
      BY <2>2, <2>3, <2>4
    <3>2. QED
      BY <2>1, <2>3, <3>1 DEF InOrder
  <2>5. ASSUME NEW n \in due[c] \ waiting
        PROVE  n \in Range(ns) \/ (Len(ns) = MaxMessages /\ \A i \in DOMAIN ns : n < ns[i])
    <3>1. ~Waits(c, n)
      BY <1>1, <2>5 DEF Waits, Range
    <3>2. CASE In(messages[c], n)
      <4>1. PICK m \in Range(messages[c]) : m.n = n
        BY <3>2 DEF In
      <4>2. PICK i \in 1 .. Len(messages[c]) : messages[c][i] = m
        BY <2>2
      <4>3. ns[i] = n /\ i \in DOMAIN ns
        BY <2>3, <4>1, <4>2
      <4>4. QED
        BY <4>3 DEF Range
    <3>3. CASE OldFor(messages[c], n)
      BY <2>2, <2>3, <3>3 DEF OldFor
    <3>4. QED
      BY <3>1, <3>2, <3>3 DEF MessagesInv, DueTrue
  <2>6. QED
    BY <2>4, <2>5
<1>2. MessagesKept
  BY <1>1 DEF MessagesKept
<1>3. QED
  BY <1>2 DEF MessagesInv, MessagesShown

\* Every message that was due is shown, in order, and the one that is followed
\* is one that is shown.
THEOREM MessagesAlwaysShown == MessagesSpec => []MessagesShown
<1>1. MessagesInv => MessagesShown
  BY MessagesInvShows
<1>2. QED
  BY <1>1, MessagesInvHolds, PTL

\* The panel that joins tabs, rows, scan and messages takes no step of the
\* messages but theirs: what is proved of them holds in it.
THEOREM PanelHasMessages == FrontSpec => MessagesSpec
<1>1. FrontInit => MessagesInit
  BY DEF FrontInit
<1>2. [FrontNext]_frontVars => [MessagesNext]_messageVars
  <2>1. SUFFICES ASSUME [FrontNext]_frontVars PROVE [MessagesNext]_messageVars
    OBVIOUS
  <2>2. CASE UNCHANGED frontVars
    BY <2>2 DEF frontVars
  <2>3. CASE FrontNext
    BY <2>3 DEF FrontNext
  <2>4. QED
    BY <2>1, <2>2, <2>3
<1>3. QED
  BY <1>1, <1>2, PTL DEF MessagesSpec, FrontSpec
-----------------------------------------------------------------------------
(* The scan: the inductive invariant.                                      *)

Presser == [start : BOOLEAN, over : BOOLEAN, ok : BOOLEAN,
            at : {"waiting", "called", "begun", "answered", "again", "stopped"}]
Named == BrokerNames \cup {CHOOSE b \in BrokerNames : TRUE}
WireEvent == [kind : {"topic", "stopped", "closed"}, topic : Named]
ScanType ==
    /\ scan \in {"none", "starting", "running"} /\ wire \in Seq(WireEvent)
    /\ presser \in Seq(Presser) /\ found \in Seq(Named) /\ list \in Seq(Named)

\* Only the press that was made last is not superseded, and a start that has
\* stopped waiting was sent before all others.
PressersTrue ==
    \A i \in 1 .. Len(presser) :
        /\ ~presser[i].over => i = Len(presser)
        /\ presser[i].start /\ presser[i].at # "waiting" => i = 1
        /\ ~presser[i].start => presser[i].at \in {"called", "answered"}
        /\ presser[i].at \in {"again", "stopped"} => presser[i].over

OnWire(kind) == \E i \in 1 .. Len(wire) : wire[i].kind = kind
LastAt(S) == presser # <<>> /\ presser[Len(presser)].at \in S
LastOk == presser[Len(presser)].ok

\* Without the connection nothing scans; the stop of a reloaded page comes
\* before any start; a scan that starts is the first call's.
BackendTrue ==
    /\ OnWire("closed") => ~here
    /\ ~here => scan = "none"
    /\ stray => presser = <<>> /\ ~pressed
    /\ scan = "starting" => presser # <<>> /\ presser[1].start /\ presser[1].at = "begun"
    /\ \A i \in 1 .. Len(presser) : presser[i].start =>
          /\ presser[i].at = "called" => scan = "none"
          /\ presser[i].at = "begun" => scan # "running"
          /\ presser[i].at = "answered" /\ ~presser[i].ok => scan # "running"

\* The end of a scan that was lost is heard before another is asked for.
EndTrue ==
    OnWire("stopped") =>
        /\ scan = "none"
        /\ \A i \in 1 .. Len(presser) : presser[i].start =>
              /\ presser[i].at \notin {"called", "begun"}
              /\ presser[i].at = "waiting" => presser[i].over

\* A button that says so waits for its start, for the end, or the scan runs.
ButtonTrue ==
    /\ pressed /\ presser # <<>> =>
          presser[Len(presser)].start /\ ~presser[Len(presser)].over
    /\ pressed =>
          \/ scan = "running" \/ OnWire("stopped") \/ OnWire("closed")
          \/ LastAt({"waiting", "called", "begun"})
          \/ LastAt({"answered"}) /\ ~LastOk
    /\ here /\ LastAt({"waiting", "called", "begun"}) =>
          ~presser[Len(presser)].start \/ presser[Len(presser)].over \/ pressed

\* A call that will stop the scan.
Stopper(i) ==
    \/ ~presser[i].start /\ presser[i].at = "called"
    \/ presser[i].start /\ presser[i].at = "again"
    \/ presser[i].start /\ presser[i].at = "answered" /\ presser[i].ok /\ presser[i].over

\* A scan that runs was asked for by the last press, or will be stopped.
ScanTrue ==
    scan = "running" =>
        \/ stray
        \/ \E i \in 1 .. Len(presser) : Stopper(i)
        \/ pressed /\ (presser = <<>> \/ (LastAt({"answered"}) /\ LastOk))

Distinct(s) == \A i, j \in 1 .. Len(s) : s[i] = s[j] => i = j
ListTrue == known = Range(list) /\ Distinct(list) /\ Len(list) <= MaxTopics

ScanInv ==
    /\ ScanType /\ PressersTrue /\ ListTrue
    /\ ~crossed => BackendTrue /\ EndTrue /\ ButtonTrue /\ ScanTrue
-----------------------------------------------------------------------------
(* The calls of the button, one by one.                                    *)

\* A sequence with an element taken out.
LEMMA TakenOut ==
  ASSUME NEW A, NEW s \in Seq(A), NEW k \in 1 .. Len(s)
  PROVE  /\ RemoveAt(s, k) \in Seq(A) /\ Len(RemoveAt(s, k)) = Len(s) - 1
         /\ \A i \in 1 .. Len(s) - 1 : RemoveAt(s, k)[i] = IF i < k THEN s[i] ELSE s[i + 1]
<1>1. PICK n \in Nat : n = Len(s)
  BY LenProperties
<1>2. k \in 1 .. n /\ \A i \in 1 .. n : s[i] \in A
  BY <1>1, ElementOfSeq
<1> DEFINE before == SubSeq(s, 1, k - 1)
           after == SubSeq(s, k + 1, n)
<1>3. before \in Seq(A) /\ Len(before) = k - 1 /\ \A i \in 1 .. k - 1 : before[i] = s[i]
  <2>1. 1 \in Int /\ k - 1 \in Int /\ (\A i \in 1 .. k - 1 : s[i] \in A)
    BY <1>2
  <2>2. /\ before \in Seq(A) /\ Len(before) = IF 1 <= k - 1 THEN k - 1 - 1 + 1 ELSE 0
        /\ \A i \in 1 .. k - 1 - 1 + 1 : before[i] = s[1 + i - 1]
    BY <2>1, SubSeqProperties
  <2>3. k - 1 - 1 + 1 = k - 1 /\ (~ (1 <= k - 1) => k - 1 = 0)
    BY <1>2
  <2>4. ASSUME NEW i \in 1 .. k - 1 PROVE before[i] = s[i]
    <3>1. 1 + i - 1 = i
      OBVIOUS
    <3>2. QED
      BY <2>2, <2>3, <3>1, Zenon
  <2>5. QED
    BY <2>2, <2>3, <2>4
<1>4. after \in Seq(A) /\ Len(after) = n - k /\ \A i \in 1 .. n - k : after[i] = s[k + i]
  <2>1. k + 1 \in Int /\ n \in Int /\ (\A i \in k + 1 .. n : s[i] \in A)
    BY <1>2
  <2>2. /\ after \in Seq(A) /\ Len(after) = IF k + 1 <= n THEN n - (k + 1) + 1 ELSE 0
        /\ \A i \in 1 .. n - (k + 1) + 1 : after[i] = s[(k + 1) + i - 1]
    BY <2>1, SubSeqProperties
  <2>3. n - (k + 1) + 1 = n - k /\ (~ (k + 1 <= n) => n - k = 0)
    BY <1>2
  <2>4. ASSUME NEW i \in 1 .. n - k PROVE after[i] = s[k + i]
    <3>1. (k + 1) + i - 1 = k + i
      BY <1>2
    <3>2. QED
      BY <2>2, <2>3, <3>1, Zenon
  <2>5. QED
    BY <2>2, <2>3, <2>4
<1>5. RemoveAt(s, k) = before \o after
  BY <1>1 DEF RemoveAt
<1> HIDE DEF before, after
<1>6. /\ before \o after \in Seq(A) /\ Len(before \o after) = Len(before) + Len(after)
      /\ \A i \in 1 .. Len(before) + Len(after) :
            (before \o after)[i] = IF i <= Len(before) THEN before[i] ELSE after[i - Len(before)]
  BY <1>3, <1>4, ConcatProperties
<1>7. (k - 1) + (n - k) = n - 1
  BY <1>2
<1>8. ASSUME NEW i \in 1 .. n - 1
      PROVE  (before \o after)[i] = IF i < k THEN s[i] ELSE s[i + 1]
  <2>1. (before \o after)[i] = IF i <= k - 1 THEN before[i] ELSE after[i - (k - 1)]
    BY <1>3, <1>4, <1>6, <1>7
  <2>2. CASE i < k
    BY <1>2, <1>3, <2>1, <2>2
  <2>3. CASE ~ (i < k)
    <3>1. i - (k - 1) \in 1 .. n - k /\ k + (i - (k - 1)) = i + 1 /\ ~ (i <= k - 1)
      BY <1>2, <2>3
    <3>2. QED
      BY <1>4, <2>1, <2>3, <3>1
  <2>4. QED
    BY <2>2, <2>3
<1>9. QED
  BY <1>1, <1>3, <1>4, <1>5, <1>6, <1>7, <1>8

\* How a step changes the calls: one of them goes on, one is over, or the
\* button makes another.
Turns(i, to, ok) ==
    /\ presser' \in Seq(Presser) /\ Len(presser') = Len(presser)
    /\ \A j \in 1 .. Len(presser) :
          /\ presser'[j].start = presser[j].start /\ presser'[j].over = presser[j].over
          /\ presser'[j].at = IF j = i THEN to ELSE presser[j].at
          /\ presser'[j].ok = IF j = i THEN ok ELSE presser[j].ok
Ends(i) ==
    /\ presser' \in Seq(Presser) /\ Len(presser') = Len(presser) - 1
    /\ \A j \in 1 .. Len(presser) - 1 : presser'[j] = presser[IF j < i THEN j ELSE j + 1]
Presses(start) ==
    /\ presser' \in Seq(Presser) /\ Len(presser') = Len(presser) + 1
    /\ \A j \in 1 .. Len(presser) :
          /\ presser'[j].start = presser[j].start /\ presser'[j].over
          /\ presser'[j].at = presser[j].at /\ presser'[j].ok = presser[j].ok
    /\ presser'[Len(presser) + 1] = Asked(start)

\* What the calls are.
LEMMA PresserIs ==
  ASSUME ScanType
  PROVE  /\ Len(presser) \in Nat /\ DOMAIN presser = 1 .. Len(presser)
         /\ presser = <<>> <=> Len(presser) = 0
         /\ \A j \in 1 .. Len(presser) :
               /\ presser[j] \in Presser /\ presser[j].start \in BOOLEAN /\ presser[j].over \in BOOLEAN
               /\ presser[j].ok \in BOOLEAN
<1>1. presser \in Seq(Presser)
  BY DEF ScanType
<1>2. /\ Len(presser) \in Nat /\ DOMAIN presser = 1 .. Len(presser)
      /\ presser = <<>> <=> Len(presser) = 0
  BY <1>1, LenProperties, EmptySeq
<1>3. \A j \in 1 .. Len(presser) : presser[j] \in Presser
  BY <1>1, ElementOfSeq
<1>4. \A p \in Presser : p.start \in BOOLEAN /\ p.over \in BOOLEAN /\ p.ok \in BOOLEAN
  BY DEF Presser
<1>5. QED
  BY <1>2, <1>3, <1>4

LEMMA TurnsIs ==
  ASSUME ScanType, NEW i \in 1 .. Len(presser),
         NEW to \in {"waiting", "called", "begun", "answered", "again", "stopped"}, NEW ok \in BOOLEAN,
         presser' = [presser EXCEPT ![i].at = to, ![i].ok = ok]
  PROVE  Turns(i, to, ok)
<1>1. presser \in [1 .. Len(presser) -> Presser] /\ Len(presser) \in Nat
  BY PresserIs DEF ScanType
<1>2. presser' \in [1 .. Len(presser) -> Presser]
  BY <1>1 DEF Presser
<1>3. presser' \in Seq(Presser) /\ Len(presser') = Len(presser)
  <2>1. PICK n \in Nat : n = Len(presser)
    BY <1>1
  <2>2. presser' \in [1 .. n -> Presser]
    BY <1>2, <2>1
  <2>3. presser' \in Seq(Presser)
    BY <2>2, SeqDef
  <2>4. QED
    BY <2>1, <2>2, <2>3, LenProperties
<1>4. ASSUME NEW j \in 1 .. Len(presser)
      PROVE  /\ presser'[j].start = presser[j].start /\ presser'[j].over = presser[j].over
             /\ presser'[j].at = IF j = i THEN to ELSE presser[j].at
             /\ presser'[j].ok = IF j = i THEN ok ELSE presser[j].ok
  <2>1. CASE j = i
    <3>1. presser'[j] = [[presser[i] EXCEPT !.at = to] EXCEPT !.ok = ok] /\ presser[i] \in Presser
      BY <1>1, <2>1
    <3>2. QED
      BY <2>1, <3>1 DEF Presser
  <2>2. CASE j # i
    <3>1. presser'[j] = presser[j]
      BY <1>1, <2>2
    <3>2. QED
      BY <2>2, <3>1
  <2>3. QED
    BY <2>1, <2>2
<1>5. QED
  BY <1>3, <1>4 DEF Turns

LEMMA TurnsAt ==
  ASSUME ScanType, NEW i \in 1 .. Len(presser),
         NEW to \in {"waiting", "called", "begun", "answered", "again", "stopped"}, PresserTo(i, to)
  PROVE  Turns(i, to, presser[i].ok)
<1>1. presser[i] \in Presser /\ presser \in [1 .. Len(presser) -> Presser] /\ presser[i].ok \in BOOLEAN
  BY PresserIs DEF ScanType
<1>2. [presser EXCEPT ![i].at = to] = [presser EXCEPT ![i].at = to, ![i].ok = presser[i].ok]
  BY <1>1 DEF Presser
<1>3. presser' = [presser EXCEPT ![i].at = to, ![i].ok = presser[i].ok]
  BY <1>2, Zenon DEF PresserTo
<1>4. PICK ok \in BOOLEAN : ok = presser[i].ok
  BY <1>1, Zenon
<1>5. QED
  BY <1>3, <1>4, TurnsIs

LEMMA EndsIs ==
  ASSUME ScanType, NEW i \in 1 .. Len(presser), PresserGone(i)
  PROVE  Ends(i)
<1>1. presser \in Seq(Presser)
  BY DEF ScanType
<1>2. presser' = RemoveAt(presser, i)
  BY DEF PresserGone
<1>3. \A j \in 1 .. Len(presser) - 1 :
         RemoveAt(presser, i)[j] = presser[IF j < i THEN j ELSE j + 1]
  BY <1>1, TakenOut
<1>4. QED
  BY <1>1, <1>2, <1>3, TakenOut DEF Ends

LEMMA PressesIs ==
  ASSUME ScanType, NEW start \in BOOLEAN, presser' = Append(Superseded, Asked(start))
  PROVE  Presses(start)
<1>1. presser \in [1 .. Len(presser) -> Presser] /\ Len(presser) \in Nat /\ DOMAIN presser = 1 .. Len(presser)
  BY PresserIs DEF ScanType
<1>2. Superseded \in [1 .. Len(presser) -> Presser]
  BY <1>1 DEF Superseded, Presser
<1>3. Superseded \in Seq(Presser) /\ Len(Superseded) = Len(presser)
  <2>1. PICK n \in Nat : n = Len(presser)
    BY <1>1
  <2>2. Superseded \in [1 .. n -> Presser]
    BY <1>2, <2>1
  <2>3. Superseded \in Seq(Presser)
    BY <2>2, SeqDef
  <2>4. QED
    BY <2>1, <2>2, <2>3, LenProperties
<1>4. Asked(start) \in Presser
  BY DEF Asked, Presser
<1>5. /\ Append(Superseded, Asked(start)) \in Seq(Presser)
      /\ Len(Append(Superseded, Asked(start))) = Len(presser) + 1
      /\ \A j \in 1 .. Len(presser) : Append(Superseded, Asked(start))[j] = Superseded[j]
      /\ Append(Superseded, Asked(start))[Len(presser) + 1] = Asked(start)
  BY <1>1, <1>3, <1>4, AppendProperties
<1>6. ASSUME NEW j \in 1 .. Len(presser)
      PROVE  /\ presser'[j].start = presser[j].start /\ presser'[j].over
             /\ presser'[j].at = presser[j].at /\ presser'[j].ok = presser[j].ok
  <2>1. presser'[j] = [presser[j] EXCEPT !.over = TRUE] /\ presser[j] \in Presser
    BY <1>1, <1>5 DEF Superseded
  <2>2. QED
    BY <2>1 DEF Presser
<1>7. QED
  BY <1>5, <1>6 DEF Presses

\* What is on the wire after an event was sent, or heard.
LEMMA WireGrows ==
  ASSUME ScanType, NEW e \in WireEvent, wire' = Append(wire, e)
  PROVE  /\ wire' \in Seq(WireEvent)
         /\ \A kind : OnWire(kind)' <=> OnWire(kind) \/ e.kind = kind
<1>1. /\ wire' \in Seq(WireEvent) /\ Len(wire') = Len(wire) + 1 /\ Len(wire) \in Nat
      /\ wire'[Len(wire) + 1] = e /\ \A i \in 1 .. Len(wire) : wire'[i] = wire[i]
  BY LenProperties, AppendProperties DEF ScanType
<1>2. ASSUME NEW kind PROVE OnWire(kind)' <=> OnWire(kind) \/ e.kind = kind
  <2>1. OnWire(kind)' <=> \E i \in 1 .. Len(wire) + 1 : wire'[i].kind = kind
    BY <1>1 DEF OnWire
  <2>2. \A i \in 1 .. Len(wire) + 1 : i \in 1 .. Len(wire) \/ i = Len(wire) + 1
    BY <1>1
  <2>3. Len(wire) + 1 \in 1 .. Len(wire) + 1 /\ \A i \in 1 .. Len(wire) : i \in 1 .. Len(wire) + 1
    BY <1>1
  <2>4. QED
    BY <1>1, <2>1, <2>2, <2>3 DEF OnWire
<1>3. QED
  BY <1>1, <1>2

LEMMA WireShrinks ==
  ASSUME ScanType, wire # <<>>, wire' = Tail(wire)
  PROVE  /\ wire' \in Seq(WireEvent) /\ wire[1] \in WireEvent
         /\ \A kind : OnWire(kind)' => OnWire(kind)
         /\ \A kind : OnWire(kind) => OnWire(kind)' \/ wire[1].kind = kind
         /\ OnWire(wire[1].kind)
<1>1. /\ wire' \in Seq(WireEvent) /\ Len(wire') = Len(wire) - 1 /\ Len(wire) \in Nat \ {0}
      /\ \A i \in 1 .. Len(wire) - 1 : wire'[i] = wire[i + 1]
      /\ \A i \in 1 .. Len(wire) : wire[i] \in WireEvent
  BY LenProperties, HeadTailProperties, ElementOfSeq, EmptySeq DEF ScanType
<1>2. ASSUME NEW kind, OnWire(kind)' PROVE OnWire(kind)
  <2>1. PICK i \in 1 .. Len(wire) - 1 : wire'[i].kind = kind
    BY <1>1, <1>2 DEF OnWire
  <2>2. i + 1 \in 1 .. Len(wire) /\ wire[i + 1].kind = kind
    BY <1>1, <2>1
  <2>3. QED
    BY <2>2 DEF OnWire
<1>3. ASSUME NEW kind, OnWire(kind), wire[1].kind # kind PROVE OnWire(kind)'
  <2>1. PICK i \in 1 .. Len(wire) : wire[i].kind = kind
    BY <1>3 DEF OnWire
  <2>2. i - 1 \in 1 .. Len(wire) - 1 /\ i - 1 + 1 = i
    BY <1>1, <1>3, <2>1
  <2>3. wire'[i - 1].kind = kind /\ i - 1 \in 1 .. Len(wire')
    BY <1>1, <2>1, <2>2
  <2>4. QED
    BY <2>3 DEF OnWire
<1>4. 1 \in 1 .. Len(wire)
  BY <1>1
<1>5. QED
  BY <1>1, <1>2, <1>3, <1>4 DEF OnWire
-----------------------------------------------------------------------------
(* Each step keeps the invariant.                                          *)

\* What is said of the scan as long as no press crosses an end.
Agreed == BackendTrue /\ EndTrue /\ ButtonTrue /\ ScanTrue

\* Topics change nothing of that.
LEMMA TopicsAside ==
  ASSUME ScanInv, UNCHANGED <<here, scan, stray, pressed, presser, crossed>>,
         OnWire("stopped")' <=> OnWire("stopped"), OnWire("closed")' <=> OnWire("closed")
  PROVE  PressersTrue' /\ (~crossed' => Agreed')
<1>1. PressersTrue'
  BY DEF ScanInv, PressersTrue
<1>2. ASSUME ~crossed' PROVE BackendTrue'
  BY <1>2 DEF ScanInv, BackendTrue
<1>3. ASSUME ~crossed' PROVE EndTrue'
  BY <1>3 DEF ScanInv, EndTrue
<1>4. ASSUME ~crossed' PROVE ButtonTrue'
  BY <1>4 DEF ScanInv, ButtonTrue, LastAt, LastOk
<1>5. ASSUME ~crossed' PROVE ScanTrue'
  BY <1>5 DEF ScanInv, ScanTrue, LastAt, LastOk, Stopper
<1>6. QED
  BY <1>1, <1>2, <1>3, <1>4, <1>5 DEF Agreed

LEMMA ReportTopicKeeps == ASSUME ScanInv, NEW b \in BrokerNames, ReportTopic(b) PROVE ScanInv'
<1>1. Report(b) \in WireEvent /\ Report(b).kind = "topic"
  BY DEF Report, WireEvent, Named
<1>2. /\ wire' \in Seq(WireEvent)
      /\ OnWire("stopped")' <=> OnWire("stopped")
      /\ OnWire("closed")' <=> OnWire("closed")
  BY <1>1, WireGrows DEF ReportTopic, ScanInv
<1>3. ScanType' /\ ListTrue'
  BY <1>2 DEF ReportTopic, ScanInv, ScanType, ListTrue, Distinct, topicVars
<1>4. PressersTrue' /\ (~crossed' => Agreed')
  BY <1>2, TopicsAside DEF ReportTopic
<1>5. QED
  BY <1>3, <1>4 DEF ScanInv, Agreed

LEMMA HearTopicKeeps == ASSUME ScanInv, HearTopic PROVE ScanInv'
<1>1. /\ wire' \in Seq(WireEvent) /\ wire[1] \in WireEvent
      /\ OnWire("stopped")' <=> OnWire("stopped")
      /\ OnWire("closed")' <=> OnWire("closed")
  BY WireShrinks DEF HearTopic, ScanInv
<1>2. found' \in Seq(Named)
  BY <1>1, AppendProperties DEF HearTopic, WireEvent, ScanInv, ScanType
<1>3. ScanType' /\ ListTrue'
  BY <1>1, <1>2 DEF HearTopic, ScanInv, ScanType, ListTrue, Distinct, topicVars
<1>4. PressersTrue' /\ (~crossed' => Agreed')
  BY <1>1, TopicsAside DEF HearTopic
<1>5. QED
  BY <1>3, <1>4 DEF ScanInv, Agreed

LEMMA HearEndKeeps == ASSUME ScanInv, HearEnd PROVE ScanInv'
<1>1. /\ wire' \in Seq(WireEvent) /\ wire[1] \in WireEvent
      /\ OnWire("stopped")' => OnWire("stopped")
      /\ OnWire("closed")' => OnWire("closed")
      /\ OnWire("stopped") \/ OnWire("closed")
  BY WireShrinks DEF HearEnd, ScanInv, WireEvent
<1>2. ScanType' /\ ListTrue' /\ PressersTrue'
  BY <1>1 DEF HearEnd, ScanInv, ScanType, ListTrue, Distinct, topicVars, PressersTrue
<1>3. ASSUME ~crossed' PROVE BackendTrue' /\ EndTrue' /\ ButtonTrue' /\ ScanTrue'
  <2>1. ~crossed /\ BackendTrue /\ EndTrue /\ ButtonTrue /\ ScanTrue /\ ~pressed'
    BY <1>3 DEF HearEnd, ScanInv
  <2>2. scan = "none"
    BY <1>1, <2>1 DEF BackendTrue, EndTrue
  <2>3. BackendTrue'
    BY <1>1, <2>1 DEF HearEnd, BackendTrue
  <2>4. EndTrue'
    BY <1>1, <2>1 DEF HearEnd, EndTrue
  <2>5. ScanTrue'
    BY <2>2 DEF HearEnd, ScanTrue
  <2>6. ButtonTrue'
    <3>1. ASSUME here, LastAt({"waiting", "called", "begun"})
          PROVE  ~presser[Len(presser)].start \/ presser[Len(presser)].over
      <4>1. OnWire("stopped") /\ presser # <<>> /\ Len(presser) \in 1 .. Len(presser)
        BY <1>1, <2>1, <3>1, PresserIs DEF BackendTrue, ScanInv, LastAt
      <4>2. QED
        BY <2>1, <3>1, <4>1 DEF EndTrue, LastAt
    <3>2. UNCHANGED <<here, presser>>
      BY DEF HearEnd
    <3>3. QED
      BY <2>1, <3>1, <3>2 DEF ButtonTrue, LastAt
  <2>7. QED
    BY <2>3, <2>4, <2>5, <2>6
<1>4. QED
  BY <1>2, <1>3 DEF ScanInv

LEMMA StrayStopKeeps == ASSUME ScanInv, StrayStop PROVE ScanInv'
<1>1. ScanType' /\ ListTrue' /\ PressersTrue'
  BY DEF StrayStop, ScanInv, ScanType, ListTrue, Distinct, topicVars, PressersTrue
<1>2. OnWire("stopped")' <=> OnWire("stopped")
  BY DEF StrayStop, OnWire
<1>3. OnWire("closed")' <=> OnWire("closed")
  BY DEF StrayStop, OnWire
<1>4. ASSUME ~crossed' PROVE BackendTrue' /\ EndTrue' /\ ButtonTrue' /\ ScanTrue'
  <2>1. ~crossed /\ BackendTrue /\ presser = <<>> /\ ~pressed
    BY <1>4 DEF StrayStop, ScanInv, BackendTrue
  <2>2. presser' = <<>> /\ ~pressed' /\ scan' = "none" /\ ~stray' /\ here' = here /\ Len(presser') = 0
    BY <2>1, EmptySeq DEF StrayStop
  <2>3. QED
    BY <1>2, <1>3, <2>1, <2>2 DEF BackendTrue, EndTrue, ButtonTrue, ScanTrue, LastAt
<1>5. QED
  BY <1>1, <1>4 DEF ScanInv

LEMMA EndingIs ==
  ASSUME NEW kind \in {"stopped", "closed"}
  PROVE  Ending(kind) \in WireEvent /\ Ending(kind).kind = kind
BY DEF Ending, WireEvent, Named

LEMMA LoseScanKeeps == ASSUME ScanInv, LoseScan PROVE ScanInv'
<1>1. /\ wire' \in Seq(WireEvent) /\ OnWire("stopped")'
      /\ OnWire("closed")' <=> OnWire("closed")
  BY EndingIs, WireGrows DEF LoseScan, ScanInv
<1>2. ScanType' /\ ListTrue' /\ PressersTrue'
  BY <1>1 DEF LoseScan, ScanInv, ScanType, ListTrue, Distinct, topicVars, PressersTrue
<1>3. ASSUME ~crossed' PROVE BackendTrue' /\ EndTrue' /\ ButtonTrue' /\ ScanTrue'
  <2>1. ~crossed /\ BackendTrue /\ ButtonTrue /\ scan = "running" /\ scan' = "none"
    BY <1>3 DEF LoseScan, ScanInv
  <2>2. \A i \in 1 .. Len(presser) : presser[i].start /\ presser[i].at = "waiting" => presser[i].over
    BY <1>3, PresserIs DEF LoseScan, ScanInv, PresserAt
  <2>3. BackendTrue'
    BY <1>1, <2>1 DEF LoseScan, BackendTrue
  <2>4. EndTrue'
    BY <2>1, <2>2 DEF LoseScan, EndTrue, BackendTrue
  <2>5. ScanTrue'
    BY <2>1 DEF ScanTrue
  <2>6. ButtonTrue'
    BY <1>1, <2>1 DEF LoseScan, ButtonTrue, LastAt
  <2>7. QED
    BY <2>3, <2>4, <2>5, <2>6
<1>4. QED
  BY <1>2, <1>3 DEF ScanInv

LEMMA EndConnectionKeeps == ASSUME ScanInv, EndConnection PROVE ScanInv'
<1>1. /\ wire' \in Seq(WireEvent) /\ OnWire("closed")'
      /\ OnWire("stopped")' <=> OnWire("stopped")
  BY EndingIs, WireGrows DEF EndConnection, ScanInv
<1>2. ScanType' /\ ListTrue' /\ PressersTrue'
  BY <1>1 DEF EndConnection, ScanInv, ScanType, ListTrue, Distinct, topicVars, PressersTrue
<1>3. ASSUME ~crossed' PROVE BackendTrue' /\ EndTrue' /\ ButtonTrue' /\ ScanTrue'
  <2>1. ~crossed /\ BackendTrue /\ EndTrue /\ ButtonTrue /\ ~here' /\ scan' = "none"
    BY <1>3 DEF EndConnection, ScanInv
  <2>2. BackendTrue'
    BY <1>1, <2>1 DEF EndConnection, BackendTrue
  <2>3. EndTrue'
    BY <1>1, <2>1 DEF EndConnection, EndTrue
  <2>4. ScanTrue'
    BY <2>1 DEF ScanTrue
  <2>5. ButtonTrue'
    BY <1>1, <2>1 DEF EndConnection, ButtonTrue, LastAt
  <2>6. QED
    BY <2>2, <2>3, <2>4, <2>5
<1>4. QED
  BY <1>2, <1>3 DEF ScanInv
-----------------------------------------------------------------------------
(* The calls end and go on.                                                *)

\* What no call changes.
LEMMA CallsAside ==
  ASSUME ScanInv, presser' \in Seq(Presser), scan' \in {"none", "starting", "running"},
         UNCHANGED <<here, wire, stray, topicVars, crossed>>
  PROVE  /\ ScanType' /\ ListTrue'
         /\ OnWire("stopped")' <=> OnWire("stopped")
         /\ OnWire("closed")' <=> OnWire("closed")
         /\ Len(presser) \in Nat /\ Len(presser') \in Nat
         /\ presser = <<>> <=> Len(presser) = 0
         /\ presser' = <<>> <=> Len(presser') = 0
<1>1. ScanType' /\ ListTrue'
  BY DEF ScanInv, ScanType, ListTrue, Distinct, topicVars
<1>2. OnWire("stopped")' <=> OnWire("stopped")
  BY DEF OnWire
<1>3. OnWire("closed")' <=> OnWire("closed")
  BY DEF OnWire
<1>4. Len(presser) \in Nat /\ (presser = <<>> <=> Len(presser) = 0)
  BY PresserIs DEF ScanInv
<1>5. Len(presser') \in Nat /\ (presser' = <<>> <=> Len(presser') = 0)
  BY LenProperties, EmptySeq
<1>6. QED
  BY <1>1, <1>2, <1>3, <1>4, <1>5

\* A call that stops nothing any more may end.
LEMMA EndKeeps ==
  ASSUME ScanInv, NEW i \in 1 .. Len(presser), Ends(i), ~Stopper(i), presser[i].at # "begun",
         UNCHANGED <<here, scan, wire, stray, topicVars, crossed>>, pressed' => pressed,
         ~crossed /\ pressed =>
            \/ pressed' /\ i < Len(presser)
            \/ /\ Len(presser) = 1
               /\ pressed' => scan = "running" \/ OnWire("stopped") \/ OnWire("closed")
               /\ ~pressed' => scan # "running"
  PROVE  ScanInv'
<1>1. scan \in {"none", "starting", "running"} /\ presser' \in Seq(Presser)
  BY DEF ScanInv, ScanType, Ends
<1>2. /\ ScanType' /\ ListTrue'
      /\ OnWire("stopped")' <=> OnWire("stopped")
      /\ OnWire("closed")' <=> OnWire("closed")
      /\ Len(presser) \in Nat /\ (presser' = <<>> <=> Len(presser') = 0)
  BY <1>1, CallsAside
<1>3. /\ Len(presser') = Len(presser) - 1
      /\ \A j \in 1 .. Len(presser') : presser'[j] = presser[IF j < i THEN j ELSE j + 1]
  BY DEF Ends
<1>4. \A j \in 1 .. Len(presser') : (IF j < i THEN j ELSE j + 1) \in 1 .. Len(presser)
  BY <1>2, <1>3
<1>5. PressersTrue'
  <2> SUFFICES ASSUME NEW j \in 1 .. Len(presser')
               PROVE  /\ ~presser'[j].over => j = Len(presser')
                      /\ presser'[j].start /\ presser'[j].at # "waiting" => j = 1
                      /\ ~presser'[j].start => presser'[j].at \in {"called", "answered"}
                      /\ presser'[j].at \in {"again", "stopped"} => presser'[j].over
    BY DEF PressersTrue
  <2>1. PICK k \in 1 .. Len(presser) : k = IF j < i THEN j ELSE j + 1
    BY <1>4
  <2>2. /\ presser'[j] = presser[k] /\ (k = Len(presser) => j = Len(presser')) /\ (k = 1 => j = 1)
    BY <1>2, <1>3, <2>1
  <2>3. QED
    BY <2>2 DEF ScanInv, PressersTrue
<1>6. ASSUME ~crossed' PROVE BackendTrue' /\ EndTrue' /\ ButtonTrue' /\ ScanTrue'
  <2>1. ~crossed /\ BackendTrue /\ EndTrue /\ ButtonTrue /\ ScanTrue /\ PressersTrue
    BY <1>6 DEF ScanInv
  <2>2. Len(presser) # 0 /\ presser # <<>>
    BY <1>2, PresserIs DEF ScanInv
  <2>3. BackendTrue'
    <3>1. ~stray
      BY <2>1, <2>2 DEF BackendTrue
    <3>2. ASSUME scan = "starting" PROVE presser' # <<>> /\ presser'[1] = presser[1]
      <4>1. i # 1
        BY <2>1, <3>2 DEF BackendTrue
      <4>2. QED
        BY <1>2, <1>3, <4>1
    <3>3. \A j \in 1 .. Len(presser') : presser'[j].start =>
             /\ presser'[j].at = "called" => scan = "none"
             /\ presser'[j].at = "begun" => scan # "running"
             /\ presser'[j].at = "answered" /\ ~presser'[j].ok => scan # "running"
      BY <1>3, <1>4, <2>1 DEF BackendTrue
    <3>4. QED
      BY <1>2, <2>1, <3>1, <3>2, <3>3 DEF BackendTrue
  <2>4. EndTrue'
    BY <1>2, <1>3, <1>4, <2>1 DEF EndTrue
  <2>5. ASSUME i < Len(presser)
        PROVE  Len(presser') # 0 /\ presser' # <<>> /\ presser'[Len(presser')] = presser[Len(presser)]
    BY <1>2, <1>3, <2>5
  <2>6. ButtonTrue'
    <3>1. CASE i < Len(presser)
      <4>0. Len(presser) # 1
        <5>1. PICK n \in Nat : n = Len(presser)
          BY <1>2
        <5>2. n # 1
          BY <3>1, <5>1
        <5>3. QED
          BY <5>1, <5>2
      <4>1. pressed => pressed'
        BY <2>1, <4>0, Zenon
      <4>2. QED
        BY <1>2, <2>1, <2>2, <2>5, <3>1, <4>1 DEF ButtonTrue, LastAt, LastOk
    <3>2. CASE Len(presser) = 1
      <4>1. presser' = <<>>
        BY <1>2, <1>3, <3>2
      <4>2. pressed' => scan = "running" \/ OnWire("stopped") \/ OnWire("closed")
        BY <2>1, <3>2
      <4>3. QED
        BY <1>2, <4>1, <4>2 DEF ButtonTrue, LastAt
    <3>3. CASE i = Len(presser) /\ Len(presser) # 1
      <4>1. ~pressed'
        BY <1>2, <2>1, <3>3
      <4>2. /\ Len(presser) - 1 \in 1 .. Len(presser) /\ Len(presser) - 1 # Len(presser)
            /\ presser'[Len(presser')] = presser[Len(presser) - 1]
        BY <1>2, <1>3, <2>2, <3>3
      <4>3. presser'[Len(presser')].over
        BY <2>1, <4>2 DEF PressersTrue
      <4>4. QED
        BY <4>1, <4>3 DEF ButtonTrue
    <3>4. QED
      BY <1>2, <3>1, <3>2, <3>3
  <2>7. ScanTrue'
    <3> SUFFICES ASSUME scan = "running"
                 PROVE  \/ \E j \in 1 .. Len(presser') : Stopper(j)'
                        \/ pressed' /\ (presser' = <<>> \/ (LastAt({"answered"})' /\ LastOk'))
      BY DEF ScanTrue
    <3>1. CASE \E k \in 1 .. Len(presser) : Stopper(k)
      <4>1. PICK k \in 1 .. Len(presser) : Stopper(k)
        BY <3>1
      <4>2. PICK j \in 1 .. Len(presser') : k = IF j < i THEN j ELSE j + 1
        <5>1. k # i
          BY <4>1
        <5>2. CASE k < i
          BY <1>2, <1>3, <5>2
        <5>3. CASE k > i
          <6>1. k - 1 \in 1 .. Len(presser') /\ ~(k - 1 < i) /\ k = k - 1 + 1
            BY <1>2, <1>3, <5>3
          <6>2. QED
            BY <6>1
        <5>4. QED
          BY <1>2, <5>1, <5>2, <5>3
      <4>3. presser'[j] = presser[k]
        BY <1>3, <4>2
      <4>4. Stopper(j)'
        BY <4>1, <4>3 DEF Stopper
      <4>5. QED
        BY <4>4
    <3>2. CASE pressed /\ LastAt({"answered"}) /\ LastOk
      <4>1. CASE i < Len(presser) /\ pressed'
        BY <2>5, <3>2, <4>1 DEF LastAt, LastOk
      <4>2. CASE Len(presser) = 1 /\ pressed'
        BY <1>2, <1>3, <4>2
      <4>3. QED
        BY <2>1, <3>2, <4>1, <4>2
    <3>3. QED
      BY <2>1, <2>2, <3>1, <3>2 DEF ScanTrue, BackendTrue
  <2>8. QED
    BY <2>3, <2>4, <2>6, <2>7
<1>7. QED
  BY <1>2, <1>5, <1>6 DEF ScanInv

\* A start that goes on is the first call.
LEMMA StartTurnKeeps ==
  ASSUME ScanInv, 1 \in 1 .. Len(presser), presser[1].start,
         NEW to \in {"called", "begun", "answered", "again", "stopped"}, NEW ok \in BOOLEAN,
         Turns(1, to, ok), scan' \in {"none", "starting", "running"},
         UNCHANGED <<here, wire, stray, pressed, topicVars, crossed>>,
         to \in {"again", "stopped"} => presser[1].over,
         ~crossed =>
            /\ ~here => scan' = "none"
            /\ scan' = "starting" => to = "begun"
            /\ to = "called" => scan' = "none"
            /\ to = "begun" \/ (to = "answered" /\ ~ok) => scan' # "running"
            /\ OnWire("stopped") => scan' = "none" /\ to \notin {"called", "begun"}
            /\ pressed /\ Len(presser) = 1 =>
                  \/ scan' = "running" \/ OnWire("stopped") \/ OnWire("closed")
                  \/ to \in {"called", "begun"} \/ (to = "answered" /\ ~ok)
            /\ here /\ Len(presser) = 1 /\ to \in {"called", "begun"} =>
                  presser[1].over \/ pressed
            /\ scan' = "running" =>
                  \/ to = "again" \/ (to = "answered" /\ ok /\ presser[1].over)
                  \/ Len(presser) = 1 /\ pressed /\ to = "answered" /\ ok
  PROVE  ScanInv'
<1>1. presser' \in Seq(Presser)
  BY DEF Turns
<1>2. /\ ScanType' /\ ListTrue'
      /\ OnWire("stopped")' <=> OnWire("stopped")
      /\ OnWire("closed")' <=> OnWire("closed")
      /\ Len(presser) \in Nat /\ (presser' = <<>> <=> Len(presser') = 0)
      /\ presser = <<>> <=> Len(presser) = 0
  BY <1>1, CallsAside
<1>3. /\ Len(presser') = Len(presser)
      /\ \A j \in 1 .. Len(presser) :
            /\ presser'[j].start = presser[j].start /\ presser'[j].over = presser[j].over
            /\ presser'[j].at = IF j = 1 THEN to ELSE presser[j].at
            /\ presser'[j].ok = IF j = 1 THEN ok ELSE presser[j].ok
  BY DEF Turns
<1>4. Len(presser) # 0 /\ presser # <<>> /\ presser' # <<>> /\ Len(presser) \in 1 .. Len(presser)
  BY <1>2, <1>3
<1>5. PressersTrue'
  <2> SUFFICES ASSUME NEW j \in 1 .. Len(presser)
               PROVE  /\ ~presser'[j].over => j = Len(presser)
                      /\ presser'[j].start /\ presser'[j].at # "waiting" => j = 1
                      /\ ~presser'[j].start => presser'[j].at \in {"called", "answered"}
                      /\ presser'[j].at \in {"again", "stopped"} => presser'[j].over
    BY <1>3 DEF PressersTrue
  <2>1. CASE j = 1
    BY <1>3, <2>1 DEF ScanInv, PressersTrue
  <2>2. CASE j # 1
    BY <1>3, <2>2 DEF ScanInv, PressersTrue
  <2>3. QED
    BY <2>1, <2>2
<1>6. ASSUME ~crossed' PROVE BackendTrue' /\ EndTrue' /\ ButtonTrue' /\ ScanTrue'
  <2>1. ~crossed /\ BackendTrue /\ EndTrue /\ ButtonTrue /\ ScanTrue /\ PressersTrue
    BY <1>6 DEF ScanInv
  <2>2. \A j \in 1 .. Len(presser) : j # 1 /\ presser[j].start => presser[j].at = "waiting"
    BY <2>1 DEF PressersTrue
  <2>3. BackendTrue'
    <3>1. ~stray
      BY <1>4, <2>1 DEF BackendTrue
    <3>2. \A j \in 1 .. Len(presser') : presser'[j].start =>
             /\ presser'[j].at = "called" => scan' = "none"
             /\ presser'[j].at = "begun" => scan' # "running"
             /\ presser'[j].at = "answered" /\ ~presser'[j].ok => scan' # "running"
      BY <1>3, <2>1, <2>2
    <3>3. scan' = "starting" => presser'[1].start /\ presser'[1].at = "begun"
      BY <1>3, <2>1
    <3>4. QED
      BY <1>2, <1>4, <2>1, <3>1, <3>2, <3>3 DEF BackendTrue
  <2>4. EndTrue'
    <3> SUFFICES ASSUME OnWire("stopped")
                 PROVE  /\ scan' = "none"
                        /\ \A j \in 1 .. Len(presser') : presser'[j].start =>
                              /\ presser'[j].at \notin {"called", "begun"}
                              /\ presser'[j].at = "waiting" => presser'[j].over
      BY <1>2 DEF EndTrue
    <3>1. scan' = "none" /\ to \notin {"called", "begun"}
      BY <2>1
    <3>2. \A j \in 1 .. Len(presser) : presser[j].start =>
              /\ presser[j].at \notin {"called", "begun"}
              /\ presser[j].at = "waiting" => presser[j].over
      BY <2>1 DEF EndTrue
    <3>3. QED
      BY <1>3, <3>1, <3>2
  <2>5. ButtonTrue'
    <3>1. CASE Len(presser) = 1
      <4>1. presser'[1].at = to /\ presser'[1].ok = ok /\ presser'[1].start /\ (presser'[1].over <=> presser[1].over)
        BY <1>3
      <4>2. pressed => ~presser[1].over
        BY <1>4, <2>1, <3>1 DEF ButtonTrue
      <4>3. QED
        BY <1>2, <1>3, <1>4, <2>1, <3>1, <4>1, <4>2 DEF ButtonTrue, LastAt, LastOk
    <3>2. CASE Len(presser) # 1
      <4>1. /\ presser'[Len(presser)].at = presser[Len(presser)].at
            /\ presser'[Len(presser)].start = presser[Len(presser)].start
            /\ presser'[Len(presser)].over = presser[Len(presser)].over
        BY <1>3, <1>4, <3>2
      <4>2. pressed => presser[Len(presser)].start /\ ~presser[Len(presser)].over
        BY <1>4, <2>1 DEF ButtonTrue
      <4>3. pressed => presser[Len(presser)].at = "waiting"
        BY <1>4, <2>2, <3>2, <4>2
      <4>4. here /\ presser[Len(presser)].at \in {"waiting", "called", "begun"} =>
               ~presser[Len(presser)].start \/ presser[Len(presser)].over \/ pressed
        BY <1>4, <2>1 DEF ButtonTrue, LastAt
      <4>5. QED
        BY <1>3, <1>4, <4>1, <4>2, <4>3, <4>4 DEF ButtonTrue, LastAt
    <3>3. QED
      BY <3>1, <3>2
  <2>6. ScanTrue'
    <3> SUFFICES ASSUME scan' = "running"
                 PROVE  \/ Stopper(1)'
                        \/ pressed' /\ LastAt({"answered"})' /\ LastOk'
      BY <1>3 DEF ScanTrue
    <3>1. CASE to = "again" \/ (to = "answered" /\ ok /\ presser[1].over)
      BY <1>3, <3>1 DEF Stopper
    <3>2. CASE Len(presser) = 1 /\ pressed /\ to = "answered" /\ ok
      BY <1>3, <1>4, <3>2 DEF LastAt, LastOk
    <3>3. QED
      BY <2>1, <3>1, <3>2
  <2>7. QED
    BY <2>3, <2>4, <2>5, <2>6
<1>7. QED
  BY <1>2, <1>5, <1>6 DEF ScanInv
-----------------------------------------------------------------------------
(* Each call keeps the invariant.                                          *)

LEMMA StartGoesOnKeeps ==
  ASSUME ScanInv, NEW i \in 1 .. Len(presser), StartGoesOn(i) PROVE ScanInv'
<1>1. /\ presser[i].start /\ presser[i].at = "waiting" /\ i = 1
      /\ UNCHANGED <<here, scan, wire, stray, topicVars, crossed>>
      /\ UNCHANGED pressed
  BY DEF StartGoesOn, PresserAt, scanBackendVars
<1>2. ScanType /\ scan \in {"none", "starting", "running"}
  BY DEF ScanInv, ScanType
<1>3. Len(presser) \in Nat /\ Len(presser) # 0 /\ presser # <<>> /\ Len(presser) \in 1 .. Len(presser)
  BY <1>2, PresserIs
<1>4. CASE presser[i].over
  <2>1. Ends(i)
    BY <1>2, <1>4, EndsIs DEF StartGoesOn
  <2>2. ~Stopper(i) /\ presser[i].at # "begun"
    BY <1>1 DEF Stopper
  <2>3. ~crossed /\ pressed => i < Len(presser)
    BY <1>1, <1>3, <1>4 DEF ScanInv, ButtonTrue
  <2>4. QED
    BY <1>1, <2>1, <2>2, <2>3, EndKeeps
<1>5. CASE ~presser[i].over
  <2>1. Turns(1, "called", presser[1].ok) /\ presser[1].ok \in BOOLEAN
    BY <1>1, <1>2, <1>5, TurnsAt, PresserIs DEF StartGoesOn
  <2>2. Len(presser) = 1
    BY <1>1, <1>5 DEF ScanInv, PressersTrue
  <2>3. ASSUME ~crossed
        PROVE  /\ scan = "none" /\ ~OnWire("stopped")
               /\ here => pressed
    <3>1. BackendTrue /\ EndTrue /\ ButtonTrue /\ ScanTrue
      BY <2>3 DEF ScanInv
    <3>2. ~OnWire("stopped")
      BY <1>1, <1>5, <3>1 DEF EndTrue
    <3>3. here => pressed
      BY <1>1, <1>3, <1>5, <2>2, <3>1 DEF ButtonTrue, LastAt
    <3>4. ~stray /\ scan # "starting"
      BY <1>1, <1>3, <3>1 DEF BackendTrue
    <3>5. scan # "running"
      BY <1>1, <1>3, <2>2, <3>1, <3>4 DEF ScanTrue, Stopper, LastAt
    <3>6. QED
      BY <1>2, <3>2, <3>3, <3>4, <3>5
  <2>4. PICK ok \in BOOLEAN : ok = presser[1].ok
    BY <2>1, Zenon
  <2>5. QED
    BY <1>1, <1>2, <2>1, <2>3, <2>4, StartTurnKeeps
<1>6. QED
  BY <1>4, <1>5

LEMMA StartedKeeps ==
  ASSUME ScanInv, NEW i \in 1 .. Len(presser), Started(i) PROVE ScanInv'
<1>1. /\ presser[i].start /\ presser[i].at = "answered" /\ presser[i].ok
      /\ UNCHANGED <<here, scan, wire, stray, topicVars, crossed>>
      /\ UNCHANGED pressed
  BY DEF Started, PresserAt, scanBackendVars
<1>2. ScanType /\ scan \in {"none", "starting", "running"} /\ i = 1
  BY <1>1 DEF ScanInv, ScanType, PressersTrue
<1>3. Len(presser) \in Nat /\ Len(presser) # 0 /\ presser # <<>> /\ Len(presser) \in 1 .. Len(presser)
  BY <1>2, PresserIs
<1>4. CASE presser[i].over
  <2>1. Turns(1, "again", presser[1].ok) /\ presser[1].ok \in BOOLEAN
    BY <1>2, <1>4, TurnsAt, PresserIs DEF Started, StopsAgain
  <2>2. ASSUME ~crossed
        PROVE  /\ ~here => scan = "none"
               /\ scan # "starting"
               /\ OnWire("stopped") => scan = "none"
               /\ ~(pressed /\ Len(presser) = 1)
    <3>1. BackendTrue /\ EndTrue /\ ButtonTrue
      BY <2>2 DEF ScanInv
    <3>2. scan # "starting" /\ (~here => scan = "none")
      BY <1>1, <1>2, <3>1 DEF BackendTrue
    <3>3. OnWire("stopped") => scan = "none"
      BY <3>1 DEF EndTrue
    <3>4. ~(pressed /\ Len(presser) = 1)
      BY <1>2, <1>3, <1>4, <3>1 DEF ButtonTrue
    <3>5. QED
      BY <3>2, <3>3, <3>4
  <2>3. PICK ok \in BOOLEAN : ok = presser[1].ok
    BY <2>1, Zenon
  <2>4. QED
    BY <1>1, <1>2, <1>4, <2>1, <2>2, <2>3, StartTurnKeeps
<1>5. CASE ~presser[i].over
  <2>1. Ends(i)
    BY <1>2, <1>5, EndsIs DEF Started, StopsAgain
  <2>2. ~Stopper(i) /\ presser[i].at # "begun"
    BY <1>1, <1>5 DEF Stopper
  <2>3. Len(presser) = 1
    BY <1>2, <1>5 DEF ScanInv, PressersTrue
  <2>4. ~crossed /\ pressed => scan = "running" \/ OnWire("stopped") \/ OnWire("closed")
    BY <1>1, <1>2, <2>3 DEF ScanInv, ButtonTrue, LastAt, LastOk
  <2>5. ~crossed /\ pressed =>
            \/ pressed' /\ i < Len(presser)
            \/ /\ Len(presser) = 1
               /\ pressed' => scan = "running" \/ OnWire("stopped") \/ OnWire("closed")
               /\ ~pressed' => scan # "running"
    BY <1>1, <2>3, <2>4, Zenon
  <2>6. QED
    BY <1>1, <2>1, <2>2, <2>5, EndKeeps
<1>6. QED
  BY <1>4, <1>5

LEMMA NotStartedKeeps ==
  ASSUME ScanInv, NEW i \in 1 .. Len(presser), NotStarted(i) PROVE ScanInv'
<1>1. /\ presser[i].start /\ presser[i].at = "answered" /\ ~presser[i].ok
      /\ UNCHANGED <<here, scan, wire, stray, topicVars, crossed>>
      /\ pressed' <=> pressed /\ presser[i].over
  BY DEF NotStarted, PresserAt, scanBackendVars
<1>2. ScanType /\ i = 1
  BY <1>1 DEF ScanInv, PressersTrue
<1>3. Len(presser) \in Nat /\ Len(presser) # 0 /\ presser # <<>> /\ Len(presser) \in 1 .. Len(presser)
  BY <1>2, PresserIs
<1>4. Ends(i)
  BY <1>2, EndsIs DEF NotStarted
<1>5. ~Stopper(i) /\ presser[i].at # "begun"
  BY <1>1 DEF Stopper
<1>6. ~crossed => scan # "running"
  BY <1>1 DEF ScanInv, BackendTrue
<1>7. ~presser[i].over => Len(presser) = 1
  BY <1>2 DEF ScanInv, PressersTrue
<1>8. ~crossed /\ pressed /\ presser[i].over => i < Len(presser)
  BY <1>2, <1>3 DEF ScanInv, ButtonTrue
<1>9. ~crossed /\ pressed =>
         \/ pressed' /\ i < Len(presser)
         \/ /\ Len(presser) = 1
            /\ pressed' => scan = "running" \/ OnWire("stopped") \/ OnWire("closed")
            /\ ~pressed' => scan # "running"
  BY <1>1, <1>6, <1>7, <1>8, Zenon
<1>10. pressed' => pressed
  BY <1>1
<1>11. QED
  BY <1>1, <1>4, <1>5, <1>9, <1>10, EndKeeps

LEMMA StopEndsKeeps ==
  ASSUME ScanInv, NEW i \in 1 .. Len(presser), StopEnds(i) PROVE ScanInv'
<1>1. /\ \/ ~presser[i].start /\ presser[i].at = "answered"
         \/ presser[i].start /\ presser[i].at = "stopped"
      /\ UNCHANGED <<here, scan, wire, stray, topicVars, crossed>>
      /\ UNCHANGED pressed
  <2>1. presser[i].start \in BOOLEAN
    BY PresserIs DEF ScanInv
  <2>2. QED
    BY <2>1 DEF StopEnds, PresserAt, scanBackendVars
<1>2. Len(presser) \in Nat /\ Len(presser) # 0 /\ presser # <<>>
  BY PresserIs DEF ScanInv
<1>3. Ends(i)
  BY EndsIs DEF StopEnds, ScanInv
<1>4. ~Stopper(i) /\ presser[i].at # "begun"
  BY <1>1 DEF Stopper
<1>5. ~presser[i].start \/ presser[i].over
  BY <1>1 DEF ScanInv, PressersTrue
<1>6. ~crossed /\ pressed => i # Len(presser)
  BY <1>2, <1>5 DEF ScanInv, ButtonTrue
<1>7. i # Len(presser) => i < Len(presser)
  BY <1>2
<1>8. ~crossed /\ pressed => pressed' /\ i < Len(presser)
  BY <1>1, <1>6, <1>7, Zenon
<1>9. pressed' => pressed
  BY <1>1
<1>10. QED
  BY <1>1, <1>3, <1>4, <1>8, <1>9, EndKeeps

LEMMA StartReservesKeeps ==
  ASSUME ScanInv, NEW i \in 1 .. Len(presser), StartReserves(i) PROVE ScanInv'
<1>1. /\ presser[i].start /\ presser[i].at = "called" /\ here /\ scan' = "starting"
      /\ UNCHANGED <<here, wire, stray, pressed, topicVars, crossed>>
  BY DEF StartReserves, PresserAt
<1>2. ScanType /\ i = 1
  BY <1>1 DEF ScanInv, PressersTrue
<1>3. Len(presser) \in Nat /\ Len(presser) # 0 /\ presser # <<>>
  BY <1>2, PresserIs
<1>4. Turns(1, "begun", presser[1].ok) /\ presser[1].ok \in BOOLEAN
  BY <1>2, TurnsAt, PresserIs DEF StartReserves
<1>5. ASSUME ~crossed
      PROVE  /\ ~OnWire("stopped")
             /\ Len(presser) = 1 => presser[1].over \/ pressed
  <2>1. EndTrue /\ ButtonTrue
    BY <1>5 DEF ScanInv
  <2>2. ~OnWire("stopped")
    BY <1>1, <2>1 DEF EndTrue
  <2>3. Len(presser) = 1 => presser[1].over \/ pressed
    BY <1>1, <1>2, <1>3, <2>1 DEF ButtonTrue, LastAt
  <2>4. QED
    BY <2>2, <2>3
<1>6. PICK ok \in BOOLEAN : ok = presser[1].ok
  BY <1>4, Zenon
<1>7. QED
  BY <1>1, <1>2, <1>4, <1>5, <1>6, StartTurnKeeps

LEMMA AnsweredIs ==
  ASSUME ScanInv, NEW i \in 1 .. Len(presser), NEW ok \in BOOLEAN, PresserAnswered(i, ok)
  PROVE  Turns(i, "answered", ok)
BY TurnsIs DEF PresserAnswered, ScanInv

LEMMA StartRefusedKeeps ==
  ASSUME ScanInv, NEW i \in 1 .. Len(presser), StartRefused(i) PROVE ScanInv'
<1>1. /\ presser[i].start /\ presser[i].at = "called" /\ ~here
      /\ UNCHANGED <<here, scan, wire, stray, pressed, topicVars, crossed>>
  BY DEF StartRefused, PresserAt, scanBackendVars
<1>2. i = 1 /\ scan \in {"none", "starting", "running"}
  BY <1>1 DEF ScanInv, ScanType, PressersTrue
<1>3. Turns(1, "answered", FALSE)
  BY <1>2, AnsweredIs DEF StartRefused
<1>4. ~crossed => scan = "none"
  BY <1>1 DEF ScanInv, BackendTrue
<1>5. QED
  BY <1>1, <1>2, <1>3, <1>4, StartTurnKeeps

LEMMA StartJoinsKeeps ==
  ASSUME ScanInv, NEW i \in 1 .. Len(presser), StartJoins(i) PROVE ScanInv'
<1>1. /\ presser[i].start /\ presser[i].at = "called" /\ scan = "running"
      /\ UNCHANGED <<here, scan, wire, stray, pressed, topicVars, crossed>>
  BY DEF StartJoins, PresserAt, scanBackendVars
<1>2. i = 1 /\ scan \in {"none", "starting", "running"}
  BY <1>1 DEF ScanInv, ScanType, PressersTrue
<1>3. Turns(1, "answered", TRUE)
  BY <1>2, AnsweredIs DEF StartJoins
<1>4. crossed
  BY <1>1 DEF ScanInv, BackendTrue
<1>5. QED
  BY <1>1, <1>2, <1>3, <1>4, StartTurnKeeps

LEMMA StartSucceedsKeeps ==
  ASSUME ScanInv, NEW i \in 1 .. Len(presser), StartSucceeds(i) PROVE ScanInv'
<1>1. /\ presser[i].start /\ presser[i].at = "begun" /\ scan = "starting" /\ scan' = "running"
      /\ UNCHANGED <<here, wire, stray, pressed, topicVars, crossed>>
  BY DEF StartSucceeds, PresserAt
<1>2. i = 1 /\ ScanType
  BY <1>1 DEF ScanInv, PressersTrue
<1>3. Len(presser) \in Nat /\ Len(presser) # 0 /\ presser # <<>>
  BY <1>2, PresserIs
<1>4. Turns(1, "answered", TRUE)
  BY <1>2, AnsweredIs DEF StartSucceeds
<1>5. ASSUME ~crossed
      PROVE  /\ here /\ ~OnWire("stopped")
             /\ presser[1].over \/ (Len(presser) = 1 /\ pressed)
  <2>1. BackendTrue /\ EndTrue /\ ButtonTrue /\ PressersTrue
    BY <1>5 DEF ScanInv
  <2>2. here /\ ~OnWire("stopped")
    BY <1>1, <2>1 DEF BackendTrue, EndTrue
  <2>3. ~presser[1].over => Len(presser) = 1
    BY <1>2, <2>1 DEF PressersTrue
  <2>4. Len(presser) = 1 => presser[1].over \/ pressed
    BY <1>1, <1>2, <1>3, <2>1, <2>2 DEF ButtonTrue, LastAt
  <2>5. QED
    BY <2>2, <2>3, <2>4
<1>6. QED
  BY <1>1, <1>2, <1>4, <1>5, StartTurnKeeps

LEMMA StartFailsKeeps ==
  ASSUME ScanInv, NEW i \in 1 .. Len(presser), StartFails(i) PROVE ScanInv'
<1>1. /\ presser[i].start /\ presser[i].at = "begun" /\ scan' = "none"
      /\ UNCHANGED <<here, wire, stray, pressed, topicVars, crossed>>
  BY DEF StartFails, PresserAt
<1>2. i = 1
  BY <1>1 DEF ScanInv, PressersTrue
<1>3. Turns(1, "answered", FALSE)
  BY <1>2, AnsweredIs DEF StartFails
<1>4. QED
  BY <1>1, <1>2, <1>3, StartTurnKeeps

\* A stop changes the scan, wherever it stands.
LEMMA StopTopicScanKeeps ==
  ASSUME ScanInv, NEW i \in 1 .. Len(presser), StopTopicScan(i) PROVE ScanInv'
<1>1. /\ scan' = "none"
      /\ UNCHANGED <<here, wire, stray, pressed, topicVars, crossed>>
      /\ \/ presser[i].start /\ presser[i].at = "again"
         \/ ~presser[i].start /\ presser[i].at = "called"
  <2>1. presser[i].start \in BOOLEAN
    BY PresserIs DEF ScanInv
  <2>2. QED
    BY <2>1 DEF StopTopicScan, PresserAt
<1>2. ScanType
  BY DEF ScanInv
<1>3. Len(presser) \in Nat /\ Len(presser) # 0 /\ presser # <<>> /\ Len(presser) \in 1 .. Len(presser)
  BY <1>2, PresserIs
<1>4. CASE presser[i].start
  <2>1. i = 1 /\ presser[1].over
    BY <1>1, <1>4 DEF ScanInv, PressersTrue
  <2>2. Turns(1, "stopped", presser[1].ok) /\ presser[1].ok \in BOOLEAN
    BY <1>2, <1>4, <2>1, TurnsAt, PresserIs DEF StopTopicScan
  <2>3. ~crossed => ~(pressed /\ Len(presser) = 1)
    BY <1>3, <2>1 DEF ScanInv, ButtonTrue
  <2>4. PICK ok \in BOOLEAN : ok = presser[1].ok
    BY <2>2, Zenon
  <2>5. QED
    BY <1>1, <1>4, <2>1, <2>2, <2>3, <2>4, StartTurnKeeps
<1>5. CASE ~presser[i].start
  <2>1. Turns(i, "answered", presser[i].ok)
    BY <1>2, <1>5, TurnsAt DEF StopTopicScan
  <2>2. /\ presser' \in Seq(Presser) /\ Len(presser') = Len(presser)
        /\ \A j \in 1 .. Len(presser) :
              /\ presser'[j].start = presser[j].start /\ presser'[j].over = presser[j].over
              /\ presser'[j].at = IF j = i THEN "answered" ELSE presser[j].at
              /\ presser'[j].ok = presser[j].ok
    BY <2>1 DEF Turns
  <2>3. /\ ScanType' /\ ListTrue'
        /\ OnWire("stopped")' <=> OnWire("stopped")
        /\ OnWire("closed")' <=> OnWire("closed")
        /\ presser' = <<>> <=> Len(presser') = 0
    BY <1>1, <2>2, CallsAside
  <2>4. PressersTrue'
    BY <1>5, <2>2 DEF ScanInv, PressersTrue
  <2>5. ASSUME ~crossed' PROVE BackendTrue' /\ EndTrue' /\ ButtonTrue' /\ ScanTrue'
    <3>1. ~crossed /\ BackendTrue /\ EndTrue /\ ButtonTrue /\ PressersTrue
      BY <1>1, <2>5 DEF ScanInv
    <3>2. ScanTrue'
      BY <1>1 DEF ScanTrue
    <3>3. BackendTrue'
      <4>1. ~stray
        BY <1>3, <3>1 DEF BackendTrue
      <4>2. QED
        BY <1>1, <2>3, <3>1, <4>1 DEF BackendTrue
    <3>4. EndTrue'
      <4> SUFFICES ASSUME OnWire("stopped")
                   PROVE  \A j \in 1 .. Len(presser') : presser'[j].start =>
                             /\ presser'[j].at \notin {"called", "begun"}
                             /\ presser'[j].at = "waiting" => presser'[j].over
        BY <1>1, <2>3 DEF EndTrue
      <4>1. \A j \in 1 .. Len(presser) : presser[j].start =>
               /\ presser[j].at \notin {"called", "begun"}
               /\ presser[j].at = "waiting" => presser[j].over
        BY <3>1 DEF EndTrue
      <4>2. QED
        BY <1>5, <2>2, <4>1
    <3>5. ButtonTrue'
      <4>1. CASE i = Len(presser)
        <5>1. ~pressed
          BY <1>3, <1>5, <3>1, <4>1 DEF ButtonTrue
        <5>2. presser'[Len(presser')].at = "answered"
          BY <1>3, <2>2, <4>1
        <5>3. QED
          BY <1>1, <5>1, <5>2 DEF ButtonTrue, LastAt
      <4>2. CASE i # Len(presser)
        <5>1. /\ presser'[Len(presser')].at = presser[Len(presser)].at
              /\ presser'[Len(presser')].start = presser[Len(presser)].start
              /\ presser'[Len(presser')].over = presser[Len(presser)].over
          BY <1>3, <2>2, <4>2
        <5>2. pressed => presser[Len(presser)].start /\ ~presser[Len(presser)].over
          BY <1>3, <3>1 DEF ButtonTrue
        <5>3. Len(presser) # 1
          <6>1. PICK n \in Nat : n = Len(presser)
            BY <1>3
          <6>2. n # 1
            BY <4>2, <6>1
          <6>3. QED
            BY <6>1, <6>2
        <5>4. pressed => presser[Len(presser)].at = "waiting"
          BY <1>3, <3>1, <5>2, <5>3 DEF PressersTrue
        <5>5. presser' # <<>>
          BY <1>3, <2>2, <2>3
        <5>6. here /\ presser[Len(presser)].at \in {"waiting", "called", "begun"} =>
                 ~presser[Len(presser)].start \/ presser[Len(presser)].over \/ pressed
          BY <1>3, <3>1 DEF ButtonTrue, LastAt
        <5>7. QED
          BY <1>1, <5>1, <5>2, <5>4, <5>5, <5>6 DEF ButtonTrue, LastAt
      <4>3. QED
        BY <4>1, <4>2
    <3>6. QED
      BY <3>2, <3>3, <3>4, <3>5
  <2>6. QED
    BY <2>3, <2>4, <2>5 DEF ScanInv
<1>6. QED
  BY <1>4, <1>5

\* A press: all calls that are under way are superseded.
LEMMA PressAside ==
  ASSUME ScanInv, NEW start \in BOOLEAN, Presses(start)
  PROVE  /\ PressersTrue' /\ presser' # <<>> /\ Len(presser') = Len(presser) + 1
         /\ Len(presser) \in Nat /\ (presser = <<>> <=> Len(presser) = 0)
         /\ (Asked(start).start <=> start) /\ ~Asked(start).over
         /\ Asked(start).at = IF start THEN "waiting" ELSE "called"
         /\ \A j \in 1 .. Len(presser) + 1 :
               j \in 1 .. Len(presser) \/ (j = Len(presser) + 1 /\ presser'[j] = Asked(start))
<1>1. Len(presser) \in Nat /\ (presser = <<>> <=> Len(presser) = 0)
  BY PresserIs DEF ScanInv
<1>2. /\ presser' \in Seq(Presser) /\ Len(presser') = Len(presser) + 1
      /\ presser'[Len(presser) + 1] = Asked(start)
  BY DEF Presses
<1>3. presser' # <<>>
  BY <1>1, <1>2, EmptySeq
<1>4. \A j \in 1 .. Len(presser) + 1 :
         j \in 1 .. Len(presser) \/ (j = Len(presser) + 1 /\ presser'[j] = Asked(start))
  BY <1>1, <1>2
<1>5. /\ (Asked(start).start <=> start) /\ ~Asked(start).over
      /\ Asked(start).at = IF start THEN "waiting" ELSE "called"
  BY DEF Asked
<1>6. PressersTrue'
  <2> SUFFICES ASSUME NEW j \in 1 .. Len(presser) + 1
               PROVE  /\ ~presser'[j].over => j = Len(presser) + 1
                      /\ presser'[j].start /\ presser'[j].at # "waiting" => j = 1
                      /\ ~presser'[j].start => presser'[j].at \in {"called", "answered"}
                      /\ presser'[j].at \in {"again", "stopped"} => presser'[j].over
    BY <1>2 DEF PressersTrue
  <2>1. CASE j \in 1 .. Len(presser)
    <3>1. /\ presser'[j].start = presser[j].start /\ presser'[j].over /\ presser'[j].at = presser[j].at
      BY <2>1 DEF Presses
    <3>2. QED
      BY <2>1, <3>1 DEF ScanInv, PressersTrue
  <2>2. CASE j = Len(presser) + 1 /\ presser'[j] = Asked(start)
    <3>1. /\ presser'[j].start <=> start
          /\ presser'[j].at = IF start THEN "waiting" ELSE "called"
      BY <1>5, <2>2
    <3>2. QED
      BY <2>2, <3>1
  <2>3. QED
    BY <1>4, <2>1, <2>2
<1>7. QED
  BY <1>1, <1>2, <1>3, <1>4, <1>5, <1>6

LEMMA PressStartKeeps == ASSUME ScanInv, PressStart PROVE ScanInv'
<1>1. /\ ~pressed /\ pressed' /\ list' = <<>> /\ known' = {}
      /\ UNCHANGED <<here, scan, wire, stray, found>>
      /\ crossed' <=> crossed \/ stray \/ \E i \in DOMAIN wire : wire[i].kind = "stopped"
  BY DEF PressStart, scanBackendVars
<1>2. Presses(TRUE)
  BY PressesIs DEF PressStart, ScanInv
<1>3. /\ presser' \in Seq(Presser)
      /\ \A j \in 1 .. Len(presser) :
            /\ presser'[j].start = presser[j].start /\ presser'[j].over
            /\ presser'[j].at = presser[j].at /\ presser'[j].ok = presser[j].ok
      /\ presser'[Len(presser) + 1] = Asked(TRUE)
  BY <1>2 DEF Presses
<1>4. /\ PressersTrue' /\ presser' # <<>> /\ Len(presser') = Len(presser) + 1
      /\ Len(presser) \in Nat /\ (presser = <<>> <=> Len(presser) = 0)
      /\ Asked(TRUE).start /\ ~Asked(TRUE).over /\ Asked(TRUE).at = "waiting"
      /\ \A j \in 1 .. Len(presser) + 1 :
            j \in 1 .. Len(presser) \/ (j = Len(presser) + 1 /\ presser'[j] = Asked(TRUE))
  BY <1>2, PressAside
<1>5. ScanType'
  BY <1>1, <1>3, EmptySeq DEF ScanInv, ScanType
<1>6. ListTrue'
  <2>1. Len(list') = 0 /\ Range(list') = {}
    BY <1>1, EmptySeq DEF Range
  <2>2. QED
    BY <1>1, <2>1, ScanPanelAssumption DEF ListTrue, Distinct
<1>7. ASSUME ~crossed' PROVE BackendTrue' /\ EndTrue' /\ ButtonTrue' /\ ScanTrue'
  <2>1. ~crossed /\ BackendTrue /\ EndTrue /\ ButtonTrue /\ ScanTrue /\ ~stray
    BY <1>1, <1>7 DEF ScanInv
  <2>2. DOMAIN wire = 1 .. Len(wire)
    BY LenProperties DEF ScanInv, ScanType
  <2>3. ~OnWire("stopped")
    BY <1>1, <1>7, <2>2 DEF OnWire
  <2>4. (OnWire("stopped")' <=> OnWire("stopped"))
    BY <1>1 DEF OnWire
  <2>5. (OnWire("closed")' <=> OnWire("closed"))
    BY <1>1 DEF OnWire
  <2>6. BackendTrue'
    <3>1. scan = "starting" => presser'[1].start /\ presser'[1].at = "begun"
      <4>1. presser # <<>> => 1 \in 1 .. Len(presser)
        BY <1>4
      <4>2. QED
        BY <1>3, <2>1, <4>1 DEF BackendTrue
    <3>2. ASSUME NEW j \in 1 .. Len(presser) + 1, presser'[j].start
          PROVE  /\ presser'[j].at = "called" => scan = "none"
                 /\ presser'[j].at = "begun" => scan # "running"
                 /\ presser'[j].at = "answered" /\ ~presser'[j].ok => scan # "running"
      <4>1. CASE j \in 1 .. Len(presser)
        BY <1>3, <2>1, <3>2, <4>1 DEF BackendTrue
      <4>2. CASE presser'[j] = Asked(TRUE)
        BY <1>4, <4>2
      <4>3. QED
        BY <1>4, <4>1, <4>2
    <3>3. QED
      BY <1>1, <1>4, <2>1, <2>5, <3>1, <3>2 DEF BackendTrue
  <2>7. EndTrue'
    BY <2>3, <2>4 DEF EndTrue
  <2>8. presser'[Len(presser')] = Asked(TRUE)
    BY <1>3, <1>4
  <2>9. ButtonTrue'
    BY <1>1, <1>4, <2>8 DEF ButtonTrue, LastAt
  <2>10. ScanTrue'
    <3> SUFFICES ASSUME scan = "running"
                 PROVE  \E j \in 1 .. Len(presser') : Stopper(j)'
      BY <1>1 DEF ScanTrue
    <3>1. PICK j \in 1 .. Len(presser) : Stopper(j)
      BY <1>1, <2>1 DEF ScanTrue
    <3>2. Stopper(j)'
      BY <1>3, <3>1 DEF Stopper
    <3>3. j \in 1 .. Len(presser')
      BY <1>4
    <3>4. QED
      BY <3>2, <3>3
  <2>11. QED
    BY <2>6, <2>7, <2>9, <2>10
<1>8. QED
  BY <1>4, <1>5, <1>6, <1>7 DEF ScanInv

LEMMA PressStopKeeps == ASSUME ScanInv, PressStop PROVE ScanInv'
<1>1. /\ pressed /\ ~pressed'
      /\ UNCHANGED <<here, scan, wire, stray, topicVars, crossed>>
  BY DEF PressStop, scanBackendVars
<1>2. Presses(FALSE)
  BY PressesIs DEF PressStop, ScanInv
<1>3. /\ presser' \in Seq(Presser)
      /\ \A j \in 1 .. Len(presser) :
            /\ presser'[j].start = presser[j].start /\ presser'[j].over
            /\ presser'[j].at = presser[j].at /\ presser'[j].ok = presser[j].ok
      /\ presser'[Len(presser) + 1] = Asked(FALSE)
  BY <1>2 DEF Presses
<1>4. /\ PressersTrue' /\ presser' # <<>> /\ Len(presser') = Len(presser) + 1
      /\ Len(presser) \in Nat /\ (presser = <<>> <=> Len(presser) = 0)
      /\ ~Asked(FALSE).start /\ ~Asked(FALSE).over /\ Asked(FALSE).at = "called"
      /\ \A j \in 1 .. Len(presser) + 1 :
            j \in 1 .. Len(presser) \/ (j = Len(presser) + 1 /\ presser'[j] = Asked(FALSE))
  BY <1>2, PressAside
<1>5. scan' \in {"none", "starting", "running"}
  BY <1>1 DEF ScanInv, ScanType
<1>6. /\ ScanType' /\ ListTrue'
      /\ OnWire("stopped")' <=> OnWire("stopped")
      /\ OnWire("closed")' <=> OnWire("closed")
  BY <1>1, <1>3, <1>5, CallsAside
<1>7. ASSUME ~crossed' PROVE BackendTrue' /\ EndTrue' /\ ButtonTrue' /\ ScanTrue'
  <2>1. ~crossed /\ BackendTrue /\ EndTrue
    BY <1>1, <1>7 DEF ScanInv
  <2>2. ~stray
    BY <1>1, <2>1 DEF BackendTrue
  <2>3. BackendTrue'
    <3>1. scan = "starting" => presser'[1].start /\ presser'[1].at = "begun"
      <4>1. presser # <<>> => 1 \in 1 .. Len(presser)
        BY <1>4
      <4>2. QED
        BY <1>3, <2>1, <4>1 DEF BackendTrue
    <3>2. ASSUME NEW j \in 1 .. Len(presser) + 1, presser'[j].start
          PROVE  /\ presser'[j].at = "called" => scan = "none"
                 /\ presser'[j].at = "begun" => scan # "running"
                 /\ presser'[j].at = "answered" /\ ~presser'[j].ok => scan # "running"
      <4>1. CASE j \in 1 .. Len(presser)
        BY <1>3, <2>1, <3>2, <4>1 DEF BackendTrue
      <4>2. CASE presser'[j] = Asked(FALSE)
        BY <1>4, <3>2, <4>2
      <4>3. QED
        BY <1>4, <4>1, <4>2
    <3>3. QED
      BY <1>1, <1>4, <1>6, <2>1, <2>2, <3>1, <3>2 DEF BackendTrue
  <2>4. EndTrue'
    <3> SUFFICES ASSUME OnWire("stopped"), NEW j \in 1 .. Len(presser) + 1, presser'[j].start
                 PROVE  /\ presser'[j].at \notin {"called", "begun"}
                        /\ presser'[j].at = "waiting" => presser'[j].over
      <4>1. OnWire("stopped") => scan' = "none"
        BY <1>1, <2>1 DEF EndTrue
      <4>2. QED
        BY <1>4, <1>6, <4>1 DEF EndTrue
    <3>1. CASE j \in 1 .. Len(presser)
      BY <1>3, <2>1, <3>1 DEF EndTrue
    <3>2. CASE presser'[j] = Asked(FALSE)
      BY <1>4, <3>2
    <3>3. QED
      BY <1>4, <3>1, <3>2
  <2>5. presser'[Len(presser')] = Asked(FALSE)
    BY <1>3, <1>4
  <2>6. Len(presser') \in 1 .. Len(presser')
    BY <1>4
  <2>7. ~presser'[Len(presser')].start /\ presser'[Len(presser')].at = "called"
    BY <1>4, <2>5
  <2>8. ButtonTrue'
    BY <1>1, <2>7 DEF ButtonTrue
  <2>9. ScanTrue'
    BY <2>6, <2>7 DEF ScanTrue, Stopper
  <2>10. QED
    BY <2>3, <2>4, <2>8, <2>9
<1>8. QED
  BY <1>4, <1>6, <1>7 DEF ScanInv
-----------------------------------------------------------------------------
(* The list of the topics that the panel shows.                            *)

\* f is the function that Merged defines, up to n.
MergeUpTo(f, old, seen, new, n) ==
    f = [i \in 0 .. n |->
            IF i = 0 THEN old
            ELSE IF new[i] \in seen \cup Range(f[i - 1]) THEN f[i - 1]
            ELSE Append(f[i - 1], new[i])]

\* The recursive function that Merged is defined by exists.
LEMMA MergesExists ==
  ASSUME NEW old, NEW seen, NEW new, NEW n \in Nat
  PROVE  \E f : MergeUpTo(f, old, seen, new, n)
<1> DEFINE T == {k \in Nat : ~ \E f : MergeUpTo(f, old, seen, new, k)}
<1>1. SUFFICES ASSUME T # {} PROVE FALSE
  OBVIOUS
<1>2. PICK k \in T : \A m \in T : ~ (m < k)
  BY <1>1, LeastOf
<1>3. CASE k = 0
  <2> DEFINE f == [i \in 0 .. 0 |-> old]
  <2>1. MergeUpTo(f, old, seen, new, k)
    BY <1>3 DEF MergeUpTo
  <2>2. QED
    BY <2>1
<1>4. CASE k # 0
  <2>1. k \in Nat /\ k - 1 \in Nat /\ k - 1 < k
    BY <1>4
  <2>2. PICK g : MergeUpTo(g, old, seen, new, k - 1)
    BY <1>2, <2>1
  <2> DEFINE next == IF new[k] \in seen \cup Range(g[k - 1]) THEN g[k - 1] ELSE Append(g[k - 1], new[k])
             h == [i \in 0 .. k |-> IF i = k THEN next ELSE g[i]]
  <2>3. ASSUME NEW i \in 0 .. k
        PROVE  h[i] = IF i = 0 THEN old
                      ELSE IF new[i] \in seen \cup Range(h[i - 1]) THEN h[i - 1]
                      ELSE Append(h[i - 1], new[i])
    <3>1. CASE i = k
      <4>1. i - 1 \in 0 .. k /\ i - 1 # k
        BY <3>1, <2>1
      <4>2. h[i - 1] = g[i - 1]
        BY <4>1
      <4>3. QED
        BY <3>1, <4>2, <1>4
    <3>2. CASE i # k
      <4>1. h[i] = g[i]
        BY <3>2
      <4>2. i \in 0 .. (k - 1)
        BY <3>2, <2>1
      <4>3. g[i] = IF i = 0 THEN old
                   ELSE IF new[i] \in seen \cup Range(g[i - 1]) THEN g[i - 1]
                   ELSE Append(g[i - 1], new[i])
        BY <4>2, <2>2 DEF MergeUpTo
      <4>4. i # 0 => h[i - 1] = g[i - 1]
        BY <4>2, <2>1
      <4>5. QED
        BY <4>1, <4>3, <4>4
    <3>3. QED
      BY <3>1, <3>2
  <2>4. MergeUpTo(h, old, seen, new, k)
    BY <2>3 DEF MergeUpTo
  <2>5. QED
    BY <2>4
<1>5. QED
  BY <1>3, <1>4

\* A sequence that has a new element at its end.
LEMMA DistinctGrows ==
  ASSUME NEW A, NEW s \in Seq(A), Distinct(s), NEW x \in A, x \notin Range(s)
  PROVE  /\ Append(s, x) \in Seq(A) /\ Distinct(Append(s, x))
         /\ Range(s) \subseteq Range(Append(s, x))
<1>1. PICK n \in Nat : n = Len(s) /\ DOMAIN s = 1 .. n
  BY LenProperties
<1>2. PICK t \in Seq(A) : t = Append(s, x)
  BY AppendProperties
<1>3. /\ Len(t) = n + 1 /\ t[n + 1] = x /\ \A i \in 1 .. n : t[i] = s[i]
      /\ DOMAIN t = 1 .. n + 1
  BY <1>1, <1>2, AppendProperties, LenProperties
<1>4. \A i \in 1 .. n : s[i] # x
  BY <1>1 DEF Range
<1>5. ASSUME NEW i \in 1 .. n + 1, NEW j \in 1 .. n + 1, t[i] = t[j] PROVE i = j
  <2>1. CASE i \in 1 .. n /\ j \in 1 .. n
    BY <1>1, <1>3, <1>5, <2>1 DEF Distinct
  <2>2. CASE i = n + 1 /\ j = n + 1
    BY <2>2
  <2>3. CASE i \in 1 .. n /\ j = n + 1
    BY <1>3, <1>4, <1>5, <2>3
  <2>4. CASE i = n + 1 /\ j \in 1 .. n
    BY <1>3, <1>4, <1>5, <2>4
  <2>5. QED
    BY <2>1, <2>2, <2>3, <2>4
<1>6. Range(s) \subseteq Range(t)
  <2>1. \A i \in 1 .. n : i \in 1 .. n + 1
    OBVIOUS
  <2>2. QED
    BY <1>1, <1>3, <2>1 DEF Range
<1>7. QED
  BY <1>2, <1>3, <1>5, <1>6 DEF Distinct

\* Merging keeps each topic once, and drops none.
LEMMA MergedIs ==
  ASSUME NEW A, NEW old \in Seq(A), Distinct(old), NEW new \in Seq(A), NEW seen
  PROVE  /\ Merged(old, seen, new) \in Seq(A) /\ Distinct(Merged(old, seen, new))
         /\ Range(old) \subseteq Range(Merged(old, seen, new))
<1>1. PICK n \in Nat : n = Len(new)
  BY LenProperties
<1>2. \E f : MergeUpTo(f, old, seen, new, n)
  BY MergesExists
<1> DEFINE all == CHOOSE f : MergeUpTo(f, old, seen, new, n)
<1>3. MergeUpTo(all, old, seen, new, n)
  BY <1>2
<1>4. Merged(old, seen, new) = all[n]
  BY <1>1 DEF Merged, MergeUpTo
<1> HIDE DEF all
<1> DEFINE Good(k) == all[k] \in Seq(A) /\ Distinct(all[k]) /\ Range(old) \subseteq Range(all[k])
           T == {k \in 0 .. n : ~Good(k)}
<1>5. SUFFICES ASSUME T # {} PROVE FALSE
  BY <1>4
<1>6. T \subseteq Nat
  OBVIOUS
<1>7. PICK k \in T : \A m \in T : ~ (m < k)
  BY <1>5, <1>6, LeastOf
<1>8. all[k] = IF k = 0 THEN old
               ELSE IF new[k] \in seen \cup Range(all[k - 1]) THEN all[k - 1]
               ELSE Append(all[k - 1], new[k])
  BY <1>3, <1>7 DEF MergeUpTo
<1>9. CASE k = 0
  BY <1>7, <1>8, <1>9
<1>10. CASE k # 0
  <2>1. k \in 1 .. n /\ k - 1 \in 0 .. n /\ k - 1 < k
    BY <1>7, <1>10
  <2>2. Good(k - 1) /\ new[k] \in A
    BY <1>1, <1>7, <2>1, ElementOfSeq
  <2>3. CASE new[k] \in seen \cup Range(all[k - 1])
    BY <1>7, <1>8, <1>10, <2>2, <2>3
  <2>4. CASE new[k] \notin seen \cup Range(all[k - 1])
    <3>1. all[k] = Append(all[k - 1], new[k]) /\ new[k] \notin Range(all[k - 1])
      BY <1>8, <1>10, <2>4
    <3>2. Good(k)
      <4> DEFINE s == all[k - 1]
                 x == new[k]
      <4>1. s \in Seq(A) /\ Distinct(s) /\ x \in A /\ x \notin Range(s) /\ Range(old) \subseteq Range(s)
        BY <2>2, <3>1
      <4> HIDE DEF s, x
      <4>2. /\ Append(s, x) \in Seq(A) /\ Distinct(Append(s, x))
            /\ Range(s) \subseteq Range(Append(s, x))
        BY <4>1, DistinctGrows
      <4>3. all[k] = Append(s, x)
        BY <3>1 DEF s, x
      <4>4. QED
        BY <4>1, <4>2, <4>3
    <3>3. QED
      BY <1>7, <3>2
  <2>5. QED
    BY <2>3, <2>4
<1>11. QED
  BY <1>9, <1>10

\* A sequence cut in two: nothing of the first part is in the second.
LEMMA DistinctCut ==
  ASSUME NEW A, NEW s \in Seq(A), Distinct(s), NEW k \in 0 .. Len(s)
  PROVE  LET rest == SubSeq(s, k + 1, Len(s)) IN
         /\ rest \in Seq(A) /\ Distinct(rest) /\ Len(rest) = Len(s) - k
         /\ Range(rest) = Range(s) \ Range(SubSeq(s, 1, k))
<1>1. PICK n \in Nat : n = Len(s) /\ DOMAIN s = 1 .. n
  BY LenProperties
<1>2. k \in 0 .. n /\ \A i \in 1 .. n : s[i] \in A
  BY <1>1, ElementOfSeq
<1> DEFINE head == SubSeq(s, 1, k)
           rest == SubSeq(s, k + 1, n)
<1>3. /\ head \in Seq(A) /\ Len(head) = k /\ DOMAIN head = 1 .. k
      /\ \A i \in 1 .. k : head[i] = s[i]
  <2>1. 1 \in Int /\ k \in Int /\ (\A i \in 1 .. k : s[i] \in A)
    BY <1>2
  <2>2. /\ head \in Seq(A) /\ Len(head) = IF 1 <= k THEN k - 1 + 1 ELSE 0
        /\ \A i \in 1 .. k - 1 + 1 : head[i] = s[1 + i - 1]
    BY <2>1, SubSeqProperties
  <2>3. k - 1 + 1 = k /\ (~ (1 <= k) => k = 0)
    BY <1>2
  <2>4. ASSUME NEW i \in 1 .. k PROVE head[i] = s[i]
    <3>1. 1 + i - 1 = i
      OBVIOUS
    <3>2. QED
      BY <2>2, <2>3, <3>1, Zenon
  <2>5. Len(head) = k
    BY <2>2, <2>3
  <2>6. DOMAIN head = 1 .. k
    BY <2>2, <2>5, LenProperties
  <2>7. QED
    BY <2>2, <2>4, <2>5, <2>6
<1>4. /\ rest \in Seq(A) /\ Len(rest) = n - k /\ DOMAIN rest = 1 .. n - k
      /\ \A i \in 1 .. n - k : rest[i] = s[k + i]
  <2>1. k + 1 \in Int /\ n \in Int /\ (\A i \in k + 1 .. n : s[i] \in A)
    BY <1>2
  <2>2. /\ rest \in Seq(A) /\ Len(rest) = IF k + 1 <= n THEN n - (k + 1) + 1 ELSE 0
        /\ \A i \in 1 .. n - (k + 1) + 1 : rest[i] = s[(k + 1) + i - 1]
    BY <2>1, SubSeqProperties
  <2>3. n - (k + 1) + 1 = n - k /\ (~ (k + 1 <= n) => n - k = 0)
    BY <1>2
  <2>4. ASSUME NEW i \in 1 .. n - k PROVE rest[i] = s[k + i]
    <3>1. (k + 1) + i - 1 = k + i
      BY <1>2
    <3>2. QED
      BY <2>2, <2>3, <3>1, Zenon
  <2>5. Len(rest) = n - k
    BY <2>2, <2>3
  <2>6. DOMAIN rest = 1 .. n - k
    BY <2>2, <2>5, LenProperties
  <2>7. QED
    BY <2>2, <2>4, <2>5, <2>6
<1> HIDE DEF head, rest
<1>5. \A i, j \in 1 .. n : s[i] = s[j] => i = j
  BY <1>1 DEF Distinct
<1>6. \A i \in 1 .. n - k : k + i \in 1 .. n
  BY <1>2
<1>7. Distinct(rest)
  <2> SUFFICES ASSUME NEW i \in 1 .. n - k, NEW j \in 1 .. n - k, rest[i] = rest[j]
               PROVE  i = j
    BY <1>4 DEF Distinct
  <2>1. s[k + i] = s[k + j]
    BY <1>4
  <2>2. k + i = k + j
    BY <1>5, <1>6, <2>1
  <2>3. QED
    BY <1>2, <2>2
<1>8. ASSUME NEW x PROVE x \in Range(rest) <=> x \in Range(s) \ Range(head)
  <2>1. ASSUME x \in Range(rest) PROVE x \in Range(s) \ Range(head)
    <3>1. PICK i \in 1 .. n - k : x = rest[i]
      BY <1>4, <2>1 DEF Range
    <3>2. x = s[k + i] /\ k + i \in 1 .. n
      BY <1>4, <1>6, <3>1
    <3>3. ASSUME NEW j \in 1 .. k PROVE head[j] # x
      <4>1. j \in 1 .. n /\ j # k + i
        BY <1>2
      <4>2. QED
        BY <1>3, <1>5, <3>2, <4>1
    <3>4. QED
      BY <1>1, <1>3, <3>2, <3>3 DEF Range
  <2>2. ASSUME x \in Range(s) \ Range(head) PROVE x \in Range(rest)
    <3>1. PICK i \in 1 .. n : x = s[i]
      BY <1>1, <2>2 DEF Range
    <3>2. i \notin 1 .. k
      BY <1>3, <2>2, <3>1 DEF Range
    <3>3. i - k \in 1 .. n - k /\ k + (i - k) = i
      BY <1>2, <3>2
    <3>4. x = rest[i - k]
      BY <1>4, <3>1, <3>3
    <3>5. QED
      BY <1>4, <3>3, <3>4 DEF Range
  <2>3. QED
    BY <2>1, <2>2
<1>9. Range(rest) = Range(s) \ Range(head)
  BY <1>8
<1>10. QED
  BY <1>1, <1>4, <1>7, <1>9 DEF head, rest

LEMMA FlushTopicsKeeps == ASSUME ScanInv, FlushTopics PROVE ScanInv'
<1>1. /\ found' = <<>>
      /\ UNCHANGED <<here, scan, wire, stray, pressed, presser, crossed>>
  BY DEF FlushTopics, scanBackendVars
<1>2. list' \in Seq(Named) /\ ListTrue'
  <2>1. CASE pressed
    <3>1. PICK all : all = Merged(list, known, found)
      OBVIOUS
    <3>2. all \in Seq(Named) /\ Distinct(all) /\ Range(list) \subseteq Range(all)
      <4>1. list \in Seq(Named) /\ Distinct(list) /\ found \in Seq(Named)
        BY DEF ScanInv, ScanType, ListTrue
      <4>2. QED
        BY <3>1, <4>1, MergedIs
    <3>3. PICK n \in Nat : n = Len(all)
      BY <3>2, LenProperties
    <3>4. PICK excess \in 0 .. n : excess = IF n > MaxTopics THEN n - MaxTopics ELSE 0
      BY ScanPanelAssumption
    <3>5. list' = SubSeq(all, excess + 1, Len(all)) /\ known' = Forgotten(all, excess)
      BY <2>1, <3>1, <3>3, <3>4 DEF FlushTopics
    <3>6. /\ list' \in Seq(Named) /\ Distinct(list') /\ Len(list') = n - excess
          /\ Range(list') = Range(all) \ Range(SubSeq(all, 1, excess))
      <4>1. LET rest == SubSeq(all, excess + 1, Len(all)) IN
            /\ rest \in Seq(Named) /\ Distinct(rest) /\ Len(rest) = Len(all) - excess
            /\ Range(rest) = Range(all) \ Range(SubSeq(all, 1, excess))
        BY <3>2, <3>3, DistinctCut
      <4>2. QED
        BY <3>3, <3>5, <4>1
    <3>7. n - excess <= MaxTopics
      BY <3>4, ScanPanelAssumption
    <3>8. known \cup Range(all) = Range(all)
      BY <3>2 DEF ScanInv, ListTrue
    <3>9. known' = Range(list')
      BY <3>5, <3>6, <3>8 DEF Forgotten
    <3>10. QED
      BY <3>6, <3>7, <3>9 DEF ListTrue, Distinct
  <2>2. CASE ~pressed
    <3>1. UNCHANGED <<list, known>>
      BY <2>2 DEF FlushTopics
    <3>2. QED
      BY <3>1 DEF ScanInv, ScanType, ListTrue, Distinct
  <2>3. QED
    BY <2>1, <2>2
<1>3. ScanType'
  BY <1>1, <1>2, EmptySeq DEF ScanInv, ScanType
<1>4. OnWire("stopped")' <=> OnWire("stopped")
  BY <1>1 DEF OnWire
<1>5. OnWire("closed")' <=> OnWire("closed")
  BY <1>1 DEF OnWire
<1>6. PressersTrue' /\ (~crossed' => Agreed')
  BY <1>1, <1>4, <1>5, TopicsAside
<1>7. QED
  BY <1>2, <1>3, <1>6 DEF ScanInv, Agreed

LEMMA InitScanInv == ASSUME ScanPanelInit PROVE ScanInv
<1>1. /\ presser = <<>> /\ wire = <<>> /\ found = <<>> /\ list = <<>> /\ known = {}
      /\ Len(presser) = 0 /\ Len(wire) = 0 /\ Len(list) = 0 /\ Range(list) = {}
  BY EmptySeq DEF ScanPanelInit, Range
<1>0. here /\ ~pressed /\ scan \in {"none", "running"} /\ (stray <=> scan = "running")
  BY Zenon DEF ScanPanelInit
<1>2. ScanType
  BY <1>0, <1>1, EmptySeq DEF ScanType
<1>3. PressersTrue /\ ListTrue
  BY <1>1, ScanPanelAssumption DEF PressersTrue, ListTrue, Distinct
<1>4. BackendTrue /\ EndTrue
  BY <1>0, <1>1 DEF BackendTrue, EndTrue, OnWire
<1>5. ButtonTrue /\ ScanTrue
  BY <1>0, <1>1 DEF ButtonTrue, ScanTrue, LastAt
<1>6. QED
  BY <1>2, <1>3, <1>4, <1>5 DEF ScanInv

LEMMA NextScanInv == ASSUME ScanInv, [ScanPanelNext]_scanPanelVars PROVE ScanInv'
<1>1. CASE UNCHANGED scanPanelVars
  <2>1. UNCHANGED <<here, scan, wire, stray, pressed, presser, found, list, known, crossed>>
    BY <1>1 DEF scanPanelVars, scanBackendVars, topicVars
  <2>2. OnWire("stopped")' <=> OnWire("stopped")
    BY <2>1 DEF OnWire
  <2>3. OnWire("closed")' <=> OnWire("closed")
    BY <2>1 DEF OnWire
  <2>4. PressersTrue' /\ (~crossed' => Agreed')
    BY <2>1, <2>2, <2>3, TopicsAside
  <2>5. ScanType' /\ ListTrue'
    BY <2>1 DEF ScanInv, ScanType, ListTrue, Distinct
  <2>6. QED
    BY <2>4, <2>5 DEF ScanInv, Agreed
<1>2. CASE PressStart
  BY <1>2, PressStartKeeps
<1>3. CASE PressStop
  BY <1>3, PressStopKeeps
<1>4. CASE StrayStop
  BY <1>4, StrayStopKeeps
<1>5. CASE LoseScan
  BY <1>5, LoseScanKeeps
<1>6. CASE EndConnection
  BY <1>6, EndConnectionKeeps
<1>7. CASE HearTopic
  BY <1>7, HearTopicKeeps
<1>8. CASE HearEnd
  BY <1>8, HearEndKeeps
<1>9. CASE FlushTopics
  BY <1>9, FlushTopicsKeeps
<1>10. CASE \E b \in BrokerNames : ReportTopic(b)
  BY <1>10, ReportTopicKeeps
<1>11. ASSUME NEW i \in DOMAIN presser,
              \/ StartGoesOn(i) \/ Started(i) \/ NotStarted(i) \/ StopEnds(i)
              \/ StartReserves(i) \/ StartRefused(i) \/ StartJoins(i)
              \/ StartSucceeds(i) \/ StartFails(i) \/ StopTopicScan(i)
       PROVE  ScanInv'
  <2>1. i \in 1 .. Len(presser)
    BY PresserIs DEF ScanInv
  <2>2. CASE StartGoesOn(i)
    BY <2>1, <2>2, StartGoesOnKeeps
  <2>3. CASE Started(i)
    BY <2>1, <2>3, StartedKeeps
  <2>4. CASE NotStarted(i)
    BY <2>1, <2>4, NotStartedKeeps
  <2>5. CASE StopEnds(i)
    BY <2>1, <2>5, StopEndsKeeps
  <2>6. CASE StartReserves(i)
    BY <2>1, <2>6, StartReservesKeeps
  <2>7. CASE StartRefused(i)
    BY <2>1, <2>7, StartRefusedKeeps
  <2>8. CASE StartJoins(i)
    BY <2>1, <2>8, StartJoinsKeeps
  <2>9. CASE StartSucceeds(i)
    BY <2>1, <2>9, StartSucceedsKeeps
  <2>10. CASE StartFails(i)
    BY <2>1, <2>10, StartFailsKeeps
  <2>11. CASE StopTopicScan(i)
    BY <2>1, <2>11, StopTopicScanKeeps
  <2>12. QED
    BY <1>11, <2>2, <2>3, <2>4, <2>5, <2>6, <2>7, <2>8, <2>9, <2>10, <2>11
<1>12. QED
  BY <1>1, <1>2, <1>3, <1>4, <1>5, <1>6, <1>7, <1>8, <1>9, <1>10, <1>11
  DEF ScanPanelNext, ScanPanelSystem

\* A sequence without repetitions is as long as it has elements.
LEMMA DistinctLength ==
  ASSUME NEW A, NEW s \in Seq(A), Distinct(s)
  PROVE  Len(s) = Cardinality(Range(s))
<1>1. PICK n \in Nat : n = Len(s) /\ DOMAIN s = 1 .. n
  BY LenProperties
<1>2. s \in [1 .. n -> Range(s)] /\ \A x \in Range(s) : \E i \in 1 .. n : s[i] = x
  BY <1>1 DEF Range
<1>3. \A i, j \in 1 .. n : s[i] = s[j] => i = j
  BY <1>1 DEF Distinct
<1>4. s \in Bijection(1 .. n, Range(s))
  BY <1>2, <1>3 DEF Bijection, Injection, Surjection, IsInjective
<1>5. IsFiniteSet(1 .. n) /\ Cardinality(1 .. n) = n
  BY FS_Interval
<1>6. Cardinality(Range(s)) = Cardinality(1 .. n)
  BY <1>4, <1>5, FS_Bijection DEF ExistsBijection
<1>7. QED
  BY <1>1, <1>5, <1>6

\* When all is quiet, button and scan agree; the list is exact.
LEMMA ScanInvShows == ASSUME ScanInv PROVE ScanShown
<1>1. ASSUME presser = <<>>, wire = <<>>, ~stray, ~crossed
      PROVE  pressed <=> scan = "running"
  <2>1. BackendTrue /\ ButtonTrue /\ ScanTrue
    BY <1>1 DEF ScanInv
  <2>2. Len(wire) = 0 /\ Len(presser) = 0
    BY <1>1, EmptySeq
  <2>3. ~OnWire("stopped") /\ ~OnWire("closed")
    BY <2>2 DEF OnWire
  <2>4. pressed => scan = "running"
    BY <1>1, <2>1, <2>3 DEF ButtonTrue, LastAt
  <2>5. scan = "running" => pressed
    BY <1>1, <2>1, <2>2 DEF ScanTrue
  <2>6. QED
    BY <2>4, <2>5
<1>2. ScanAgrees
  BY <1>1 DEF ScanAgrees
<1>3. TopicsExact
  BY DistinctLength DEF ScanInv, ScanType, ListTrue, TopicsExact
<1>4. QED
  BY <1>2, <1>3 DEF ScanShown

\* The Scan button and its topics by themselves.
ScanPanelSpec == ScanPanelInit /\ [][ScanPanelNext]_scanPanelVars

\* The inductive invariant of the scan, for every number of presses, topics and
\* lost links.
THEOREM ScanInvHolds == ScanPanelSpec => []ScanInv
<1>1. ScanPanelInit => ScanInv
  BY InitScanInv
<1>2. ScanInv /\ [ScanPanelNext]_scanPanelVars => ScanInv'
  BY NextScanInv
<1>3. QED
  BY <1>1, <1>2, PTL DEF ScanPanelSpec

\* Once all calls and events are through, a scan runs exactly if the button
\* says so, and the list names each topic once (subscriptions.ts:185-233,
\* message-buffer.ts:61-76).
THEOREM ScanAlwaysShown == ScanPanelSpec => []ScanShown
<1>1. ScanInv => ScanShown
  BY ScanInvShows
<1>2. QED
  BY <1>1, ScanInvHolds, PTL

\* The scan in the panel is that scan.
THEOREM PanelHasScan == FrontSpec => ScanPanelSpec
<1>1. FrontInit => ScanPanelInit
  BY DEF FrontInit
<1>2. [FrontNext]_frontVars => [ScanPanelNext]_scanPanelVars
  <2>1. SUFFICES ASSUME [FrontNext]_frontVars PROVE [ScanPanelNext]_scanPanelVars
    OBVIOUS
  <2>2. CASE UNCHANGED frontVars
    BY <2>2 DEF frontVars
  <2>3. CASE FrontNext
    BY <2>3 DEF FrontNext
  <2>4. QED
    BY <2>1, <2>2, <2>3
<1>3. QED
  BY <1>1, <1>2, PTL DEF ScanPanelSpec, FrontSpec
-----------------------------------------------------------------------------
(* The rows of the subscriptions: the inductive invariant.                 *)

Row == [id : Nat \ {0}, topic : Topics]
RpcType ==
    [op : {"add", "remove", "check", "again", "settle"}, topic : Topics, row : Nat,
     live : BOOLEAN, dropped : BOOLEAN, behind : Nat, at : {"called", "answered"},
     ok : BOOLEAN, has : BOOLEAN, here : BOOLEAN]
ConnEvent == [kind : {"connected", "lost", "gone", "dropped"}, topic : Topics]
RowsType ==
    /\ conn \in {"connecting", "up", "lost", "gone"}
    /\ subs \subseteq Topics /\ renew \subseteq subs /\ told \in Seq(ConnEvent)
    /\ tab \in {"waiting", "connected", "closed", "none"}
    /\ rows \in Seq(Row) /\ ids \in Nat /\ rpcs \in Seq(RpcType) /\ again \in Seq(Row)
    /\ awry \in BOOLEAN /\ torn \in BOOLEAN

\* A tab that is still open has the end of its connection to come.
GoneTold ==
    conn = "gone" /\ tab \in {"waiting", "connected"} =>
        \E k \in DOMAIN told : told[k].kind = "gone"

\* No row and no topic is shown twice.
RowsOnce(rs, n) ==
    /\ \A i, j \in DOMAIN rs : rs[i].id = rs[j].id \/ rs[i].topic = rs[j].topic => i = j
    /\ \A r \in Range(rs) : r.id <= n

Loop(c) == c.op \in {"again", "settle"}
Of(c, op, at) == c.op = op /\ c.at = at

\* Of two calls, c may have been made before d: there is one loop that
\* subscribes again, a topic is not added twice at a time, nor removed while it
\* is added, and the loop leaves a topic alone that another call is about.
Follows(c, d) ==
    /\ ~(Loop(c) /\ Loop(d))
    /\ c.topic = d.topic => /\ ~(c.op = "add" /\ d.op \in {"add", "remove"})
                            /\ ~Of(d, "again", "called")
Ordered(cs) == \A i, j \in DOMAIN cs : i < j => Follows(cs[i], cs[j])

DroppedAt(evs, k, t) == evs[k].kind = "dropped" /\ evs[k].topic = t
DropComes(evs, t) == \E k \in DOMAIN evs : DroppedAt(evs, k, t)

\* A call about a row names its topic; a list was read while the connection was there.
CallTrue(c, rs, n, evs) ==
    /\ c.op # "add" => /\ c.row \in 1 .. n
                       /\ \A r \in Range(rs) : r.id = c.row => r.topic = c.topic
    /\ c.behind <= Len(evs)
    /\ c.here /\ (c.op \in {"check", "settle"} => c.ok)

\* The topic of an add has no row yet.  Until it is carried out the topic is
\* not subscribed, and what is still to be heard of it is older than the call;
\* afterwards it is, or its end is still to be heard.
AddTrue(c, rs, cs, S, evs) ==
    c.op = "add" =>
      /\ c.topic \notin TopicsOf(rs)
      /\ c.at = "called" => /\ c.topic \notin S /\ ~c.dropped
                            /\ \A k \in DOMAIN evs : DroppedAt(evs, k, c.topic) => k <= c.behind
      /\ c.at = "answered" =>
           /\ ~\E d \in Range(cs) : Of(d, "remove", "called") /\ d.topic = c.topic
           /\ c.dropped \/ ~c.ok => c.topic \notin S
           /\ ~c.dropped /\ c.ok =>
                c.topic \in S \/ \E k \in DOMAIN evs : k > c.behind /\ DroppedAt(evs, k, c.topic)

\* A row that is subscribed again is there, its topic is not subscribed before,
\* and what else is asked about it is asked later.
AgainFirst(c, rs, cs, S, evs) ==
    Of(c, "again", "called") =>
      /\ c.topic \notin S /\ ~DropComes(evs, c.topic)
      /\ \E r \in Range(rs) : r.id = c.row
      /\ \A d \in Range(cs) : d.topic = c.topic =>
           d = c \/ (Of(d, "remove", "called") /\ d.row = c.row)

\* A removal that is not carried out is of a row that is there, or changes nothing.
RemoveTrue(c, rs, S) ==
    Of(c, "remove", "called") /\ c.topic \in S => \E r \in Range(rs) : r.id = c.row

\* What takes a row off says that its topic is not subscribed.
TakesOff(c) ==
    \/ Of(c, "remove", "answered") /\ c.ok
    \/ c.op \in {"check", "settle"} /\ c.at = "answered" /\ ~c.has
OffTrue(c, rs, S) == TakesOff(c) /\ (\E r \in Range(rs) : r.id = c.row) => c.topic \notin S

CallsTrue(rs, n, cs, S, evs) ==
    \A c \in Range(cs) :
      /\ CallTrue(c, rs, n, evs) /\ AddTrue(c, rs, cs, S, evs) /\ AgainFirst(c, rs, cs, S, evs)
      /\ RemoveTrue(c, rs, S) /\ OffTrue(c, rs, S)

\* What the loop has yet to come to is not subscribed.
AgainTrue(rs, n, ag, cs, S, evs) ==
    /\ \A i, j \in DOMAIN ag : ag[i] = ag[j] => i = j
    /\ \A r \in Range(ag) : r.id <= n
    /\ \A r \in Range(ag) \cap Range(rs) :
          /\ r.topic \notin S /\ ~DropComes(evs, r.topic)
          /\ \A c \in Range(cs) : c.topic = r.topic => c.op \in {"remove", "check"} /\ c.row = r.id

\* A topic that was dropped and is subscribed was added since.
DropsTrue(cs, S, evs) ==
    \A k \in DOMAIN evs : \A t \in S : DroppedAt(evs, k, t) =>
        \E c \in Range(cs) : c.op = "add" /\ c.topic = t /\ k <= c.behind

\* Something under way will show the topic, or take the row off.
WillShow(c, t) == Of(c, "add", "answered") /\ c.topic = t /\ c.ok /\ ~c.dropped
Decides(c) ==
    \/ c.op = "again" /\ (c.at = "called" \/ ~c.ok)
    \/ c.op \in {"check", "settle"} /\ (c.at = "called" \/ ~c.has)
    \/ Of(c, "remove", "answered")
SubsShown(rs, cs, S) == \A t \in S : t \in TopicsOf(rs) \/ \E c \in Range(cs) : WillShow(c, t)
RowsMeant(rs, ag, cs, S, evs) ==
    \A r \in Range(rs) : \/ r.topic \in S \/ DropComes(evs, r.topic) \/ r \in Range(ag)
                         \/ \E c \in Range(cs) : Decides(c) /\ c.row = r.id

LoopGoesOn(ag, cs) == ag # <<>> => \E c \in Range(cs) : Loop(c)

RowsRight(rs, n, ag, cs, S, evs) ==
    /\ RowsOnce(rs, n) /\ Ordered(cs)
    /\ CallsTrue(rs, n, cs, S, evs) /\ AgainTrue(rs, n, ag, cs, S, evs)
    /\ DropsTrue(cs, S, evs)
    /\ SubsShown(rs, cs, S) /\ RowsMeant(rs, ag, cs, S, evs)
    /\ LoopGoesOn(ag, cs)

\* All this as long as the connection and the tab are there and no exception
\* has been met.
RowsLive == conn # "gone" /\ tab # "none" /\ ~awry /\ ~torn
RowsTrue == RowsLive => RowsRight(rows, ids, again, rpcs, subs, told)
RowsInv == RowsType /\ GoneTold /\ RowsTrue
-----------------------------------------------------------------------------
(* Rows: sequences.                                                        *)

\* What is in a sequence stands somewhere in it.
LEMMA InRange ==
  ASSUME NEW A, NEW s \in Seq(A)
  PROVE  /\ \A x : x \in Range(s) <=> \E i \in 1 .. Len(s) : s[i] = x
         /\ Range(s) \subseteq A /\ DOMAIN s = 1 .. Len(s) /\ Len(s) \in Nat
<1>1. DOMAIN s = 1 .. Len(s) /\ Len(s) \in Nat /\ \A i \in 1 .. Len(s) : s[i] \in A
  BY LenProperties, ElementOfSeq
<1>2. QED
  BY <1>1 DEF Range

\* Any two elements of a sequence, as they follow each other, are in R.
Pairwise(s, R) == \A i, j \in 1 .. Len(s) : i < j => <<s[i], s[j]>> \in R

\* Of a sequence with one more element, the last follows all others.
LEMMA AppendPairwise ==
  ASSUME NEW A, NEW s \in Seq(A), NEW x \in A, NEW R
  PROVE  Pairwise(Append(s, x), R) <=> Pairwise(s, R) /\ \A y \in Range(s) : <<y, x>> \in R
<1>1. PICK n \in Nat : n = Len(s)
  BY LenProperties
<1>2. PICK t : t = Append(s, x)
  OBVIOUS
<1>3. Len(t) = n + 1 /\ t[n + 1] = x /\ \A i \in 1 .. n : t[i] = s[i]
  BY <1>1, <1>2, AppendProperties
<1>4. \A y : y \in Range(s) <=> \E i \in 1 .. n : s[i] = y
  BY <1>1, InRange
<1>5. ASSUME Pairwise(t, R) PROVE Pairwise(s, R) /\ \A y \in Range(s) : <<y, x>> \in R
  <2>1. ASSUME NEW i \in 1 .. n, NEW j \in 1 .. n, i < j PROVE <<s[i], s[j]>> \in R
    <3>1. i \in 1 .. n + 1 /\ j \in 1 .. n + 1
      OBVIOUS
    <3>2. <<t[i], t[j]>> \in R
      BY <1>3, <1>5, <2>1, <3>1 DEF Pairwise
    <3>3. QED
      BY <1>3, <3>2
  <2>2. ASSUME NEW y \in Range(s) PROVE <<y, x>> \in R
    <3>1. PICK i \in 1 .. n : s[i] = y
      BY <1>4
    <3>2. i \in 1 .. n + 1 /\ n + 1 \in 1 .. n + 1 /\ i < n + 1
      OBVIOUS
    <3>3. <<t[i], t[n + 1]>> \in R
      BY <1>3, <1>5, <3>2 DEF Pairwise
    <3>4. QED
      BY <1>3, <3>1, <3>3
  <2>3. QED
    BY <1>1, <2>1, <2>2 DEF Pairwise
<1>6. ASSUME Pairwise(s, R), \A y \in Range(s) : <<y, x>> \in R PROVE Pairwise(t, R)
  <2>1. ASSUME NEW i \in 1 .. n + 1, NEW j \in 1 .. n + 1, i < j PROVE <<t[i], t[j]>> \in R
    <3>1. i \in 1 .. n /\ t[i] = s[i]
      BY <1>3, <2>1
    <3>2. CASE j = n + 1
      <4>1. s[i] \in Range(s)
        BY <1>4, <3>1
      <4>2. QED
        BY <1>3, <1>6, <3>1, <3>2, <4>1
    <3>3. CASE j # n + 1
      <4>1. j \in 1 .. n
        BY <3>3
      <4>2. QED
        BY <1>1, <1>3, <1>6, <2>1, <3>1, <4>1 DEF Pairwise
    <3>4. QED
      BY <3>2, <3>3
  <2>2. QED
    BY <1>3, <2>1 DEF Pairwise
<1>7. QED
  BY <1>2, <1>5, <1>6

\* Filtering does not change how elements follow each other.
LEMMA OnlyPairwise ==
  ASSUME NEW A, NEW s \in Seq(A), NEW S, NEW R, Pairwise(s, R)
  PROVE  Pairwise(Only(s, S), R)
<1> DEFINE K == {t \in Seq(A) : Pairwise(t, R) /\ ~Pairwise(Only(t, S), R)}
<1>1. SUFFICES ASSUME K # {} PROVE FALSE
  OBVIOUS
<1>2. PICK t \in K : t = <<>> \/ \E u \in Seq(A), x \in A : t = Append(u, x) /\ u \notin K
  BY <1>1, Shortest
<1>3. CASE t = <<>>
  BY <1>3, OnlyEmpty
<1>4. ASSUME NEW u \in Seq(A), NEW x \in A, t = Append(u, x), u \notin K PROVE FALSE
  <2>1. Pairwise(u, R) /\ \A y \in Range(u) : <<y, x>> \in R
    BY <1>4, AppendPairwise
  <2>2. Pairwise(Only(u, S), R)
    BY <1>4, <2>1
  <2>3. Only(t, S) = IF x \in S THEN Append(Only(u, S), x) ELSE Only(u, S)
    BY <1>4, OnlyAppend
  <2>4. Only(u, S) \in Seq(A) /\ Range(Only(u, S)) \subseteq Range(u)
    BY OnlyRange
  <2>5. Pairwise(Append(Only(u, S), x), R)
    BY <2>1, <2>2, <2>4, AppendPairwise
  <2>6. QED
    BY <2>2, <2>3, <2>5
<1>5. QED
  BY <1>2, <1>3, <1>4

\* A sequence of which the first is taken off.
LEMMA TailIs ==
  ASSUME NEW A, NEW s \in Seq(A), s # <<>>
  PROVE  /\ Tail(s) \in Seq(A) /\ Len(Tail(s)) = Len(s) - 1 /\ Len(s) >= 1 /\ s[1] \in Range(s)
         /\ \A i \in 1 .. Len(s) - 1 : Tail(s)[i] = s[i + 1]
         /\ Range(s) = Range(Tail(s)) \cup {s[1]}
<1>1. PICK n \in Nat : n = Len(s)
  BY LenProperties
<1>2. n >= 1
  BY <1>1, EmptySeq
<1>3. Tail(s) \in Seq(A) /\ Len(Tail(s)) = n - 1 /\ \A i \in 1 .. n - 1 : Tail(s)[i] = s[i + 1]
  BY <1>1, <1>2, HeadTailProperties
<1>4. \A x : x \in Range(s) <=> \E i \in 1 .. n : s[i] = x
  BY <1>1, InRange
<1>5. \A x : x \in Range(Tail(s)) <=> \E i \in 1 .. n - 1 : Tail(s)[i] = x
  BY <1>3, InRange
<1>6. s[1] \in Range(s)
  BY <1>2, <1>4
<1>7. ASSUME NEW x \in Range(s) PROVE x \in Range(Tail(s)) \cup {s[1]}
  <2>1. PICK i \in 1 .. n : s[i] = x
    BY <1>4
  <2>2. CASE i = 1
    BY <2>1, <2>2
  <2>3. CASE i # 1
    <3>1. i - 1 \in 1 .. n - 1 /\ (i - 1) + 1 = i
      BY <2>3
    <3>2. Tail(s)[i - 1] = x
      BY <1>3, <2>1, <3>1
    <3>3. QED
      BY <1>5, <3>1, <3>2
  <2>4. QED
    BY <2>2, <2>3
<1>8. ASSUME NEW x \in Range(Tail(s)) PROVE x \in Range(s)
  <2>1. PICK i \in 1 .. n - 1 : Tail(s)[i] = x
    BY <1>5
  <2>2. i + 1 \in 1 .. n
    OBVIOUS
  <2>3. QED
    BY <1>3, <1>4, <2>1, <2>2
<1>9. QED
  BY <1>1, <1>2, <1>3, <1>6, <1>7, <1>8

\* A sequence with an element taken out has all others.
LEMMA TakenOutRange ==
  ASSUME NEW A, NEW s \in Seq(A), NEW k \in 1 .. Len(s)
  PROVE  /\ RemoveAt(s, k) \in Seq(A)
         /\ Range(RemoveAt(s, k)) \subseteq Range(s)
         /\ Range(s) = Range(RemoveAt(s, k)) \cup {s[k]}
<1>1. PICK n \in Nat : n = Len(s)
  BY LenProperties
<1>2. PICK t : t = RemoveAt(s, k)
  OBVIOUS
<1>3. /\ t \in Seq(A) /\ Len(t) = n - 1
      /\ \A i \in 1 .. n - 1 : t[i] = IF i < k THEN s[i] ELSE s[i + 1]
  BY <1>1, <1>2, TakenOut
<1>4. /\ \A x : x \in Range(s) <=> \E i \in 1 .. n : s[i] = x
      /\ \A x : x \in Range(t) <=> \E i \in 1 .. n - 1 : t[i] = x
  BY <1>1, <1>3, InRange
<1>5. k \in 1 .. n
  BY <1>1
<1>6. ASSUME NEW x \in Range(s), x # s[k] PROVE x \in Range(t)
  <2>1. PICK i \in 1 .. n : s[i] = x
    BY <1>4
  <2>2. i # k
    BY <1>6, <2>1
  <2>3. CASE i < k
    <3>1. i \in 1 .. n - 1
      BY <1>5, <2>3
    <3>2. QED
      BY <1>3, <1>4, <2>1, <2>3, <3>1
  <2>4. CASE ~(i < k)
    <3>1. i - 1 \in 1 .. n - 1 /\ ~(i - 1 < k) /\ (i - 1) + 1 = i
      BY <1>5, <2>2, <2>4
    <3>2. t[i - 1] = s[i]
      BY <1>3, <3>1
    <3>3. QED
      BY <1>4, <2>1, <3>1, <3>2
  <2>5. QED
    BY <2>3, <2>4
<1>7. ASSUME NEW x \in Range(t) PROVE x \in Range(s)
  <2>1. PICK i \in 1 .. n - 1 : t[i] = x
    BY <1>4
  <2>2. i \in 1 .. n /\ i + 1 \in 1 .. n
    OBVIOUS
  <2>3. QED
    BY <1>3, <1>4, <2>1, <2>2
<1>8. s[k] \in Range(s)
  BY <1>4, <1>5
<1>9. QED
  BY <1>2, <1>3, <1>6, <1>7, <1>8

\* Taking an element out does not change how the others follow each other.
LEMMA TakenOutPairwise ==
  ASSUME NEW A, NEW s \in Seq(A), NEW k \in 1 .. Len(s), NEW R, Pairwise(s, R)
  PROVE  Pairwise(RemoveAt(s, k), R)
<1>1. PICK n \in Nat : n = Len(s)
  BY LenProperties
<1>2. PICK t : t = RemoveAt(s, k)
  OBVIOUS
<1>3. /\ t \in Seq(A) /\ Len(t) = n - 1
      /\ \A i \in 1 .. n - 1 : t[i] = IF i < k THEN s[i] ELSE s[i + 1]
  BY <1>1, <1>2, TakenOut
<1>4. ASSUME NEW i \in 1 .. n - 1, NEW j \in 1 .. n - 1, i < j PROVE <<t[i], t[j]>> \in R
  <2>1. PICK p \in 1 .. n, q \in 1 .. n : p < q /\ t[i] = s[p] /\ t[j] = s[q]
    <3>1. i \in 1 .. n /\ i + 1 \in 1 .. n /\ j \in 1 .. n /\ j + 1 \in 1 .. n
      OBVIOUS
    <3>2. k \in Int
      OBVIOUS
    <3>3. CASE i < k /\ j < k
      BY <1>3, <1>4, <3>1, <3>3
    <3>4. CASE i < k /\ ~(j < k)
      <4>1. i < j + 1
        BY <1>4
      <4>2. QED
        BY <1>3, <3>1, <3>4, <4>1
    <3>5. CASE ~(i < k)
      <4>1. ~(j < k) /\ i + 1 < j + 1
        BY <1>4, <3>2, <3>5
      <4>2. QED
        BY <1>3, <3>1, <3>5, <4>1
    <3>6. QED
      BY <3>3, <3>4, <3>5
  <2>2. QED
    BY <1>1, <2>1 DEF Pairwise
<1>5. QED
  BY <1>2, <1>3, <1>4 DEF Pairwise
-----------------------------------------------------------------------------
(* Rows: types, and the end of the connection.                             *)

\* A call as it is made.
LEMMA RpcIs ==
  ASSUME RowsType, NEW op \in {"add", "remove", "check", "again", "settle"}, NEW t \in Topics, NEW row \in Nat
  PROVE  /\ Rpc(op, t, row) \in RpcType
         /\ Rpc(op, t, row).op = op /\ Rpc(op, t, row).topic = t /\ Rpc(op, t, row).row = row
         /\ Rpc(op, t, row).at = "called" /\ Rpc(op, t, row).behind = Len(told)
         /\ ~Rpc(op, t, row).dropped /\ Rpc(op, t, row).ok /\ ~Rpc(op, t, row).has /\ Rpc(op, t, row).here
<1>1. Len(told) \in Nat
  BY LenProperties DEF RowsType
<1>2. (op = "remove" /\ tab = "connected") \in BOOLEAN
  OBVIOUS
<1>3. QED
  BY <1>1, <1>2 DEF Rpc, RpcType

LEMMA EventIs ==
  ASSUME NEW kind \in {"connected", "lost", "gone", "dropped"}, NEW t \in Topics
  PROVE  Event(kind, t) \in ConnEvent /\ Event(kind, t).kind = kind /\ Event(kind, t).topic = t
BY DEF Event, ConnEvent

LEMMA AnyTopicIs == AnyTopic \in Topics
BY RowsAssumption DEF AnyTopic

\* A call under way.
LEMMA CallIs ==
  ASSUME RowsType, NEW i \in DOMAIN rpcs
  PROVE  i \in 1 .. Len(rpcs) /\ rpcs[i] \in RpcType /\ rpcs[i] \in Range(rpcs)
BY InRange DEF RowsType

\* Calls of which one has gone on: it is about the same as before.
Same(c, d) ==
    /\ d.op = c.op /\ d.topic = c.topic /\ d.row = c.row
    /\ d.behind = c.behind /\ d.dropped = c.dropped /\ d.live = c.live
Turned(cs, new, i) ==
    /\ new \in Seq(RpcType) /\ Len(new) = Len(cs)
    /\ \A j \in 1 .. Len(cs) : j # i => new[j] = cs[j]
    /\ Same(cs[i], new[i])

LEMMA DoneIs ==
  ASSUME RowsType, NEW i \in DOMAIN rpcs, NEW ok \in BOOLEAN, Done(i, ok)
  PROVE  /\ Turned(rpcs, rpcs', i)
         /\ rpcs'[i].at = "answered" /\ rpcs'[i].ok = ok
         /\ rpcs'[i].has = rpcs[i].has /\ rpcs'[i].here = rpcs[i].here
<1>1. rpcs \in Seq(RpcType) /\ rpcs[i] \in RpcType /\ i \in 1 .. Len(rpcs)
  BY CallIs DEF RowsType
<1>2. PICK d : d = [rpcs[i] EXCEPT !.at = "answered", !.ok = ok]
  OBVIOUS
<1>3. /\ d \in RpcType /\ Same(rpcs[i], d) /\ d.at = "answered" /\ d.ok = ok
      /\ d.has = rpcs[i].has /\ d.here = rpcs[i].here
  BY <1>1, <1>2 DEF RpcType, Same
<1>4. rpcs' = [rpcs EXCEPT ![i] = d]
  BY <1>1, <1>2 DEF Done
<1>5. rpcs' \in Seq(RpcType) /\ Len(rpcs') = Len(rpcs)
      /\ rpcs'[i] = d /\ \A j \in 1 .. Len(rpcs) : j # i => rpcs'[j] = rpcs[j]
  BY <1>1, <1>3, <1>4, ExceptSeq
<1>6. QED
  BY <1>3, <1>5 DEF Turned

LEMMA ListedIs ==
  ASSUME RowsType, NEW i, DoList(i)
  PROVE  /\ Turned(rpcs, rpcs', i)
         /\ rpcs'[i].at = "answered" /\ rpcs'[i].ok = rpcs[i].ok
         /\ rpcs'[i].has = (rpcs[i].topic \in subs) /\ rpcs'[i].here = (conn # "gone")
<1>0. i \in DOMAIN rpcs
  BY DEF DoList, Does
<1>1. rpcs \in Seq(RpcType) /\ rpcs[i] \in RpcType /\ i \in 1 .. Len(rpcs)
  BY <1>0, CallIs DEF RowsType
<1> DEFINE has == rpcs[i].topic \in subs
           here0 == conn # "gone"
<1>2. PICK d : d = [rpcs[i] EXCEPT !.at = "answered", !.has = has, !.here = here0]
  OBVIOUS
<1>3. /\ d \in RpcType /\ Same(rpcs[i], d) /\ d.at = "answered" /\ d.ok = rpcs[i].ok
      /\ d.has = has /\ d.here = here0
  <2>1. has \in BOOLEAN /\ here0 \in BOOLEAN
    OBVIOUS
  <2> HIDE DEF has, here0
  <2>2. QED
    BY <1>1, <1>2, <2>1 DEF RpcType, Same
<1>4. rpcs' = [rpcs EXCEPT ![i] = d]
  BY <1>1, <1>2 DEF DoList
<1>5. rpcs' \in Seq(RpcType) /\ Len(rpcs') = Len(rpcs)
      /\ rpcs'[i] = d /\ \A j \in 1 .. Len(rpcs) : j # i => rpcs'[j] = rpcs[j]
  BY <1>1, <1>3, <1>4, ExceptSeq
<1>6. QED
  BY <1>3, <1>5 DEF Turned

\* Calls that have come nearer to the next event, some of them marked.
Neared(c, d) ==
    /\ d.op = c.op /\ d.topic = c.topic /\ d.row = c.row /\ d.at = c.at
    /\ d.ok = c.ok /\ d.has = c.has /\ d.here = c.here /\ d.live = c.live
    /\ d.behind = IF c.behind = 0 THEN 0 ELSE c.behind - 1
LEMMA NearerIs ==
  ASSUME RowsType
  PROVE  /\ Nearer \in Seq(RpcType) /\ Len(Nearer) = Len(rpcs)
         /\ \A i \in 1 .. Len(rpcs) : Neared(rpcs[i], Nearer[i]) /\ Nearer[i].dropped = rpcs[i].dropped
<1>1. PICK n \in Nat : n = Len(rpcs) /\ DOMAIN rpcs = 1 .. n
  BY LenProperties DEF RowsType
<1>2. ASSUME NEW i \in 1 .. n
      PROVE  Nearer[i] \in RpcType /\ Neared(rpcs[i], Nearer[i]) /\ Nearer[i].dropped = rpcs[i].dropped
  <2>1. PICK c \in RpcType : c = rpcs[i]
    BY <1>1, CallIs
  <2>2. Nearer[i] = [c EXCEPT !.behind = IF @ = 0 THEN 0 ELSE @ - 1]
    BY <1>1, <2>1 DEF Nearer
  <2>3. PICK b \in Nat : b = IF c.behind = 0 THEN 0 ELSE c.behind - 1
    BY DEF RpcType
  <2>4. Nearer[i] = [c EXCEPT !.behind = b]
    BY <2>2, <2>3
  <2>5. QED
    BY <2>1, <2>3, <2>4 DEF RpcType, Neared
<1>3. Nearer \in [1 .. n -> RpcType]
  BY <1>1, <1>2 DEF Nearer
<1>4. Nearer \in Seq(RpcType) /\ Len(Nearer) = n
  BY <1>3, SeqDef, LenProperties
<1>5. QED
  BY <1>1, <1>2, <1>4

LEMMA MarkIs ==
  ASSUME RowsType, NEW t, Mark(t)
  PROVE  /\ rpcs' \in Seq(RpcType) /\ Len(rpcs') = Len(rpcs)
         /\ \A i \in 1 .. Len(rpcs) :
               /\ Neared(rpcs[i], rpcs'[i])
               /\ rpcs'[i].dropped = (rpcs[i].dropped \/ (rpcs[i].op = "add" /\ rpcs[i].topic = t))
<1>1. PICK n \in Nat : n = Len(rpcs) /\ DOMAIN rpcs = 1 .. n
  BY LenProperties DEF RowsType
<1>2. PICK near \in Seq(RpcType) : near = Nearer
  BY NearerIs
<1>3. DOMAIN near = 1 .. n /\ \A i \in 1 .. n : near[i] \in RpcType
  BY <1>1, <1>2, NearerIs, LenProperties, ElementOfSeq
<1>4. rpcs' = [i \in 1 .. n |-> IF rpcs[i].op = "add" /\ rpcs[i].topic = t
                                THEN [near[i] EXCEPT !.dropped = TRUE] ELSE near[i]]
  BY <1>1, <1>2 DEF Mark
<1>5. ASSUME NEW i \in 1 .. n
      PROVE  /\ rpcs'[i] \in RpcType /\ Neared(rpcs[i], rpcs'[i])
             /\ rpcs'[i].dropped = (rpcs[i].dropped \/ (rpcs[i].op = "add" /\ rpcs[i].topic = t))
  <2>1. Neared(rpcs[i], near[i]) /\ near[i].dropped = rpcs[i].dropped /\ near[i] \in RpcType
        /\ rpcs[i] \in RpcType
    BY <1>1, <1>2, <1>3, NearerIs, CallIs
  <2>2. CASE rpcs[i].op = "add" /\ rpcs[i].topic = t
    <3>1. rpcs'[i] = [near[i] EXCEPT !.dropped = TRUE]
      BY <1>4, <2>2
    <3>2. QED
      BY <2>1, <2>2, <3>1 DEF RpcType, Neared
  <2>3. CASE ~(rpcs[i].op = "add" /\ rpcs[i].topic = t)
    <3>1. rpcs'[i] = near[i]
      BY <1>4, <2>3
    <3>2. rpcs[i].dropped \in BOOLEAN
      BY <2>1 DEF RpcType
    <3>3. QED
      BY <2>1, <2>3, <3>1, <3>2
  <2>4. QED
    BY <2>2, <2>3
<1>6. rpcs' \in [1 .. n -> RpcType]
  BY <1>4, <1>5
<1>7. rpcs' \in Seq(RpcType) /\ Len(rpcs') = n
  BY <1>6, SeqDef, LenProperties
<1>8. QED
  BY <1>1, <1>5, <1>7

\* What is left when a call has ended.
LEMMA OthersIs ==
  ASSUME RowsType, NEW i \in DOMAIN rpcs
  PROVE  /\ Others(i) \in Seq(RpcType) /\ Range(Others(i)) \subseteq Range(rpcs)
         /\ Range(rpcs) = Range(Others(i)) \cup {rpcs[i]}
BY CallIs, TakenOutRange DEF RowsType, Others

\* The loop ends, or goes on with the first row that is still there.
LEMMA OnwardIs ==
  ASSUME RowsType, NEW i \in DOMAIN rpcs, NEW rs \in Seq(Row), Onward(i, rs)
  PROVE  /\ awry' = (awry \/ Stale(i))
         /\ \/ rpcs' = Others(i) /\ again' = <<>> /\ torn' = torn
            \/ \E todo \in Seq(Row) : \E row \in Row :
                 /\ todo = Only(again, Range(rs)) /\ todo # <<>> /\ row = todo[1] /\ tab # "none"
                 /\ rpcs' = Append(Others(i), Rpc("again", row.topic, row.id)) /\ again' = Tail(todo)
                 /\ torn' = (torn \/ \E k \in UserRpcs : rpcs[k].row = row.id)
<1>1. PICK todo \in Seq(Row) : todo = Only(again, Range(rs))
  BY OnlyRange DEF RowsType
<1>2. awry' = (awry \/ Stale(i))
  BY DEF Onward
<1>3. CASE tab = "none" \/ todo = <<>>
  <2>1. rpcs' = Others(i) /\ again' = <<>> /\ torn' = torn
    BY <1>1, <1>3 DEF Onward, RowsType
  <2>2. QED
    BY <1>2, <2>1
<1>4. CASE ~(tab = "none" \/ todo = <<>>)
  <2>1. todo[1] \in Row
    BY <1>4, TailIs, InRange
  <2>2. PICK row \in Row : row = todo[1]
    BY <2>1
  <2>3. /\ rpcs' = Append(Others(i), Rpc("again", row.topic, row.id)) /\ again' = Tail(todo)
        /\ torn' = (torn \/ \E k \in UserRpcs : rpcs[k].row = row.id)
    BY <1>1, <1>4, <2>2 DEF Onward
  <2>4. QED
    BY <1>1, <1>2, <1>4, <2>2, <2>3
<1>5. QED
  BY <1>3, <1>4

LEMMA OnwardTyped ==
  ASSUME RowsType, NEW i \in DOMAIN rpcs, NEW rs \in Seq(Row), Onward(i, rs)
  PROVE  rpcs' \in Seq(RpcType) /\ again' \in Seq(Row) /\ awry' \in BOOLEAN /\ torn' \in BOOLEAN
<1>1. Others(i) \in Seq(RpcType)
  BY OthersIs
<1>2. awry' = (awry \/ Stale(i))
  BY OnwardIs
<1>3. CASE rpcs' = Others(i) /\ again' = <<>> /\ torn' = torn
  BY <1>1, <1>2, <1>3, EmptySeq DEF RowsType
<1>4. ASSUME NEW todo \in Seq(Row), NEW row \in Row, todo # <<>>,
             rpcs' = Append(Others(i), Rpc("again", row.topic, row.id)), again' = Tail(todo),
             torn' = (torn \/ \E k \in UserRpcs : rpcs[k].row = row.id)
      PROVE  rpcs' \in Seq(RpcType) /\ again' \in Seq(Row) /\ awry' \in BOOLEAN /\ torn' \in BOOLEAN
  <2>1. Rpc("again", row.topic, row.id) \in RpcType
    BY RpcIs DEF Row
  <2>2. rpcs' \in Seq(RpcType)
    BY <1>1, <1>4, <2>1, AppendProperties
  <2>3. again' \in Seq(Row)
    BY <1>4, TailIs
  <2>4. QED
    BY <1>2, <1>4, <2>2, <2>3
<1>5. QED
  BY <1>3, <1>4, OnwardIs

LEMMA WithoutRowIs ==
  ASSUME NEW rs \in Seq(Row), NEW id
  PROVE  /\ WithoutRow(rs, id) \in Seq(Row)
         /\ Range(WithoutRow(rs, id)) = {r \in Range(rs) : r.id # id}
<1>1. /\ Only(rs, {r \in Range(rs) : r.id # id}) \in Seq(Row)
      /\ Range(Only(rs, {r \in Range(rs) : r.id # id})) = Range(rs) \cap {r \in Range(rs) : r.id # id}
  BY OnlyRange
<1>2. QED
  BY <1>1 DEF WithoutRow

LEMMA RowsTypeStep == ASSUME RowsType, [RowsNext]_rowVars PROVE RowsType'
<1> USE DEF RowsType
<1>0. /\ rpcs \in Seq(RpcType) /\ rows \in Seq(Row) /\ told \in Seq(ConnEvent) /\ ids \in Nat
      /\ \A i \in DOMAIN rpcs : rpcs[i] \in RpcType
  BY CallIs
<1>1. ASSUME NEW kind \in {"connected", "lost", "gone", "dropped"}, NEW t \in Topics
      PROVE  Append(told, Event(kind, t)) \in Seq(ConnEvent)
  <2>1. Event(kind, t) \in ConnEvent
    BY EventIs
  <2>2. QED
    BY <1>0, <2>1, AppendProperties
<1>2. CASE LinkUp
  BY <1>1, <1>2, AnyTopicIs DEF LinkUp
<1>3. CASE LinkLost
  BY <1>1, <1>3, AnyTopicIs DEF LinkLost
<1>4. CASE LinkGone
  BY <1>1, <1>4, AnyTopicIs DEF LinkGone
<1>5. ASSUME NEW t \in Topics, Renewed(t) PROVE RowsType'
  BY <1>5 DEF Renewed
<1>6. ASSUME NEW t \in Topics, Dropped(t) PROVE RowsType'
  BY <1>1, <1>6 DEF Dropped
<1>7. ASSUME NEW i \in DOMAIN rpcs, DoSubscribe(i) PROVE RowsType'
  <2>1. rpcs' \in Seq(RpcType)
    BY <1>7, DoneIs DEF DoSubscribe, Turned
  <2>2. awry' \in BOOLEAN /\ rpcs[i].topic \in Topics
    BY <1>0, <1>7 DEF DoSubscribe, RpcType
  <2>3. UNCHANGED <<conn, renew, losses, told, tab, rows, ids, again, torn>> /\ subs' = subs \cup {rpcs[i].topic}
    BY <1>7 DEF DoSubscribe
  <2>4. QED
    BY <2>1, <2>2, <2>3
<1>8. ASSUME NEW i \in DOMAIN rpcs, DoUnsubscribe(i) PROVE RowsType'
  <2>1. rpcs' \in Seq(RpcType)
    BY <1>8, DoneIs DEF DoUnsubscribe, Turned
  <2>2. awry' \in BOOLEAN
    BY <1>8 DEF DoUnsubscribe
  <2>3. /\ UNCHANGED <<conn, renew, losses, told, tab, rows, ids, again, torn>> /\ subs' = subs \ {rpcs[i].topic}
        /\ renew = {}
    BY <1>8 DEF DoUnsubscribe
  <2>4. QED
    BY <2>1, <2>2, <2>3
<1>9. ASSUME NEW i \in DOMAIN rpcs, Fail(i) PROVE RowsType'
  <2>1. rpcs' \in Seq(RpcType)
    BY <1>9, DoneIs DEF Fail, Turned
  <2>2. awry' \in BOOLEAN
    BY <1>9 DEF Fail
  <2>3. UNCHANGED <<conn, subs, renew, told, tab, rows, ids, again, torn>>
    BY <1>9 DEF Fail, connVars
  <2>4. QED
    BY <2>1, <2>2, <2>3
<1>10. ASSUME NEW i \in DOMAIN rpcs, DoList(i) PROVE RowsType'
  <2>1. rpcs' \in Seq(RpcType)
    BY <1>10, ListedIs DEF Turned
  <2>2. UNCHANGED <<conn, subs, renew, told, tab, rows, ids, again, awry, torn>>
    BY <1>10 DEF DoList, connVars
  <2>3. QED
    BY <2>1, <2>2
<1>11. ASSUME NEW i \in DOMAIN rpcs, ListFails(i) PROVE RowsType'
  <2>1. rpcs' \in Seq(RpcType)
    BY <1>11, DoneIs DEF ListFails, Turned
  <2>2. UNCHANGED <<conn, subs, renew, told, tab, rows, ids, again, torn>> /\ awry' = TRUE
    BY <1>11 DEF ListFails, connVars
  <2>3. QED
    BY <2>1, <2>2
<1>12. ASSUME NEW t \in Topics, AddSubscription(t) PROVE RowsType'
  <2>1. Rpc("add", t, 0) \in RpcType
    BY RpcIs
  <2>2. rpcs' \in Seq(RpcType) /\ awry' \in BOOLEAN
    BY <1>0, <1>12, <2>1, AppendProperties DEF AddSubscription
  <2>3. UNCHANGED <<conn, subs, renew, told, tab, rows, ids, again, torn>>
    BY <1>12 DEF AddSubscription, connVars
  <2>4. QED
    BY <2>2, <2>3
<1>13. ASSUME NEW r \in Range(rows), RemoveSubscription(r) PROVE RowsType'
  <2>0. r \in Row
    BY <1>0, InRange
  <2>1. Rpc("remove", r.topic, r.id) \in RpcType
    BY <2>0, RpcIs DEF Row
  <2>2. rpcs' \in Seq(RpcType)
    BY <1>0, <1>13, <2>1, AppendProperties DEF RemoveSubscription
  <2>3. UNCHANGED <<conn, subs, renew, told, tab, rows, ids, again, awry, torn>>
    BY <1>13 DEF RemoveSubscription, connVars
  <2>4. QED
    BY <2>2, <2>3
<1>14. CASE LeaveTab
  BY <1>14, EmptySeq DEF LeaveTab, connVars
<1>15. CASE HearState
  <2>1. told' \in Seq(ConnEvent) /\ rpcs' \in Seq(RpcType)
    BY <1>0, <1>15, TailIs, NearerIs DEF HearState, Take
  <2>2. told[1].kind \in {"connected", "lost", "gone"}
    <3>1. told[1] \in ConnEvent /\ told[1].kind # "dropped"
      BY <1>0, <1>15, TailIs, InRange DEF HearState
    <3>2. QED
      BY <3>1 DEF ConnEvent
  <2>3. tab' \in {"waiting", "connected", "closed", "none"}
    BY <1>15, <2>2 DEF HearState
  <2>4. UNCHANGED <<conn, subs, renew, losses, rows, ids, again, awry, torn>>
    BY <1>15 DEF HearState
  <2>5. QED
    BY <2>1, <2>3, <2>4
<1>16. CASE HearDropped
  <2>1. told' \in Seq(ConnEvent) /\ rpcs' \in Seq(RpcType)
    BY <1>0, <1>16, TailIs, MarkIs DEF HearDropped, Take
  <2>2. rows' \in Seq(Row)
    BY <1>0, <1>16, OnlyRange DEF HearDropped
  <2>3. UNCHANGED <<conn, subs, renew, losses, tab, ids, again, torn>> /\ awry' \in BOOLEAN
    BY <1>16 DEF HearDropped
  <2>4. QED
    BY <2>1, <2>2, <2>3
<1>17. ASSUME NEW i \in DOMAIN rpcs, Added(i) PROVE RowsType'
  <2>1. rpcs' \in Seq(RpcType)
    BY <1>17, OthersIs DEF Added
  <2>2. rows' \in Seq(Row) /\ ids' \in Nat
    <3>1. [id |-> ids + 1, topic |-> rpcs[i].topic] \in Row
      BY <1>0 DEF Row, RpcType
    <3>2. Append(rows, [id |-> ids + 1, topic |-> rpcs[i].topic]) \in Seq(Row)
      BY <1>0, <3>1, AppendProperties
    <3>3. \/ rows' = rows /\ ids' = ids
          \/ rows' = Append(rows, [id |-> ids + 1, topic |-> rpcs[i].topic]) /\ ids' = ids + 1
      BY <1>17 DEF Added
    <3>4. CASE rows' = rows /\ ids' = ids
      BY <1>0, <3>4
    <3>5. CASE rows' = Append(rows, [id |-> ids + 1, topic |-> rpcs[i].topic]) /\ ids' = ids + 1
      <4>1. ids' \in Nat
        BY <1>0, <3>5
      <4>2. QED
        BY <3>2, <3>5, <4>1
    <3>6. QED
      BY <3>3, <3>4, <3>5
  <2>3. UNCHANGED <<conn, subs, renew, told, tab, again, torn>> /\ awry' \in BOOLEAN
    BY <1>17 DEF Added, connVars
  <2>4. QED
    BY <2>1, <2>2, <2>3
<1>18. ASSUME NEW i \in DOMAIN rpcs, Removed(i) PROVE RowsType'
  <2>1. rpcs' \in Seq(RpcType)
    BY <1>18, OthersIs DEF Removed
  <2>2. rows' \in Seq(Row)
    BY <1>0, <1>18, WithoutRowIs DEF Removed
  <2>3. UNCHANGED <<conn, subs, renew, told, tab, ids, again>> /\ awry' \in BOOLEAN /\ torn' \in BOOLEAN
    BY <1>18 DEF Removed, connVars
  <2>4. QED
    BY <2>1, <2>2, <2>3
<1>19. ASSUME NEW i \in DOMAIN rpcs, NEW op \in {"check", "settle"},
              rpcs' = Append(Others(i), Rpc(op, rpcs[i].topic, rpcs[i].row))
       PROVE  rpcs' \in Seq(RpcType)
  <2>1. Rpc(op, rpcs[i].topic, rpcs[i].row) \in RpcType
    <3>1. rpcs[i].topic \in Topics /\ rpcs[i].row \in Nat
      BY <1>0 DEF RpcType
    <3>2. QED
      BY <3>1, RpcIs
  <2>2. QED
    BY <1>19, <2>1, OthersIs, AppendProperties
<1>20. ASSUME NEW i \in DOMAIN rpcs, RemoveFailed(i) PROVE RowsType'
  BY <1>19, <1>20 DEF RemoveFailed, connVars
<1>21. ASSUME NEW i \in DOMAIN rpcs, Checked(i) PROVE RowsType'
  <2>1. rpcs' \in Seq(RpcType)
    BY <1>21, OthersIs DEF Checked
  <2>2. rows' \in Seq(Row)
    BY <1>0, <1>21, WithoutRowIs DEF Checked
  <2>3. UNCHANGED <<conn, subs, renew, told, tab, ids, again, torn>> /\ awry' \in BOOLEAN
    BY <1>21 DEF Checked, connVars
  <2>4. QED
    BY <2>1, <2>2, <2>3
<1>22. ASSUME NEW i \in DOMAIN rpcs, SubscribedAgain(i) PROVE RowsType'
  <2>1. rpcs' \in Seq(RpcType) /\ again' \in Seq(Row) /\ awry' \in BOOLEAN /\ torn' \in BOOLEAN
    BY <1>0, <1>22, OnwardTyped DEF SubscribedAgain
  <2>2. UNCHANGED <<conn, subs, renew, told, tab, rows, ids>>
    BY <1>22 DEF SubscribedAgain, connVars
  <2>3. QED
    BY <2>1, <2>2
<1>23. ASSUME NEW i \in DOMAIN rpcs, AgainFailed(i) PROVE RowsType'
  BY <1>19, <1>23 DEF AgainFailed, connVars
<1>24. ASSUME NEW i \in DOMAIN rpcs, Settled(i) PROVE RowsType'
  <2> DEFINE rs == IF rpcs[i].ok /\ ~rpcs[i].has THEN WithoutRow(rows, rpcs[i].row) ELSE rows
  <2>1. rs \in Seq(Row)
    BY <1>0, WithoutRowIs
  <2>2. UNCHANGED <<conn, subs, renew, told, tab, ids>>
    BY <1>24 DEF Settled, connVars
  <2>3. CASE rpcs' = Others(i) /\ again' = <<>> /\ UNCHANGED <<rows, awry, torn>>
    BY <2>2, <2>3, OthersIs, EmptySeq
  <2>4. CASE rows' = rs /\ Onward(i, rs)
    <3>1. rpcs' \in Seq(RpcType) /\ again' \in Seq(Row) /\ awry' \in BOOLEAN /\ torn' \in BOOLEAN
      BY <2>1, <2>4, OnwardTyped
    <3>2. QED
      BY <2>1, <2>2, <2>4, <3>1
  <2>5. QED
    BY <1>24, <2>3, <2>4 DEF Settled
<1>25. CASE UNCHANGED rowVars
  BY <1>25 DEF rowVars
<1>26. QED
  BY <1>2, <1>3, <1>4, <1>5, <1>6, <1>7, <1>8, <1>9, <1>10, <1>11, <1>12, <1>13, <1>14, <1>15, <1>16,
     <1>17, <1>18, <1>20, <1>21, <1>22, <1>23, <1>24, <1>25 DEF RowsNext, RowsUser, RowsSystem

\* Until it is heard, the end of the connection is on its way.
LEMMA GoneToldStep == ASSUME RowsType, GoneTold, [RowsNext]_rowVars PROVE GoneTold'
<1>1. told \in Seq(ConnEvent) /\ DOMAIN told = 1 .. Len(told) /\ Len(told) \in Nat
  BY InRange DEF RowsType
<1>2. ASSUME NEW e \in ConnEvent, told' = Append(told, e), conn' = "gone" => conn = "gone" \/ e.kind = "gone", tab' = tab
      PROVE  GoneTold'
  <2>1. /\ told' \in Seq(ConnEvent) /\ Len(told') = Len(told) + 1 /\ told'[Len(told) + 1] = e
        /\ \A k \in 1 .. Len(told) : told'[k] = told[k]
    BY <1>1, <1>2, AppendProperties
  <2>2. DOMAIN told' = 1 .. Len(told) + 1
    BY <2>1, LenProperties
  <2>3. CASE conn' = "gone" /\ e.kind = "gone"
    <3>1. Len(told) + 1 \in DOMAIN told'
      BY <1>1, <2>2
    <3>2. QED
      BY <2>1, <2>3, <3>1 DEF GoneTold
  <2>4. CASE conn = "gone" /\ tab \in {"waiting", "connected"}
    <3>1. PICK k \in 1 .. Len(told) : told[k].kind = "gone"
      BY <1>1, <2>4 DEF GoneTold
    <3>2. k \in DOMAIN told' /\ told'[k].kind = "gone"
      BY <1>1, <2>1, <2>2, <3>1
    <3>3. QED
      BY <3>2 DEF GoneTold
  <2>5. QED
    BY <1>2, <2>3, <2>4 DEF GoneTold
<1>3. ASSUME told # <<>>, told' = Tail(told), UNCHANGED conn, tab' = tab \/ told[1].kind # "gone" \/ tab' \notin {"waiting", "connected"},
             tab \notin {"waiting", "connected"} => tab' = tab, told[1].kind = "gone" => tab' \notin {"waiting", "connected"}
      PROVE  GoneTold'
  <2>1. CASE conn' = "gone" /\ tab' \in {"waiting", "connected"}
    <3>1. tab \in {"waiting", "connected"}
      BY <1>3, <2>1
    <3>2. PICK k \in 1 .. Len(told) : told[k].kind = "gone"
      BY <1>1, <1>3, <2>1, <3>1 DEF GoneTold
    <3>3. k # 1
      BY <1>3, <2>1, <3>2
    <3>4. k - 1 \in 1 .. Len(told) - 1 /\ (k - 1) + 1 = k
      BY <1>1, <3>3
    <3>5. told'[k - 1] = told[k] /\ DOMAIN told' = 1 .. Len(told) - 1
      BY <1>1, <1>3, <3>4, TailIs, LenProperties
    <3>6. QED
      BY <3>2, <3>4, <3>5 DEF GoneTold
  <2>2. QED
    BY <2>1 DEF GoneTold
<1>4. ASSUME UNCHANGED <<conn, told>>, tab' = tab \/ tab' = "none" PROVE GoneTold'
  BY <1>4 DEF GoneTold
<1>5. CASE LinkUp
  BY <1>2, <1>5, AnyTopicIs, EventIs DEF LinkUp
<1>6. CASE LinkLost
  BY <1>2, <1>6, AnyTopicIs, EventIs DEF LinkLost
<1>7. CASE LinkGone
  BY <1>2, <1>7, AnyTopicIs, EventIs DEF LinkGone
<1>8. ASSUME NEW t \in Topics, Dropped(t) PROVE GoneTold'
  BY <1>2, <1>8, EventIs DEF Dropped
<1>9. CASE HearState
  <2>1. tab \in {"none", "closed"} => tab' = tab
    BY <1>9 DEF HearState
  <2>2. told[1].kind = "gone" /\ tab \notin {"none", "closed"} => tab' = "closed"
    BY <1>9 DEF HearState
  <2>3. QED
    BY <1>3, <1>9, <2>1, <2>2 DEF HearState, Take, RowsType
<1>10. CASE HearDropped
  BY <1>3, <1>10 DEF HearDropped, Take
<1>11. ASSUME NEW i \in DOMAIN rpcs,
              \/ DoSubscribe(i) \/ DoUnsubscribe(i) \/ Fail(i) \/ DoList(i) \/ ListFails(i)
              \/ Added(i) \/ Removed(i) \/ RemoveFailed(i) \/ Checked(i)
              \/ SubscribedAgain(i) \/ AgainFailed(i) \/ Settled(i)
       PROVE  UNCHANGED <<conn, told>> /\ tab' = tab
  BY <1>11 DEF DoSubscribe, DoUnsubscribe, Fail, DoList, ListFails, Added, Removed, RemoveFailed, Checked,
               SubscribedAgain, AgainFailed, Settled, connVars
<1>12. ASSUME \/ \E t \in Topics : Renewed(t) \/ AddSubscription(t)
              \/ (\E r \in Range(rows) : RemoveSubscription(r)) \/ LeaveTab \/ UNCHANGED rowVars
       PROVE  UNCHANGED <<conn, told>> /\ (tab' = tab \/ tab' = "none")
  BY <1>12 DEF Renewed, AddSubscription, RemoveSubscription, LeaveTab, connVars, rowVars
<1>13. QED
  BY <1>4, <1>5, <1>6, <1>7, <1>8, <1>9, <1>10, <1>11, <1>12 DEF RowsNext, RowsUser, RowsSystem
-----------------------------------------------------------------------------
(* Rows: events.                                                           *)

\* The parts of what is right, for the state at hand.
Right == RowsRight(rows, ids, again, rpcs, subs, told)

LEMMA RightIs ==
  ASSUME Right
  PROVE  /\ RowsOnce(rows, ids) /\ Ordered(rpcs)
         /\ \A c \in Range(rpcs) :
               /\ CallTrue(c, rows, ids, told) /\ AddTrue(c, rows, rpcs, subs, told)
               /\ AgainFirst(c, rows, rpcs, subs, told)
               /\ RemoveTrue(c, rows, subs) /\ OffTrue(c, rows, subs)
         /\ AgainTrue(rows, ids, again, rpcs, subs, told) /\ DropsTrue(rpcs, subs, told)
         /\ SubsShown(rows, rpcs, subs) /\ RowsMeant(rows, again, rpcs, subs, told)
         /\ LoopGoesOn(again, rpcs)
BY DEF Right, RowsRight, CallsTrue

\* An event is sent, and what it says of dropped topics is true.
LEMMA EventComes ==
  ASSUME RowsType, Right, NEW e \in ConnEvent, told' = Append(told, e),
         UNCHANGED <<rows, ids, again, rpcs>>, subs' \subseteq subs,
         \A t : (e.kind = "dropped" /\ e.topic = t) <=> t \in subs \ subs'
  PROVE  Right'
<1>1. PICK n \in Nat : n = Len(told) /\ DOMAIN told = 1 .. n
  BY LenProperties DEF RowsType
<1>2. DOMAIN told' = 1 .. n + 1 /\ Len(told') = n + 1 /\ told'[n + 1] = e
      /\ \A k \in 1 .. n : told'[k] = told[k]
  <2>1. /\ told' \in Seq(ConnEvent) /\ Len(told') = Len(told) + 1 /\ told'[Len(told) + 1] = e
        /\ \A k \in 1 .. Len(told) : told'[k] = told[k]
    BY AppendProperties DEF RowsType
  <2>2. QED
    BY <1>1, <2>1, LenProperties
<1>3. ASSUME NEW k \in 1 .. n + 1, NEW t
      PROVE  DroppedAt(told', k, t) <=> \/ k \in 1 .. n /\ DroppedAt(told, k, t)
                                        \/ k = n + 1 /\ t \in subs \ subs'
  <2>1. CASE k = n + 1
    BY <1>2, <2>1 DEF DroppedAt
  <2>2. CASE k # n + 1
    <3>1. k \in 1 .. n
      BY <2>2
    <3>2. QED
      BY <1>2, <2>2, <3>1 DEF DroppedAt
  <2>3. QED
    BY <2>1, <2>2
<1>4. ASSUME NEW t PROVE DropComes(told', t) <=> DropComes(told, t) \/ t \in subs \ subs'
  <2>1. \A k : k \in 1 .. n + 1 <=> (k \in 1 .. n \/ k = n + 1)
    OBVIOUS
  <2>2. QED
    BY <1>1, <1>2, <1>3, <2>1 DEF DropComes
<1>5. ASSUME NEW c \in Range(rpcs)
      PROVE  /\ CallTrue(c, rows, ids, told') /\ AddTrue(c, rows, rpcs, subs', told')
             /\ AgainFirst(c, rows, rpcs, subs', told')
             /\ RemoveTrue(c, rows, subs') /\ OffTrue(c, rows, subs')
  <2>0. c \in RpcType
    BY InRange DEF RowsType
  <2>1. CallTrue(c, rows, ids, told')
    <3>1. CallTrue(c, rows, ids, told)
      BY RightIs
    <3>2. c.behind <= n => c.behind <= n + 1
      BY <2>0 DEF RpcType
    <3>3. QED
      BY <1>1, <1>2, <3>1, <3>2 DEF CallTrue
  <2>2. AddTrue(c, rows, rpcs, subs', told')
    <3>1. AddTrue(c, rows, rpcs, subs, told) /\ c.behind \in Nat /\ c.behind <= n
      BY <1>1, <2>0, RightIs DEF RpcType, CallTrue
    <3>2. ASSUME c.op = "add", c.at = "called", NEW k \in 1 .. n + 1, DroppedAt(told', k, c.topic)
          PROVE  k <= c.behind
      <4>1. c.topic \notin subs
        BY <3>1, <3>2 DEF AddTrue
      <4>2. k \in 1 .. n /\ DroppedAt(told, k, c.topic)
        BY <1>3, <3>2, <4>1
      <4>3. QED
        BY <1>1, <3>1, <3>2, <4>2 DEF AddTrue
    <3>3. ASSUME c.op = "add", c.at = "answered", ~c.dropped, c.ok, c.topic \notin subs'
          PROVE  \E k \in 1 .. n + 1 : k > c.behind /\ DroppedAt(told', k, c.topic)
      <4>1. CASE c.topic \in subs
        <5>1. DroppedAt(told', n + 1, c.topic) /\ n + 1 > c.behind /\ n + 1 \in 1 .. n + 1
          BY <1>3, <3>1, <3>3, <4>1
        <5>2. QED
          BY <5>1
      <4>2. CASE c.topic \notin subs
        <5>1. PICK k \in 1 .. n : k > c.behind /\ DroppedAt(told, k, c.topic)
          BY <1>1, <3>1, <3>3, <4>2 DEF AddTrue
        <5>2. k \in 1 .. n + 1
          OBVIOUS
        <5>3. QED
          BY <1>3, <5>1, <5>2
      <4>3. QED
        BY <4>1, <4>2
    <3>4. c.op = "add" => /\ c.topic \notin TopicsOf(rows)
                          /\ c.at = "called" => c.topic \notin subs /\ ~c.dropped
                          /\ c.at = "answered" =>
                               /\ ~\E d \in Range(rpcs) : Of(d, "remove", "called") /\ d.topic = c.topic
                               /\ c.dropped \/ ~c.ok => c.topic \notin subs
      BY <3>1 DEF AddTrue
    <3>5. QED
      BY <1>2, <3>2, <3>3, <3>4 DEF AddTrue
  <2>3. AgainFirst(c, rows, rpcs, subs', told')
    <3>1. AgainFirst(c, rows, rpcs, subs, told)
      BY RightIs
    <3>2. QED
      BY <1>4, <3>1 DEF AgainFirst
  <2>4. RemoveTrue(c, rows, subs') /\ OffTrue(c, rows, subs')
    <3>1. RemoveTrue(c, rows, subs) /\ OffTrue(c, rows, subs)
      BY RightIs
    <3>2. QED
      BY <3>1 DEF RemoveTrue, OffTrue
  <2>5. QED
    BY <2>1, <2>2, <2>3, <2>4
<1>6. CallsTrue(rows, ids, rpcs, subs', told')
  BY <1>5 DEF CallsTrue
<1>7. AgainTrue(rows, ids, again, rpcs, subs', told')
  <2>1. AgainTrue(rows, ids, again, rpcs, subs, told)
    BY RightIs
  <2>2. ASSUME NEW r \in Range(again) \cap Range(rows)
        PROVE  r.topic \notin subs' /\ ~DropComes(told', r.topic)
    BY <1>4, <2>1 DEF AgainTrue
  <2>3. QED
    BY <2>1, <2>2 DEF AgainTrue
<1>8. DropsTrue(rpcs, subs', told')
  <2>1. ASSUME NEW k \in 1 .. n + 1, NEW t \in subs', DroppedAt(told', k, t)
        PROVE  \E c \in Range(rpcs) : c.op = "add" /\ c.topic = t /\ k <= c.behind
    <3>1. k \in 1 .. n /\ DroppedAt(told, k, t) /\ t \in subs
      BY <1>3, <2>1
    <3>2. QED
      BY <1>1, <3>1, RightIs DEF DropsTrue
  <2>2. QED
    BY <1>2, <2>1 DEF DropsTrue
<1>9. SubsShown(rows, rpcs, subs')
  <2>1. SubsShown(rows, rpcs, subs)
    BY RightIs
  <2>2. QED
    BY <2>1 DEF SubsShown
<1>10. RowsMeant(rows, again, rpcs, subs', told')
  <2>1. RowsMeant(rows, again, rpcs, subs, told)
    BY RightIs
  <2>2. QED
    BY <1>4, <2>1 DEF RowsMeant
<1>11. RowsOnce(rows, ids) /\ Ordered(rpcs) /\ LoopGoesOn(again, rpcs)
  BY RightIs
<1>12. RowsRight(rows, ids, again, rpcs, subs', told')
  BY <1>6, <1>7, <1>8, <1>9, <1>10, <1>11 DEF RowsRight
<1>13. QED
  BY <1>12 DEF Right

LEMMA LinkUpKeeps == ASSUME RowsType, Right, LinkUp PROVE Right'
<1>1. Event("connected", AnyTopic) \in ConnEvent /\ Event("connected", AnyTopic).kind = "connected"
  BY AnyTopicIs, EventIs
<1>2. told' = Append(told, Event("connected", AnyTopic)) /\ UNCHANGED <<rows, ids, again, rpcs, subs>>
  BY DEF LinkUp
<1>3. QED
  BY <1>1, <1>2, EventComes
LEMMA LinkLostKeeps == ASSUME RowsType, Right, LinkLost PROVE Right'
<1>1. Event("lost", AnyTopic) \in ConnEvent /\ Event("lost", AnyTopic).kind = "lost"
  BY AnyTopicIs, EventIs
<1>2. told' = Append(told, Event("lost", AnyTopic)) /\ UNCHANGED <<rows, ids, again, rpcs, subs>>
  BY DEF LinkLost
<1>3. QED
  BY <1>1, <1>2, EventComes
LEMMA DroppedKeeps == ASSUME RowsType, Right, NEW t \in Topics, Dropped(t) PROVE Right'
<1>1. Event("dropped", t) \in ConnEvent /\ Event("dropped", t).kind = "dropped" /\ Event("dropped", t).topic = t
  BY EventIs
<1>2. told' = Append(told, Event("dropped", t)) /\ UNCHANGED <<rows, ids, again, rpcs>>
      /\ subs' = subs \ {t} /\ t \in subs
  BY DEF Dropped, RowsType
<1>3. QED
  BY <1>1, <1>2, EventComes
-----------------------------------------------------------------------------
(* Rows: the backend carries out a call.                                   *)

\* How Ordered looks as a property of pairs.
FollowPairs == {p \in RpcType \X RpcType : Follows(p[1], p[2])}
LEMMA OrderedIs ==
  ASSUME NEW cs \in Seq(RpcType)
  PROVE  Ordered(cs) <=> Pairwise(cs, FollowPairs)
<1>1. DOMAIN cs = 1 .. Len(cs) /\ \A i \in 1 .. Len(cs) : cs[i] \in RpcType
  BY LenProperties, ElementOfSeq
<1>2. ASSUME NEW i \in 1 .. Len(cs), NEW j \in 1 .. Len(cs)
      PROVE  <<cs[i], cs[j]>> \in FollowPairs <=> Follows(cs[i], cs[j])
  <2>1. cs[i] \in RpcType /\ cs[j] \in RpcType
    BY <1>1
  <2>2. QED
    BY <2>1 DEF FollowPairs
<1>3. QED
  BY <1>1, <1>2 DEF Ordered, Pairwise

\* Calls of which one has been answered: who is among them, and in which order.
LEMMA TurnedIs ==
  ASSUME NEW cs \in Seq(RpcType), NEW new, NEW i \in 1 .. Len(cs), Turned(cs, new, i),
         new[i].at = "answered"
  PROVE  /\ Ordered(cs) => Ordered(new)
         /\ \A c \in Range(new) : c = new[i] \/ \E j \in 1 .. Len(cs) : j # i /\ c = cs[j] /\ c \in Range(cs)
         /\ new[i] \in Range(new) /\ new[i] \in RpcType /\ Same(cs[i], new[i])
         /\ \A c \in Range(cs) : c = cs[i] \/ c \in Range(new)
<1>1. PICK n \in Nat : n = Len(cs) /\ DOMAIN cs = 1 .. n
  BY LenProperties
<1>2. /\ new \in Seq(RpcType) /\ DOMAIN new = 1 .. n /\ Same(cs[i], new[i])
      /\ \A j \in 1 .. n : j # i => new[j] = cs[j]
  BY <1>1, LenProperties DEF Turned
<1>3. /\ \A c : c \in Range(cs) <=> \E j \in 1 .. n : cs[j] = c
      /\ \A c : c \in Range(new) <=> \E j \in 1 .. n : new[j] = c
  BY <1>1, <1>2, InRange DEF Turned
<1>4. ASSUME Ordered(cs), NEW p \in 1 .. n, NEW q \in 1 .. n, p < q PROVE Follows(new[p], new[q])
  <2>1. Follows(cs[p], cs[q])
    BY <1>1, <1>4 DEF Ordered
  <2>2. /\ new[p].op = cs[p].op /\ new[p].topic = cs[p].topic
        /\ new[q].op = cs[q].op /\ new[q].topic = cs[q].topic
        /\ Of(new[q], "again", "called") => Of(cs[q], "again", "called")
    BY <1>2 DEF Same, Of
  <2>3. QED
    BY <2>1, <2>2 DEF Follows, Loop
<1>5. QED
  BY <1>1, <1>2, <1>3, <1>4, ElementOfSeq DEF Ordered

\* Of the calls about one topic that are not carried out the first is; then
\* what is subscribed and what is under way agree as before.
Carries(i) ==
    /\ rpcs[i].at = "called" /\ rpcs'[i].at = "answered" /\ rpcs'[i].here
    /\ \/ subs' = subs
       \/ rpcs[i].op \in {"add", "again"} /\ subs' = subs \cup {rpcs[i].topic}
       \/ rpcs[i].op = "remove" /\ subs' = subs \ {rpcs[i].topic}
    /\ rpcs[i].op \in {"add", "again"} =>
         (rpcs'[i].ok /\ rpcs[i].topic \in subs') \/ (~rpcs'[i].ok /\ subs' = subs)
    /\ rpcs[i].op = "remove" => rpcs[i].topic \notin subs' \/ ~rpcs'[i].ok
    /\ rpcs[i].op \in {"check", "settle"} =>
         rpcs'[i].ok /\ subs' = subs /\ rpcs'[i].has = (rpcs[i].topic \in subs)
    /\ rpcs[i].op \in {"add", "again", "remove"} => ~Overtakes(i)

LEMMA CallCarried ==
  ASSUME RowsType, Right, NEW i \in 1 .. Len(rpcs), Turned(rpcs, rpcs', i), Carries(i),
         UNCHANGED <<rows, ids, again, told>>
  PROVE  Right'
<1>1. PICK c \in RpcType : c = rpcs[i]
  BY ElementOfSeq DEF RowsType
<1>2. PICK d \in RpcType : d = rpcs'[i]
  BY TurnedIs DEF RowsType, Carries
<1>3. /\ c.at = "called" /\ d.at = "answered" /\ d.here /\ Same(c, d)
      /\ \/ subs' = subs
         \/ c.op \in {"add", "again"} /\ subs' = subs \cup {c.topic}
         \/ c.op = "remove" /\ subs' = subs \ {c.topic}
      /\ c.op \in {"add", "again"} => (d.ok /\ c.topic \in subs') \/ (~d.ok /\ subs' = subs)
      /\ c.op = "remove" => c.topic \notin subs' \/ ~d.ok
      /\ c.op \in {"check", "settle"} => d.ok /\ subs' = subs /\ d.has = (c.topic \in subs)
  BY <1>1, <1>2 DEF Carries, Turned
<1>4. PICK n \in Nat : n = Len(rpcs) /\ DOMAIN rpcs = 1 .. n /\ i \in 1 .. n
  BY LenProperties DEF RowsType
<1>5. /\ Ordered(rpcs')
      /\ \A e \in Range(rpcs') : e = d \/ \E j \in 1 .. n : j # i /\ e = rpcs[j] /\ e \in Range(rpcs)
      /\ d \in Range(rpcs') /\ \A e \in Range(rpcs) : e = c \/ e \in Range(rpcs')
  BY <1>1, <1>2, <1>3, <1>4, TurnedIs, RightIs DEF RowsType
<1>6. c \in Range(rpcs) /\ \A j \in 1 .. n : rpcs[j] \in Range(rpcs)
  BY <1>1, <1>4, InRange DEF RowsType
<1>7. /\ CallTrue(c, rows, ids, told) /\ AddTrue(c, rows, rpcs, subs, told)
      /\ AgainFirst(c, rows, rpcs, subs, told) /\ RemoveTrue(c, rows, subs) /\ OffTrue(c, rows, subs)
  BY <1>6, RightIs
<1>8. ASSUME NEW j \in 1 .. n, j # i, rpcs[j].topic = c.topic
      PROVE  /\ c.op \in {"add", "again", "remove"} /\ rpcs[j].at = "called" => i < j
             /\ ~(c.op = "add" /\ rpcs[j].op \in {"add"})
             /\ ~(c.op = "add" /\ rpcs[j].op = "remove" /\ rpcs[j].at = "called")
             /\ ~Of(rpcs[j], "again", "called")
  <2>1. c.op \in {"add", "again", "remove"} /\ rpcs[j].at = "called" => ~(j < i)
    <3>1. j < i => j \in 1 .. i - 1
      OBVIOUS
    <3>2. QED
      BY <1>1, <1>8, <3>1 DEF Carries, Overtakes
  <2>2. i < j \/ j < i
    BY <1>8
  <2>3. /\ i < j => Follows(c, rpcs[j])
        /\ j < i => Follows(rpcs[j], c)
    BY <1>1, <1>4, RightIs DEF Ordered
  <2>4. ~Of(rpcs[j], "again", "called")
    <3>1. CASE c.op \in {"add", "again", "remove"}
      BY <1>8, <2>1, <2>2, <2>3, <3>1 DEF Follows, Of
    <3>2. CASE c.op \notin {"add", "again", "remove"}
      <4>1. AgainFirst(rpcs[j], rows, rpcs, subs, told)
        BY <1>6, RightIs
      <4>2. QED
        BY <1>6, <1>8, <3>2, <4>1 DEF AgainFirst, Of
    <3>3. QED
      BY <3>1, <3>2
  <2>5. QED
    BY <1>8, <2>1, <2>2, <2>3, <2>4 DEF Follows
<1>9. ASSUME NEW j \in 1 .. n, j # i, rpcs[j].topic = c.topic, c.op = "again"
      PROVE  Of(rpcs[j], "remove", "called") /\ rpcs[j].row = c.row
  <2>1. rpcs[j] = c \/ (Of(rpcs[j], "remove", "called") /\ rpcs[j].row = c.row)
    BY <1>3, <1>6, <1>7, <1>9 DEF AgainFirst, Of
  <2>2. rpcs[j] # c
    BY <1>3, <1>8, <1>9 DEF Of
  <2>3. QED
    BY <2>1, <2>2
<1>10. \A t : t # c.topic => (t \in subs' <=> t \in subs)
  BY <1>3
<1>11. c.op = "again" => /\ c.topic \notin subs /\ ~DropComes(told, c.topic)
                         /\ \E r \in Range(rows) : r.id = c.row /\ r.topic = c.topic
  BY <1>3, <1>7 DEF AgainFirst, CallTrue, Of
<1>12. c.op = "add" => /\ c.topic \notin subs /\ c.topic \notin TopicsOf(rows) /\ ~c.dropped
                       /\ \A k \in DOMAIN told : DroppedAt(told, k, c.topic) => k <= c.behind
  BY <1>3, <1>7 DEF AddTrue
<1>13. \A r \in Range(rows) : r.topic \in TopicsOf(rows)
  BY DEF TopicsOf
<1>14. ASSUME NEW j \in 1 .. n, j # i, NEW e, e = rpcs[j]
       PROVE  /\ CallTrue(e, rows, ids, told) /\ AddTrue(e, rows, rpcs', subs', told)
              /\ AgainFirst(e, rows, rpcs', subs', told)
              /\ RemoveTrue(e, rows, subs') /\ OffTrue(e, rows, subs')
  <2>1. /\ CallTrue(e, rows, ids, told) /\ AddTrue(e, rows, rpcs, subs, told)
        /\ AgainFirst(e, rows, rpcs, subs, told)
        /\ RemoveTrue(e, rows, subs) /\ OffTrue(e, rows, subs)
    BY <1>6, <1>14, RightIs
  <2>2. AddTrue(e, rows, rpcs', subs', told)
    <3>1. ASSUME e.op = "add", NEW x \in Range(rpcs'), Of(x, "remove", "called"), x.topic = e.topic
          PROVE  x \in Range(rpcs)
      BY <1>3, <1>5, <3>1 DEF Of
    <3>2. ASSUME e.op = "add", e.topic = c.topic
          PROVE  /\ c.op \notin {"add", "again"}
                 /\ e.at = "answered" => c.op # "remove"
      <4>1. c.op \notin {"add", "again"}
        BY <1>8, <1>9, <1>14, <3>2 DEF Of
      <4>2. e.at = "answered" => c.op # "remove"
        BY <1>3, <1>6, <2>1, <3>2 DEF AddTrue, Of
      <4>3. QED
        BY <4>1, <4>2
    <3>3. ASSUME e.op = "add"
          PROVE  /\ e.topic \in subs' => e.topic \in subs
                 /\ e.at = "answered" => (e.topic \in subs => e.topic \in subs')
      BY <1>3, <1>10, <3>2, <3>3
    <3>4. QED
      BY <2>1, <3>1, <3>3 DEF AddTrue
  <2>3. AgainFirst(e, rows, rpcs', subs', told)
    <3>1. ASSUME Of(e, "again", "called")
          PROVE  e.topic # c.topic
      BY <1>8, <1>14, <3>1
    <3>2. ASSUME Of(e, "again", "called"), NEW x \in Range(rpcs'), x.topic = e.topic
          PROVE  x \in Range(rpcs)
      BY <1>3, <1>5, <3>1, <3>2 DEF Same
    <3>3. QED
      BY <1>10, <2>1, <3>1, <3>2 DEF AgainFirst
  <2>4. RemoveTrue(e, rows, subs')
    <3>1. ASSUME Of(e, "remove", "called"), e.topic \in subs', e.topic \notin subs
          PROVE  \E r \in Range(rows) : r.id = e.row
      <4>1. e.topic = c.topic /\ c.op \in {"add", "again"}
        BY <1>3, <3>1
      <4>2. c.op # "add"
        BY <1>8, <1>14, <3>1, <4>1 DEF Of
      <4>3. e.row = c.row
        BY <1>9, <1>14, <4>1, <4>2
      <4>4. QED
        BY <1>11, <4>1, <4>2, <4>3
    <3>2. QED
      BY <2>1, <3>1 DEF RemoveTrue
  <2>5. OffTrue(e, rows, subs')
    <3>1. ASSUME TakesOff(e), NEW r \in Range(rows), r.id = e.row, e.topic \in subs', e.topic \notin subs
          PROVE  FALSE
      <4>1. e.topic = c.topic /\ c.op \in {"add", "again"}
        BY <1>3, <3>1
      <4>2. r.topic = e.topic
        BY <2>1, <3>1 DEF CallTrue, TakesOff, Of
      <4>3. c.op # "add"
        BY <1>12, <1>13, <4>1, <4>2
      <4>4. QED
        BY <1>9, <1>14, <3>1, <4>1, <4>3 DEF TakesOff, Of
    <3>2. QED
      BY <2>1, <3>1 DEF OffTrue
  <2>6. QED
    BY <2>1, <2>2, <2>3, <2>4, <2>5
<1>15. /\ CallTrue(d, rows, ids, told) /\ AddTrue(d, rows, rpcs', subs', told)
       /\ AgainFirst(d, rows, rpcs', subs', told)
       /\ RemoveTrue(d, rows, subs') /\ OffTrue(d, rows, subs')
  <2>1. CallTrue(d, rows, ids, told)
    BY <1>3, <1>7 DEF CallTrue, Same
  <2>2. AddTrue(d, rows, rpcs', subs', told)
    <3>1. ASSUME c.op = "add", NEW x \in Range(rpcs'), Of(x, "remove", "called"), x.topic = c.topic
          PROVE  FALSE
      BY <1>3, <1>5, <1>8, <3>1 DEF Of
    <3>2. c.op = "add" => /\ ~d.ok => c.topic \notin subs'
                          /\ d.ok => c.topic \in subs'
      BY <1>3, <1>12
    <3>3. QED
      BY <1>3, <1>12, <3>1, <3>2 DEF AddTrue, Same
  <2>3. AgainFirst(d, rows, rpcs', subs', told) /\ RemoveTrue(d, rows, subs')
    BY <1>3 DEF AgainFirst, RemoveTrue, Of
  <2>4. OffTrue(d, rows, subs')
    BY <1>3 DEF OffTrue, TakesOff, Of, Same
  <2>5. QED
    BY <2>1, <2>2, <2>3, <2>4
<1>16. CallsTrue(rows, ids, rpcs', subs', told)
  BY <1>5, <1>14, <1>15 DEF CallsTrue
<1>17. AgainTrue(rows, ids, again, rpcs', subs', told)
  <2>1. AgainTrue(rows, ids, again, rpcs, subs, told)
    BY RightIs
  <2>2. ASSUME NEW r \in Range(again) \cap Range(rows)
        PROVE  /\ r.topic \notin subs'
               /\ \A e \in Range(rpcs') : e.topic = r.topic => e.op \in {"remove", "check"} /\ e.row = r.id
    <3>1. /\ r.topic \notin subs
          /\ \A e \in Range(rpcs) : e.topic = r.topic => e.op \in {"remove", "check"} /\ e.row = r.id
      BY <2>1, <2>2 DEF AgainTrue
    <3>2. r.topic \notin subs'
      <4>1. CASE r.topic = c.topic
        BY <1>3, <1>6, <3>1, <4>1
      <4>2. CASE r.topic # c.topic
        BY <1>10, <3>1, <4>2
      <4>3. QED
        BY <4>1, <4>2
    <3>3. \A e \in Range(rpcs') : e.topic = r.topic => e.op \in {"remove", "check"} /\ e.row = r.id
      BY <1>3, <1>5, <1>6, <3>1 DEF Same
    <3>4. QED
      BY <3>2, <3>3
  <2>3. QED
    BY <2>1, <2>2 DEF AgainTrue
<1>18. DropsTrue(rpcs', subs', told)
  <2>1. ASSUME NEW k \in DOMAIN told, NEW t \in subs', DroppedAt(told, k, t)
        PROVE  \E e \in Range(rpcs') : e.op = "add" /\ e.topic = t /\ k <= e.behind
    <3>1. CASE t \in subs
      <4>1. PICK e \in Range(rpcs) : e.op = "add" /\ e.topic = t /\ k <= e.behind
        BY <2>1, <3>1, RightIs DEF DropsTrue
      <4>2. QED
        BY <1>3, <1>5, <4>1 DEF Same
    <3>2. CASE t \notin subs
      <4>1. t = c.topic /\ c.op \in {"add", "again"}
        BY <1>3, <2>1, <3>2
      <4>2. c.op = "add"
        BY <1>11, <2>1, <4>1 DEF DropComes
      <4>3. QED
        BY <1>3, <1>5, <1>12, <2>1, <4>1, <4>2 DEF Same
    <3>3. QED
      BY <3>1, <3>2
  <2>2. QED
    BY <2>1 DEF DropsTrue
<1>19. SubsShown(rows, rpcs', subs')
  <2>1. ASSUME NEW t \in subs', t \notin TopicsOf(rows) PROVE \E e \in Range(rpcs') : WillShow(e, t)
    <3>1. CASE t \in subs
      <4>1. PICK e \in Range(rpcs) : WillShow(e, t)
        BY <2>1, <3>1, RightIs DEF SubsShown
      <4>2. QED
        BY <1>3, <1>5, <4>1 DEF WillShow, Of
    <3>2. CASE t \notin subs
      <4>1. t = c.topic /\ c.op \in {"add", "again"}
        BY <1>3, <2>1, <3>2
      <4>2. c.op = "add"
        BY <1>11, <1>13, <2>1, <4>1
      <4>3. d.ok
        BY <1>3, <2>1, <3>2, <4>1
      <4>4. WillShow(d, t)
        BY <1>3, <1>12, <4>1, <4>2, <4>3 DEF WillShow, Of, Same
      <4>5. QED
        BY <1>5, <4>4
    <3>3. QED
      BY <3>1, <3>2
  <2>2. QED
    BY <2>1 DEF SubsShown
<1>20. RowsMeant(rows, again, rpcs', subs', told)
  <2>1. ASSUME NEW r \in Range(rows), r.topic \notin subs', ~DropComes(told, r.topic), r \notin Range(again)
        PROVE  \E e \in Range(rpcs') : Decides(e) /\ e.row = r.id
    <3>1. CASE r.topic \in subs
      <4>1. c.op = "remove" /\ c.topic = r.topic
        BY <1>3, <2>1, <3>1
      <4>2. PICK q \in Range(rows) : q.id = c.row
        BY <1>3, <1>7, <3>1, <4>1 DEF RemoveTrue, Of
      <4>3. q.topic = r.topic
        BY <1>7, <4>1, <4>2 DEF CallTrue
      <4>4. q = r
        BY <2>1, <4>2, <4>3, InRange, RightIs DEF RowsOnce, RowsType
      <4>5. Decides(d) /\ d.row = r.id
        BY <1>3, <4>1, <4>2, <4>4 DEF Decides, Of, Same
      <4>6. QED
        BY <1>5, <4>5
    <3>2. CASE r.topic \notin subs
      <4>1. PICK e \in Range(rpcs) : Decides(e) /\ e.row = r.id /\ e.op # "add"
        BY <2>1, <3>2, RightIs DEF RowsMeant, Decides, Of
      <4>2. CASE e # c
        BY <1>5, <4>1, <4>2
      <4>3. CASE e = c
        <5>1. r.topic = c.topic
          BY <1>7, <2>1, <4>1, <4>3 DEF CallTrue
        <5>2. Decides(d) /\ d.row = r.id
          <6>1. CASE c.op = "again"
            BY <1>3, <2>1, <4>1, <4>3, <5>1, <6>1 DEF Decides, Of, Same
          <6>2. CASE c.op \in {"check", "settle"}
            BY <1>3, <3>2, <4>1, <4>3, <5>1, <6>2 DEF Decides, Of, Same
          <6>3. CASE c.op \notin {"again", "check", "settle"}
            BY <1>3, <4>1, <4>3, <6>3 DEF Decides, Of
          <6>4. QED
            BY <6>1, <6>2, <6>3
        <5>3. QED
          BY <1>5, <5>2
      <4>4. QED
        BY <4>2, <4>3
    <3>3. QED
      BY <3>1, <3>2
  <2>2. QED
    BY <2>1 DEF RowsMeant
<1>21. LoopGoesOn(again, rpcs')
  <2>1. LoopGoesOn(again, rpcs)
    BY RightIs
  <2>2. QED
    BY <1>3, <1>5, <2>1 DEF LoopGoesOn, Loop, Same
<1>22. RowsRight(rows, ids, again, rpcs', subs', told)
  BY <1>5, <1>16, <1>17, <1>18, <1>19, <1>20, <1>21, RightIs DEF RowsRight
<1>23. QED
  BY <1>22 DEF Right
-----------------------------------------------------------------------------
(* Rows: calls made and ended, rows made and taken off.                    *)

\* The parts that say what may not be; what is left of them when something goes.
Steady(rs, n, ag, cs, S, evs) ==
    RowsOnce(rs, n) /\ Ordered(cs) /\ CallsTrue(rs, n, cs, S, evs) /\ AgainTrue(rs, n, ag, cs, S, evs)
CallGood(c, rs, n, cs, S, evs) ==
    /\ CallTrue(c, rs, n, evs) /\ AddTrue(c, rs, cs, S, evs) /\ AgainFirst(c, rs, cs, S, evs)
    /\ RemoveTrue(c, rs, S) /\ OffTrue(c, rs, S)

LEMMA SteadyIs ==
  ASSUME NEW rs, NEW n, NEW ag, NEW cs, NEW S, NEW evs, Steady(rs, n, ag, cs, S, evs)
  PROVE  /\ RowsOnce(rs, n) /\ Ordered(cs) /\ AgainTrue(rs, n, ag, cs, S, evs)
         /\ \A c \in Range(cs) : CallGood(c, rs, n, cs, S, evs)
BY DEF Steady, CallsTrue, CallGood

LEMMA RightSteady == ASSUME Right PROVE Steady(rows, ids, again, rpcs, subs, told)
BY DEF Right, RowsRight, Steady

\* With fewer calls about, those that are left are as right as before.
LEMMA FewerCalls ==
  ASSUME NEW rs, NEW n, NEW cs, NEW new, NEW S, NEW evs, NEW c,
         Range(new) \subseteq Range(cs), CallGood(c, rs, n, cs, S, evs)
  PROVE  CallGood(c, rs, n, new, S, evs)
<1>1. AddTrue(c, rs, new, S, evs)
  BY DEF CallGood, AddTrue
<1>2. AgainFirst(c, rs, new, S, evs)
  BY DEF CallGood, AgainFirst
<1>3. QED
  BY <1>1, <1>2 DEF CallGood

\* A call ends.
LEMMA CallEnds ==
  ASSUME NEW rs, NEW n, NEW ag, NEW cs \in Seq(RpcType), NEW S, NEW evs, NEW i \in 1 .. Len(cs),
         Steady(rs, n, ag, cs, S, evs)
  PROVE  Steady(rs, n, ag, RemoveAt(cs, i), S, evs)
<1>1. PICK new \in Seq(RpcType) : new = RemoveAt(cs, i) /\ Range(new) \subseteq Range(cs)
  BY TakenOutRange
<1>2. Ordered(new)
  BY <1>1, OrderedIs, TakenOutPairwise, SteadyIs
<1>3. CallsTrue(rs, n, new, S, evs)
  BY <1>1, SteadyIs, FewerCalls DEF CallsTrue, CallGood
<1>4. AgainTrue(rs, n, ag, new, S, evs)
  BY <1>1, SteadyIs DEF AgainTrue
<1>5. QED
  BY <1>1, <1>2, <1>3, <1>4, SteadyIs DEF Steady

\* A call is made.
LEMMA CallMade ==
  ASSUME NEW rs, NEW n, NEW ag, NEW cs \in Seq(RpcType), NEW S, NEW evs, NEW d \in RpcType,
         Steady(rs, n, ag, cs, S, evs),
         \A c \in Range(cs) :
            /\ Follows(c, d)
            /\ Of(c, "again", "called") /\ d.topic = c.topic => Of(d, "remove", "called") /\ d.row = c.row,
         \A r \in Range(ag) \cap Range(rs) : d.topic = r.topic => d.op \in {"remove", "check"} /\ d.row = r.id,
         CallGood(d, rs, n, Append(cs, d), S, evs)
  PROVE  Steady(rs, n, ag, Append(cs, d), S, evs)
<1>1. PICK new \in Seq(RpcType) : new = Append(cs, d) /\ Range(new) = Range(cs) \cup {d}
  BY RangeAppend, AppendProperties
<1>2. Ordered(new)
  <2>1. \A c \in Range(cs) : <<c, d>> \in FollowPairs
    <3>1. \A c \in Range(cs) : c \in RpcType
      BY InRange
    <3>2. QED
      BY <3>1 DEF FollowPairs
  <2>2. Pairwise(cs, FollowPairs)
    BY OrderedIs, SteadyIs
  <2>3. Pairwise(new, FollowPairs)
    BY <1>1, <2>1, <2>2, AppendPairwise
  <2>4. QED
    BY <2>3, OrderedIs
<1>3. ASSUME NEW c \in Range(cs) PROVE CallGood(c, rs, n, new, S, evs)
  <2>1. CallGood(c, rs, n, cs, S, evs)
    BY SteadyIs
  <2>2. AddTrue(c, rs, new, S, evs)
    <3>1. c.op = "add" => ~ (Of(d, "remove", "called") /\ d.topic = c.topic)
      BY DEF Follows, Of
    <3>2. AddTrue(c, rs, cs, S, evs)
      BY <2>1 DEF CallGood
    <3>3. QED
      BY <1>1, <3>1, <3>2 DEF AddTrue
  <2>3. AgainFirst(c, rs, new, S, evs)
    <3>1. AgainFirst(c, rs, cs, S, evs)
      BY <2>1 DEF CallGood
    <3>2. QED
      BY <1>1, <3>1 DEF AgainFirst
  <2>4. QED
    BY <2>1, <2>2, <2>3 DEF CallGood
<1>4. CallsTrue(rs, n, new, S, evs)
  <2>1. \A c \in Range(new) : CallGood(c, rs, n, new, S, evs)
    BY <1>1, <1>3
  <2>2. QED
    BY <2>1 DEF CallsTrue, CallGood
<1>5. AgainTrue(rs, n, ag, new, S, evs)
  <2>1. AgainTrue(rs, n, ag, cs, S, evs)
    BY SteadyIs
  <2>2. QED
    BY <1>1, <2>1 DEF AgainTrue
<1>6. QED
  BY <1>1, <1>2, <1>4, <1>5, SteadyIs DEF Steady

\* How RowsOnce looks as a property of pairs, and of the rows themselves.
ApartPairs == {p \in Row \X Row : p[1].id # p[2].id /\ p[1].topic # p[2].topic}
LEMMA RowsOnceIs ==
  ASSUME NEW rs \in Seq(Row), NEW n
  PROVE  RowsOnce(rs, n) <=> Pairwise(rs, ApartPairs) /\ \A r \in Range(rs) : r.id <= n
<1>1. PICK m \in Nat : m = Len(rs) /\ DOMAIN rs = 1 .. m
  BY LenProperties
<1>2. ASSUME NEW i \in 1 .. m, NEW j \in 1 .. m
      PROVE  <<rs[i], rs[j]>> \in ApartPairs <=> rs[i].id # rs[j].id /\ rs[i].topic # rs[j].topic
  <2>1. rs[i] \in Row /\ rs[j] \in Row
    BY <1>1, ElementOfSeq
  <2>2. QED
    BY <2>1 DEF ApartPairs
<1>3. ASSUME Pairwise(rs, ApartPairs), NEW i \in 1 .. m, NEW j \in 1 .. m,
             rs[i].id = rs[j].id \/ rs[i].topic = rs[j].topic
      PROVE  i = j
  <2>1. ~ (i < j)
    BY <1>1, <1>2, <1>3 DEF Pairwise
  <2>2. ~ (j < i)
    BY <1>1, <1>2, <1>3 DEF Pairwise
  <2>3. QED
    BY <2>1, <2>2
<1>4. ASSUME \A i, j \in 1 .. m : rs[i].id = rs[j].id \/ rs[i].topic = rs[j].topic => i = j
      PROVE  Pairwise(rs, ApartPairs)
  <2>1. ASSUME NEW i \in 1 .. m, NEW j \in 1 .. m, i < j PROVE <<rs[i], rs[j]>> \in ApartPairs
    <3>1. i # j
      BY <2>1
    <3>2. QED
      BY <1>2, <1>4, <3>1
  <2>2. QED
    BY <1>1, <2>1 DEF Pairwise
<1>5. QED
  BY <1>1, <1>3, <1>4 DEF RowsOnce

LEMMA RowsApart ==
  ASSUME NEW rs \in Seq(Row), NEW n, RowsOnce(rs, n), NEW r \in Range(rs), NEW q \in Range(rs),
         r.id = q.id \/ r.topic = q.topic
  PROVE  r = q
<1>1. PICK i \in DOMAIN rs, j \in DOMAIN rs : r = rs[i] /\ q = rs[j]
  BY DEF Range
<1>2. QED
  BY <1>1 DEF RowsOnce

\* Rows are taken off whose topics are not subscribed.
LEMMA RowGoes ==
  ASSUME NEW rs \in Seq(Row), NEW n, NEW ag, NEW cs \in Seq(RpcType), NEW S, NEW evs, NEW K,
         Steady(rs, n, ag, cs, S, evs),
         \A r \in Range(rs) \ K :
            r.topic \notin S /\ \A c \in Range(cs) : Of(c, "again", "called") => c.row # r.id
  PROVE  Steady(Only(rs, K), n, ag, cs, S, evs)
<1>1. PICK new \in Seq(Row) : new = Only(rs, K) /\ Range(new) = Range(rs) \cap K
  BY OnlyRange
<1>2. RowsOnce(new, n)
  <2>1. Pairwise(rs, ApartPairs) /\ \A r \in Range(rs) : r.id <= n
    BY SteadyIs, RowsOnceIs
  <2>2. Pairwise(new, ApartPairs) /\ \A r \in Range(new) : r.id <= n
    BY <1>1, <2>1, OnlyPairwise
  <2>3. QED
    BY <2>2, RowsOnceIs
<1>3. ASSUME NEW c \in Range(cs) PROVE CallGood(c, new, n, cs, S, evs)
  <2>1. CallGood(c, rs, n, cs, S, evs)
    BY SteadyIs
  <2>2. CallTrue(c, new, n, evs)
    BY <1>1, <2>1 DEF CallGood, CallTrue
  <2>3. AddTrue(c, new, cs, S, evs)
    <3>1. TopicsOf(new) \subseteq TopicsOf(rs)
      BY <1>1 DEF TopicsOf
    <3>2. AddTrue(c, rs, cs, S, evs)
      BY <2>1 DEF CallGood
    <3>3. QED
      BY <3>1, <3>2 DEF AddTrue
  <2>4. AgainFirst(c, new, cs, S, evs)
    <3>1. AgainFirst(c, rs, cs, S, evs)
      BY <2>1 DEF CallGood
    <3>2. QED
      BY <1>1, <3>1 DEF AgainFirst
  <2>5. RemoveTrue(c, new, S)
    <3>1. ASSUME Of(c, "remove", "called"), c.topic \in S PROVE \E r \in Range(new) : r.id = c.row
      <4>1. PICK r \in Range(rs) : r.id = c.row
        BY <2>1, <3>1 DEF CallGood, RemoveTrue
      <4>2. r.topic = c.topic
        BY <2>1, <3>1, <4>1 DEF CallGood, CallTrue, Of
      <4>3. QED
        BY <1>1, <3>1, <4>1, <4>2
    <3>2. QED
      BY <3>1 DEF RemoveTrue
  <2>6. OffTrue(c, new, S)
    BY <1>1, <2>1 DEF CallGood, OffTrue
  <2>7. QED
    BY <2>2, <2>3, <2>4, <2>5, <2>6 DEF CallGood
<1>4. CallsTrue(new, n, cs, S, evs)
  BY <1>3 DEF CallsTrue, CallGood
<1>5. AgainTrue(new, n, ag, cs, S, evs)
  <2>1. AgainTrue(rs, n, ag, cs, S, evs)
    BY SteadyIs
  <2>2. QED
    BY <1>1, <2>1 DEF AgainTrue
<1>6. QED
  BY <1>1, <1>2, <1>4, <1>5, SteadyIs DEF Steady

\* A row is made, with a number of its own.
LEMMA RowMade ==
  ASSUME NEW rs \in Seq(Row), NEW n \in Nat, NEW ag \in Seq(Row), NEW cs \in Seq(RpcType), NEW S, NEW evs,
         NEW t \in Topics, Steady(rs, n, ag, cs, S, evs), t \notin TopicsOf(rs),
         \A c \in Range(cs) : ~ (c.op = "add" /\ c.topic = t)
  PROVE  Steady(Append(rs, [id |-> n + 1, topic |-> t]), n + 1, ag, cs, S, evs)
<1>0. n + 1 \in Nat \ {0}
  OBVIOUS
<1>1. PICK w \in Row : w = [id |-> n + 1, topic |-> t]
  BY <1>0 DEF Row
<1>2. w.id = n + 1 /\ w.topic = t
  BY <1>1
<1>3. PICK new \in Seq(Row) : new = Append(rs, w) /\ Range(new) = Range(rs) \cup {w}
  <2>1. Append(rs, w) \in Seq(Row) /\ Range(Append(rs, w)) = Range(rs) \cup {w}
    BY RangeAppend, AppendProperties
  <2>2. QED
    BY <2>1
<1>4. /\ \A r \in Range(rs) : r \in Row /\ r.id \in Nat /\ r.id <= n
      /\ \A r \in Range(ag) : r \in Row /\ r.id \in Nat /\ r.id <= n
  <2>1. \A r \in Range(rs) \cup Range(ag) : r \in Row
    BY InRange
  <2>2. \A r \in Row : r.id \in Nat
    BY DEF Row
  <2>3. \A r \in Range(rs) : r.id <= n
    BY SteadyIs DEF RowsOnce
  <2>4. \A r \in Range(ag) : r.id <= n
    BY SteadyIs DEF AgainTrue
  <2>5. QED
    BY <2>1, <2>2, <2>3, <2>4
<1>5. RowsOnce(new, n + 1)
  <2>1. ASSUME NEW r \in Range(rs) PROVE <<r, w>> \in ApartPairs
    <3>1. r.id # w.id
      BY <1>2, <1>4
    <3>2. r.topic # w.topic
      BY <1>2 DEF TopicsOf
    <3>3. QED
      BY <1>4, <3>1, <3>2 DEF ApartPairs
  <2>2. Pairwise(rs, ApartPairs)
    BY SteadyIs, RowsOnceIs
  <2>3. Pairwise(new, ApartPairs)
    BY <1>3, <2>1, <2>2, AppendPairwise
  <2>4. \A r \in Range(new) : r.id <= n + 1
    BY <1>2, <1>3, <1>4
  <2>5. QED
    BY <2>3, <2>4, RowsOnceIs
<1>6. ASSUME NEW c \in Range(cs) PROVE CallGood(c, new, n + 1, cs, S, evs)
  <2>1. CallGood(c, rs, n, cs, S, evs)
    BY SteadyIs
  <2>2. c.op # "add" => c.row \in 1 .. n + 1 /\ c.row # w.id
    <3>1. c.op # "add" => c.row \in 1 .. n
      BY <2>1 DEF CallGood, CallTrue
    <3>2. QED
      BY <1>2, <3>1
  <2>3. CallTrue(c, new, n + 1, evs)
    BY <1>3, <2>1, <2>2 DEF CallGood, CallTrue
  <2>4. AddTrue(c, new, cs, S, evs)
    <3>1. TopicsOf(new) = TopicsOf(rs) \cup {t}
      BY <1>2, <1>3 DEF TopicsOf
    <3>2. AddTrue(c, rs, cs, S, evs)
      BY <2>1 DEF CallGood
    <3>3. QED
      BY <3>1, <3>2 DEF AddTrue
  <2>5. AgainFirst(c, new, cs, S, evs)
    <3>1. AgainFirst(c, rs, cs, S, evs)
      BY <2>1 DEF CallGood
    <3>2. QED
      BY <1>3, <3>1 DEF AgainFirst
  <2>6. RemoveTrue(c, new, S)
    BY <1>3, <2>1 DEF CallGood, RemoveTrue
  <2>7. OffTrue(c, new, S)
    <3>1. TakesOff(c) => c.op # "add"
      BY DEF TakesOff, Of
    <3>2. QED
      BY <1>3, <2>1, <2>2, <3>1 DEF CallGood, OffTrue
  <2>8. QED
    BY <2>3, <2>4, <2>5, <2>6, <2>7 DEF CallGood
<1>7. CallsTrue(new, n + 1, cs, S, evs)
  BY <1>6 DEF CallsTrue, CallGood
<1>8. AgainTrue(new, n + 1, ag, cs, S, evs)
  <2>1. AgainTrue(rs, n, ag, cs, S, evs)
    BY SteadyIs
  <2>2. w \notin Range(ag)
    BY <1>2, <1>4
  <2>3. \A r \in Range(ag) : r.id <= n + 1
    BY <1>4
  <2>4. QED
    BY <1>3, <2>1, <2>2, <2>3 DEF AgainTrue
<1>9. Steady(new, n + 1, ag, cs, S, evs)
  BY <1>5, <1>7, <1>8, SteadyIs DEF Steady
<1>10. QED
  BY <1>1, <1>3, <1>9
-----------------------------------------------------------------------------
(* Rows: the backend's steps and the user's.                               *)

\* What is right, by its two halves.
Meant(rs, ag, cs, S, evs) ==
    DropsTrue(cs, S, evs) /\ SubsShown(rs, cs, S) /\ RowsMeant(rs, ag, cs, S, evs) /\ LoopGoesOn(ag, cs)
LEMMA Halves2 ==
  ASSUME NEW rs, NEW n, NEW ag, NEW cs, NEW S, NEW evs
  PROVE  RowsRight(rs, n, ag, cs, S, evs) <=> Steady(rs, n, ag, cs, S, evs) /\ Meant(rs, ag, cs, S, evs)
BY DEF RowsRight, Steady, Meant

LEMMA DoSubscribeKeeps ==
  ASSUME RowsType, Right, NEW i \in DOMAIN rpcs, DoSubscribe(i), ~awry' PROVE Right'
<1>1. Done(i, TRUE) /\ rpcs[i].op \in {"add", "again"} /\ rpcs[i].at = "called"
      /\ subs' = subs \cup {rpcs[i].topic} /\ ~Overtakes(i) /\ UNCHANGED <<rows, ids, again, told>>
  BY DEF DoSubscribe, Does
<1>2. /\ i \in 1 .. Len(rpcs) /\ Turned(rpcs, rpcs', i) /\ rpcs'[i].at = "answered"
      /\ rpcs'[i].ok = TRUE /\ rpcs'[i].here = rpcs[i].here
  BY <1>1, DoneIs, CallIs
<1>3. rpcs[i].here
  BY CallIs, RightIs DEF CallTrue
<1>4. Carries(i)
  BY <1>1, <1>2, <1>3 DEF Carries
<1>5. QED
  BY <1>1, <1>2, <1>4, CallCarried

LEMMA DoUnsubscribeKeeps ==
  ASSUME RowsType, Right, NEW i \in DOMAIN rpcs, DoUnsubscribe(i), ~awry' PROVE Right'
<1>1. PICK ok \in BOOLEAN : Done(i, ok)
  BY DEF DoUnsubscribe
<1>2. rpcs[i].op = "remove" /\ rpcs[i].at = "called"
      /\ subs' = subs \ {rpcs[i].topic} /\ ~Overtakes(i) /\ UNCHANGED <<rows, ids, again, told>>
  BY DEF DoUnsubscribe, Does
<1>3. /\ i \in 1 .. Len(rpcs) /\ Turned(rpcs, rpcs', i) /\ rpcs'[i].at = "answered"
      /\ rpcs'[i].here = rpcs[i].here
  BY <1>1, DoneIs, CallIs
<1>4. rpcs[i].here
  BY CallIs, RightIs DEF CallTrue
<1>5. Carries(i)
  BY <1>2, <1>3, <1>4 DEF Carries
<1>6. QED
  BY <1>2, <1>3, <1>5, CallCarried

LEMMA FailKeeps ==
  ASSUME RowsType, Right, NEW i \in DOMAIN rpcs, Fail(i), ~awry' PROVE Right'
<1>1. Done(i, FALSE) /\ rpcs[i].op \in {"add", "again", "remove"} /\ rpcs[i].at = "called"
      /\ subs' = subs /\ ~Overtakes(i) /\ UNCHANGED <<rows, ids, again, told>>
  BY DEF Fail, Does, connVars
<1>2. /\ i \in 1 .. Len(rpcs) /\ Turned(rpcs, rpcs', i) /\ rpcs'[i].at = "answered"
      /\ rpcs'[i].ok = FALSE /\ rpcs'[i].here = rpcs[i].here
  BY <1>1, DoneIs, CallIs
<1>3. rpcs[i].here
  BY CallIs, RightIs DEF CallTrue
<1>4. Carries(i)
  BY <1>1, <1>2, <1>3 DEF Carries
<1>5. QED
  BY <1>1, <1>2, <1>4, CallCarried

LEMMA DoListKeeps ==
  ASSUME RowsType, Right, NEW i \in DOMAIN rpcs, DoList(i), conn # "gone" PROVE Right'
<1>1. rpcs[i].op \in {"check", "settle"} /\ rpcs[i].at = "called"
      /\ subs' = subs /\ UNCHANGED <<rows, ids, again, told>>
  BY DEF DoList, Does, connVars
<1>2. /\ i \in 1 .. Len(rpcs) /\ Turned(rpcs, rpcs', i) /\ rpcs'[i].at = "answered"
      /\ rpcs'[i].ok = rpcs[i].ok /\ rpcs'[i].has = (rpcs[i].topic \in subs) /\ rpcs'[i].here
  BY ListedIs, CallIs
<1>3. rpcs[i].ok
  BY <1>1, CallIs, RightIs DEF CallTrue
<1>4. Carries(i)
  BY <1>1, <1>2, <1>3 DEF Carries
<1>5. QED
  BY <1>1, <1>2, <1>4, CallCarried

\* A call more takes nothing from what is meant.
LEMMA MoreMeant ==
  ASSUME NEW rs, NEW ag, NEW cs, NEW new, NEW S, NEW evs, Range(cs) \subseteq Range(new),
         Meant(rs, ag, cs, S, evs)
  PROVE  Meant(rs, ag, new, S, evs)
<1>1. DropsTrue(new, S, evs)
  BY DEF Meant, DropsTrue
<1>2. SubsShown(rs, new, S)
  BY DEF Meant, SubsShown
<1>3. RowsMeant(rs, ag, new, S, evs)
  BY DEF Meant, RowsMeant
<1>4. LoopGoesOn(ag, new)
  BY DEF Meant, LoopGoesOn
<1>5. QED
  BY <1>1, <1>2, <1>3, <1>4 DEF Meant

\* The last step of a call that was made.
LEMMA MadeRight ==
  ASSUME RowsType, Right, NEW d \in RpcType, rpcs' = Append(rpcs, d),
         Steady(rows, ids, again, Append(rpcs, d), subs, told), UNCHANGED <<rows, ids, again, subs, told>>
  PROVE  Right'
<1>1. Meant(rows, again, rpcs, subs, told)
  BY Halves2 DEF Right
<1>2. Range(rpcs) \subseteq Range(rpcs')
  BY RangeAppend DEF RowsType
<1>3. Meant(rows, again, rpcs', subs, told)
  BY <1>1, <1>2, MoreMeant
<1>4. RowsRight(rows, ids, again, rpcs', subs, told)
  BY <1>3, Halves2
<1>5. QED
  BY <1>4 DEF Right

LEMMA AddKeeps ==
  ASSUME RowsType, Right, NEW t \in Topics, AddSubscription(t), ~awry' PROVE Right'
<1>1. PICK d \in RpcType : d = Rpc("add", t, 0) /\ d.op = "add" /\ d.topic = t /\ d.at = "called"
                           /\ d.behind = Len(told) /\ ~d.dropped /\ d.here
  BY RpcIs
<1>2. t \notin TopicsOf(rows) /\ rpcs' = Append(rpcs, d) /\ UNCHANGED <<rows, ids, again, subs, told>>
      /\ \A i \in DOMAIN rpcs : ~ (rpcs[i].op = "add" /\ rpcs[i].topic = t)
  BY <1>1 DEF AddSubscription, connVars
<1>3. \A c \in Range(rpcs) : ~ (c.op = "add" /\ c.topic = t)
  BY <1>2 DEF Range
<1>4. \A r \in Range(rows) : r.topic # t
  BY <1>2 DEF TopicsOf
<1>5. rpcs \in Seq(RpcType) /\ rows \in Seq(Row) /\ told \in Seq(ConnEvent) /\ Range(Append(rpcs, d)) = Range(rpcs) \cup {d}
  BY RangeAppend DEF RowsType
<1>6. ASSUME NEW c \in Range(rpcs)
      PROVE  /\ Follows(c, d)
             /\ Of(c, "again", "called") /\ d.topic = c.topic => Of(d, "remove", "called") /\ d.row = c.row
  <2>1. Follows(c, d)
    BY <1>1, <1>3 DEF Follows, Loop, Of
  <2>2. Of(c, "again", "called") => c.topic # t
    <3>1. ASSUME Of(c, "again", "called") PROVE \E r \in Range(rows) : r.topic = c.topic
      <4>1. PICK r \in Range(rows) : r.id = c.row
        BY <3>1, RightIs DEF AgainFirst
      <4>2. r.topic = c.topic
        BY <3>1, <4>1, RightIs DEF CallTrue, Of
      <4>3. QED
        BY <4>2
    <3>2. QED
      BY <1>4, <3>1
  <2>3. QED
    BY <1>1, <2>1, <2>2
<1>7. ASSUME NEW r \in Range(again) \cap Range(rows) PROVE d.topic # r.topic
  BY <1>1, <1>4
<1>8. CallGood(d, rows, ids, Append(rpcs, d), subs, told)
  <2>1. CallTrue(d, rows, ids, told)
    <3>1. Len(told) <= Len(told)
      BY <1>5, LenProperties
    <3>2. QED
      BY <1>1, <3>1 DEF CallTrue
  <2>2. AddTrue(d, rows, Append(rpcs, d), subs, told)
    <3>1. t \notin subs
      <4>1. SubsShown(rows, rpcs, subs)
        BY RightIs
      <4>2. \A c \in Range(rpcs) : ~WillShow(c, t)
        BY <1>3 DEF WillShow, Of
      <4>3. QED
        BY <1>2, <4>1, <4>2 DEF SubsShown
    <3>2. \A k \in DOMAIN told : k <= Len(told)
      <4>1. PICK m \in Nat : m = Len(told) /\ DOMAIN told = 1 .. m
        BY <1>5, LenProperties
      <4>2. QED
        BY <4>1
    <3>3. QED
      BY <1>1, <1>2, <3>1, <3>2 DEF AddTrue
  <2>3. AgainFirst(d, rows, Append(rpcs, d), subs, told) /\ RemoveTrue(d, rows, subs) /\ OffTrue(d, rows, subs)
    BY <1>1 DEF AgainFirst, RemoveTrue, OffTrue, TakesOff, Of
  <2>4. QED
    BY <2>1, <2>2, <2>3 DEF CallGood
<1>9. Steady(rows, ids, again, Append(rpcs, d), subs, told)
  BY <1>5, <1>6, <1>7, <1>8, RightSteady, CallMade
<1>10. QED
  BY <1>2, <1>9, MadeRight

LEMMA RemoveKeeps ==
  ASSUME RowsType, Right, NEW r \in Range(rows), RemoveSubscription(r) PROVE Right'
<1>0. rows \in Seq(Row) /\ r \in Row /\ r.id \in Nat \ {0} /\ r.topic \in Topics /\ ids \in Nat
  <2>1. rows \in Seq(Row) /\ ids \in Nat
    BY DEF RowsType
  <2>2. r \in Row
    BY <2>1, InRange
  <2>3. QED
    BY <2>1, <2>2 DEF Row
<1>1. PICK d \in RpcType : /\ d = Rpc("remove", r.topic, r.id) /\ d.op = "remove" /\ d.topic = r.topic
                           /\ d.row = r.id /\ d.at = "called" /\ d.behind = Len(told) /\ d.here
  BY <1>0, RpcIs
<1>2. rpcs' = Append(rpcs, d) /\ UNCHANGED <<rows, ids, again, subs, told>>
  BY <1>1 DEF RemoveSubscription, connVars
<1>3. RowsOnce(rows, ids)
  BY RightIs
<1>4. \A q \in Range(rows) : q.id = r.id \/ q.topic = r.topic => q = r
  BY <1>0, <1>3, RowsApart
<1>5. rpcs \in Seq(RpcType) /\ told \in Seq(ConnEvent)
  BY DEF RowsType
<1>6. ASSUME NEW c \in Range(rpcs)
      PROVE  /\ Follows(c, d)
             /\ Of(c, "again", "called") /\ d.topic = c.topic => Of(d, "remove", "called") /\ d.row = c.row
  <2>1. c.op = "add" => c.topic # d.topic
    <3>1. AddTrue(c, rows, rpcs, subs, told)
      BY RightIs
    <3>2. r.topic \in TopicsOf(rows)
      BY DEF TopicsOf
    <3>3. QED
      BY <1>1, <3>1, <3>2 DEF AddTrue
  <2>2. Follows(c, d)
    BY <1>1, <2>1 DEF Follows, Loop, Of
  <2>3. ASSUME Of(c, "again", "called"), d.topic = c.topic PROVE d.row = c.row
    <3>1. PICK q \in Range(rows) : q.id = c.row
      BY <2>3, RightIs DEF AgainFirst
    <3>2. q.topic = c.topic
      BY <2>3, <3>1, RightIs DEF CallTrue, Of
    <3>3. QED
      BY <1>1, <1>4, <2>3, <3>1, <3>2
  <2>4. QED
    BY <1>1, <2>2, <2>3 DEF Of
<1>7. ASSUME NEW q \in Range(again) \cap Range(rows), d.topic = q.topic
      PROVE  d.op \in {"remove", "check"} /\ d.row = q.id
  BY <1>1, <1>4, <1>7
<1>8. CallGood(d, rows, ids, Append(rpcs, d), subs, told)
  <2>1. CallTrue(d, rows, ids, told)
    <3>1. Len(told) <= Len(told)
      BY <1>5, LenProperties
    <3>2. r.id \in 1 .. ids
      BY <1>0, <1>3 DEF RowsOnce
    <3>3. QED
      BY <1>1, <1>4, <3>1, <3>2 DEF CallTrue
  <2>2. AddTrue(d, rows, Append(rpcs, d), subs, told) /\ AgainFirst(d, rows, Append(rpcs, d), subs, told)
        /\ OffTrue(d, rows, subs)
    BY <1>1 DEF AddTrue, AgainFirst, OffTrue, TakesOff, Of
  <2>3. RemoveTrue(d, rows, subs)
    BY <1>1 DEF RemoveTrue
  <2>4. QED
    BY <2>1, <2>2, <2>3 DEF CallGood
<1>9. Steady(rows, ids, again, Append(rpcs, d), subs, told)
  BY <1>5, <1>6, <1>7, <1>8, RightSteady, CallMade
<1>10. QED
  BY <1>2, <1>9, MadeRight
-----------------------------------------------------------------------------
(* Rows: an event is heard.                                                *)

\* The calls after the first event of the connection has been heard.
Heard(cs, new, evs) ==
    /\ new \in Seq(RpcType) /\ Len(new) = Len(cs)
    /\ \A i \in 1 .. Len(cs) :
          /\ Neared(cs[i], new[i])
          /\ new[i].dropped = (cs[i].dropped \/ (cs[i].op = "add" /\ DroppedAt(evs, 1, cs[i].topic)))

\* One call's part of that.
HeardCall(c, d, evs) ==
    /\ c \in RpcType /\ d \in RpcType /\ Neared(c, d)
    /\ d.dropped = (c.dropped \/ (c.op = "add" /\ DroppedAt(evs, 1, c.topic)))
LEMMA HeardIs ==
  ASSUME NEW cs \in Seq(RpcType), NEW new, NEW evs, Heard(cs, new, evs)
  PROVE  /\ Ordered(cs) => Ordered(new)
         /\ \A c \in Range(cs) : \E d \in Range(new) : HeardCall(c, d, evs)
         /\ \A d \in Range(new) : \E c \in Range(cs) : HeardCall(c, d, evs)
<1>1. PICK n \in Nat : n = Len(cs) /\ DOMAIN cs = 1 .. n
  BY LenProperties
<1>2. new \in Seq(RpcType) /\ DOMAIN new = 1 .. n
  BY <1>1, LenProperties DEF Heard
<1>3. ASSUME NEW j \in 1 .. n PROVE HeardCall(cs[j], new[j], evs)
  BY <1>1, <1>2, ElementOfSeq DEF Heard, HeardCall
<1>4. ASSUME Ordered(cs), NEW p \in 1 .. n, NEW q \in 1 .. n, p < q PROVE Follows(new[p], new[q])
  <2>1. Follows(cs[p], cs[q])
    BY <1>1, <1>4 DEF Ordered
  <2>2. HeardCall(cs[p], new[p], evs) /\ HeardCall(cs[q], new[q], evs)
    BY <1>3
  <2>3. QED
    BY <2>1, <2>2 DEF Follows, Loop, Of, HeardCall, Neared
<1>5. QED
  BY <1>1, <1>2, <1>3, <1>4 DEF Ordered, Range

\* Equal calls stay equal.
LEMMA HeardSame ==
  ASSUME NEW c, NEW d, NEW e, NEW evs, HeardCall(c, d, evs), HeardCall(c, e, evs)
  PROVE  d = e
<1>1. /\ d = [op |-> d.op, topic |-> d.topic, row |-> d.row, live |-> d.live, dropped |-> d.dropped,
             behind |-> d.behind, at |-> d.at, ok |-> d.ok, has |-> d.has, here |-> d.here]
      /\ e = [op |-> e.op, topic |-> e.topic, row |-> e.row, live |-> e.live, dropped |-> e.dropped,
             behind |-> e.behind, at |-> e.at, ok |-> e.ok, has |-> e.has, here |-> e.here]
  BY DEF HeardCall, RpcType
<1>2. /\ d.op = e.op /\ d.topic = e.topic /\ d.row = e.row /\ d.live = e.live /\ d.dropped = e.dropped
      /\ d.behind = e.behind /\ d.at = e.at /\ d.ok = e.ok /\ d.has = e.has /\ d.here = e.here
  BY DEF HeardCall, Neared
<1>3. QED
  BY <1>1, <1>2

\* What is right stays so when the first event is heard, if it dropped no topic
\* that has a row, and no call was made before it that adds a topic it dropped.
LEMMA HeardRight ==
  ASSUME NEW rs \in Seq(Row), NEW n \in Nat, NEW ag \in Seq(Row), NEW cs \in Seq(RpcType), NEW S,
         NEW evs \in Seq(ConnEvent), NEW new, evs # <<>>, RowsRight(rs, n, ag, cs, S, evs),
         Heard(cs, new, evs),
         \A t : DroppedAt(evs, 1, t) =>
            t \notin TopicsOf(rs) /\ t \notin S /\ \A c \in Range(cs) : c.op = "add" /\ c.topic = t => c.behind = 0
  PROVE  RowsRight(rs, n, ag, new, S, Tail(evs))
<1>1. PICK m \in Nat : m = Len(evs) /\ DOMAIN evs = 1 .. m /\ m >= 1
  BY TailIs, LenProperties
<1>2. PICK later \in Seq(ConnEvent) : /\ later = Tail(evs) /\ Len(later) = m - 1 /\ DOMAIN later = 1 .. m - 1
                                      /\ \A k \in 1 .. m - 1 : later[k] = evs[k + 1]
  <2>1. Tail(evs) \in Seq(ConnEvent) /\ Len(Tail(evs)) = m - 1 /\ \A k \in 1 .. m - 1 : Tail(evs)[k] = evs[k + 1]
    BY <1>1, TailIs
  <2>2. DOMAIN Tail(evs) = 1 .. m - 1
    BY <2>1, LenProperties
  <2>3. QED
    BY <2>1, <2>2
<1>3. ASSUME NEW k \in 1 .. m - 1, NEW t
      PROVE  k + 1 \in 1 .. m /\ (DroppedAt(later, k, t) <=> DroppedAt(evs, k + 1, t))
  BY <1>1, <1>2 DEF DroppedAt
<1>4. ASSUME NEW t PROVE /\ DropComes(later, t) => DropComes(evs, t)
                         /\ DropComes(evs, t) => DropComes(later, t) \/ DroppedAt(evs, 1, t)
  <2>1. ASSUME DropComes(later, t) PROVE DropComes(evs, t)
    BY <1>1, <1>2, <1>3, <2>1 DEF DropComes
  <2>2. ASSUME NEW k \in 1 .. m, DroppedAt(evs, k, t), k # 1 PROVE DropComes(later, t)
    <3>1. k - 1 \in 1 .. m - 1 /\ (k - 1) + 1 = k
      BY <2>2
    <3>2. DroppedAt(later, k - 1, t)
      BY <1>3, <2>2, <3>1
    <3>3. QED
      BY <1>2, <3>1, <3>2 DEF DropComes
  <2>3. QED
    BY <1>1, <2>1, <2>2 DEF DropComes
<1>5. Steady(rs, n, ag, cs, S, evs) /\ Meant(rs, ag, cs, S, evs)
  BY Halves2
<1>6. /\ Ordered(cs) => Ordered(new)
      /\ \A c \in Range(cs) : \E d \in Range(new) : HeardCall(c, d, evs)
      /\ \A d \in Range(new) : \E c \in Range(cs) : HeardCall(c, d, evs)
  BY HeardIs
<1>7. ASSUME NEW d \in Range(new) PROVE CallGood(d, rs, n, new, S, later)
  <2>1. PICK c \in Range(cs) : HeardCall(c, d, evs)
    BY <1>6
  <2>2. CallGood(c, rs, n, cs, S, evs)
    BY <1>5, SteadyIs
  <2>3. /\ d.op = c.op /\ d.topic = c.topic /\ d.row = c.row /\ d.at = c.at
        /\ d.ok = c.ok /\ d.has = c.has /\ d.here = c.here
        /\ d.behind = (IF c.behind = 0 THEN 0 ELSE c.behind - 1)
        /\ d.dropped = (c.dropped \/ (c.op = "add" /\ DroppedAt(evs, 1, c.topic)))
        /\ c.behind \in Nat /\ c.behind <= m
    BY <1>1, <2>1, <2>2 DEF HeardCall, Neared, CallGood, CallTrue, RpcType
  <2>4. CallTrue(d, rs, n, later)
    <3>1. d.behind <= m - 1
      BY <1>1, <2>3
    <3>2. CallTrue(c, rs, n, evs)
      BY <2>2 DEF CallGood
    <3>3. QED
      BY <1>2, <2>3, <3>1, <3>2 DEF CallTrue
  <2>5. AddTrue(d, rs, new, S, later)
    <3>1. AddTrue(c, rs, cs, S, evs)
      BY <2>2 DEF CallGood
    <3>2. CASE c.op = "add" /\ c.at = "called"
      <4>1. ~DroppedAt(evs, 1, c.topic)
        <5>1. DroppedAt(evs, 1, c.topic) => 1 <= c.behind /\ c.behind = 0
          <6>1. 1 \in DOMAIN evs
            BY <1>1
          <6>2. QED
            BY <3>1, <3>2, <6>1 DEF AddTrue
        <5>2. QED
          BY <5>1
      <4>2. ASSUME NEW k \in 1 .. m - 1, DroppedAt(later, k, c.topic) PROVE k <= d.behind
        <5>1. k + 1 \in 1 .. m /\ DroppedAt(evs, k + 1, c.topic)
          BY <1>3, <4>2
        <5>2. k + 1 <= c.behind
          BY <1>1, <3>1, <3>2, <5>1 DEF AddTrue
        <5>3. QED
          BY <2>3, <5>2
      <4>3. c.topic \notin TopicsOf(rs) /\ c.topic \notin S /\ ~d.dropped
        BY <2>3, <3>1, <3>2, <4>1 DEF AddTrue
      <4>4. QED
        BY <1>2, <2>3, <3>2, <4>2, <4>3 DEF AddTrue
    <3>3. CASE c.op = "add" /\ c.at = "answered"
      <4>1. ~ \E e \in Range(new) : Of(e, "remove", "called") /\ e.topic = d.topic
        <5>1. ~ \E e \in Range(cs) : Of(e, "remove", "called") /\ e.topic = c.topic
          BY <3>1, <3>3 DEF AddTrue
        <5>2. ASSUME NEW e \in Range(new), Of(e, "remove", "called"), e.topic = d.topic PROVE FALSE
          <6>1. PICK b \in Range(cs) : HeardCall(b, e, evs)
            BY <1>6
          <6>2. Of(b, "remove", "called") /\ b.topic = c.topic
            BY <2>3, <5>2, <6>1 DEF Of, HeardCall, Neared
          <6>3. QED
            BY <5>1, <6>2
        <5>3. QED
          BY <5>2
      <4>2. d.dropped \/ ~d.ok => d.topic \notin S
        BY <2>3, <3>1, <3>3 DEF AddTrue
      <4>3. ASSUME ~d.dropped, d.ok, d.topic \notin S
            PROVE  \E k \in 1 .. m - 1 : k > d.behind /\ DroppedAt(later, k, d.topic)
        <5>1. ~c.dropped /\ c.ok /\ c.topic \notin S /\ ~DroppedAt(evs, 1, c.topic)
          BY <2>3, <3>3, <4>3
        <5>2. PICK k \in 1 .. m : k > c.behind /\ DroppedAt(evs, k, c.topic)
          BY <1>1, <3>1, <3>3, <5>1 DEF AddTrue
        <5>3. k # 1
          BY <5>1, <5>2
        <5>4. k - 1 \in 1 .. m - 1 /\ (k - 1) + 1 = k /\ k - 1 > d.behind
          BY <2>3, <5>2, <5>3
        <5>5. DroppedAt(later, k - 1, d.topic)
          BY <1>3, <2>3, <5>2, <5>4
        <5>6. QED
          BY <5>4, <5>5
      <4>4. c.topic \notin TopicsOf(rs)
        BY <3>1, <3>3 DEF AddTrue
      <4>5. QED
        BY <1>2, <2>3, <3>3, <4>1, <4>2, <4>3, <4>4 DEF AddTrue
    <3>4. CASE c.op # "add"
      BY <2>3, <3>4 DEF AddTrue
    <3>5. QED
      BY <2>1, <3>2, <3>3, <3>4 DEF HeardCall, RpcType
  <2>6. AgainFirst(d, rs, new, S, later)
    <3>1. AgainFirst(c, rs, cs, S, evs)
      BY <2>2 DEF CallGood
    <3>2. ASSUME Of(c, "again", "called"), NEW e \in Range(new), e.topic = d.topic
          PROVE  e = d \/ (Of(e, "remove", "called") /\ e.row = d.row)
      <4>1. PICK b \in Range(cs) : HeardCall(b, e, evs)
        BY <1>6
      <4>2. b.topic = c.topic
        BY <2>3, <3>2, <4>1 DEF HeardCall, Neared
      <4>3. b = c \/ (Of(b, "remove", "called") /\ b.row = c.row)
        BY <3>1, <3>2, <4>2 DEF AgainFirst
      <4>4. CASE b = c
        BY <2>1, <4>1, <4>4, HeardSame
      <4>5. CASE Of(b, "remove", "called") /\ b.row = c.row
        BY <2>3, <4>1, <4>5 DEF HeardCall, Neared, Of
      <4>6. QED
        BY <4>3, <4>4, <4>5
    <3>3. Of(d, "again", "called") <=> Of(c, "again", "called")
      BY <2>3 DEF Of
    <3>4. Of(c, "again", "called") => /\ d.topic \notin S /\ ~DropComes(later, d.topic)
                                      /\ \E r \in Range(rs) : r.id = d.row
      BY <1>4, <2>3, <3>1 DEF AgainFirst
    <3>5. QED
      BY <3>2, <3>3, <3>4 DEF AgainFirst
  <2>7. RemoveTrue(d, rs, S) /\ OffTrue(d, rs, S)
    BY <2>2, <2>3 DEF CallGood, RemoveTrue, OffTrue, TakesOff, Of
  <2>8. QED
    BY <2>4, <2>5, <2>6, <2>7 DEF CallGood
<1>8. CallsTrue(rs, n, new, S, later)
  BY <1>7 DEF CallsTrue, CallGood
<1>9. AgainTrue(rs, n, ag, new, S, later)
  <2>1. AgainTrue(rs, n, ag, cs, S, evs)
    BY <1>5, SteadyIs
  <2>2. ASSUME NEW r \in Range(ag) \cap Range(rs)
        PROVE  /\ r.topic \notin S /\ ~DropComes(later, r.topic)
               /\ \A d \in Range(new) : d.topic = r.topic => d.op \in {"remove", "check"} /\ d.row = r.id
    <3>1. r.topic \notin S /\ ~DropComes(later, r.topic)
      BY <1>4, <2>1 DEF AgainTrue
    <3>2. ASSUME NEW d \in Range(new), d.topic = r.topic PROVE d.op \in {"remove", "check"} /\ d.row = r.id
      <4>1. PICK c \in Range(cs) : HeardCall(c, d, evs)
        BY <1>6
      <4>2. d.op = c.op /\ d.topic = c.topic /\ d.row = c.row
        BY <4>1 DEF HeardCall, Neared
      <4>3. QED
        BY <2>1, <3>2, <4>2 DEF AgainTrue
    <3>3. QED
      BY <3>1, <3>2
  <2>3. QED
    BY <2>1, <2>2 DEF AgainTrue
<1>10. DropsTrue(new, S, later)
  <2>1. ASSUME NEW k \in 1 .. m - 1, NEW t \in S, DroppedAt(later, k, t)
        PROVE  \E d \in Range(new) : d.op = "add" /\ d.topic = t /\ k <= d.behind
    <3>1. k + 1 \in 1 .. m /\ DroppedAt(evs, k + 1, t)
      BY <1>3, <2>1
    <3>2. PICK c \in Range(cs) : c.op = "add" /\ c.topic = t /\ k + 1 <= c.behind
      BY <1>1, <1>5, <3>1 DEF Meant, DropsTrue
    <3>3. PICK d \in Range(new) : HeardCall(c, d, evs)
      BY <1>6
    <3>4. k <= d.behind
      <4>1. c.behind \in Nat /\ d.behind = (IF c.behind = 0 THEN 0 ELSE c.behind - 1)
        BY <3>3 DEF HeardCall, Neared, RpcType
      <4>2. QED
        BY <3>2, <4>1
    <3>5. QED
      BY <3>2, <3>3, <3>4 DEF HeardCall, Neared
  <2>2. QED
    BY <1>2, <2>1 DEF DropsTrue
<1>11. SubsShown(rs, new, S)
  <2>1. ASSUME NEW t \in S, t \notin TopicsOf(rs) PROVE \E d \in Range(new) : WillShow(d, t)
    <3>1. PICK c \in Range(cs) : WillShow(c, t)
      BY <1>5, <2>1 DEF Meant, SubsShown
    <3>2. PICK d \in Range(new) : HeardCall(c, d, evs)
      BY <1>6
    <3>3. ~DroppedAt(evs, 1, t)
      OBVIOUS
    <3>4. WillShow(d, t)
      BY <3>1, <3>2, <3>3 DEF WillShow, Of, HeardCall, Neared
    <3>5. QED
      BY <3>4
  <2>2. QED
    BY <2>1 DEF SubsShown
<1>12. RowsMeant(rs, ag, new, S, later)
  <2>1. ASSUME NEW r \in Range(rs), r.topic \notin S, ~DropComes(later, r.topic), r \notin Range(ag)
        PROVE  \E d \in Range(new) : Decides(d) /\ d.row = r.id
    <3>1. ~DropComes(evs, r.topic)
      <4>1. r.topic \in TopicsOf(rs)
        BY DEF TopicsOf
      <4>2. QED
        BY <1>4, <2>1, <4>1
    <3>2. PICK c \in Range(cs) : Decides(c) /\ c.row = r.id
      BY <1>5, <2>1, <3>1 DEF Meant, RowsMeant
    <3>3. PICK d \in Range(new) : HeardCall(c, d, evs)
      BY <1>6
    <3>4. Decides(d) /\ d.row = r.id
      BY <3>2, <3>3 DEF Decides, Of, HeardCall, Neared
    <3>5. QED
      BY <3>4
  <2>2. QED
    BY <2>1 DEF RowsMeant
<1>13. LoopGoesOn(ag, new)
  <2>1. LoopGoesOn(ag, cs)
    BY <1>5 DEF Meant
  <2>2. QED
    BY <1>6, <2>1 DEF LoopGoesOn, Loop, HeardCall, Neared
<1>14. RowsRight(rs, n, ag, new, S, later)
  BY <1>5, <1>6, <1>8, <1>9, <1>10, <1>11, <1>12, <1>13, SteadyIs DEF RowsRight
<1>15. QED
  BY <1>2, <1>14

LEMMA HearStateKeeps == ASSUME RowsType, Right, HearState PROVE Right'
<1>1. told # <<>> /\ told[1].kind # "dropped" /\ told' = Tail(told) /\ rpcs' = Nearer
      /\ UNCHANGED <<rows, ids, again, subs>>
  BY DEF HearState, Take
<1>2. \A t : ~DroppedAt(told, 1, t)
  BY <1>1 DEF DroppedAt
<1>3. Heard(rpcs, rpcs', told)
  <2>1. \A i \in 1 .. Len(rpcs) : Nearer[i].dropped = rpcs[i].dropped /\ rpcs[i].dropped \in BOOLEAN
    <3>1. \A i \in 1 .. Len(rpcs) : rpcs[i] \in RpcType
      BY ElementOfSeq DEF RowsType
    <3>2. QED
      BY <3>1, NearerIs DEF RpcType
  <2>2. QED
    BY <1>1, <1>2, <2>1, NearerIs DEF Heard
<1>4. RowsRight(rows, ids, again, rpcs', subs, Tail(told))
  <2>1. /\ rows \in Seq(Row) /\ ids \in Nat /\ again \in Seq(Row) /\ rpcs \in Seq(RpcType) /\ told \in Seq(ConnEvent)
        /\ RowsRight(rows, ids, again, rpcs, subs, told)
    BY DEF RowsType, Right
  <2>2. QED
    BY <1>1, <1>2, <1>3, <2>1, HeardRight
<1>5. QED
  BY <1>1, <1>4 DEF Right

LEMMA HearDroppedKeeps == ASSUME RowsType, Right, HearDropped, ~awry' PROVE Right'
<1>0. /\ rows \in Seq(Row) /\ ids \in Nat /\ again \in Seq(Row) /\ rpcs \in Seq(RpcType) /\ told \in Seq(ConnEvent)
      /\ RowsRight(rows, ids, again, rpcs, subs, told)
  BY DEF RowsType, Right
<1>1. PICK gone \in Topics : gone = told[1].topic
  <2>1. told[1] \in ConnEvent
    BY <1>0, TailIs, InRange DEF HearDropped
  <2>2. QED
    BY <2>1 DEF ConnEvent
<1> DEFINE K == {r \in Range(rows) : r.topic # gone}
<1>2. /\ told # <<>> /\ told[1].kind = "dropped" /\ told' = Tail(told) /\ Mark(gone)
      /\ rows' = Only(rows, K) /\ UNCHANGED <<ids, again, subs>>
      /\ \A i \in DOMAIN rpcs : ~ (rpcs[i].op = "add" /\ rpcs[i].topic = gone /\ Stale(i))
  BY <1>1 DEF HearDropped, Take
<1>3. \A t : DroppedAt(told, 1, t) <=> t = gone
  BY <1>1, <1>2 DEF DroppedAt
<1>4. 1 \in DOMAIN told
  <2>1. PICK m \in Nat : m = Len(told) /\ DOMAIN told = 1 .. m /\ m >= 1
    BY <1>0, <1>2, TailIs, LenProperties
  <2>2. QED
    BY <2>1
<1>5. ASSUME NEW c \in Range(rpcs), c.op = "add", c.topic = gone PROVE c.behind = 0
  <2>1. PICK i \in DOMAIN rpcs : rpcs[i] = c
    BY DEF Range
  <2>2. ~ (c.behind > 0)
    BY <1>2, <1>5, <2>1 DEF Stale
  <2>3. c.behind \in Nat
    <3>1. c \in RpcType
      BY <1>0, InRange
    <3>2. QED
      BY <3>1 DEF RpcType
  <2>4. QED
    BY <2>2, <2>3
<1>6. gone \notin subs
  <2>1. ASSUME gone \in subs PROVE FALSE
    <3>1. PICK c \in Range(rpcs) : c.op = "add" /\ c.topic = gone /\ 1 <= c.behind
      BY <1>3, <1>4, <2>1, RightIs DEF DropsTrue
    <3>2. QED
      BY <1>5, <3>1
  <2>2. QED
    BY <2>1
<1>7. DropComes(told, gone)
  BY <1>3, <1>4 DEF DropComes
<1>8. Range(rows') = K /\ rows' \in Seq(Row)
  <2>1. Only(rows, K) \in Seq(Row) /\ Range(Only(rows, K)) = Range(rows) \cap K
    BY <1>0, OnlyRange
  <2>2. QED
    BY <1>2, <2>1
<1>9. Steady(rows', ids, again, rpcs, subs, told)
  <2>1. ASSUME NEW r \in Range(rows) \ K
        PROVE  r.topic \notin subs /\ \A c \in Range(rpcs) : Of(c, "again", "called") => c.row # r.id
    <3>1. r.topic = gone
      OBVIOUS
    <3>2. ASSUME NEW c \in Range(rpcs), Of(c, "again", "called"), c.row = r.id PROVE FALSE
      <4>1. c.topic = gone
        BY <3>1, <3>2, RightIs DEF CallTrue, Of
      <4>2. QED
        BY <1>7, <3>2, <4>1, RightIs DEF AgainFirst
    <3>3. QED
      BY <1>6, <3>1, <3>2
  <2> HIDE DEF K
  <2>2. QED
    BY <1>0, <1>2, <2>1, RightSteady, RowGoes
<1>10. Meant(rows', again, rpcs, subs, told)
  <2>1. SubsShown(rows', rpcs, subs)
    <3>1. ASSUME NEW t \in subs, t \in TopicsOf(rows) PROVE t \in TopicsOf(rows')
      BY <1>6, <1>8, <3>1 DEF TopicsOf
    <3>2. SubsShown(rows, rpcs, subs)
      BY RightIs
    <3>3. QED
      BY <3>1, <3>2 DEF SubsShown
  <2>2. RowsMeant(rows', again, rpcs, subs, told)
    <3>1. RowsMeant(rows, again, rpcs, subs, told)
      BY RightIs
    <3>2. QED
      BY <1>8, <3>1 DEF RowsMeant
  <2>3. QED
    BY <2>1, <2>2, RightIs DEF Meant
<1>11. RowsRight(rows', ids, again, rpcs, subs, told)
  BY <1>9, <1>10, Halves2
<1>12. Heard(rpcs, rpcs', told)
  <2>1. /\ rpcs' \in Seq(RpcType) /\ Len(rpcs') = Len(rpcs)
        /\ \A i \in 1 .. Len(rpcs) :
               /\ Neared(rpcs[i], rpcs'[i])
               /\ rpcs'[i].dropped = (rpcs[i].dropped \/ (rpcs[i].op = "add" /\ rpcs[i].topic = gone))
    BY <1>2, MarkIs
  <2>2. QED
    BY <1>3, <2>1 DEF Heard
<1>13. ASSUME NEW t, DroppedAt(told, 1, t)
       PROVE  t \notin TopicsOf(rows') /\ t \notin subs /\ \A c \in Range(rpcs) : c.op = "add" /\ c.topic = t => c.behind = 0
  <2>1. t = gone
    BY <1>3, <1>13
  <2>2. gone \notin TopicsOf(rows')
    BY <1>8 DEF TopicsOf
  <2>3. QED
    BY <1>5, <1>6, <2>1, <2>2
<1>14. RowsRight(rows', ids, again, rpcs', subs, Tail(told))
  BY <1>0, <1>2, <1>8, <1>11, <1>12, <1>13, HeardRight
<1>15. QED
  BY <1>2, <1>14 DEF Right
-----------------------------------------------------------------------------
(* Rows: answers.                                                          *)

\* A call that has been answered: what is left of the calls when it has ended.
LEMMA EndedIs ==
  ASSUME RowsType, Right, NEW i \in DOMAIN rpcs, rpcs[i].at = "answered"
  PROVE  /\ i \in 1 .. Len(rpcs) /\ rpcs[i] \in RpcType /\ rpcs[i] \in Range(rpcs)
         /\ Others(i) \in Seq(RpcType) /\ Range(rpcs) = Range(Others(i)) \cup {rpcs[i]}
         /\ \A c \in Range(Others(i)) : /\ Loop(rpcs[i]) => ~Loop(c)
                                        /\ rpcs[i].op = "add" /\ c.op = "add" => c.topic # rpcs[i].topic
<1>1. PICK n \in Nat : n = Len(rpcs) /\ DOMAIN rpcs = 1 .. n
  BY LenProperties DEF RowsType
<1>2. PICK left \in Seq(RpcType) : /\ left = Others(i) /\ DOMAIN left = 1 .. n - 1
                                   /\ \A j \in 1 .. n - 1 : left[j] = IF j < i THEN rpcs[j] ELSE rpcs[j + 1]
  <2>1. /\ Others(i) \in Seq(RpcType) /\ Len(Others(i)) = n - 1
        /\ \A j \in 1 .. n - 1 : Others(i)[j] = IF j < i THEN rpcs[j] ELSE rpcs[j + 1]
    BY <1>1, TakenOut DEF Others, RowsType
  <2>2. DOMAIN Others(i) = 1 .. n - 1
    BY <1>1, <2>1, LenProperties
  <2>3. QED
    BY <2>1, <2>2
<1>3. ASSUME NEW c \in Range(left)
      PROVE  /\ Loop(rpcs[i]) => ~Loop(c)
             /\ rpcs[i].op = "add" /\ c.op = "add" => c.topic # rpcs[i].topic
  <2>1. PICK j \in 1 .. n - 1 : left[j] = c
    BY <1>2 DEF Range
  <2>2. PICK k \in 1 .. n : k # i /\ c = rpcs[k]
    <3>1. j \in 1 .. n /\ j + 1 \in 1 .. n
      OBVIOUS
    <3>2. CASE j < i
      BY <1>1, <1>2, <2>1, <3>1, <3>2
    <3>3. CASE ~ (j < i)
      <4>1. j + 1 # i
        BY <1>1, <3>3
      <4>2. QED
        BY <1>2, <2>1, <3>1, <3>3, <4>1
    <3>4. QED
      BY <3>2, <3>3
  <2>3. Follows(c, rpcs[i]) \/ Follows(rpcs[i], c)
    <3>1. k < i \/ i < k
      BY <1>1, <2>2
    <3>2. QED
      BY <1>1, <2>2, <3>1, RightIs DEF Ordered
  <2>4. QED
    BY <2>3 DEF Follows
<1>4. QED
  BY <1>2, <1>3, CallIs, OthersIs

\* What is meant goes on without a call that adds nothing more to it.
LEMMA FewerMeant ==
  ASSUME NEW rs, NEW ag, NEW cs, NEW new, NEW S, NEW evs, NEW c,
         Range(cs) = Range(new) \cup {c}, Meant(rs, ag, cs, S, evs), evs \in Seq(ConnEvent),
         c.op = "add" => c.behind = 0 /\ ~WillShow(c, c.topic),
         \A r \in Range(rs) : ~ (Decides(c) /\ c.row = r.id),
         Loop(c) => ag = <<>>
  PROVE  Meant(rs, ag, new, S, evs)
<1>1. DropsTrue(new, S, evs)
  <2>1. ASSUME NEW k \in DOMAIN evs, NEW t \in S, DroppedAt(evs, k, t)
        PROVE  \E d \in Range(new) : d.op = "add" /\ d.topic = t /\ k <= d.behind
    <3>1. PICK d \in Range(cs) : d.op = "add" /\ d.topic = t /\ k <= d.behind
      BY <2>1 DEF Meant, DropsTrue
    <3>2. d # c
      <4>1. PICK m \in Nat : DOMAIN evs = 1 .. m
        BY LenProperties
      <4>2. ~ (k <= 0)
        BY <4>1
      <4>3. QED
        BY <3>1, <4>2
    <3>3. QED
      BY <3>1, <3>2
  <2>2. QED
    BY <2>1 DEF DropsTrue
<1>2. SubsShown(rs, new, S)
  <2>1. \A t : ~WillShow(c, t)
    BY DEF WillShow, Of
  <2>2. QED
    BY <2>1 DEF Meant, SubsShown
<1>3. RowsMeant(rs, ag, new, S, evs)
  BY DEF Meant, RowsMeant
<1>4. LoopGoesOn(ag, new)
  BY DEF Meant, LoopGoesOn
<1>5. QED
  BY <1>1, <1>2, <1>3, <1>4 DEF Meant

\* The rows that a call takes off: they are not subscribed, and the loop has
\* not begun with them.
LEMMA TakesOffRight ==
  ASSUME RowsType, Right, NEW c \in Range(rpcs), c.at = "answered", c.op \in {"remove", "check", "settle"},
         (\E r \in Range(rows) : r.id = c.row) => c.topic \notin subs
  PROVE  RowsRight(WithoutRow(rows, c.row), ids, again, rpcs, subs, told)
<1>0. /\ rows \in Seq(Row) /\ ids \in Nat /\ again \in Seq(Row) /\ rpcs \in Seq(RpcType) /\ told \in Seq(ConnEvent)
  BY DEF RowsType
<1> DEFINE K == {r \in Range(rows) : r.id # c.row}
<1>1. PICK new \in Seq(Row) : new = WithoutRow(rows, c.row) /\ Range(new) = K
  BY <1>0, WithoutRowIs
<1>2. ASSUME NEW r \in Range(rows), r.id = c.row
      PROVE  r.topic = c.topic /\ r.topic \notin subs /\ \A d \in Range(rpcs) : Of(d, "again", "called") => d.row # r.id
  <2>1. r.topic = c.topic
    BY <1>2, RightIs DEF CallTrue
  <2>2. ASSUME NEW d \in Range(rpcs), Of(d, "again", "called"), d.row = r.id PROVE FALSE
    <3>1. d.topic = c.topic
      BY <2>1, <2>2, RightIs DEF CallTrue, Of
    <3>2. c = d \/ Of(c, "remove", "called")
      BY <2>2, <3>1, RightIs DEF AgainFirst
    <3>3. QED
      BY <2>2, <3>2 DEF Of
  <2>3. QED
    BY <1>2, <2>1, <2>2
<1>3. Steady(new, ids, again, rpcs, subs, told)
  <2>1. \A r \in Range(rows) \ K : r.topic \notin subs /\ \A d \in Range(rpcs) : Of(d, "again", "called") => d.row # r.id
    BY <1>2
  <2>2. new = Only(rows, K)
    BY <1>1 DEF WithoutRow
  <2> HIDE DEF K
  <2>3. QED
    BY <1>0, <2>1, <2>2, RightSteady, RowGoes
<1>4. SubsShown(new, rpcs, subs)
  <2>1. ASSUME NEW t \in subs, t \in TopicsOf(rows) PROVE t \in TopicsOf(new)
    BY <1>1, <1>2, <2>1 DEF TopicsOf
  <2>2. SubsShown(rows, rpcs, subs)
    BY RightIs
  <2>3. QED
    BY <2>1, <2>2 DEF SubsShown
<1>5. RowsMeant(new, again, rpcs, subs, told)
  <2>1. RowsMeant(rows, again, rpcs, subs, told)
    BY RightIs
  <2>2. QED
    BY <1>1, <2>1 DEF RowsMeant
<1>6. QED
  BY <1>1, <1>3, <1>4, <1>5, RightIs, Halves2 DEF Meant

\* A call that was made before the events that are still to come.
LEMMA NotStale == ASSUME RowsType, NEW i \in DOMAIN rpcs, ~Stale(i) PROVE rpcs[i].behind = 0
<1>1. rpcs[i].behind \in Nat
  BY CallIs DEF RpcType
<1>2. QED
  BY <1>1 DEF Stale

LEMMA AddedKeeps == ASSUME RowsType, Right, NEW i \in DOMAIN rpcs, Added(i), ~awry', tab # "none" PROVE Right'
<1>0. /\ rows \in Seq(Row) /\ ids \in Nat /\ again \in Seq(Row) /\ rpcs \in Seq(RpcType) /\ told \in Seq(ConnEvent)
  BY DEF RowsType
<1>1. PICK c : c = rpcs[i]
  OBVIOUS
<1>2. /\ c.at = "answered" /\ c.op = "add" /\ rpcs' = Others(i) /\ UNCHANGED <<again, subs, told>> /\ ~Stale(i)
      /\ IF c.ok /\ ~c.dropped
         THEN rows' = Append(rows, [id |-> ids + 1, topic |-> c.topic]) /\ ids' = ids + 1
         ELSE UNCHANGED <<rows, ids>>
  BY <1>1 DEF Added, Answered, connVars
<1>3. PICK left \in Seq(RpcType) : left = Others(i)
  BY OthersIs
<1>4. /\ i \in 1 .. Len(rpcs) /\ c \in RpcType /\ c \in Range(rpcs) /\ Range(rpcs) = Range(left) \cup {c}
      /\ \A d \in Range(left) : ~ (d.op = "add" /\ d.topic = c.topic)
  BY <1>1, <1>2, <1>3, EndedIs
<1>5. c.behind = 0
  BY <1>1, <1>2, NotStale
<1>6. AddTrue(c, rows, rpcs, subs, told)
  BY <1>4, RightIs
<1>7. Steady(rows, ids, again, left, subs, told)
  <2>1. left = RemoveAt(rpcs, i)
    BY <1>3 DEF Others
  <2>2. QED
    BY <1>0, <1>4, <2>1, RightSteady, CallEnds
<1>8. Meant(rows, again, rpcs, subs, told)
  BY Halves2 DEF Right
<1>9. CASE ~ (c.ok /\ ~c.dropped)
  <2>1. ~WillShow(c, c.topic) /\ ~Decides(c) /\ ~Loop(c)
    BY <1>2, <1>9 DEF WillShow, Decides, Loop, Of
  <2>2. Meant(rows, again, left, subs, told)
    BY <1>0, <1>4, <1>5, <1>8, <2>1, FewerMeant
  <2>3. RowsRight(rows, ids, again, left, subs, told)
    BY <1>7, <2>2, Halves2
  <2>4. QED
    BY <1>2, <1>3, <1>9, <2>3 DEF Right
<1>10. CASE c.ok /\ ~c.dropped
  <2>1. PICK w \in Row : w = [id |-> ids + 1, topic |-> c.topic] /\ w.topic = c.topic
    <3>1. ids + 1 \in Nat \ {0} /\ c.topic \in Topics
      BY <1>0, <1>4 DEF RpcType
    <3>2. [id |-> ids + 1, topic |-> c.topic] \in Row
      BY <3>1 DEF Row
    <3>3. QED
      BY <3>2
  <2>2. rows' = Append(rows, w) /\ ids' = ids + 1
    BY <1>2, <1>10, <2>1
  <2>3. Range(rows') = Range(rows) \cup {w}
    BY <1>0, <2>2, RangeAppend
  <2>4. Steady(rows', ids + 1, again, left, subs, told)
    <3>1. c.topic \in Topics /\ c.topic \notin TopicsOf(rows)
      BY <1>2, <1>4, <1>6 DEF RpcType, AddTrue
    <3>2. QED
      BY <1>0, <1>4, <1>7, <2>1, <2>2, <3>1, RowMade
  <2>5. DropsTrue(left, subs, told)
    <3>1. ASSUME NEW k \in DOMAIN told, NEW t \in subs, DroppedAt(told, k, t)
          PROVE  \E d \in Range(left) : d.op = "add" /\ d.topic = t /\ k <= d.behind
      <4>1. PICK d \in Range(rpcs) : d.op = "add" /\ d.topic = t /\ k <= d.behind
        BY <1>8, <3>1 DEF Meant, DropsTrue
      <4>2. ~ (k <= 0)
        <5>1. PICK m \in Nat : DOMAIN told = 1 .. m
          BY <1>0, LenProperties
        <5>2. QED
          BY <5>1
      <4>3. d # c
        BY <1>5, <4>1, <4>2
      <4>4. QED
        BY <1>4, <4>1, <4>3
    <3>2. QED
      BY <3>1 DEF DropsTrue
  <2>6. SubsShown(rows', left, subs)
    <3>1. ASSUME NEW t \in subs PROVE t \in TopicsOf(rows') \/ \E d \in Range(left) : WillShow(d, t)
      <4>1. CASE t = c.topic
        BY <2>1, <2>3, <4>1 DEF TopicsOf
      <4>2. CASE t # c.topic
        <5>1. t \in TopicsOf(rows) \/ \E d \in Range(rpcs) : WillShow(d, t)
          BY <1>8 DEF Meant, SubsShown
        <5>2. ~WillShow(c, t)
          BY <4>2 DEF WillShow
        <5>3. TopicsOf(rows) \subseteq TopicsOf(rows')
          BY <2>3 DEF TopicsOf
        <5>4. QED
          BY <1>4, <5>1, <5>2, <5>3
      <4>3. QED
        BY <4>1, <4>2
    <3>2. QED
      BY <3>1 DEF SubsShown
  <2>7. RowsMeant(rows', again, left, subs, told)
    <3>1. c.topic \in subs \/ DropComes(told, c.topic)
      BY <1>2, <1>6, <1>10 DEF AddTrue, DropComes
    <3>2. ~Decides(c)
      BY <1>2 DEF Decides, Of
    <3>3. ASSUME NEW r \in Range(rows)
          PROVE  \/ r.topic \in subs \/ DropComes(told, r.topic) \/ r \in Range(again)
                 \/ \E d \in Range(left) : Decides(d) /\ d.row = r.id
      BY <1>4, <1>8, <3>2 DEF Meant, RowsMeant
    <3>4. QED
      BY <2>1, <2>3, <3>1, <3>3 DEF RowsMeant
  <2>8. LoopGoesOn(again, left)
    <3>1. ~Loop(c)
      BY <1>2 DEF Loop
    <3>2. QED
      BY <1>4, <1>8, <3>1 DEF Meant, LoopGoesOn
  <2>9. RowsRight(rows', ids + 1, again, left, subs, told)
    BY <2>4, <2>5, <2>6, <2>7, <2>8, Halves2 DEF Meant
  <2>10. QED
    BY <1>2, <1>3, <2>2, <2>9 DEF Right
<1>11. QED
  BY <1>9, <1>10

\* A call ends that has nothing more to decide.
LEMMA EndsRight ==
  ASSUME RowsType, Right, NEW i \in DOMAIN rpcs, rpcs[i].at = "answered", rpcs[i].op \in {"remove", "check"},
         NEW rs \in Seq(Row), RowsRight(rs, ids, again, rpcs, subs, told),
         \A r \in Range(rs) : ~ (Decides(rpcs[i]) /\ rpcs[i].row = r.id)
  PROVE  RowsRight(rs, ids, again, Others(i), subs, told)
<1>0. /\ ids \in Nat /\ again \in Seq(Row) /\ rpcs \in Seq(RpcType) /\ told \in Seq(ConnEvent)
  BY DEF RowsType
<1>1. i \in 1 .. Len(rpcs) /\ Range(rpcs) = Range(Others(i)) \cup {rpcs[i]}
  BY EndedIs
<1>2. Steady(rs, ids, again, Others(i), subs, told)
  <2>1. Steady(rs, ids, again, rpcs, subs, told)
    BY Halves2
  <2>2. QED
    BY <1>0, <1>1, <2>1, CallEnds DEF Others
<1>3. Meant(rs, again, Others(i), subs, told)
  <2>1. Meant(rs, again, rpcs, subs, told)
    BY Halves2
  <2>2. rpcs[i].op # "add" /\ ~Loop(rpcs[i])
    BY DEF Loop
  <2>3. QED
    BY <1>0, <1>1, <2>1, <2>2, FewerMeant
<1>4. QED
  BY <1>2, <1>3, Halves2

LEMMA RemovedKeeps == ASSUME RowsType, Right, NEW i \in DOMAIN rpcs, Removed(i), ~torn' PROVE Right'
<1>1. /\ rpcs[i].at = "answered" /\ rpcs[i].op = "remove" /\ rows' = WithoutRow(rows, rpcs[i].row) /\ rpcs' = Others(i)
      /\ UNCHANGED <<again, subs, told, ids>> /\ (rpcs[i].ok \/ rpcs[i].topic \notin subs)
  BY DEF Removed, Answered, connVars
<1>2. rpcs[i] \in Range(rpcs)
  BY CallIs
<1>3. (\E r \in Range(rows) : r.id = rpcs[i].row) => rpcs[i].topic \notin subs
  <2>1. rpcs[i].ok => TakesOff(rpcs[i])
    BY <1>1 DEF TakesOff, Of
  <2>2. OffTrue(rpcs[i], rows, subs)
    BY <1>2, RightIs
  <2>3. QED
    BY <1>1, <2>1, <2>2 DEF OffTrue
<1>4. RowsRight(rows', ids, again, rpcs, subs, told)
  BY <1>1, <1>2, <1>3, TakesOffRight
<1>5. rows' \in Seq(Row) /\ \A r \in Range(rows') : r.id # rpcs[i].row
  BY <1>1, WithoutRowIs DEF RowsType
<1>6. RowsRight(rows', ids, again, Others(i), subs, told)
  BY <1>1, <1>4, <1>5, EndsRight
<1>7. QED
  BY <1>1, <1>6 DEF Right

LEMMA CheckedKeeps == ASSUME RowsType, Right, NEW i \in DOMAIN rpcs, Checked(i) PROVE Right'
<1>1. /\ rpcs[i].at = "answered" /\ rpcs[i].op = "check" /\ rpcs' = Others(i)
      /\ rows' = (IF Remains(rpcs[i]) THEN rows ELSE WithoutRow(rows, rpcs[i].row))
      /\ UNCHANGED <<again, subs, told, ids>>
  BY DEF Checked, Answered, connVars
<1>2. rpcs[i] \in Range(rpcs)
  BY CallIs
<1>3. rpcs[i].ok
  BY <1>1, <1>2, RightIs DEF CallTrue
<1>4. rows \in Seq(Row) /\ RowsRight(rows, ids, again, rpcs, subs, told)
  BY DEF RowsType, Right
<1>5. CASE rpcs[i].has
  <2>1. rows' = rows /\ ~Decides(rpcs[i])
    BY <1>1, <1>5 DEF Remains, Decides, Of
  <2>2. RowsRight(rows, ids, again, Others(i), subs, told)
    BY <1>1, <1>4, <2>1, EndsRight
  <2>3. QED
    BY <1>1, <2>1, <2>2 DEF Right
<1>6. CASE ~rpcs[i].has
  <2>1. rows' = WithoutRow(rows, rpcs[i].row)
    BY <1>1, <1>3, <1>6 DEF Remains
  <2>2. (\E r \in Range(rows) : r.id = rpcs[i].row) => rpcs[i].topic \notin subs
    <3>1. TakesOff(rpcs[i])
      BY <1>1, <1>6 DEF TakesOff
    <3>2. OffTrue(rpcs[i], rows, subs)
      BY <1>2, RightIs
    <3>3. QED
      BY <3>1, <3>2 DEF OffTrue
  <2>3. RowsRight(rows', ids, again, rpcs, subs, told)
    BY <1>1, <1>2, <2>1, <2>2, TakesOffRight
  <2>4. rows' \in Seq(Row) /\ \A r \in Range(rows') : r.id # rpcs[i].row
    BY <1>4, <2>1, WithoutRowIs
  <2>5. RowsRight(rows', ids, again, Others(i), subs, told)
    BY <1>1, <2>3, <2>4, EndsRight
  <2>6. QED
    BY <1>1, <2>5 DEF Right
<1>7. QED
  BY <1>5, <1>6

\* After a failure the backend is asked: the new call takes the old one's place.
LEMMA AskedRight ==
  ASSUME RowsType, Right, NEW i \in DOMAIN rpcs, rpcs[i].at = "answered", NEW op \in {"check", "settle"},
         rpcs[i].op = IF op = "check" THEN "remove" ELSE "again",
         rpcs' = Append(Others(i), Rpc(op, rpcs[i].topic, rpcs[i].row)),
         UNCHANGED <<rows, ids, again, subs, told>>
  PROVE  Right'
<1>0. /\ rows \in Seq(Row) /\ ids \in Nat /\ again \in Seq(Row) /\ rpcs \in Seq(RpcType) /\ told \in Seq(ConnEvent)
  BY DEF RowsType
<1>1. PICK c \in RpcType : c = rpcs[i]
  BY CallIs
<1>2. PICK left \in Seq(RpcType) : left = Others(i)
  BY OthersIs
<1>3. /\ i \in 1 .. Len(rpcs) /\ c \in Range(rpcs) /\ Range(rpcs) = Range(left) \cup {c}
      /\ Loop(c) => \A d \in Range(left) : ~Loop(d)
  BY <1>1, <1>2, EndedIs
<1>4. PICK d \in RpcType : /\ d = Rpc(op, c.topic, c.row) /\ d.op = op /\ d.topic = c.topic /\ d.row = c.row
                           /\ d.at = "called" /\ d.behind = Len(told) /\ d.ok /\ d.here
  <2>1. c.topic \in Topics /\ c.row \in Nat
    BY DEF RpcType
  <2>2. QED
    BY <2>1, RpcIs
<1>5. rpcs' = Append(left, d) /\ Range(rpcs') = Range(left) \cup {d}
  BY <1>1, <1>2, <1>4, RangeAppend
<1>6. c.at = "answered" /\ (op = "check" => c.op = "remove") /\ (op = "settle" => c.op = "again")
  BY <1>1
<1>7. Steady(rows, ids, again, left, subs, told)
  BY <1>0, <1>2, <1>3, RightSteady, CallEnds DEF Others
<1>8. ASSUME NEW e \in Range(left), Of(e, "again", "called") PROVE e.topic # c.topic
  <2>1. AgainFirst(e, rows, rpcs, subs, told)
    BY <1>3, RightIs
  <2>2. ~Of(c, "remove", "called") /\ e # c
    BY <1>6, <1>8 DEF Of
  <2>3. QED
    BY <1>3, <1>8, <2>1, <2>2 DEF AgainFirst
<1>9. ASSUME NEW e \in Range(left)
      PROVE  /\ Follows(e, d)
             /\ Of(e, "again", "called") /\ d.topic = e.topic => Of(d, "remove", "called") /\ d.row = e.row
  <2>1. ~ (Loop(e) /\ Loop(d))
    BY <1>3, <1>4, <1>6 DEF Loop
  <2>2. Follows(e, d)
    BY <1>4, <2>1 DEF Follows, Of
  <2>3. QED
    BY <1>4, <1>8, <2>2
<1>10. ASSUME NEW r \in Range(again) \cap Range(rows), d.topic = r.topic
       PROVE  d.op \in {"remove", "check"} /\ d.row = r.id
  <2>1. c.op \in {"remove", "check"} /\ c.row = r.id
    <3>1. AgainTrue(rows, ids, again, rpcs, subs, told)
      BY RightIs
    <3>2. c \in Range(rpcs) /\ c.topic = r.topic
      BY <1>3, <1>4, <1>10
    <3>3. QED
      BY <3>1, <3>2 DEF AgainTrue
  <2>2. QED
    BY <1>4, <1>6, <2>1
<1>11. CallGood(d, rows, ids, rpcs', subs, told)
  <2>1. CallTrue(d, rows, ids, told)
    <3>1. CallTrue(c, rows, ids, told)
      BY <1>3, RightIs
    <3>2. Len(told) <= Len(told)
      BY <1>0, LenProperties
    <3>3. QED
      BY <1>4, <1>6, <3>1, <3>2 DEF CallTrue
  <2>2. /\ AddTrue(d, rows, rpcs', subs, told) /\ AgainFirst(d, rows, rpcs', subs, told)
        /\ RemoveTrue(d, rows, subs) /\ OffTrue(d, rows, subs)
    BY <1>4 DEF AddTrue, AgainFirst, RemoveTrue, OffTrue, TakesOff, Of
  <2>3. QED
    BY <2>1, <2>2 DEF CallGood
<1>12. Steady(rows, ids, again, rpcs', subs, told)
  BY <1>5, <1>7, <1>9, <1>10, <1>11, CallMade
<1>13. Meant(rows, again, rpcs', subs, told)
  <2>1. Meant(rows, again, rpcs, subs, told)
    BY Halves2 DEF Right
  <2>2. DropsTrue(rpcs', subs, told)
    BY <1>3, <1>5, <1>6, <2>1 DEF Meant, DropsTrue
  <2>3. SubsShown(rows, rpcs', subs)
    <3>1. \A t : ~WillShow(c, t)
      BY <1>6 DEF WillShow, Of
    <3>2. QED
      BY <1>3, <1>5, <2>1, <3>1 DEF Meant, SubsShown
  <2>4. RowsMeant(rows, again, rpcs', subs, told)
    <3>1. Decides(d)
      BY <1>4 DEF Decides
    <3>2. QED
      BY <1>3, <1>4, <1>5, <2>1, <3>1 DEF Meant, RowsMeant
  <2>5. LoopGoesOn(again, rpcs')
    <3>1. Loop(c) => Loop(d)
      BY <1>4, <1>6 DEF Loop
    <3>2. QED
      BY <1>3, <1>5, <2>1, <3>1 DEF Meant, LoopGoesOn
  <2>6. QED
    BY <2>2, <2>3, <2>4, <2>5 DEF Meant
<1>14. RowsRight(rows, ids, again, rpcs', subs, told)
  BY <1>12, <1>13, Halves2
<1>15. QED
  BY <1>14 DEF Right

LEMMA RemoveFailedKeeps == ASSUME RowsType, Right, NEW i \in DOMAIN rpcs, RemoveFailed(i) PROVE Right'
BY AskedRight DEF RemoveFailed, Answered, connVars
LEMMA AgainFailedKeeps == ASSUME RowsType, Right, NEW i \in DOMAIN rpcs, AgainFailed(i) PROVE Right'
BY AskedRight DEF AgainFailed, Answered, connVars

\* The loop goes on: of what is left of it nothing is subscribed, and nobody asks about it.
LEMMA OnwardRight ==
  ASSUME RowsType, Right, NEW i \in DOMAIN rpcs, rpcs[i].at = "answered", Loop(rpcs[i]),
         NEW rs \in Seq(Row), RowsRight(rs, ids, again, rpcs, subs, told),
         \A r \in Range(rs) : ~ (Decides(rpcs[i]) /\ rpcs[i].row = r.id),
         Onward(i, rs), ~torn', tab # "none"
  PROVE  RowsRight(rs, ids, again', rpcs', subs, told)
<1>0. /\ ids \in Nat /\ again \in Seq(Row) /\ rpcs \in Seq(RpcType) /\ told \in Seq(ConnEvent)
  BY DEF RowsType
<1>1. PICK c \in RpcType : c = rpcs[i]
  BY CallIs
<1>2. PICK left \in Seq(RpcType) : left = Others(i)
  BY OthersIs
<1>3. /\ i \in 1 .. Len(rpcs) /\ c \in Range(rpcs) /\ Range(rpcs) = Range(left) \cup {c}
      /\ \A d \in Range(left) : ~Loop(d)
  BY <1>1, <1>2, EndedIs
<1>4. PICK todo \in Seq(Row) : todo = Only(again, Range(rs)) /\ Range(todo) = Range(again) \cap Range(rs)
  BY <1>0, OnlyRange
<1>5. c.op # "add" /\ \A t : ~WillShow(c, t)
  BY <1>1 DEF Loop, WillShow, Of
<1>6. Steady(rs, ids, again, rpcs, subs, told) /\ Meant(rs, again, rpcs, subs, told)
  BY Halves2
<1>7. AgainTrue(rs, ids, again, rpcs, subs, told) /\ RowsOnce(rs, ids)
  BY <1>6, SteadyIs
<1>8. Steady(rs, ids, again, left, subs, told)
  BY <1>0, <1>2, <1>3, <1>6, CallEnds DEF Others
<1>9. DropsTrue(left, subs, told) /\ SubsShown(rs, left, subs)
  BY <1>3, <1>5, <1>6 DEF Meant, DropsTrue, SubsShown
<1>10. ASSUME NEW r \in Range(rs)
       PROVE  \/ r.topic \in subs \/ DropComes(told, r.topic) \/ r \in Range(todo)
              \/ \E d \in Range(left) : Decides(d) /\ d.row = r.id
  BY <1>1, <1>3, <1>4, <1>6 DEF Meant, RowsMeant
<1>11. PICK m \in Nat : m = Len(todo) /\ DOMAIN todo = 1 .. m
  BY LenProperties
<1>12. ASSUME NEW p \in 1 .. m, NEW q \in 1 .. m, todo[p] = todo[q] PROVE p = q
  <2> DEFINE Different == {x \in Row \X Row : x[1] # x[2]}
  <2>1. PICK k \in Nat : k = Len(again) /\ DOMAIN again = 1 .. k
    BY <1>0, LenProperties
  <2>2. Pairwise(again, Different)
    <3>1. ASSUME NEW a \in 1 .. k, NEW b \in 1 .. k, a < b PROVE <<again[a], again[b]>> \in Different
      <4>1. again[a] \in Row /\ again[b] \in Row
        BY <1>0, <2>1, ElementOfSeq
      <4>2. again[a] # again[b]
        BY <1>7, <2>1, <3>1 DEF AgainTrue
      <4>3. QED
        BY <4>1, <4>2
    <3> HIDE DEF Different
    <3>2. QED
      BY <2>1, <3>1 DEF Pairwise
  <2>3. Pairwise(todo, Different)
    <3> HIDE DEF Different
    <3>1. QED
      BY <1>0, <1>4, <2>2, OnlyPairwise
  <2>4. ~ (p < q)
    BY <1>11, <1>12, <2>3 DEF Pairwise
  <2>5. ~ (q < p)
    BY <1>11, <1>12, <2>3 DEF Pairwise
  <2>6. QED
    BY <2>4, <2>5
<1>13. CASE rpcs' = Others(i) /\ again' = <<>> /\ todo = <<>>
  <2>1. Range(todo) = {} /\ Range(again') = {} /\ DOMAIN again' = {}
    BY <1>13, RangeEmpty
  <2>2. AgainTrue(rs, ids, again', left, subs, told)
    BY <2>1 DEF AgainTrue
  <2>3. RowsMeant(rs, again', left, subs, told)
    BY <1>10, <2>1 DEF RowsMeant
  <2>4. LoopGoesOn(again', left)
    BY <1>13 DEF LoopGoesOn
  <2>5. QED
    BY <1>2, <1>8, <1>9, <1>13, <2>2, <2>3, <2>4, SteadyIs DEF RowsRight, Steady
<1>14. ASSUME NEW row \in Row, todo # <<>>, row = todo[1],
              rpcs' = Append(Others(i), Rpc("again", row.topic, row.id)), again' = Tail(todo),
              ~ \E k \in UserRpcs : rpcs[k].row = row.id
       PROVE  RowsRight(rs, ids, again', rpcs', subs, told)
  <2>1. PICK rest \in Seq(Row) : /\ rest = Tail(todo) /\ DOMAIN rest = 1 .. m - 1 /\ m >= 1
                                 /\ \A k \in 1 .. m - 1 : rest[k] = todo[k + 1]
                                 /\ Range(todo) = Range(rest) \cup {row}
    <3>1. /\ Tail(todo) \in Seq(Row) /\ Len(Tail(todo)) = m - 1 /\ m >= 1
          /\ \A k \in 1 .. m - 1 : Tail(todo)[k] = todo[k + 1]
          /\ Range(todo) = Range(Tail(todo)) \cup {row}
      BY <1>11, <1>14, TailIs
    <3>2. DOMAIN Tail(todo) = 1 .. m - 1
      BY <3>1, LenProperties
    <3>3. QED
      BY <3>1, <3>2
  <2>2. row \in Range(todo) /\ row \notin Range(rest)
    <3>1. ASSUME NEW k \in 1 .. m - 1, rest[k] = row PROVE FALSE
      <4>1. k + 1 \in 1 .. m /\ 1 \in 1 .. m /\ k + 1 # 1
        BY <2>1
      <4>2. todo[k + 1] = todo[1]
        BY <1>14, <2>1, <3>1
      <4>3. QED
        BY <1>12, <4>1, <4>2
    <3>2. QED
      BY <2>1, <3>1 DEF Range
  <2>3. PICK d \in RpcType : /\ d = Rpc("again", row.topic, row.id) /\ d.op = "again" /\ d.topic = row.topic
                             /\ d.row = row.id /\ d.at = "called" /\ d.behind = Len(told) /\ d.ok /\ d.here
    <3>1. row.topic \in Topics /\ row.id \in Nat
      BY DEF Row
    <3>2. QED
      BY <3>1, RpcIs
  <2>4. rpcs' = Append(left, d) /\ Range(rpcs') = Range(left) \cup {d}
    BY <1>2, <1>14, <2>3, RangeAppend
  <2>5. row \in Range(again) /\ row \in Range(rs)
    BY <1>4, <2>2
  <2>6. ASSUME NEW e \in Range(rpcs) PROVE e.topic # row.topic
    <3>1. ASSUME e.topic = row.topic PROVE FALSE
      <4>1. e.op \in {"remove", "check"} /\ e.row = row.id
        BY <1>7, <2>5, <3>1 DEF AgainTrue
      <4>2. PICK k \in DOMAIN rpcs : rpcs[k] = e
        BY DEF Range
      <4>3. k \in UserRpcs
        BY <4>1, <4>2 DEF UserRpcs
      <4>4. QED
        BY <1>14, <4>1, <4>2, <4>3
    <3>2. QED
      BY <3>1
  <2>7. AgainTrue(rs, ids, rest, left, subs, told)
    <3>1. ASSUME NEW p \in 1 .. m - 1, NEW q \in 1 .. m - 1, rest[p] = rest[q] PROVE p = q
      <4>1. p + 1 \in 1 .. m /\ q + 1 \in 1 .. m
        OBVIOUS
      <4>2. p + 1 = q + 1
        BY <1>12, <2>1, <3>1, <4>1
      <4>3. QED
        BY <4>2
    <3>2. Range(rest) \subseteq Range(again)
      BY <1>4, <2>1
    <3>3. QED
      BY <1>3, <1>7, <2>1, <3>1, <3>2 DEF AgainTrue
  <2>8. Steady(rs, ids, rest, left, subs, told)
    BY <1>8, <2>7 DEF Steady
  <2>9. CallGood(d, rs, ids, rpcs', subs, told)
    <3>1. CallTrue(d, rs, ids, told)
      <4>1. row.id \in 1 .. ids
        <5>1. row.id <= ids /\ row.id \in Nat \ {0}
          BY <1>7, <2>5 DEF RowsOnce, Row
        <5>2. QED
          BY <1>0, <5>1
      <4>2. \A r \in Range(rs) : r.id = row.id => r.topic = row.topic
        BY <1>7, <2>5, RowsApart
      <4>3. Len(told) <= Len(told)
        BY <1>0, LenProperties
      <4>4. QED
        BY <2>3, <4>1, <4>2, <4>3 DEF CallTrue
    <3>2. AgainFirst(d, rs, rpcs', subs, told)
      <4>1. row.topic \notin subs /\ ~DropComes(told, row.topic)
        BY <1>7, <2>5 DEF AgainTrue
      <4>2. \A e \in Range(rpcs') : e.topic = d.topic => e = d
        BY <1>3, <2>3, <2>4, <2>6
      <4>3. QED
        BY <2>3, <2>5, <4>1, <4>2 DEF AgainFirst
    <3>3. AddTrue(d, rs, rpcs', subs, told) /\ RemoveTrue(d, rs, subs) /\ OffTrue(d, rs, subs)
      BY <2>3 DEF AddTrue, RemoveTrue, OffTrue, TakesOff, Of
    <3>4. QED
      BY <3>1, <3>2, <3>3 DEF CallGood
  <2>10. ASSUME NEW e \in Range(left)
         PROVE  /\ Follows(e, d)
                /\ Of(e, "again", "called") /\ d.topic = e.topic => Of(d, "remove", "called") /\ d.row = e.row
    <3>1. ~Loop(e) /\ e.topic # d.topic
      BY <1>3, <2>3, <2>6
    <3>2. QED
      BY <3>1 DEF Follows
  <2>11. ASSUME NEW r \in Range(rest) \cap Range(rs) PROVE d.topic # r.topic
    <3>1. r # row
      BY <2>2
    <3>2. r.topic # row.topic
      BY <1>7, <2>5, <3>1, RowsApart
    <3>3. QED
      BY <2>3, <3>2
  <2>12. Steady(rs, ids, rest, rpcs', subs, told)
    BY <2>4, <2>8, <2>9, <2>10, <2>11, CallMade
  <2>13. Meant(rs, rest, rpcs', subs, told)
    <3>1. DropsTrue(rpcs', subs, told) /\ SubsShown(rs, rpcs', subs)
      BY <1>9, <2>4 DEF DropsTrue, SubsShown
    <3>2. RowsMeant(rs, rest, rpcs', subs, told)
      <4>1. Decides(d)
        BY <2>3 DEF Decides
      <4>2. QED
        BY <1>10, <2>1, <2>3, <2>4, <4>1 DEF RowsMeant
    <3>3. LoopGoesOn(rest, rpcs')
      BY <2>3, <2>4 DEF LoopGoesOn, Loop
    <3>4. QED
      BY <3>1, <3>2, <3>3 DEF Meant
  <2>14. QED
    BY <1>14, <2>1, <2>12, <2>13, Halves2
<1>15. QED
  <2>1. CASE rpcs' = Others(i) /\ again' = <<>> /\ torn' = torn
    <3>1. CASE todo = <<>>
      BY <1>13, <2>1, <3>1
    <3>2. CASE todo # <<>>
      BY <1>4, <1>14, <2>1, <3>2 DEF Onward
    <3>3. QED
      BY <3>1, <3>2
  <2>2. ASSUME NEW row \in Row, todo # <<>>, row = todo[1],
               rpcs' = Append(Others(i), Rpc("again", row.topic, row.id)), again' = Tail(todo),
               torn' = (torn \/ \E k \in UserRpcs : rpcs[k].row = row.id)
        PROVE  RowsRight(rs, ids, again', rpcs', subs, told)
    BY <1>14, <2>2
  <2>3. QED
    BY <1>4, <2>1, <2>2, OnwardIs

LEMMA SubscribedAgainKeeps ==
  ASSUME RowsType, Right, NEW i \in DOMAIN rpcs, SubscribedAgain(i), ~torn', tab # "none" PROVE Right'
<1>1. /\ rpcs[i].at = "answered" /\ rpcs[i].op = "again" /\ rpcs[i].ok /\ Onward(i, rows)
      /\ UNCHANGED <<rows, ids, subs, told>>
  BY DEF SubscribedAgain, Answered, connVars
<1>2. Loop(rpcs[i]) /\ ~Decides(rpcs[i])
  BY <1>1 DEF Loop, Decides, Of
<1>3. rows \in Seq(Row) /\ RowsRight(rows, ids, again, rpcs, subs, told)
  BY DEF RowsType, Right
<1>4. RowsRight(rows, ids, again', rpcs', subs, told)
  BY <1>1, <1>2, <1>3, OnwardRight
<1>5. QED
  BY <1>1, <1>4 DEF Right

LEMMA SettledKeeps ==
  ASSUME RowsType, Right, NEW i \in DOMAIN rpcs, Settled(i), ~torn', tab # "none" PROVE Right'
<1>1. rpcs[i].at = "answered" /\ rpcs[i].op = "settle" /\ UNCHANGED <<ids, subs, told>>
  BY DEF Settled, Answered, connVars
<1>2. rpcs[i] \in Range(rpcs) /\ Loop(rpcs[i])
  BY <1>1, CallIs DEF Loop
<1>3. rpcs[i].ok /\ rpcs[i].here
  BY <1>1, <1>2, RightIs DEF CallTrue
<1>4. PICK rs : rs = IF ~rpcs[i].has THEN WithoutRow(rows, rpcs[i].row) ELSE rows
  OBVIOUS
<1>5. rows' = rs /\ Onward(i, rs)
  BY <1>3, <1>4 DEF Settled
<1>6. /\ rs \in Seq(Row) /\ RowsRight(rs, ids, again, rpcs, subs, told)
      /\ \A r \in Range(rs) : ~ (Decides(rpcs[i]) /\ rpcs[i].row = r.id)
  <2>1. rows \in Seq(Row) /\ RowsRight(rows, ids, again, rpcs, subs, told)
    BY DEF RowsType, Right
  <2>2. CASE rpcs[i].has
    <3>1. rs = rows /\ ~Decides(rpcs[i])
      BY <1>1, <1>4, <2>2 DEF Decides, Of
    <3>2. QED
      BY <2>1, <3>1
  <2>3. CASE ~rpcs[i].has
    <3>1. rs = WithoutRow(rows, rpcs[i].row)
      BY <1>4, <2>3
    <3>2. (\E r \in Range(rows) : r.id = rpcs[i].row) => rpcs[i].topic \notin subs
      <4>1. TakesOff(rpcs[i])
        BY <1>1, <2>3 DEF TakesOff
      <4>2. OffTrue(rpcs[i], rows, subs)
        BY <1>2, RightIs
      <4>3. QED
        BY <4>1, <4>2 DEF OffTrue
    <3>3. RowsRight(rs, ids, again, rpcs, subs, told)
      BY <1>1, <1>2, <3>1, <3>2, TakesOffRight
    <3>4. rs \in Seq(Row) /\ \A r \in Range(rs) : r.id # rpcs[i].row
      BY <2>1, <3>1, WithoutRowIs
    <3>5. QED
      BY <3>3, <3>4
  <2>4. QED
    BY <2>2, <2>3
<1>7. RowsRight(rs, ids, again', rpcs', subs, told)
  BY <1>1, <1>2, <1>5, <1>6, OnwardRight
<1>8. QED
  BY <1>1, <1>5, <1>7 DEF Right
-----------------------------------------------------------------------------
(* Rows: the invariant, and what it shows.                                 *)

\* An exception, a tab that was left and a connection that ended stay what they are.
LEMMA LiveBefore == ASSUME RowsType, [RowsNext]_rowVars, RowsLive' PROVE RowsLive
<1>1. conn = "gone" => conn' = "gone"
  <2>1. ASSUME NEW i \in DOMAIN rpcs,
               \/ DoSubscribe(i) \/ DoUnsubscribe(i) \/ Fail(i) \/ DoList(i) \/ ListFails(i)
               \/ Added(i) \/ Removed(i) \/ RemoveFailed(i) \/ Checked(i)
               \/ SubscribedAgain(i) \/ AgainFailed(i) \/ Settled(i)
        PROVE  conn' = conn
    BY <2>1 DEF DoSubscribe, DoUnsubscribe, Fail, DoList, ListFails, Added, Removed, RemoveFailed, Checked,
                SubscribedAgain, AgainFailed, Settled, connVars
  <2>2. ASSUME \/ \E t \in Topics : Renewed(t) \/ Dropped(t) \/ AddSubscription(t)
               \/ (\E r \in Range(rows) : RemoveSubscription(r)) \/ LeaveTab \/ UNCHANGED rowVars
               \/ HearState \/ HearDropped
        PROVE  conn' = conn
    BY <2>2 DEF Renewed, Dropped, AddSubscription, RemoveSubscription, LeaveTab, HearState, HearDropped, connVars, rowVars
  <2>3. ASSUME LinkUp \/ LinkLost \/ LinkGone PROVE conn = "gone" => conn' = "gone"
    BY <2>3 DEF LinkUp, LinkLost, LinkGone
  <2>4. QED
    BY <2>1, <2>2, <2>3 DEF RowsNext, RowsUser, RowsSystem
<1>2. tab = "none" => tab' = "none"
  <2>1. ASSUME NEW i \in DOMAIN rpcs,
               \/ DoSubscribe(i) \/ DoUnsubscribe(i) \/ Fail(i) \/ DoList(i) \/ ListFails(i)
               \/ Added(i) \/ Removed(i) \/ RemoveFailed(i) \/ Checked(i)
               \/ SubscribedAgain(i) \/ AgainFailed(i) \/ Settled(i)
        PROVE  tab' = tab
    BY <2>1 DEF DoSubscribe, DoUnsubscribe, Fail, DoList, ListFails, Added, Removed, RemoveFailed, Checked,
                SubscribedAgain, AgainFailed, Settled
  <2>2. ASSUME \/ LinkUp \/ LinkLost \/ LinkGone
               \/ \E t \in Topics : Renewed(t) \/ Dropped(t) \/ AddSubscription(t)
               \/ (\E r \in Range(rows) : RemoveSubscription(r)) \/ UNCHANGED rowVars \/ HearDropped
        PROVE  tab' = tab
    BY <2>2 DEF LinkUp, LinkLost, LinkGone, Renewed, Dropped, AddSubscription, RemoveSubscription, HearDropped, rowVars
  <2>3. ASSUME HearState \/ LeaveTab PROVE tab = "none" => tab' = "none"
    BY <2>3 DEF HearState, LeaveTab
  <2>4. QED
    BY <2>1, <2>2, <2>3 DEF RowsNext, RowsUser, RowsSystem
<1>3. torn => torn'
  <2>1. ASSUME NEW i \in DOMAIN rpcs,
               \/ DoSubscribe(i) \/ DoUnsubscribe(i) \/ Fail(i) \/ DoList(i) \/ ListFails(i)
               \/ Added(i) \/ RemoveFailed(i) \/ Checked(i) \/ AgainFailed(i)
        PROVE  torn' = torn
    BY <2>1 DEF DoSubscribe, DoUnsubscribe, Fail, DoList, ListFails, Added, RemoveFailed, Checked, AgainFailed
  <2>2. ASSUME NEW i \in DOMAIN rpcs, Removed(i) \/ SubscribedAgain(i) \/ Settled(i) PROVE torn => torn'
    BY <2>2 DEF Removed, SubscribedAgain, Settled, Onward
  <2>3. ASSUME \/ LinkUp \/ LinkLost \/ LinkGone
               \/ \E t \in Topics : Renewed(t) \/ Dropped(t) \/ AddSubscription(t)
               \/ (\E r \in Range(rows) : RemoveSubscription(r)) \/ LeaveTab \/ UNCHANGED rowVars
               \/ HearState \/ HearDropped
        PROVE  torn' = torn
    BY <2>3 DEF LinkUp, LinkLost, LinkGone, Renewed, Dropped, AddSubscription, RemoveSubscription, LeaveTab,
                HearState, HearDropped, rowVars
  <2>4. QED
    BY <2>1, <2>2, <2>3 DEF RowsNext, RowsUser, RowsSystem
<1>4. ~awry
  BY DEF RowsNext, RowsLive, rowVars
<1>5. QED
  BY <1>1, <1>2, <1>3, <1>4 DEF RowsLive

\* Every step keeps it.
LEMMA NextRowsInv == ASSUME RowsInv, [RowsNext]_rowVars PROVE RowsInv'
<1>1. RowsType /\ GoneTold /\ (RowsLive => Right)
  BY DEF RowsInv, RowsTrue, Right
<1>2. RowsType' /\ GoneTold'
  BY <1>1, RowsTypeStep, GoneToldStep
<1>3. ASSUME RowsLive' PROVE Right'
  <2>1. RowsLive /\ Right
    BY <1>1, <1>3, LiveBefore
  <2>2. /\ conn # "gone" /\ tab # "none" /\ conn' # "gone" /\ tab' # "none" /\ ~awry' /\ ~torn'
    BY <1>3, <2>1 DEF RowsLive
  <2>3. CASE LinkUp
    BY <1>1, <2>1, <2>3, LinkUpKeeps
  <2>4. CASE LinkLost
    BY <1>1, <2>1, <2>4, LinkLostKeeps
  <2>5. CASE LinkGone
    BY <2>2, <2>5 DEF LinkGone
  <2>6. CASE HearState
    BY <1>1, <2>1, <2>6, HearStateKeeps
  <2>7. CASE HearDropped
    BY <1>1, <2>1, <2>2, <2>7, HearDroppedKeeps
  <2>8. ASSUME NEW t \in Topics, Renewed(t) PROVE Right'
    BY <2>1, <2>8 DEF Renewed, Right
  <2>9. ASSUME NEW t \in Topics, Dropped(t) PROVE Right'
    BY <1>1, <2>1, <2>9, DroppedKeeps
  <2>10. CASE LeaveTab
    BY <2>2, <2>10 DEF LeaveTab
  <2>11. ASSUME NEW t \in Topics, AddSubscription(t) PROVE Right'
    BY <1>1, <2>1, <2>2, <2>11, AddKeeps
  <2>12. ASSUME NEW r \in Range(rows), RemoveSubscription(r) PROVE Right'
    BY <1>1, <2>1, <2>12, RemoveKeeps
  <2>13. ASSUME NEW i \in DOMAIN rpcs,
                DoSubscribe(i) \/ DoUnsubscribe(i) \/ Fail(i) \/ DoList(i)
         PROVE  Right'
    BY <1>1, <2>1, <2>2, <2>13, DoSubscribeKeeps, DoUnsubscribeKeeps, FailKeeps, DoListKeeps
  <2>14. ASSUME NEW i \in DOMAIN rpcs, ListFails(i) PROVE Right'
    BY <2>2, <2>14 DEF ListFails
  <2>15. ASSUME NEW i \in DOMAIN rpcs, Added(i) \/ Removed(i) \/ RemoveFailed(i) \/ Checked(i) PROVE Right'
    BY <1>1, <2>1, <2>2, <2>15, AddedKeeps, RemovedKeeps, RemoveFailedKeeps, CheckedKeeps
  <2>16. ASSUME NEW i \in DOMAIN rpcs, SubscribedAgain(i) \/ AgainFailed(i) \/ Settled(i) PROVE Right'
    BY <1>1, <2>1, <2>2, <2>16, SubscribedAgainKeeps, AgainFailedKeeps, SettledKeeps
  <2>17. CASE UNCHANGED rowVars
    BY <2>1, <2>17 DEF rowVars, Right
  <2>18. QED
    BY <2>3, <2>4, <2>5, <2>6, <2>7, <2>8, <2>9, <2>10, <2>11, <2>12, <2>13, <2>14, <2>15, <2>16, <2>17
       DEF RowsNext, RowsUser, RowsSystem
<1>4. RowsTrue'
  BY <1>3 DEF RowsTrue, Right
<1>5. QED
  BY <1>2, <1>4 DEF RowsInv

\* The rows that the tab takes over, the first of which is subscribed again.
LEMMA InitRowsInv == ASSUME RowsInit PROVE RowsInv
<1>1. /\ conn = "connecting" /\ subs = {} /\ renew = {} /\ told = <<>> /\ tab = "waiting"
      /\ awry = FALSE /\ torn = FALSE
  BY DEF RowsInit
<1>2. told \in Seq(ConnEvent) /\ Len(told) = 0 /\ DOMAIN told = {}
  BY <1>1, EmptySeq
<1>3. PICK n \in 0 .. MaxRows : \E ts \in [1 .. n -> Topics] :
          /\ IsInjective(ts)
          /\ rows = [i \in 1 .. n |-> [id |-> i, topic |-> ts[i]]] /\ ids = n
          /\ again = IF n = 0 THEN <<>> ELSE Tail([i \in 1 .. n |-> [id |-> i, topic |-> ts[i]]])
          /\ rpcs = IF n = 0 THEN <<>> ELSE <<Rpc("again", ts[1], 1)>>
  BY DEF RowsInit
<1>4. PICK ts \in [1 .. n -> Topics] :
          /\ IsInjective(ts)
          /\ rows = [i \in 1 .. n |-> [id |-> i, topic |-> ts[i]]] /\ ids = n
          /\ again = IF n = 0 THEN <<>> ELSE Tail(rows)
          /\ rpcs = IF n = 0 THEN <<>> ELSE <<Rpc("again", ts[1], 1)>>
  BY <1>3
<1>5. n \in Nat
  BY RowsAssumption
<1>6. /\ rows \in Seq(Row) /\ Len(rows) = n /\ DOMAIN rows = 1 .. n
      /\ \A i \in 1 .. n : rows[i].id = i /\ rows[i].topic = ts[i]
  <2>1. \A i \in 1 .. n : [id |-> i, topic |-> ts[i]] \in Row
    BY <1>5 DEF Row
  <2>2. rows \in [1 .. n -> Row]
    BY <1>4, <2>1
  <2>3. rows \in Seq(Row) /\ Len(rows) = n
    BY <1>5, <2>2, SeqDef, LenProperties
  <2>4. QED
    BY <1>4, <2>2, <2>3
<1>7. RowsOnce(rows, n)
  <2>1. \A i, j \in 1 .. n : rows[i].id = rows[j].id \/ rows[i].topic = rows[j].topic => i = j
    BY <1>4, <1>6 DEF IsInjective
  <2>2. \A r \in Range(rows) : r.id <= n
    BY <1>5, <1>6 DEF Range
  <2>3. QED
    BY <1>6, <2>1, <2>2 DEF RowsOnce
<1>8. CASE n = 0
  <2>1. again = <<>> /\ rpcs = <<>> /\ Range(again) = {} /\ Range(rpcs) = {} /\ Range(rows) = {}
        /\ DOMAIN again = {} /\ DOMAIN rpcs = {}
    <3>1. Range(rows) = {}
      BY <1>6, <1>8 DEF Range
    <3>2. QED
      BY <1>4, <1>8, <3>1, RangeEmpty
  <2>2. RowsType
    BY <1>1, <1>2, <1>4, <1>5, <1>6, <2>1, EmptySeq DEF RowsType
  <2>3. Steady(rows, ids, again, rpcs, subs, told)
    BY <1>4, <1>7, <2>1 DEF Steady, Ordered, CallsTrue, AgainTrue
  <2>4. Meant(rows, again, rpcs, subs, told)
    BY <1>1, <2>1 DEF Meant, DropsTrue, SubsShown, RowsMeant, LoopGoesOn
  <2>5. QED
    BY <1>1, <2>2, <2>3, <2>4, Halves2 DEF RowsInv, RowsTrue, GoneTold
<1>9. CASE n # 0
  <2>1. 1 \in 1 .. n /\ ts[1] \in Topics
    BY <1>5, <1>9
  <2>2. PICK c \in RpcType : /\ c = Rpc("again", ts[1], 1) /\ c.op = "again" /\ c.topic = ts[1] /\ c.row = 1
                             /\ c.at = "called" /\ c.behind = 0 /\ c.ok /\ c.here
    <3>1. Rpc("again", ts[1], 1) =
             [op |-> "again", topic |-> ts[1], row |-> 1, live |-> FALSE, dropped |-> FALSE,
              behind |-> 0, at |-> "called", ok |-> TRUE, has |-> FALSE, here |-> TRUE]
      BY <1>1, <1>2 DEF Rpc
    <3> DEFINE first == [op |-> "again", topic |-> ts[1], row |-> 1, live |-> FALSE, dropped |-> FALSE,
                         behind |-> 0, at |-> "called", ok |-> TRUE, has |-> FALSE, here |-> TRUE]
    <3>2. first \in RpcType
      BY <2>1 DEF RpcType
    <3>3. QED
      BY <3>1, <3>2
  <2>3. /\ rpcs = <<c>> /\ Range(rpcs) = {c} /\ rpcs \in Seq(RpcType) /\ DOMAIN rpcs = {1}
    BY <1>4, <1>9, <2>2 DEF Range
  <2>4. /\ again \in Seq(Row) /\ Len(again) = n - 1 /\ DOMAIN again = 1 .. n - 1
        /\ \A i \in 1 .. n - 1 : again[i] = rows[i + 1]
        /\ Range(rows) = Range(again) \cup {rows[1]}
    <3>1. again = Tail(rows) /\ rows # <<>>
      BY <1>4, <1>6, <1>9, EmptySeq
    <3>2. again \in Seq(Row) /\ Len(again) = n - 1
          /\ (\A i \in 1 .. n - 1 : again[i] = rows[i + 1]) /\ Range(rows) = Range(again) \cup {rows[1]}
      BY <1>6, <3>1, TailIs
    <3>3. DOMAIN again = 1 .. n - 1
      BY <3>2, LenProperties
    <3>4. QED
      BY <3>2, <3>3
  <2>5. RowsType
    BY <1>1, <1>2, <1>4, <1>5, <1>6, <2>3, <2>4 DEF RowsType
  <2>6. rows[1] \in Range(rows) /\ rows[1].id = 1 /\ rows[1].topic = ts[1]
    BY <1>6, <2>1 DEF Range
  <2>7. ASSUME NEW r \in Range(again) PROVE r \in Range(rows) /\ r.id <= n /\ r.topic # ts[1]
    <3>1. PICK i \in 1 .. n - 1 : r = again[i]
      BY <2>4 DEF Range
    <3>2. i + 1 \in 1 .. n /\ i + 1 # 1 /\ r = rows[i + 1]
      BY <1>5, <2>4, <3>1
    <3>3. r.topic = ts[i + 1] /\ r.id = i + 1
      BY <1>6, <3>2
    <3>4. ts[i + 1] # ts[1]
      BY <1>4, <2>1, <3>2 DEF IsInjective
    <3>5. QED
      BY <2>4, <3>2, <3>3, <3>4
  <2>8. \A t : ~DropComes(told, t)
    BY <1>2 DEF DropComes
  <2>9. CallGood(c, rows, n, rpcs, subs, told)
    <3>1. CallTrue(c, rows, n, told)
      <4>1. \A r \in Range(rows) : r.id = 1 => r.topic = ts[1]
        BY <1>6, <1>7, <2>6, RowsApart
      <4>2. 0 <= Len(told)
        BY <1>2
      <4>3. QED
        BY <2>1, <2>2, <4>1, <4>2 DEF CallTrue
    <3>2. AgainFirst(c, rows, rpcs, subs, told)
      BY <1>1, <2>2, <2>3, <2>6, <2>8 DEF AgainFirst
    <3>3. AddTrue(c, rows, rpcs, subs, told) /\ RemoveTrue(c, rows, subs) /\ OffTrue(c, rows, subs)
      BY <1>1, <2>2 DEF AddTrue, RemoveTrue, OffTrue
    <3>4. QED
      BY <3>1, <3>2, <3>3 DEF CallGood
  <2>10. AgainTrue(rows, n, again, rpcs, subs, told)
    <3>1. ASSUME NEW i \in 1 .. n - 1, NEW j \in 1 .. n - 1, again[i] = again[j] PROVE i = j
      <4>1. i + 1 \in 1 .. n /\ j + 1 \in 1 .. n /\ rows[i + 1] = rows[j + 1]
        BY <1>5, <2>4, <3>1
      <4>2. i + 1 = j + 1
        BY <1>6, <4>1
      <4>3. QED
        BY <4>2
    <3>2. QED
      BY <1>1, <2>2, <2>3, <2>4, <2>7, <2>8, <3>1 DEF AgainTrue
  <2>11. Steady(rows, ids, again, rpcs, subs, told)
    <3>1. Ordered(rpcs)
      BY <2>3 DEF Ordered
    <3>2. CallsTrue(rows, n, rpcs, subs, told)
      BY <2>3, <2>9 DEF CallsTrue, CallGood
    <3>3. QED
      BY <1>4, <1>7, <2>10, <3>1, <3>2 DEF Steady
  <2>12. Meant(rows, again, rpcs, subs, told)
    <3>1. RowsMeant(rows, again, rpcs, subs, told)
      <4>1. Decides(c)
        BY <2>2 DEF Decides
      <4>2. QED
        BY <2>2, <2>3, <2>4, <2>6, <4>1 DEF RowsMeant
    <3>2. LoopGoesOn(again, rpcs)
      BY <2>2, <2>3 DEF LoopGoesOn, Loop
    <3>3. QED
      BY <1>1, <3>1, <3>2 DEF Meant, DropsTrue, SubsShown
  <2>13. QED
    BY <1>1, <2>5, <2>11, <2>12, Halves2 DEF RowsInv, RowsTrue, GoneTold
<1>10. QED
  BY <1>8, <1>9

\* When nothing is under way the rows are what is subscribed, each once.
LEMMA RowsInvShows == ASSUME RowsInv PROVE RowsServed
<1>1. SUFFICES ASSUME Quiet, ~awry, ~torn
               PROVE  TopicsOf(rows) = subs /\ Len(rows) = Cardinality(subs)
  BY DEF RowsServed
<1>2. tab = "connected" /\ rpcs = <<>> /\ told = <<>> /\ DOMAIN told = {} /\ Range(rpcs) = {}
  BY <1>1, RangeEmpty DEF Quiet
<1>3. RowsType /\ Right
  BY <1>1, <1>2 DEF RowsInv, RowsTrue, RowsLive, GoneTold, Right
<1>4. again = <<>> /\ Range(again) = {}
  <2>1. again = <<>>
    BY <1>2, <1>3, RightIs DEF LoopGoesOn
  <2>2. QED
    BY <2>1, RangeEmpty
<1>5. subs \subseteq TopicsOf(rows)
  BY <1>2, <1>3, RightIs DEF SubsShown
<1>6. TopicsOf(rows) \subseteq subs
  BY <1>2, <1>3, <1>4, RightIs DEF RowsMeant, DropComes, TopicsOf
<1>7. PICK n \in Nat : n = Len(rows) /\ DOMAIN rows = 1 .. n /\ rows \in Seq(Row)
  BY <1>3, LenProperties DEF RowsType
<1> DEFINE names == [i \in 1 .. n |-> rows[i].topic]
<1>8. names \in Bijection(1 .. n, subs)
  <2>1. \A i \in 1 .. n : rows[i].topic \in subs
    BY <1>6, <1>7 DEF TopicsOf, Range
  <2>2. \A t \in subs : \E i \in 1 .. n : rows[i].topic = t
    BY <1>5, <1>7 DEF TopicsOf, Range
  <2>3. \A i, j \in 1 .. n : rows[i].topic = rows[j].topic => i = j
    BY <1>3, <1>7, RightIs DEF RowsOnce
  <2>4. names \in [1 .. n -> subs]
    BY <2>1
  <2>5. QED
    BY <2>2, <2>3, <2>4 DEF Bijection, Injection, Surjection, IsInjective
<1>9. IsFiniteSet(1 .. n) /\ Cardinality(1 .. n) = n
  BY FS_Interval
<1>10. Cardinality(subs) = Cardinality(1 .. n)
  BY <1>8, <1>9, FS_Bijection DEF ExistsBijection
<1>11. QED
  BY <1>5, <1>6, <1>7, <1>9, <1>10

\* The inductive invariant of the rows, for any topics and any number of rows,
\* calls under way and lost links.
THEOREM RowsInvHolds == RowsSpec => []RowsInv
<1>1. RowsInit => RowsInv
  BY InitRowsInv
<1>2. RowsInv /\ [RowsNext]_rowVars => RowsInv'
  BY NextRowsInv
<1>3. QED
  BY <1>1, <1>2, PTL DEF RowsSpec

\* When nothing is under way the rows of a connected tab are what the backend
\* has subscribed, each topic once, whatever was dropped, refused or left
\* unanswered, and in whatever order it was told (subscriptions.ts:43-44,
\* 153-154; connections.ts:478-479).
THEOREM RowsAlwaysServed == RowsSpec => []RowsServed
<1>1. RowsInv => RowsServed
  BY RowsInvShows
<1>2. QED
  BY <1>1, RowsInvHolds, PTL

\* The rows in the panel are those rows.
THEOREM PanelHasRows == FrontSpec => RowsSpec
<1>1. FrontInit => RowsInit
  BY DEF FrontInit
<1>2. [FrontNext]_frontVars => [RowsNext]_rowVars
  <2>1. SUFFICES ASSUME [FrontNext]_frontVars PROVE [RowsNext]_rowVars
    OBVIOUS
  <2>2. CASE UNCHANGED frontVars
    BY <2>2 DEF frontVars
  <2>3. CASE FrontNext
    BY <2>3 DEF FrontNext
  <2>4. QED
    BY <2>1, <2>2, <2>3
<1>3. QED
  BY <1>1, <1>2, PTL DEF RowsSpec, FrontSpec
=============================================================================
