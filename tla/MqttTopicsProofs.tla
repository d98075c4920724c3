-------------------------- MODULE MqttTopicsProofs --------------------------
(***************************************************************************)
(* Proofs about MqttSubscriptions, for any set of filters and any number   *)
(* of links: ListAgrees and ListedIsServed hold in every state.  Then      *)
(* about MqttTopicScan, for any set of scans and any bounds: every client  *)
(* has its owner, what runs is served and tells its end, and no message is *)
(* missed.                                                                 *)
(***************************************************************************)
EXTENDS MqttSubscriptions, MqttTopicScan, FiniteSetTheorems, SequenceTheorems, TLAPS

-----------------------------------------------------------------------------
(* The subscriptions of a connection.                                      *)

Sub == [topic : Topics, qos : QoS]
Request ==
    [kind : {"subscribe", "unsubscribe", "resubscribe", "cleanUp"}, topic : Topics, qos : QoS,
     fresh : BOOLEAN, step : Results \cup {"sent", "drop"}]

Elements(list) == {list[i] : i \in DOMAIN list}
Listed == Elements(subs)

TypeOK ==
    /\ state \in {"connecting", "connected", "over"}
    /\ link \in BOOLEAN
    /\ links \in Nat
    /\ upCalls \in Nat
    /\ subs \in Seq(Sub)
    /\ routes \in SUBSET Topics
    /\ broker \in [Topics -> QoS \cup {Unheld}]
    /\ op \in {Free, NextSub} \cup Request
    /\ todo \in Seq(Sub)
    /\ known \in SUBSET Topics
    /\ doubt \in SUBSET Topics
    /\ leftover \in SUBSET Topics

\* A filter is listed once.
Unique == \A i, j \in DOMAIN subs : subs[i].topic = subs[j].topic => i = j

\* Until the connection is made nobody asks the broker, and every link waits
\* for its onConnected.
Early == state = "connecting" => op = Free /\ upCalls = links /\ routes = {}

\* What is still to be made again is listed as it was copied, or no longer.
CopyTrue ==
    op.kind \in {"resubscribe", "cleanUp"} =>
        \A s \in Elements(todo) : s.topic \in Subscribed => s \in Listed

\* A request of resubscribe is about the head of the copy, which is listed
\* until it is dropped.
AtHead ==
    op.kind \in {"resubscribe", "cleanUp"} /\ op # NextSub =>
        /\ todo # <<>>
        /\ op.topic = Head(todo).topic
        /\ op.qos = Head(todo).qos
        /\ op.topic \in Subscribed <=> op.kind = "resubscribe"

\* Which answers a request can have got.
Answers ==
    /\ op.kind = "subscribe" => op.step # "drop"
    /\ op.kind \in {"unsubscribe", "cleanUp"} => op.step \in {"sent", "ok", "timeout", "failed"}

KnownTrue == state # "over" => known = Subscribed

\* A route belongs to what is listed or left over, or to the request at hand.
Adds ==
    \/ op.kind = "cleanUp"
    \/ op.kind = "subscribe" /\ op.fresh /\ op.step \in {"sent", "ok"}
RoutesTrue ==
    /\ routes \subseteq Subscribed \cup leftover \cup (IF Adds THEN {op.topic} ELSE {})
    /\ op.kind \in {"unsubscribe", "cleanUp"} /\ op.step \in {"ok", "timeout"} => op.topic \notin routes
    /\ op.kind \in {"subscribe", "resubscribe"} /\ op.step \in {"sent", "ok"} => op.topic \in routes

Served(s) ==
    /\ broker[s.topic] # Unheld
    /\ s.topic \in routes
    /\ s.topic \in doubt \/ broker[s.topic] = s.qos

\* The link is up and resubscribe was called for it.
Calm == link /\ upCalls = 0 /\ state = "connected"

\* Then each listed subscription is served, unless the request at hand is about
\* it or resubscribe has still to come to it.
Excused(s) ==
    \/ op.kind = "subscribe" /\ op.step = "ok" /\ s.topic = op.topic
    \/ op.kind = "unsubscribe" /\ op.step \in {"ok", "timeout"} /\ s.topic = op.topic
    \/ op.kind \in {"resubscribe", "cleanUp"} /\ s \in Elements(todo)
ServedTrue == Calm => \A s \in Listed : Served(s) \/ Excused(s)

\* And the broker has what it accepted, under a route that was there before if
\* the subscription was.
AcceptedTrue ==
    Calm /\ op.kind \in {"subscribe", "resubscribe"} =>
        /\ op.step = "ok" => broker[op.topic] = op.qos
        /\ op.kind = "subscribe" /\ op.step = "sent" /\ op.fresh => op.topic \notin Subscribed

IInv ==
    /\ TypeOK /\ Unique /\ Early /\ CopyTrue /\ AtHead /\ Answers
    /\ KnownTrue /\ RoutesTrue /\ ServedTrue /\ AcceptedTrue
----------------------------------------------------------------------------
(* Lists                                                                   *)

LEMMA SubscribedOfListed == Subscribed = {s.topic : s \in Listed}
BY DEF Subscribed, TopicsOf, Listed, Elements

\* setSub adds the filter, or gives it the new quality of service.
LEMMA SetSubLists ==
  ASSUME subs \in Seq(Sub), NEW t \in Topics, NEW q \in QoS, SetSub(t, q)
  PROVE  /\ subs' \in Seq(Sub)
         /\ Unique => Unique'
         /\ Listed' = {s \in Listed : s.topic # t} \cup {[topic |-> t, qos |-> q]}
         /\ Subscribed' = Subscribed \cup {t}
<1> DEFINE n == Len(subs)
           new == [topic |-> t, qos |-> q]
<1>1. n \in Nat /\ DOMAIN subs = 1..n /\ \A i \in 1..n : subs[i] \in Sub
  BY LenProperties, ElementOfSeq
<1>2. new \in Sub
  BY DEF Sub
<1>3. CASE t \in Subscribed
  <2>1. subs' = [i \in 1..n |-> IF subs[i].topic = t THEN [subs[i] EXCEPT !.qos = q] ELSE subs[i]]
    BY <1>1, <1>3 DEF SetSub
  <2>2. DOMAIN subs' = 1..n
    BY <2>1
  <2>3. \A i \in 1..n : subs'[i] = IF subs[i].topic = t THEN new ELSE subs[i]
    BY <1>1, <2>1 DEF Sub
  <2>4. subs' \in Seq(Sub)
    <3>1. subs' \in [1..n -> Sub]
      BY <1>1, <1>2, <2>1, <2>3
    <3>2. QED
      BY <1>1, <3>1, SeqDef
  <2>5. PICK k \in 1..n : subs[k].topic = t
    BY <1>1, <1>3 DEF Subscribed, TopicsOf
  <2>6. QED
    BY <1>1, <2>2, <2>3, <2>4, <2>5 DEF Unique, Listed, Elements, Subscribed, TopicsOf
<1>4. CASE t \notin Subscribed
  <2>1. subs' = Append(subs, new)
    BY <1>4 DEF SetSub
  <2>2. /\ subs' \in Seq(Sub)
        /\ DOMAIN subs' = 1..(n + 1)
        /\ \A i \in 1..n : subs'[i] = subs[i]
        /\ subs'[n + 1] = new
    BY <1>1, <1>2, <2>1, AppendProperties, LenProperties
  <2>3. \A i \in 1..n : subs[i].topic # t
    BY <1>1, <1>4 DEF Subscribed, TopicsOf
  <2>4. QED
    BY <1>1, <2>2, <2>3 DEF Unique, Listed, Elements, Subscribed, TopicsOf
<1>5. QED
  BY <1>3, <1>4

\* deleteSub takes the filter off the list.
LEMMA DeleteSubLists ==
  ASSUME subs \in Seq(Sub), Unique, NEW t \in Topics, DeleteSub(t)
  PROVE  /\ subs' \in Seq(Sub)
         /\ Unique'
         /\ Listed' = {s \in Listed : s.topic # t}
         /\ Subscribed' = Subscribed \ {t}
<1> DEFINE n == Len(subs)
<1>1. n \in Nat /\ DOMAIN subs = 1..n /\ \A i \in 1..n : subs[i] \in Sub
  BY LenProperties, ElementOfSeq
<1>2. CASE t \notin Subscribed
  BY <1>1, <1>2 DEF DeleteSub, Unique, Listed, Elements, Subscribed, TopicsOf
<1>3. CASE t \in Subscribed
  <2>1. PICK k \in 1..n : subs[k].topic = t /\ subs' = RemoveAt(subs, k)
    BY <1>1, <1>3 DEF DeleteSub
  <2>2. /\ SubSeq(subs, 1, k - 1) \in Seq(Sub)
        /\ Len(SubSeq(subs, 1, k - 1)) = k - 1
        /\ \A i \in 1..(k - 1) : SubSeq(subs, 1, k - 1)[i] = subs[i]
    BY <1>1, SubSeqProperties
  <2>3. /\ SubSeq(subs, k + 1, n) \in Seq(Sub)
        /\ Len(SubSeq(subs, k + 1, n)) = n - k
        /\ \A i \in 1..(n - k) : SubSeq(subs, k + 1, n)[i] = subs[k + i]
    <3>1. k + 1 \in Int /\ n \in Int /\ \A i \in (k + 1)..n : subs[i] \in Sub
      BY <1>1
    <3>2. /\ SubSeq(subs, k + 1, n) \in Seq(Sub)
          /\ Len(SubSeq(subs, k + 1, n)) = IF k + 1 <= n THEN n - (k + 1) + 1 ELSE 0
          /\ \A i \in 1..(n - (k + 1) + 1) : SubSeq(subs, k + 1, n)[i] = subs[(k + 1) + i - 1]
      BY <3>1, SubSeqProperties
    <3>3. /\ (IF k + 1 <= n THEN n - (k + 1) + 1 ELSE 0) = n - k
          /\ n - (k + 1) + 1 = n - k
      <4> HIDE DEF n
      <4>1. n \in Nat /\ k \in 1..n
        BY <1>1
      <4>2. n - (k + 1) + 1 = n - k
        BY <4>1
      <4>3. k + 1 <= n \/ n - k = 0
        BY <4>1
      <4>4. QED
        BY <4>2, <4>3, Zenon
    <3>4. ASSUME NEW i \in 1..(n - k) PROVE SubSeq(subs, k + 1, n)[i] = subs[k + i]
      <4>1. (k + 1) + i - 1 = k + i
        BY <1>1
      <4>2. QED
        BY <3>2, <3>3, <4>1, Zenon
    <3>5. QED
      BY <3>2, <3>3, <3>4, Zenon
  <2>4. /\ subs' \in Seq(Sub)
        /\ Len(subs') = n - 1
        /\ \A i \in 1..(n - 1) : subs'[i] = IF i <= k - 1 THEN subs[i] ELSE subs[i + 1]
    <3> DEFINE left == SubSeq(subs, 1, k - 1)
               right == SubSeq(subs, k + 1, n)
    <3>1. subs' = left \o right
      BY <2>1 DEF RemoveAt
    <3> HIDE DEF left, right
    <3>2. /\ left \in Seq(Sub) /\ Len(left) = k - 1
          /\ \A i \in 1..(k - 1) : left[i] = subs[i]
      BY <2>2 DEF left
    <3>3. /\ right \in Seq(Sub) /\ Len(right) = n - k
          /\ \A i \in 1..(n - k) : right[i] = subs[k + i]
      BY <2>3 DEF right
    <3>4. /\ left \o right \in Seq(Sub)
          /\ Len(left \o right) = Len(left) + Len(right)
          /\ \A i \in 1..(Len(left) + Len(right)) :
                (left \o right)[i] = IF i <= Len(left) THEN left[i] ELSE right[i - Len(left)]
      BY <3>2, <3>3, ConcatProperties
    <3>5. (k - 1) + (n - k) = n - 1
      BY <1>1
    <3>6. ASSUME NEW i \in 1..(n - 1)
          PROVE  subs'[i] = IF i <= k - 1 THEN subs[i] ELSE subs[i + 1]
      <4>1. CASE i <= k - 1
        BY <1>1, <3>1, <3>2, <3>3, <3>4, <4>1
      <4>2. CASE ~(i <= k - 1)
        <5>1. i - (k - 1) \in 1..(n - k) /\ k + (i - (k - 1)) = i + 1
          BY <1>1, <4>2
        <5>2. subs'[i] = right[i - (k - 1)]
          BY <1>1, <3>1, <3>2, <3>3, <3>4, <4>2
        <5>3. QED
          BY <3>3, <4>2, <5>1, <5>2
      <4>3. QED
        BY <4>1, <4>2
    <3>7. QED
      BY <3>1, <3>2, <3>3, <3>4, <3>5, <3>6
  <2>5. DOMAIN subs' = 1..(n - 1)
    BY <2>4, LenProperties
  <2>6. \A i \in 1..n : i # k => subs[i].topic # t
    BY <1>1, <2>1 DEF Unique
  <2>7. \A i \in 1..n : i # k => \E j \in 1..(n - 1) : subs'[j] = subs[i]
    <3> SUFFICES ASSUME NEW i \in 1..n, i # k PROVE \E j \in 1..(n - 1) : subs'[j] = subs[i]
      OBVIOUS
    <3>1. CASE i < k
      BY <1>1, <2>4, <3>1
    <3>2. CASE i > k
      <4>1. i - 1 \in 1..(n - 1) /\ ~(i - 1 <= k - 1) /\ (i - 1) + 1 = i
        BY <1>1, <3>2
      <4>2. subs'[i - 1] = subs[i]
        BY <2>4, <4>1
      <4>3. QED
        BY <4>1, <4>2
    <3>3. QED
      BY <1>1, <3>1, <3>2
  <2>8. \A j \in 1..(n - 1) : \E i \in 1..n : i # k /\ subs'[j] = subs[i]
    <3> SUFFICES ASSUME NEW j \in 1..(n - 1) PROVE \E i \in 1..n : i # k /\ subs'[j] = subs[i]
      OBVIOUS
    <3>1. CASE j <= k - 1
      <4>1. j \in 1..n /\ j # k /\ subs'[j] = subs[j]
        BY <1>1, <2>4, <3>1
      <4>2. QED
        BY <4>1, Zenon
    <3>2. CASE ~(j <= k - 1)
      <4>1. j + 1 \in 1..n /\ j + 1 # k /\ subs'[j] = subs[j + 1]
        BY <1>1, <2>4, <3>2
      <4>2. QED
        BY <4>1, Zenon
    <3>3. QED
      BY <3>1, <3>2
  <2>9. Unique'
    <3> DEFINE from(i) == IF i <= k - 1 THEN i ELSE i + 1
    <3>1. \A i \in 1..(n - 1) : from(i) \in 1..n /\ subs'[i] = subs[from(i)]
      BY <1>1, <2>4
    <3>2. \A i, j \in 1..(n - 1) : from(i) = from(j) => i = j
      BY <1>1
    <3> HIDE DEF from
    <3>3. \A i, j \in 1..n : subs[i].topic = subs[j].topic => i = j
      BY <1>1 DEF Unique
    <3>4. \A i, j \in 1..(n - 1) : subs'[i].topic = subs'[j].topic => i = j
      BY <3>1, <3>2, <3>3
    <3>5. QED
      BY <2>5, <3>4 DEF Unique
  <2>10. Listed' = {s \in Listed : s.topic # t}
    <3>1. Listed' = {subs'[j] : j \in 1..(n - 1)} /\ Listed = {subs[i] : i \in 1..n}
      BY <1>1, <2>5 DEF Listed, Elements
    <3>2. \A s : s \in Listed' => s \in Listed /\ s.topic # t
      BY <2>6, <2>8, <3>1
    <3>3. \A s \in Listed : s.topic # t => s \in Listed'
      BY <2>1, <2>7, <3>1
    <3>4. QED
      BY <3>2, <3>3
  <2>11. Subscribed' = Subscribed \ {t}
    <3>1. Subscribed = {s.topic : s \in Listed} /\ Subscribed' = {s.topic : s \in Listed'}
      BY DEF Subscribed, TopicsOf, Listed, Elements
    <3>2. QED
      BY <2>10, <3>1
  <2>12. QED
    BY <2>4, <2>9, <2>10, <2>11
<1>4. QED
  BY <1>2, <1>3

\* resubscribe goes on with the rest of its copy.
LEMMA RestOfCopy ==
  ASSUME todo \in Seq(Sub), todo # <<>>
  PROVE  /\ Head(todo) \in Sub
         /\ Tail(todo) \in Seq(Sub)
         /\ Elements(todo) = Elements(Tail(todo)) \cup {Head(todo)}
<1> DEFINE n == Len(todo)
<1>1. /\ Head(todo) \in Sub /\ Tail(todo) \in Seq(Sub)
      /\ Len(Tail(todo)) = n - 1
      /\ \A i \in 1..(n - 1) : Tail(todo)[i] = todo[i + 1]
  BY HeadTailProperties
<1>2. n \in Nat \ {0} /\ DOMAIN todo = 1..n /\ DOMAIN Tail(todo) = 1..(n - 1)
  BY <1>1, LenProperties, EmptySeq
<1>3. Head(todo) = todo[1]
  OBVIOUS
<1>4. \A i \in 1..n : i = 1 \/ i - 1 \in 1..(n - 1)
  BY <1>2
<1>5. Elements(Tail(todo)) \subseteq Elements(todo)
  BY <1>1, <1>2 DEF Elements
<1>6. Elements(todo) \subseteq Elements(Tail(todo)) \cup {Head(todo)}
  <2> SUFFICES ASSUME NEW i \in 1..n PROVE todo[i] \in Elements(Tail(todo)) \cup {Head(todo)}
    BY <1>2 DEF Elements
  <2>1. CASE i = 1
    BY <1>3, <2>1
  <2>2. CASE i # 1
    <3>1. i - 1 \in 1..(n - 1) /\ Tail(todo)[i - 1] = todo[i]
      BY <1>1, <1>2, <1>4, <2>2
    <3>2. QED
      BY <1>2, <3>1 DEF Elements
  <2>3. QED
    BY <2>1, <2>2
<1>7. QED
  <2>1. Head(todo) \in Elements(todo)
    BY <1>2, <1>3 DEF Elements
  <2>2. QED
    BY <1>1, <1>5, <1>6, <2>1
----------------------------------------------------------------------------
(* Steps                                                                   *)

\* Nothing is subscribed yet, and there is no connection.
LEMMA InitInv == Init => IInv
<1> SUFFICES ASSUME Init PROVE IInv
  OBVIOUS
<1>1. Listed = {} /\ Subscribed = {}
  BY DEF Init, Listed, Elements, Subscribed, TopicsOf
<1>2. TypeOK
  <2>1. subs \in Seq(Sub) /\ todo \in Seq(Sub)
    BY EmptySeq DEF Init
  <2>2. /\ link \in BOOLEAN /\ state \in {"connecting", "connected", "over"}
        /\ op \in {Free, NextSub} \cup Request
    BY Zenon DEF Init
  <2>3. links \in Nat /\ upCalls \in Nat /\ broker \in [Topics -> QoS \cup {Unheld}]
    BY SMT DEF Init
  <2>4. /\ routes \in SUBSET Topics /\ known \in SUBSET Topics
        /\ doubt \in SUBSET Topics /\ leftover \in SUBSET Topics
    BY Zenon DEF Init
  <2>5. QED
    BY <2>1, <2>2, <2>3, <2>4 DEF TypeOK
<1>3. Unique /\ Early /\ KnownTrue
  BY <1>1 DEF Init, Unique, Early, KnownTrue
<1>4. CopyTrue /\ AtHead /\ Answers
  BY DEF Init, CopyTrue, AtHead, Answers, Free
<1>5. RoutesTrue /\ ServedTrue /\ AcceptedTrue
  BY <1>1 DEF Init, RoutesTrue, ServedTrue, AcceptedTrue, Calm, Free
<1>6. QED
  BY <1>2, <1>3, <1>4, <1>5 DEF IInv

\* What kind of request tells which fields it has.
LEMMA Kinds ==
  ASSUME TypeOK
  PROVE  /\ op.kind \in {"subscribe", "unsubscribe", "cleanUp"} => op \in Request
         /\ op.kind = "resubscribe" /\ op # NextSub => op \in Request
         /\ op \in Request => /\ op.topic \in Topics /\ op.qos \in QoS /\ op.fresh \in BOOLEAN
                              /\ op.step \in Results \cup {"sent", "drop"}
         /\ op = Free => op.kind = "free"
         /\ op = NextSub => op.kind = "resubscribe" /\ op.step = "next"
BY DEF TypeOK, Request, Free, NextSub, Results

\* The next state of a request.
LEMMA Sent ==
  ASSUME TypeOK, NEW kind \in {"subscribe", "unsubscribe", "resubscribe", "cleanUp"},
         NEW t \in Topics, NEW q \in QoS, NEW filters, Send(kind, t, q, filters)
  PROVE  op' \in Request
BY DEF Send, Request

LEMMA Went ==
  ASSUME op \in Request, NEW step \in Results \cup {"sent", "drop"}
  PROVE  [op EXCEPT !.step = step] \in Request
BY DEF Request

\* Every step lists a filter once.
LEMMA ListStep == TypeOK /\ Unique /\ [Next]_vars => subs' \in Seq(Sub) /\ Unique'
<1> SUFFICES ASSUME TypeOK, Unique, [Next]_vars PROVE subs' \in Seq(Sub) /\ Unique'
  OBVIOUS
<1>a. /\ op.kind \in {"subscribe", "unsubscribe", "resubscribe"} /\ op # NextSub =>
             op.topic \in Topics /\ op.qos \in QoS
      /\ op.kind = "resubscribe" /\ op.step = "drop" => op # NextSub
      /\ op.kind \in {"subscribe", "unsubscribe"} => op # NextSub
  BY Kinds
<1>b. subs \in Seq(Sub)
  BY DEF TypeOK
<1>c. subs' = subs => subs' \in Seq(Sub) /\ Unique'
  BY <1>b DEF Unique
<1>1. CASE LinkUp
  BY <1>1, <1>c DEF LinkUp
<1>2. CASE LinkLost
  BY <1>2, <1>c DEF LinkLost
<1>3. CASE ConnectSucceeded
  BY <1>3, <1>c DEF ConnectSucceeded
<1>4. CASE End
  BY <1>4, <1>c DEF End
<1>5. ASSUME NEW t \in Topics, NEW q \in QoS, SubscribeEarly(t, q) PROVE subs' \in Seq(Sub) /\ Unique'
  BY <1>5, <1>c, <1>b, SetSubLists DEF SubscribeEarly
<1>6. ASSUME NEW t \in Topics, NEW q \in QoS, Subscribe(t, q) PROVE subs' \in Seq(Sub) /\ Unique'
  BY <1>6, <1>c DEF Subscribe, Send
<1>7. ASSUME NEW t \in Topics, UnsubscribeEarly(t) PROVE subs' \in Seq(Sub) /\ Unique'
  BY <1>7, <1>c, <1>b, DeleteSubLists DEF UnsubscribeEarly
<1>8. ASSUME NEW t \in Topics, Unsubscribe(t) PROVE subs' \in Seq(Sub) /\ Unique'
  BY <1>8, <1>c DEF Unsubscribe, Send
<1>9. CASE OnConnected
  BY <1>9, <1>c DEF OnConnected
<1>10. CASE IgnoreConnected
  BY <1>10, <1>c DEF IgnoreConnected
<1>11. ASSUME NEW result \in Results, SubscribeAnswered(result) PROVE subs' \in Seq(Sub) /\ Unique'
  BY <1>11, <1>c DEF SubscribeAnswered
<1>12. ASSUME NEW result \in Results, UnsubscribeAnswered(result) PROVE subs' \in Seq(Sub) /\ Unique'
  BY <1>12, <1>c DEF UnsubscribeAnswered
<1>13. CASE SubscribeDone
  BY <1>13, <1>c, <1>a, <1>b, SetSubLists DEF SubscribeDone
<1>14. CASE SubscribeFailed
  BY <1>14, <1>c DEF SubscribeFailed
<1>15. CASE UnsubscribeDone
  BY <1>15, <1>c, <1>a, <1>b, DeleteSubLists DEF UnsubscribeDone
<1>16. CASE UnsubscribeFailed
  BY <1>16, <1>c DEF UnsubscribeFailed
<1>17. CASE ResubscribeEnds
  BY <1>17, <1>c DEF ResubscribeEnds
<1>18. CASE Resubscribe
  BY <1>18, <1>c DEF Resubscribe, Send
<1>19. CASE ResubscribeNext
  BY <1>19, <1>c DEF ResubscribeNext
<1>20. CASE ResubscribeGivesUp
  BY <1>20, <1>c DEF ResubscribeGivesUp
<1>21. CASE Drop
  BY <1>21, <1>c, <1>a, <1>b, DeleteSubLists DEF Drop
<1>22. CASE CleanedUp
  BY <1>22, <1>c DEF CleanedUp
<1>23. CASE UNCHANGED vars
  BY <1>23, <1>c DEF vars
<1> QED
  BY <1>1, <1>2, <1>3, <1>4, <1>5, <1>6, <1>7, <1>8, <1>9, <1>10, <1>11, <1>12,
     <1>13, <1>14, <1>15, <1>16, <1>17, <1>18, <1>19, <1>20, <1>21, <1>22, <1>23
     DEF Next, Answered, Continue

\* Every step keeps the types.
LEMMA TypeStep == TypeOK /\ Unique /\ AtHead /\ [Next]_vars => TypeOK'
<1> SUFFICES ASSUME TypeOK, Unique, AtHead, [Next]_vars PROVE TypeOK'
  OBVIOUS
<1> USE DEF linkVars, history, TypeOK
<1>a. /\ op.kind \in {"subscribe", "unsubscribe", "cleanUp"} => op \in Request
      /\ op.kind = "resubscribe" /\ op # NextSub => op \in Request
      /\ op = NextSub => op.step = "next"
      /\ op \in Request => op.topic \in Topics /\ op.qos \in QoS
  BY Kinds
<1>b. subs' \in Seq(Sub)
  BY ListStep
<1>c. /\ op.kind \in {"resubscribe", "cleanUp"} /\ op # NextSub => Tail(todo) \in Seq(Sub)
      /\ todo # <<>> => Head(todo) \in Sub /\ Tail(todo) \in Seq(Sub)
  BY RestOfCopy DEF AtHead
<1>1. CASE LinkUp
  BY <1>1, <1>a, <1>b DEF LinkUp
<1>2. CASE LinkLost
  BY <1>2, <1>a, <1>b DEF LinkLost
<1>3. CASE ConnectSucceeded
  BY <1>3, <1>a, <1>b DEF ConnectSucceeded
<1>4. CASE End
  BY <1>4, <1>a, <1>b DEF End
<1>5. ASSUME NEW t \in Topics, NEW q \in QoS, SubscribeEarly(t, q) PROVE TypeOK'
  BY <1>5, <1>a, <1>b DEF SubscribeEarly
<1>6. ASSUME NEW t \in Topics, NEW q \in QoS, Subscribe(t, q) PROVE TypeOK'
  <2>1. op' \in Request
    BY <1>6, Sent DEF Subscribe
  <2>2. QED
    BY <1>6, <1>b, <2>1 DEF Subscribe, Send
<1>7. ASSUME NEW t \in Topics, UnsubscribeEarly(t) PROVE TypeOK'
  BY <1>7, <1>a, <1>b DEF UnsubscribeEarly
<1>8. ASSUME NEW t \in Topics, Unsubscribe(t) PROVE TypeOK'
  <2>1. op' \in Request
    BY <1>8, Sent DEF Unsubscribe
  <2>2. QED
    BY <1>8, <1>b, <2>1 DEF Unsubscribe, Send
<1>9. CASE OnConnected
  BY <1>9, <1>a, <1>b DEF OnConnected
<1>10. CASE IgnoreConnected
  BY <1>10, <1>a, <1>b DEF IgnoreConnected
<1>11. ASSUME NEW result \in Results, SubscribeAnswered(result) PROVE TypeOK'
  BY <1>11, <1>a, <1>b, Went DEF SubscribeAnswered
<1>12. ASSUME NEW result \in Results, UnsubscribeAnswered(result) PROVE TypeOK'
  BY <1>12, <1>a, <1>b, Went DEF UnsubscribeAnswered
<1>13. CASE SubscribeDone
  BY <1>13, <1>a, <1>b DEF SubscribeDone
<1>14. CASE SubscribeFailed
  BY <1>14, <1>a, <1>b DEF SubscribeFailed
<1>15. CASE UnsubscribeDone
  BY <1>15, <1>a, <1>b DEF UnsubscribeDone
<1>16. CASE UnsubscribeFailed
  BY <1>16, <1>a, <1>b DEF UnsubscribeFailed
<1>17. CASE ResubscribeEnds
  BY <1>17, <1>a, <1>b DEF ResubscribeEnds
<1>18. CASE Resubscribe
  <2>1. Head(todo).topic \in Topics /\ Head(todo).qos \in QoS
    BY <1>18, <1>c DEF Resubscribe, Sub
  <2>2. CASE Head(todo).topic \in Subscribed
    <3>1. op' \in Request
      BY <1>18, <2>1, <2>2, Sent DEF Resubscribe
    <3>2. QED
      BY <1>18, <1>b, <2>1, <2>2, <3>1 DEF Resubscribe, Send
  <2>3. CASE Head(todo).topic \notin Subscribed
    BY <1>18, <1>b, <1>c, <2>3 DEF Resubscribe
  <2>4. QED
    BY <2>2, <2>3
<1>19. CASE ResubscribeNext
  <2>1. Tail(todo) \in Seq(Sub)
    BY <1>19, <1>a, <1>c DEF ResubscribeNext
  <2>2. QED
    BY <1>19, <1>b, <2>1 DEF ResubscribeNext
<1>20. CASE ResubscribeGivesUp
  BY <1>20, <1>a, <1>b, Went DEF ResubscribeGivesUp
<1>21. CASE Drop
  <2>1. op' \in Request
    <3>1. op \in Request /\ op' = [op EXCEPT !.kind = "cleanUp", !.step = "sent"]
      BY <1>21, <1>a DEF Drop
    <3>2. QED
      BY <3>1 DEF Request
  <2>2. known' \in SUBSET Topics
    BY <1>21 DEF Drop
  <2>3. QED
    BY <1>21, <1>b, <2>1, <2>2 DEF Drop
<1>22. CASE CleanedUp
  <2>1. op.topic \in Topics /\ Tail(todo) \in Seq(Sub)
    BY <1>22, <1>a, <1>c, Zenon DEF CleanedUp, Results, NextSub
  <2>2. leftover' \in SUBSET Topics
    BY <1>22, <2>1 DEF CleanedUp
  <2>3. QED
    BY <1>22, <1>b, <2>1, <2>2 DEF CleanedUp
<1>23. CASE UNCHANGED vars
  BY <1>23, <1>a, <1>b DEF vars
<1> QED
  BY <1>1, <1>2, <1>3, <1>4, <1>5, <1>6, <1>7, <1>8, <1>9, <1>10, <1>11, <1>12,
     <1>13, <1>14, <1>15, <1>16, <1>17, <1>18, <1>19, <1>20, <1>21, <1>22, <1>23
     DEF Next, Answered, Continue

\* Until there is a connection, each link waits for its onConnected.
LEMMA EarlyStep == TypeOK /\ Early /\ [Next]_vars => Early'
<1> SUFFICES ASSUME TypeOK, Early, [Next]_vars PROVE Early'
  OBVIOUS
<1> USE DEF linkVars, Early
<1>a. links \in Nat /\ upCalls \in Nat
  BY DEF TypeOK
<1>b. /\ op = Free => op.kind = "free"
      /\ op = NextSub => op.kind = "resubscribe"
  BY Kinds
<1>1. CASE LinkUp
  BY <1>1, <1>a, <1>b DEF LinkUp
<1>2. CASE LinkLost
  BY <1>2, <1>a, <1>b DEF LinkLost
<1>3. CASE ConnectSucceeded
  BY <1>3, <1>a, <1>b DEF ConnectSucceeded
<1>4. CASE End
  BY <1>4, <1>a, <1>b DEF End
<1>5. ASSUME NEW t \in Topics, NEW q \in QoS, SubscribeEarly(t, q) PROVE Early'
  BY <1>5, <1>a, <1>b DEF SubscribeEarly
<1>6. ASSUME NEW t \in Topics, NEW q \in QoS, Subscribe(t, q) PROVE Early'
  BY <1>6, <1>a, <1>b DEF Subscribe, Send
<1>7. ASSUME NEW t \in Topics, UnsubscribeEarly(t) PROVE Early'
  BY <1>7, <1>a, <1>b DEF UnsubscribeEarly
<1>8. ASSUME NEW t \in Topics, Unsubscribe(t) PROVE Early'
  BY <1>8, <1>a, <1>b DEF Unsubscribe, Send
<1>9. CASE OnConnected
  BY <1>9, <1>a, <1>b DEF OnConnected
<1>10. CASE IgnoreConnected
  BY <1>10, <1>a, <1>b DEF IgnoreConnected
<1>11. ASSUME NEW result \in Results, SubscribeAnswered(result) PROVE Early'
  BY <1>11, <1>a, <1>b DEF SubscribeAnswered
<1>12. ASSUME NEW result \in Results, UnsubscribeAnswered(result) PROVE Early'
  BY <1>12, <1>a, <1>b DEF UnsubscribeAnswered
<1>13. CASE SubscribeDone
  BY <1>13, <1>a, <1>b DEF SubscribeDone
<1>14. CASE SubscribeFailed
  BY <1>14, <1>a, <1>b DEF SubscribeFailed
<1>15. CASE UnsubscribeDone
  BY <1>15, <1>a, <1>b DEF UnsubscribeDone
<1>16. CASE UnsubscribeFailed
  BY <1>16, <1>a, <1>b DEF UnsubscribeFailed
<1>17. CASE ResubscribeEnds
  BY <1>17, <1>a, <1>b DEF ResubscribeEnds
<1>18. CASE Resubscribe
  BY <1>18, <1>a, <1>b DEF Resubscribe, Send
<1>19. CASE ResubscribeNext
  BY <1>19, <1>a, <1>b DEF ResubscribeNext
<1>20. CASE ResubscribeGivesUp
  BY <1>20, <1>a, <1>b DEF ResubscribeGivesUp
<1>21. CASE Drop
  BY <1>21, <1>a, <1>b DEF Drop
<1>22. CASE CleanedUp
  BY <1>22, <1>a, <1>b DEF CleanedUp
<1>23. CASE UNCHANGED vars
  BY <1>23, <1>a, <1>b DEF vars
<1> QED
  BY <1>1, <1>2, <1>3, <1>4, <1>5, <1>6, <1>7, <1>8, <1>9, <1>10, <1>11, <1>12,
     <1>13, <1>14, <1>15, <1>16, <1>17, <1>18, <1>19, <1>20, <1>21, <1>22, <1>23
     DEF Next, Answered, Continue

\* client.Unsubscribe is never refused, and only resubscribe drops.
LEMMA AnswersStep == TypeOK /\ Answers /\ [Next]_vars => Answers'
<1> SUFFICES ASSUME TypeOK, Answers, [Next]_vars PROVE Answers'
  OBVIOUS
<1> USE DEF Answers, Results
<1>a. /\ op.kind \in {"subscribe", "unsubscribe", "cleanUp"} => op \in Request
      /\ op.kind = "resubscribe" /\ op # NextSub => op \in Request
      /\ op = NextSub => op.step = "next"
      /\ Free.kind = "free" /\ NextSub.kind = "resubscribe"
  BY Kinds DEF Free, NextSub
<1>b. \A step : op \in Request => [op EXCEPT !.step = step].kind = op.kind /\ [op EXCEPT !.step = step].step = step
  BY DEF Request
<1>1. CASE LinkUp
  BY <1>1, <1>a, <1>b DEF LinkUp
<1>2. CASE LinkLost
  BY <1>2, <1>a, <1>b DEF LinkLost
<1>3. CASE ConnectSucceeded
  BY <1>3, <1>a, <1>b DEF ConnectSucceeded
<1>4. CASE End
  BY <1>4, <1>a, <1>b DEF End
<1>5. ASSUME NEW t \in Topics, NEW q \in QoS, SubscribeEarly(t, q) PROVE Answers'
  BY <1>5, <1>a, <1>b DEF SubscribeEarly
<1>6. ASSUME NEW t \in Topics, NEW q \in QoS, Subscribe(t, q) PROVE Answers'
  BY <1>6, <1>a, <1>b DEF Subscribe, Send
<1>7. ASSUME NEW t \in Topics, UnsubscribeEarly(t) PROVE Answers'
  BY <1>7, <1>a, <1>b DEF UnsubscribeEarly
<1>8. ASSUME NEW t \in Topics, Unsubscribe(t) PROVE Answers'
  BY <1>8, <1>a, <1>b DEF Unsubscribe, Send
<1>9. CASE OnConnected
  BY <1>9, <1>a, <1>b DEF OnConnected
<1>10. CASE IgnoreConnected
  BY <1>10, <1>a, <1>b DEF IgnoreConnected
<1>11. ASSUME NEW result \in Results, SubscribeAnswered(result) PROVE Answers'
  BY <1>11, <1>a, <1>b DEF SubscribeAnswered
<1>12. ASSUME NEW result \in Results, UnsubscribeAnswered(result) PROVE Answers'
  BY <1>12, <1>a, <1>b DEF UnsubscribeAnswered
<1>13. CASE SubscribeDone
  BY <1>13, <1>a, <1>b DEF SubscribeDone
<1>14. CASE SubscribeFailed
  BY <1>14, <1>a, <1>b DEF SubscribeFailed
<1>15. CASE UnsubscribeDone
  BY <1>15, <1>a, <1>b DEF UnsubscribeDone
<1>16. CASE UnsubscribeFailed
  BY <1>16, <1>a, <1>b DEF UnsubscribeFailed
<1>17. CASE ResubscribeEnds
  BY <1>17, <1>a, <1>b DEF ResubscribeEnds
<1>18. CASE Resubscribe
  BY <1>18, <1>a, <1>b DEF Resubscribe, Send
<1>19. CASE ResubscribeNext
  BY <1>19, <1>a, <1>b DEF ResubscribeNext
<1>20. CASE ResubscribeGivesUp
  BY <1>20, <1>a, <1>b DEF ResubscribeGivesUp
<1>21. CASE Drop
  BY <1>21, <1>a, <1>b DEF Drop
<1>22. CASE CleanedUp
  BY <1>22, <1>a, <1>b DEF CleanedUp
<1>23. CASE UNCHANGED vars
  BY <1>23, <1>a, <1>b DEF vars
<1> QED
  BY <1>1, <1>2, <1>3, <1>4, <1>5, <1>6, <1>7, <1>8, <1>9, <1>10, <1>11, <1>12,
     <1>13, <1>14, <1>15, <1>16, <1>17, <1>18, <1>19, <1>20, <1>21, <1>22, <1>23
     DEF Next, Answered, Continue

\* Outside setSub and deleteSub the list stays.
LEMMA SameList == subs' = subs => Listed' = Listed /\ Subscribed' = Subscribed
BY DEF Listed, Elements, Subscribed, TopicsOf

\* The frontend is told of every change while it can be.
LEMMA KnownStep == TypeOK /\ Unique /\ KnownTrue /\ [Next]_vars => KnownTrue'
<1> SUFFICES ASSUME TypeOK, Unique, KnownTrue, [Next]_vars PROVE KnownTrue'
  OBVIOUS
<1> USE DEF linkVars, history, KnownTrue
<1>a. /\ op.kind \in {"subscribe", "unsubscribe", "resubscribe"} /\ op # NextSub =>
             op.topic \in Topics /\ op.qos \in QoS
      /\ op.kind = "resubscribe" /\ op.step = "drop" => op # NextSub
      /\ op.kind \in {"subscribe", "unsubscribe"} => op # NextSub
  BY Kinds
<1>b. subs \in Seq(Sub)
  BY DEF TypeOK
<1>c. subs' = subs => Subscribed' = Subscribed
  BY SameList
<1>1. CASE LinkUp
  BY <1>1, <1>c DEF LinkUp
<1>2. CASE LinkLost
  BY <1>2, <1>c DEF LinkLost
<1>3. CASE ConnectSucceeded
  BY <1>3, <1>c DEF ConnectSucceeded
<1>4. CASE End
  BY <1>4, <1>c DEF End
<1>5. ASSUME NEW t \in Topics, NEW q \in QoS, SubscribeEarly(t, q) PROVE KnownTrue'
  BY <1>5, <1>c, <1>b, SetSubLists DEF SubscribeEarly
<1>6. ASSUME NEW t \in Topics, NEW q \in QoS, Subscribe(t, q) PROVE KnownTrue'
  BY <1>6, <1>c DEF Subscribe, Send
<1>7. ASSUME NEW t \in Topics, UnsubscribeEarly(t) PROVE KnownTrue'
  BY <1>7, <1>c, <1>b, DeleteSubLists DEF UnsubscribeEarly
<1>8. ASSUME NEW t \in Topics, Unsubscribe(t) PROVE KnownTrue'
  BY <1>8, <1>c DEF Unsubscribe, Send
<1>9. CASE OnConnected
  BY <1>9, <1>c DEF OnConnected
<1>10. CASE IgnoreConnected
  BY <1>10, <1>c DEF IgnoreConnected
<1>11. ASSUME NEW result \in Results, SubscribeAnswered(result) PROVE KnownTrue'
  BY <1>11, <1>c DEF SubscribeAnswered
<1>12. ASSUME NEW result \in Results, UnsubscribeAnswered(result) PROVE KnownTrue'
  BY <1>12, <1>c DEF UnsubscribeAnswered
<1>13. CASE SubscribeDone
  BY <1>13, <1>c, <1>a, <1>b, SetSubLists DEF SubscribeDone
<1>14. CASE SubscribeFailed
  BY <1>14, <1>c DEF SubscribeFailed
<1>15. CASE UnsubscribeDone
  BY <1>15, <1>c, <1>a, <1>b, DeleteSubLists DEF UnsubscribeDone
<1>16. CASE UnsubscribeFailed
  BY <1>16, <1>c DEF UnsubscribeFailed
<1>17. CASE ResubscribeEnds
  BY <1>17, <1>c DEF ResubscribeEnds
<1>18. CASE Resubscribe
  BY <1>18, <1>c DEF Resubscribe, Send
<1>19. CASE ResubscribeNext
  BY <1>19, <1>c DEF ResubscribeNext
<1>20. CASE ResubscribeGivesUp
  BY <1>20, <1>c DEF ResubscribeGivesUp
<1>21. CASE Drop
  BY <1>21, <1>c, <1>a, <1>b, DeleteSubLists DEF Drop
<1>22. CASE CleanedUp
  BY <1>22, <1>c DEF CleanedUp
<1>23. CASE UNCHANGED vars
  BY <1>23, <1>c DEF vars
<1> QED
  BY <1>1, <1>2, <1>3, <1>4, <1>5, <1>6, <1>7, <1>8, <1>9, <1>10, <1>11, <1>12,
     <1>13, <1>14, <1>15, <1>16, <1>17, <1>18, <1>19, <1>20, <1>21, <1>22, <1>23
     DEF Next, Answered, Continue

\* opMu is held: what is to be made again does not change meanwhile.
LEMMA CopyStep == TypeOK /\ Unique /\ AtHead /\ CopyTrue /\ [Next]_vars => CopyTrue'
<1> SUFFICES ASSUME TypeOK, Unique, AtHead, CopyTrue, [Next]_vars PROVE CopyTrue'
  OBVIOUS
<1> USE DEF CopyTrue
<1>a. /\ op.kind \in {"subscribe", "unsubscribe", "cleanUp"} => op \in Request
      /\ op.kind = "resubscribe" /\ op # NextSub => op \in Request
      /\ op = NextSub => op.step = "next"
      /\ op = Free => op.kind = "free"
      /\ Free.kind = "free" /\ NextSub.kind = "resubscribe"
  BY Kinds DEF Free, NextSub
<1>b. \A step : op \in Request => [op EXCEPT !.step = step].kind = op.kind
  BY DEF Request
<1>c. subs' = subs => Listed' = Listed /\ Subscribed' = Subscribed
  BY SameList
<1>d. subs \in Seq(Sub) /\ todo \in Seq(Sub)
  BY DEF TypeOK
<1>e. /\ op.kind \in {"resubscribe", "cleanUp"} /\ op # NextSub =>
             Elements(Tail(todo)) \subseteq Elements(todo)
      /\ todo # <<>> => Elements(Tail(todo)) \subseteq Elements(todo)
  BY <1>d, RestOfCopy DEF AtHead
<1>f. \A s \in Listed : s.topic \in Subscribed
  BY SubscribedOfListed
<1>g. Elements(subs) = Listed
  BY DEF Listed
<1>1. CASE LinkUp
  BY <1>1, <1>a, <1>b, <1>c, <1>e, <1>f, <1>g DEF LinkUp
<1>2. CASE LinkLost
  BY <1>2, <1>a, <1>b, <1>c, <1>e, <1>f, <1>g DEF LinkLost
<1>3. CASE ConnectSucceeded
  BY <1>3, <1>a, <1>b, <1>c, <1>e, <1>f, <1>g DEF ConnectSucceeded
<1>4. CASE End
  BY <1>4, <1>a, <1>b, <1>c, <1>e, <1>f, <1>g DEF End
<1>5. ASSUME NEW t \in Topics, NEW q \in QoS, SubscribeEarly(t, q) PROVE CopyTrue'
  BY <1>5, <1>a, <1>b, <1>c, <1>e, <1>f, <1>g DEF SubscribeEarly
<1>6. ASSUME NEW t \in Topics, NEW q \in QoS, Subscribe(t, q) PROVE CopyTrue'
  BY <1>6, <1>a, <1>b, <1>c, <1>e, <1>f, <1>g DEF Subscribe, Send
<1>7. ASSUME NEW t \in Topics, UnsubscribeEarly(t) PROVE CopyTrue'
  BY <1>7, <1>a, <1>b, <1>c, <1>e, <1>f, <1>g DEF UnsubscribeEarly
<1>8. ASSUME NEW t \in Topics, Unsubscribe(t) PROVE CopyTrue'
  BY <1>8, <1>a, <1>b, <1>c, <1>e, <1>f, <1>g DEF Unsubscribe, Send
<1>9. CASE OnConnected
  BY <1>9, <1>a, <1>b, <1>c, <1>e, <1>f, <1>g DEF OnConnected
<1>10. CASE IgnoreConnected
  BY <1>10, <1>a, <1>b, <1>c, <1>e, <1>f, <1>g DEF IgnoreConnected
<1>11. ASSUME NEW result \in Results, SubscribeAnswered(result) PROVE CopyTrue'
  BY <1>11, <1>a, <1>b, <1>c, <1>e, <1>f, <1>g DEF SubscribeAnswered
<1>12. ASSUME NEW result \in Results, UnsubscribeAnswered(result) PROVE CopyTrue'
  BY <1>12, <1>a, <1>b, <1>c, <1>e, <1>f, <1>g DEF UnsubscribeAnswered
<1>13. CASE SubscribeDone
  BY <1>13, <1>a, <1>b, <1>c, <1>e, <1>f, <1>g DEF SubscribeDone
<1>14. CASE SubscribeFailed
  BY <1>14, <1>a, <1>b, <1>c, <1>e, <1>f, <1>g DEF SubscribeFailed
<1>15. CASE UnsubscribeDone
  BY <1>15, <1>a, <1>b, <1>c, <1>e, <1>f, <1>g DEF UnsubscribeDone
<1>16. CASE UnsubscribeFailed
  BY <1>16, <1>a, <1>b, <1>c, <1>e, <1>f, <1>g DEF UnsubscribeFailed
<1>17. CASE ResubscribeEnds
  BY <1>17, <1>a, <1>b, <1>c, <1>e, <1>f, <1>g DEF ResubscribeEnds
<1>18. CASE Resubscribe
  BY <1>18, <1>a, <1>b, <1>c, <1>e, <1>f, <1>g DEF Resubscribe, Send
<1>19. CASE ResubscribeNext
  BY <1>19, <1>a, <1>b, <1>c, <1>e, <1>f, <1>g DEF ResubscribeNext
<1>20. CASE ResubscribeGivesUp
  BY <1>20, <1>a, <1>b, <1>c, <1>e, <1>f, <1>g DEF ResubscribeGivesUp
<1>21. CASE Drop
  <2>1. op \in Request /\ op.topic \in Topics
    BY <1>21, <1>a DEF Drop, Request
  <2>2. /\ Listed' = {s \in Listed : s.topic # op.topic}
        /\ Subscribed' = Subscribed \ {op.topic}
    BY <1>21, <1>d, <2>1, DeleteSubLists DEF Drop
  <2>3. \A s \in Elements(todo) : s.topic \in Subscribed' => s \in Listed'
    BY <1>21, <2>2 DEF Drop
  <2>4. QED
    BY <1>21, <2>3 DEF Drop
<1>22. CASE CleanedUp
  BY <1>22, <1>a, <1>b, <1>c, <1>e, <1>f, <1>g DEF CleanedUp
<1>23. CASE UNCHANGED vars
  BY <1>23, <1>a, <1>b, <1>c, <1>e, <1>f, <1>g DEF vars
<1> QED
  BY <1>1, <1>2, <1>3, <1>4, <1>5, <1>6, <1>7, <1>8, <1>9, <1>10, <1>11, <1>12,
     <1>13, <1>14, <1>15, <1>16, <1>17, <1>18, <1>19, <1>20, <1>21, <1>22, <1>23
     DEF Next, Answered, Continue

\* What resubscribe asks for is the head of its copy.
LEMMA HeadStep == TypeOK /\ Unique /\ AtHead /\ [Next]_vars => AtHead'
<1> SUFFICES ASSUME TypeOK, Unique, AtHead, [Next]_vars PROVE AtHead'
  OBVIOUS
<1> USE DEF AtHead
<1>a. /\ op.kind \in {"subscribe", "unsubscribe", "cleanUp"} => op \in Request
      /\ op.kind = "resubscribe" /\ op # NextSub => op \in Request
      /\ op = NextSub => op.step = "next"
      /\ op = Free => op.kind = "free"
      /\ Free.kind = "free" /\ NextSub.kind = "resubscribe"
  BY Kinds DEF Free, NextSub
<1>b. \A step : op \in Request => /\ [op EXCEPT !.step = step].kind = op.kind
                                  /\ [op EXCEPT !.step = step].topic = op.topic
                                  /\ [op EXCEPT !.step = step].qos = op.qos
  BY DEF Request
<1>c. subs' = subs => Subscribed' = Subscribed
  BY SameList
<1>1. CASE LinkUp
  BY <1>1, <1>a, <1>b, <1>c DEF LinkUp
<1>2. CASE LinkLost
  BY <1>2, <1>a, <1>b, <1>c DEF LinkLost
<1>3. CASE ConnectSucceeded
  BY <1>3, <1>a, <1>b, <1>c DEF ConnectSucceeded
<1>4. CASE End
  BY <1>4, <1>a, <1>b, <1>c DEF End
<1>5. ASSUME NEW t \in Topics, NEW q \in QoS, SubscribeEarly(t, q) PROVE AtHead'
  BY <1>5, <1>a, <1>b, <1>c DEF SubscribeEarly
<1>6. ASSUME NEW t \in Topics, NEW q \in QoS, Subscribe(t, q) PROVE AtHead'
  BY <1>6, <1>a, <1>b, <1>c DEF Subscribe, Send
<1>7. ASSUME NEW t \in Topics, UnsubscribeEarly(t) PROVE AtHead'
  BY <1>7, <1>a, <1>b, <1>c DEF UnsubscribeEarly
<1>8. ASSUME NEW t \in Topics, Unsubscribe(t) PROVE AtHead'
  BY <1>8, <1>a, <1>b, <1>c DEF Unsubscribe, Send
<1>9. CASE OnConnected
  BY <1>9, <1>a, <1>b, <1>c DEF OnConnected
<1>10. CASE IgnoreConnected
  BY <1>10, <1>a, <1>b, <1>c DEF IgnoreConnected
<1>11. ASSUME NEW result \in Results, SubscribeAnswered(result) PROVE AtHead'
  BY <1>11, <1>a, <1>b, <1>c DEF SubscribeAnswered
<1>12. ASSUME NEW result \in Results, UnsubscribeAnswered(result) PROVE AtHead'
  BY <1>12, <1>a, <1>b, <1>c DEF UnsubscribeAnswered
<1>13. CASE SubscribeDone
  BY <1>13, <1>a, <1>b, <1>c DEF SubscribeDone
<1>14. CASE SubscribeFailed
  BY <1>14, <1>a, <1>b, <1>c DEF SubscribeFailed
<1>15. CASE UnsubscribeDone
  BY <1>15, <1>a, <1>b, <1>c DEF UnsubscribeDone
<1>16. CASE UnsubscribeFailed
  BY <1>16, <1>a, <1>b, <1>c DEF UnsubscribeFailed
<1>17. CASE ResubscribeEnds
  BY <1>17, <1>a, <1>b, <1>c DEF ResubscribeEnds
<1>18. CASE Resubscribe
  BY <1>18, <1>a, <1>b, <1>c DEF Resubscribe, Send
<1>19. CASE ResubscribeNext
  BY <1>19, <1>a, <1>b, <1>c DEF ResubscribeNext
<1>20. CASE ResubscribeGivesUp
  BY <1>20, <1>a, <1>b, <1>c DEF ResubscribeGivesUp
<1>21. CASE Drop
  <2>1. op \in Request /\ op.topic \in Topics
    BY <1>21, <1>a DEF Drop, Request
  <2>2. Subscribed' = Subscribed \ {op.topic}
    BY <1>21, <2>1, DeleteSubLists DEF Drop, TypeOK
  <2>3. op'.kind = "cleanUp" /\ op'.topic = op.topic /\ op'.qos = op.qos
    BY <1>21, <2>1 DEF Drop, Request
  <2>4. QED
    BY <1>21, <1>a, <2>1, <2>2, <2>3 DEF Drop
<1>22. CASE CleanedUp
  BY <1>22, <1>a, <1>b, <1>c DEF CleanedUp
<1>23. CASE UNCHANGED vars
  BY <1>23, <1>a, <1>b, <1>c DEF vars
<1> QED
  BY <1>1, <1>2, <1>3, <1>4, <1>5, <1>6, <1>7, <1>8, <1>9, <1>10, <1>11, <1>12,
     <1>13, <1>14, <1>15, <1>16, <1>17, <1>18, <1>19, <1>20, <1>21, <1>22, <1>23
     DEF Next, Answered, Continue

\* What is routed is listed, left over, or about to be one of them.
LEMMA RoutesStep ==
  TypeOK /\ Unique /\ Early /\ AtHead /\ Answers /\ RoutesTrue /\ [Next]_vars => RoutesTrue'
<1> SUFFICES ASSUME TypeOK, Unique, Early, AtHead, Answers, RoutesTrue, [Next]_vars
             PROVE  RoutesTrue'
  OBVIOUS
<1> USE DEF linkVars, history, RoutesTrue, Adds, Results
<1>a. /\ op.kind \in {"subscribe", "unsubscribe", "cleanUp"} => op \in Request
      /\ op.kind = "resubscribe" /\ op # NextSub => op \in Request
      /\ op = NextSub => op.step = "next"
      /\ op = Free => op.kind = "free"
      /\ Free.kind = "free" /\ NextSub.kind = "resubscribe" /\ NextSub.step = "next"
  BY Kinds DEF Free, NextSub
<1>b. \A step : op \in Request => /\ [op EXCEPT !.step = step].kind = op.kind
                                  /\ [op EXCEPT !.step = step].topic = op.topic
                                  /\ [op EXCEPT !.step = step].fresh = op.fresh
                                  /\ [op EXCEPT !.step = step].step = step
  BY DEF Request
<1>c. subs' = subs => Subscribed' = Subscribed
  BY SameList
<1>d. subs \in Seq(Sub)
  BY DEF TypeOK
<1>e. op \in Request => op.topic \in Topics /\ op.qos \in QoS
  BY Kinds
<1>1. CASE LinkUp
  BY <1>1, <1>a, <1>b, <1>c DEF LinkUp
<1>2. CASE LinkLost
  BY <1>2, <1>a, <1>b, <1>c DEF LinkLost
<1>3. CASE ConnectSucceeded
  BY <1>3, <1>a, <1>b, <1>c DEF ConnectSucceeded
<1>4. CASE End
  BY <1>4, <1>a, <1>b, <1>c DEF End
<1>5. ASSUME NEW t \in Topics, NEW q \in QoS, SubscribeEarly(t, q) PROVE RoutesTrue'
  BY <1>5, <1>a, <1>b, <1>c, <1>d, SetSubLists DEF SubscribeEarly
<1>6. ASSUME NEW t \in Topics, NEW q \in QoS, Subscribe(t, q) PROVE RoutesTrue'
  BY <1>6, <1>a, <1>b, <1>c DEF Subscribe, Send
<1>7. ASSUME NEW t \in Topics, UnsubscribeEarly(t) PROVE RoutesTrue'
  <2>1. routes' = {} /\ op' = op /\ op.kind = "free"
    BY <1>7, <1>a DEF UnsubscribeEarly, Early
  <2>2. QED
    BY <2>1
<1>8. ASSUME NEW t \in Topics, Unsubscribe(t) PROVE RoutesTrue'
  BY <1>8, <1>a, <1>b, <1>c DEF Unsubscribe, Send
<1>9. CASE OnConnected
  BY <1>9, <1>a, <1>b, <1>c DEF OnConnected
<1>10. CASE IgnoreConnected
  BY <1>10, <1>a, <1>b, <1>c DEF IgnoreConnected
<1>11. ASSUME NEW result \in Results, SubscribeAnswered(result) PROVE RoutesTrue'
  BY <1>11, <1>a, <1>b, <1>c DEF SubscribeAnswered
<1>12. ASSUME NEW result \in Results, UnsubscribeAnswered(result) PROVE RoutesTrue'
  BY <1>12, <1>a, <1>b, <1>c DEF UnsubscribeAnswered
<1>13. CASE SubscribeDone
  BY <1>13, <1>a, <1>b, <1>c, <1>d, <1>e, SetSubLists DEF SubscribeDone
<1>14. CASE SubscribeFailed
  BY <1>14, <1>a, <1>b, <1>c DEF SubscribeFailed
<1>15. CASE UnsubscribeDone
  BY <1>15, <1>a, <1>b, <1>c, <1>d, <1>e, DeleteSubLists DEF UnsubscribeDone
<1>16. CASE UnsubscribeFailed
  BY <1>16, <1>a, <1>b, <1>c DEF UnsubscribeFailed
<1>17. CASE ResubscribeEnds
  BY <1>17, <1>a, <1>b, <1>c DEF ResubscribeEnds
<1>18. CASE Resubscribe
  BY <1>18, <1>a, <1>b, <1>c DEF Resubscribe, Send
<1>19. CASE ResubscribeNext
  BY <1>19, <1>a, <1>b, <1>c DEF ResubscribeNext
<1>20. CASE ResubscribeGivesUp
  BY <1>20, <1>a, <1>b, <1>c DEF ResubscribeGivesUp
<1>21. CASE Drop
  BY <1>21, <1>a, <1>b, <1>c, <1>d, <1>e, DeleteSubLists DEF Drop
<1>22. CASE CleanedUp
  <2>1. op.step \in {"ok", "timeout", "failed"}
    BY <1>22 DEF CleanedUp, Answers
  <2>2. routes \subseteq Subscribed \cup leftover'
    BY <1>22, <2>1 DEF CleanedUp
  <2>3. routes' = routes /\ op' = NextSub /\ Subscribed' = Subscribed
    BY <1>22, <1>c DEF CleanedUp
  <2>4. QED
    BY <1>a, <2>2, <2>3
<1>23. CASE UNCHANGED vars
  BY <1>23, <1>a, <1>b, <1>c DEF vars
<1> QED
  BY <1>1, <1>2, <1>3, <1>4, <1>5, <1>6, <1>7, <1>8, <1>9, <1>10, <1>11, <1>12,
     <1>13, <1>14, <1>15, <1>16, <1>17, <1>18, <1>19, <1>20, <1>21, <1>22, <1>23
     DEF Next, Answered, Continue

\* What the broker accepted stays until the link goes, and whoever asks anew
\* about a listed filter finds its route.
LEMMA AcceptedStep ==
  TypeOK /\ Unique /\ Early /\ Answers /\ RoutesTrue /\ ServedTrue /\ AcceptedTrue /\ [Next]_vars
  => AcceptedTrue'
<1> SUFFICES ASSUME TypeOK, Unique, Early, Answers, RoutesTrue, ServedTrue, AcceptedTrue, [Next]_vars
             PROVE  AcceptedTrue'
  OBVIOUS
<1> USE DEF linkVars, history, AcceptedTrue, Calm, Results
<1>a. /\ op.kind \in {"subscribe", "unsubscribe", "cleanUp"} => op \in Request
      /\ op.kind = "resubscribe" /\ op # NextSub => op \in Request
      /\ op = NextSub => op.step = "next"
      /\ op = Free => op.kind = "free"
      /\ Free.kind = "free" /\ NextSub.kind = "resubscribe" /\ NextSub.step = "next"
  BY Kinds DEF Free, NextSub
<1>b. \A step : op \in Request => /\ [op EXCEPT !.step = step].kind = op.kind
                                  /\ [op EXCEPT !.step = step].topic = op.topic
                                  /\ [op EXCEPT !.step = step].qos = op.qos
                                  /\ [op EXCEPT !.step = step].fresh = op.fresh
                                  /\ [op EXCEPT !.step = step].step = step
  BY DEF Request
<1>c. subs' = subs => Subscribed' = Subscribed
  BY SameList
<1>d. upCalls \in Nat /\ links \in Nat /\ broker \in [Topics -> QoS \cup {Unheld}]
  BY DEF TypeOK
<1>e. op \in Request => op.topic \in Topics /\ op.qos \in QoS
  BY Kinds
<1>f. op = Free /\ Calm => \A t \in Subscribed : t \in routes
  BY <1>a, SubscribedOfListed DEF ServedTrue, Served, Excused
<1>1. CASE LinkUp
  BY <1>1, <1>a, <1>b, <1>c, <1>d DEF LinkUp
<1>2. CASE LinkLost
  BY <1>2, <1>a, <1>b, <1>c, <1>d DEF LinkLost
<1>3. CASE ConnectSucceeded
  <2>1. ~Calm'
    BY <1>3, <1>d DEF ConnectSucceeded, Early
  <2>2. QED
    BY <2>1
<1>4. CASE End
  BY <1>4, <1>a, <1>b, <1>c, <1>d DEF End
<1>5. ASSUME NEW t \in Topics, NEW q \in QoS, SubscribeEarly(t, q) PROVE AcceptedTrue'
  BY <1>5, <1>a, <1>b, <1>c, <1>d DEF SubscribeEarly
<1>6. ASSUME NEW t \in Topics, NEW q \in QoS, Subscribe(t, q) PROVE AcceptedTrue'
  BY <1>6, <1>a, <1>b, <1>c, <1>d, <1>f DEF Subscribe, Send
<1>7. ASSUME NEW t \in Topics, UnsubscribeEarly(t) PROVE AcceptedTrue'
  BY <1>7, <1>a, <1>b, <1>c, <1>d DEF UnsubscribeEarly
<1>8. ASSUME NEW t \in Topics, Unsubscribe(t) PROVE AcceptedTrue'
  BY <1>8, <1>a, <1>b, <1>c, <1>d DEF Unsubscribe, Send
<1>9. CASE OnConnected
  BY <1>9, <1>a, <1>b, <1>c, <1>d DEF OnConnected
<1>10. CASE IgnoreConnected
  BY <1>10, <1>a, <1>b, <1>c, <1>d DEF IgnoreConnected
<1>11. ASSUME NEW result \in Results, SubscribeAnswered(result) PROVE AcceptedTrue'
  <2>1. op \in Request /\ op.topic \in Topics
    BY <1>11, <1>a, <1>e DEF SubscribeAnswered
  <2>2. /\ op'.step = result /\ op'.topic = op.topic /\ op'.qos = op.qos
        /\ op'.kind = op.kind
    BY <1>11, <1>b, <2>1 DEF SubscribeAnswered
  <2>3. result = "ok" => broker'[op.topic] = op.qos
    BY <1>11, <1>d, <2>1 DEF SubscribeAnswered
  <2>4. QED
    BY <2>2, <2>3
<1>12. ASSUME NEW result \in Results, UnsubscribeAnswered(result) PROVE AcceptedTrue'
  BY <1>12, <1>a, <1>b, <1>c, <1>d DEF UnsubscribeAnswered
<1>13. CASE SubscribeDone
  BY <1>13, <1>a, <1>b, <1>c, <1>d DEF SubscribeDone
<1>14. CASE SubscribeFailed
  BY <1>14, <1>a, <1>b, <1>c, <1>d DEF SubscribeFailed
<1>15. CASE UnsubscribeDone
  BY <1>15, <1>a, <1>b, <1>c, <1>d DEF UnsubscribeDone
<1>16. CASE UnsubscribeFailed
  BY <1>16, <1>a, <1>b, <1>c, <1>d DEF UnsubscribeFailed
<1>17. CASE ResubscribeEnds
  BY <1>17, <1>a, <1>b, <1>c, <1>d DEF ResubscribeEnds
<1>18. CASE Resubscribe
  BY <1>18, <1>a, <1>b, <1>c, <1>d DEF Resubscribe, Send
<1>19. CASE ResubscribeNext
  BY <1>19, <1>a, <1>b, <1>c, <1>d DEF ResubscribeNext
<1>20. CASE ResubscribeGivesUp
  BY <1>20, <1>a, <1>b, <1>c, <1>d DEF ResubscribeGivesUp
<1>21. CASE Drop
  BY <1>21, <1>a, <1>b, <1>c, <1>d DEF Drop
<1>22. CASE CleanedUp
  BY <1>22, <1>a, <1>b, <1>c, <1>d DEF CleanedUp
<1>23. CASE UNCHANGED vars
  BY <1>23, <1>a, <1>b, <1>c, <1>d DEF vars
<1> QED
  BY <1>1, <1>2, <1>3, <1>4, <1>5, <1>6, <1>7, <1>8, <1>9, <1>10, <1>11, <1>12,
     <1>13, <1>14, <1>15, <1>16, <1>17, <1>18, <1>19, <1>20, <1>21, <1>22, <1>23
     DEF Next, Answered, Continue

\* Each listed subscription stays served, or has its turn to come.
LEMMA ServedStep == IInv /\ [Next]_vars => ServedTrue'
<1> SUFFICES ASSUME IInv, [Next]_vars, Calm', NEW s \in Listed'
             PROVE  Served(s)' \/ Excused(s)'
  BY DEF ServedTrue
<1> USE DEF linkVars, history, Calm, Results
<1>i. TypeOK /\ Unique /\ Early /\ AtHead /\ Answers /\ RoutesTrue /\ AcceptedTrue
  BY DEF IInv
<1>a. /\ op.kind \in {"subscribe", "unsubscribe", "cleanUp"} => op \in Request
      /\ op.kind = "resubscribe" /\ op # NextSub => op \in Request
      /\ op = NextSub => op.step = "next"
      /\ op = Free => op.kind = "free"
      /\ Free.kind = "free" /\ NextSub.kind = "resubscribe" /\ NextSub.step = "next"
  BY <1>i, Kinds DEF Free, NextSub
<1>b. \A step : op \in Request => /\ [op EXCEPT !.step = step].kind = op.kind
                                  /\ [op EXCEPT !.step = step].topic = op.topic
                                  /\ [op EXCEPT !.step = step].qos = op.qos
                                  /\ [op EXCEPT !.step = step].fresh = op.fresh
                                  /\ [op EXCEPT !.step = step].step = step
  BY DEF Request
<1>c. subs' = subs => Listed' = Listed /\ Subscribed' = Subscribed
  BY SameList
<1>d. /\ upCalls \in Nat /\ links \in Nat /\ broker \in [Topics -> QoS \cup {Unheld}]
      /\ subs \in Seq(Sub) /\ todo \in Seq(Sub)
  BY <1>i DEF TypeOK
<1>e. op \in Request => op.topic \in Topics /\ op.qos \in QoS
  BY <1>i, Kinds
<1>f. Calm => \A r \in Listed : Served(r) \/ Excused(r)
  BY DEF IInv, ServedTrue
<1>g. s \in Listed => s \in Sub /\ s.topic \in Topics /\ s.qos \in QoS /\ s.topic \in Subscribed
  <2>1. \A r \in Listed : r \in Sub
    BY <1>d, ElementOfSeq, LenProperties DEF Listed, Elements
  <2>2. QED
    BY <2>1, SubscribedOfListed DEF Sub
<1>h. \A r \in Listed : r.topic = s.topic /\ s \in Listed => r = s
  BY <1>i DEF Unique, Listed, Elements
<1>j. /\ op.kind \in {"resubscribe", "cleanUp"} /\ op # NextSub =>
             /\ Elements(todo) = Elements(Tail(todo)) \cup {Head(todo)}
             /\ op.topic = Head(todo).topic /\ op.qos = Head(todo).qos
             /\ op.topic \in Subscribed <=> op.kind = "resubscribe"
      /\ todo # <<>> => Elements(todo) = Elements(Tail(todo)) \cup {Head(todo)}
  BY <1>d, <1>i, RestOfCopy DEF AtHead
<1>k. todo = <<>> => Elements(todo) = {}
  BY DEF Elements
<1>l. /\ op.kind = "resubscribe" /\ op # NextSub /\ s \in Listed /\ s.topic = op.topic =>
             s = Head(todo) /\ s \in Elements(todo) /\ s.qos = op.qos
      /\ op.kind = "cleanUp" /\ s \in Listed => s.topic # op.topic
      /\ op.kind = "cleanUp" => op # NextSub
  <2>1. op.kind = "resubscribe" /\ op # NextSub => Head(todo) \in Listed
    BY <1>i, <1>j DEF IInv, CopyTrue
  <2>2. QED
    BY <1>a, <1>g, <1>h, <1>j, <2>1
<1>1. CASE LinkUp
  BY <1>1, <1>d DEF LinkUp
<1>2. CASE LinkLost
  BY <1>2, <1>a, <1>b, <1>c, <1>f DEF LinkLost, Served, Excused
<1>3. CASE ConnectSucceeded
  BY <1>3, <1>d, <1>i DEF ConnectSucceeded, Early
<1>4. CASE End
  BY <1>4, <1>a, <1>b, <1>c, <1>f DEF End, Served, Excused
<1>5. ASSUME NEW t \in Topics, NEW q \in QoS, SubscribeEarly(t, q) PROVE Served(s)' \/ Excused(s)'
  BY <1>5, <1>i DEF SubscribeEarly
<1>6. ASSUME NEW t \in Topics, NEW q \in QoS, Subscribe(t, q) PROVE Served(s)' \/ Excused(s)'
  BY <1>6, <1>a, <1>b, <1>c, <1>f DEF Subscribe, Send, Served, Excused
<1>7. ASSUME NEW t \in Topics, UnsubscribeEarly(t) PROVE Served(s)' \/ Excused(s)'
  BY <1>7, <1>i DEF UnsubscribeEarly
<1>8. ASSUME NEW t \in Topics, Unsubscribe(t) PROVE Served(s)' \/ Excused(s)'
  BY <1>8, <1>a, <1>b, <1>c, <1>f DEF Unsubscribe, Send, Served, Excused
<1>9. CASE OnConnected
  <2>1. op'.kind = "resubscribe" /\ s \in Elements(todo')
    BY <1>9, <1>a, <1>c DEF OnConnected, Listed
  <2>2. QED
    BY <2>1 DEF Excused
<1>10. CASE IgnoreConnected
  BY <1>10, <1>a, <1>b, <1>c, <1>f DEF IgnoreConnected, Served, Excused
<1>11. ASSUME NEW result \in Results, SubscribeAnswered(result) PROVE Served(s)' \/ Excused(s)'
  <2>1. /\ op \in Request /\ op.topic \in Topics /\ op.qos \in QoS
        /\ s \in Listed /\ Calm
    BY <1>11, <1>a, <1>c, <1>e DEF SubscribeAnswered
  <2>2. op'.step = result /\ op'.topic = op.topic /\ op'.kind = op.kind
    BY <1>11, <1>b, <2>1 DEF SubscribeAnswered
  <2>3. CASE s.topic = op.topic
    <3>1. CASE op.kind = "resubscribe"
      BY <1>11, <1>a, <1>l, <2>1, <2>2, <2>3, <3>1 DEF SubscribeAnswered, Excused
    <3>2. CASE op.kind # "resubscribe"
      <4>1. op.kind = "subscribe" /\ op.step = "sent" /\ Served(s)
        BY <1>11, <1>f, <2>1, <3>2 DEF SubscribeAnswered, Excused
      <4>2. CASE result = "ok"
        BY <2>2, <2>3, <4>1, <4>2 DEF Excused
      <4>3. CASE result # "ok"
        <5>1. routes' = routes
          BY <1>11, <1>g, <1>i, <2>1, <2>3, <4>1, <4>3 DEF SubscribeAnswered, AcceptedTrue
        <5>2. broker'[s.topic] # Unheld
          BY <1>11, <1>d, <2>1, <2>3, <4>1, QoSByte DEF SubscribeAnswered, Served, Unheld
        <5>3. s.topic \in doubt' \/ broker'[s.topic] = s.qos
          BY <1>11, <2>1, <2>3, <4>1, <4>3 DEF SubscribeAnswered, Served
        <5>4. QED
          BY <4>1, <5>1, <5>2, <5>3 DEF Served
      <4>4. QED
        BY <4>2, <4>3
    <3>3. QED
      BY <3>1, <3>2
  <2>4. CASE s.topic # op.topic
    <3>1. Served(s) => Served(s)'
      BY <1>11, <1>d, <1>g, <2>1, <2>4 DEF SubscribeAnswered, Served
    <3>2. Excused(s) => Excused(s)'
      BY <1>11, <2>1, <2>2, <2>4 DEF SubscribeAnswered, Excused
    <3>3. QED
      BY <1>f, <2>1, <3>1, <3>2
  <2>5. QED
    BY <2>3, <2>4
<1>12. ASSUME NEW result \in Results, UnsubscribeAnswered(result) PROVE Served(s)' \/ Excused(s)'
  <2>1. /\ op \in Request /\ op.topic \in Topics
        /\ s \in Listed /\ Calm
    BY <1>12, <1>a, <1>c, <1>e DEF UnsubscribeAnswered
  <2>2. op'.step = result /\ op'.topic = op.topic /\ op'.kind = op.kind
    BY <1>12, <1>b, <2>1 DEF UnsubscribeAnswered
  <2>3. CASE s.topic = op.topic
    <3>1. op.kind = "unsubscribe" /\ op.step = "sent" /\ Served(s)
      BY <1>12, <1>f, <1>l, <2>1, <2>3 DEF UnsubscribeAnswered, Excused
    <3>2. CASE result = "failed"
      BY <1>12, <3>1, <3>2 DEF UnsubscribeAnswered, Served
    <3>3. CASE result # "failed"
      BY <1>12, <2>2, <2>3, <3>1, <3>3 DEF UnsubscribeAnswered, Excused
    <3>4. QED
      BY <3>2, <3>3
  <2>4. CASE s.topic # op.topic
    <3>1. Served(s) => Served(s)'
      BY <1>12, <1>d, <1>g, <2>1, <2>4 DEF UnsubscribeAnswered, Served
    <3>2. Excused(s) => Excused(s)'
      BY <1>12, <2>1, <2>2, <2>4 DEF UnsubscribeAnswered, Excused
    <3>3. QED
      BY <1>f, <2>1, <3>1, <3>2
  <2>5. QED
    BY <2>3, <2>4
<1>13. CASE SubscribeDone
  <2>1. op \in Request /\ op.topic \in Topics /\ op.qos \in QoS /\ Calm
    BY <1>13, <1>a, <1>e DEF SubscribeDone
  <2>2. Listed' = {r \in Listed : r.topic # op.topic} \cup {[topic |-> op.topic, qos |-> op.qos]}
    BY <1>13, <1>d, <2>1, SetSubLists DEF SubscribeDone
  <2>3. CASE s = [topic |-> op.topic, qos |-> op.qos]
    <3>1. broker[op.topic] = op.qos /\ op.topic \in routes
      BY <1>13, <1>i, <2>1 DEF SubscribeDone, AcceptedTrue, RoutesTrue
    <3>2. s.topic = op.topic /\ s.qos = op.qos
      BY <2>3
    <3>3. broker[s.topic] # Unheld
      BY <2>1, <3>1, <3>2, QoSByte DEF Unheld
    <3>4. QED
      BY <1>13, <3>1, <3>2, <3>3 DEF SubscribeDone, Served
  <2>4. CASE s \in Listed /\ s.topic # op.topic
    BY <1>13, <1>f, <2>1, <2>4 DEF SubscribeDone, Served, Excused
  <2>5. QED
    BY <2>2, <2>3, <2>4
<1>14. CASE SubscribeFailed
  BY <1>14, <1>a, <1>b, <1>c, <1>f DEF SubscribeFailed, Served, Excused
<1>15. CASE UnsubscribeDone
  <2>1. op \in Request /\ op.topic \in Topics
    BY <1>15, <1>a, <1>e DEF UnsubscribeDone
  <2>2. s \in Listed /\ s.topic # op.topic
    BY <1>15, <1>d, <1>i, <2>1, DeleteSubLists DEF UnsubscribeDone
  <2>3. QED
    BY <1>15, <1>f, <2>2 DEF UnsubscribeDone, Served, Excused
<1>16. CASE UnsubscribeFailed
  BY <1>16, <1>a, <1>b, <1>c, <1>f DEF UnsubscribeFailed, Served, Excused
<1>17. CASE ResubscribeEnds
  BY <1>17, <1>a, <1>c, <1>f, <1>k DEF ResubscribeEnds, Served, Excused
<1>18. CASE Resubscribe
  <2>1. /\ s \in Listed /\ Calm /\ op.kind = "resubscribe" /\ op'.kind = "resubscribe"
        /\ Served(s) => Served(s)'
    BY <1>18, <1>a, <1>c DEF Resubscribe, Send, Served
  <2>2. s \in Elements(todo) => s \in Elements(todo')
    BY <1>18, <1>j, <1>g, <2>1 DEF Resubscribe
  <2>3. QED
    BY <1>f, <2>1, <2>2 DEF Excused
<1>19. CASE ResubscribeNext
  <2>1. /\ s \in Listed /\ Calm /\ op'.kind = "resubscribe" /\ op.step = "ok" /\ op \in Request
        /\ op # NextSub /\ Elements(todo) = Elements(todo') \cup {Head(todo)}
    BY <1>19, <1>a, <1>c, <1>j DEF ResubscribeNext
  <2>2. CASE s = Head(todo)
    <3>1. broker[op.topic] = op.qos /\ op.topic \in routes
      BY <1>19, <1>i, <2>1 DEF ResubscribeNext, AcceptedTrue, RoutesTrue
    <3>2. s.topic = op.topic /\ s.qos = op.qos /\ op.qos \in QoS
      BY <1>19, <1>e, <1>j, <2>1, <2>2 DEF ResubscribeNext
    <3>3. broker[s.topic] # Unheld
      BY <3>1, <3>2, QoSByte DEF Unheld
    <3>4. QED
      BY <1>19, <3>1, <3>2, <3>3 DEF ResubscribeNext, Served
  <2>3. CASE s # Head(todo)
    <3>1. Served(s) => Served(s)'
      BY <1>19 DEF ResubscribeNext, Served
    <3>2. Excused(s) => Excused(s)'
      BY <1>19, <2>1, <2>3 DEF ResubscribeNext, Excused
    <3>3. QED
      BY <1>f, <2>1, <3>1, <3>2
  <2>4. QED
    BY <2>2, <2>3
<1>20. CASE ResubscribeGivesUp
  BY <1>20, <1>a, <1>b, <1>c, <1>f DEF ResubscribeGivesUp, Served, Excused
<1>21. CASE Drop
  <2>1. op \in Request /\ op.topic \in Topics /\ op'.kind = "cleanUp"
    BY <1>21, <1>a, <1>e DEF Drop, Request
  <2>2. s \in Listed /\ Calm
    BY <1>21, <1>d, <1>i, <2>1, DeleteSubLists DEF Drop
  <2>3. Served(s) => Served(s)'
    BY <1>21 DEF Drop, Served
  <2>4. Excused(s) => Excused(s)'
    BY <1>21, <2>1 DEF Drop, Excused
  <2>5. QED
    BY <1>f, <2>2, <2>3, <2>4
<1>22. CASE CleanedUp
  <2>1. /\ s \in Listed /\ Calm /\ op'.kind = "resubscribe" /\ op.kind = "cleanUp" /\ op # NextSub
        /\ Elements(todo) = Elements(todo') \cup {Head(todo)} /\ op.topic = Head(todo).topic
    BY <1>22, <1>a, <1>c, <1>j, <1>l DEF CleanedUp
  <2>2. s # Head(todo)
    BY <1>l, <2>1
  <2>3. Served(s) => Served(s)'
    BY <1>22 DEF CleanedUp, Served
  <2>4. Excused(s) => Excused(s)'
    BY <1>22, <2>1, <2>2 DEF CleanedUp, Excused
  <2>5. QED
    BY <1>f, <2>1, <2>3, <2>4
<1>23. CASE UNCHANGED vars
  BY <1>23, <1>a, <1>b, <1>c, <1>f DEF vars, Served, Excused
<1> QED
  BY <1>1, <1>2, <1>3, <1>4, <1>5, <1>6, <1>7, <1>8, <1>9, <1>10, <1>11, <1>12,
     <1>13, <1>14, <1>15, <1>16, <1>17, <1>18, <1>19, <1>20, <1>21, <1>22, <1>23
     DEF Next, Answered, Continue

\* The conjuncts of IInv together are inductive.
LEMMA InvStep == IInv /\ [Next]_vars => IInv'
<1> SUFFICES ASSUME IInv, [Next]_vars PROVE IInv'
  OBVIOUS
<1>1. TypeOK' /\ Unique' /\ Early' /\ CopyTrue' /\ AtHead' /\ Answers'
  BY TypeStep, ListStep, EarlyStep, CopyStep, HeadStep, AnswersStep DEF IInv
<1>2. KnownTrue' /\ RoutesTrue' /\ AcceptedTrue' /\ ServedTrue'
  BY KnownStep, RoutesStep, AcceptedStep, ServedStep DEF IInv
<1>3. QED
  BY <1>1, <1>2 DEF IInv

\* The inductive invariant of the subscriptions.
THEOREM InvHolds == Spec => []IInv
BY InitInv, InvStep, PTL DEF Spec

\* Whenever opMu is free, the list is what the frontend was told, and only
\* what is listed or left over is routed (subscription.go:147,
\* paho_client.go:265).
THEOREM ListAlwaysAgrees == Spec => []ListAgrees
<1>1. IInv => ListAgrees
  <2> SUFFICES ASSUME IInv, op = Free PROVE ListAgrees
    BY DEF ListAgrees
  <2>1. op.kind = "free" /\ KnownTrue /\ RoutesTrue
    BY Kinds DEF IInv
  <2>2. QED
    BY <2>1 DEF ListAgrees, KnownTrue, RoutesTrue, Adds
<1>2. QED
  BY <1>1, InvHolds, PTL

\* While the link is up and nobody works on it, the broker holds each listed
\* subscription, routed and at its QoS (subscription.go:141, service.go:192).
THEOREM ListedIsAlwaysServed == Spec => []ListedIsServed
<1>1. IInv => ListedIsServed
  <2> SUFFICES ASSUME IInv, Settled, link, NEW i \in DOMAIN subs
               PROVE  LET t == subs[i].topic IN
                      broker[t] # Unheld /\ t \in routes /\ (t \in doubt \/ broker[t] = subs[i].qos)
    BY DEF ListedIsServed
  <2>1. Calm /\ op.kind = "free" /\ subs[i] \in Listed
    BY Kinds DEF IInv, Settled, Calm, Listed, Elements
  <2>2. Served(subs[i])
    BY <2>1 DEF IInv, ServedTrue, Excused
  <2>3. QED
    BY <2>2 DEF Served
<1>2. QED
  BY <1>1, InvHolds, PTL

-----------------------------------------------------------------------------
(* The topic scan.                                                         *)

Stages == {"none", "connecting", "subscribing", "deciding", "discarding", "closing", "returned"}
Roles == {"stop", "lost", "disconnect", "shutdown"}

ScanTypeOK ==
    /\ closed \in BOOLEAN /\ listed \in BOOLEAN /\ ending \in BOOLEAN /\ drained \in BOOLEAN
    /\ current \in Scans \cup {None}
    /\ connWg \in Int
    /\ started \in [Scans -> BOOLEAN]
    /\ lostErr \in [Scans -> BOOLEAN]
    /\ pending \in [Scans -> Seq(Nat)]
    /\ starter \in [Scans -> Stages]
    /\ failed \in [Scans -> BOOLEAN]
    /\ joins \in [Scans -> Nat]
    /\ cutters \in [Scans -> SUBSET Roles]
    /\ scanLink \in [Scans -> {"off", "up", "lost"}]
    /\ served \in [Scans -> BOOLEAN]
    /\ losses \in [Scans -> Nat]
    /\ lostCalls \in [Scans -> Nat]
    /\ received \in [Scans -> Nat]
    /\ emitted \in [Scans -> Seq(Nat)]
    /\ ended \in [Scans -> {"no", "asked", "announced"}]

\* Who may disconnect the client of scan s: its starter before it runs, nobody
\* while it runs, the cutters afterwards; and then the link is off.
Young(s) ==
    starter[s] \in {"none", "connecting", "subscribing", "deciding", "discarding"}
        => ~started[s] /\ cutters[s] = {}
Offline(s) == starter[s] \in {"none", "connecting"} => scanLink[s] = "off"
Away(s) == starter[s] \in {"none", "discarding"} => current # s
Undone(s) ==
    starter[s] \in {"closing", "returned"} /\ ~started[s]
        => current # s /\ cutters[s] = {}
Cut(s) ==
    starter[s] \in {"closing", "returned"} /\ current # s /\ cutters[s] = {} => scanLink[s] = "off"
Uncut(s) == current = s => cutters[s] = {}
OwnerOf(s) == Young(s) /\ Offline(s) /\ Away(s) /\ Undone(s) /\ Cut(s) /\ Uncut(s)
Owners == \A s \in Scans : OwnerOf(s)

\* What a connection that was taken away, and a service that was closed, are.
Latch ==
    /\ listed => ~ending
    /\ ~listed => current = None
    /\ closed => ~listed
    /\ ~ending => \A s \in Scans : "disconnect" \notin cutters[s]

\* The WaitGroup counts the starts and the Disconnect under way.
Active == {s \in Scans : starter[s] \notin {"none", "returned"}}
CountExact == connWg = Cardinality(Active) + (IF ending THEN 1 ELSE 0)

Quiet ==
    drained => /\ closed /\ ~ending
               /\ \A s \in Scans : starter[s] \in {"none", "returned"} /\ "shutdown" \notin cutters[s]

\* A start that is about to succeed has its subscription, or knows, or is about
\* to learn, that the link was lost.
Deciding(s) ==
    starter[s] = "deciding" /\ current = s /\ ~failed[s]
        => served[s] \/ lostErr[s] \/ lostCalls[s] > 0
ServedOrLost(s) == current = s /\ started[s] => served[s] \/ lostCalls[s] > 0
EndKnown(s) == started[s] /\ current # s => ended[s] # "no"
ToldOf(s) == Deciding(s) /\ ServedOrLost(s) /\ EndKnown(s)
Told == \A s \in Scans : ToldOf(s)

\* What the scan took in so far is kept until it runs, and emitted then.
Upto(n) == [i \in 1..n |-> i]
Blank(s) == starter[s] = "none" => received[s] = 0 /\ pending[s] = <<>> /\ emitted[s] = <<>>
Heard(s) ==
    current = s => IF started[s] THEN emitted[s] = Upto(received[s])
                   ELSE pending[s] = Upto(received[s]) /\ emitted[s] = <<>>
HeardOf(s) == Blank(s) /\ Heard(s)
AllHeard == \A s \in Scans : HeardOf(s)

ScanInv == ScanTypeOK /\ Owners /\ Latch /\ CountExact /\ Quiet /\ Told /\ AllHeard
-----------------------------------------------------------------------------
\* The messages up to n, and the next one.
LEMMA UptoGrows ==
  ASSUME NEW n \in Nat
  PROVE  Upto(n) \in Seq(Nat) /\ Append(Upto(n), n + 1) = Upto(n + 1)
<1>1. Upto(n) \in Seq(Nat) /\ Len(Upto(n)) = n
  BY DEF Upto
<1>2. DOMAIN Append(Upto(n), n + 1) = 1..(n + 1) /\ DOMAIN Upto(n + 1) = 1..(n + 1)
  BY <1>1 DEF Upto
<1>3. \A i \in 1..(n + 1) : Append(Upto(n), n + 1)[i] = Upto(n + 1)[i]
  BY <1>1 DEF Upto
<1>4. QED
  BY <1>1, <1>2, <1>3 DEF Upto

LEMMA UptoNone == Upto(0) = <<>>
BY DEF Upto

\* The starts under way can be counted.
LEMMA AnyActiveFinite == IsFiniteSet(Active) /\ Cardinality(Active) \in Nat
BY ScansFinite, FS_Subset, FS_CardinalityType DEF Active

\* A connection that has had no scan.
LEMMA ScanInitInv == ScanInit => ScanInv
<1> SUFFICES ASSUME ScanInit PROVE ScanInv
  OBVIOUS
<1>1. ScanTypeOK
  <2>1. pending \in [Scans -> Seq(Nat)] /\ emitted \in [Scans -> Seq(Nat)]
    BY DEF ScanInit
  <2>2. cutters \in [Scans -> SUBSET Roles]
    BY DEF ScanInit
  <2>3. /\ started \in [Scans -> BOOLEAN] /\ lostErr \in [Scans -> BOOLEAN]
        /\ failed \in [Scans -> BOOLEAN] /\ served \in [Scans -> BOOLEAN]
    BY DEF ScanInit
  <2>4. /\ starter \in [Scans -> Stages] /\ scanLink \in [Scans -> {"off", "up", "lost"}]
        /\ ended \in [Scans -> {"no", "asked", "announced"}]
    BY DEF ScanInit, Stages
  <2>5. /\ joins \in [Scans -> Nat] /\ losses \in [Scans -> Nat]
        /\ lostCalls \in [Scans -> Nat] /\ received \in [Scans -> Nat]
    BY DEF ScanInit
  <2>6. closed \in BOOLEAN /\ listed \in BOOLEAN /\ ending \in BOOLEAN /\ drained \in BOOLEAN
    BY Zenon DEF ScanInit
  <2>7. current \in Scans \cup {None} /\ connWg \in Int
    BY SMT DEF ScanInit
  <2>8. QED
    BY <2>1, <2>2, <2>3, <2>4, <2>5, <2>6, <2>7 DEF ScanTypeOK
<1>5. Owners
  BY ScansFinite DEF ScanInit, Owners, OwnerOf, Young, Offline, Away, Undone, Cut, Uncut
<1>6. Latch /\ Quiet
  BY DEF ScanInit, Latch, Quiet
<1>7. Told
  BY DEF ScanInit, Told, ToldOf, Deciding, ServedOrLost, EndKnown
<1>2. AllHeard
  BY ScansFinite DEF ScanInit, AllHeard, HeardOf, Blank, Heard
<1>3. CountExact
  <2>1. Active = {}
    BY DEF ScanInit, Active
  <2>2. QED
    BY <2>1, FS_EmptySet DEF ScanInit, CountExact
<1>4. QED
  BY <1>1, <1>2, <1>3, <1>5, <1>6, <1>7 DEF ScanInv

\* Every step keeps the types.
LEMMA ScanTypeStep == ScanTypeOK /\ [ScanNext]_topicScanVars => ScanTypeOK'
<1> SUFFICES ASSUME ScanTypeOK, [ScanNext]_topicScanVars PROVE ScanTypeOK'
  OBVIOUS
<1> USE DEF ScanTypeOK, Stages, Roles, callVars, scanVars, ioVars, scanHistory
<1>1. ASSUME NEW s \in Scans, StartTopicScan(s) PROVE ScanTypeOK'
  BY <1>1 DEF StartTopicScan, Step
<1>2. ASSUME NEW s \in Scans, JoinTopicScan(s) PROVE ScanTypeOK'
  BY <1>2 DEF JoinTopicScan
<1>3. ASSUME NEW s \in Scans, JoinReturns(s) PROVE ScanTypeOK'
  <2>1. joins' \in [Scans -> Nat]
    BY <1>3 DEF JoinReturns
  <2>2. QED
    BY <1>3, <2>1 DEF JoinReturns
<1>4. ASSUME NEW s \in Scans, Connected(s) PROVE ScanTypeOK'
  BY <1>4 DEF Connected, Step
<1>5. ASSUME NEW s \in Scans, ConnectFailed(s) PROVE ScanTypeOK'
  BY <1>5 DEF ConnectFailed, Step
<1>6. ASSUME NEW s \in Scans, SubscribeReturns(s) PROVE ScanTypeOK'
  BY <1>6 DEF SubscribeReturns, Step
<1>7. ASSUME NEW s \in Scans, Started(s) PROVE ScanTypeOK'
  BY <1>7 DEF Started, Startable, Step
<1>8. ASSUME NEW s \in Scans, NotStarted(s) PROVE ScanTypeOK'
  BY <1>8 DEF NotStarted, Startable, Step
<1>9. ASSUME NEW s \in Scans, Discard(s) PROVE ScanTypeOK'
  BY <1>9 DEF Discard, Disconnect, Step
<1>10. ASSUME NEW s \in Scans, StartReturns(s) PROVE ScanTypeOK'
  BY <1>10 DEF StartReturns, Step
<1>11. ASSUME NEW s \in Scans, DisconnectScan(s) PROVE ScanTypeOK'
  <2>1. cutters' \in [Scans -> SUBSET Roles]
    BY <1>11 DEF DisconnectScan
  <2>2. scanLink' \in [Scans -> {"off", "up", "lost"}] /\ served' \in [Scans -> BOOLEAN]
    BY <1>11 DEF DisconnectScan, Disconnect
  <2>3. QED
    BY <1>11, <2>1, <2>2 DEF DisconnectScan
<1>12. ASSUME NEW s \in Scans, LostRunning(s) PROVE ScanTypeOK'
  BY <1>12 DEF LostRunning
<1>13. ASSUME NEW s \in Scans, LostOtherwise(s) PROVE ScanTypeOK'
  <2>1. lostErr' \in [Scans -> BOOLEAN]
    BY <1>13, Zenon DEF LostOtherwise
  <2>2. lostCalls' \in [Scans -> Nat]
    BY <1>13 DEF LostOtherwise
  <2>3. QED
    BY <1>13, <2>1, <2>2 DEF LostOtherwise
<1>14. ASSUME NEW s \in Scans, Serve(s) PROVE ScanTypeOK'
  BY <1>14 DEF Serve
<1>15. ASSUME NEW s \in Scans, ScanLinkLost(s) PROVE ScanTypeOK'
  <2>1. losses' \in [Scans -> Nat]
    BY <1>15 DEF ScanLinkLost
  <2>2. lostCalls' \in [Scans -> Nat]
    BY <1>15 DEF ScanLinkLost
  <2>3. scanLink' \in [Scans -> {"off", "up", "lost"}] /\ served' \in [Scans -> BOOLEAN]
    BY <1>15 DEF ScanLinkLost
  <2>4. QED
    BY <1>15, <2>1, <2>2, <2>3 DEF ScanLinkLost
<1>16. ASSUME NEW s \in Scans, Reconnect(s) PROVE ScanTypeOK'
  BY <1>16 DEF Reconnect
<1>17. ASSUME NEW s \in Scans, ScanHandler(s) PROVE ScanTypeOK'
  <2>1. received' \in [Scans -> Nat]
    BY <1>17 DEF ScanHandler
  <2>a. /\ Append(emitted[s], received[s] + 1) \in Seq(Nat)
        /\ Append(pending[s], received[s] + 1) \in Seq(Nat)
    <3>1. emitted[s] \in Seq(Nat) /\ pending[s] \in Seq(Nat) /\ received[s] + 1 \in Nat
      OBVIOUS
    <3>2. QED
      BY <3>1, AppendProperties
  <2>2. emitted' \in [Scans -> Seq(Nat)]
    <3>1. emitted' = [emitted EXCEPT ![s] = Append(emitted[s], received[s] + 1)] \/ emitted' = emitted
      BY <1>17 DEF ScanHandler
    <3>2. QED
      BY <2>a, <3>1
  <2>3. pending' \in [Scans -> Seq(Nat)]
    <3>1. pending' = [pending EXCEPT ![s] = Append(pending[s], received[s] + 1)] \/ pending' = pending
      BY <1>17 DEF ScanHandler
    <3>2. QED
      BY <2>a, <3>1
  <2>4. QED
    BY <1>17, <2>1, <2>2, <2>3 DEF ScanHandler
<1>18. CASE StopTopicScan
  BY <1>18 DEF StopTopicScan, DetachScan
<1>19. CASE DetachConnection
  <2>1. connWg' \in Int
    BY <1>19 DEF DetachConnection
  <2>2. cutters' \in [Scans -> SUBSET Roles] /\ ended' \in [Scans -> {"no", "asked", "announced"}]
    BY <1>19 DEF DetachConnection, DetachScan
  <2>3. QED
    BY <1>19, <2>1, <2>2 DEF DetachConnection, DetachScan
<1>20. CASE DisconnectReturns
  <2>1. connWg' \in Int
    BY <1>20 DEF DisconnectReturns
  <2>2. QED
    BY <1>20, <2>1 DEF DisconnectReturns
<1>21. CASE Shutdown
  BY <1>21 DEF Shutdown, DetachScan
<1>22. CASE ShutdownDrained
  BY <1>22 DEF ShutdownDrained
<1>23. CASE UNCHANGED topicScanVars
  BY <1>23 DEF topicScanVars
<1> QED
  BY <1>1, <1>2, <1>3, <1>4, <1>5, <1>6, <1>7, <1>8, <1>9, <1>10, <1>11, <1>12,
     <1>13, <1>14, <1>15, <1>16, <1>17, <1>18, <1>19, <1>20, <1>21, <1>22, <1>23
     DEF ScanNext, Starting, Lost, Stopped

\* Every step hands the client over, or leaves it with its owner.
LEMMA OwnersStep == ScanTypeOK /\ Owners /\ [ScanNext]_topicScanVars => Owners'
<1> SUFFICES ASSUME ScanTypeOK, Owners, [ScanNext]_topicScanVars, NEW t \in Scans PROVE OwnerOf(t)'
  BY DEF Owners
<1>a. OwnerOf(t)
  BY DEF Owners
<1> USE ScansFinite DEF ScanTypeOK, Stages, Roles, callVars, scanVars, ioVars, scanHistory,
            OwnerOf, Young, Offline, Away, Undone, Cut, Uncut
<1>1. ASSUME NEW s \in Scans, StartTopicScan(s) PROVE OwnerOf(t)'
  BY <1>1, <1>a DEF StartTopicScan, Step
<1>2. ASSUME NEW s \in Scans, JoinTopicScan(s) PROVE OwnerOf(t)'
  BY <1>2, <1>a DEF JoinTopicScan
<1>3. ASSUME NEW s \in Scans, JoinReturns(s) PROVE OwnerOf(t)'
  BY <1>3, <1>a DEF JoinReturns
<1>4. ASSUME NEW s \in Scans, Connected(s) PROVE OwnerOf(t)'
  BY <1>4, <1>a DEF Connected, Step
<1>5. ASSUME NEW s \in Scans, ConnectFailed(s) PROVE OwnerOf(t)'
  BY <1>5, <1>a DEF ConnectFailed, Step
<1>6. ASSUME NEW s \in Scans, SubscribeReturns(s) PROVE OwnerOf(t)'
  BY <1>6, <1>a DEF SubscribeReturns, Step
<1>7. ASSUME NEW s \in Scans, Started(s) PROVE OwnerOf(t)'
  BY <1>7, <1>a DEF Started, Startable, Step
<1>8. ASSUME NEW s \in Scans, NotStarted(s) PROVE OwnerOf(t)'
  BY <1>8, <1>a DEF NotStarted, Startable, Step
<1>9. ASSUME NEW s \in Scans, Discard(s) PROVE OwnerOf(t)'
  BY <1>9, <1>a DEF Discard, Disconnect, Step
<1>10. ASSUME NEW s \in Scans, StartReturns(s) PROVE OwnerOf(t)'
  BY <1>10, <1>a DEF StartReturns, Step
<1>11. ASSUME NEW s \in Scans, DisconnectScan(s) PROVE OwnerOf(t)'
  BY <1>11, <1>a DEF DisconnectScan, Disconnect
<1>12. ASSUME NEW s \in Scans, LostRunning(s) PROVE OwnerOf(t)'
  BY <1>12, <1>a DEF LostRunning
<1>13. ASSUME NEW s \in Scans, LostOtherwise(s) PROVE OwnerOf(t)'
  BY <1>13, <1>a DEF LostOtherwise
<1>14. ASSUME NEW s \in Scans, Serve(s) PROVE OwnerOf(t)'
  BY <1>14, <1>a DEF Serve
<1>15. ASSUME NEW s \in Scans, ScanLinkLost(s) PROVE OwnerOf(t)'
  BY <1>15, <1>a DEF ScanLinkLost
<1>16. ASSUME NEW s \in Scans, Reconnect(s) PROVE OwnerOf(t)'
  BY <1>16, <1>a DEF Reconnect
<1>17. ASSUME NEW s \in Scans, ScanHandler(s) PROVE OwnerOf(t)'
  BY <1>17, <1>a DEF ScanHandler
<1>18. CASE StopTopicScan
  BY <1>18, <1>a DEF StopTopicScan, DetachScan
<1>19. CASE DetachConnection
  BY <1>19, <1>a DEF DetachConnection, DetachScan
<1>20. CASE DisconnectReturns
  BY <1>20, <1>a DEF DisconnectReturns
<1>21. CASE Shutdown
  BY <1>21, <1>a DEF Shutdown, DetachScan
<1>22. CASE ShutdownDrained
  BY <1>22, <1>a DEF ShutdownDrained
<1>23. CASE UNCHANGED topicScanVars
  BY <1>23, <1>a DEF topicScanVars
<1> QED
  BY <1>1, <1>2, <1>3, <1>4, <1>5, <1>6, <1>7, <1>8, <1>9, <1>10, <1>11, <1>12,
     <1>13, <1>14, <1>15, <1>16, <1>17, <1>18, <1>19, <1>20, <1>21, <1>22, <1>23
     DEF ScanNext, Starting, Lost, Stopped

\* What is closed stays closed, and has no scan.
LEMMA LatchStep == ScanTypeOK /\ Latch /\ [ScanNext]_topicScanVars => Latch'
<1> SUFFICES ASSUME ScanTypeOK, Latch, [ScanNext]_topicScanVars PROVE Latch'
  OBVIOUS
<1> USE ScansFinite DEF ScanTypeOK, Roles, callVars, scanVars, ioVars, scanHistory, Latch
<1>1. ASSUME NEW s \in Scans, StartTopicScan(s) PROVE Latch'
  BY <1>1 DEF StartTopicScan, Step
<1>2. ASSUME NEW s \in Scans, JoinTopicScan(s) PROVE Latch'
  BY <1>2 DEF JoinTopicScan
<1>3. ASSUME NEW s \in Scans, JoinReturns(s) PROVE Latch'
  BY <1>3 DEF JoinReturns
<1>4. ASSUME NEW s \in Scans, Connected(s) PROVE Latch'
  BY <1>4 DEF Connected, Step
<1>5. ASSUME NEW s \in Scans, ConnectFailed(s) PROVE Latch'
  BY <1>5 DEF ConnectFailed, Step
<1>6. ASSUME NEW s \in Scans, SubscribeReturns(s) PROVE Latch'
  BY <1>6 DEF SubscribeReturns, Step
<1>7. ASSUME NEW s \in Scans, Started(s) PROVE Latch'
  BY <1>7 DEF Started, Startable, Step
<1>8. ASSUME NEW s \in Scans, NotStarted(s) PROVE Latch'
  BY <1>8 DEF NotStarted, Startable, Step
<1>9. ASSUME NEW s \in Scans, Discard(s) PROVE Latch'
  BY <1>9 DEF Discard, Disconnect, Step
<1>10. ASSUME NEW s \in Scans, StartReturns(s) PROVE Latch'
  BY <1>10 DEF StartReturns, Step
<1>11. ASSUME NEW s \in Scans, DisconnectScan(s) PROVE Latch'
  BY <1>11 DEF DisconnectScan, Disconnect
<1>12. ASSUME NEW s \in Scans, LostRunning(s) PROVE Latch'
  BY <1>12 DEF LostRunning
<1>13. ASSUME NEW s \in Scans, LostOtherwise(s) PROVE Latch'
  BY <1>13 DEF LostOtherwise
<1>14. ASSUME NEW s \in Scans, Serve(s) PROVE Latch'
  BY <1>14 DEF Serve
<1>15. ASSUME NEW s \in Scans, ScanLinkLost(s) PROVE Latch'
  BY <1>15 DEF ScanLinkLost
<1>16. ASSUME NEW s \in Scans, Reconnect(s) PROVE Latch'
  BY <1>16 DEF Reconnect
<1>17. ASSUME NEW s \in Scans, ScanHandler(s) PROVE Latch'
  BY <1>17 DEF ScanHandler
<1>18. CASE StopTopicScan
  BY <1>18 DEF StopTopicScan, DetachScan
<1>19. CASE DetachConnection
  BY <1>19 DEF DetachConnection, DetachScan
<1>20. CASE DisconnectReturns
  BY <1>20 DEF DisconnectReturns
<1>21. CASE Shutdown
  BY <1>21 DEF Shutdown, DetachScan
<1>22. CASE ShutdownDrained
  BY <1>22 DEF ShutdownDrained
<1>23. CASE UNCHANGED topicScanVars
  BY <1>23 DEF topicScanVars
<1> QED
  BY <1>1, <1>2, <1>3, <1>4, <1>5, <1>6, <1>7, <1>8, <1>9, <1>10, <1>11, <1>12,
     <1>13, <1>14, <1>15, <1>16, <1>17, <1>18, <1>19, <1>20, <1>21, <1>22, <1>23
     DEF ScanNext, Starting, Lost, Stopped

\* Each start, and Disconnect, is counted once.
LEMMA CountStep == ScanTypeOK /\ Latch /\ CountExact /\ [ScanNext]_topicScanVars => CountExact'
<1> SUFFICES ASSUME ScanTypeOK, Latch, CountExact, [ScanNext]_topicScanVars PROVE CountExact'
  OBVIOUS
<1>a. IsFiniteSet(Active) /\ Cardinality(Active) \in Nat
  BY AnyActiveFinite
<1>b. ASSUME Active' = Active, ending' = ending, connWg' = connWg PROVE CountExact'
  BY <1>b DEF CountExact
<1>c. ASSUME starter' = starter PROVE Active' = Active
  BY <1>c DEF Active
<1>d. ASSUME NEW s \in Scans, starter[s] \notin {"none", "returned"},
             starter'[s] \notin {"none", "returned"}, \A t \in Scans \ {s} : starter'[t] = starter[t]
      PROVE  Active' = Active
  BY <1>d DEF Active
<1> USE DEF ScanTypeOK, Stages, callVars, scanVars, ioVars, scanHistory
<1>1. ASSUME NEW s \in Scans, StartTopicScan(s) PROVE CountExact'
  <2>1. Active' = Active \cup {s} /\ s \notin Active
    BY <1>1 DEF StartTopicScan, Step, Active
  <2>2. Cardinality(Active') = Cardinality(Active) + 1
    BY <1>a, <2>1, FS_AddElement
  <2>3. QED
    BY <1>1, <1>a, <2>2 DEF StartTopicScan, CountExact
<1>2. ASSUME NEW s \in Scans, JoinTopicScan(s) PROVE CountExact'
  BY <1>2, <1>b, <1>c, <1>d DEF JoinTopicScan
<1>3. ASSUME NEW s \in Scans, JoinReturns(s) PROVE CountExact'
  BY <1>3, <1>b, <1>c, <1>d DEF JoinReturns
<1>4. ASSUME NEW s \in Scans, Connected(s) PROVE CountExact'
  BY <1>4, <1>b, <1>c, <1>d DEF Connected, Step
<1>5. ASSUME NEW s \in Scans, ConnectFailed(s) PROVE CountExact'
  BY <1>5, <1>b, <1>c, <1>d DEF ConnectFailed, Step
<1>6. ASSUME NEW s \in Scans, SubscribeReturns(s) PROVE CountExact'
  BY <1>6, <1>b, <1>c, <1>d DEF SubscribeReturns, Step
<1>7. ASSUME NEW s \in Scans, Started(s) PROVE CountExact'
  BY <1>7, <1>b, <1>c, <1>d DEF Started, Startable, Step
<1>8. ASSUME NEW s \in Scans, NotStarted(s) PROVE CountExact'
  BY <1>8, <1>b, <1>c, <1>d DEF NotStarted, Startable, Step
<1>9. ASSUME NEW s \in Scans, Discard(s) PROVE CountExact'
  BY <1>9, <1>b, <1>c, <1>d DEF Discard, Disconnect, Step
<1>10. ASSUME NEW s \in Scans, StartReturns(s) PROVE CountExact'
  <2>1. Active' = Active \ {s} /\ s \in Active
    BY <1>10 DEF StartReturns, Step, Active
  <2>2. Cardinality(Active') = Cardinality(Active) - 1
    BY <1>a, <2>1, FS_RemoveElement
  <2>3. connWg' = connWg - 1 /\ ending' = ending
    BY <1>10 DEF StartReturns
  <2>4. connWg = Cardinality(Active) + (IF ending THEN 1 ELSE 0) /\ Cardinality(Active) \in Nat
    BY <1>a, FS_CardinalityType DEF CountExact
  <2>5. connWg' = Cardinality(Active') + (IF ending' THEN 1 ELSE 0)
    <3>1. CASE ending
      BY <2>2, <2>3, <2>4, <3>1
    <3>2. CASE ~ending
      BY <2>2, <2>3, <2>4, <3>2
    <3>3. QED
      BY <3>1, <3>2
  <2>6. QED
    BY <2>5 DEF CountExact
<1>11. ASSUME NEW s \in Scans, DisconnectScan(s) PROVE CountExact'
  BY <1>11, <1>b, <1>c, <1>d DEF DisconnectScan, Disconnect
<1>12. ASSUME NEW s \in Scans, LostRunning(s) PROVE CountExact'
  BY <1>12, <1>b, <1>c, <1>d DEF LostRunning
<1>13. ASSUME NEW s \in Scans, LostOtherwise(s) PROVE CountExact'
  BY <1>13, <1>b, <1>c, <1>d DEF LostOtherwise
<1>14. ASSUME NEW s \in Scans, Serve(s) PROVE CountExact'
  BY <1>14, <1>b, <1>c, <1>d DEF Serve
<1>15. ASSUME NEW s \in Scans, ScanLinkLost(s) PROVE CountExact'
  BY <1>15, <1>b, <1>c, <1>d DEF ScanLinkLost
<1>16. ASSUME NEW s \in Scans, Reconnect(s) PROVE CountExact'
  BY <1>16, <1>b, <1>c, <1>d DEF Reconnect
<1>17. ASSUME NEW s \in Scans, ScanHandler(s) PROVE CountExact'
  BY <1>17, <1>b, <1>c, <1>d DEF ScanHandler
<1>18. CASE StopTopicScan
  BY <1>18, <1>b, <1>c, <1>d DEF StopTopicScan, DetachScan
<1>19. CASE DetachConnection
  <2>1. Active' = Active
    BY <1>19, <1>c DEF DetachConnection
  <2>2. QED
    BY <1>19, <1>a, <2>1 DEF DetachConnection, CountExact, Latch
<1>20. CASE DisconnectReturns
  <2>1. Active' = Active
    BY <1>20, <1>c DEF DisconnectReturns
  <2>2. QED
    BY <1>20, <1>a, <2>1 DEF DisconnectReturns, CountExact
<1>21. CASE Shutdown
  BY <1>21, <1>b, <1>c, <1>d DEF Shutdown, DetachScan
<1>22. CASE ShutdownDrained
  BY <1>22, <1>b, <1>c, <1>d DEF ShutdownDrained
<1>23. CASE UNCHANGED topicScanVars
  BY <1>23, <1>b, <1>c, <1>d DEF topicScanVars
<1> QED
  BY <1>1, <1>2, <1>3, <1>4, <1>5, <1>6, <1>7, <1>8, <1>9, <1>10, <1>11, <1>12,
     <1>13, <1>14, <1>15, <1>16, <1>17, <1>18, <1>19, <1>20, <1>21, <1>22, <1>23
     DEF ScanNext, Starting, Lost, Stopped

\* Nothing is begun after Shutdown has returned true.
LEMMA QuietStep == ScanTypeOK /\ Latch /\ CountExact /\ Quiet /\ [ScanNext]_topicScanVars => Quiet'
<1> SUFFICES ASSUME ScanTypeOK, Latch, CountExact, Quiet, [ScanNext]_topicScanVars PROVE Quiet'
  OBVIOUS
<1>a. connWg = 0 => ~ending /\ \A s \in Scans : starter[s] \in {"none", "returned"}
  <2> SUFFICES ASSUME connWg = 0 PROVE ~ending /\ Active = {}
    BY DEF Active
  <2>1. Cardinality(Active) = 0 /\ ~ending
    BY AnyActiveFinite DEF CountExact
  <2>2. QED
    BY <2>1, AnyActiveFinite, FS_EmptySet
<1> USE ScansFinite DEF ScanTypeOK, Stages, Roles, callVars, scanVars, ioVars, scanHistory, Quiet, Latch
<1>1. ASSUME NEW s \in Scans, StartTopicScan(s) PROVE Quiet'
  BY <1>1, <1>a DEF StartTopicScan, Step
<1>2. ASSUME NEW s \in Scans, JoinTopicScan(s) PROVE Quiet'
  BY <1>2, <1>a DEF JoinTopicScan
<1>3. ASSUME NEW s \in Scans, JoinReturns(s) PROVE Quiet'
  BY <1>3, <1>a DEF JoinReturns
<1>4. ASSUME NEW s \in Scans, Connected(s) PROVE Quiet'
  BY <1>4, <1>a DEF Connected, Step
<1>5. ASSUME NEW s \in Scans, ConnectFailed(s) PROVE Quiet'
  BY <1>5, <1>a DEF ConnectFailed, Step
<1>6. ASSUME NEW s \in Scans, SubscribeReturns(s) PROVE Quiet'
  BY <1>6, <1>a DEF SubscribeReturns, Step
<1>7. ASSUME NEW s \in Scans, Started(s) PROVE Quiet'
  BY <1>7, <1>a DEF Started, Startable, Step
<1>8. ASSUME NEW s \in Scans, NotStarted(s) PROVE Quiet'
  BY <1>8, <1>a DEF NotStarted, Startable, Step
<1>9. ASSUME NEW s \in Scans, Discard(s) PROVE Quiet'
  BY <1>9, <1>a DEF Discard, Disconnect, Step
<1>10. ASSUME NEW s \in Scans, StartReturns(s) PROVE Quiet'
  BY <1>10, <1>a DEF StartReturns, Step
<1>11. ASSUME NEW s \in Scans, DisconnectScan(s) PROVE Quiet'
  BY <1>11, <1>a DEF DisconnectScan, Disconnect
<1>12. ASSUME NEW s \in Scans, LostRunning(s) PROVE Quiet'
  BY <1>12, <1>a DEF LostRunning
<1>13. ASSUME NEW s \in Scans, LostOtherwise(s) PROVE Quiet'
  BY <1>13, <1>a DEF LostOtherwise
<1>14. ASSUME NEW s \in Scans, Serve(s) PROVE Quiet'
  BY <1>14, <1>a DEF Serve
<1>15. ASSUME NEW s \in Scans, ScanLinkLost(s) PROVE Quiet'
  BY <1>15, <1>a DEF ScanLinkLost
<1>16. ASSUME NEW s \in Scans, Reconnect(s) PROVE Quiet'
  BY <1>16, <1>a DEF Reconnect
<1>17. ASSUME NEW s \in Scans, ScanHandler(s) PROVE Quiet'
  BY <1>17, <1>a DEF ScanHandler
<1>18. CASE StopTopicScan
  BY <1>18, <1>a DEF StopTopicScan, DetachScan
<1>19. CASE DetachConnection
  BY <1>19, <1>a DEF DetachConnection, DetachScan
<1>20. CASE DisconnectReturns
  BY <1>20, <1>a DEF DisconnectReturns
<1>21. CASE Shutdown
  BY <1>21, <1>a DEF Shutdown, DetachScan
<1>22. CASE ShutdownDrained
  BY <1>22, <1>a DEF ShutdownDrained
<1>23. CASE UNCHANGED topicScanVars
  BY <1>23, <1>a DEF topicScanVars
<1> QED
  BY <1>1, <1>2, <1>3, <1>4, <1>5, <1>6, <1>7, <1>8, <1>9, <1>10, <1>11, <1>12,
     <1>13, <1>14, <1>15, <1>16, <1>17, <1>18, <1>19, <1>20, <1>21, <1>22, <1>23
     DEF ScanNext, Starting, Lost, Stopped

\* A link is lost only with a call that tells of it.
LEMMA ToldStep == ScanTypeOK /\ Owners /\ Told /\ [ScanNext]_topicScanVars => Told'
<1> SUFFICES ASSUME ScanTypeOK, Owners, Told, [ScanNext]_topicScanVars, NEW t \in Scans PROVE ToldOf(t)'
  BY DEF Told
<1>a. OwnerOf(t) /\ ToldOf(t)
  BY DEF Owners, Told
<1> USE ScansFinite DEF ScanTypeOK, Stages, Roles, callVars, scanVars, ioVars, scanHistory,
            OwnerOf, Young, Away, Undone, Uncut, ToldOf, Deciding, ServedOrLost, EndKnown
<1>1. ASSUME NEW s \in Scans, StartTopicScan(s) PROVE ToldOf(t)'
  BY <1>1, <1>a DEF StartTopicScan, Step
<1>2. ASSUME NEW s \in Scans, JoinTopicScan(s) PROVE ToldOf(t)'
  BY <1>2, <1>a DEF JoinTopicScan
<1>3. ASSUME NEW s \in Scans, JoinReturns(s) PROVE ToldOf(t)'
  BY <1>3, <1>a DEF JoinReturns
<1>4. ASSUME NEW s \in Scans, Connected(s) PROVE ToldOf(t)'
  BY <1>4, <1>a DEF Connected, Step
<1>5. ASSUME NEW s \in Scans, ConnectFailed(s) PROVE ToldOf(t)'
  BY <1>5, <1>a DEF ConnectFailed, Step
<1>6. ASSUME NEW s \in Scans, SubscribeReturns(s) PROVE ToldOf(t)'
  BY <1>6, <1>a DEF SubscribeReturns, Step
<1>7. ASSUME NEW s \in Scans, Started(s) PROVE ToldOf(t)'
  BY <1>7, <1>a DEF Started, Startable, Step
<1>8. ASSUME NEW s \in Scans, NotStarted(s) PROVE ToldOf(t)'
  BY <1>8, <1>a DEF NotStarted, Startable, Step
<1>9. ASSUME NEW s \in Scans, Discard(s) PROVE ToldOf(t)'
  BY <1>9, <1>a DEF Discard, Disconnect, Step
<1>10. ASSUME NEW s \in Scans, StartReturns(s) PROVE ToldOf(t)'
  BY <1>10, <1>a DEF StartReturns, Step
<1>11. ASSUME NEW s \in Scans, DisconnectScan(s) PROVE ToldOf(t)'
  BY <1>11, <1>a DEF DisconnectScan, Disconnect
<1>12. ASSUME NEW s \in Scans, LostRunning(s) PROVE ToldOf(t)'
  BY <1>12, <1>a DEF LostRunning
<1>13. ASSUME NEW s \in Scans, LostOtherwise(s) PROVE ToldOf(t)'
  BY <1>13, <1>a DEF LostOtherwise
<1>14. ASSUME NEW s \in Scans, Serve(s) PROVE ToldOf(t)'
  BY <1>14, <1>a DEF Serve
<1>15. ASSUME NEW s \in Scans, ScanLinkLost(s) PROVE ToldOf(t)'
  BY <1>15, <1>a DEF ScanLinkLost
<1>16. ASSUME NEW s \in Scans, Reconnect(s) PROVE ToldOf(t)'
  BY <1>16, <1>a DEF Reconnect
<1>17. ASSUME NEW s \in Scans, ScanHandler(s) PROVE ToldOf(t)'
  BY <1>17, <1>a DEF ScanHandler
<1>18. CASE StopTopicScan
  BY <1>18, <1>a DEF StopTopicScan, DetachScan
<1>19. CASE DetachConnection
  BY <1>19, <1>a DEF DetachConnection, DetachScan
<1>20. CASE DisconnectReturns
  BY <1>20, <1>a DEF DisconnectReturns
<1>21. CASE Shutdown
  BY <1>21, <1>a DEF Shutdown, DetachScan
<1>22. CASE ShutdownDrained
  BY <1>22, <1>a DEF ShutdownDrained
<1>23. CASE UNCHANGED topicScanVars
  BY <1>23, <1>a DEF topicScanVars
<1> QED
  BY <1>1, <1>2, <1>3, <1>4, <1>5, <1>6, <1>7, <1>8, <1>9, <1>10, <1>11, <1>12,
     <1>13, <1>14, <1>15, <1>16, <1>17, <1>18, <1>19, <1>20, <1>21, <1>22, <1>23
     DEF ScanNext, Starting, Lost, Stopped

\* Each message is appended, in its turn, to what was kept or emitted.
LEMMA HeardStep == ScanTypeOK /\ Owners /\ AllHeard /\ [ScanNext]_topicScanVars => AllHeard'
<1> SUFFICES ASSUME ScanTypeOK, Owners, AllHeard, [ScanNext]_topicScanVars, NEW t \in Scans PROVE HeardOf(t)'
  BY DEF AllHeard
<1>a. OwnerOf(t) /\ HeardOf(t)
  BY DEF Owners, AllHeard
<1>b. Upto(received[t]) \in Seq(Nat) /\ Append(Upto(received[t]), received[t] + 1) = Upto(received[t] + 1)
  BY UptoGrows DEF ScanTypeOK
<1>c. <<>> \o Upto(received[t]) = Upto(received[t])
  BY <1>b
<1> USE ScansFinite, UptoNone DEF ScanTypeOK, Stages, Roles, callVars, scanVars, ioVars, scanHistory,
            OwnerOf, Young, Away, Undone, Uncut, HeardOf, Blank, Heard
<1>1. ASSUME NEW s \in Scans, StartTopicScan(s) PROVE HeardOf(t)'
  BY <1>1, <1>a, <1>b, <1>c DEF StartTopicScan, Step
<1>2. ASSUME NEW s \in Scans, JoinTopicScan(s) PROVE HeardOf(t)'
  BY <1>2, <1>a, <1>b, <1>c DEF JoinTopicScan
<1>3. ASSUME NEW s \in Scans, JoinReturns(s) PROVE HeardOf(t)'
  BY <1>3, <1>a, <1>b, <1>c DEF JoinReturns
<1>4. ASSUME NEW s \in Scans, Connected(s) PROVE HeardOf(t)'
  BY <1>4, <1>a, <1>b, <1>c DEF Connected, Step
<1>5. ASSUME NEW s \in Scans, ConnectFailed(s) PROVE HeardOf(t)'
  BY <1>5, <1>a, <1>b, <1>c DEF ConnectFailed, Step
<1>6. ASSUME NEW s \in Scans, SubscribeReturns(s) PROVE HeardOf(t)'
  BY <1>6, <1>a, <1>b, <1>c DEF SubscribeReturns, Step
<1>7. ASSUME NEW s \in Scans, Started(s) PROVE HeardOf(t)'
  <2>1. CASE t = s
    <3>1. emitted'[t] = emitted[t] \o pending[t] /\ received' = received
      BY <1>7, <2>1 DEF Started
    <3>2. current' = t => started'[t] /\ emitted'[t] = Upto(received[t])
      BY <1>7, <1>a, <1>c, <2>1, <3>1 DEF Started, Startable, Step
    <3>3. starter'[t] # "none"
      BY <1>7, <2>1 DEF Started, Step
    <3>4. QED
      BY <3>1, <3>2, <3>3
  <2>2. CASE t # s
    BY <1>7, <1>a, <2>2 DEF Started, Step
  <2>3. QED
    BY <2>1, <2>2
<1>8. ASSUME NEW s \in Scans, NotStarted(s) PROVE HeardOf(t)'
  BY <1>8, <1>a, <1>b, <1>c DEF NotStarted, Startable, Step
<1>9. ASSUME NEW s \in Scans, Discard(s) PROVE HeardOf(t)'
  BY <1>9, <1>a, <1>b, <1>c DEF Discard, Disconnect, Step
<1>10. ASSUME NEW s \in Scans, StartReturns(s) PROVE HeardOf(t)'
  BY <1>10, <1>a, <1>b, <1>c DEF StartReturns, Step
<1>11. ASSUME NEW s \in Scans, DisconnectScan(s) PROVE HeardOf(t)'
  BY <1>11, <1>a, <1>b, <1>c DEF DisconnectScan, Disconnect
<1>12. ASSUME NEW s \in Scans, LostRunning(s) PROVE HeardOf(t)'
  BY <1>12, <1>a, <1>b, <1>c DEF LostRunning
<1>13. ASSUME NEW s \in Scans, LostOtherwise(s) PROVE HeardOf(t)'
  BY <1>13, <1>a, <1>b, <1>c DEF LostOtherwise
<1>14. ASSUME NEW s \in Scans, Serve(s) PROVE HeardOf(t)'
  BY <1>14, <1>a, <1>b, <1>c DEF Serve
<1>15. ASSUME NEW s \in Scans, ScanLinkLost(s) PROVE HeardOf(t)'
  BY <1>15, <1>a, <1>b, <1>c DEF ScanLinkLost
<1>16. ASSUME NEW s \in Scans, Reconnect(s) PROVE HeardOf(t)'
  BY <1>16, <1>a, <1>b, <1>c DEF Reconnect
<1>17. ASSUME NEW s \in Scans, ScanHandler(s) PROVE HeardOf(t)'
  <2>1. CASE t = s
    <3>1. received'[t] = received[t] + 1 /\ starter'[t] # "none" /\ started' = started
      BY <1>17, <1>a, <2>1 DEF ScanHandler
    <3>a. IF started[t] THEN emitted'[t] = Append(emitted[t], received[t] + 1)
          ELSE pending'[t] = Append(pending[t], received[t] + 1) /\ emitted' = emitted
      BY <1>17, <2>1 DEF ScanHandler
    <3>b. current = t
      BY <1>17, <2>1 DEF ScanHandler
    <3>2. started[t] => emitted'[t] = Upto(received[t] + 1)
      BY <1>a, <1>b, <3>a, <3>b
    <3>3. ~started[t] => pending'[t] = Upto(received[t] + 1) /\ emitted'[t] = <<>>
      BY <1>a, <1>b, <3>a, <3>b
    <3>4. QED
      BY <3>1, <3>2, <3>3
  <2>2. CASE t # s
    <3>1. /\ received'[t] = received[t] /\ starter'[t] = starter[t] /\ started' = started
          /\ current' = current /\ pending'[t] = pending[t] /\ emitted'[t] = emitted[t]
      BY <1>17, <2>2 DEF ScanHandler
    <3>2. QED
      BY <1>a, <3>1
  <2>3. QED
    BY <2>1, <2>2
<1>18. CASE StopTopicScan
  BY <1>18, <1>a, <1>b, <1>c DEF StopTopicScan, DetachScan
<1>19. CASE DetachConnection
  BY <1>19, <1>a, <1>b, <1>c DEF DetachConnection, DetachScan
<1>20. CASE DisconnectReturns
  BY <1>20, <1>a, <1>b, <1>c DEF DisconnectReturns
<1>21. CASE Shutdown
  BY <1>21, <1>a, <1>b, <1>c DEF Shutdown, DetachScan
<1>22. CASE ShutdownDrained
  BY <1>22, <1>a, <1>b, <1>c DEF ShutdownDrained
<1>23. CASE UNCHANGED topicScanVars
  BY <1>23, <1>a, <1>b, <1>c DEF topicScanVars
<1> QED
  BY <1>1, <1>2, <1>3, <1>4, <1>5, <1>6, <1>7, <1>8, <1>9, <1>10, <1>11, <1>12,
     <1>13, <1>14, <1>15, <1>16, <1>17, <1>18, <1>19, <1>20, <1>21, <1>22, <1>23
     DEF ScanNext, Starting, Lost, Stopped

LEMMA Inductive == ScanInv /\ [ScanNext]_topicScanVars => ScanInv'
BY ScanTypeStep, OwnersStep, LatchStep, CountStep, QuietStep, ToldStep, HeardStep DEF ScanInv

LEMMA AlwaysIInv == ScanSpec => []ScanInv
BY ScanInitInv, Inductive, PTL DEF ScanSpec

\* For any scans and bounds the client of a scan has one owner at a time: its
\* starter, nobody while it runs, then who took it off; none is left without,
\* and a Shutdown that returned true left none behind (topic_scan.go:31, 127).
THEOREM OwnersCorrect == ScanSpec => []ClientsOwned
<1>1. ScanInv => StarterOwnsClient
  BY DEF ScanInv, Owners, OwnerOf, Young, StarterOwnsClient
<1>2. ScanInv => NoOrphanClient
  BY DEF ScanInv, Owners, OwnerOf, Offline, Cut, NoOrphanClient
<1>3. ScanInv => DrainedMeansNoScan
  <2> SUFFICES ASSUME ScanInv, drained, NEW s \in Scans
               PROVE  /\ starter[s] \in {"none", "returned"}
                      /\ scanLink[s] = "off" \/ cutters[s] \cap {"stop", "lost"} # {}
    BY DEF DrainedMeansNoScan
  <2>1. starter[s] \in {"none", "returned"} /\ current # s
        /\ "shutdown" \notin cutters[s] /\ "disconnect" \notin cutters[s]
    BY ScansFinite DEF ScanInv, Quiet, Latch
  <2>2. cutters[s] = {} => scanLink[s] = "off"
    BY <2>1 DEF ScanInv, Owners, OwnerOf, Offline, Cut
  <2>3. cutters[s] \subseteq Roles
    BY DEF ScanInv, ScanTypeOK
  <2>4. QED
    BY <2>1, <2>2, <2>3 DEF Roles
<1>4. QED
  BY AlwaysIInv, <1>1, <1>2, <1>3, PTL DEF ClientsOwned

\* For any scans and bounds a scan shown as running is served, or the loss of
\* its link is about to be told, and no scan ends without a word
\* (topic_scan.go:111, 230).
THEOREM ToldCorrect == ScanSpec => []ScanTold
<1>1. ScanInv => ScanTold
  BY DEF ScanInv, Told, ToldOf, ServedOrLost, EndKnown, ScanTold, RunningIsServed, EndIsKnown, Running
<1>2. QED
  BY AlwaysIInv, <1>1, PTL

\* For any scans and bounds a running scan has emitted exactly what it took in,
\* in the order in which it came, from before its start was decided on
\* (topic_scan.go:117).
THEOREM HeardCorrect == ScanSpec => []NothingMissed
<1>1. ScanInv => NothingMissed
  BY DEF ScanInv, AllHeard, HeardOf, Heard, Upto, NothingMissed, Running
<1>2. QED
  BY AlwaysIInv, <1>1, PTL
=============================================================================
