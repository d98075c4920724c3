------------------------- MODULE MqttSubscriptions -------------------------
(***************************************************************************)
(* The subscriptions of one connection: subscription.go of                 *)
(* internal/application/mqtt over Subscribe, Unsubscribe and the routes of *)
(* internal/infrastructure/mqtt/paho_client.go.                            *)
(*                                                                         *)
(* The broker opens a clean session on every link, so onConnected makes    *)
(* the subscriptions again.  Whoever works with the client holds opMu      *)
(* meanwhile: op is what its holder is doing.  Links going and coming and  *)
(* the end of the connection do not wait for opMu.                         *)
(***************************************************************************)
EXTENDS Integers, SequencesExt

CONSTANTS
    Topics,         \* topic filters
    QoS,            \* qualities of service
    MaxLinks        \* bound: how often the link comes up

ASSUME BoundNat == MaxLinks \in Nat
ASSUME QoSByte == QoS \subseteq 0..2

VARIABLES
    state,          \* conn.state; "over" stands for the two terminal states
    link,           \* client.IsConnected()
    links,          \* how often the link came up (bounded by MaxLinks)
    upCalls,        \* onConnected calls that wait for opMu
    subs,           \* conn.subs in the order of conn.subOrder
    routes,         \* filters of p.routes
    broker,         \* the broker's session: filter -> QoS or Unheld
    op,             \* what the holder of opMu does
    todo,           \* the rest of resubscribe's copy of the subscriptions
    known,          \* history: what the frontend was told is subscribed
    doubt,          \* history: filters whose last request was not answered
    leftover        \* history: filters whose clean-up by resubscribe failed

linkVars == <<state, link, links, upCalls>>
history == <<known, doubt, leftover>>
vars == <<linkVars, subs, routes, broker, op, todo, history>>

Unheld == -1             \* the broker does not know the filter
Free == [kind |-> "free"]
TopicsOf(list) == {list[i].topic : i \in DOMAIN list}
Subscribed == TopicsOf(subs)

Results == {"ok", "rejected", "timeout", "failed"}

Init ==
    /\ state = "connecting"
    /\ link = FALSE
    /\ links = 0
    /\ upCalls = 0
    /\ subs = <<>>
    /\ routes = {}
    /\ broker = [t \in Topics |-> Unheld]
    /\ op = Free
    /\ todo = <<>>
    /\ known = {}
    /\ doubt = {}
    /\ leftover = {}

SetSub(t, q) ==
    subs' = IF t \in Subscribed
            THEN [i \in DOMAIN subs |-> IF subs[i].topic = t THEN [subs[i] EXCEPT !.qos = q]
                                                             ELSE subs[i]]
            ELSE Append(subs, [topic |-> t, qos |-> q])
DeleteSub(t) ==
    IF t \in Subscribed
    THEN \E i \in DOMAIN subs : subs[i].topic = t /\ subs' = RemoveAt(subs, i)
    ELSE subs' = subs
----------------------------------------------------------------------------
(* The link and the connection's state                                     *)

LinkUp ==
    /\ ~link /\ state # "over"
    /\ links < MaxLinks
    /\ link' = TRUE
    /\ links' = links + 1
    /\ upCalls' = upCalls + 1
    /\ broker' = [t \in Topics |-> Unheld]
    /\ UNCHANGED <<state, subs, routes, op, todo, history>>

LinkLost ==
    /\ link
    /\ link' = FALSE
    /\ UNCHANGED <<state, links, upCalls, subs, routes, broker, op, todo, history>>

\* runConnect sees the success, before or after onConnected does.
ConnectSucceeded ==
    /\ state = "connecting"
    /\ links > 0
    /\ state' = "connected"
    /\ UNCHANGED <<link, links, upCalls, subs, routes, broker, op, todo, history>>

\* Disconnect, Shutdown or a failed Connect: none of them waits for opMu.
End ==
    /\ state # "over"
    /\ state' = "over"
    /\ UNCHANGED <<link, links, upCalls, subs, routes, broker, op, todo, history>>
----------------------------------------------------------------------------
(* Requests to the broker                                                  *)

Send(kind, t, q, filters) ==
    /\ op' = [kind |-> kind, topic |-> t, qos |-> q, fresh |-> t \notin routes, step |-> "sent"]
    /\ routes' = filters

\* client.Subscribe returns.  A request that timed out may have been served.
SubscribeAnswered(result) ==
    /\ op.kind \in {"subscribe", "resubscribe"}
    /\ op.step = "sent"
    /\ result \in {"ok", "rejected"} => link
    /\ op' = [op EXCEPT !.step = result]
    /\ \E accepted \in IF result = "timeout" THEN BOOLEAN ELSE {result = "ok"} :
          broker' = IF accepted THEN [broker EXCEPT ![op.topic] = op.qos] ELSE broker
    /\ routes' = IF result # "ok" /\ op.fresh THEN routes \ {op.topic} ELSE routes
    /\ doubt' = CASE result = "ok" -> doubt \ {op.topic}
                  [] result = "timeout" -> doubt \cup {op.topic}
                  [] OTHER -> doubt
    /\ UNCHANGED <<linkVars, subs, todo, known, leftover>>

\* client.Unsubscribe returns.  Unanswered, it counts as done; failed, it does not.
UnsubscribeAnswered(result) ==
    /\ op.kind \in {"unsubscribe", "cleanUp"}
    /\ op.step = "sent"
    /\ result # "rejected"
    /\ result = "ok" => link
    /\ op' = [op EXCEPT !.step = result]
    /\ \E served \in IF result = "timeout" THEN BOOLEAN ELSE {result = "ok"} :
          broker' = IF served THEN [broker EXCEPT ![op.topic] = Unheld] ELSE broker
    /\ routes' = IF result = "failed" THEN routes ELSE routes \ {op.topic}
    /\ UNCHANGED <<linkVars, subs, todo, known, doubt, leftover>>
----------------------------------------------------------------------------
(* Subscribe and Unsubscribe                                               *)

\* Before the link is made only the list changes: onConnected does the rest.
SubscribeEarly(t, q) ==
    /\ op = Free
    /\ state = "connecting"
    /\ SetSub(t, q)
    /\ known' = known \cup {t}
    /\ UNCHANGED <<linkVars, routes, broker, op, todo, doubt, leftover>>

Subscribe(t, q) ==
    /\ op = Free
    /\ state = "connected"
    /\ Send("subscribe", t, q, routes \cup {t})
    /\ UNCHANGED <<linkVars, subs, broker, todo, history>>

SubscribeDone ==
    /\ op.kind = "subscribe"
    /\ op.step = "ok"
    /\ SetSub(op.topic, op.qos)
    /\ known' = known \cup {op.topic}
    /\ op' = Free
    /\ UNCHANGED <<linkVars, routes, broker, todo, doubt, leftover>>

SubscribeFailed ==
    /\ op.kind = "subscribe"
    /\ op.step \in Results \ {"ok"}
    /\ op' = Free
    /\ UNCHANGED <<linkVars, subs, routes, broker, todo, history>>

UnsubscribeEarly(t) ==
    /\ op = Free
    /\ state = "connecting"
    /\ DeleteSub(t)
    /\ known' = known \ {t}
    /\ UNCHANGED <<linkVars, routes, broker, op, todo, doubt, leftover>>

Unsubscribe(t) ==
    /\ op = Free
    /\ state = "connected"
    /\ \E q \in QoS : Send("unsubscribe", t, q, routes)
    /\ UNCHANGED <<linkVars, subs, broker, todo, history>>

UnsubscribeDone ==
    /\ op.kind = "unsubscribe"
    /\ op.step \in {"ok", "timeout"}
    /\ DeleteSub(op.topic)
    /\ known' = known \ {op.topic}
    /\ leftover' = leftover \ {op.topic}
    /\ op' = Free
    /\ UNCHANGED <<linkVars, routes, broker, todo, doubt>>

UnsubscribeFailed ==
    /\ op.kind = "unsubscribe"
    /\ op.step = "failed"
    /\ op' = Free
    /\ UNCHANGED <<linkVars, subs, routes, broker, todo, history>>
----------------------------------------------------------------------------
(* onConnected and resubscribe                                             *)

NextSub == [kind |-> "resubscribe", step |-> "next"]

OnConnected ==
    /\ op = Free
    /\ upCalls > 0
    /\ state # "over"
    /\ upCalls' = upCalls - 1
    /\ state' = "connected"
    /\ todo' = subs
    /\ op' = NextSub
    /\ UNCHANGED <<link, links, subs, routes, broker, history>>

IgnoreConnected ==
    /\ op = Free
    /\ upCalls > 0
    /\ state = "over"
    /\ upCalls' = upCalls - 1
    /\ UNCHANGED <<state, link, links, subs, routes, broker, op, todo, history>>

\* resubscribe ends with the list or with the connection.
ResubscribeEnds ==
    /\ op = NextSub
    /\ todo = <<>> \/ state = "over"
    /\ op' = Free
    /\ todo' = <<>>
    /\ UNCHANGED <<linkVars, subs, routes, broker, history>>

Resubscribe ==
    /\ op = NextSub
    /\ todo # <<>> /\ state # "over"
    /\ LET s == Head(todo)
       IN IF s.topic \in Subscribed
          THEN /\ Send("resubscribe", s.topic, s.qos, routes \cup {s.topic})
               /\ UNCHANGED todo
          ELSE /\ todo' = Tail(todo)
               /\ UNCHANGED <<op, routes>>
    /\ UNCHANGED <<linkVars, subs, broker, history>>

\* Mutant: what failed is tried again at once.
ResubscribeRetried ==
    /\ op.kind = "resubscribe"
    /\ \/ op.step = "ok" /\ todo' = Tail(todo)
       \/ op.step \in {"timeout", "failed"} /\ ~link /\ UNCHANGED todo
    /\ op' = NextSub
    /\ UNCHANGED <<linkVars, subs, routes, broker, history>>

\* Mutant: an unanswered subscription is kept although the link is up.
KeepUnanswered ==
    /\ op.kind = "resubscribe"
    /\ op.step \in {"ok", "timeout", "failed"}
    /\ todo' = Tail(todo)
    /\ op' = NextSub
    /\ UNCHANGED <<linkVars, subs, routes, broker, history>>

\* Made again, or kept for the next link because this one is gone.
ResubscribeNext ==
    /\ op.kind = "resubscribe"
    /\ \/ op.step = "ok"
       \/ op.step \in {"timeout", "failed"} /\ ~link
    /\ todo' = Tail(todo)
    /\ op' = NextSub
    /\ UNCHANGED <<linkVars, subs, routes, broker, history>>

\* Refused, or failed on a link that is open: nothing will try it again.
ResubscribeGivesUp ==
    /\ op.kind = "resubscribe"
    /\ \/ op.step = "rejected"
       \/ op.step \in {"timeout", "failed"} /\ link
    /\ op' = [op EXCEPT !.step = "drop"]
    /\ UNCHANGED <<linkVars, subs, routes, broker, todo, history>>

\* Mutant: the subscription is dropped without an event.
DropSilently ==
    /\ op.kind = "resubscribe"
    /\ op.step = "drop"
    /\ DeleteSub(op.topic)
    /\ op' = [op EXCEPT !.kind = "cleanUp", !.step = "sent"]
    /\ UNCHANGED <<linkVars, routes, broker, todo, known, doubt, leftover>>

\* deleteSub and mqtt:subscription-dropped, then client.Unsubscribe.
Drop ==
    /\ op.kind = "resubscribe"
    /\ op.step = "drop"
    /\ DeleteSub(op.topic)
    /\ known' = IF state = "over" THEN known ELSE known \ {op.topic}
    /\ op' = [op EXCEPT !.kind = "cleanUp", !.step = "sent"]
    /\ UNCHANGED <<linkVars, routes, broker, todo, doubt, leftover>>

CleanedUp ==
    /\ op.kind = "cleanUp"
    /\ op.step \in Results
    /\ leftover' = IF op.step = "failed" THEN leftover \cup {op.topic} ELSE leftover \ {op.topic}
    /\ todo' = Tail(todo)
    /\ op' = NextSub
    /\ UNCHANGED <<linkVars, subs, routes, broker, known, doubt>>
----------------------------------------------------------------------------
Answered == \E result \in Results : SubscribeAnswered(result) \/ UnsubscribeAnswered(result)
Continue ==
    \/ SubscribeDone \/ SubscribeFailed \/ UnsubscribeDone \/ UnsubscribeFailed
    \/ ResubscribeEnds \/ Resubscribe \/ ResubscribeNext \/ ResubscribeGivesUp
    \/ Drop \/ CleanedUp

Next ==
    \/ LinkUp \/ LinkLost \/ ConnectSucceeded \/ End
    \/ \E t \in Topics :
          \/ \E q \in QoS : SubscribeEarly(t, q) \/ Subscribe(t, q)
          \/ UnsubscribeEarly(t) \/ Unsubscribe(t)
    \/ OnConnected \/ IgnoreConnected
    \/ Answered \/ Continue

\* Every request has a time limit, and opMu admits every waiter in the end.
Fairness ==
    /\ WF_vars(Answered)
    /\ WF_vars(Continue)
    /\ SF_vars(OnConnected \/ IgnoreConnected)

Spec == Init /\ [][Next]_vars
FairSpec == Spec /\ Fairness
----------------------------------------------------------------------------
(* Properties                                                              *)

Settled == op = Free /\ upCalls = 0 /\ state = "connected"

\* A subscription that is listed is served: while the link is up and nobody is
\* about to make it again, the broker has it, its messages have a route, and it
\* has the QoS that is listed, unless its last change was not answered:
\* resubscribe never wins over a newer Subscribe (subscription.go:141,
\* service.go:192).
ListedIsServed ==
    Settled /\ link =>
        \A i \in DOMAIN subs : LET t == subs[i].topic IN
            broker[t] # Unheld /\ t \in routes /\ (t \in doubt \/ broker[t] = subs[i].qos)

\* Whenever opMu is free, the list is what the frontend has been told: a
\* subscription taken off it is announced (subscription.go:147); and what is
\* routed is listed, except where resubscribe's own clean-up failed
\* (paho_client.go:265).
ListAgrees ==
    op = Free => /\ state # "over" => known = Subscribed
                 /\ routes \subseteq Subscribed \cup leftover

\* Every onConnected gets its turn and comes to its end.
ReconnectServed == upCalls > 0 ~> upCalls = 0 /\ op = Free

=============================================================================
