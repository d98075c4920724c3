------------------------------ MODULE MqttRows ------------------------------
(***************************************************************************)
(* The rows of a tab's subscriptions (application/mqtt/subscriptions.ts,   *)
(* and the loop of connections.ts that subscribes again after a            *)
(* reconnection), over one connection of the backend, seen from outside:   *)
(* MqttSubscriptions says what happens in it.                              *)
(*                                                                         *)
(* A call is made, carried out by the backend, and answered: three steps.  *)
(* The events of the connection arrive in their order, but independently   *)
(* of the answers.                                                         *)
(***************************************************************************)
EXTENDS Integers, Sequences, FiniteSets, SequencesExt, Arrays

CONSTANTS
    Topics,
    MaxRows,     \* bound: rows that are ever made
    MaxRowCalls, \* bound: calls of the user under way
    MaxLosses    \* bound: links that are lost

ASSUME RowsAssumption ==
    /\ Topics # {} /\ MaxRows \in Nat /\ MaxRowCalls \in Nat /\ MaxLosses \in Nat

VARIABLES
    \* the backend
    conn,     \* "connecting", "up", "lost", "gone"
    subs,     \* conn.subs
    renew,    \* what resubscribe has yet to subscribe; it holds opMu until then
    losses,
    told,     \* events on their way: [kind, topic]
    \* the frontend
    tab,      \* "waiting", "connected", "closed", or "none"
    rows,     \* [id, topic]
    ids,      \* rows that were made
    rpcs,     \* calls under way: [op, topic, row, live, dropped, behind, at, ok, has, here]
    again,    \* the rows that the reconnection has yet to subscribe
    \* history
    awry,     \* a call was overtaken, or done twice, or the list could not be read
    torn      \* a row was taken off, or is being, that the backend has or is sent again

connVars == <<conn, subs, renew, losses, told>>
rowVars == <<conn, subs, renew, losses, told, tab, rows, ids, rpcs, again, awry, torn>>

Event(kind, t) == [kind |-> kind, topic |-> t]
AnyTopic == CHOOSE t \in Topics : TRUE

\* live: the tab was connected when the user removed the row; behind: events
\* from before the call that are still on their way
Rpc(op, t, row) ==
    [op |-> op, topic |-> t, row |-> row, live |-> op = "remove" /\ tab = "connected",
     dropped |-> FALSE, behind |-> Len(told), at |-> "called", ok |-> TRUE, has |-> FALSE, here |-> TRUE]

TopicsOf(rs) == {r.topic : r \in Range(rs)}
WithoutRow(rs, id) == Only(rs, {r \in Range(rs) : r.id # id})
-----------------------------------------------------------------------------
(* The backend.                                                            *)

LinkUp ==
    /\ conn \in {"connecting", "lost"} /\ renew = {}
    /\ conn' = "up" /\ renew' = subs
    /\ told' = Append(told, Event("connected", AnyTopic))
    /\ UNCHANGED <<subs, losses, tab, rows, ids, rpcs, again, awry, torn>>
LinkLost ==
    /\ conn = "up" /\ losses < MaxLosses
    /\ conn' = "lost" /\ losses' = losses + 1
    /\ told' = Append(told, Event("lost", AnyTopic))
    /\ UNCHANGED <<subs, renew, tab, rows, ids, rpcs, again, awry, torn>>
\* the connection could not be made, or was ended
LinkGone ==
    /\ conn # "gone"
    /\ conn' = "gone" /\ subs' = {} /\ renew' = {}
    /\ told' = Append(told, Event("gone", AnyTopic))
    /\ UNCHANGED <<losses, tab, rows, ids, rpcs, again, awry, torn>>

\* resubscribe: kept, for this link or the next one, or dropped
Renewed(t) ==
    /\ t \in renew /\ renew' = renew \ {t}
    /\ UNCHANGED <<conn, subs, losses, told, tab, rows, ids, rpcs, again, awry, torn>>
Dropped(t) ==
    /\ t \in renew /\ renew' = renew \ {t} /\ subs' = subs \ {t}
    /\ told' = Append(told, Event("dropped", t))
    /\ UNCHANGED <<conn, losses, tab, rows, ids, rpcs, again, awry, torn>>

Does(i, S) == i \in DOMAIN rpcs /\ rpcs[i].at = "called" /\ rpcs[i].op \in S
Done(i, ok) == rpcs' = [rpcs EXCEPT ![i].at = "answered", ![i].ok = ok]
\* an earlier call about the same topic has not been carried out
Overtakes(i) == \E k \in 1 .. i - 1 : rpcs[k].at = "called" /\ rpcs[k].topic = rpcs[i].topic

DoSubscribe(i) ==
    /\ Does(i, {"add", "again"})
    /\ conn \in {"connecting", "up"} /\ renew = {}
    /\ subs' = subs \cup {rpcs[i].topic}
    /\ Done(i, TRUE)
    /\ awry' = (awry \/ Overtakes(i))
    /\ UNCHANGED <<conn, renew, losses, told, tab, rows, ids, again, torn>>
DoUnsubscribe(i) ==
    /\ Does(i, {"remove"})
    /\ conn \in {"connecting", "up"} /\ renew = {}
    /\ subs' = subs \ {rpcs[i].topic}
    /\ \/ Done(i, TRUE)
       \/ conn = "up" /\ Done(i, FALSE)   \* not answered in time
    /\ awry' = (awry \/ Overtakes(i))
    /\ UNCHANGED <<conn, renew, losses, told, tab, rows, ids, again, torn>>
\* refused by the broker or by a link that is not there
Fail(i) ==
    /\ Does(i, {"add", "again", "remove"})
    /\ conn # "connecting" /\ renew = {}
    /\ Done(i, FALSE)
    /\ awry' = (awry \/ Overtakes(i))
    /\ UNCHANGED <<connVars, tab, rows, ids, again, torn>>
\* GetConnections does not wait for opMu
DoList(i) ==
    /\ Does(i, {"check", "settle"})
    /\ rpcs' = [rpcs EXCEPT ![i].at = "answered", ![i].has = rpcs[i].topic \in subs,
                               ![i].here = conn # "gone"]
    /\ UNCHANGED <<connVars, tab, rows, ids, again, awry, torn>>
ListFails(i) ==
    /\ Does(i, {"check", "settle"})
    /\ Done(i, FALSE)
    /\ awry' = TRUE
    /\ UNCHANGED <<connVars, tab, rows, ids, again, torn>>
-----------------------------------------------------------------------------
(* The user.                                                               *)

UserRpcs == {i \in DOMAIN rpcs : rpcs[i].op \in {"add", "remove", "check"}}
MayRpc == tab # "none" /\ Cardinality(UserRpcs) < MaxRowCalls

\* In the input, or with the button of a topic that a scan found: that one is
\* there whatever the state of the connection.
AddSubscription(t) ==
    /\ MayRpc /\ ids < MaxRows /\ t \notin TopicsOf(rows)
    /\ rpcs' = Append(rpcs, Rpc("add", t, 0))
    /\ awry' = (awry \/ \E i \in DOMAIN rpcs : rpcs[i].op = "add" /\ rpcs[i].topic = t)
    /\ UNCHANGED <<connVars, tab, rows, ids, again, torn>>
RemoveSubscription(r) ==
    /\ MayRpc /\ r \in Range(rows)
    /\ rpcs' = Append(rpcs, Rpc("remove", r.topic, r.id))
    /\ UNCHANGED <<connVars, tab, rows, ids, again, awry, torn>>
LeaveTab ==
    /\ tab # "none"
    /\ tab' = "none" /\ rows' = <<>>
    /\ UNCHANGED <<connVars, ids, rpcs, again, awry, torn>>
-----------------------------------------------------------------------------
(* Events.                                                                 *)

Take == told' = Tail(told)
Nearer == [i \in DOMAIN rpcs |-> [rpcs[i] EXCEPT !.behind = IF @ = 0 THEN 0 ELSE @ - 1]]
\* an event from before the call has not been heard
Stale(i) == rpcs[i].behind > 0

HearState ==
    /\ told # <<>> /\ told[1].kind # "dropped"
    /\ Take
    /\ rpcs' = Nearer
    /\ tab' = IF tab \in {"none", "closed"} THEN tab
              ELSE CASE told[1].kind = "connected" -> "connected"
                     [] told[1].kind = "lost" -> "waiting"
                     [] told[1].kind = "gone" -> "closed"
    /\ UNCHANGED <<conn, subs, renew, losses, rows, ids, again, awry, torn>>

\* The row goes; a subscription that is not answered yet will add none.
Unmarked(t) == rpcs' = Nearer
Mark(t) ==
    rpcs' = [i \in DOMAIN rpcs |-> IF rpcs[i].op = "add" /\ rpcs[i].topic = t
                                   THEN [Nearer[i] EXCEPT !.dropped = TRUE] ELSE Nearer[i]]
HearDropped ==
    /\ told # <<>> /\ told[1].kind = "dropped"
    /\ Take
    /\ rows' = Only(rows, {r \in Range(rows) : r.topic # told[1].topic})
    /\ Mark(told[1].topic)
    /\ awry' = (awry \/ \E i \in DOMAIN rpcs : rpcs[i].op = "add" /\ rpcs[i].topic = told[1].topic /\ Stale(i))
    /\ UNCHANGED <<conn, subs, renew, losses, tab, ids, again, torn>>
-----------------------------------------------------------------------------
(* Answers.                                                                *)

Answered(i, op) == i \in DOMAIN rpcs /\ rpcs[i].at = "answered" /\ rpcs[i].op = op
Others(i) == RemoveAt(rpcs, i)

Added(i) ==
    LET c == rpcs[i] IN
    /\ Answered(i, "add")
    /\ IF c.ok /\ ~c.dropped /\ tab # "none"
       THEN rows' = Append(rows, [id |-> ids + 1, topic |-> c.topic]) /\ ids' = ids + 1
       ELSE UNCHANGED <<rows, ids>>
    /\ rpcs' = Others(i)
    /\ awry' = (awry \/ Stale(i))
    /\ UNCHANGED <<connVars, tab, again, torn>>

\* a failure while the tab is not connected takes the row off all the same
Removed(i) ==
    LET c == rpcs[i] IN
    /\ Answered(i, "remove")
    /\ c.ok \/ ~c.live
    /\ rows' = WithoutRow(rows, c.row)
    /\ rpcs' = Others(i)
    /\ awry' = (awry \/ Stale(i))
    /\ torn' = (torn \/ (~c.ok /\ c.topic \in subs))
    /\ UNCHANGED <<connVars, tab, ids, again>>
RemoveFailed(i) ==
    LET c == rpcs[i] IN
    /\ Answered(i, "remove")
    /\ ~c.ok /\ c.live
    /\ rpcs' = Append(Others(i), Rpc("check", c.topic, c.row))
    /\ UNCHANGED <<connVars, tab, rows, ids, again, awry, torn>>
\* remainsSubscribed; when it can not be told the row stays
Remains(c) == ~c.ok \/ c.has
Checked(i) ==
    LET c == rpcs[i] IN
    /\ Answered(i, "check")
    /\ rows' = IF Remains(c) THEN rows ELSE WithoutRow(rows, c.row)
    /\ rpcs' = Others(i)
    /\ awry' = (awry \/ Stale(i))
    /\ UNCHANGED <<connVars, tab, ids, again, torn>>

\* The loop of reconnect goes on with the rows that are still there.
Onward(i, rs) ==
    LET todo == Only(again, Range(rs))
        ends == tab = "none" \/ todo = <<>>
        \* its removal has not been answered
        leaving == \E k \in UserRpcs : rpcs[k].row = todo[1].id
    IN  /\ IF ends THEN rpcs' = Others(i) /\ again' = <<>>
           ELSE /\ rpcs' = Append(Others(i), Rpc("again", todo[1].topic, todo[1].id))
                /\ again' = Tail(todo)
        /\ awry' = (awry \/ Stale(i))
        /\ torn' = (torn \/ (~ends /\ leaving))

SubscribedAgain(i) ==
    /\ Answered(i, "again") /\ rpcs[i].ok
    /\ Onward(i, rows)
    /\ UNCHANGED <<connVars, tab, rows, ids>>
AgainFailed(i) ==
    LET c == rpcs[i] IN
    /\ Answered(i, "again") /\ ~c.ok
    /\ rpcs' = Append(Others(i), Rpc("settle", c.topic, c.row))
    /\ UNCHANGED <<connVars, tab, rows, ids, again, awry, torn>>
\* settleFailedResubscribe: the rest waits for the next reconnection when the
\* connection is gone
Settled(i) ==
    LET c == rpcs[i]
        rs == IF c.ok /\ ~c.has THEN WithoutRow(rows, c.row) ELSE rows IN
    /\ Answered(i, "settle")
    /\ IF c.ok /\ ~c.here
       THEN rpcs' = Others(i) /\ again' = <<>> /\ UNCHANGED <<rows, awry, torn>>
       ELSE rows' = rs /\ Onward(i, rs)
    /\ UNCHANGED <<connVars, tab, ids>>
-----------------------------------------------------------------------------
\* The answer to Connect is there: the tab has taken over the rows of the one
\* before, if there was one, and subscribes the first.
RowsInit ==
    /\ conn = "connecting" /\ subs = {} /\ renew = {} /\ losses = 0 /\ told = <<>>
    /\ tab = "waiting"
    /\ \E n \in 0 .. MaxRows : \E ts \in [1 .. n -> Topics] :
          LET old == [i \in 1 .. n |-> [id |-> i, topic |-> ts[i]]] IN
          /\ IsInjective(ts)
          /\ rows = old /\ ids = n
          /\ again = IF n = 0 THEN <<>> ELSE Tail(old)
          /\ rpcs = IF n = 0 THEN <<>> ELSE <<Rpc("again", ts[1], 1)>>
    /\ awry = FALSE /\ torn = FALSE

RowsUser ==
    \/ LeaveTab
    \/ \E t \in Topics : AddSubscription(t)
    \/ \E r \in Range(rows) : RemoveSubscription(r)
RowsSystem ==
    \/ LinkUp \/ LinkLost \/ LinkGone \/ HearState \/ HearDropped
    \/ \E t \in Topics : Renewed(t) \/ Dropped(t)
    \/ \E i \in DOMAIN rpcs :
          \/ DoSubscribe(i) \/ DoUnsubscribe(i) \/ Fail(i) \/ DoList(i) \/ ListFails(i)
          \/ Added(i) \/ Removed(i) \/ RemoveFailed(i) \/ Checked(i)
          \/ SubscribedAgain(i) \/ AgainFailed(i) \/ Settled(i)

\* a bound: nothing is said of what comes after an exception
RowsNext == ~awry /\ (RowsUser \/ RowsSystem)
RowsSpec == RowsInit /\ [][RowsNext]_rowVars
-----------------------------------------------------------------------------
(* Properties.                                                             *)

Quiet == tab = "connected" /\ rpcs = <<>> /\ told = <<>> /\ renew = {}

\* When nothing is under way the rows of a connected tab are what the backend
\* has subscribed, whatever was dropped, refused or left unanswered, and in
\* whatever order it was told (subscriptions.ts:43-44, 153-154;
\* connections.ts:478-479).
RowsServed ==
    Quiet /\ ~awry /\ ~torn => TopicsOf(rows) = subs /\ Len(rows) = Cardinality(subs)

\* "When it fails while not connected (the link is gone, reconnecting) it is
\* enough to take the row off": the backend has no subscription then that the
\* list does not show (subscriptions.ts:147).
NothingUnseen == Quiet /\ ~awry => subs \subseteq TopicsOf(rows)
=============================================================================
