--------------------------- MODULE MqttTopicScan ---------------------------
(***************************************************************************)
(* The Broker Topics scans of one connection: topic_scan.go of             *)
(* internal/application/mqtt, with the parts of Disconnect and Shutdown    *)
(* (service.go) that end a scan.                                           *)
(*                                                                         *)
(* StartTopicScan reserves the scan under the locks, connects and          *)
(* subscribes a client of its own without them, and looks again before it  *)
(* calls the scan started.  The scan may have been stopped meanwhile, and  *)
(* a further scan begun, and the link may have gone.  The client obeys the *)
(* contract of broker_port.go: once Connect has failed there is no link.   *)
(***************************************************************************)
EXTENDS Integers, Sequences, FiniteSets

CONSTANTS
    Scans,          \* the scans that may ever be started
    None,           \* no scan
    MaxLost,        \* bound: how often the link of one scan is lost
    MaxMessages,    \* bound: messages one scan receives
    MaxJoins        \* bound: callers that wait for one scan's start

ASSUME ScansFinite == IsFiniteSet(Scans) /\ None \notin Scans
ASSUME BoundsNat == {MaxLost, MaxMessages, MaxJoins} \subseteq Nat

VARIABLES
    closed,         \* s.closed
    listed,         \* the connection is in s.conns
    current,        \* conn.scan
    started,        \* scan.started
    lostErr,        \* scan.lostErr # nil
    pending,        \* scan.pending
    connWg,         \* s.connWg, what scans and Disconnect add to it
    ending,         \* the connection's Disconnect is in progress
    starter,        \* where StartTopicScan of the scan is
    failed,         \* its err # nil
    joins,          \* StartTopicScan calls that wait for the scan's done
    cutters,        \* who is about to disconnect the scan's client
    drained,        \* Shutdown has returned true
    scanLink,       \* the client's link
    served,         \* the broker holds the subscription of #
    losses,         \* how often the link was lost (bounded by MaxLost)
    lostCalls,      \* onScanConnectionLost calls that have not run yet
    received,       \* history: messages the scan took in
    emitted,        \* history: mqtt:scan-topic events of the scan
    ended           \* history: why a started scan ended

ioVars == <<scanLink, served, losses, lostCalls>>
callVars == <<starter, failed, joins, cutters, ending, drained>>
scanVars == <<current, started, lostErr, pending>>
scanHistory == <<received, emitted, ended>>
topicScanVars == <<closed, listed, connWg, scanVars, callVars, ioVars, scanHistory>>

ScanInit ==
    /\ closed = FALSE /\ listed = TRUE /\ ending = FALSE /\ drained = FALSE
    /\ current = None
    /\ started = [s \in Scans |-> FALSE]
    /\ lostErr = [s \in Scans |-> FALSE]
    /\ pending = [s \in Scans |-> <<>>]
    /\ connWg = 0
    /\ starter = [s \in Scans |-> "none"]
    /\ failed = [s \in Scans |-> FALSE]
    /\ joins = [s \in Scans |-> 0]
    /\ cutters = [s \in Scans |-> {}]
    /\ scanLink = [s \in Scans |-> "off"]
    /\ served = [s \in Scans |-> FALSE]
    /\ losses = [s \in Scans |-> 0]
    /\ lostCalls = [s \in Scans |-> 0]
    /\ received = [s \in Scans |-> 0]
    /\ emitted = [s \in Scans |-> <<>>]
    /\ ended = [s \in Scans |-> "no"]

Step(s, from, to) ==
    /\ starter[s] = from
    /\ starter' = [starter EXCEPT ![s] = to]

\* client.Disconnect
Disconnect(s) ==
    /\ scanLink' = [scanLink EXCEPT ![s] = "off"]
    /\ served' = [served EXCEPT ![s] = FALSE]

\* Mutant: nobody disconnects the client of a detached scan.
DetachAndForget(role) ==
    /\ current' = None
    /\ UNCHANGED cutters
    /\ ended' = IF current = None THEN ended ELSE [ended EXCEPT ![current] = "asked"]

\* detachScan: the client of a started scan is the caller's to disconnect.
DetachScan(role) ==
    /\ current' = None
    /\ cutters' = IF current = None \/ ~started[current] THEN cutters
                  ELSE [cutters EXCEPT ![current] = @ \cup {role}]
    /\ ended' = IF current = None THEN ended ELSE [ended EXCEPT ![current] = "asked"]
----------------------------------------------------------------------------
(* StartTopicScan                                                          *)

\* reserveScan
StartTopicScan(s) ==
    /\ ~closed /\ listed
    /\ current = None
    /\ Step(s, "none", "connecting")
    /\ current' = s
    /\ connWg' = connWg + 1
    /\ UNCHANGED <<closed, listed, started, lostErr, pending, failed, joins, cutters,
                   ending, drained, ioVars, scanHistory>>

\* A scan is there already: wait for its start.
JoinTopicScan(s) ==
    /\ ~closed /\ listed
    /\ current = s /\ starter[s] # "returned"
    /\ joins[s] < MaxJoins
    /\ joins' = [joins EXCEPT ![s] = @ + 1]
    /\ UNCHANGED <<closed, listed, connWg, scanVars, starter, failed, cutters, ending,
                   drained, ioVars, scanHistory>>

JoinReturns(s) ==
    /\ joins[s] > 0
    /\ starter[s] = "returned"
    /\ joins' = [joins EXCEPT ![s] = @ - 1]
    /\ UNCHANGED <<closed, listed, connWg, scanVars, starter, failed, cutters, ending,
                   drained, ioVars, scanHistory>>

Connected(s) ==
    /\ Step(s, "connecting", "subscribing")
    /\ scanLink' = [scanLink EXCEPT ![s] = "up"]
    /\ UNCHANGED <<closed, listed, connWg, scanVars, failed, joins, cutters, ending,
                   drained, served, losses, lostCalls, scanHistory>>

ConnectFailed(s) ==
    /\ Step(s, "connecting", "deciding")
    /\ failed' = [failed EXCEPT ![s] = TRUE]
    /\ UNCHANGED <<closed, listed, connWg, scanVars, joins, cutters, ending, drained,
                   ioVars, scanHistory>>

SubscribeReturns(s) ==
    /\ Step(s, "subscribing", "deciding")
    /\ \/ served[s] /\ UNCHANGED failed
       \/ failed' = [failed EXCEPT ![s] = TRUE]
    /\ UNCHANGED <<closed, listed, connWg, scanVars, joins, cutters, ending, drained,
                   ioVars, scanHistory>>

Startable(s) == current = s /\ ~failed[s] /\ ~lostErr[s]

\* Mutant: what arrived while the scan was starting is thrown away.
StartedForgetting(s) ==
    /\ Startable(s)
    /\ Step(s, "deciding", "closing")
    /\ started' = [started EXCEPT ![s] = TRUE]
    /\ pending' = [pending EXCEPT ![s] = <<>>]
    /\ UNCHANGED <<closed, listed, connWg, current, lostErr, failed, joins, cutters, ending,
                   drained, ioVars, scanHistory>>

\* Mutant: a link lost while the scan was starting is not looked at.
StartedOnLostLink(s) ==
    /\ current = s /\ ~failed[s]
    /\ Step(s, "deciding", "closing")
    /\ started' = [started EXCEPT ![s] = TRUE]
    /\ emitted' = [emitted EXCEPT ![s] = @ \o pending[s]]
    /\ pending' = [pending EXCEPT ![s] = <<>>]
    /\ UNCHANGED <<closed, listed, connWg, current, lostErr, failed, joins, cutters, ending,
                   drained, ioVars, received, ended>>

Started(s) ==
    /\ Startable(s)
    /\ Step(s, "deciding", "closing")
    /\ started' = [started EXCEPT ![s] = TRUE]
    /\ emitted' = [emitted EXCEPT ![s] = @ \o pending[s]]
    /\ pending' = [pending EXCEPT ![s] = <<>>]
    /\ UNCHANGED <<closed, listed, connWg, current, lostErr, failed, joins, cutters, ending,
                   drained, ioVars, received, ended>>

\* Failed, lost, or stopped meanwhile; a further scan is left alone.
NotStarted(s) ==
    /\ ~Startable(s)
    /\ Step(s, "deciding", "discarding")
    /\ failed' = [failed EXCEPT ![s] = TRUE]
    /\ current' = IF current = s THEN None ELSE current
    /\ pending' = [pending EXCEPT ![s] = <<>>]
    /\ UNCHANGED <<closed, listed, connWg, started, lostErr, joins, cutters, ending,
                   drained, ioVars, scanHistory>>

Discard(s) ==
    /\ Step(s, "discarding", "closing")
    /\ Disconnect(s)
    /\ UNCHANGED <<closed, listed, connWg, scanVars, failed, joins, cutters, ending,
                   drained, losses, lostCalls, scanHistory>>

\* close(scan.done) and connWg.Done
StartReturns(s) ==
    /\ Step(s, "closing", "returned")
    /\ connWg' = connWg - 1
    /\ UNCHANGED <<closed, listed, scanVars, failed, joins, cutters, ending, drained,
                   ioVars, scanHistory>>
----------------------------------------------------------------------------
(* The ends of a scan                                                      *)

StopTopicScan ==
    /\ listed
    /\ current # None
    /\ DetachScan("stop")
    /\ UNCHANGED <<closed, listed, connWg, started, lostErr, pending, starter, failed,
                   joins, ending, drained, ioVars, received, emitted>>

\* detach: Disconnect of the connection ends its scan too.
DetachConnection ==
    /\ listed
    /\ listed' = FALSE
    /\ ending' = TRUE
    /\ connWg' = connWg + 1
    /\ DetachScan("disconnect")
    /\ UNCHANGED <<closed, started, lostErr, pending, starter, failed, joins, drained,
                   ioVars, received, emitted>>

DisconnectReturns ==
    /\ ending
    /\ \A s \in Scans : "disconnect" \notin cutters[s]
    /\ ending' = FALSE
    /\ connWg' = connWg - 1
    /\ UNCHANGED <<closed, listed, scanVars, starter, failed, joins, cutters, drained,
                   ioVars, scanHistory>>

Shutdown ==
    /\ ~closed
    /\ closed' = TRUE
    /\ listed' = FALSE
    /\ DetachScan("shutdown")
    /\ UNCHANGED <<connWg, started, lostErr, pending, starter, failed, joins, ending,
                   drained, ioVars, received, emitted>>

ShutdownDrained ==
    /\ closed /\ ~drained
    /\ connWg = 0
    /\ \A s \in Scans : "shutdown" \notin cutters[s]
    /\ drained' = TRUE
    /\ UNCHANGED <<closed, listed, connWg, scanVars, starter, failed, joins, cutters,
                   ending, ioVars, scanHistory>>

\* disconnectScan of whoever detached the scan
DisconnectScan(s) ==
    /\ \E role \in cutters[s] : cutters' = [cutters EXCEPT ![s] = @ \ {role}]
    /\ Disconnect(s)
    /\ UNCHANGED <<closed, listed, connWg, scanVars, starter, failed, joins, ending,
                   drained, losses, lostCalls, scanHistory>>

\* onScanConnectionLost of the scan that is running: it ends, and says so.
LostRunning(s) ==
    /\ lostCalls[s] > 0
    /\ current = s /\ started[s]
    /\ lostCalls' = [lostCalls EXCEPT ![s] = @ - 1]
    /\ current' = None
    /\ ended' = [ended EXCEPT ![s] = "announced"]
    /\ cutters' = [cutters EXCEPT ![s] = @ \cup {"lost"}]
    /\ UNCHANGED <<closed, listed, connWg, started, lostErr, pending, starter, failed,
                   joins, ending, drained, scanLink, served, losses, received, emitted>>

\* ... of a scan that is starting, or of one that is not the connection's.
LostOtherwise(s) ==
    /\ lostCalls[s] > 0
    /\ ~(current = s /\ started[s])
    /\ lostCalls' = [lostCalls EXCEPT ![s] = @ - 1]
    /\ lostErr' = [lostErr EXCEPT ![s] = @ \/ current = s]
    /\ UNCHANGED <<closed, listed, connWg, current, started, pending, callVars, scanLink,
                   served, losses, scanHistory>>
----------------------------------------------------------------------------
(* The broker and paho                                                     *)

Serve(s) ==
    /\ starter[s] = "subscribing" /\ scanLink[s] = "up"
    /\ served' = [served EXCEPT ![s] = TRUE]
    /\ UNCHANGED <<closed, listed, connWg, scanVars, callVars, scanLink, losses, lostCalls,
                   scanHistory>>

ScanLinkLost(s) ==
    /\ scanLink[s] = "up"
    /\ losses[s] < MaxLost
    /\ scanLink' = [scanLink EXCEPT ![s] = "lost"]
    /\ served' = [served EXCEPT ![s] = FALSE]
    /\ losses' = [losses EXCEPT ![s] = @ + 1]
    /\ lostCalls' = [lostCalls EXCEPT ![s] = @ + 1]
    /\ UNCHANGED <<closed, listed, connWg, scanVars, callVars, scanHistory>>

\* paho reconnects by itself; the clean session has no subscription.
Reconnect(s) ==
    /\ scanLink[s] = "lost"
    /\ scanLink' = [scanLink EXCEPT ![s] = "up"]
    /\ UNCHANGED <<closed, listed, connWg, scanVars, callVars, served, losses, lostCalls,
                   scanHistory>>

\* scanHandler: kept while the scan is starting, emitted once it runs.
ScanHandler(s) ==
    /\ scanLink[s] = "up" /\ served[s]
    /\ current = s /\ listed
    /\ received[s] < MaxMessages
    /\ received' = [received EXCEPT ![s] = @ + 1]
    /\ IF started[s]
       THEN emitted' = [emitted EXCEPT ![s] = Append(@, received[s] + 1)] /\ UNCHANGED pending
       ELSE pending' = [pending EXCEPT ![s] = Append(@, received[s] + 1)] /\ UNCHANGED emitted
    /\ UNCHANGED <<closed, listed, connWg, current, started, lostErr, callVars, ioVars, ended>>
----------------------------------------------------------------------------
Starting(s) ==
    \/ Connected(s) \/ ConnectFailed(s) \/ SubscribeReturns(s)
    \/ Started(s) \/ NotStarted(s) \/ Discard(s) \/ StartReturns(s)
Lost(s) == LostRunning(s) \/ LostOtherwise(s)

\* Nothing is left to do, and in particular no caller waits for a start.
Stopped ==
    /\ drained
    /\ \A s \in Scans :
          /\ starter[s] \in {"none", "returned"}
          /\ joins[s] = 0 /\ lostCalls[s] = 0 /\ cutters[s] = {}
    /\ UNCHANGED topicScanVars

ScanNext ==
    \/ \E s \in Scans :
          \/ StartTopicScan(s) \/ JoinTopicScan(s) \/ JoinReturns(s) \/ Starting(s)
          \/ DisconnectScan(s) \/ Lost(s)
          \/ Serve(s) \/ ScanLinkLost(s) \/ Reconnect(s) \/ ScanHandler(s)
    \/ StopTopicScan \/ DetachConnection \/ DisconnectReturns
    \/ Shutdown \/ ShutdownDrained
    \/ Stopped

ScanSpec == ScanInit /\ [][ScanNext]_topicScanVars
----------------------------------------------------------------------------
(* Properties                                                              *)

Running(s) == current = s /\ started[s]

\* The scan the connection calls running has its subscription at the broker,
\* or is about to learn that its link was lost: it never shows as running while
\* nothing can arrive (topic_scan.go:111, 222).
RunningIsServed == \A s \in Scans : Running(s) => served[s] \/ lostCalls[s] > 0

\* Nothing that arrives is lost or reordered, whether before or after the
\* start was decided (topic_scan.go:117).
NothingMissed == \A s \in Scans : Running(s) => emitted[s] = [i \in 1..received[s] |-> i]

\* No scan's client outlives the scan: when nobody is left to disconnect it,
\* it is disconnected.
NoOrphanClient ==
    \A s \in Scans :
        (current # s /\ starter[s] \in {"none", "returned"} /\ cutters[s] = {})
            => scanLink[s] = "off"

\* The client of a scan that is starting is its starter's alone
\* (topic_scan.go:31).
StarterOwnsClient ==
    \A s \in Scans : starter[s] \in {"connecting", "subscribing", "deciding"} => cutters[s] = {}

\* A running scan ends because somebody asked, or the frontend is told
\* (topic_scan.go:230).
EndIsKnown == \A s \in Scans : started[s] /\ current # s => ended[s] # "no"

\* Once Shutdown has returned true no scan is starting, and no client is left
\* except one whose StopTopicScan, or loss, is disconnecting it at this moment.
DrainedMeansNoScan ==
    drained => \A s \in Scans :
        /\ starter[s] \in {"none", "returned"}
        /\ scanLink[s] = "off" \/ cutters[s] \cap {"stop", "lost"} # {}

\* What the connection tells of its scan: it shows as running only while it is
\* served, and the frontend hears when it ends (topic_scan.go:111, 230).
ScanTold == RunningIsServed /\ EndIsKnown

\* The client of a scan has exactly one owner at a time, and none is left
\* without (topic_scan.go:31, 58, 127, 171).
ClientsOwned == StarterOwnsClient /\ NoOrphanClient /\ DrainedMeansNoScan
=============================================================================
