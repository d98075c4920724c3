--------------------------- MODULE MqttScanPanel ---------------------------
(***************************************************************************)
(* The Scan button and the Broker Topics of a tab: setIsScanning of        *)
(* application/mqtt/subscriptions.ts, mqtt:scan-topic and                  *)
(* mqtt:scan-stopped (connections.ts, message-buffer.ts), and              *)
(* broker-topics-panel.tsx.                                                *)
(*                                                                         *)
(* The backend's scan is what MqttTopicScan promises of it.  Its events    *)
(* keep their order; the answers arrive independently of them.             *)
(***************************************************************************)
EXTENDS Integers, Sequences, FiniteSets, SequencesExt, Functions

CONSTANTS
    BrokerNames, \* topics that the broker has
    MaxTopics,   \* maxTopics
    MaxPresses,  \* bound: presses of the button
    MaxFound,    \* bound: topics that are reported
    MaxEnds      \* bound: links of scans that are lost

ASSUME ScanPanelAssumption ==
    /\ IsFiniteSet(BrokerNames) /\ MaxTopics \in Nat \ {0}
    /\ {MaxPresses, MaxFound, MaxEnds} \subseteq Nat

VARIABLES
    \* the backend
    here,     \* the connection is there
    scan,     \* conn.scan: "none", "starting", "running"
    reported, ends,
    wire,     \* events on their way: a topic, "stopped", "closed"
    stray,    \* the stop that restore has sent is on its way
    \* the frontend
    pressed,  \* isScanning
    presses,
    presser,  \* calls of setIsScanning under way, in their order: [start, over, at, ok]
    found,    \* topicBuffer
    list,     \* brokerTopics
    known,    \* brokerTopicsSet
    \* history
    crossed   \* a scan was asked for before the end of the one before was heard

scanBackendVars == <<here, scan, reported, ends, wire, stray>>
topicVars == <<found, list, known>>
scanPanelVars == <<scanBackendVars, pressed, presses, presser, topicVars, crossed>>

Report(topic) == [kind |-> "topic", topic |-> topic]
Ending(kind) == [kind |-> kind, topic |-> CHOOSE b \in BrokerNames : TRUE]
-----------------------------------------------------------------------------
(* The button.                                                             *)

\* superseded() of all that are under way
Superseded == [i \in DOMAIN presser |-> [presser[i] EXCEPT !.over = TRUE]]
\* A start waits for what was sent before it, a stop does not.
Asked(start) == [start |-> start, over |-> FALSE, at |-> IF start THEN "waiting" ELSE "called", ok |-> TRUE]

PressStart ==
    /\ ~pressed /\ presses < MaxPresses
    /\ pressed' = TRUE /\ presses' = presses + 1
    /\ list' = <<>> /\ known' = {}
    /\ presser' = Append(Superseded, Asked(TRUE))
    /\ crossed' = (crossed \/ stray \/ \E i \in DOMAIN wire : wire[i].kind = "stopped")
    /\ UNCHANGED <<scanBackendVars, found>>
PressStop ==
    /\ pressed /\ presses < MaxPresses
    /\ pressed' = FALSE /\ presses' = presses + 1
    /\ presser' = Append(Superseded, Asked(FALSE))
    /\ UNCHANGED <<scanBackendVars, topicVars, crossed>>

PresserAt(i, start, at) == i \in DOMAIN presser /\ presser[i].start = start /\ presser[i].at = at
PresserTo(i, at) == presser' = [presser EXCEPT ![i].at = at]
PresserGone(i) == presser' = RemoveAt(presser, i)

\* what was sent before has ended
StartGoesOn(i) ==
    /\ PresserAt(i, TRUE, "waiting") /\ i = 1
    /\ IF presser[i].over THEN PresserGone(i) ELSE PresserTo(i, "called")
    /\ UNCHANGED <<scanBackendVars, pressed, presses, topicVars, crossed>>

\* A start that was superseded while it ran stops again what it has started.
GoesOnRunning(i) == PresserGone(i)
StopsAgain(i) == IF presser[i].over THEN PresserTo(i, "again") ELSE PresserGone(i)
Started(i) ==
    /\ PresserAt(i, TRUE, "answered") /\ presser[i].ok
    /\ StopsAgain(i)
    /\ UNCHANGED <<scanBackendVars, pressed, presses, topicVars, crossed>>
NotStarted(i) ==
    /\ PresserAt(i, TRUE, "answered") /\ ~presser[i].ok
    /\ pressed' = (pressed /\ presser[i].over)
    /\ PresserGone(i)
    /\ UNCHANGED <<scanBackendVars, presses, topicVars, crossed>>
StopEnds(i) ==
    /\ PresserAt(i, FALSE, "answered") \/ PresserAt(i, TRUE, "stopped")
    /\ PresserGone(i)
    /\ UNCHANGED <<scanBackendVars, pressed, presses, topicVars, crossed>>
-----------------------------------------------------------------------------
(* The backend.                                                            *)

PresserAnswered(i, ok) == presser' = [presser EXCEPT ![i].at = "answered", ![i].ok = ok]

\* reserveScan.  A scan that is starting is not there: all calls sent before
\* have ended.
StartReserves(i) ==
    /\ PresserAt(i, TRUE, "called") /\ here /\ scan = "none"
    /\ scan' = "starting" /\ PresserTo(i, "begun")
    /\ UNCHANGED <<here, reported, ends, wire, stray, pressed, presses, topicVars, crossed>>
StartRefused(i) ==
    /\ PresserAt(i, TRUE, "called") /\ ~here
    /\ PresserAnswered(i, FALSE)
    /\ UNCHANGED <<scanBackendVars, pressed, presses, topicVars, crossed>>
\* the scan that was there when the page was loaded again
StartJoins(i) ==
    /\ PresserAt(i, TRUE, "called") /\ scan = "running"
    /\ PresserAnswered(i, TRUE)
    /\ UNCHANGED <<scanBackendVars, pressed, presses, topicVars, crossed>>
StartSucceeds(i) ==
    /\ PresserAt(i, TRUE, "begun") /\ scan = "starting"
    /\ scan' = "running" /\ PresserAnswered(i, TRUE)
    /\ UNCHANGED <<here, reported, ends, wire, stray, pressed, presses, topicVars, crossed>>
\* the broker refused, or the scan was stopped meanwhile
StartFails(i) ==
    /\ PresserAt(i, TRUE, "begun")
    /\ scan' = "none" /\ PresserAnswered(i, FALSE)
    /\ UNCHANGED <<here, reported, ends, wire, stray, pressed, presses, topicVars, crossed>>
StopTopicScan(i) ==
    /\ PresserAt(i, FALSE, "called") \/ PresserAt(i, TRUE, "again")
    /\ scan' = "none"
    /\ PresserTo(i, IF presser[i].start THEN "stopped" ELSE "answered")
    /\ UNCHANGED <<here, reported, ends, wire, stray, pressed, presses, topicVars, crossed>>

\* restore stops a scan that it finds, and waits for nothing
StrayStop ==
    /\ stray
    /\ stray' = FALSE /\ scan' = "none"
    /\ UNCHANGED <<here, reported, ends, wire, pressed, presses, presser, topicVars, crossed>>

ReportTopic(b) ==
    /\ scan = "running" /\ reported < MaxFound
    /\ reported' = reported + 1 /\ wire' = Append(wire, Report(b))
    /\ UNCHANGED <<here, scan, ends, stray, pressed, presses, presser, topicVars, crossed>>
LoseScan ==
    /\ scan = "running" /\ ends < MaxEnds
    /\ scan' = "none" /\ ends' = ends + 1 /\ wire' = Append(wire, Ending("stopped"))
    /\ crossed' = (crossed \/ \E i \in DOMAIN presser : PresserAt(i, TRUE, "waiting") /\ ~presser[i].over)
    /\ UNCHANGED <<here, reported, stray, pressed, presses, presser, topicVars>>
EndConnection ==
    /\ here
    /\ here' = FALSE /\ scan' = "none" /\ wire' = Append(wire, Ending("closed"))
    /\ UNCHANGED <<reported, ends, stray, pressed, presses, presser, topicVars, crossed>>
-----------------------------------------------------------------------------
(* Events, and the frame that shows the topics.                            *)

\* pushTopic
HearTopic ==
    /\ wire # <<>> /\ wire[1].kind = "topic"
    /\ wire' = Tail(wire) /\ found' = Append(found, wire[1].topic)
    /\ UNCHANGED <<here, scan, reported, ends, stray, pressed, presses, presser, list, known, crossed>>
HearEnd ==
    /\ wire # <<>> /\ wire[1].kind # "topic"
    /\ wire' = Tail(wire) /\ pressed' = FALSE
    /\ UNCHANGED <<here, scan, reported, ends, stray, presses, presser, topicVars, crossed>>

\* flushTopics: old and then the new topics, in the order they came, that are
\* neither seen nor there already
Merged(old, seen, new) ==
    LET all[n \in 0 .. Len(new)] ==
            IF n = 0 THEN old
            ELSE IF new[n] \in seen \cup Range(all[n - 1]) THEN all[n - 1]
            ELSE Append(all[n - 1], new[n])
    IN all[Len(new)]
\* those that are pushed out may be found again
Forgotten(all, excess) == (known \cup Range(all)) \ Range(SubSeq(all, 1, excess))
FlushTopics ==
    /\ found # <<>> /\ found' = <<>>
    /\ IF pressed
       THEN LET all == Merged(list, known, found)
                excess == IF Len(all) > MaxTopics THEN Len(all) - MaxTopics ELSE 0 IN
            list' = SubSeq(all, excess + 1, Len(all)) /\ known' = Forgotten(all, excess)
       ELSE UNCHANGED <<list, known>>
    /\ UNCHANGED <<scanBackendVars, pressed, presses, presser, crossed>>
-----------------------------------------------------------------------------
\* restore: no scan is shown
ScanPanelInit ==
    /\ here = TRUE /\ scan \in {"none", "running"} /\ stray = (scan = "running")
    /\ reported = 0 /\ ends = 0 /\ wire = <<>>
    /\ pressed = FALSE /\ presses = 0 /\ presser = <<>>
    /\ found = <<>> /\ list = <<>> /\ known = {}
    /\ crossed = FALSE

ScanPanelSystem ==
    \/ StrayStop \/ LoseScan \/ EndConnection \/ HearTopic \/ HearEnd \/ FlushTopics
    \/ \E b \in BrokerNames : ReportTopic(b)
    \/ \E i \in DOMAIN presser :
          \/ StartGoesOn(i) \/ Started(i) \/ NotStarted(i) \/ StopEnds(i)
          \/ StartReserves(i) \/ StartRefused(i) \/ StartJoins(i)
          \/ StartSucceeds(i) \/ StartFails(i) \/ StopTopicScan(i)
ScanPanelNext == PressStart \/ PressStop \/ ScanPanelSystem
-----------------------------------------------------------------------------
(* Properties.                                                             *)

\* When all calls have ended and all events were heard, a scan runs exactly if
\* the button says so, however often and fast it was pressed, in whatever order
\* the calls reached the backend, and whatever failed: no client of a scan is
\* left behind (subscriptions.ts:185-189, 231-233).
ScanAgrees ==
    presser = <<>> /\ wire = <<>> /\ ~stray /\ ~crossed => (pressed <=> scan = "running")

\* The list names each topic once, and the set that tells new topics from old
\* ones is the list's: a topic that was pushed out is found again
\* (message-buffer.ts:65-83).
TopicsExact ==
    known = Range(list) /\ Len(list) = Cardinality(known) /\ Len(list) <= MaxTopics

\* What the panel shows of the scan and its topics.
ScanShown == ScanAgrees /\ TopicsExact
=============================================================================
