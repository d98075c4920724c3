---------------------------- MODULE MqttService ----------------------------
(***************************************************************************)
(* The connection life cycle of internal/application/mqtt/service.go over  *)
(* the paho client of internal/infrastructure/mqtt/paho_client.go.         *)
(*                                                                         *)
(* Lock order in the code is mu -> opMu -> stateMu.  A section under mu or *)
(* stateMu does no I/O, so it is one action here.  opMu is held across I/O *)
(* and is a variable.  The goroutines are: one runConnect per connection,  *)
(* paho's callbacks (any number), the callers of Disconnect and of a       *)
(* client operation (Publish, Subscribe, Unsubscribe), the caller of       *)
(* Shutdown and its drain goroutine.  Subscriptions and topic scans have   *)
(* modules of their own.                                                   *)
(***************************************************************************)
EXTENDS Integers, Sequences, FiniteSets

CONSTANTS
    Conns,          \* the connection IDs that may ever be handed out
    MaxLinks,       \* bound: how often the link of one connection comes up
    MaxOps          \* bound: client operations of one connection that wait at once

ASSUME ConnsFinite == IsFiniteSet(Conns)
ASSUME BoundsNat == MaxLinks \in Nat /\ MaxOps \in Nat

VARIABLES
    \* MQTTService
    closed,         \* s.closed
    conns,          \* keys of s.conns
    closing,        \* s.closing
    connWg,         \* s.connWg
    \* connection
    state,          \* conn.state; "none" before Connect
    cancelled,      \* the connection's Connect context is cancelled
    opMu,           \* who holds conn.opMu
    out,            \* the events emitted for the connection, in order
    \* pahoClient
    link,           \* the network connection to the broker
    token,          \* result of paho's Connect attempt
    stopped,        \* paho was told to disconnect (and not to reconnect)
    aborting,       \* p.aborting
    links,          \* how often the link came up (bounded by MaxLinks)
    \* goroutines
    runner,         \* runConnect
    upCalls,        \* onConnected calls that wait for opMu
    lostCalls,      \* onConnectionLost calls that have not run yet
    waitingOps,     \* client operations that looked the connection up and wait for opMu
    disc,           \* Disconnect
    drain,          \* the drain goroutine of Shutdown, per connection
    shutdown        \* the caller of Shutdown

serviceVars == <<closed, conns, closing, connWg>>
connVars == <<state, cancelled, opMu, out>>
pahoVars == <<link, token, stopped, aborting, links>>
callVars == <<runner, upCalls, lostCalls, waitingOps, disc, drain, shutdown>>
vars == <<serviceVars, connVars, pahoVars, callVars>>

EventNames == {"connected", "connection-lost", "connection-failed", "disconnected"}
Holders == {"free", "onConnected", "operation", "runConnect", "Disconnect", "Shutdown"}

TypeOK ==
    /\ closed \in BOOLEAN
    /\ conns \subseteq Conns
    /\ closing \subseteq Conns
    /\ connWg \in Int
    /\ state \in [Conns -> {"none", "connecting", "connected", "disconnecting", "closed"}]
    /\ cancelled \in [Conns -> BOOLEAN]
    /\ opMu \in [Conns -> Holders]
    /\ out \in [Conns -> Seq(EventNames)]
    /\ link \in [Conns -> {"idle", "dialing", "up", "lost", "off"}]
    /\ token \in [Conns -> {"none", "pending", "ok", "error"}]
    /\ stopped \in [Conns -> BOOLEAN]
    /\ aborting \in [Conns -> BOOLEAN]
    /\ links \in [Conns -> Nat]
    /\ runner \in [Conns -> {"none", "starting", "connecting", "aborting", "ok", "error",
                             "discarding", "failed", "done"}]
    /\ upCalls \in [Conns -> Nat]
    /\ lostCalls \in [Conns -> Nat]
    /\ waitingOps \in [Conns -> Nat]
    /\ disc \in [Conns -> {"none", "detached", "cancelled", "cut", "closed", "done"}]
    /\ drain \in [Conns -> {"none", "waiting", "cut", "done"}]
    /\ shutdown \in {"none", "marked", "draining", "drained", "timedOut"}

Init ==
    /\ closed = FALSE
    /\ conns = {}
    /\ closing = {}
    /\ connWg = 0
    /\ state = [c \in Conns |-> "none"]
    /\ cancelled = [c \in Conns |-> FALSE]
    /\ opMu = [c \in Conns |-> "free"]
    /\ out = [c \in Conns |-> <<>>]
    /\ link = [c \in Conns |-> "idle"]
    /\ token = [c \in Conns |-> "none"]
    /\ stopped = [c \in Conns |-> FALSE]
    /\ aborting = [c \in Conns |-> FALSE]
    /\ links = [c \in Conns |-> 0]
    /\ runner = [c \in Conns |-> "none"]
    /\ upCalls = [c \in Conns |-> 0]
    /\ lostCalls = [c \in Conns |-> 0]
    /\ waitingOps = [c \in Conns |-> 0]
    /\ disc = [c \in Conns |-> "none"]
    /\ drain = [c \in Conns |-> "none"]
    /\ shutdown = "none"

Terminal(c) == state[c] \in {"disconnecting", "closed"}
Emit(c, e) == out' = [out EXCEPT ![c] = Append(@, e)]
Runner(c, from, to) ==
    /\ runner[c] = from
    /\ runner' = [runner EXCEPT ![c] = to]

----------------------------------------------------------------------------
(* pahoClient.  Paho's own threads are not under src/: what they may do is  *)
(* taken from the comments and conditions of paho_client.go.                *)

\* p.client.Disconnect.  It has no effect on a client that is not connecting
\* yet, does not interrupt a dial, and ends a link or its automatic reconnect.
PahoDisconnect(c) ==
    /\ stopped' = [stopped EXCEPT ![c] = @ \/ link[c] # "idle"]
    /\ link' = [link EXCEPT ![c] = IF @ \in {"up", "lost"} THEN "off" ELSE @]

\* The link comes up: OnConnect is started unless Connect is being aborted.
LinkUp(c) ==
    /\ links[c] < MaxLinks
    /\ link' = [link EXCEPT ![c] = "up"]
    /\ links' = [links EXCEPT ![c] = @ + 1]
    /\ upCalls' = [upCalls EXCEPT ![c] = IF aborting[c] THEN @ ELSE @ + 1]

DialSucceeds(c) ==
    /\ token[c] = "pending"
    /\ token' = [token EXCEPT ![c] = "ok"]
    /\ LinkUp(c)
    /\ UNCHANGED <<serviceVars, connVars, stopped, aborting, runner, lostCalls,
                   waitingOps, disc, drain, shutdown>>

DialFails(c) ==
    /\ token[c] = "pending"
    /\ token' = [token EXCEPT ![c] = "error"]
    /\ link' = [link EXCEPT ![c] = "off"]
    /\ UNCHANGED <<serviceVars, connVars, stopped, aborting, links, callVars>>

\* A dial that succeeded after Disconnect is taken down by paho.
PahoCleanup(c) ==
    /\ link[c] = "up"
    /\ stopped[c]
    /\ link' = [link EXCEPT ![c] = "off"]
    /\ UNCHANGED <<serviceVars, connVars, token, stopped, aborting, links, callVars>>

LinkLost(c) ==
    /\ link[c] = "up"
    /\ ~stopped[c]
    /\ link' = [link EXCEPT ![c] = "lost"]
    /\ lostCalls' = [lostCalls EXCEPT ![c] = @ + 1]
    /\ UNCHANGED <<serviceVars, connVars, token, stopped, aborting, links, runner,
                   upCalls, waitingOps, disc, drain, shutdown>>

Reconnect(c) ==
    /\ link[c] = "lost"
    /\ LinkUp(c)
    /\ UNCHANGED <<serviceVars, connVars, token, stopped, aborting, runner, lostCalls,
                   waitingOps, disc, drain, shutdown>>
----------------------------------------------------------------------------
(* Connect and runConnect                                                  *)

Connect(c) ==
    /\ ~closed
    /\ state[c] = "none"
    /\ state' = [state EXCEPT ![c] = "connecting"]
    /\ conns' = conns \cup {c}
    /\ connWg' = connWg + 1
    /\ Runner(c, "none", "starting")
    /\ UNCHANGED <<closed, closing, cancelled, opMu, out, pahoVars, upCalls, lostCalls,
                   waitingOps, disc, drain, shutdown>>

\* client.Connect: the dial begins.
StartDial(c) ==
    /\ Runner(c, "starting", "connecting")
    /\ link' = [link EXCEPT ![c] = "dialing"]
    /\ token' = [token EXCEPT ![c] = "pending"]
    /\ UNCHANGED <<serviceVars, connVars, stopped, aborting, links, upCalls, lostCalls,
                   waitingOps, disc, drain, shutdown>>

\* The select of client.Connect takes the token's result ...
ConnectReturns(c) ==
    /\ token[c] \in {"ok", "error"}
    /\ Runner(c, "connecting", token[c])
    /\ UNCHANGED <<serviceVars, connVars, pahoVars, upCalls, lostCalls, waitingOps, disc,
                   drain, shutdown>>

\* ... or the cancelled context or the timer, even when the result is there.
ConnectAborts(c) ==
    /\ Runner(c, "connecting", "aborting")
    /\ aborting' = [aborting EXCEPT ![c] = TRUE]
    /\ PahoDisconnect(c)
    /\ UNCHANGED <<serviceVars, connVars, token, links, upCalls, lostCalls, waitingOps,
                   disc, drain, shutdown>>

\* An aborted attempt is waited for, and a link it made is taken down.
AbortReturns(c) ==
    /\ token[c] \in {"ok", "error"}
    /\ Runner(c, "aborting", "error")
    /\ IF token[c] = "ok" THEN PahoDisconnect(c) ELSE UNCHANGED <<link, stopped>>
    /\ UNCHANGED <<serviceVars, connVars, token, aborting, links, upCalls, lostCalls,
                   waitingOps, disc, drain, shutdown>>

\* runConnect returns: its deferred cancel and the WaitGroup's Done.
RunConnectReturns(c) ==
    /\ cancelled' = [cancelled EXCEPT ![c] = TRUE]
    /\ connWg' = connWg - 1

\* Connect returned, but Disconnect or Shutdown came first: no event.
FailedTooLate(c) ==
    /\ Terminal(c)
    /\ Runner(c, "error", "done")
    /\ RunConnectReturns(c)
    /\ UNCHANGED <<closed, conns, closing, state, opMu, out, pahoVars, upCalls, lostCalls,
                   waitingOps, disc, drain, shutdown>>

\* Mutant: a connection made too late is left to the one who disconnected.
KeepLateLink(c) ==
    /\ Terminal(c)
    /\ Runner(c, "ok", "done")
    /\ RunConnectReturns(c)
    /\ UNCHANGED <<closed, conns, closing, state, opMu, out, pahoVars, upCalls, lostCalls,
                   waitingOps, disc, drain, shutdown>>

ConnectedTooLate(c) ==
    /\ Terminal(c)
    /\ Runner(c, "ok", "discarding")
    /\ UNCHANGED <<serviceVars, connVars, pahoVars, upCalls, lostCalls, waitingOps, disc,
                   drain, shutdown>>

\* The safeguard that leaves no untracked connection behind.
DiscardLink(c) ==
    /\ Runner(c, "discarding", "done")
    /\ opMu[c] = "free"
    /\ PahoDisconnect(c)
    /\ RunConnectReturns(c)
    /\ UNCHANGED <<closed, conns, closing, state, opMu, out, token, aborting, links,
                   upCalls, lostCalls, waitingOps, disc, drain, shutdown>>

ConnectFailed(c) ==
    /\ ~Terminal(c)
    /\ Runner(c, "error", "failed")
    /\ state' = [state EXCEPT ![c] = "closed"]
    /\ Emit(c, "connection-failed")
    /\ UNCHANGED <<serviceVars, cancelled, opMu, pahoVars, upCalls, lostCalls, waitingOps,
                   disc, drain, shutdown>>

ForgetFailed(c) ==
    /\ Runner(c, "failed", "done")
    /\ conns' = conns \ {c}
    /\ RunConnectReturns(c)
    /\ UNCHANGED <<closed, closing, state, opMu, out, pahoVars, upCalls, lostCalls,
                   waitingOps, disc, drain, shutdown>>

ConnectSucceeded(c) ==
    /\ ~Terminal(c)
    /\ Runner(c, "ok", "done")
    /\ state' = [state EXCEPT ![c] = "connected"]
    /\ RunConnectReturns(c)
    /\ UNCHANGED <<closed, conns, closing, opMu, out, pahoVars, upCalls, lostCalls,
                   waitingOps, disc, drain, shutdown>>
----------------------------------------------------------------------------
(* Paho's callbacks and the client operations                              *)

\* onConnected, up to the release of stateMu.  opMu stays held for the
\* subscriptions that are made again.
OnConnected(c) ==
    /\ upCalls[c] > 0
    /\ opMu[c] = "free"
    /\ ~Terminal(c)
    /\ upCalls' = [upCalls EXCEPT ![c] = @ - 1]
    /\ state' = [state EXCEPT ![c] = "connected"]
    /\ Emit(c, "connected")
    /\ opMu' = [opMu EXCEPT ![c] = "onConnected"]
    /\ UNCHANGED <<serviceVars, cancelled, pahoVars, runner, lostCalls, waitingOps, disc,
                   drain, shutdown>>

\* onConnected of a connection that is ending returns at once.
IgnoreConnected(c) ==
    /\ upCalls[c] > 0
    /\ opMu[c] = "free"
    /\ Terminal(c)
    /\ upCalls' = [upCalls EXCEPT ![c] = @ - 1]
    /\ UNCHANGED <<serviceVars, connVars, pahoVars, runner, lostCalls, waitingOps, disc,
                   drain, shutdown>>

OnConnectionLost(c) ==
    /\ lostCalls[c] > 0
    /\ ~Terminal(c)
    /\ lostCalls' = [lostCalls EXCEPT ![c] = @ - 1]
    /\ Emit(c, "connection-lost")
    /\ UNCHANGED <<serviceVars, state, cancelled, opMu, pahoVars, runner, upCalls,
                   waitingOps, disc, drain, shutdown>>

IgnoreConnectionLost(c) ==
    /\ lostCalls[c] > 0
    /\ Terminal(c)
    /\ lostCalls' = [lostCalls EXCEPT ![c] = @ - 1]
    /\ UNCHANGED <<serviceVars, connVars, pahoVars, runner, upCalls, waitingOps, disc,
                   drain, shutdown>>

\* withConn: lookup, then opMu, then a second look at the state.
LookupForOperation(c) ==
    /\ c \in conns
    /\ waitingOps[c] < MaxOps
    /\ waitingOps' = [waitingOps EXCEPT ![c] = @ + 1]
    /\ UNCHANGED <<serviceVars, connVars, pahoVars, runner, upCalls, lostCalls, disc,
                   drain, shutdown>>

BeginOperation(c) ==
    /\ waitingOps[c] > 0
    /\ opMu[c] = "free"
    /\ waitingOps' = [waitingOps EXCEPT ![c] = @ - 1]
    /\ opMu' = IF Terminal(c) THEN opMu ELSE [opMu EXCEPT ![c] = "operation"]
    /\ UNCHANGED <<serviceVars, state, cancelled, out, pahoVars, runner, upCalls,
                   lostCalls, disc, drain, shutdown>>

\* Mutant: onConnected returns without unlocking opMu.
ReleaseAfterOperation(c) ==
    /\ opMu[c] = "operation"
    /\ opMu' = [opMu EXCEPT ![c] = "free"]
    /\ UNCHANGED <<serviceVars, state, cancelled, out, pahoVars, callVars>>

\* The resubscription or the operation ends (every wait in it is limited).
ReleaseOpMu(c) ==
    /\ opMu[c] \in {"onConnected", "operation"}
    /\ opMu' = [opMu EXCEPT ![c] = "free"]
    /\ UNCHANGED <<serviceVars, state, cancelled, out, pahoVars, callVars>>
----------------------------------------------------------------------------
(* Disconnect                                                              *)

Detach(c) ==
    /\ c \in conns
    /\ ~Terminal(c)
    /\ disc' = [disc EXCEPT ![c] = "detached"]
    /\ state' = [state EXCEPT ![c] = "disconnecting"]
    /\ conns' = conns \ {c}
    /\ closing' = closing \cup {c}
    /\ connWg' = connWg + 1
    /\ UNCHANGED <<closed, cancelled, opMu, out, pahoVars, runner, upCalls, lostCalls,
                   waitingOps, drain, shutdown>>

CancelDetached(c) ==
    /\ disc[c] = "detached"
    /\ disc' = [disc EXCEPT ![c] = "cancelled"]
    /\ cancelled' = [cancelled EXCEPT ![c] = TRUE]
    /\ UNCHANGED <<serviceVars, state, opMu, out, pahoVars, runner, upCalls, lostCalls,
                   waitingOps, drain, shutdown>>

\* closeDetached, up to client.Disconnect.
CutDetached(c) ==
    /\ disc[c] = "cancelled"
    /\ opMu[c] = "free"
    /\ disc' = [disc EXCEPT ![c] = "cut"]
    /\ opMu' = [opMu EXCEPT ![c] = "Disconnect"]
    /\ PahoDisconnect(c)
    /\ UNCHANGED <<serviceVars, state, cancelled, out, token, aborting, links, runner,
                   upCalls, lostCalls, waitingOps, drain, shutdown>>

\* closeDetached, from client.Disconnect on.
CloseDetached(c) ==
    /\ disc[c] = "cut"
    /\ state[c] # "closed"
    /\ disc' = [disc EXCEPT ![c] = "closed"]
    /\ opMu' = [opMu EXCEPT ![c] = "free"]
    /\ state' = [state EXCEPT ![c] = "closed"]
    /\ Emit(c, "disconnected")
    /\ UNCHANGED <<serviceVars, cancelled, pahoVars, runner, upCalls, lostCalls, waitingOps,
                   drain, shutdown>>

\* Mutant: a Disconnect that Shutdown overtook emits its event all the same.
CloseOvertakenLoudly(c) ==
    /\ disc[c] = "cut"
    /\ state[c] = "closed"
    /\ disc' = [disc EXCEPT ![c] = "closed"]
    /\ opMu' = [opMu EXCEPT ![c] = "free"]
    /\ Emit(c, "disconnected")
    /\ UNCHANGED <<serviceVars, state, cancelled, pahoVars, runner, upCalls, lostCalls,
                   waitingOps, drain, shutdown>>

\* closeDetached of a connection that Shutdown has closed first: no event.
CloseOvertaken(c) ==
    /\ disc[c] = "cut"
    /\ state[c] = "closed"
    /\ disc' = [disc EXCEPT ![c] = "closed"]
    /\ opMu' = [opMu EXCEPT ![c] = "free"]
    /\ UNCHANGED <<serviceVars, state, cancelled, out, pahoVars, runner, upCalls, lostCalls,
                   waitingOps, drain, shutdown>>

\* Mutant: Disconnect returns without connWg.Done.
FinishWithoutDone(c) ==
    /\ disc[c] = "closed"
    /\ disc' = [disc EXCEPT ![c] = "done"]
    /\ closing' = closing \ {c}
    /\ UNCHANGED <<closed, conns, connWg, connVars, pahoVars, runner, upCalls, lostCalls,
                   waitingOps, drain, shutdown>>

FinishClosing(c) ==
    /\ disc[c] = "closed"
    /\ disc' = [disc EXCEPT ![c] = "done"]
    /\ closing' = closing \ {c}
    /\ connWg' = connWg - 1
    /\ UNCHANGED <<closed, conns, connVars, pahoVars, runner, upCalls, lostCalls, waitingOps,
                   drain, shutdown>>
----------------------------------------------------------------------------
(* Shutdown                                                                *)

\* The section under mu: every connection becomes terminal.
Shutdown ==
    /\ ~closed
    /\ closed' = TRUE
    /\ shutdown' = "marked"
    /\ LET open == {c \in conns : ~Terminal(c)}
       IN /\ state' = [c \in Conns |-> CASE c \in closing -> "closed"
                                         [] c \in open -> "disconnecting"
                                         [] OTHER -> state[c]]
          /\ drain' = [c \in Conns |-> IF c \in open THEN "waiting" ELSE "none"]
    /\ conns' = {}
    /\ UNCHANGED <<closing, connWg, cancelled, opMu, out, pahoVars, runner, upCalls,
                   lostCalls, waitingOps, disc>>

\* s.stop(): the parent of every connection's context is cancelled.
StopRoot ==
    /\ shutdown = "marked"
    /\ shutdown' = "draining"
    /\ cancelled' = [c \in Conns |-> TRUE]
    /\ UNCHANGED <<serviceVars, state, opMu, out, pahoVars, runner, upCalls, lostCalls,
                   waitingOps, disc, drain>>

DrainCut(c) ==
    /\ shutdown \notin {"none", "marked"}
    /\ drain[c] = "waiting"
    /\ opMu[c] = "free"
    /\ drain' = [drain EXCEPT ![c] = "cut"]
    /\ opMu' = [opMu EXCEPT ![c] = "Shutdown"]
    /\ PahoDisconnect(c)
    /\ UNCHANGED <<serviceVars, state, cancelled, out, token, aborting, links, runner,
                   upCalls, lostCalls, waitingOps, disc, shutdown>>

DrainClose(c) ==
    /\ drain[c] = "cut"
    /\ drain' = [drain EXCEPT ![c] = "done"]
    /\ opMu' = [opMu EXCEPT ![c] = "free"]
    /\ state' = [state EXCEPT ![c] = "closed"]
    /\ UNCHANGED <<serviceVars, cancelled, out, pahoVars, runner, upCalls, lostCalls,
                   waitingOps, disc, shutdown>>

\* Mutant: the drain goroutine waits only for its own disconnects.
DrainedOwn == \A c \in Conns : drain[c] \in {"none", "done"}

\* What the drain goroutine waits for before it closes done.
Drained ==
    /\ \A c \in Conns : drain[c] \in {"none", "done"}
    /\ connWg = 0

ShutdownReturns ==
    /\ shutdown = "draining"
    /\ \/ Drained /\ shutdown' = "drained"
       \/ shutdown' = "timedOut"
    /\ UNCHANGED <<serviceVars, connVars, pahoVars, runner, upCalls, lostCalls, waitingOps,
                   disc, drain>>
----------------------------------------------------------------------------
RunConnect(c) ==
    \/ StartDial(c) \/ ConnectReturns(c) \/ AbortReturns(c)
    \/ FailedTooLate(c) \/ ConnectedTooLate(c) \/ DiscardLink(c)
    \/ ConnectFailed(c) \/ ForgetFailed(c) \/ ConnectSucceeded(c)

Disconnecting(c) ==
    \/ CancelDetached(c) \/ CutDetached(c) \/ CloseDetached(c)
    \/ CloseOvertaken(c) \/ FinishClosing(c)

\* Nothing is left to do once the service is shut down and every goroutine ended.
Stopped ==
    /\ shutdown \in {"drained", "timedOut"}
    /\ Drained
    /\ \A c \in Conns :
          /\ upCalls[c] = 0 /\ lostCalls[c] = 0 /\ waitingOps[c] = 0
          /\ opMu[c] = "free"
    /\ UNCHANGED vars

Next ==
    \/ \E c \in Conns :
          \/ DialSucceeds(c) \/ DialFails(c) \/ PahoCleanup(c) \/ LinkLost(c) \/ Reconnect(c)
          \/ Connect(c) \/ ConnectAborts(c) \/ RunConnect(c)
          \/ OnConnected(c) \/ IgnoreConnected(c)
          \/ OnConnectionLost(c) \/ IgnoreConnectionLost(c)
          \/ LookupForOperation(c) \/ BeginOperation(c) \/ ReleaseOpMu(c)
          \/ Detach(c) \/ Disconnecting(c)
          \/ DrainCut(c) \/ DrainClose(c)
    \/ Shutdown \/ StopRoot \/ ShutdownReturns
    \/ Stopped

\* A Go mutex admits every waiter in the end (starvation mode), every wait of a
\* client operation and of a dial has a time limit, and goroutines run.  Users,
\* the broker and the reconnect loop owe nothing.
Fairness ==
    /\ \A c \in Conns :
          /\ WF_vars(DialSucceeds(c) \/ DialFails(c))
          /\ WF_vars(PahoCleanup(c))
          /\ WF_vars(ReleaseOpMu(c))
          /\ WF_vars(OnConnectionLost(c) \/ IgnoreConnectionLost(c))
          /\ SF_vars(OnConnected(c) \/ IgnoreConnected(c))
          /\ SF_vars(BeginOperation(c))
          /\ SF_vars(RunConnect(c))
          /\ SF_vars(Disconnecting(c))
          /\ SF_vars(DrainCut(c))
          /\ WF_vars(DrainClose(c))
    /\ WF_vars(StopRoot)
    /\ WF_vars(ShutdownReturns)

Spec == Init /\ [][Next]_vars
FairSpec == Spec /\ Fairness
----------------------------------------------------------------------------
(* Properties                                                              *)

RunnerLive(c) == runner[c] \notin {"none", "done"}
DiscLive(c) == disc[c] \notin {"none", "done"}

\* The WaitGroup counts exactly the running connection goroutines and the
\* Disconnect calls in progress (service.go:81): one missing and Shutdown
\* returns too early, one too many and it never returns.
CountExact ==
    connWg = Cardinality({c \in Conns : RunnerLive(c)})
               + Cardinality({c \in Conns : DiscLive(c)})

\* No connection to a broker outlives its bookkeeping: once nobody is
\* responsible for it any more (not listed, no goroutine, no Disconnect, no
\* drain under way), its link is down for good, whichever of Connect,
\* Disconnect and Shutdown overtook the other.
NoOrphanLink ==
    \A c \in Conns :
        (/\ c \notin conns
         /\ ~RunnerLive(c)
         /\ ~DiscLive(c)
         /\ drain[c] \in {"none", "done"})
            => link[c] \in {"idle", "off"}

\* Shutdown's true means that every connection is cut and every goroutine has
\* returned (service.go:375), and it stays that way.
DrainedMeansQuiet ==
    shutdown = "drained" =>
        /\ conns = {} /\ closing = {}
        /\ \A c \in Conns :
              /\ ~RunnerLive(c) /\ ~DiscLive(c)
              /\ link[c] \in {"idle", "off"}

\* After Shutdown has begun nothing is added to the WaitGroup it waits on
\* (service.go:137): Wait can not return while a goroutine is about to start.
WaitNeverReused == [][closed => connWg' <= connWg]_vars

\* The events of every connection follow the promise of MqttEventStream.
LifeOf(c) ==
    CASE state[c] = "none" -> "new"
      [] state[c] \in {"connecting", "connected"} -> "open"
      [] state[c] = "disconnecting" -> "ending"
      [] OTHER -> "over"
Promise == INSTANCE MqttEventStream
               WITH life <- [c \in Conns |-> LifeOf(c)], silent <- closed
KeepsPromise == Promise!StreamSpec

\* Every Disconnect completes, and every Shutdown drains even after it gave up
\* waiting: no goroutine waits for another one forever.
DisconnectCompletes == \A c \in Conns : c \in closing ~> c \notin closing
ShutdownDrains == closed ~> (shutdown # "draining" /\ Drained)
=============================================================================
