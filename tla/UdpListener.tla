----------------------------- MODULE UdpListener -----------------------------
(***************************************************************************)
(* Listening for UDP packets: the sessions and receive loops of the        *)
(* backend (listener_service.go), the rows and the log of the frontend     *)
(* (receive.ts, listen-form.tsx), and the calls between them.              *)
(*                                                                         *)
(* A call is made, carried out by the backend, and answered: three steps.  *)
(* When the page is loaded again the calls it made go on, unheard.         *)
(***************************************************************************)
EXTENDS Integers, Sequences, FiniteSets, SequencesExt, Arrays

CONSTANTS
    Ports,       \* ports that are tried
    MaxSessions, \* bound: sessions that are ever created
    MaxCalls,    \* bound: calls under way
    MaxPackets,  \* bound: packets that arrive
    MaxLog       \* UDP_MAX_MESSAGES

Sessions == 1 .. MaxSessions

ASSUME ListenerAssumption ==
    /\ Ports # {} /\ MaxSessions \in Nat \ {0} /\ MaxCalls \in Nat
    /\ MaxPackets \in Nat /\ MaxLog \in Nat \ {0}

VARIABLES
    \* the backend
    next,      \* the next session
    port,      \* port[s]
    sessions,  \* UDPListenerService.sessions
    open,      \* sessions whose socket is open
    loop,      \* loop[s]: "none", "read" (in ReadFrom), "emit", "ended"
    packets,   \* packets that have arrived
    \* the frontend
    rows,      \* sessions
    log,       \* the sessions of the messages, the latest first
    loading,
    calls,     \* [op, arg, at, ok, ans, heard]; ans is a list of sessions
    \* history
    late,      \* late[s]: packets emitted after StopListen returned
    awry       \* a start or stop crossed a read of the list, closing failed, or
               \* the program is ending

listenBackendVars == <<next, port, sessions, open, loop, packets>>
listenVars == <<listenBackendVars, rows, log, loading, calls, late, awry>>

Call(op, arg) == [op |-> op, arg |-> arg, at |-> "called", ok |-> TRUE, ans |-> <<>>, heard |-> TRUE]
Refresh == Call("list", 0)   \* it has no argument
Listing == {i \in DOMAIN calls : calls[i].op = "list" /\ calls[i].heard}
ListenInit ==
    /\ next = 1 /\ port = [s \in Sessions |-> CHOOSE p \in Ports : TRUE]
    /\ sessions = {} /\ open = {} /\ loop = [s \in Sessions |-> "none"] /\ packets = 0
    /\ rows = <<>> /\ log = <<>> /\ loading = FALSE
    /\ calls = <<Refresh>>
    /\ late = [s \in Sessions |-> 0] /\ awry = FALSE
-----------------------------------------------------------------------------
(* The user.                                                               *)

MayCall == Len(calls) < MaxCalls

\* the button is off while there is a row
StartListen(p) ==
    /\ MayCall /\ ~loading /\ rows = <<>>
    /\ loading' = TRUE
    /\ calls' = Append(calls, Call("start", p))
    /\ awry' = (awry \/ Listing # {})
    /\ UNCHANGED <<listenBackendVars, rows, log, late>>

StopListen(s) ==
    /\ MayCall /\ s \in Range(rows)
    /\ calls' = Append(calls, Call("stop", s))
    /\ awry' = (awry \/ Listing # {})
    /\ UNCHANGED <<listenBackendVars, rows, log, loading, late>>

ClearMessages ==
    /\ log # <<>> /\ log' = <<>>
    /\ UNCHANGED <<listenBackendVars, rows, loading, calls, late, awry>>

\* the page is loaded again: refreshListeners
ListenReload ==
    /\ rows' = <<>> /\ log' = <<>> /\ loading' = FALSE
    /\ calls' = Append([i \in DOMAIN calls |-> [calls[i] EXCEPT !.heard = FALSE]], Refresh)
    /\ UNCHANGED <<listenBackendVars, late, awry>>
-----------------------------------------------------------------------------
(* The backend.                                                            *)

Done(i, ans) == calls' = [calls EXCEPT ![i].at = "answered", ![i].ans = ans]
Fails(i) == calls' = [calls EXCEPT ![i].at = "answered", ![i].ok = FALSE]
Serves(i, op) == calls[i].at = "called" /\ calls[i].op = op

\* a session starts or ends for a page that is gone, when the page that
\* replaced it has read the list
Unseen(i) == ~calls[i].heard /\ \A k \in Listing : calls[k].at # "called"

\* StartListen: the check and the registration are under one lock
DoStart(i) ==
    LET p == calls[i].arg IN
    /\ Serves(i, "start")
    /\ \A s \in sessions \cup open : port[s] # p
    /\ next \in Sessions
    /\ next' = next + 1
    /\ port' = [port EXCEPT ![next] = p]
    /\ sessions' = sessions \cup {next} /\ open' = open \cup {next}
    /\ loop' = [loop EXCEPT ![next] = "read"]
    /\ Done(i, <<next>>)
    /\ awry' = (awry \/ Unseen(i))
    /\ UNCHANGED <<packets, rows, log, loading, late>>
\* the port is in use, by this program or another
RefuseStart(i) ==
    /\ Serves(i, "start")
    /\ Fails(i)
    /\ UNCHANGED <<listenBackendVars, rows, log, loading, late, awry>>

\* StopListen removes the session under the lock, and closes the socket after it
DoStop(i) ==
    LET s == calls[i].arg IN
    /\ Serves(i, "stop") /\ s \in sessions
    /\ sessions' = sessions \ {s}
    /\ calls' = [calls EXCEPT ![i].at = "closing"]
    /\ awry' = (awry \/ Unseen(i))
    /\ UNCHANGED <<next, port, open, loop, packets, rows, log, loading, late>>
NoSuchSession(i) ==
    /\ Serves(i, "stop") /\ calls[i].arg \notin sessions
    /\ Fails(i)
    /\ UNCHANGED <<listenBackendVars, rows, log, loading, late, awry>>
LeaveOpen(s) == UNCHANGED open
Close(s) == open' = open \ {s}
CloseSocket(i) ==
    /\ calls[i].at = "closing"
    /\ Close(calls[i].arg)
    /\ \/ Done(i, <<>>) /\ UNCHANGED awry
       \/ Fails(i) /\ awry' = TRUE   \* the socket is gone all the same
    /\ UNCHANGED <<next, port, sessions, loop, packets, rows, log, loading, late>>

\* GetListeners, in any order: that of a map
GetListeners(i) ==
    /\ Serves(i, "list")
    /\ \E list \in SetToSeqs(sessions) : Done(i, list)
    /\ UNCHANGED <<listenBackendVars, rows, log, loading, late, awry>>

\* receiveLoop
Receive(s) ==
    /\ loop[s] = "read" /\ s \in open /\ packets < MaxPackets
    /\ packets' = packets + 1
    /\ loop' = [loop EXCEPT ![s] = "emit"]
    /\ UNCHANGED <<next, port, sessions, open, rows, log, loading, calls, late, awry>>
Kept(msgs) == SubSeq(msgs, 1, IF Len(msgs) < MaxLog THEN Len(msgs) ELSE MaxLog)
Stopping(s) == \E i \in DOMAIN calls : calls[i].at = "closing" /\ calls[i].arg = s
Emit(s) ==
    /\ loop[s] = "emit"
    /\ loop' = [loop EXCEPT ![s] = "read"]
    /\ log' = Kept(<<s>> \o log)
    /\ late' = IF s \in sessions \/ Stopping(s) THEN late ELSE [late EXCEPT ![s] = @ + 1]
    /\ UNCHANGED <<next, port, sessions, open, packets, rows, loading, calls, awry>>
EndLoop(s) ==
    /\ loop[s] = "read" /\ s \notin open
    /\ loop' = [loop EXCEPT ![s] = "ended"]
    /\ UNCHANGED <<next, port, sessions, open, packets, rows, log, loading, calls, late, awry>>

\* StopAll, when the program ends: the sockets are closed after the lock
StopAll ==
    /\ sessions # {}
    /\ sessions' = {}
    /\ \E list \in SetToSeqs(sessions) :
          calls' = calls \o [k \in DOMAIN list |->
                                [Call("stop", list[k]) EXCEPT !.at = "closing", !.heard = FALSE]]
    /\ awry' = TRUE
    /\ UNCHANGED <<next, port, open, loop, packets, rows, log, loading, late>>
-----------------------------------------------------------------------------
(* The answers.                                                            *)

Started(i) == Append(rows, calls[i].ans[1])
Listed(i) == calls[i].ans
KeepRow(i) == rows
Stopped(i) == Only(rows, Sessions \ {calls[i].arg})

Return(i) ==
    LET c == calls[i] IN
    /\ c.at = "answered"
    /\ rows' = CASE ~c.heard \/ ~c.ok -> rows
                 [] c.heard /\ c.ok /\ c.op = "start" -> Started(i)
                 [] c.heard /\ c.ok /\ c.op = "stop" -> Stopped(i)
                 [] c.heard /\ c.ok /\ c.op = "list" -> Listed(i)
    /\ loading' = (loading /\ ~(c.op = "start" /\ c.heard))
    /\ calls' = RemoveAt(calls, i)
    /\ UNCHANGED <<listenBackendVars, log, late, awry>>

ListenUser == ClearMessages \/ (\E p \in Ports : StartListen(p)) \/ (\E s \in Sessions : StopListen(s))
ListenSystem ==
    \/ \E i \in DOMAIN calls : \/ DoStart(i) \/ RefuseStart(i) \/ DoStop(i) \/ NoSuchSession(i)
                               \/ CloseSocket(i) \/ GetListeners(i) \/ Return(i)
    \/ \E s \in Sessions : Receive(s) \/ Emit(s) \/ EndLoop(s)
-----------------------------------------------------------------------------
(* Properties.                                                             *)

\* When nothing is under way every session has one row, and every row a
\* session, also after the page was loaded again: each can be stopped
\* (receive.ts:34-41).  Excepted are a start or stop that crosses a read of
\* the list, and a socket that could not be closed.
RowsTrue ==
    calls = <<>> /\ ~awry => Range(rows) = sessions /\ Len(rows) = Cardinality(sessions)

\* After StopListen returned at most the packet that had been read before
\* is shown; the log never holds more than its maximum (listener_service.go:142).
QuietAfterStop == Len(log) <= MaxLog /\ \A s \in Sessions : late[s] <= 1
=============================================================================
