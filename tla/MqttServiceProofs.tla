------------------------- MODULE MqttServiceProofs -------------------------
(***************************************************************************)
(* Proofs about MqttService, for any finite set of connections and any     *)
(* bounds: the WaitGroup's count is exact, no link is orphaned, a drained  *)
(* Shutdown is quiet, and the service implements MqttEventStream.          *)
(***************************************************************************)
EXTENDS MqttService, FiniteSetTheorems, TLAPS

\* Where a connection may be listed, by its state: the service's own books.
Books(c) ==
    /\ state[c] = "none" => runner[c] = "none" /\ upCalls[c] = 0 /\ lostCalls[c] = 0
    /\ runner[c] = "none" => state[c] = "none"
    /\ runner[c] = "failed" => state[c] = "closed"
    /\ state[c] \in {"connecting", "connected"} => c \in conns
    /\ c \in conns => state[c] # "none"
    /\ c \in closing <=> DiscLive(c)
    /\ disc[c] # "none" => Terminal(c)
    /\ disc[c] \in {"closed", "done"} => state[c] = "closed"
    /\ state[c] = "disconnecting" => closed \/ c \in closing

\* What a closed service looks like.
Marked(c) ==
    /\ disc[c] # "none" /\ closed => state[c] = "closed"
    /\ drain[c] # "none" => closed /\ Terminal(c)

\* How the paho client and the goroutine that dials agree.
Dialer(c) ==
    /\ runner[c] \in {"none", "starting"} <=> link[c] = "idle"
    /\ token[c] = "pending" <=> link[c] = "dialing"
    /\ token[c] = "pending" => runner[c] \in {"connecting", "aborting"}
    /\ token[c] = "none" => link[c] = "idle"
    /\ token[c] = "error" => link[c] = "off"
    /\ stopped[c] => link[c] # "lost"
    /\ runner[c] \in {"error", "failed"} => link[c] = "off"

\* A finished dialer leaves a live link only to somebody who will cut it.
Owned(c) ==
    runner[c] = "done" =>
        \/ link[c] = "off"
        \/ ~Terminal(c)
        \/ disc[c] \in {"detached", "cancelled"}
        \/ drain[c] = "waiting"

Latch ==
    /\ closed <=> shutdown # "none"
    /\ closed => conns = {}
    /\ shutdown = "drained" => Drained

IInv ==
    /\ TypeOK
    /\ CountExact
    /\ Latch
    /\ \A c \in Conns : Books(c) /\ Marked(c) /\ Dialer(c) /\ Owned(c)

----------------------------------------------------------------------------
\* Emitting an event extends one stream by one event.
LEMMA EmitType ==
  ASSUME TypeOK, NEW c \in Conns, NEW e \in EventNames, Emit(c, e)
  PROVE  out' \in [Conns -> Seq(EventNames)]
<1>1. out \in [Conns -> Seq(EventNames)] /\ out[c] \in Seq(EventNames)
  BY DEF TypeOK
<1>2. Append(out[c], e) \in Seq(EventNames)
  BY <1>1
<1>3. QED
  BY <1>1, <1>2 DEF Emit

\* Every step keeps the variables in their types.
LEMMA TypeStep == TypeOK /\ [Next]_vars => TypeOK'
<1> SUFFICES ASSUME TypeOK, [Next]_vars PROVE TypeOK'
  OBVIOUS
<1> USE DEF TypeOK, Holders, serviceVars, connVars, pahoVars, callVars
<1>1. ASSUME NEW c \in Conns, DialSucceeds(c) PROVE TypeOK'
  BY <1>1 DEF DialSucceeds, LinkUp
<1>2. ASSUME NEW c \in Conns, DialFails(c) PROVE TypeOK'
  BY <1>2 DEF DialFails
<1>3. ASSUME NEW c \in Conns, PahoCleanup(c) PROVE TypeOK'
  BY <1>3 DEF PahoCleanup
<1>4. ASSUME NEW c \in Conns, LinkLost(c) PROVE TypeOK'
  BY <1>4 DEF LinkLost
<1>5. ASSUME NEW c \in Conns, Reconnect(c) PROVE TypeOK'
  BY <1>5 DEF Reconnect, LinkUp
<1>6. ASSUME NEW c \in Conns, Connect(c) PROVE TypeOK'
  BY <1>6 DEF Connect, Runner
<1>7. ASSUME NEW c \in Conns, StartDial(c) PROVE TypeOK'
  BY <1>7 DEF StartDial, Runner
<1>8. ASSUME NEW c \in Conns, ConnectReturns(c) PROVE TypeOK'
  BY <1>8 DEF ConnectReturns, Runner
<1>9. ASSUME NEW c \in Conns, ConnectAborts(c) PROVE TypeOK'
  BY <1>9 DEF ConnectAborts, Runner, PahoDisconnect
<1>10. ASSUME NEW c \in Conns, AbortReturns(c) PROVE TypeOK'
  BY <1>10, ZenonT(30) DEF AbortReturns, Runner, PahoDisconnect
<1>11. ASSUME NEW c \in Conns, FailedTooLate(c) PROVE TypeOK'
  BY <1>11 DEF FailedTooLate, Runner, RunConnectReturns
<1>12. ASSUME NEW c \in Conns, ConnectedTooLate(c) PROVE TypeOK'
  BY <1>12 DEF ConnectedTooLate, Runner
<1>13. ASSUME NEW c \in Conns, DiscardLink(c) PROVE TypeOK'
  BY <1>13 DEF DiscardLink, Runner, RunConnectReturns, PahoDisconnect
<1>14. ASSUME NEW c \in Conns, ConnectFailed(c) PROVE TypeOK'
  <2>1. Emit(c, "connection-failed")
    BY <1>14 DEF ConnectFailed
  <2>2. out' \in [Conns -> Seq(EventNames)]
    BY <2>1, EmitType DEF EventNames
  <2>3. QED
    BY <1>14, <2>2 DEF ConnectFailed, Runner
<1>15. ASSUME NEW c \in Conns, ForgetFailed(c) PROVE TypeOK'
  BY <1>15 DEF ForgetFailed, Runner, RunConnectReturns
<1>16. ASSUME NEW c \in Conns, ConnectSucceeded(c) PROVE TypeOK'
  BY <1>16 DEF ConnectSucceeded, Runner, RunConnectReturns
<1>17. ASSUME NEW c \in Conns, OnConnected(c) PROVE TypeOK'
  <2>1. Emit(c, "connected")
    BY <1>17 DEF OnConnected
  <2>2. out' \in [Conns -> Seq(EventNames)]
    BY <2>1, EmitType DEF EventNames
  <2>3. upCalls' \in [Conns -> Nat]
    BY <1>17 DEF OnConnected
  <2>4. QED
    BY <1>17, <2>2, <2>3 DEF OnConnected
<1>18. ASSUME NEW c \in Conns, IgnoreConnected(c) PROVE TypeOK'
  BY <1>18 DEF IgnoreConnected
<1>19. ASSUME NEW c \in Conns, OnConnectionLost(c) PROVE TypeOK'
  <2>1. Emit(c, "connection-lost")
    BY <1>19 DEF OnConnectionLost
  <2>2. out' \in [Conns -> Seq(EventNames)]
    BY <2>1, EmitType DEF EventNames
  <2>3. lostCalls' \in [Conns -> Nat]
    BY <1>19 DEF OnConnectionLost
  <2>4. QED
    BY <1>19, <2>2, <2>3 DEF OnConnectionLost
<1>20. ASSUME NEW c \in Conns, IgnoreConnectionLost(c) PROVE TypeOK'
  BY <1>20 DEF IgnoreConnectionLost
<1>21. ASSUME NEW c \in Conns, LookupForOperation(c) PROVE TypeOK'
  BY <1>21 DEF LookupForOperation
<1>22. ASSUME NEW c \in Conns, BeginOperation(c) PROVE TypeOK'
  BY <1>22 DEF BeginOperation
<1>23. ASSUME NEW c \in Conns, ReleaseOpMu(c) PROVE TypeOK'
  BY <1>23 DEF ReleaseOpMu
<1>24. ASSUME NEW c \in Conns, Detach(c) PROVE TypeOK'
  BY <1>24 DEF Detach
<1>25. ASSUME NEW c \in Conns, CancelDetached(c) PROVE TypeOK'
  BY <1>25 DEF CancelDetached
<1>26. ASSUME NEW c \in Conns, CutDetached(c) PROVE TypeOK'
  BY <1>26 DEF CutDetached, PahoDisconnect
<1>27. ASSUME NEW c \in Conns, CloseDetached(c) PROVE TypeOK'
  <2>1. Emit(c, "disconnected")
    BY <1>27 DEF CloseDetached
  <2>2. out' \in [Conns -> Seq(EventNames)]
    BY <2>1, EmitType DEF EventNames
  <2>3. QED
    BY <1>27, <2>2 DEF CloseDetached
<1>28. ASSUME NEW c \in Conns, CloseOvertaken(c) PROVE TypeOK'
  BY <1>28 DEF CloseOvertaken
<1>29. ASSUME NEW c \in Conns, FinishClosing(c) PROVE TypeOK'
  BY <1>29 DEF FinishClosing
<1>30. ASSUME NEW c \in Conns, DrainCut(c) PROVE TypeOK'
  BY <1>30 DEF DrainCut, PahoDisconnect
<1>31. ASSUME NEW c \in Conns, DrainClose(c) PROVE TypeOK'
  BY <1>31 DEF DrainClose
<1>32. CASE Shutdown
  BY <1>32 DEF Shutdown, Terminal
<1>33. CASE StopRoot
  BY <1>33 DEF StopRoot
<1>34. CASE ShutdownReturns
  BY <1>34 DEF ShutdownReturns
<1>35. CASE UNCHANGED vars
  BY <1>35 DEF vars
<1>36. QED
  BY <1>1, <1>2, <1>3, <1>4, <1>5, <1>6, <1>7, <1>8, <1>9, <1>10, <1>11, <1>12,
     <1>13, <1>14, <1>15, <1>16, <1>17, <1>18, <1>19, <1>20, <1>21, <1>22, <1>23,
     <1>24, <1>25, <1>26, <1>27, <1>28, <1>29, <1>30, <1>31, <1>32, <1>33, <1>34,
     <1>35
  DEF Next, RunConnect, Disconnecting, Stopped

\* Every step keeps dialer and paho client in agreement.
LEMMA DialerStep ==
  ASSUME IInv, [Next]_vars, NEW d \in Conns
  PROVE  Dialer(d)'
<1> USE DEF IInv, Dialer, TypeOK, Terminal, serviceVars, connVars, pahoVars, callVars
<1>1. ASSUME NEW c \in Conns, DialSucceeds(c) PROVE Dialer(d)'
  BY <1>1 DEF DialSucceeds, LinkUp
<1>2. ASSUME NEW c \in Conns, DialFails(c) PROVE Dialer(d)'
  BY <1>2 DEF DialFails
<1>3. ASSUME NEW c \in Conns, PahoCleanup(c) PROVE Dialer(d)'
  BY <1>3 DEF PahoCleanup
<1>4. ASSUME NEW c \in Conns, LinkLost(c) PROVE Dialer(d)'
  BY <1>4 DEF LinkLost
<1>5. ASSUME NEW c \in Conns, Reconnect(c) PROVE Dialer(d)'
  BY <1>5 DEF Reconnect, LinkUp
<1>6. ASSUME NEW c \in Conns, Connect(c) PROVE Dialer(d)'
  BY <1>6 DEF Connect, Runner
<1>7. ASSUME NEW c \in Conns, StartDial(c) PROVE Dialer(d)'
  BY <1>7 DEF StartDial, Runner
<1>8. ASSUME NEW c \in Conns, ConnectReturns(c) PROVE Dialer(d)'
  BY <1>8 DEF ConnectReturns, Runner
<1>9. ASSUME NEW c \in Conns, ConnectAborts(c) PROVE Dialer(d)'
  BY <1>9 DEF ConnectAborts, Runner, PahoDisconnect
<1>10. ASSUME NEW c \in Conns, AbortReturns(c) PROVE Dialer(d)'
  BY <1>10 DEF AbortReturns, Runner, PahoDisconnect
<1>11. ASSUME NEW c \in Conns, FailedTooLate(c) PROVE Dialer(d)'
  BY <1>11 DEF FailedTooLate, Runner, RunConnectReturns
<1>12. ASSUME NEW c \in Conns, ConnectedTooLate(c) PROVE Dialer(d)'
  BY <1>12 DEF ConnectedTooLate, Runner
<1>13. ASSUME NEW c \in Conns, DiscardLink(c) PROVE Dialer(d)'
  BY <1>13 DEF DiscardLink, Runner, RunConnectReturns, PahoDisconnect
<1>14. ASSUME NEW c \in Conns, ConnectFailed(c) PROVE Dialer(d)'
  BY <1>14 DEF ConnectFailed, Runner, Emit
<1>15. ASSUME NEW c \in Conns, ForgetFailed(c) PROVE Dialer(d)'
  BY <1>15 DEF ForgetFailed, Runner, RunConnectReturns
<1>16. ASSUME NEW c \in Conns, ConnectSucceeded(c) PROVE Dialer(d)'
  BY <1>16 DEF ConnectSucceeded, Runner, RunConnectReturns
<1>17. ASSUME NEW c \in Conns, OnConnected(c) PROVE Dialer(d)'
  BY <1>17 DEF OnConnected, Emit
<1>18. ASSUME NEW c \in Conns, IgnoreConnected(c) PROVE Dialer(d)'
  BY <1>18 DEF IgnoreConnected
<1>19. ASSUME NEW c \in Conns, OnConnectionLost(c) PROVE Dialer(d)'
  BY <1>19 DEF OnConnectionLost, Emit
<1>20. ASSUME NEW c \in Conns, IgnoreConnectionLost(c) PROVE Dialer(d)'
  BY <1>20 DEF IgnoreConnectionLost
<1>21. ASSUME NEW c \in Conns, LookupForOperation(c) PROVE Dialer(d)'
  BY <1>21 DEF LookupForOperation
<1>22. ASSUME NEW c \in Conns, BeginOperation(c) PROVE Dialer(d)'
  BY <1>22 DEF BeginOperation
<1>23. ASSUME NEW c \in Conns, ReleaseOpMu(c) PROVE Dialer(d)'
  BY <1>23 DEF ReleaseOpMu
<1>24. ASSUME NEW c \in Conns, Detach(c) PROVE Dialer(d)'
  BY <1>24 DEF Detach
<1>25. ASSUME NEW c \in Conns, CancelDetached(c) PROVE Dialer(d)'
  BY <1>25 DEF CancelDetached
<1>26. ASSUME NEW c \in Conns, CutDetached(c) PROVE Dialer(d)'
  BY <1>26 DEF CutDetached, PahoDisconnect
<1>27. ASSUME NEW c \in Conns, CloseDetached(c) PROVE Dialer(d)'
  BY <1>27 DEF CloseDetached, Emit
<1>28. ASSUME NEW c \in Conns, CloseOvertaken(c) PROVE Dialer(d)'
  BY <1>28 DEF CloseOvertaken
<1>29. ASSUME NEW c \in Conns, FinishClosing(c) PROVE Dialer(d)'
  BY <1>29 DEF FinishClosing
<1>30. ASSUME NEW c \in Conns, DrainCut(c) PROVE Dialer(d)'
  BY <1>30 DEF DrainCut, PahoDisconnect
<1>31. ASSUME NEW c \in Conns, DrainClose(c) PROVE Dialer(d)'
  BY <1>31 DEF DrainClose
<1>32. CASE Shutdown
  BY <1>32 DEF Shutdown
<1>33. CASE StopRoot
  BY <1>33 DEF StopRoot
<1>34. CASE ShutdownReturns
  BY <1>34 DEF ShutdownReturns
<1>35. CASE UNCHANGED vars
  BY <1>35 DEF vars
<1>36. QED
  BY <1>1, <1>2, <1>3, <1>4, <1>5, <1>6, <1>7, <1>8, <1>9, <1>10, <1>11, <1>12,
     <1>13, <1>14, <1>15, <1>16, <1>17, <1>18, <1>19, <1>20, <1>21, <1>22, <1>23,
     <1>24, <1>25, <1>26, <1>27, <1>28, <1>29, <1>30, <1>31, <1>32, <1>33, <1>34,
     <1>35
  DEF Next, RunConnect, Disconnecting, Stopped

\* Every step keeps the service's books.
LEMMA BooksStep ==
  ASSUME IInv, [Next]_vars, NEW d \in Conns
  PROVE  Books(d)'
<1> USE DEF IInv, Books, Marked, Dialer, Latch, DiscLive, TypeOK, Terminal, serviceVars, connVars, pahoVars, callVars
<1>1. ASSUME NEW c \in Conns, DialSucceeds(c) PROVE Books(d)'
  BY <1>1 DEF DialSucceeds, LinkUp
<1>2. ASSUME NEW c \in Conns, DialFails(c) PROVE Books(d)'
  BY <1>2 DEF DialFails
<1>3. ASSUME NEW c \in Conns, PahoCleanup(c) PROVE Books(d)'
  BY <1>3 DEF PahoCleanup
<1>4. ASSUME NEW c \in Conns, LinkLost(c) PROVE Books(d)'
  BY <1>4 DEF LinkLost
<1>5. ASSUME NEW c \in Conns, Reconnect(c) PROVE Books(d)'
  BY <1>5 DEF Reconnect, LinkUp
<1>6. ASSUME NEW c \in Conns, Connect(c) PROVE Books(d)'
  BY <1>6 DEF Connect, Runner
<1>7. ASSUME NEW c \in Conns, StartDial(c) PROVE Books(d)'
  BY <1>7 DEF StartDial, Runner
<1>8. ASSUME NEW c \in Conns, ConnectReturns(c) PROVE Books(d)'
  BY <1>8 DEF ConnectReturns, Runner
<1>9. ASSUME NEW c \in Conns, ConnectAborts(c) PROVE Books(d)'
  BY <1>9 DEF ConnectAborts, Runner, PahoDisconnect
<1>10. ASSUME NEW c \in Conns, AbortReturns(c) PROVE Books(d)'
  BY <1>10 DEF AbortReturns, Runner, PahoDisconnect
<1>11. ASSUME NEW c \in Conns, FailedTooLate(c) PROVE Books(d)'
  BY <1>11 DEF FailedTooLate, Runner, RunConnectReturns
<1>12. ASSUME NEW c \in Conns, ConnectedTooLate(c) PROVE Books(d)'
  BY <1>12 DEF ConnectedTooLate, Runner
<1>13. ASSUME NEW c \in Conns, DiscardLink(c) PROVE Books(d)'
  BY <1>13 DEF DiscardLink, Runner, RunConnectReturns, PahoDisconnect
<1>14. ASSUME NEW c \in Conns, ConnectFailed(c) PROVE Books(d)'
  BY <1>14 DEF ConnectFailed, Runner, Emit
<1>15. ASSUME NEW c \in Conns, ForgetFailed(c) PROVE Books(d)'
  BY <1>15 DEF ForgetFailed, Runner, RunConnectReturns
<1>16. ASSUME NEW c \in Conns, ConnectSucceeded(c) PROVE Books(d)'
  BY <1>16 DEF ConnectSucceeded, Runner, RunConnectReturns
<1>17. ASSUME NEW c \in Conns, OnConnected(c) PROVE Books(d)'
  BY <1>17 DEF OnConnected, Emit
<1>18. ASSUME NEW c \in Conns, IgnoreConnected(c) PROVE Books(d)'
  BY <1>18 DEF IgnoreConnected
<1>19. ASSUME NEW c \in Conns, OnConnectionLost(c) PROVE Books(d)'
  BY <1>19 DEF OnConnectionLost, Emit
<1>20. ASSUME NEW c \in Conns, IgnoreConnectionLost(c) PROVE Books(d)'
  BY <1>20 DEF IgnoreConnectionLost
<1>21. ASSUME NEW c \in Conns, LookupForOperation(c) PROVE Books(d)'
  BY <1>21 DEF LookupForOperation
<1>22. ASSUME NEW c \in Conns, BeginOperation(c) PROVE Books(d)'
  BY <1>22 DEF BeginOperation
<1>23. ASSUME NEW c \in Conns, ReleaseOpMu(c) PROVE Books(d)'
  BY <1>23 DEF ReleaseOpMu
<1>24. ASSUME NEW c \in Conns, Detach(c) PROVE Books(d)'
  BY <1>24 DEF Detach
<1>25. ASSUME NEW c \in Conns, CancelDetached(c) PROVE Books(d)'
  BY <1>25 DEF CancelDetached
<1>26. ASSUME NEW c \in Conns, CutDetached(c) PROVE Books(d)'
  BY <1>26 DEF CutDetached, PahoDisconnect
<1>27. ASSUME NEW c \in Conns, CloseDetached(c) PROVE Books(d)'
  BY <1>27 DEF CloseDetached, Emit
<1>28. ASSUME NEW c \in Conns, CloseOvertaken(c) PROVE Books(d)'
  BY <1>28 DEF CloseOvertaken
<1>29. ASSUME NEW c \in Conns, FinishClosing(c) PROVE Books(d)'
  BY <1>29 DEF FinishClosing
<1>30. ASSUME NEW c \in Conns, DrainCut(c) PROVE Books(d)'
  BY <1>30 DEF DrainCut, PahoDisconnect
<1>31. ASSUME NEW c \in Conns, DrainClose(c) PROVE Books(d)'
  BY <1>31 DEF DrainClose
<1>32. CASE Shutdown
  BY <1>32 DEF Shutdown
<1>33. CASE StopRoot
  BY <1>33 DEF StopRoot
<1>34. CASE ShutdownReturns
  BY <1>34 DEF ShutdownReturns
<1>35. CASE UNCHANGED vars
  BY <1>35 DEF vars
<1>36. QED
  BY <1>1, <1>2, <1>3, <1>4, <1>5, <1>6, <1>7, <1>8, <1>9, <1>10, <1>11, <1>12,
     <1>13, <1>14, <1>15, <1>16, <1>17, <1>18, <1>19, <1>20, <1>21, <1>22, <1>23,
     <1>24, <1>25, <1>26, <1>27, <1>28, <1>29, <1>30, <1>31, <1>32, <1>33, <1>34,
     <1>35
  DEF Next, RunConnect, Disconnecting, Stopped

\* Every step keeps a closed service closed.
LEMMA MarkedStep ==
  ASSUME IInv, [Next]_vars, NEW d \in Conns
  PROVE  Marked(d)'
<1> USE DEF IInv, Books, Marked, Latch, DiscLive, TypeOK, Terminal, serviceVars, connVars, pahoVars, callVars
<1>1. ASSUME NEW c \in Conns, DialSucceeds(c) PROVE Marked(d)'
  BY <1>1 DEF DialSucceeds, LinkUp
<1>2. ASSUME NEW c \in Conns, DialFails(c) PROVE Marked(d)'
  BY <1>2 DEF DialFails
<1>3. ASSUME NEW c \in Conns, PahoCleanup(c) PROVE Marked(d)'
  BY <1>3 DEF PahoCleanup
<1>4. ASSUME NEW c \in Conns, LinkLost(c) PROVE Marked(d)'
  BY <1>4 DEF LinkLost
<1>5. ASSUME NEW c \in Conns, Reconnect(c) PROVE Marked(d)'
  BY <1>5 DEF Reconnect, LinkUp
<1>6. ASSUME NEW c \in Conns, Connect(c) PROVE Marked(d)'
  BY <1>6 DEF Connect, Runner
<1>7. ASSUME NEW c \in Conns, StartDial(c) PROVE Marked(d)'
  BY <1>7 DEF StartDial, Runner
<1>8. ASSUME NEW c \in Conns, ConnectReturns(c) PROVE Marked(d)'
  BY <1>8 DEF ConnectReturns, Runner
<1>9. ASSUME NEW c \in Conns, ConnectAborts(c) PROVE Marked(d)'
  BY <1>9 DEF ConnectAborts, Runner, PahoDisconnect
<1>10. ASSUME NEW c \in Conns, AbortReturns(c) PROVE Marked(d)'
  BY <1>10 DEF AbortReturns, Runner, PahoDisconnect
<1>11. ASSUME NEW c \in Conns, FailedTooLate(c) PROVE Marked(d)'
  BY <1>11 DEF FailedTooLate, Runner, RunConnectReturns
<1>12. ASSUME NEW c \in Conns, ConnectedTooLate(c) PROVE Marked(d)'
  BY <1>12 DEF ConnectedTooLate, Runner
<1>13. ASSUME NEW c \in Conns, DiscardLink(c) PROVE Marked(d)'
  BY <1>13 DEF DiscardLink, Runner, RunConnectReturns, PahoDisconnect
<1>14. ASSUME NEW c \in Conns, ConnectFailed(c) PROVE Marked(d)'
  BY <1>14 DEF ConnectFailed, Runner, Emit
<1>15. ASSUME NEW c \in Conns, ForgetFailed(c) PROVE Marked(d)'
  BY <1>15 DEF ForgetFailed, Runner, RunConnectReturns
<1>16. ASSUME NEW c \in Conns, ConnectSucceeded(c) PROVE Marked(d)'
  BY <1>16 DEF ConnectSucceeded, Runner, RunConnectReturns
<1>17. ASSUME NEW c \in Conns, OnConnected(c) PROVE Marked(d)'
  BY <1>17 DEF OnConnected, Emit
<1>18. ASSUME NEW c \in Conns, IgnoreConnected(c) PROVE Marked(d)'
  BY <1>18 DEF IgnoreConnected
<1>19. ASSUME NEW c \in Conns, OnConnectionLost(c) PROVE Marked(d)'
  BY <1>19 DEF OnConnectionLost, Emit
<1>20. ASSUME NEW c \in Conns, IgnoreConnectionLost(c) PROVE Marked(d)'
  BY <1>20 DEF IgnoreConnectionLost
<1>21. ASSUME NEW c \in Conns, LookupForOperation(c) PROVE Marked(d)'
  BY <1>21 DEF LookupForOperation
<1>22. ASSUME NEW c \in Conns, BeginOperation(c) PROVE Marked(d)'
  BY <1>22 DEF BeginOperation
<1>23. ASSUME NEW c \in Conns, ReleaseOpMu(c) PROVE Marked(d)'
  BY <1>23 DEF ReleaseOpMu
<1>24. ASSUME NEW c \in Conns, Detach(c) PROVE Marked(d)'
  BY <1>24 DEF Detach
<1>25. ASSUME NEW c \in Conns, CancelDetached(c) PROVE Marked(d)'
  BY <1>25 DEF CancelDetached
<1>26. ASSUME NEW c \in Conns, CutDetached(c) PROVE Marked(d)'
  BY <1>26 DEF CutDetached, PahoDisconnect
<1>27. ASSUME NEW c \in Conns, CloseDetached(c) PROVE Marked(d)'
  BY <1>27 DEF CloseDetached, Emit
<1>28. ASSUME NEW c \in Conns, CloseOvertaken(c) PROVE Marked(d)'
  BY <1>28 DEF CloseOvertaken
<1>29. ASSUME NEW c \in Conns, FinishClosing(c) PROVE Marked(d)'
  BY <1>29 DEF FinishClosing
<1>30. ASSUME NEW c \in Conns, DrainCut(c) PROVE Marked(d)'
  BY <1>30 DEF DrainCut, PahoDisconnect
<1>31. ASSUME NEW c \in Conns, DrainClose(c) PROVE Marked(d)'
  BY <1>31 DEF DrainClose
<1>32. CASE Shutdown
  BY <1>32 DEF Shutdown
<1>33. CASE StopRoot
  BY <1>33 DEF StopRoot
<1>34. CASE ShutdownReturns
  BY <1>34 DEF ShutdownReturns
<1>35. CASE UNCHANGED vars
  BY <1>35 DEF vars
<1>36. QED
  BY <1>1, <1>2, <1>3, <1>4, <1>5, <1>6, <1>7, <1>8, <1>9, <1>10, <1>11, <1>12,
     <1>13, <1>14, <1>15, <1>16, <1>17, <1>18, <1>19, <1>20, <1>21, <1>22, <1>23,
     <1>24, <1>25, <1>26, <1>27, <1>28, <1>29, <1>30, <1>31, <1>32, <1>33, <1>34,
     <1>35
  DEF Next, RunConnect, Disconnecting, Stopped

\* Every step leaves a live link to somebody who will cut it.
LEMMA OwnedStep ==
  ASSUME IInv, [Next]_vars, NEW d \in Conns
  PROVE  Owned(d)'
<1> USE DEF IInv, Owned, Books, Marked, Dialer, Latch, TypeOK, Terminal, serviceVars, connVars, pahoVars, callVars
<1>1. ASSUME NEW c \in Conns, DialSucceeds(c) PROVE Owned(d)'
  BY <1>1 DEF DialSucceeds, LinkUp
<1>2. ASSUME NEW c \in Conns, DialFails(c) PROVE Owned(d)'
  BY <1>2 DEF DialFails
<1>3. ASSUME NEW c \in Conns, PahoCleanup(c) PROVE Owned(d)'
  BY <1>3 DEF PahoCleanup
<1>4. ASSUME NEW c \in Conns, LinkLost(c) PROVE Owned(d)'
  BY <1>4 DEF LinkLost
<1>5. ASSUME NEW c \in Conns, Reconnect(c) PROVE Owned(d)'
  BY <1>5 DEF Reconnect, LinkUp
<1>6. ASSUME NEW c \in Conns, Connect(c) PROVE Owned(d)'
  BY <1>6 DEF Connect, Runner
<1>7. ASSUME NEW c \in Conns, StartDial(c) PROVE Owned(d)'
  BY <1>7 DEF StartDial, Runner
<1>8. ASSUME NEW c \in Conns, ConnectReturns(c) PROVE Owned(d)'
  BY <1>8 DEF ConnectReturns, Runner
<1>9. ASSUME NEW c \in Conns, ConnectAborts(c) PROVE Owned(d)'
  BY <1>9 DEF ConnectAborts, Runner, PahoDisconnect
<1>10. ASSUME NEW c \in Conns, AbortReturns(c) PROVE Owned(d)'
  BY <1>10 DEF AbortReturns, Runner, PahoDisconnect
<1>11. ASSUME NEW c \in Conns, FailedTooLate(c) PROVE Owned(d)'
  BY <1>11 DEF FailedTooLate, Runner, RunConnectReturns
<1>12. ASSUME NEW c \in Conns, ConnectedTooLate(c) PROVE Owned(d)'
  BY <1>12 DEF ConnectedTooLate, Runner
<1>13. ASSUME NEW c \in Conns, DiscardLink(c) PROVE Owned(d)'
  <2>1. link[c] \notin {"idle", "dialing"}
    BY <1>13 DEF DiscardLink, Runner
  <2>2. link'[c] = "off"
    BY <1>13, <2>1 DEF DiscardLink, PahoDisconnect
  <2>3. QED
    BY <1>13, <2>2 DEF DiscardLink, Runner, PahoDisconnect
<1>14. ASSUME NEW c \in Conns, ConnectFailed(c) PROVE Owned(d)'
  BY <1>14 DEF ConnectFailed, Runner, Emit
<1>15. ASSUME NEW c \in Conns, ForgetFailed(c) PROVE Owned(d)'
  BY <1>15 DEF ForgetFailed, Runner, RunConnectReturns
<1>16. ASSUME NEW c \in Conns, ConnectSucceeded(c) PROVE Owned(d)'
  BY <1>16 DEF ConnectSucceeded, Runner, RunConnectReturns
<1>17. ASSUME NEW c \in Conns, OnConnected(c) PROVE Owned(d)'
  BY <1>17 DEF OnConnected, Emit
<1>18. ASSUME NEW c \in Conns, IgnoreConnected(c) PROVE Owned(d)'
  BY <1>18 DEF IgnoreConnected
<1>19. ASSUME NEW c \in Conns, OnConnectionLost(c) PROVE Owned(d)'
  BY <1>19 DEF OnConnectionLost, Emit
<1>20. ASSUME NEW c \in Conns, IgnoreConnectionLost(c) PROVE Owned(d)'
  BY <1>20 DEF IgnoreConnectionLost
<1>21. ASSUME NEW c \in Conns, LookupForOperation(c) PROVE Owned(d)'
  BY <1>21 DEF LookupForOperation
<1>22. ASSUME NEW c \in Conns, BeginOperation(c) PROVE Owned(d)'
  BY <1>22 DEF BeginOperation
<1>23. ASSUME NEW c \in Conns, ReleaseOpMu(c) PROVE Owned(d)'
  BY <1>23 DEF ReleaseOpMu
<1>24. ASSUME NEW c \in Conns, Detach(c) PROVE Owned(d)'
  BY <1>24 DEF Detach
<1>25. ASSUME NEW c \in Conns, CancelDetached(c) PROVE Owned(d)'
  BY <1>25 DEF CancelDetached
<1>26. ASSUME NEW c \in Conns, CutDetached(c) PROVE Owned(d)'
  BY <1>26, ZenonT(30) DEF CutDetached, PahoDisconnect
<1>27. ASSUME NEW c \in Conns, CloseDetached(c) PROVE Owned(d)'
  BY <1>27 DEF CloseDetached, Emit
<1>28. ASSUME NEW c \in Conns, CloseOvertaken(c) PROVE Owned(d)'
  BY <1>28 DEF CloseOvertaken
<1>29. ASSUME NEW c \in Conns, FinishClosing(c) PROVE Owned(d)'
  BY <1>29 DEF FinishClosing
<1>30. ASSUME NEW c \in Conns, DrainCut(c) PROVE Owned(d)'
  BY <1>30, ZenonT(30) DEF DrainCut, PahoDisconnect
<1>31. ASSUME NEW c \in Conns, DrainClose(c) PROVE Owned(d)'
  BY <1>31 DEF DrainClose
<1>32. CASE Shutdown
  BY <1>32 DEF Shutdown
<1>33. CASE StopRoot
  BY <1>33 DEF StopRoot
<1>34. CASE ShutdownReturns
  BY <1>34 DEF ShutdownReturns
<1>35. CASE UNCHANGED vars
  BY <1>35 DEF vars
<1>36. QED
  BY <1>1, <1>2, <1>3, <1>4, <1>5, <1>6, <1>7, <1>8, <1>9, <1>10, <1>11, <1>12,
     <1>13, <1>14, <1>15, <1>16, <1>17, <1>18, <1>19, <1>20, <1>21, <1>22, <1>23,
     <1>24, <1>25, <1>26, <1>27, <1>28, <1>29, <1>30, <1>31, <1>32, <1>33, <1>34,
     <1>35
  DEF Next, RunConnect, Disconnecting, Stopped

\* The connection goroutines and the Disconnect calls the WaitGroup counts.
Running == {c \in Conns : RunnerLive(c)}
Ending == {c \in Conns : DiscLive(c)}

LEMMA FiniteSets ==
  /\ IsFiniteSet(Running) /\ Cardinality(Running) \in Nat
  /\ IsFiniteSet(Ending) /\ Cardinality(Ending) \in Nat
<1>1. Running \subseteq Conns /\ Ending \subseteq Conns
  BY DEF Running, Ending
<1>2. QED
  BY <1>1, ConnsFinite, FS_Subset, FS_CardinalityType

\* A step that starts and ends nothing, and a step that starts or ends one
\* goroutine, keep the count exact when they change the WaitGroup to match.
LEMMA CountSame ==
  ASSUME CountExact, Running' = Running, Ending' = Ending, connWg' = connWg
  PROVE  CountExact'
BY DEF CountExact, Running, Ending

LEMMA CountRunnerStarts ==
  ASSUME CountExact, NEW c \in Conns, c \notin Running,
         Running' = Running \cup {c}, Ending' = Ending, connWg' = connWg + 1
  PROVE  CountExact'
<1>1. Cardinality(Running') = Cardinality(Running) + 1
  BY FiniteSets, FS_AddElement
<1>2. connWg = Cardinality(Running) + Cardinality(Ending)
  BY DEF CountExact, Running, Ending
<1>3. connWg' = Cardinality(Running') + Cardinality(Ending')
  BY <1>1, <1>2, FiniteSets
<1>4. QED
  BY <1>3 DEF CountExact, Running, Ending

LEMMA CountRunnerEnds ==
  ASSUME CountExact, NEW c \in Running,
         Running' = Running \ {c}, Ending' = Ending, connWg' = connWg - 1
  PROVE  CountExact'
<1>1. Cardinality(Running') = Cardinality(Running) - 1
  BY FiniteSets, FS_RemoveElement
<1>2. connWg = Cardinality(Running) + Cardinality(Ending)
  BY DEF CountExact, Running, Ending
<1>3. connWg' = Cardinality(Running') + Cardinality(Ending')
  BY <1>1, <1>2, FiniteSets
<1>4. QED
  BY <1>3 DEF CountExact, Running, Ending

LEMMA CountDisconnectStarts ==
  ASSUME CountExact, NEW c \in Conns, c \notin Ending,
         Running' = Running, Ending' = Ending \cup {c}, connWg' = connWg + 1
  PROVE  CountExact'
<1>1. Cardinality(Ending') = Cardinality(Ending) + 1
  BY FiniteSets, FS_AddElement
<1>2. connWg = Cardinality(Running) + Cardinality(Ending)
  BY DEF CountExact, Running, Ending
<1>3. connWg' = Cardinality(Running') + Cardinality(Ending')
  BY <1>1, <1>2, FiniteSets
<1>4. QED
  BY <1>3 DEF CountExact, Running, Ending

LEMMA CountDisconnectEnds ==
  ASSUME CountExact, NEW c \in Ending,
         Running' = Running, Ending' = Ending \ {c}, connWg' = connWg - 1
  PROVE  CountExact'
<1>1. Cardinality(Ending') = Cardinality(Ending) - 1
  BY FiniteSets, FS_RemoveElement
<1>2. connWg = Cardinality(Running) + Cardinality(Ending)
  BY DEF CountExact, Running, Ending
<1>3. connWg' = Cardinality(Running') + Cardinality(Ending')
  BY <1>1, <1>2, FiniteSets
<1>4. QED
  BY <1>3 DEF CountExact, Running, Ending

\* Every step keeps the count exact.
LEMMA CountStep ==
  ASSUME IInv, [Next]_vars
  PROVE  CountExact'
<1> USE DEF IInv, TypeOK, Running, Ending, RunnerLive, DiscLive,
            serviceVars, connVars, pahoVars, callVars
<1>1. ASSUME NEW c \in Conns, DialSucceeds(c) PROVE CountExact'
  <2>1. Running' = Running /\ Ending' = Ending
    BY <1>1 DEF DialSucceeds, LinkUp
  <2>2. connWg' = connWg
    BY <1>1 DEF DialSucceeds, LinkUp
  <2>3. QED
    BY <2>1, <2>2, CountSame DEF IInv
<1>2. ASSUME NEW c \in Conns, DialFails(c) PROVE CountExact'
  <2>1. Running' = Running /\ Ending' = Ending
    BY <1>2 DEF DialFails
  <2>2. connWg' = connWg
    BY <1>2 DEF DialFails
  <2>3. QED
    BY <2>1, <2>2, CountSame DEF IInv
<1>3. ASSUME NEW c \in Conns, PahoCleanup(c) PROVE CountExact'
  <2>1. Running' = Running /\ Ending' = Ending
    BY <1>3 DEF PahoCleanup
  <2>2. connWg' = connWg
    BY <1>3 DEF PahoCleanup
  <2>3. QED
    BY <2>1, <2>2, CountSame DEF IInv
<1>4. ASSUME NEW c \in Conns, LinkLost(c) PROVE CountExact'
  <2>1. Running' = Running /\ Ending' = Ending
    BY <1>4 DEF LinkLost
  <2>2. connWg' = connWg
    BY <1>4 DEF LinkLost
  <2>3. QED
    BY <2>1, <2>2, CountSame DEF IInv
<1>5. ASSUME NEW c \in Conns, Reconnect(c) PROVE CountExact'
  <2>1. Running' = Running /\ Ending' = Ending
    BY <1>5 DEF Reconnect, LinkUp
  <2>2. connWg' = connWg
    BY <1>5 DEF Reconnect, LinkUp
  <2>3. QED
    BY <2>1, <2>2, CountSame DEF IInv
<1>6. ASSUME NEW c \in Conns, Connect(c) PROVE CountExact'
  <2>1. c \notin Running /\ Running' = Running \cup {c} /\ Ending' = Ending
    BY <1>6 DEF Connect, Runner
  <2>2. connWg' = connWg + 1
    BY <1>6 DEF Connect, Runner
  <2>3. QED
    BY <2>1, <2>2, CountRunnerStarts DEF IInv
<1>7. ASSUME NEW c \in Conns, StartDial(c) PROVE CountExact'
  <2>1. Running' = Running /\ Ending' = Ending
    BY <1>7 DEF StartDial, Runner
  <2>2. connWg' = connWg
    BY <1>7 DEF StartDial, Runner
  <2>3. QED
    BY <2>1, <2>2, CountSame DEF IInv
<1>8. ASSUME NEW c \in Conns, ConnectReturns(c) PROVE CountExact'
  <2>1. Running' = Running /\ Ending' = Ending
    BY <1>8 DEF ConnectReturns, Runner
  <2>2. connWg' = connWg
    BY <1>8 DEF ConnectReturns, Runner
  <2>3. QED
    BY <2>1, <2>2, CountSame DEF IInv
<1>9. ASSUME NEW c \in Conns, ConnectAborts(c) PROVE CountExact'
  <2>1. Running' = Running /\ Ending' = Ending
    BY <1>9 DEF ConnectAborts, Runner
  <2>2. connWg' = connWg
    BY <1>9 DEF ConnectAborts, Runner
  <2>3. QED
    BY <2>1, <2>2, CountSame DEF IInv
<1>10. ASSUME NEW c \in Conns, AbortReturns(c) PROVE CountExact'
  <2>1. Running' = Running /\ Ending' = Ending
    BY <1>10 DEF AbortReturns, Runner
  <2>2. connWg' = connWg
    BY <1>10 DEF AbortReturns, Runner
  <2>3. QED
    BY <2>1, <2>2, CountSame DEF IInv
<1>11. ASSUME NEW c \in Conns, FailedTooLate(c) PROVE CountExact'
  <2>1. c \in Running /\ Running' = Running \ {c} /\ Ending' = Ending
    BY <1>11 DEF FailedTooLate, Runner, RunConnectReturns
  <2>2. connWg' = connWg - 1
    BY <1>11 DEF FailedTooLate, Runner, RunConnectReturns
  <2>3. QED
    BY <2>1, <2>2, CountRunnerEnds DEF IInv
<1>12. ASSUME NEW c \in Conns, ConnectedTooLate(c) PROVE CountExact'
  <2>1. Running' = Running /\ Ending' = Ending
    BY <1>12 DEF ConnectedTooLate, Runner
  <2>2. connWg' = connWg
    BY <1>12 DEF ConnectedTooLate, Runner
  <2>3. QED
    BY <2>1, <2>2, CountSame DEF IInv
<1>13. ASSUME NEW c \in Conns, DiscardLink(c) PROVE CountExact'
  <2>1. c \in Running /\ Running' = Running \ {c} /\ Ending' = Ending
    BY <1>13 DEF DiscardLink, Runner, RunConnectReturns
  <2>2. connWg' = connWg - 1
    BY <1>13 DEF DiscardLink, Runner, RunConnectReturns
  <2>3. QED
    BY <2>1, <2>2, CountRunnerEnds DEF IInv
<1>14. ASSUME NEW c \in Conns, ConnectFailed(c) PROVE CountExact'
  <2>1. Running' = Running /\ Ending' = Ending
    BY <1>14 DEF ConnectFailed, Runner
  <2>2. connWg' = connWg
    BY <1>14 DEF ConnectFailed, Runner
  <2>3. QED
    BY <2>1, <2>2, CountSame DEF IInv
<1>15. ASSUME NEW c \in Conns, ForgetFailed(c) PROVE CountExact'
  <2>1. c \in Running /\ Running' = Running \ {c} /\ Ending' = Ending
    BY <1>15 DEF ForgetFailed, Runner, RunConnectReturns
  <2>2. connWg' = connWg - 1
    BY <1>15 DEF ForgetFailed, Runner, RunConnectReturns
  <2>3. QED
    BY <2>1, <2>2, CountRunnerEnds DEF IInv
<1>16. ASSUME NEW c \in Conns, ConnectSucceeded(c) PROVE CountExact'
  <2>1. c \in Running /\ Running' = Running \ {c} /\ Ending' = Ending
    BY <1>16 DEF ConnectSucceeded, Runner, RunConnectReturns
  <2>2. connWg' = connWg - 1
    BY <1>16 DEF ConnectSucceeded, Runner, RunConnectReturns
  <2>3. QED
    BY <2>1, <2>2, CountRunnerEnds DEF IInv
<1>17. ASSUME NEW c \in Conns, OnConnected(c) PROVE CountExact'
  <2>1. Running' = Running /\ Ending' = Ending
    BY <1>17 DEF OnConnected
  <2>2. connWg' = connWg
    BY <1>17 DEF OnConnected
  <2>3. QED
    BY <2>1, <2>2, CountSame DEF IInv
<1>18. ASSUME NEW c \in Conns, IgnoreConnected(c) PROVE CountExact'
  <2>1. Running' = Running /\ Ending' = Ending
    BY <1>18 DEF IgnoreConnected
  <2>2. connWg' = connWg
    BY <1>18 DEF IgnoreConnected
  <2>3. QED
    BY <2>1, <2>2, CountSame DEF IInv
<1>19. ASSUME NEW c \in Conns, OnConnectionLost(c) PROVE CountExact'
  <2>1. Running' = Running /\ Ending' = Ending
    BY <1>19 DEF OnConnectionLost
  <2>2. connWg' = connWg
    BY <1>19 DEF OnConnectionLost
  <2>3. QED
    BY <2>1, <2>2, CountSame DEF IInv
<1>20. ASSUME NEW c \in Conns, IgnoreConnectionLost(c) PROVE CountExact'
  <2>1. Running' = Running /\ Ending' = Ending
    BY <1>20 DEF IgnoreConnectionLost
  <2>2. connWg' = connWg
    BY <1>20 DEF IgnoreConnectionLost
  <2>3. QED
    BY <2>1, <2>2, CountSame DEF IInv
<1>21. ASSUME NEW c \in Conns, LookupForOperation(c) PROVE CountExact'
  <2>1. Running' = Running /\ Ending' = Ending
    BY <1>21 DEF LookupForOperation
  <2>2. connWg' = connWg
    BY <1>21 DEF LookupForOperation
  <2>3. QED
    BY <2>1, <2>2, CountSame DEF IInv
<1>22. ASSUME NEW c \in Conns, BeginOperation(c) PROVE CountExact'
  <2>1. Running' = Running /\ Ending' = Ending
    BY <1>22 DEF BeginOperation
  <2>2. connWg' = connWg
    BY <1>22 DEF BeginOperation
  <2>3. QED
    BY <2>1, <2>2, CountSame DEF IInv
<1>23. ASSUME NEW c \in Conns, ReleaseOpMu(c) PROVE CountExact'
  <2>1. Running' = Running /\ Ending' = Ending
    BY <1>23 DEF ReleaseOpMu
  <2>2. connWg' = connWg
    BY <1>23 DEF ReleaseOpMu
  <2>3. QED
    BY <2>1, <2>2, CountSame DEF IInv
<1>24. ASSUME NEW c \in Conns, Detach(c) PROVE CountExact'
  <2>1. c \notin Ending /\ Ending' = Ending \cup {c} /\ Running' = Running
    BY <1>24 DEF Detach, Books, Terminal
  <2>2. connWg' = connWg + 1
    BY <1>24 DEF Detach, Books, Terminal
  <2>3. QED
    BY <2>1, <2>2, CountDisconnectStarts DEF IInv
<1>25. ASSUME NEW c \in Conns, CancelDetached(c) PROVE CountExact'
  <2>1. Running' = Running /\ Ending' = Ending
    BY <1>25 DEF CancelDetached
  <2>2. connWg' = connWg
    BY <1>25 DEF CancelDetached
  <2>3. QED
    BY <2>1, <2>2, CountSame DEF IInv
<1>26. ASSUME NEW c \in Conns, CutDetached(c) PROVE CountExact'
  <2>1. Running' = Running /\ Ending' = Ending
    BY <1>26 DEF CutDetached
  <2>2. connWg' = connWg
    BY <1>26 DEF CutDetached
  <2>3. QED
    BY <2>1, <2>2, CountSame DEF IInv
<1>27. ASSUME NEW c \in Conns, CloseDetached(c) PROVE CountExact'
  <2>1. Running' = Running /\ Ending' = Ending
    BY <1>27 DEF CloseDetached
  <2>2. connWg' = connWg
    BY <1>27 DEF CloseDetached
  <2>3. QED
    BY <2>1, <2>2, CountSame DEF IInv
<1>28. ASSUME NEW c \in Conns, CloseOvertaken(c) PROVE CountExact'
  <2>1. Running' = Running /\ Ending' = Ending
    BY <1>28 DEF CloseOvertaken
  <2>2. connWg' = connWg
    BY <1>28 DEF CloseOvertaken
  <2>3. QED
    BY <2>1, <2>2, CountSame DEF IInv
<1>29. ASSUME NEW c \in Conns, FinishClosing(c) PROVE CountExact'
  <2>1. c \in Ending /\ Ending' = Ending \ {c} /\ Running' = Running
    BY <1>29 DEF FinishClosing
  <2>2. connWg' = connWg - 1
    BY <1>29 DEF FinishClosing
  <2>3. QED
    BY <2>1, <2>2, CountDisconnectEnds DEF IInv
<1>30. ASSUME NEW c \in Conns, DrainCut(c) PROVE CountExact'
  <2>1. Running' = Running /\ Ending' = Ending
    BY <1>30 DEF DrainCut
  <2>2. connWg' = connWg
    BY <1>30 DEF DrainCut
  <2>3. QED
    BY <2>1, <2>2, CountSame DEF IInv
<1>31. ASSUME NEW c \in Conns, DrainClose(c) PROVE CountExact'
  <2>1. Running' = Running /\ Ending' = Ending
    BY <1>31 DEF DrainClose
  <2>2. connWg' = connWg
    BY <1>31 DEF DrainClose
  <2>3. QED
    BY <2>1, <2>2, CountSame DEF IInv
<1>32. CASE Shutdown
  <2>1. Running' = Running /\ Ending' = Ending /\ connWg' = connWg
    BY <1>32 DEF Shutdown
  <2>2. QED
    BY <2>1, CountSame
<1>33. CASE StopRoot
  <2>1. Running' = Running /\ Ending' = Ending /\ connWg' = connWg
    BY <1>33 DEF StopRoot
  <2>2. QED
    BY <2>1, CountSame
<1>34. CASE ShutdownReturns
  <2>1. Running' = Running /\ Ending' = Ending /\ connWg' = connWg
    BY <1>34 DEF ShutdownReturns
  <2>2. QED
    BY <2>1, CountSame
<1>35. CASE UNCHANGED vars
  <2>1. Running' = Running /\ Ending' = Ending /\ connWg' = connWg
    BY <1>35 DEF vars
  <2>2. QED
    BY <2>1, CountSame
<1>36. QED
  BY <1>1, <1>2, <1>3, <1>4, <1>5, <1>6, <1>7, <1>8, <1>9, <1>10, <1>11, <1>12,
     <1>13, <1>14, <1>15, <1>16, <1>17, <1>18, <1>19, <1>20, <1>21, <1>22, <1>23,
     <1>24, <1>25, <1>26, <1>27, <1>28, <1>29, <1>30, <1>31, <1>32, <1>33, <1>34,
     <1>35
  DEF Next, RunConnect, Disconnecting, Stopped

\* A drained service has no goroutine and no Disconnect left.
LEMMA DrainedEmpty ==
  ASSUME IInv, Drained
  PROVE  Running = {} /\ Ending = {}
<1>1. Cardinality(Running) + Cardinality(Ending) = 0
  BY DEF IInv, CountExact, Drained, Running, Ending
<1>2. Cardinality(Running) = 0 /\ Cardinality(Ending) = 0
  BY <1>1, FiniteSets
<1>3. QED
  BY <1>2, FiniteSets, FS_EmptySet

\* Every step keeps the latch: closed for good, unlisted, and drained for good.
LEMMA LatchStep ==
  ASSUME IInv, [Next]_vars
  PROVE  Latch'
<1>1. shutdown = "drained" => Running = {} /\ Ending = {}
  BY DrainedEmpty DEF IInv, Latch
<1> USE <1>1 DEF IInv, Latch, Drained, TypeOK, Running, Ending, RunnerLive, DiscLive,
                 serviceVars, connVars, pahoVars, callVars
<1>2. ASSUME NEW c \in Conns, DialSucceeds(c) PROVE Latch'
  BY <1>2 DEF DialSucceeds, LinkUp
<1>3. ASSUME NEW c \in Conns, DialFails(c) PROVE Latch'
  BY <1>3 DEF DialFails
<1>4. ASSUME NEW c \in Conns, PahoCleanup(c) PROVE Latch'
  BY <1>4 DEF PahoCleanup
<1>5. ASSUME NEW c \in Conns, LinkLost(c) PROVE Latch'
  BY <1>5 DEF LinkLost
<1>6. ASSUME NEW c \in Conns, Reconnect(c) PROVE Latch'
  BY <1>6 DEF Reconnect, LinkUp
<1>7. ASSUME NEW c \in Conns, Connect(c) PROVE Latch'
  BY <1>7 DEF Connect, Runner
<1>8. ASSUME NEW c \in Conns, StartDial(c) PROVE Latch'
  BY <1>8 DEF StartDial, Runner
<1>9. ASSUME NEW c \in Conns, ConnectReturns(c) PROVE Latch'
  BY <1>9 DEF ConnectReturns, Runner
<1>10. ASSUME NEW c \in Conns, ConnectAborts(c) PROVE Latch'
  BY <1>10 DEF ConnectAborts, Runner, PahoDisconnect
<1>11. ASSUME NEW c \in Conns, AbortReturns(c) PROVE Latch'
  BY <1>11 DEF AbortReturns, Runner, PahoDisconnect
<1>12. ASSUME NEW c \in Conns, FailedTooLate(c) PROVE Latch'
  BY <1>12 DEF FailedTooLate, Runner, RunConnectReturns
<1>13. ASSUME NEW c \in Conns, ConnectedTooLate(c) PROVE Latch'
  BY <1>13 DEF ConnectedTooLate, Runner
<1>14. ASSUME NEW c \in Conns, DiscardLink(c) PROVE Latch'
  BY <1>14 DEF DiscardLink, Runner, RunConnectReturns, PahoDisconnect
<1>15. ASSUME NEW c \in Conns, ConnectFailed(c) PROVE Latch'
  BY <1>15 DEF ConnectFailed, Runner, Emit
<1>16. ASSUME NEW c \in Conns, ForgetFailed(c) PROVE Latch'
  BY <1>16 DEF ForgetFailed, Runner, RunConnectReturns
<1>17. ASSUME NEW c \in Conns, ConnectSucceeded(c) PROVE Latch'
  BY <1>17 DEF ConnectSucceeded, Runner, RunConnectReturns
<1>18. ASSUME NEW c \in Conns, OnConnected(c) PROVE Latch'
  BY <1>18 DEF OnConnected, Emit
<1>19. ASSUME NEW c \in Conns, IgnoreConnected(c) PROVE Latch'
  BY <1>19 DEF IgnoreConnected
<1>20. ASSUME NEW c \in Conns, OnConnectionLost(c) PROVE Latch'
  BY <1>20 DEF OnConnectionLost, Emit
<1>21. ASSUME NEW c \in Conns, IgnoreConnectionLost(c) PROVE Latch'
  BY <1>21 DEF IgnoreConnectionLost
<1>22. ASSUME NEW c \in Conns, LookupForOperation(c) PROVE Latch'
  BY <1>22 DEF LookupForOperation
<1>23. ASSUME NEW c \in Conns, BeginOperation(c) PROVE Latch'
  BY <1>23 DEF BeginOperation
<1>24. ASSUME NEW c \in Conns, ReleaseOpMu(c) PROVE Latch'
  BY <1>24 DEF ReleaseOpMu
<1>25. ASSUME NEW c \in Conns, Detach(c) PROVE Latch'
  BY <1>25 DEF Detach
<1>26. ASSUME NEW c \in Conns, CancelDetached(c) PROVE Latch'
  BY <1>26 DEF CancelDetached
<1>27. ASSUME NEW c \in Conns, CutDetached(c) PROVE Latch'
  BY <1>27 DEF CutDetached, PahoDisconnect
<1>28. ASSUME NEW c \in Conns, CloseDetached(c) PROVE Latch'
  BY <1>28 DEF CloseDetached, Emit
<1>29. ASSUME NEW c \in Conns, CloseOvertaken(c) PROVE Latch'
  BY <1>29 DEF CloseOvertaken
<1>30. ASSUME NEW c \in Conns, FinishClosing(c) PROVE Latch'
  BY <1>30 DEF FinishClosing
<1>31. ASSUME NEW c \in Conns, DrainCut(c) PROVE Latch'
  BY <1>31 DEF DrainCut, PahoDisconnect
<1>32. ASSUME NEW c \in Conns, DrainClose(c) PROVE Latch'
  BY <1>32 DEF DrainClose
<1>33. CASE Shutdown
  BY <1>33 DEF Shutdown
<1>34. CASE StopRoot
  BY <1>34 DEF StopRoot
<1>35. CASE ShutdownReturns
  BY <1>35 DEF ShutdownReturns
<1>36. CASE UNCHANGED vars
  BY <1>36 DEF vars
<1>37. QED
  BY <1>2, <1>3, <1>4, <1>5, <1>6, <1>7, <1>8, <1>9, <1>10, <1>11, <1>12, <1>13,
     <1>14, <1>15, <1>16, <1>17, <1>18, <1>19, <1>20, <1>21, <1>22, <1>23, <1>24,
     <1>25, <1>26, <1>27, <1>28, <1>29, <1>30, <1>31, <1>32, <1>33, <1>34, <1>35,
     <1>36
  DEF Next, RunConnect, Disconnecting, Stopped

----------------------------------------------------------------------------
\* The inductive invariant holds initially and is kept by every step.
LEMMA InvInit == Init => IInv
<1> SUFFICES ASSUME Init PROVE IInv
  OBVIOUS
<1>1. TypeOK
  <2>1. <<>> \in Seq(EventNames)
    OBVIOUS
  <2>2. out \in [Conns -> Seq(EventNames)]
    BY <2>1 DEF Init
  <2>3. /\ closed \in BOOLEAN /\ conns \subseteq Conns /\ closing \subseteq Conns
        /\ cancelled \in [Conns -> BOOLEAN] /\ stopped \in [Conns -> BOOLEAN]
        /\ aborting \in [Conns -> BOOLEAN]
    BY DEF Init
  <2>4. /\ connWg \in Int
        /\ links \in [Conns -> Nat] /\ upCalls \in [Conns -> Nat]
        /\ lostCalls \in [Conns -> Nat] /\ waitingOps \in [Conns -> Nat]
    BY DEF Init
  <2>5. /\ state \in [Conns -> {"none"}] /\ opMu \in [Conns -> {"free"}]
        /\ link \in [Conns -> {"idle"}] /\ token \in [Conns -> {"none"}]
        /\ runner \in [Conns -> {"none"}] /\ disc \in [Conns -> {"none"}]
        /\ drain \in [Conns -> {"none"}] /\ shutdown = "none"
    BY DEF Init
  <2>6. QED
    BY <2>2, <2>3, <2>4, <2>5 DEF TypeOK, Holders
<1>2. CountExact
  <2>1. Running = {} /\ Ending = {}
    BY DEF Init, Running, Ending, RunnerLive, DiscLive
  <2>2. Cardinality(Running) = 0 /\ Cardinality(Ending) = 0
    BY <2>1, FS_EmptySet
  <2>3. connWg = Cardinality(Running) + Cardinality(Ending)
    BY <2>2 DEF Init
  <2>4. QED
    BY <2>3 DEF CountExact, Running, Ending
<1>3. Latch
  BY DEF Init, Latch
<1>4. \A c \in Conns : Books(c) /\ Marked(c) /\ Dialer(c) /\ Owned(c)
  BY DEF Init, Books, Marked, Dialer, Owned, DiscLive, Terminal
<1>5. QED
  BY <1>1, <1>2, <1>3, <1>4 DEF IInv

LEMMA InvStep == IInv /\ [Next]_vars => IInv'
<1> SUFFICES ASSUME IInv, [Next]_vars PROVE IInv'
  OBVIOUS
<1>1. TypeOK'
  BY TypeStep DEF IInv
<1>2. \A c \in Conns : (Books(c) /\ Marked(c) /\ Dialer(c) /\ Owned(c))'
  BY BooksStep, MarkedStep, DialerStep, OwnedStep
<1>3. QED
  BY <1>1, <1>2, CountStep, LatchStep DEF IInv

THEOREM Invariance == Spec => []IInv
BY InvInit, InvStep, PTL DEF Spec

\* Every variable of the service always has its type.
THEOREM TypeCorrect == Spec => []TypeOK
<1>1. IInv => TypeOK
  BY DEF IInv
<1>2. QED
  BY <1>1, Invariance, PTL

\* The WaitGroup counts exactly the goroutines and Disconnect calls alive.
THEOREM CountCorrect == Spec => []CountExact
<1>1. IInv => CountExact
  BY DEF IInv
<1>2. QED
  BY <1>1, Invariance, PTL

\* A connection nobody is responsible for has no link to its broker.
LEMMA InvNoOrphan == IInv => NoOrphanLink
<1> SUFFICES ASSUME IInv, NEW c \in Conns, c \notin conns, ~RunnerLive(c), ~DiscLive(c),
                    drain[c] \in {"none", "done"}
             PROVE  link[c] \in {"idle", "off"}
  BY DEF NoOrphanLink
<1>1. CASE runner[c] = "none"
  BY <1>1 DEF IInv, Dialer
<1>2. CASE runner[c] = "done"
  <2>1. state[c] \in {"disconnecting", "closed"}
    BY <1>2 DEF IInv, TypeOK, Books
  <2>2. QED
    BY <1>2, <2>1 DEF IInv, Owned, Terminal, DiscLive
<1>3. QED
  BY <1>1, <1>2 DEF RunnerLive

THEOREM NoOrphans == Spec => []NoOrphanLink
BY InvNoOrphan, Invariance, PTL

\* When Shutdown has returned true, every goroutine has ended and every link is
\* down, and it stays so.
LEMMA InvDrained == IInv => DrainedMeansQuiet
<1> SUFFICES ASSUME IInv, shutdown = "drained"
             PROVE  /\ conns = {} /\ closing = {}
                    /\ \A c \in Conns :
                          /\ ~RunnerLive(c) /\ ~DiscLive(c)
                          /\ link[c] \in {"idle", "off"}
  BY DEF DrainedMeansQuiet
<1>1. Drained /\ conns = {}
  BY DEF IInv, Latch
<1>2. \A c \in Conns : ~RunnerLive(c) /\ ~DiscLive(c)
  BY <1>1, DrainedEmpty DEF Running, Ending
<1>3. closing = {}
  BY <1>2 DEF IInv, TypeOK, Books
<1>4. \A c \in Conns : link[c] \in {"idle", "off"}
  BY <1>1, <1>2, InvNoOrphan DEF NoOrphanLink, Drained
<1>5. QED
  BY <1>1, <1>2, <1>3, <1>4

THEOREM DrainedCorrect == Spec => []DrainedMeansQuiet
BY InvDrained, Invariance, PTL

\* Once Shutdown has begun, nothing is added to the WaitGroup.
LEMMA WaitStep == IInv /\ [Next]_vars => [closed => connWg' <= connWg]_vars
<1> SUFFICES ASSUME IInv, [Next]_vars, closed PROVE connWg' <= connWg
  OBVIOUS
<1> USE DEF IInv, Latch, TypeOK, serviceVars, connVars, pahoVars, callVars, RunConnectReturns
<1>1. ASSUME NEW c \in Conns, DialSucceeds(c) PROVE connWg' <= connWg
  BY <1>1 DEF DialSucceeds, LinkUp
<1>2. ASSUME NEW c \in Conns, DialFails(c) PROVE connWg' <= connWg
  BY <1>2 DEF DialFails
<1>3. ASSUME NEW c \in Conns, PahoCleanup(c) PROVE connWg' <= connWg
  BY <1>3 DEF PahoCleanup
<1>4. ASSUME NEW c \in Conns, LinkLost(c) PROVE connWg' <= connWg
  BY <1>4 DEF LinkLost
<1>5. ASSUME NEW c \in Conns, Reconnect(c) PROVE connWg' <= connWg
  BY <1>5 DEF Reconnect, LinkUp
<1>6. ASSUME NEW c \in Conns, Connect(c) PROVE connWg' <= connWg
  BY <1>6 DEF Connect
<1>7. ASSUME NEW c \in Conns, StartDial(c) PROVE connWg' <= connWg
  BY <1>7 DEF StartDial
<1>8. ASSUME NEW c \in Conns, ConnectReturns(c) PROVE connWg' <= connWg
  BY <1>8 DEF ConnectReturns
<1>9. ASSUME NEW c \in Conns, ConnectAborts(c) PROVE connWg' <= connWg
  BY <1>9 DEF ConnectAborts
<1>10. ASSUME NEW c \in Conns, AbortReturns(c) PROVE connWg' <= connWg
  BY <1>10 DEF AbortReturns
<1>11. ASSUME NEW c \in Conns, FailedTooLate(c) PROVE connWg' <= connWg
  BY <1>11 DEF FailedTooLate
<1>12. ASSUME NEW c \in Conns, ConnectedTooLate(c) PROVE connWg' <= connWg
  BY <1>12 DEF ConnectedTooLate
<1>13. ASSUME NEW c \in Conns, DiscardLink(c) PROVE connWg' <= connWg
  BY <1>13 DEF DiscardLink
<1>14. ASSUME NEW c \in Conns, ConnectFailed(c) PROVE connWg' <= connWg
  BY <1>14 DEF ConnectFailed
<1>15. ASSUME NEW c \in Conns, ForgetFailed(c) PROVE connWg' <= connWg
  BY <1>15 DEF ForgetFailed
<1>16. ASSUME NEW c \in Conns, ConnectSucceeded(c) PROVE connWg' <= connWg
  BY <1>16 DEF ConnectSucceeded
<1>17. ASSUME NEW c \in Conns, OnConnected(c) PROVE connWg' <= connWg
  BY <1>17 DEF OnConnected
<1>18. ASSUME NEW c \in Conns, IgnoreConnected(c) PROVE connWg' <= connWg
  BY <1>18 DEF IgnoreConnected
<1>19. ASSUME NEW c \in Conns, OnConnectionLost(c) PROVE connWg' <= connWg
  BY <1>19 DEF OnConnectionLost
<1>20. ASSUME NEW c \in Conns, IgnoreConnectionLost(c) PROVE connWg' <= connWg
  BY <1>20 DEF IgnoreConnectionLost
<1>21. ASSUME NEW c \in Conns, LookupForOperation(c) PROVE connWg' <= connWg
  BY <1>21 DEF LookupForOperation
<1>22. ASSUME NEW c \in Conns, BeginOperation(c) PROVE connWg' <= connWg
  BY <1>22 DEF BeginOperation
<1>23. ASSUME NEW c \in Conns, ReleaseOpMu(c) PROVE connWg' <= connWg
  BY <1>23 DEF ReleaseOpMu
<1>24. ASSUME NEW c \in Conns, Detach(c) PROVE connWg' <= connWg
  BY <1>24 DEF Detach
<1>25. ASSUME NEW c \in Conns, CancelDetached(c) PROVE connWg' <= connWg
  BY <1>25 DEF CancelDetached
<1>26. ASSUME NEW c \in Conns, CutDetached(c) PROVE connWg' <= connWg
  BY <1>26 DEF CutDetached
<1>27. ASSUME NEW c \in Conns, CloseDetached(c) PROVE connWg' <= connWg
  BY <1>27 DEF CloseDetached
<1>28. ASSUME NEW c \in Conns, CloseOvertaken(c) PROVE connWg' <= connWg
  BY <1>28 DEF CloseOvertaken
<1>29. ASSUME NEW c \in Conns, FinishClosing(c) PROVE connWg' <= connWg
  BY <1>29 DEF FinishClosing
<1>30. ASSUME NEW c \in Conns, DrainCut(c) PROVE connWg' <= connWg
  BY <1>30 DEF DrainCut
<1>31. ASSUME NEW c \in Conns, DrainClose(c) PROVE connWg' <= connWg
  BY <1>31 DEF DrainClose
<1>32. CASE Shutdown
  BY <1>32 DEF Shutdown
<1>33. CASE StopRoot
  BY <1>33 DEF StopRoot
<1>34. CASE ShutdownReturns
  BY <1>34 DEF ShutdownReturns
<1>35. CASE UNCHANGED vars
  BY <1>35 DEF vars
<1>36. QED
  BY <1>1, <1>2, <1>3, <1>4, <1>5, <1>6, <1>7, <1>8, <1>9, <1>10, <1>11, <1>12,
     <1>13, <1>14, <1>15, <1>16, <1>17, <1>18, <1>19, <1>20, <1>21, <1>22, <1>23,
     <1>24, <1>25, <1>26, <1>27, <1>28, <1>29, <1>30, <1>31, <1>32, <1>33, <1>34,
     <1>35
  DEF Next, RunConnect, Disconnecting, Stopped

THEOREM WaitCorrect == Spec => WaitNeverReused
<1>1. Spec => [][closed => connWg' <= connWg]_vars
  BY WaitStep, Invariance, PTL DEF Spec
<1>2. QED
  BY <1>1 DEF WaitNeverReused

----------------------------------------------------------------------------
(* The service implements the event streams it promises.                   *)

Life == [c \in Conns |-> LifeOf(c)]

\* A step that moves no connection to another stage and emits nothing.
LEMMA Unnoticed ==
  ASSUME \A d \in Conns : LifeOf(d)' = LifeOf(d), out' = out, closed' = closed
  PROVE  UNCHANGED Promise!streamVars
BY DEF Promise!streamVars

\* A step that moves one connection from one stage to another.
LEMMA Moved ==
  ASSUME NEW c \in Conns, \A d \in Conns \ {c} : LifeOf(d)' = LifeOf(d)
  PROVE  Promise!Moves(c, LifeOf(c), LifeOf(c)')
BY DEF Promise!Moves

\* What the invariant says of a connection when the service is open or closed.
LEMMA Stage ==
  ASSUME IInv, NEW c \in Conns
  PROVE  /\ state[c] \in {"connecting", "connected"} => ~closed
         /\ c \in conns => ~closed /\ state[c] # "none"
         /\ upCalls[c] > 0 \/ lostCalls[c] > 0 => state[c] # "none"
         /\ runner[c] \in {"error", "ok"} => state[c] # "none"
         /\ disc[c] # "none" => state[c] \in {"disconnecting", "closed"}
         /\ disc[c] # "none" /\ closed => state[c] = "closed"
         /\ drain[c] # "none" => closed /\ state[c] \in {"disconnecting", "closed"}
         /\ state[c] = "disconnecting" => closed \/ c \in closing
         /\ state[c] \in {"none", "connecting", "connected", "disconnecting", "closed"}
         /\ c \in closing => state[c] \in {"disconnecting", "closed"}
BY DEF IInv, TypeOK, Books, Marked, Latch, Terminal, DiscLive

LEMMA StepRefines ==
  ASSUME IInv, [Next]_vars
  PROVE  [Promise!StreamNext]_(Promise!streamVars)
<1> USE DEF serviceVars, connVars, pahoVars, callVars
<1>1. ASSUME NEW c \in Conns, DialSucceeds(c) PROVE [Promise!StreamNext]_(Promise!streamVars)
  <2>1. state' = state /\ out' = out /\ closed' = closed
    BY <1>1 DEF DialSucceeds, LinkUp
  <2>2. QED
    BY <2>1, Unnoticed DEF LifeOf
<1>2. ASSUME NEW c \in Conns, DialFails(c) PROVE [Promise!StreamNext]_(Promise!streamVars)
  <2>1. state' = state /\ out' = out /\ closed' = closed
    BY <1>2 DEF DialFails
  <2>2. QED
    BY <2>1, Unnoticed DEF LifeOf
<1>3. ASSUME NEW c \in Conns, PahoCleanup(c) PROVE [Promise!StreamNext]_(Promise!streamVars)
  <2>1. state' = state /\ out' = out /\ closed' = closed
    BY <1>3 DEF PahoCleanup
  <2>2. QED
    BY <2>1, Unnoticed DEF LifeOf
<1>4. ASSUME NEW c \in Conns, LinkLost(c) PROVE [Promise!StreamNext]_(Promise!streamVars)
  <2>1. state' = state /\ out' = out /\ closed' = closed
    BY <1>4 DEF LinkLost
  <2>2. QED
    BY <2>1, Unnoticed DEF LifeOf
<1>5. ASSUME NEW c \in Conns, Reconnect(c) PROVE [Promise!StreamNext]_(Promise!streamVars)
  <2>1. state' = state /\ out' = out /\ closed' = closed
    BY <1>5 DEF Reconnect, LinkUp
  <2>2. QED
    BY <2>1, Unnoticed DEF LifeOf
<1>6. ASSUME NEW c \in Conns, Connect(c) PROVE [Promise!StreamNext]_(Promise!streamVars)
  <2>1. LifeOf(c) = "new" /\ LifeOf(c)' = "open"
       /\ \A d \in Conns \ {c} : LifeOf(d)' = LifeOf(d)
    BY <1>6 DEF Connect, LifeOf, IInv, TypeOK
  <2>2. Promise!Open(c)
    BY <1>6, <2>1, Moved DEF Connect, Promise!Open
  <2>3. QED
    BY <2>2 DEF Promise!StreamNext
<1>7. ASSUME NEW c \in Conns, StartDial(c) PROVE [Promise!StreamNext]_(Promise!streamVars)
  <2>1. state' = state /\ out' = out /\ closed' = closed
    BY <1>7 DEF StartDial, Runner
  <2>2. QED
    BY <2>1, Unnoticed DEF LifeOf
<1>8. ASSUME NEW c \in Conns, ConnectReturns(c) PROVE [Promise!StreamNext]_(Promise!streamVars)
  <2>1. state' = state /\ out' = out /\ closed' = closed
    BY <1>8 DEF ConnectReturns, Runner
  <2>2. QED
    BY <2>1, Unnoticed DEF LifeOf
<1>9. ASSUME NEW c \in Conns, ConnectAborts(c) PROVE [Promise!StreamNext]_(Promise!streamVars)
  <2>1. state' = state /\ out' = out /\ closed' = closed
    BY <1>9 DEF ConnectAborts, Runner
  <2>2. QED
    BY <2>1, Unnoticed DEF LifeOf
<1>10. ASSUME NEW c \in Conns, AbortReturns(c) PROVE [Promise!StreamNext]_(Promise!streamVars)
  <2>1. state' = state /\ out' = out /\ closed' = closed
    BY <1>10 DEF AbortReturns, Runner
  <2>2. QED
    BY <2>1, Unnoticed DEF LifeOf
<1>11. ASSUME NEW c \in Conns, FailedTooLate(c) PROVE [Promise!StreamNext]_(Promise!streamVars)
  <2>1. state' = state /\ out' = out /\ closed' = closed
    BY <1>11 DEF FailedTooLate, Runner, RunConnectReturns
  <2>2. QED
    BY <2>1, Unnoticed DEF LifeOf
<1>12. ASSUME NEW c \in Conns, ConnectedTooLate(c) PROVE [Promise!StreamNext]_(Promise!streamVars)
  <2>1. state' = state /\ out' = out /\ closed' = closed
    BY <1>12 DEF ConnectedTooLate, Runner
  <2>2. QED
    BY <2>1, Unnoticed DEF LifeOf
<1>13. ASSUME NEW c \in Conns, DiscardLink(c) PROVE [Promise!StreamNext]_(Promise!streamVars)
  <2>1. state' = state /\ out' = out /\ closed' = closed
    BY <1>13 DEF DiscardLink, Runner, RunConnectReturns
  <2>2. QED
    BY <2>1, Unnoticed DEF LifeOf
<1>14. ASSUME NEW c \in Conns, ConnectFailed(c) PROVE [Promise!StreamNext]_(Promise!streamVars)
  <2>1. state[c] \in {"connecting", "connected"} /\ ~closed
    BY <1>14, Stage DEF ConnectFailed, Terminal, Runner
  <2>2. LifeOf(c) = "open" /\ LifeOf(c)' = "over"
       /\ \A d \in Conns \ {c} : LifeOf(d)' = LifeOf(d)
    BY <1>14, <2>1 DEF ConnectFailed, LifeOf, IInv, TypeOK
  <2>3. Promise!Fail(c)
    BY <1>14, <2>1, <2>2, Moved DEF ConnectFailed, Emit, Promise!Emitted, Promise!Fail
  <2>4. QED
    BY <2>3 DEF Promise!StreamNext
<1>15. ASSUME NEW c \in Conns, ForgetFailed(c) PROVE [Promise!StreamNext]_(Promise!streamVars)
  <2>1. state' = state /\ out' = out /\ closed' = closed
    BY <1>15 DEF ForgetFailed, Runner, RunConnectReturns
  <2>2. QED
    BY <2>1, Unnoticed DEF LifeOf
<1>16. ASSUME NEW c \in Conns, ConnectSucceeded(c) PROVE [Promise!StreamNext]_(Promise!streamVars)
  <2>1. state[c] \in {"connecting", "connected"}
    BY <1>16, Stage DEF ConnectSucceeded, Terminal, Runner
  <2>2. \A d \in Conns : LifeOf(d)' = LifeOf(d)
    BY <1>16, <2>1 DEF ConnectSucceeded, LifeOf, IInv, TypeOK
  <2>3. QED
    BY <1>16, <2>2, Unnoticed DEF ConnectSucceeded
<1>17. ASSUME NEW c \in Conns, OnConnected(c) PROVE [Promise!StreamNext]_(Promise!streamVars)
  <2>1. state[c] \in {"connecting", "connected"} /\ ~closed
    BY <1>17, Stage DEF OnConnected, Terminal
  <2>2. LifeOf(c) = "open" /\ \A d \in Conns : LifeOf(d)' = LifeOf(d)
    BY <1>17, <2>1 DEF OnConnected, LifeOf, IInv, TypeOK
  <2>3. Promise!LinkEvent(c)
    <3>1. Promise!Emitted(c, "connected")
      BY <1>17 DEF OnConnected, Emit, Promise!Emitted
    <3>2. QED
      BY <1>17, <2>1, <2>2, <3>1 DEF OnConnected, Promise!LinkEvent
  <2>4. QED
    BY <2>3 DEF Promise!StreamNext
<1>18. ASSUME NEW c \in Conns, IgnoreConnected(c) PROVE [Promise!StreamNext]_(Promise!streamVars)
  <2>1. state' = state /\ out' = out /\ closed' = closed
    BY <1>18 DEF IgnoreConnected
  <2>2. QED
    BY <2>1, Unnoticed DEF LifeOf
<1>19. ASSUME NEW c \in Conns, OnConnectionLost(c) PROVE [Promise!StreamNext]_(Promise!streamVars)
  <2>1. state[c] \in {"connecting", "connected"} /\ ~closed
    BY <1>19, Stage DEF OnConnectionLost, Terminal
  <2>2. LifeOf(c) = "open" /\ \A d \in Conns : LifeOf(d)' = LifeOf(d)
    BY <1>19, <2>1 DEF OnConnectionLost, LifeOf, IInv, TypeOK
  <2>3. Promise!LinkEvent(c)
    <3>1. Promise!Emitted(c, "connection-lost")
      BY <1>19 DEF OnConnectionLost, Emit, Promise!Emitted
    <3>2. QED
      BY <1>19, <2>1, <2>2, <3>1 DEF OnConnectionLost, Promise!LinkEvent
  <2>4. QED
    BY <2>3 DEF Promise!StreamNext
<1>20. ASSUME NEW c \in Conns, IgnoreConnectionLost(c) PROVE [Promise!StreamNext]_(Promise!streamVars)
  <2>1. state' = state /\ out' = out /\ closed' = closed
    BY <1>20 DEF IgnoreConnectionLost
  <2>2. QED
    BY <2>1, Unnoticed DEF LifeOf
<1>21. ASSUME NEW c \in Conns, LookupForOperation(c) PROVE [Promise!StreamNext]_(Promise!streamVars)
  <2>1. state' = state /\ out' = out /\ closed' = closed
    BY <1>21 DEF LookupForOperation
  <2>2. QED
    BY <2>1, Unnoticed DEF LifeOf
<1>22. ASSUME NEW c \in Conns, BeginOperation(c) PROVE [Promise!StreamNext]_(Promise!streamVars)
  <2>1. state' = state /\ out' = out /\ closed' = closed
    BY <1>22 DEF BeginOperation
  <2>2. QED
    BY <2>1, Unnoticed DEF LifeOf
<1>23. ASSUME NEW c \in Conns, ReleaseOpMu(c) PROVE [Promise!StreamNext]_(Promise!streamVars)
  <2>1. state' = state /\ out' = out /\ closed' = closed
    BY <1>23 DEF ReleaseOpMu
  <2>2. QED
    BY <2>1, Unnoticed DEF LifeOf
<1>24. ASSUME NEW c \in Conns, Detach(c) PROVE [Promise!StreamNext]_(Promise!streamVars)
  <2>1. state[c] \in {"connecting", "connected"} /\ ~closed
    BY <1>24, Stage DEF Detach, Terminal
  <2>2. LifeOf(c) = "open" /\ LifeOf(c)' = "ending"
       /\ \A d \in Conns \ {c} : LifeOf(d)' = LifeOf(d)
    BY <1>24, <2>1 DEF Detach, LifeOf, IInv, TypeOK
  <2>3. Promise!AskToEnd(c)
    BY <1>24, <2>1, <2>2, Moved DEF Detach, Promise!AskToEnd
  <2>4. QED
    BY <2>3 DEF Promise!StreamNext
<1>25. ASSUME NEW c \in Conns, CancelDetached(c) PROVE [Promise!StreamNext]_(Promise!streamVars)
  <2>1. state' = state /\ out' = out /\ closed' = closed
    BY <1>25 DEF CancelDetached
  <2>2. QED
    BY <2>1, Unnoticed DEF LifeOf
<1>26. ASSUME NEW c \in Conns, CutDetached(c) PROVE [Promise!StreamNext]_(Promise!streamVars)
  <2>1. state' = state /\ out' = out /\ closed' = closed
    BY <1>26 DEF CutDetached
  <2>2. QED
    BY <2>1, Unnoticed DEF LifeOf
<1>27. ASSUME NEW c \in Conns, CloseDetached(c) PROVE [Promise!StreamNext]_(Promise!streamVars)
  <2>1. state[c] = "disconnecting" /\ ~closed
    BY <1>27, Stage DEF CloseDetached
  <2>2. LifeOf(c) = "ending" /\ LifeOf(c)' = "over"
       /\ \A d \in Conns \ {c} : LifeOf(d)' = LifeOf(d)
    BY <1>27, <2>1 DEF CloseDetached, LifeOf, IInv, TypeOK
  <2>3. Promise!End(c)
    BY <1>27, <2>1, <2>2, Moved DEF CloseDetached, Emit, Promise!Emitted, Promise!End
  <2>4. QED
    BY <2>3 DEF Promise!StreamNext
<1>28. ASSUME NEW c \in Conns, CloseOvertaken(c) PROVE [Promise!StreamNext]_(Promise!streamVars)
  <2>1. state' = state /\ out' = out /\ closed' = closed
    BY <1>28 DEF CloseOvertaken
  <2>2. QED
    BY <2>1, Unnoticed DEF LifeOf
<1>29. ASSUME NEW c \in Conns, FinishClosing(c) PROVE [Promise!StreamNext]_(Promise!streamVars)
  <2>1. state' = state /\ out' = out /\ closed' = closed
    BY <1>29 DEF FinishClosing
  <2>2. QED
    BY <2>1, Unnoticed DEF LifeOf
<1>30. ASSUME NEW c \in Conns, DrainCut(c) PROVE [Promise!StreamNext]_(Promise!streamVars)
  <2>1. state' = state /\ out' = out /\ closed' = closed
    BY <1>30 DEF DrainCut
  <2>2. QED
    BY <2>1, Unnoticed DEF LifeOf
<1>31. ASSUME NEW c \in Conns, DrainClose(c) PROVE [Promise!StreamNext]_(Promise!streamVars)
  <2>1. state[c] \in {"disconnecting", "closed"} /\ closed
    BY <1>31, Stage DEF DrainClose
  <2>2. LifeOf(c)' = "over" /\ \A d \in Conns \ {c} : LifeOf(d)' = LifeOf(d)
    BY <1>31 DEF DrainClose, LifeOf, IInv, TypeOK
  <2>3. CASE LifeOf(c) = "ending"
    <3>1. Promise!EndSilently(c)
      BY <1>31, <2>1, <2>2, <2>3, Moved DEF DrainClose, Promise!EndSilently
    <3>2. QED
      BY <3>1 DEF Promise!StreamNext
  <2>4. CASE LifeOf(c) = "over"
    BY <1>31, <2>2, <2>4, Unnoticed DEF DrainClose
  <2>5. QED
    BY <2>1, <2>3, <2>4 DEF LifeOf
<1>32. CASE Shutdown
  <2>1. Life' = [c \in Conns |->
                  CASE Life[c] = "open" -> "ending"
                    [] Life[c] = "ending" -> "over"
                    [] OTHER -> Life[c]]
    <3>1. ASSUME NEW c \in Conns
          PROVE  LifeOf(c)' = CASE LifeOf(c) = "open" -> "ending"
                                [] LifeOf(c) = "ending" -> "over"
                                [] OTHER -> LifeOf(c)
      <4>1. CASE state[c] = "none"
        BY <1>32, <4>1, Stage DEF Shutdown, LifeOf
      <4>2. CASE state[c] \in {"connecting", "connected"}
        <5>1. c \in conns /\ c \notin closing
          BY <4>2, Stage DEF IInv, Books
        <5>2. state'[c] = "disconnecting"
          BY <1>32, <4>2, <5>1 DEF Shutdown, Terminal
        <5>3. QED
          BY <4>2, <5>2 DEF LifeOf
      <4>3. CASE state[c] = "disconnecting"
        <5>1. c \in closing
          BY <1>32, <4>3, Stage DEF Shutdown
        <5>2. state'[c] = "closed"
          BY <1>32, <4>3, <5>1 DEF Shutdown, Terminal
        <5>3. QED
          BY <4>3, <5>2 DEF LifeOf
      <4>4. CASE state[c] = "closed"
        <5>1. state'[c] = "closed"
          BY <1>32, <4>4 DEF Shutdown, Terminal
        <5>2. QED
          BY <4>4, <5>1 DEF LifeOf
      <4>5. QED
        BY <4>1, <4>2, <4>3, <4>4, Stage
    <3>2. QED
      BY <3>1 DEF Life
  <2>2. Promise!Silence
    BY <1>32, <2>1 DEF Shutdown, Promise!Silence, Life
  <2>3. QED
    BY <2>2 DEF Promise!StreamNext
<1>33. CASE StopRoot
  BY <1>33, Unnoticed DEF StopRoot, LifeOf
<1>34. CASE ShutdownReturns
  BY <1>34, Unnoticed DEF ShutdownReturns, LifeOf
<1>35. CASE UNCHANGED vars
  BY <1>35, Unnoticed DEF vars, LifeOf
<1>36. QED
  BY <1>1, <1>2, <1>3, <1>4, <1>5, <1>6, <1>7, <1>8, <1>9, <1>10, <1>11, <1>12,
     <1>13, <1>14, <1>15, <1>16, <1>17, <1>18, <1>19, <1>20, <1>21, <1>22, <1>23,
     <1>24, <1>25, <1>26, <1>27, <1>28, <1>29, <1>30, <1>31, <1>32, <1>33, <1>34,
     <1>35
  DEF Next, RunConnect, Disconnecting, Stopped

\* For every set of connections: the events of each connection follow the
\* stream of MqttEventStream, and shutting down silences them all.
THEOREM Implements == Spec => KeepsPromise
<1>1. Init => Promise!StreamInit
  BY DEF Init, Promise!StreamInit, LifeOf
<1>2. IInv /\ [Next]_vars => [Promise!StreamNext]_(Promise!streamVars)
  BY StepRefines
<1>3. QED
  BY <1>1, <1>2, Invariance, PTL DEF Spec, KeepsPromise, Promise!StreamSpec
=============================================================================
