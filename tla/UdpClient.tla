------------------------------ MODULE UdpClient ------------------------------
(***************************************************************************)
(* The UDP client: a target is selected before packets can be sent or      *)
(* listened to (index.tsx), and loading the page again resets all that the *)
(* frontend holds while the backend goes on (udp-provider.tsx).            *)
(***************************************************************************)
EXTENDS UdpListener, UdpSend, UdpTargets

CONSTANT MaxSteps   \* bound: steps of the user
ASSUME StepsAssumption == MaxSteps \in Nat

VARIABLES
    steps,   \* steps the user has taken
    part,    \* bound: the part in which the user takes them
    down     \* the program is ending

vars == <<listenVars, sendVars, targetVars, steps, part, down>>

Init ==
    /\ ListenInit /\ SendInit /\ TargetsInit
    /\ steps = 0 /\ part \in {"listen", "send", "targets"} /\ down = FALSE

\* the forms are on the screen
Shown == selected # None /\ dialog = None

Reload ==
    /\ ListenReload /\ SendReload /\ TargetsReload
    /\ MayCall /\ MayAsk   \* a bound
    /\ UNCHANGED down

User ==
    \/ /\ part = "listen" /\ Shown /\ ListenUser
       /\ UNCHANGED <<sendVars, targetVars, down>>
    \/ /\ part = "send" /\ Shown /\ SendUser
       /\ UNCHANGED <<listenVars, targetVars, down>>
    \/ /\ part = "targets" /\ TargetsUser
       /\ UNCHANGED <<listenVars, sendVars, down>>
    \/ Reload

\* the target, the encoding and the byte order are chosen as often as one
\* likes; the other steps are counted
Look ==
    \/ \E id \in Targets : LoadTarget(id) /\ UNCHANGED <<listenVars, sendVars, down>>
    \/ /\ part = "send" /\ Shown
       /\ (\E e \in Encodings : SetEncoding(e)) \/ (\E e \in Endiannesses : SetEndianness(e))
       /\ UNCHANGED <<listenVars, targetVars, down>>

\* App.shutdown: the window is closed
Shutdown ==
    /\ ~down /\ down' = TRUE
    /\ StopAll
    /\ UNCHANGED <<sendVars, targetVars, steps, part>>

System ==
    \/ ListenSystem /\ UNCHANGED <<sendVars, targetVars, steps, part, down>>
    \/ Deliver /\ UNCHANGED <<listenVars, targetVars, steps, part, down>>
    \/ TargetsSystem /\ UNCHANGED <<listenVars, sendVars, steps, part, down>>

Next ==
    \/ ~down /\ steps < MaxSteps /\ steps' = steps + 1 /\ User /\ UNCHANGED part
    \/ ~down /\ UNCHANGED <<steps, part>> /\ Look
    \/ System
    \/ Shutdown

Spec == Init /\ [][Next]_vars
=============================================================================
