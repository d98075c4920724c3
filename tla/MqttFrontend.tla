---------------------------- MODULE MqttFrontend ----------------------------
(***************************************************************************)
(* The MQTT panel: the tabs of the connections (mqtt-provider.tsx builds   *)
(* them first), and in each tab the rows of its subscriptions, the scan    *)
(* and the messages.  They share the tab's record, but each reads and      *)
(* writes its own fields only, so that the steps of one part are checked   *)
(* while the others rest.                                                  *)
(***************************************************************************)
EXTENDS MqttTabs, MqttRows, MqttScanPanel, MqttMessages

VARIABLE part   \* bound: the part that takes the steps; the others stay as they are

frontVars == <<vars, rowVars, scanPanelVars, messageVars, part>>

\* a bound: a part that rests is in one of its initial states
Resting ==
    /\ part # "tabs" => /\ stored = [p \in Profiles |-> "never"] /\ last = None
                        /\ life = [c \in Conns |-> "none"]
    /\ part # "rows" => rows = <<>>
    /\ part # "scan" => scan = "none"
    /\ part # "messages" => /\ inFront = CHOOSE c \in OpenTabs : TRUE
                            /\ subscribed = [c \in OpenTabs |-> {}]

FrontInit ==
    /\ Init /\ RowsInit /\ ScanPanelInit /\ MessagesInit
    /\ part \in {"tabs", "rows", "scan", "messages"}
    /\ Resting

\* a bound: of the loads that fail, those that leave a live connection unseen;
\* nothing reads last afterwards, so one value is enough
Failures == restore' = "failed" => last = None /\ \E c \in Conns : Live(c)

FrontNext ==
    /\ part' = part
    /\ \/ part = "tabs" /\ Next /\ Failures /\ UNCHANGED <<rowVars, scanPanelVars, messageVars>>
       \/ part = "rows" /\ RowsNext /\ UNCHANGED <<vars, scanPanelVars, messageVars>>
       \/ part = "scan" /\ ScanPanelNext /\ UNCHANGED <<vars, rowVars, messageVars>>
       \/ part = "messages" /\ MessagesNext /\ UNCHANGED <<vars, rowVars, scanPanelVars>>
FrontSpec == FrontInit /\ [][FrontNext]_frontVars
=============================================================================
