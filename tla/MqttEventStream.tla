-------------------------- MODULE MqttEventStream --------------------------
(***************************************************************************)
(* What the MQTT service promises its event listeners (the frontend), for  *)
(* every connection it hands out: a stream of lifecycle events that begins *)
(* when the connection is opened, carries "connected" and "connection-lost"*)
(* only while nobody has asked for its end, ends with at most one of       *)
(* "connection-failed" and "disconnected", and falls silent for good once  *)
(* the service is shut down.                                               *)
(*                                                                         *)
(* MqttService is the detailed specification that implements this one.     *)
(***************************************************************************)
EXTENDS Sequences

CONSTANT Conns              \* connection IDs (uuid.NewString)

VARIABLES
    life,                   \* life[c]: how far the connection's stream has come
    out,                    \* out[c]: the lifecycle events emitted for c so far
    silent                  \* TRUE once the service is shut down

streamVars == <<life, out, silent>>

Events == {"connected", "connection-lost", "connection-failed", "disconnected"}

StreamInit ==
    /\ life = [c \in Conns |-> "new"]
    /\ out = [c \in Conns |-> <<>>]
    /\ silent = FALSE

Emitted(c, e) == out' = [out EXCEPT ![c] = Append(@, e)]
Moves(c, from, to) ==
    /\ life[c] = from
    /\ life' = [life EXCEPT ![c] = to]

Open(c) ==
    /\ ~silent
    /\ Moves(c, "new", "open")
    /\ UNCHANGED <<out, silent>>

\* The link comes and goes while the connection is open.
LinkEvent(c) ==
    /\ ~silent
    /\ life[c] = "open"
    /\ \E e \in {"connected", "connection-lost"} : Emitted(c, e)
    /\ UNCHANGED <<life, silent>>

Fail(c) ==
    /\ ~silent
    /\ Moves(c, "open", "over")
    /\ Emitted(c, "connection-failed")
    /\ UNCHANGED silent

AskToEnd(c) ==
    /\ ~silent
    /\ Moves(c, "open", "ending")
    /\ UNCHANGED <<out, silent>>

End(c) ==
    /\ ~silent
    /\ Moves(c, "ending", "over")
    /\ Emitted(c, "disconnected")
    /\ UNCHANGED silent

\* Shutting down asks every open connection to end, and lets those that were
\* ending already end without a word.
Silence ==
    /\ ~silent
    /\ silent' = TRUE
    /\ life' = [c \in Conns |->
                  CASE life[c] = "open" -> "ending"
                    [] life[c] = "ending" -> "over"
                    [] OTHER -> life[c]]
    /\ UNCHANGED out

EndSilently(c) ==
    /\ silent
    /\ Moves(c, "ending", "over")
    /\ UNCHANGED <<out, silent>>

StreamNext ==
    \/ \E c \in Conns :
          \/ Open(c)
          \/ LinkEvent(c)
          \/ Fail(c)
          \/ AskToEnd(c)
          \/ End(c)
          \/ EndSilently(c)
    \/ Silence

StreamSpec == StreamInit /\ [][StreamNext]_streamVars
=============================================================================
