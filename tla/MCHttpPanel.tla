---------------------------- MODULE MCHttpPanel ----------------------------
(***************************************************************************)
(* HttpPanel for TLC: at the start one request lies in the collection and  *)
(* the other at the root; an editor that rests has loaded them.  What was  *)
(* open when the application was closed is nothing, or the first request,  *)
(* at its place or at one it has left.                                     *)
(***************************************************************************)
EXTENDS HttpPanel

CONSTANTS r1, c1

MCInit ==
    /\ PanelInit
    /\ place = [r \in Requests |-> IF r = r1 THEN c1 ELSE Root]
    /\ remembered \in {None} \cup [req : {r1}, place : Places]
    /\ part # "editor" => remembered = None

\* calls are answered (the backend's commits and reads return)
MCSpec == MCInit /\ [][PanelNext]_panelVars /\ WF_vars(TaskGoesOn)
=============================================================================
