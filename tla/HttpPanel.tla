----------------------------- MODULE HttpPanel -----------------------------
(***************************************************************************)
(* The HTTP panel: the editor with its tree of collections, and the        *)
(* response below it (http-provider.tsx builds both from one request       *)
(* state).  Opening another request takes the response away; HttpResponses *)
(* has that as a step of its own, so that either part is checked while     *)
(* the other rests.                                                        *)
(***************************************************************************)
EXTENDS RequestEditor, HttpResponses

VARIABLE part   \* bound: the part that takes the steps; the other stays as it is

panelVars == <<vars, responseVars, part>>

PanelInit == Init /\ ResponsesInit /\ part \in {"editor", "response"}

PanelNext ==
    /\ part' = part
    /\ \/ part = "editor" /\ Next /\ UNCHANGED responseVars
       \* the tree is loaded first, and is
       \/ part = "response" /\ TaskGoesOn /\ UNCHANGED <<faults, responseVars>>
       \/ part = "response" /\ queue = <<>> /\ ResponsesNext /\ UNCHANGED vars

PanelSpec == PanelInit /\ [][PanelNext]_panelVars
=============================================================================
