--------------------------- MODULE HttpResponses ---------------------------
(***************************************************************************)
(* The response the HTTP editor shows (application/http/request.ts,        *)
(* presentation/components/http/request-bar.tsx, response-viewer.tsx), and *)
(* the file the backend keeps of one that was cut off (ResponseStore, here *)
(* as its callers see it).                                                 *)
(*                                                                         *)
(* The user may open another request, send again, save and discard while   *)
(* answers and files are on their way.                                     *)
(***************************************************************************)
EXTENDS Integers, Sequences, FiniteSets, SequencesExt

CONSTANTS
    MaxSends,     \* bound: requests the user sends
    MaxView,      \* bound: times the user opens another request
    MaxExports,   \* bound: saves in progress at a time
    NoResponse    \* no response

Sends == 1 .. MaxSends
Refusal == 0            \* the response that says that a file is not confirmed

ASSUME BoundsNat == MaxSends \in Nat /\ MaxView \in Nat /\ MaxExports \in Nat \ {0}
ASSUME NoneIsNoSend == NoResponse \notin Sends \cup {Refusal}

VARIABLES
    \* the backend
    exec,       \* exec[x]: "none", "running", "answered", "over"
    answer,     \* answer[x]: "error", "text", "binary", "cut"
    file,       \* file[x] of a cut answer: "none", "ready", "saving", "gone"
    \* the frontend
    view,       \* which request is open
    sentView,   \* sentView[x]: which one was open when x was sent
    inFlight,   \* executions that are not settled
    current,    \* the execution whose response is shown
    saveState,  \* responseSaveState
    exports,    \* calls of saveResponseBody: the response and how far the call is
    discards,   \* discards on their way
    choice,     \* truncatedBodyShownFor
    unconfirmed,\* hasUnconfirmedFile of the body
    \* history
    exported,   \* responses whose whole body was saved
    chosen,     \* cut responses whose body the user asked to see
    kept        \* files left to the limits of the store: a discard failed or met a save

answerVars == <<exec, answer, file>>
shownVars == <<current, saveState, discards, choice>>
responseHistory == <<exported, chosen, kept>>
responseVars == <<answerVars, view, sentView, inFlight, shownVars, exports, unconfirmed, responseHistory>>

Cut(x) == x \in Sends /\ answer[x] = "cut"
-----------------------------------------------------------------------------
(* Showing a response.                                                     *)

\* replaceResponse: the file of a cut response that is still to be saved goes
Replace(next, more) ==
    /\ current' = next
    /\ saveState' = "idle"
    /\ discards' = IF Cut(current) /\ current # next /\ saveState = "idle"
                   THEN discards \cup more \cup {current} ELSE discards \cup more
    /\ UNCHANGED choice

\* loadRequest of another request, resetEditor
OpenOther ==
    /\ view < MaxView
    /\ view' = view + 1
    /\ Replace(NoResponse, {})
    /\ unconfirmed' \in BOOLEAN
    /\ UNCHANGED <<answerVars, sentView, inFlight, exports, responseHistory>>

\* FileReferenceInput: a path that is typed confirms nothing, a dialog does
EditFile ==
    /\ unconfirmed' = ~unconfirmed
    /\ UNCHANGED <<answerVars, view, sentView, inFlight, shownVars, exports, responseHistory>>

\* The button and the Enter key send under the same condition.
CanSend == inFlight = {}

SendRefused ==
    /\ CanSend /\ unconfirmed
    /\ Replace(Refusal, {})
    /\ UNCHANGED <<answerVars, view, sentView, inFlight, exports, unconfirmed, responseHistory>>

Send(x) ==
    /\ CanSend /\ ~unconfirmed
    /\ exec[x] = "none" /\ \A y \in 1 .. x - 1 : exec[y] # "none"
    /\ exec' = [exec EXCEPT ![x] = "running"]
    /\ sentView' = [sentView EXCEPT ![x] = view]
    /\ inFlight' = inFlight \cup {x}
    /\ Replace(NoResponse, {})
    /\ UNCHANGED <<answer, file, view, exports, unconfirmed, responseHistory>>

\* NetClient.Do ends; Cancel makes it end with an error
Respond(x, what) ==
    /\ exec[x] = "running"
    /\ exec' = [exec EXCEPT ![x] = "answered"]
    /\ answer' = [answer EXCEPT ![x] = what]
    /\ file' = [file EXCEPT ![x] = IF what = "cut" THEN "ready" ELSE "none"]
    /\ UNCHANGED <<view, sentView, inFlight, shownVars, exports, unconfirmed, responseHistory>>

ShowAlways(x) == Replace(x, {})
DropSilently(x) ==
    IF sentView[x] = view THEN Replace(x, {}) ELSE UNCHANGED shownVars

\* showResponse
Show(x) ==
    IF sentView[x] = view THEN Replace(x, {})
    ELSE /\ discards' = IF Cut(x) THEN discards \cup {x} ELSE discards
         /\ UNCHANGED <<current, saveState, choice>>

Settle(x) ==
    /\ exec[x] = "answered"
    /\ exec' = [exec EXCEPT ![x] = "over"]
    /\ inFlight' = inFlight \ {x}
    /\ Show(x)
    /\ UNCHANGED <<answer, file, view, sentView, exports, unconfirmed, responseHistory>>
-----------------------------------------------------------------------------
(* The viewer.                                                             *)

BodyShown == choice = current

OffersBody == Cut(current) /\ ~BodyShown
OffersSave ==
    \/ Cut(current) /\ ~BodyShown /\ saveState = "idle"
    \/ current \in Sends /\ answer[current] = "binary"

ShowBody ==
    /\ OffersBody
    /\ choice' = current
    /\ chosen' = chosen \cup {current}
    /\ UNCHANGED <<answerVars, view, sentView, inFlight, current, saveState, discards,
                   exports, unconfirmed, exported, kept>>

\* The panel is closed and opened again: the viewer forgets the choice.
ToggleViewer ==
    /\ choice # NoResponse
    /\ choice' = NoResponse
    /\ chosen' = chosen \ {choice}
    /\ UNCHANGED <<answerVars, view, sentView, inFlight, current, saveState, discards,
                   exports, unconfirmed, exported, kept>>

\* saveResponseBody; a binary body is saved from memory
ClickSave ==
    /\ OffersSave /\ Len(exports) < MaxExports
    /\ exports' = Append(exports, [of |-> current, at |-> IF Cut(current) THEN "asked" ELSE "memory"])
    /\ UNCHANGED <<answerVars, view, sentView, inFlight, shownVars, unconfirmed, responseHistory>>

At(i, from, to) == exports[i].at = from /\ exports' = [exports EXCEPT ![i].at = to]
ForgetFile(i) == exports' = RemoveAt(exports, i)

SaveFromMemory(i) ==
    /\ exports[i].at = "memory"
    /\ ForgetFile(i)
    /\ UNCHANGED <<answerVars, view, sentView, inFlight, shownVars, unconfirmed, responseHistory>>

\* HTTPHandler.SaveResponseBody: the lease comes before the dialog
Acquire(i) ==
    LET x == exports[i].of IN
    /\ \/ At(i, "asked", "dialog") /\ file[x] = "ready" /\ file' = [file EXCEPT ![x] = "saving"]
       \/ At(i, "asked", "unavailable") /\ file[x] = "gone" /\ UNCHANGED file
       \/ At(i, "asked", "failed") /\ file[x] = "saving" /\ UNCHANGED file
    /\ UNCHANGED <<exec, answer, view, sentView, inFlight, shownVars, unconfirmed, responseHistory>>

Copy(i) ==
    LET x == exports[i].of IN
    /\ At(i, "dialog", "saved")
    /\ file' = [file EXCEPT ![x] = "gone"]
    /\ exported' = exported \cup {x}
    /\ UNCHANGED <<exec, answer, view, sentView, inFlight, shownVars, unconfirmed, chosen, kept>>

NotCopied(i, how) ==
    /\ At(i, "dialog", how)
    /\ file' = [file EXCEPT ![exports[i].of] = "ready"]
    /\ UNCHANGED <<exec, answer, view, sentView, inFlight, shownVars, unconfirmed, responseHistory>>

\* the answer of saveResponseBody
NewState(at) == CASE at = "saved" -> "saved" [] at = "unavailable" -> "unavailable" [] OTHER -> saveState
SaveEnds(i) ==
    /\ exports[i].at \in {"saved", "unavailable", "failed", "cancelled"}
    /\ ForgetFile(i)
    /\ saveState' = IF exports[i].of = current THEN NewState(exports[i].at) ELSE saveState
    /\ UNCHANGED <<answerVars, view, sentView, inFlight, current, discards, choice, unconfirmed, responseHistory>>

\* ResponseStore.Discard: what is being saved stays, and so does what can not
\* be removed; the frontend does not ask again
DiscardArrives(x) ==
    /\ x \in discards
    /\ discards' = discards \ {x}
    /\ \/ /\ file[x] = "ready"
          /\ file' = [file EXCEPT ![x] = "gone"] /\ UNCHANGED kept
       \/ file[x] \in {"ready", "saving"} /\ kept' = kept \cup {x} /\ UNCHANGED file
       \/ file[x] = "gone" /\ UNCHANGED <<file, kept>>
    /\ UNCHANGED <<exec, answer, view, sentView, inFlight, current, saveState, exports, choice,
                   unconfirmed, exported, chosen>>

\* the limits or the TTL of the store
Reclaim(x) ==
    /\ file[x] = "ready"
    /\ file' = [file EXCEPT ![x] = "gone"]
    /\ UNCHANGED <<exec, answer, view, sentView, inFlight, shownVars, exports, unconfirmed, responseHistory>>
-----------------------------------------------------------------------------
ResponsesInit ==
    /\ exec = [x \in Sends |-> "none"] /\ answer = [x \in Sends |-> "error"]
    /\ file = [x \in Sends |-> "none"]
    /\ view = 0 /\ sentView = [x \in Sends |-> 0]
    /\ inFlight = {} /\ current = NoResponse /\ saveState = "idle"
    /\ exports = <<>> /\ discards = {} /\ choice = NoResponse /\ unconfirmed = FALSE
    /\ exported = {} /\ chosen = {} /\ kept = {}

ResponseUser ==
    \/ OpenOther \/ EditFile \/ SendRefused \/ ShowBody \/ ToggleViewer \/ ClickSave
    \/ \E x \in Sends : Send(x)
Execution(x) ==
    \/ \E what \in {"error", "text", "binary", "cut"} : Respond(x, what)
    \/ Settle(x) \/ DiscardArrives(x) \/ Reclaim(x)
ExportGoesOn(i) ==
    \/ SaveFromMemory(i) \/ Acquire(i) \/ Copy(i) \/ SaveEnds(i)
    \/ \E how \in {"cancelled", "failed"} : NotCopied(i, how)

ResponsesNext ==
    \/ ResponseUser
    \/ \E x \in Sends : Execution(x)
    \/ \E i \in DOMAIN exports : ExportGoesOn(i)

-----------------------------------------------------------------------------
(* Properties.                                                             *)

\* The response shown was sent from the request that is open, however late it
\* came (request.ts:202-209); what the viewer says of the whole body is true of
\* it, not of one that was shown when the save began (293-297); and a cut
\* response can be saved as long as its body was not asked for, also after the
\* body of an earlier one was (response-viewer.tsx:43-50).
ViewerTrue ==
    /\ current \in Sends => sentView[current] = view
    /\ saveState = "saved" => current \in exported
    /\ saveState = "unavailable" => Cut(current) /\ file[current] = "gone"
    /\ Cut(current) /\ current \notin chosen /\ saveState = "idle" => OffersSave

\* A file that is neither shown nor on its way is discarded; only what could
\* not be is left to the limits of the store (request.ts:177-192).
FilesFollowed ==
    \A x \in Sends : exec[x] = "over" /\ file[x] = "ready" =>
        \/ current = x /\ saveState = "idle"
        \/ x \in discards \cup kept
=============================================================================
