---------------------------- MODULE OpenApiFiles ----------------------------
(***************************************************************************)
(* The OpenAPI editor and its files: the backend's list of recent files    *)
(* with the permissions that go with it (FileService), and the document    *)
(* that is open in the frontend (openapi-provider.tsx, editor.ts,          *)
(* files.ts).                                                              *)
(*                                                                         *)
(* Opening, saving, removing and closing the window are flows of calls;    *)
(* the user starts others, and types, between two steps of one.  A call    *)
(* and its answer are one step, taken some time after the call was made;   *)
(* but for the list of the sidebar, whose answer may be shown after one    *)
(* that was read later (files.ts:21-23).                                   *)
(* Native dialogs are modal; the dialog about unsaved changes leaves only  *)
(* the keyboard's save and the window's close button.                      *)
(***************************************************************************)
EXTENDS Integers, Sequences, FiniteSets, SequencesExt, TLC, Arrays

CONSTANTS
    Paths,      \* files
    MaxRecents, \* maxRecents
    Untitled,   \* the document that has no file
    None,       \* no document, no text
    MaxText,    \* bound: the last text the user types
    MaxFlows,   \* bound: flows under way at a time
    MaxOps,     \* bound: flows the user starts
    MaxFaults,  \* bound: calls that fail although they could succeed
    MaxClock    \* bound: seconds that pass

\* a new document is blank, files hold Given before they are written
Blank == 0
Given == 1
Texts == Blank .. MaxText

ASSUME FilesAssumption ==
    /\ IsFiniteSet(Paths) /\ Untitled \notin Paths /\ None \notin Paths \cup {Untitled} \cup Texts
    /\ MaxRecents \in Nat \ {0} /\ MaxText \in Nat \ {0}
    /\ MaxFlows \in Nat /\ MaxOps \in Nat /\ MaxFaults \in Nat /\ MaxClock \in Nat

VARIABLES
    \* the backend
    disk,       \* disk[p]
    granted,    \* paths that may be read and written
    recents,    \* [path, at] in the order of the sidebar
    clock,
    \* the frontend
    files,      \* the paths of the sidebar
    doc,        \* activeDoc
    text,       \* editorContent
    saved,      \* savedContent
    preview,    \* the text that parsedSpec is the parse of
    timer,      \* the text that is parsed after a pause, or None
    quit,       \* quitConfirmed
    flows,      \* what is under way
    ops, faults,
    \* history
    typed,      \* the last text the user typed
    settled,    \* it was typed when nothing was under way, and not written since
    lost,       \* such a text was dropped, neither stored nor discarded by the user
    crossed,    \* a file lost its permission while it was being saved
    latest,     \* the list of the sidebar that was read last
    overtaken   \* the list that was shown last is another one

backendVars == <<disk, granted, recents, clock>>
sidebarVars == <<files, latest, overtaken>>
editorVars == <<doc, text, saved, preview, timer, quit, lost>>
vars == <<backendVars, sidebarVars, editorVars, flows, ops, faults, typed, settled, crossed>>

MayFail == faults < MaxFaults
Fail == faults' = faults + 1

\* SaveSelected is between its critical sections
Crossing ==
    crossed' = (crossed \/ \E j \in DOMAIN flows :
                   flows[j].at \in {"writing", "listing"} /\ flows[j].to \in granted \ granted')
-----------------------------------------------------------------------------
(* The list of recent files.                                               *)

Listed(rs) == {r.path : r \in Range(rs)}
Order(rs) == [i \in DOMAIN rs |-> rs[i].path]

\* sort.SliceStable: the latest first
Latest(rs) ==
    LET later == {p \in (DOMAIN rs) \X (DOMAIN rs) :
                     \/ rs[p[1]].at > rs[p[2]].at
                     \/ rs[p[1]].at = rs[p[2]].at /\ p[1] < p[2]}
        ranks == Ranked(DOMAIN rs, later)
    IN  [k \in DOMAIN rs |-> rs[ranks[k]]]

\* the list with p opened now, before it is cut to MaxRecents
WithRecent(p) ==
    IF p \in Listed(recents)
    THEN [i \in DOMAIN recents |-> IF recents[i].path = p THEN [path |-> p, at |-> clock] ELSE recents[i]]
    ELSE Append(recents, [path |-> p, at |-> clock])

\* addRecentLocked, with the permissions as they are before it: what is cut
\* loses its permission, but for p.  A save of the list that fails is only
\* logged, and takes no permission away.
AddRecent(p, perms) ==
    LET all == WithRecent(p)
        cut == IF Len(all) > MaxRecents THEN SubSeq(Latest(all), 1, MaxRecents) ELSE all
        dropped == (Listed(all) \ Listed(cut)) \ {p}
    IN  \/ recents' = cut /\ granted' = perms \ dropped /\ UNCHANGED faults
        \/ MayFail /\ Fail /\ granted' = perms /\ UNCHANGED recents

WithoutRecent(p) == Only(recents, {r \in Range(recents) : r.path # p})

\* RemoveRecent; nothing changes when the list can not be saved
RevokeFirst(p) ==
    /\ granted' = granted \ {p}
    /\ \/ recents' = WithoutRecent(p) /\ UNCHANGED faults
       \/ MayFail /\ Fail /\ UNCHANGED recents
Revoke(p) ==
    \/ recents' = WithoutRecent(p) /\ granted' = granted \ {p} /\ UNCHANGED faults
    \/ MayFail /\ Fail /\ UNCHANGED <<recents, granted>>

\* MoveRecent: index is a position of the list before the move; a position
\* past the end, of a list that has become shorter, is the end (InsertAt)
Moved(p, index) ==
    LET from == CHOOSE i \in DOMAIN recents : recents[i].path = p
        to == IF from - 1 < index THEN index - 1 ELSE index
        rest == RemoveAt(recents, from)
    IN  InsertAt(rest, IF to > Len(rest) THEN Len(recents) ELSE to + 1, recents[from])
-----------------------------------------------------------------------------
(* The document.                                                           *)

IsDirty == text # saved

\* hasUnsavedChanges: what has no file is lost unless it is blank
HasUnsaved ==
    \/ doc = Untitled /\ text # Blank
    \/ doc \in Paths /\ IsDirty

\* what the editor holds would be gone: the user typed it, and no file got it
Endangered == settled /\ doc # None /\ text = typed

\* the flow f replaces it; a flow at "saved" has written its text
Drop(f) ==
    LET stored == f.at = "saved" /\ f.text = text
    IN  lost' = (lost \/ (Endangered /\ f.choice # "discard" /\ ~stored))

Load(d, t, f) ==
    /\ doc' = d /\ text' = t /\ saved' = t
    /\ preview' = t /\ timer' = None
    /\ Drop(f)
    /\ UNCHANGED quit

\* The editor can be typed in unless a dialog is open, without a document too.
Native == \E i \in DOMAIN flows : flows[i].at \in {"picker", "dialog"}
Asking == \E i \in DOMAIN flows : flows[i].at = "confirm"
Typable == ~quit /\ ~Native /\ ~Asking

Type ==
    /\ Typable
    /\ typed < MaxText
    /\ typed' = typed + 1
    /\ text' = typed + 1 /\ timer' = typed + 1
    /\ settled' = \A i \in DOMAIN flows : flows[i].op = "mount"
    /\ UNCHANGED <<backendVars, sidebarVars, doc, saved, preview, quit, lost, flows, ops, faults, crossed>>

\* the pause ends
Parse ==
    /\ timer # None
    /\ preview' = timer /\ timer' = None
    /\ UNCHANGED <<backendVars, sidebarVars, doc, text, saved, quit, lost, flows, ops, faults, typed, settled, crossed>>
-----------------------------------------------------------------------------
(* Flows.                                                                  *)

Flow(op, p) == [op |-> op, path |-> p, at |-> "begin", to |-> None, text |-> None, choice |-> "none", list |-> <<>>]

\* the flow goes on with its own work; d and s are the document and the saved
\* text of the step that let it go on
Proceed(f, rest, d, s) ==
    LET on(at) == flows' = Append(rest, [f EXCEPT !.at = at, !.list = <<>>])
        kept == doc' = d /\ saved' = s /\ UNCHANGED <<text, preview, timer, quit, lost>>
    IN  \/ f.op = "open" /\ on("picker") /\ kept
        \/ f.op = "select" /\ on("read") /\ kept
        \/ f.op = "save" /\ flows' = rest /\ kept
        \/ f.op = "new" /\ flows' = rest /\ Load(Untitled, Blank, f)
        \/ f.op = "drop" /\ flows' = rest /\ Load(Untitled, Given, f)
        \/ /\ f.op = "close" /\ flows' = rest
           /\ quit' = TRUE /\ doc' = d /\ saved' = s /\ Drop(f)
           /\ UNCHANGED <<text, preview, timer>>

\* confirmUnsaved: a dialog that was open is answered no more
Ask(f, rest) ==
    /\ flows' = Append(Only(rest, {g \in Range(rest) : g.at # "confirm"}), [f EXCEPT !.at = "confirm"])
    /\ UNCHANGED editorVars

\* guardSwitch
Guard(f, rest) ==
    \/ HasUnsaved /\ Ask(f, rest)
    \/ ~HasUnsaved /\ Proceed(f, rest, doc, saved)

\* saveActiveFile up to the first await
SaveNow(f, rest) ==
    /\ flows' = Append(rest, [f EXCEPT !.text = text, !.to = doc,
                                       !.at = IF doc = Untitled THEN "dialog" ELSE "write"])
    /\ UNCHANGED editorVars

Others(i) == RemoveAt(flows, i)
Step(i, f) == flows' = [flows EXCEPT ![i] = f]
Give(i) == flows' = Others(i)

MayStart == ~quit /\ ~Native /\ Len(flows) < MaxFlows /\ ops < MaxOps
Started == ops' = ops + 1 /\ UNCHANGED <<backendVars, sidebarVars, faults, typed, settled, crossed>>

OpenFile == MayStart /\ ~Asking /\ Guard(Flow("open", None), flows) /\ Started
NewUntitled == MayStart /\ ~Asking /\ Guard(Flow("new", None), flows) /\ Started
SelectFile(p) == MayStart /\ ~Asking /\ p \in Range(files) /\ Guard(Flow("select", p), flows) /\ Started
CloseWindow == MayStart /\ Guard(Flow("close", None), flows) /\ Started
SaveActive == MayStart /\ doc # None /\ SaveNow(Flow("save", None), flows) /\ Started

\* openDroppedFile reads the file before it asks
DropFile ==
    /\ MayStart /\ ~Asking
    /\ flows' = Append(flows, [Flow("drop", None) EXCEPT !.at = "text"])
    /\ Started /\ UNCHANGED editorVars
DropRead(i) ==
    /\ flows[i].at = "text"
    /\ Guard(flows[i], Others(i))
    /\ UNCHANGED <<backendVars, sidebarVars, ops, faults, typed, settled, crossed>>

RemoveFile(p) ==
    /\ MayStart /\ ~Asking /\ p \in Range(files)
    /\ flows' = Append(flows, [Flow("remove", p) EXCEPT !.at = "remove"])
    /\ Started /\ UNCHANGED editorVars
MoveFile(p, index) ==
    /\ MayStart /\ ~Asking /\ p \in Range(files) /\ index \in 0 .. Len(files)
    /\ flows' = Append(flows, [Flow("move", p) EXCEPT !.at = "move", !.to = index])
    /\ Started /\ UNCHANGED editorVars

\* the dialog about unsaved changes; what is saved is the document of this moment
Cancel(i) ==
    /\ flows[i].at = "confirm"
    /\ Give(i)
    /\ UNCHANGED <<backendVars, sidebarVars, editorVars, ops, faults, typed, settled, crossed>>
Discard(i) ==
    /\ flows[i].at = "confirm"
    /\ Proceed([flows[i] EXCEPT !.choice = "discard"], Others(i), doc, saved)
    /\ UNCHANGED <<backendVars, sidebarVars, ops, faults, typed, settled, crossed>>
SaveFirst(i) ==
    /\ flows[i].at = "confirm"
    /\ IF doc = None THEN Give(i) /\ UNCHANGED editorVars
       ELSE SaveNow([flows[i] EXCEPT !.choice = "save"], Others(i))
    /\ UNCHANGED <<backendVars, sidebarVars, ops, faults, typed, settled, crossed>>

\* a step that fails ends the flow: the switch does not happen
GiveUpAnyway(i) == Proceed(flows[i], Others(i), doc, saved)
GiveUp(i) == Give(i) /\ UNCHANGED editorVars

\* the native dialogs
Dismiss(i) ==
    /\ flows[i].at \in {"picker", "dialog"}
    /\ GiveUp(i)
    /\ UNCHANGED <<backendVars, sidebarVars, ops, faults, typed, settled, crossed>>
PickFile(i, p) ==
    /\ flows[i].at = "picker"
    /\ AddRecent(p, granted \cup {p})
    /\ Step(i, [flows[i] EXCEPT !.at = "read", !.path = p])
    /\ Crossing
    /\ UNCHANGED <<disk, clock, sidebarVars, editorVars, ops, typed, settled>>
PickTarget(i, p) ==
    /\ flows[i].at = "dialog"
    /\ granted' = granted \cup {p}
    /\ Step(i, [flows[i] EXCEPT !.at = "writing", !.to = p])
    /\ UNCHANGED <<disk, recents, clock, sidebarVars, editorVars, ops, faults, typed, settled, crossed>>

\* refreshRecents: the list is read, and shown some time later.  What was read
\* at a stage is shown at its next one.
Shows == [mounted |-> "listed", stored |-> "saved", loaded |-> "opened",
          removed |-> "unlisted", moved |-> "reordered"]
ListFiles(i) ==
    LET f == flows[i] IN
    /\ f.at \in DOMAIN Shows
    /\ latest' = Order(recents)
    /\ Step(i, [f EXCEPT !.at = Shows[f.at], !.list = Order(recents)])
    /\ UNCHANGED <<backendVars, files, overtaken, editorVars, ops, faults, typed, settled, crossed>>
Show(f) ==
    /\ files' = f.list
    /\ overtaken' = (f.list # latest)
    /\ UNCHANGED <<backendVars, latest, ops, faults, typed, settled, crossed>>
FinishMount(i) ==
    /\ flows[i].at = "listed"
    /\ Show(flows[i])
    /\ Give(i) /\ UNCHANGED editorVars

\* writeFile, then markSaved: what the editor holds now is the baseline
Write(i) ==
    LET f == flows[i] IN
    /\ f.at = "write" /\ f.to \in granted
    /\ disk' = [disk EXCEPT ![f.to] = f.text] /\ settled' = (settled /\ f.text # typed)
    /\ Proceed([f EXCEPT !.at = "saved"], Others(i), doc, text)
    /\ UNCHANGED <<granted, recents, clock, sidebarVars, ops, faults, typed, crossed>>
Denied(i) ==
    LET f == flows[i] IN
    /\ \/ f.at = "write" /\ f.to \notin granted
       \/ f.at = "read" /\ f.path \notin granted
    /\ GiveUp(i)
    /\ UNCHANGED <<backendVars, sidebarVars, ops, faults, typed, settled, crossed>>
IOFails(i) ==
    /\ flows[i].at \in {"write", "writing", "read"} \cup DOMAIN Shows
    /\ MayFail /\ Fail
    /\ GiveUp(i)
    /\ UNCHANGED <<backendVars, sidebarVars, ops, typed, settled, crossed>>

\* SaveSelected: the file is written between two critical sections
WriteAs(i) ==
    LET f == flows[i] IN
    /\ f.at = "writing"
    /\ disk' = [disk EXCEPT ![f.to] = f.text] /\ settled' = (settled /\ f.text # typed)
    /\ Step(i, [f EXCEPT !.at = "listing"])
    /\ UNCHANGED <<granted, recents, clock, sidebarVars, editorVars, ops, faults, typed, crossed>>
ListSaved(i) ==
    LET f == flows[i] IN
    /\ f.at = "listing"
    /\ AddRecent(f.to, granted)
    /\ Step(i, [f EXCEPT !.at = "stored"])
    /\ Crossing
    /\ UNCHANGED <<disk, clock, sidebarVars, editorVars, ops, typed, settled>>
FinishSaveAs(i) ==
    LET f == flows[i] IN
    /\ f.at = "saved"
    /\ Show(f)
    /\ Proceed(f, Others(i), f.to, text)

\* readFile: opening lists the files before the document changes
Read(i) ==
    LET f == flows[i] IN
    /\ f.at = "read" /\ f.path \in granted
    /\ IF f.op = "open"
       THEN Step(i, [f EXCEPT !.at = "loaded", !.to = disk[f.path]]) /\ UNCHANGED editorVars
       ELSE Give(i) /\ Load(f.path, disk[f.path], f)
    /\ UNCHANGED <<backendVars, sidebarVars, ops, faults, typed, settled, crossed>>
FinishOpen(i) ==
    LET f == flows[i] IN
    /\ f.at = "opened"
    /\ Show(f)
    /\ Give(i) /\ Load(f.path, f.to, f)

\* removeRecent, then the list; when the list can not be saved the flow ends
CallRemove(i) ==
    LET f == flows[i] IN
    /\ f.at = "remove"
    /\ Revoke(f.path)
    /\ IF faults' = faults THEN Step(i, [f EXCEPT !.at = "removed"]) ELSE Give(i)
    /\ Crossing
    /\ UNCHANGED <<disk, clock, sidebarVars, editorVars, ops, typed, settled>>
FinishRemove(i) ==
    LET f == flows[i] IN
    /\ f.at = "unlisted"
    /\ Show(f)
    /\ doc' = IF doc = f.path THEN None ELSE doc
    /\ Give(i) /\ UNCHANGED <<text, saved, preview, timer, quit, lost>>

CallMove(i) ==
    LET f == flows[i] IN
    /\ f.at = "move"
    /\ \/ /\ recents' = IF f.path \in Listed(recents) THEN Moved(f.path, f.to) ELSE recents
          /\ Step(i, [f EXCEPT !.at = "moved"]) /\ UNCHANGED faults
       \/ MayFail /\ Fail /\ Give(i) /\ UNCHANGED recents
    /\ UNCHANGED <<disk, granted, clock, sidebarVars, editorVars, ops, typed, settled, crossed>>
FinishMoveQuietly(i) ==
    /\ flows[i].at = "reordered"
    /\ GiveUp(i)
    /\ UNCHANGED <<backendVars, sidebarVars, ops, faults, typed, settled, crossed>>
FinishMove(i) ==
    /\ flows[i].at = "reordered"
    /\ Show(flows[i])
    /\ GiveUp(i)

Tick ==
    /\ clock < MaxClock
    /\ clock' = clock + 1
    /\ UNCHANGED <<disk, granted, recents, sidebarVars, editorVars, flows, ops, faults, typed, settled, crossed>>
-----------------------------------------------------------------------------
\* files of the last session, all opened before; the sidebar's list is being read
Init ==
    /\ disk = [p \in Paths |-> Given]
    /\ recents \in {[i \in DOMAIN s |-> [path |-> s[i], at |-> 0]] :
                       s \in {t \in UNION {[1 .. n -> Paths] : n \in 0 .. MaxRecents} : IsInjective(t)}}
    /\ granted = Listed(recents)
    /\ clock = 0
    /\ files = <<>> /\ latest = <<>> /\ overtaken = FALSE
    /\ doc = None /\ text = Blank /\ saved = Blank /\ preview = Blank /\ timer = None /\ quit = FALSE
    /\ flows = <<[Flow("mount", None) EXCEPT !.at = "mounted"]>> /\ ops = 0 /\ faults = 0
    /\ typed = Given /\ settled = FALSE /\ lost = FALSE /\ crossed = FALSE

User ==
    \/ Type \/ OpenFile \/ NewUntitled \/ CloseWindow \/ SaveActive \/ DropFile
    \/ \E p \in Paths : SelectFile(p) \/ RemoveFile(p) \/ \E n \in 0 .. MaxRecents : MoveFile(p, n)
Dialog(i) ==
    \/ Cancel(i) \/ Discard(i) \/ SaveFirst(i) \/ Dismiss(i)
    \/ \E p \in Paths : PickFile(i, p) \/ PickTarget(i, p)
FlowGoesOn(i) ==
    \/ DropRead(i) \/ Write(i) \/ Denied(i) \/ IOFails(i) \/ Read(i) \/ FinishOpen(i)
    \/ WriteAs(i) \/ ListSaved(i) \/ FinishSaveAs(i) \/ ListFiles(i) \/ FinishMount(i)
    \/ CallRemove(i) \/ FinishRemove(i) \/ CallMove(i) \/ FinishMove(i)

Next == User \/ Parse \/ Tick \/ \E i \in DOMAIN flows : Dialog(i) \/ FlowGoesOn(i)

Spec == Init /\ [][Next]_vars
-----------------------------------------------------------------------------
(* Properties.                                                             *)

\* A text the user typed while no operation was under way is not dropped by
\* one that begins later, by a switch, a document that is opened or the window
\* that closes, unless the user chose so: also when the save before it fails,
\* or its dialog is dismissed, or another operation is under way
\* (openapi-provider.tsx:102-112, 187-199).  It says nothing of a file that is
\* removed from the list while it is open, of a text typed with no document
\* open, or typed while an operation was under way.
AskedFirst == ~lost

\* Every file of the list can be read, whatever failed in between; the one
\* exception is a file that lost its permission, being removed or cut off,
\* while SaveSelected was writing it (file_service.go:89).
ListedIsReadable == crossed \/ Listed(recents) \subseteq granted

\* What the user sees is fresh: when nothing is under way the sidebar shows the
\* backend's list, every change of which is followed by a read, unless an
\* answer was shown after one that was read later (files.ts:21-37,
\* openapi-provider.tsx:118, 158); and the preview is the parse of what the
\* editor holds once the pause is over, also when another document was opened
\* during it (editor.ts:34-41).
ShownFresh ==
    /\ flows = <<>> /\ faults = 0 /\ ~overtaken => files = Order(recents)
    /\ timer = None => preview = text
=============================================================================
