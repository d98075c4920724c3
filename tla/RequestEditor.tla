--------------------------- MODULE RequestEditor ---------------------------
(***************************************************************************)
(* The HTTP request editor and the tree it takes its requests from         *)
(* (application/http/request.ts, collections.ts, active-request.ts,        *)
(* presentation/providers/http-provider.tsx, sidebar/collection-tree.tsx). *)
(*                                                                         *)
(* What the user types is saved after a pause, or when another request is  *)
(* opened.  Changes of the tree go through a queue: the call, then three   *)
(* reads of the whole tree.  Saves do not: they run beside the queue, and  *)
(* the backend meets them in any order.  A step is what runs between two   *)
(* awaits.                                                                 *)
(*                                                                         *)
(* The text of a request is the number of the last change the user typed.  *)
(* A place is a collection or the root of the sidebar; folders lie inside  *)
(* a place and every search walks through them (collections.ts:27-39).     *)
(***************************************************************************)
EXTENDS Integers, Sequences, FiniteSets, SequencesExt

CONSTANTS
    Requests,   \* IDs of requests
    Cols,       \* IDs of collections
    Root,       \* ROOT_COLLECTION_ID
    None,       \* no request, no place
    Handled,    \* bound: requests the user moves or deletes
    MaxVer,     \* bound: changes the user types in one request
    MaxTasks,   \* bound: tree operations the user asks for
    MaxSaves,   \* bound: saves in flight at a time
    MaxFaults   \* bound: calls that fail although they could succeed

Places == Cols \cup {Root}
Vers == 0 .. MaxVer

ASSUME EditorAssumption ==
    /\ Root \notin Cols /\ None \notin Places \cup Requests
    /\ MaxVer \in Nat /\ MaxTasks \in Nat /\ MaxSaves \in Nat \ {0} /\ MaxFaults \in Nat
    /\ Handled \subseteq Requests /\ IsFiniteSet(Requests) /\ IsFiniteSet(Cols)

VARIABLES
    \* the backend
    cols,       \* the collections there are
    place,      \* place[r], None when it was deleted
    disk,       \* disk[r]: the text that is stored
    \* the tree of the frontend
    loaded,     \* collectionsLoaded
    shown,      \* the collections in the sidebar
    tree,       \* tree[r]: place and text as the last load and the patches left them
    queue,      \* tasks in order; the head is running when step is not "idle"
    step,       \* of the head: "idle", "call", "cols", "roots", "layout"
    colsRead,   \* the answer of getCollections
    rootsRead,  \* the answer of getRootItems
    \* the editor
    open,       \* activeRequestId
    col,        \* activeCollectionId
    text,       \* what the fields hold
    timer,      \* an autosave is due
    saves,      \* updateRequest calls in the order they were sent
    saveError,  \* the banner
    remembered, \* the active request in the local storage
    asked,      \* operations asked for so far
    \* history
    typed,      \* typed[r]: the last change the user typed in r
    said,       \* requests whose last text could not be stored, and the user was told
    raced,      \* a save overtook an earlier one of the same request
    left,       \* the user opened another request after the first
    faults

backendVars == <<cols, place, disk>>
treeVars == <<loaded, shown, tree, queue, step, colsRead, rootsRead>>
editorVars == <<open, col, text, timer, saves, saveError, remembered>>
history == <<typed, said, raced, left, faults>>
vars == <<backendVars, treeVars, editorVars, asked, history>>
-----------------------------------------------------------------------------
(* Records and what is read from them.                                     *)

Absent == [place |-> None, text |-> 0]
EmptyTree == [r \in Requests |-> Absent]
NothingRead == [cols |-> {}, tree |-> EmptyTree]

\* findRequestLocation
Location(t, r) == t[r].place

\* what getCollections and getRootItems hold of requests at this moment
SeenIn(places) ==
    [r \in Requests |-> IF place[r] \in places THEN [place |-> place[r], text |-> disk[r]]
                                               ELSE Absent]

\* findRequestLocation looks at the root first
CollectionsOnly(cs, rs) == cs
Joined(cs, rs) == [r \in Requests |-> IF rs[r].place = Root THEN rs[r] ELSE cs[r]]

Task(op, r, from, to) == [op |-> op, req |-> r, from |-> from, to |-> to]
LoadTask == Task("load", None, None, None)
MoveTask(r, p) == Task("move", r, tree[r].place, p)
DeleteTask(r) == Task("delete", r, tree[r].place, None)
DropTask(c) == Task("drop", None, c, None)
AddTask(p) == Task("add", None, p, p)

SaveOf(r, p, v) == [req |-> r, to |-> p, text |-> v, at |-> "sent", stale |-> FALSE]

\* saveTarget++: the saves in flight answer to nobody
Stale(ss) == [i \in DOMAIN ss |-> [ss[i] EXCEPT !.stale = TRUE]]

MayFail == faults < MaxFaults
Fail == faults' = faults + 1
-----------------------------------------------------------------------------
(* The editor.                                                             *)

\* saveCurrentRequest, with the calls that are already in flight
SaveCurrent(ss) == IF open = None \/ col = None THEN ss ELSE Append(ss, SaveOf(open, col, text))
RoomToSave == Len(saves) < MaxSaves

\* the effect that keeps the active request in the local storage
Remember(r, p) == remembered' = [req |-> r, place |-> p]
Forget == remembered' = None

\* loadRequest; the autosave effect runs when a field changed
Load(r, p, v) ==
    /\ saves' = SaveCurrent(saves)
    /\ open' = r /\ col' = p /\ text' = v
    /\ timer' = (timer \/ r # open \/ v # text)
    /\ Remember(r, p)
    /\ UNCHANGED saveError

\* closeRequest: resetEditor, nothing is saved
Close ==
    /\ saves' = Stale(saves)
    /\ open' = None /\ col' = None /\ text' = 0
    /\ timer' = FALSE /\ saveError' = FALSE
    /\ Forget

\* relocateActiveRequest
RelocateKeepingSaves(p) ==
    /\ col' = p
    /\ saves' = Append(saves, SaveOf(open, p, text))
    /\ Remember(open, p)
    /\ UNCHANGED <<open, text, timer, saveError>>
RelocateUnsaved(p) ==
    /\ col' = p
    /\ saves' = Stale(saves)
    /\ Remember(open, p)
    /\ UNCHANGED <<open, text, timer, saveError>>
Relocate(p) ==
    /\ col' = p
    /\ saves' = Append(Stale(saves), SaveOf(open, p, text))
    /\ Remember(open, p)
    /\ UNCHANGED <<open, text, timer, saveError>>

\* createActiveRequestTracking, run when the tree t was put in place
Track(t) ==
    LET there == IF open = None THEN None ELSE Location(t, open) IN
    \/ there = col /\ UNCHANGED editorVars
    \/ there = None /\ open # None /\ Close
    \/ there \notin {None, col} /\ Relocate(there)

\* a field changes: the autosave effect runs again
Change(v) == text' = v /\ timer' = TRUE

\* the user types in one of the fields
Type ==
    /\ open # None /\ typed[open] < MaxVer
    /\ Change(typed[open] + 1)
    /\ typed' = [typed EXCEPT ![open] = @ + 1]
    /\ said' = said \ {open}
    /\ UNCHANGED <<backendVars, treeVars, open, col, saves, saveError, remembered, asked, raced, left, faults>>

\* the debounce of createAutoSaveEffect ends
AutoSave ==
    /\ timer /\ RoomToSave
    /\ timer' = FALSE
    /\ saves' = SaveCurrent(saves)
    /\ UNCHANGED <<backendVars, treeVars, open, col, text, saveError, remembered, asked, history>>

\* onSelectRequest: the fields take what the tree holds
Select(r) ==
    /\ tree[r].place # None
    /\ open # None => RoomToSave
    /\ Load(r, tree[r].place, tree[r].text)
    /\ left' = (left \/ open \notin {None, r})
    /\ UNCHANGED <<backendVars, treeVars, asked, typed, said, raced, faults>>

\* the banner's button
Dismiss ==
    /\ saveError
    /\ saveError' = FALSE
    /\ UNCHANGED <<backendVars, treeVars, open, col, text, timer, saves, remembered, asked, history>>
-----------------------------------------------------------------------------
(* Saves.                                                                  *)

\* CollectionService.UpdateRequest: the request must lie in the collection
SaveArrives(i) ==
    LET s == saves[i] IN
    /\ s.at = "sent"
    /\ \/ /\ place[s.req] = s.to /\ place[s.req] # None
          /\ saves' = [saves EXCEPT ![i].at = "stored"]
          /\ disk' = [disk EXCEPT ![s.req] = s.text]
          /\ UNCHANGED faults
       \/ /\ place[s.req] # s.to
          /\ saves' = [saves EXCEPT ![i].at = "refused"]
          /\ UNCHANGED <<disk, faults>>
       \/ /\ MayFail /\ Fail
          /\ saves' = [saves EXCEPT ![i].at = "refused"]
          /\ UNCHANGED disk
    /\ raced' = (raced \/ \E j \in 1 .. i - 1 : saves[j].req = s.req /\ saves[j].at = "sent")
    /\ UNCHANGED <<cols, place, treeVars, open, col, text, timer, saveError, remembered, asked, typed, said, left>>

\* patchRequest
Patched(s) ==
    IF tree[s.req].place = s.to THEN [tree EXCEPT ![s.req].text = s.text] ELSE tree

SaveStored(i) ==
    /\ saves[i].at = "stored"
    /\ saves' = RemoveAt(saves, i)
    /\ IF saves[i].stale THEN UNCHANGED <<saveError, tree>>
       ELSE saveError' = FALSE /\ tree' = Patched(saves[i])
    /\ UNCHANGED <<backendVars, loaded, shown, queue, step, colsRead, rootsRead,
                   open, col, text, timer, remembered, asked, history>>

SaveRefused(i) ==
    /\ saves[i].at = "refused"
    /\ saves' = RemoveAt(saves, i)
    /\ IF saves[i].stale THEN UNCHANGED <<saveError, said>>
       ELSE /\ saveError' = TRUE
            /\ said' = said \cup {saves[i].req}
    /\ UNCHANGED <<backendVars, treeVars, open, col, text, timer, remembered, asked, typed, raced, left, faults>>
-----------------------------------------------------------------------------
(* The queue of tree operations.                                           *)

\* enqueue
Ask(t) ==
    /\ asked < MaxTasks
    /\ asked' = asked + 1
    /\ queue' = Append(queue, t)
    /\ UNCHANGED <<backendVars, loaded, shown, tree, step, colsRead, rootsRead, editorVars, history>>

\* handleMoveItem, handleDropToSidebar: from where the tree shows the request
AskMove(r, p) ==
    /\ tree[r].place \notin {None, p} /\ p \in shown \cup {Root}
    /\ Ask(MoveTask(r, p))

\* handleDeleteItem, handleDeleteCollection, once the dialog is confirmed
AskDelete(r) == tree[r].place # None /\ Ask(DeleteTask(r))
AskDrop(c) == c \in shown /\ Ask(DropTask(c))

\* handleAddRequest, handleAddFolder, handleCreateCollection, the renamings:
\* calls that move no request.  The root can be asked for before the tree came.
AskAdd(p) == p \in shown \cup {Root} /\ Ask(AddTask(p))

Running == step # "idle"

\* the next task begins when the one before has ended, well or not
Begin ==
    /\ ~Running /\ queue # <<>>
    /\ step' = IF Head(queue).op = "load" THEN "cols" ELSE "call"
    /\ UNCHANGED <<backendVars, loaded, shown, tree, queue, colsRead, rootsRead, editorVars, asked, history>>

\* the backend's part, as far as requests change their place
CallWorks(t) ==
    \/ /\ t.op = "move" /\ place[t.req] = t.from /\ t.to \in cols \cup {Root}
       /\ place' = [place EXCEPT ![t.req] = t.to]
       /\ UNCHANGED cols
    \/ /\ t.op = "delete" /\ place[t.req] = t.from
       /\ place' = [place EXCEPT ![t.req] = None]
       /\ UNCHANGED cols
    \/ /\ t.op = "drop" /\ t.from \in cols
       /\ cols' = cols \ {t.from}
       /\ place' = [r \in Requests |-> IF place[r] = t.from THEN None ELSE place[r]]
    \/ /\ t.op = "add" /\ t.to \in cols \cup {Root}
       /\ UNCHANGED <<place, cols>>
CallRefused(t) ==
    \/ t.op \in {"move", "delete"} /\ place[t.req] # t.from
    \/ t.op = "drop" /\ t.from \notin cols
    \/ t.op \in {"move", "add"} /\ t.to \notin cols \cup {Root}

CallSucceeds ==
    /\ step = "call"
    /\ CallWorks(Head(queue))
    /\ step' = "cols"
    /\ UNCHANGED <<disk, loaded, shown, tree, queue, colsRead, rootsRead, editorVars, asked, history>>

\* queue = run.catch(() => {}): a task that fails lets the next one run
StopEnd == UNCHANGED <<queue, step>>
EndTask == queue' = Tail(queue) /\ step' = "idle"

CallFails ==
    /\ step = "call"
    /\ \/ CallRefused(Head(queue)) /\ UNCHANGED faults
       \/ MayFail /\ Fail
    /\ EndTask
    /\ UNCHANGED <<backendVars, loaded, shown, tree, colsRead, rootsRead, editorVars, asked, typed, said, raced, left>>

\* loadTree: three reads, then everything at once
ReadCols ==
    /\ step = "cols" /\ step' = "roots"
    /\ colsRead' = [cols |-> cols, tree |-> SeenIn(Cols)]
    /\ UNCHANGED <<backendVars, loaded, shown, tree, queue, rootsRead, editorVars, asked, history>>

ReadRoots ==
    /\ step = "roots" /\ step' = "layout"
    /\ rootsRead' = SeenIn({Root})
    /\ UNCHANGED <<backendVars, loaded, shown, tree, queue, colsRead, editorVars, asked, history>>

ReadFails ==
    /\ step \in {"cols", "roots", "layout"}
    /\ MayFail /\ Fail
    /\ EndTask
    /\ colsRead' = NothingRead /\ rootsRead' = EmptyTree
    /\ UNCHANGED <<backendVars, loaded, shown, tree, editorVars, asked, typed, said, raced, left>>

\* restoreActiveRequest after the first load
Restore(t) ==
    LET m == remembered IN
    IF open = None /\ m # None /\ Location(t, m.req) = m.place
    THEN Load(m.req, m.place, t[m.req].text)
    ELSE UNCHANGED editorVars

ReadLayout ==
    LET t == Joined(colsRead.tree, rootsRead) IN
    /\ step = "layout"
    /\ tree' = t /\ shown' = colsRead.cols /\ loaded' = TRUE
    /\ EndTask
    /\ colsRead' = NothingRead /\ rootsRead' = EmptyTree
    /\ IF Head(queue).op = "load" THEN Restore(t) ELSE Track(t)
    /\ UNCHANGED <<backendVars, asked, history>>

-----------------------------------------------------------------------------
Init ==
    /\ cols = Cols
    /\ place \in [Requests -> Places]
    /\ disk = [r \in Requests |-> 0]
    /\ loaded = FALSE /\ shown = {} /\ tree = EmptyTree
    /\ queue = <<LoadTask>> /\ step = "idle"
    /\ colsRead = NothingRead /\ rootsRead = EmptyTree
    /\ open = None /\ col = None /\ text = 0 /\ timer = FALSE
    /\ saves = <<>> /\ saveError = FALSE
    /\ remembered \in {None} \cup [req : Requests, place : Places]
    /\ asked = 0
    /\ typed = disk /\ said = {} /\ raced = FALSE /\ left = FALSE /\ faults = 0

User ==
    \/ Type \/ Dismiss
    \/ \E r \in Requests : Select(r)
    \/ \E r \in Handled : AskDelete(r) \/ \E p \in Places : AskMove(r, p)
    \/ \E c \in Cols : AskDrop(c)
    \/ \E p \in Places : AskAdd(p)
SaveGoesOn == \E i \in DOMAIN saves : SaveArrives(i) \/ SaveStored(i) \/ SaveRefused(i)
TaskGoesOn ==
    \/ Begin \/ CallSucceeds \/ CallFails
    \/ ReadCols \/ ReadRoots \/ ReadLayout \/ ReadFails

Next == User \/ AutoSave \/ SaveGoesOn \/ TaskGoesOn

\* calls are answered (the backend's commits and reads return)
Spec == Init /\ [][Next]_vars /\ WF_vars(TaskGoesOn)
-----------------------------------------------------------------------------
(* Properties.                                                             *)

\* once no task and no save is under way and no autosave is due
AtRest == queue = <<>> /\ saves = <<>> /\ ~timer

\* What the editor shows is what is stored, or the failed save was notified,
\* even when the request was moved while its save was on the way
\* (request.ts:362-372).  Saves that overtake each other are left aside.
SavedOrSaid ==
    AtRest /\ open # None =>
        disk[open] = text \/ open \in said \/ raced

\* A request closes only when it was deleted: no answer shows a tree in which
\* a request that moves is nowhere (collections.ts:162-167, active-request.ts).
ClosesWhenGone == [][open # None /\ open' = None => place[open] = None]_vars

\* Moving or deleting the open request leaves no error behind, although saves
\* to its old place fail meanwhile (request.ts:122-126, 354-356).
QuietWhenMoved == AtRest /\ faults = 0 /\ ~left => ~saveError

\* Every operation of the tree gets its turn, also behind one that failed
\* (collections.ts:166).
TasksEnd == queue # <<>> ~> queue = <<>>

\* The last change typed in a request is what is stored, whatever requests are
\* opened meanwhile (e2e/ui/http/tree-drag-drop.spec.ts:320-323).
EditsSurvive ==
    AtRest /\ faults = 0 /\ asked = 0 /\ ~raced =>
        \A r \in Requests : disk[r] = typed[r]
=============================================================================
