------------------------------ MODULE UdpTargets ------------------------------
(***************************************************************************)
(* The list of targets: the store of the backend (cached_store.go), the    *)
(* list and the order of the frontend (targets.ts, order.ts, array.ts),    *)
(* the sidebar's list with its drag and drop (profile-list.tsx,            *)
(* list-reorder.tsx) and dialog (target-tree.tsx).                         *)
(*                                                                         *)
(* A call is made, carried out by the backend, and answered: three steps.  *)
(***************************************************************************)
EXTENDS Integers, Sequences, FiniteSets, SequencesExt, Arrays

CONSTANTS
    Targets,   \* the identities of targets; their order is that of the UUIDs
    Earlier,   \* the targets of an earlier session
    MaxWaits,  \* bound: calls under way
    None

ASSUME TargetsAssumption ==
    /\ Targets \subseteq Nat \ {0} /\ IsFiniteSet(Targets) /\ Earlier \subseteq Targets
    /\ MaxWaits \in Nat /\ None \notin Nat

VARIABLES
    stored,    \* the targets of the store
    gone,      \* the targets that were deleted
    order,     \* the ids in localStorage
    targets,   \* the list that is shown
    waits,     \* calls: [op, id, at, ok, list, heard]
    dialog,    \* what is edited: None, "new" or a target
    dragging,  \* draggingIndex, from 1
    selected,  \* selectedTarget
    wanted     \* history: the list as the user arranged it last

targetVars == <<stored, gone, order, targets, waits, dialog, dragging, selected, wanted>>

New == 0    \* the dialog for a new target
Wait(op, id) == [op |-> op, id |-> id, at |-> "called", ok |-> TRUE, list |-> <<>>, heard |-> TRUE]
Get(op) == Wait("get", op)   \* a refresh, and what it is part of

TargetsInit ==
    /\ stored = Earlier /\ gone = {}
    /\ order = <<>> /\ targets = <<>> /\ wanted = <<>>
    /\ waits = <<Get("mount")>>
    /\ dialog = None /\ dragging = None /\ selected = None
-----------------------------------------------------------------------------
Ascending(S) == Ranked(S, {p \in S \X S : p[1] < p[2]})

\* applyOrder: a stable sort; what has no place comes last
Place(id, ids) == IF \E k \in DOMAIN ids : ids[k] = id
                  THEN CHOOSE k \in DOMAIN ids : ids[k] = id ELSE Len(ids) + 1
Sooner(list, ids) ==
    {p \in (DOMAIN list) \X (DOMAIN list) :
        LET a == Place(list[p[1]], ids)
            b == Place(list[p[2]], ids)
        IN  a < b \/ (a = b /\ p[1] < p[2])}
ApplyOrder(list, ids) ==
    LET ranks == Ranked(DOMAIN list, Sooner(list, ids))
    IN  [k \in DOMAIN list |-> list[ranks[k]]]

\* moveItem: nothing when an index is not of the list
MoveItem(list, from, to) ==
    IF from \in DOMAIN list /\ to \in DOMAIN list
    THEN InsertAt(RemoveAt(list, from), to, list[from]) ELSE list
-----------------------------------------------------------------------------
(* The user.  The dialog covers the list.                                  *)

MayAsk == Len(waits) < MaxWaits
Bare == dialog = None /\ dragging = None

OpenDialog(id) ==
    /\ Bare /\ id \in Range(targets) \cup {New}
    /\ dialog' = id
    /\ UNCHANGED <<stored, gone, order, targets, waits, dragging, selected, wanted>>
CloseDialog ==
    /\ dialog # None /\ dialog' = None
    /\ UNCHANGED <<stored, gone, order, targets, waits, dragging, selected, wanted>>
\* the button is not disabled while a save is under way
SaveTarget ==
    /\ dialog # None /\ MayAsk
    /\ waits' = Append(waits, Wait("save", dialog))
    /\ UNCHANGED <<stored, gone, order, targets, dialog, dragging, selected, wanted>>
DeleteTarget(id) ==
    /\ Bare /\ MayAsk /\ id \in Range(targets)
    /\ waits' = Append(waits, Wait("delete", id))
    /\ UNCHANGED <<stored, gone, order, targets, dialog, dragging, selected, wanted>>
LoadTarget(id) ==
    /\ Bare /\ id \in Range(targets) /\ id # selected
    /\ selected' = id
    /\ UNCHANGED <<stored, gone, order, targets, waits, dialog, dragging, wanted>>

DragStart(i) ==
    /\ Bare /\ i \in DOMAIN targets
    /\ dragging' = i
    /\ UNCHANGED <<stored, gone, order, targets, waits, dialog, selected, wanted>>
\* p is the indicator, before the item p; nothing is dropped outside the list
ReorderUnsaved(next) == targets' = next /\ wanted' = next /\ UNCHANGED order
Reorder(next) == targets' = next /\ wanted' = next /\ order' = next
Drop(p) ==
    LET to == IF p > dragging THEN p - 1 ELSE p IN
    /\ dragging # None /\ p \in 1 .. Len(targets) + 1
    /\ dragging' = None
    /\ IF dragging \in DOMAIN targets /\ to \in DOMAIN targets
       THEN Reorder(MoveItem(targets, dragging, to))
       ELSE UNCHANGED <<order, targets, wanted>>
    /\ UNCHANGED <<stored, gone, waits, dialog, selected>>
DragEnd ==
    /\ dragging # None /\ dragging' = None
    /\ UNCHANGED <<stored, gone, order, targets, waits, dialog, selected, wanted>>

\* the page is loaded again
TargetsReload ==
    /\ targets' = <<>> /\ dialog' = None /\ dragging' = None /\ selected' = None
    /\ waits' = Append([i \in DOMAIN waits |-> [waits[i] EXCEPT !.heard = FALSE]], Get("mount"))
    /\ UNCHANGED <<stored, gone, order, wanted>>
-----------------------------------------------------------------------------
(* The backend: each call is one critical section.                         *)

Called(i, op) == waits[i].at = "called" /\ waits[i].op = op
Works(i) == waits' = [waits EXCEPT ![i].at = "answered"]
Errs(i) == waits' = [waits EXCEPT ![i].at = "answered", ![i].ok = FALSE]

DoSave(i) ==
    LET id == waits[i].id IN
    /\ Called(i, "save")
    /\ IF id = New THEN \E fresh \in Targets \ (stored \cup gone) : stored' = stored \cup {fresh}
       ELSE id \in stored /\ UNCHANGED stored
    /\ Works(i)
    /\ UNCHANGED <<gone, order, targets, dialog, dragging, selected, wanted>>
DoDelete(i) ==
    /\ Called(i, "delete") /\ waits[i].id \in stored
    /\ stored' = stored \ {waits[i].id} /\ gone' = gone \cup {waits[i].id}
    /\ Works(i)
    /\ UNCHANGED <<order, targets, dialog, dragging, selected, wanted>>
\* not valid, not there, or the file can not be written
RefuseCall(i) ==
    /\ Called(i, "save") \/ Called(i, "delete")
    /\ Errs(i)
    /\ UNCHANGED <<stored, gone, order, targets, dialog, dragging, selected, wanted>>
DoGet(i) ==
    /\ Called(i, "get")
    /\ waits' = [waits EXCEPT ![i].at = "answered", ![i].list = Ascending(stored)]
    /\ UNCHANGED <<stored, gone, order, targets, dialog, dragging, selected, wanted>>
-----------------------------------------------------------------------------
(* The answers.                                                            *)

Ignore(i) ==
    /\ waits[i].at = "answered"
    /\ ~waits[i].heard \/ ~waits[i].ok
    /\ waits' = RemoveAt(waits, i)
    /\ UNCHANGED <<stored, gone, order, targets, dialog, dragging, selected, wanted>>
\* save and delete go on with a refresh
ThenRefresh(i) ==
    LET c == waits[i] IN
    /\ c.at = "answered" /\ c.heard /\ c.ok /\ c.op # "get"
    /\ waits' = Append(RemoveAt(waits, i), Get(c.op))
    /\ UNCHANGED <<stored, gone, order, targets, dialog, dragging, selected, wanted>>
\* the order is read when the answer is there
Refreshed(i) ==
    LET c == waits[i] IN
    /\ c.at = "answered" /\ c.heard /\ c.op = "get"
    /\ targets' = ApplyOrder(c.list, order)
    /\ dialog' = IF c.id = "save" THEN None ELSE dialog
    /\ waits' = RemoveAt(waits, i)
    /\ UNCHANGED <<stored, gone, order, dragging, selected, wanted>>

TargetsUser ==
    \/ CloseDialog \/ SaveTarget \/ DragEnd
    \/ \E id \in Targets \cup {New} : OpenDialog(id) \/ DeleteTarget(id)
    \/ \E i \in 1 .. Cardinality(Targets) + 1 : DragStart(i) \/ Drop(i)
TargetsSystem ==
    \E i \in DOMAIN waits : \/ DoSave(i) \/ DoDelete(i) \/ RefuseCall(i) \/ DoGet(i)
                            \/ Ignore(i) \/ ThenRefresh(i) \/ Refreshed(i)
-----------------------------------------------------------------------------
(* Properties.                                                             *)

\* The order in which the user left the targets is kept by whatever comes
\* later: saves, deletions, refreshes that were under way when the order was
\* changed, and loading the page again (targets.ts:22-33).
OrderKept ==
    \A i, j \in DOMAIN targets :
        i < j /\ {targets[i], targets[j]} \subseteq Range(wanted) =>
            Place(targets[i], wanted) < Place(targets[j], wanted)
=============================================================================
