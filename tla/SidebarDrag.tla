---------------------------- MODULE SidebarDrag ----------------------------
(***************************************************************************)
(* The sidebar of the HTTP collections in front of the service: rows are   *)
(* dragged and dropped (sidebar/use-tree-drag-drop.ts, tree-item-node.tsx, *)
(* collection-node.tsx, collection-tree.tsx, use-long-press-drag.ts), the  *)
(* drop becomes a call in the queue of collections.ts, and when the        *)
(* service has answered the tree is read again.  Meanwhile the user drags  *)
(* on in the tree that is still shown.                                     *)
(*                                                                         *)
(* Every folder is expanded, so that all places to drop on are there.      *)
(* The three reads of loadTree are one step: nothing else changes the tree *)
(* while the queue waits for them (RequestEditor takes them one by one).   *)
(***************************************************************************)
EXTENDS Collections

CONSTANTS
    MaxDrops,   \* bound: drops that make a call
    NoRow       \* no row is pressed or dragged

ASSUME DropsAreNat == MaxDrops \in Nat

VARIABLES
    trees,      \* collections and rootItems
    entries,    \* sidebarLayout
    pressed,    \* the row with the mouse down on it, not yet dragged
    drag,       \* dragItem
    queue,      \* calls in order; the head is under way when step is not "idle"
    step,       \* of the head: "idle", "call", "read"
    drops,
    part        \* bound: what takes the steps, see SidebarNext

dragVars == <<trees, entries, pressed, drag, queue, step, drops>>
sidebarVars == <<vars, dragVars, part>>
-----------------------------------------------------------------------------
(* Rows, and what a drop on them calls.                                    *)

\* indexOf, in a list that has nothing twice
Position(s, e) == IF e \in ToSet(s) THEN (CHOOSE k \in DOMAIN s : s[k] = e) - 1 ELSE -1

ParentsOf(c) == {Top} \cup (Folders \cap Nodes(trees[c]))
Lists == {l \in Cols \X Parents : Exists(trees[l[1]]) /\ l[2] \in ParentsOf(l[1])}
RootList == <<Root, Top>>
InSidebar(e) == e \in ToSet(entries)

\* TreeItemNode's and CollectionNode's props; what is at the top of the root is
\* numbered as the sidebar is
RowAt(i, c, p) ==
    [id |-> i, col |-> c, parent |-> p,
     index |-> Position(IF <<c, p>> = RootList THEN entries ELSE trees[c].kids[p], i)]
RowsShown ==
    {RowAt(e, e, Top) : e \in {c \in Cols \ {Root} : Exists(trees[c]) /\ InSidebar(c)}}
    \cup UNION {{RowAt(i, l[1], l[2]) : i \in ToSet(trees[l[1]].kids[l[2]])} : l \in Lists}
IsItem(row) == row.id \notin Cols

Call(kind, row, c, p, pos) ==
    [op |-> kind, id |-> row.id, src |-> row.col, dst |-> c, parent |-> p, pos |-> pos]

\* Mutant: a drop on the lower half goes in front of the row too.
OnRowAbove(row, under, half) == Call("move", row, under.col, under.parent, under.index)

\* a drop on the upper (0) or lower (1) half of a row
OnRow(row, under, half) == Call("move", row, under.col, under.parent, under.index + half)

OnHeader(row, c) == Call("move", row, c, Top, AtEnd)
OnGap(row, l, k) == Call("move", row, l[1], l[2], k)

\* handleDropToSidebar
OnEdge(row, k) ==
    Call(IF ~IsItem(row) \/ row.col = Root THEN "reorder" ELSE "out", row, Root, Top, k)

\* isNoOp: these zones are not displayed while row is dragged
HiddenGap(row, l, k) == l = <<row.col, row.parent>> /\ k \in {row.index, row.index + 1}
HiddenEdge(row, k) == k \in {row.index, row.index + 1}

\* What the user sees: the list, and the row that will be below the dropped one.
Below(row, s, k) ==
    LET j == IF k < Len(s) /\ s[k + 1] = row.id THEN k + 2 ELSE k + 1
    IN  IF j <= Len(s) THEN s[j] ELSE NoRow
Seen(row, l, s, k) == [list |-> l, below |-> Below(row, s, k)]

\* handleMouseUp, handleMouseMove: the element under the pointer
Edges(row) ==
    {[call |-> OnEdge(row, k), seen |-> Seen(row, RootList, entries, k)] :
        k \in {j \in 0..Len(entries) : ~HiddenEdge(row, j)}}
Headers(row) ==
    {[call |-> OnHeader(row, c), seen |-> [list |-> <<c, Top>>, below |-> NoRow]] :
        c \in {d \in Cols \ {Root} : Exists(trees[d]) /\ InSidebar(d)}}
GapsOf(row, l) ==
    {[call |-> OnGap(row, l, k), seen |-> Seen(row, l, trees[l[1]].kids[l[2]], k)] :
        k \in {j \in 0..Len(trees[l[1]].kids[l[2]]) : ~HiddenGap(row, l, j)}}
HalvesOf(row, u) ==
    LET l == <<u.col, u.parent>>
        s == IF l = RootList THEN entries ELSE trees[u.col].kids[u.parent]
    IN  {[call |-> OnRow(row, u, h), seen |-> Seen(row, l, s, u.index + h)] : h \in {0, 1}}
Gaps(row) == UNION {GapsOf(row, l) : l \in Lists \ {RootList}}
Halves(row) == UNION {HalvesOf(row, u) : u \in {v \in RowsShown : IsItem(v)}}
Under(row) ==
    Edges(row) \cup IF IsItem(row) THEN Headers(row) \cup Gaps(row) \cup Halves(row) ELSE {}
-----------------------------------------------------------------------------
(* The mouse.                                                              *)

Free == pressed = NoRow /\ drag = NoRow

\* handleMouseDown
Press(row) ==
    /\ Free /\ drops < MaxDrops
    /\ row \in RowsShown
    /\ pressed' = row
    /\ UNCHANGED <<vars, trees, entries, drag, queue, step, drops>>

\* the button is released before the drag begins: a click
Click ==
    /\ pressed # NoRow /\ pressed' = NoRow
    /\ UNCHANGED <<vars, trees, entries, drag, queue, step, drops>>

\* The long press ends, or the mouse moved: a row that is still in its list
\* knows its place, one that was taken away what it knew last.
Activate ==
    /\ pressed # NoRow /\ pressed' = NoRow
    /\ drag' = IF \E row \in RowsShown : row.id = pressed.id /\ row.col = pressed.col
                                         /\ row.parent = pressed.parent
               THEN RowAt(pressed.id, pressed.col, pressed.parent) ELSE pressed
    /\ UNCHANGED <<vars, trees, entries, queue, step, drops>>

\* handleMouseUp over a place to drop on.  History: nothing was under way, what
\* was shown was what the service had, and the row was still where it was taken.
Drop(place) ==
    /\ drag # NoRow /\ place \in Under(drag)
    /\ queue' = Append(queue, [call |-> place.call, seen |-> place.seen,
                               fresh |-> /\ queue = <<>> /\ drag \in RowsShown
                                         /\ trees = cache /\ entries \in View(layout, cache)])
    /\ drag' = NoRow
    /\ drops' = drops + 1
    /\ UNCHANGED <<vars, trees, entries, pressed, step>>

\* ... and over nothing
Miss ==
    /\ drag # NoRow /\ drag' = NoRow
    /\ UNCHANGED <<vars, trees, entries, pressed, queue, step, drops>>
-----------------------------------------------------------------------------
(* The queue, and the service behind it.                                   *)

Head1 == Head(queue).call
EndTask == queue' = Tail(queue) /\ step' = "idle"
Mouse == <<pressed, drag, drops>>

Served(c) ==
    \/ c.op = "move" /\ MoveItem(c.src, c.id, c.dst, c.parent, c.pos)
    \/ c.op = "out" /\ MoveItemToSidebar(c.src, c.id, c.pos)
    \/ c.op = "reorder" /\ TakeSnapshot

\* what the service refuses before it writes
Refused(c) ==
    \/ /\ c.op = "move"
       /\ \/ ~CanMove(c.src, c.id, c.dst)
          \/ c.parent # Top /\ c.parent \notin Nodes(cache[c.dst]) \ Subtree(cache[c.src], c.id)
    \/ c.op = "out" /\ ~CanMove(c.src, c.id, Root)
    \/ c.op = "reorder" /\ c.id \notin Valid(Snapshot(cache))

\* enqueue: the head begins when the one before has ended
BeginCall ==
    /\ step = "idle" /\ queue # <<>>
    /\ Served(Head1) /\ ~Refused(Head1)
    /\ step' = "call"
    /\ UNCHANGED <<trees, entries, queue, Mouse>>

CallRefused ==
    /\ step = "idle" /\ queue # <<>>
    /\ Refused(Head1)
    /\ EndTask
    /\ UNCHANGED <<vars, trees, entries, Mouse>>

\* The files are written; the call fails when they cannot be, and were undone.
ServiceGoesOn ==
    /\ step = "call"
    /\ WriteFile \/ WriteFails \/ Undo \/ UndoFails
    /\ IF writes' = <<>> THEN EndTask ELSE UNCHANGED <<queue, step>>
    /\ UNCHANGED <<trees, entries, Mouse>>

CallSucceeds ==
    /\ step = "call"
    /\ Commit \/ (moving /\ MoveSidebarEntry(Head1.id, Head1.pos))
    /\ step' = "read"
    /\ UNCHANGED <<trees, entries, queue, Mouse>>

\* loadTree; moveSidebarEntry reads the layout alone
ReadTree ==
    /\ step = "read"
    /\ trees' = IF Head1.op = "reorder" THEN trees ELSE cache
    /\ entries' \in View(layout, cache)
    /\ EndTask
    /\ UNCHANGED <<vars, Mouse>>

ReadFails ==
    /\ step = "read" /\ Fault
    /\ EndTask
    /\ UNCHANGED <<files, layout, op, mover, used, torn, trees, entries, Mouse>>
-----------------------------------------------------------------------------
\* Bound: the panel begins with everything that can be created, somewhere.
Lines == UNION {{s \in [1..n -> Items] : IsInjective(s)} : n \in 0..Cardinality(Items)}
FullTrees ==
    {cols \in {[c \in Cols |-> [EmptyTree(RootName) EXCEPT !.kids = kids[c]]] :
                  kids \in [Cols -> [Parents -> Lines]]} :
       /\ \A i \in Items : Cardinality(PlacesOf(cols, i)) = 1
       /\ \A c \in Cols, f \in Folders : cols[c].kids[f] # <<>> => f \in Nodes(cols[c])}

PanelStart ==
    /\ cache \in FullTrees /\ disk = cache /\ next = cache
    /\ layout \in SetToSeqs(Valid(Snapshot(cache)))
    /\ writes = <<>> /\ done = 0 /\ undoing = FALSE /\ change = NoChange
    /\ snap = NoSnapshot /\ moving = FALSE
    /\ used = Entries /\ torn = FALSE /\ faults = 0

\* "files": the service alone, files fail and the program dies at will;
\* "overlap": without failures, but entries of the layout move meanwhile;
\* "panel": the sidebar calls the service.
SidebarInit ==
    /\ part \in {"files", "overlap", "panel"}
    /\ IF part = "panel" THEN PanelStart ELSE Init
    /\ trees = cache /\ entries = layout
    /\ pressed = NoRow /\ drag = NoRow /\ queue = <<>> /\ step = "idle" /\ drops = 0

MouseNext ==
    \/ \E row \in RowsShown : Press(row)
    \/ Click \/ Activate \/ Miss
    \/ drag # NoRow /\ \E place \in Under(drag) : Drop(place)
PanelNext == MouseNext \/ BeginCall \/ CallRefused \/ ServiceGoesOn \/ CallSucceeds \/ ReadTree \/ ReadFails

SidebarNext ==
    /\ part' = part
    /\ \/ part = "files" /\ UNCHANGED dragVars /\ (Operation \/ FilesGoOn \/ Restarts)
       \/ part = "overlap" /\ UNCHANGED <<dragVars, faults>> /\ (Operation \/ FilesGoOn \/ Reorder)
       \/ part = "panel" /\ PanelNext

SidebarSpec == SidebarInit /\ [][SidebarNext]_sidebarVars
-----------------------------------------------------------------------------
(* Properties.                                                             *)

\* Item or entry e is where it was seen to go.
Landed(seen, e, cols, view) ==
    LET s == IF seen.list = RootList THEN view ELSE cols[seen.list[1]].kids[seen.list[2]]
        k == Position(s, e)
    IN  k >= 0 /\ (IF k = Len(s) - 1 THEN NoRow ELSE s[k + 2]) = seen.below

\* A row that is dropped into a collection or a folder, or an entry of the
\* sidebar that is dropped between two others, ends where the user saw it go,
\* with all that is under it; only a folder dropped into itself is refused
\* (collection_service.go:403, 526, use-tree-drag-drop.ts:107).  If another
\* operation was under way, positions were counted in an older tree.
DropLands ==
    [][part = "panel" /\ queue # <<>> /\ queue[1].fresh /\ step # "read" =>
          LET t == queue[1].call
              seen == queue[1].seen
          IN  /\ step = "call" /\ step' = "read"
                    /\ (seen.list # RootList \/ t.op = "reorder") =>
                  /\ \A view \in View(layout', cache') : Landed(seen, t.id, cache', view)
                  /\ t.op = "move" =>
                        \A g \in Subtree(cache[t.src], t.id) \cap Folders :
                           cache'[t.dst].kids[g] = cache[t.src].kids[g]
              /\ step = "idle" /\ Len(queue') < Len(queue) /\ seen.list # RootList =>
                    t.parent \in Subtree(cache[t.src], t.id)]_sidebarVars

\* An item that is dragged out of its collection appears between the entries
\* of the sidebar where it was dropped (collection_service.go:555).
SidebarDropLands ==
    [][part = "panel" /\ step = "call" /\ step' = "read"
          /\ queue[1].fresh /\ queue[1].call.op = "out" =>
          \A view \in View(layout', cache') :
             Landed(queue[1].seen, queue[1].call.id, cache', view)]_sidebarVars

\* Whatever the stored layout lost or kept too long, the sidebar shows every
\* collection and every item of the root once (collection_service.go:488), and
\* once no operation is under way and none has failed it shows them as they are.
SidebarExact ==
    /\ \A view \in View(layout, cache) :
          ToSet(view) = Valid(Snapshot(cache)) /\ Len(view) = Cardinality(ToSet(view))
    /\ part = "panel" /\ queue = <<>> /\ faults = 0 =>
          trees = cache /\ entries \in View(layout, cache)
=============================================================================
