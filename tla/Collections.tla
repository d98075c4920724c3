---------------------------- MODULE Collections ----------------------------
(***************************************************************************)
(* HTTP collections and the sidebar: CollectionService, its unitOfWork and *)
(* SidebarLayoutService (internal/application/http).                       *)
(*                                                                         *)
(* An operation holds the service's lock from its first write to its last. *)
(* It computes the next cache, writes one or two files, undoes them if one *)
(* fails, and only then replaces the cache and adjusts the stored layout.  *)
(* The program may die between any two writes.  MoveSidebarEntry takes no  *)
(* lock of the service between its snapshot and its update.                *)
(***************************************************************************)
EXTENDS CollectionTree

CONSTANTS
    Names,      \* names a collection can have
    MaxVer,     \* bound on the edits of the items of a collection
    MaxLayout,  \* bound on the stored layout when an entry is inserted
    MaxFaults   \* bound on the times that files cannot be written or read

ASSUME NamesArePositive == Names \subseteq Nat \ {0} /\ Names # {}
ASSUME BoundsAreNat == MaxVer \in Nat /\ MaxLayout \in Nat /\ MaxFaults \in Nat

RootName == CHOOSE n \in Names : \A m \in Names : n <= m

VARIABLES
    cache,      \* s.cache
    disk,       \* the collection files
    layout,     \* the sidebar layout file
    next,       \* what the cache becomes if the operation succeeds
    writes,     \* the files the operation writes, in order
    done,       \* how many of them are written and not undone
    undoing,    \* Rollback has begun
    change,     \* what the operation does to the layout
    snap,       \* the snapshot of a MoveSidebarEntry, if moving
    moving,
    used,       \* history: IDs that were given out
    torn,       \* history: a rollback or a recovery stayed incomplete
    faults      \* how often files could not be written or read

files == <<cache, disk>>
op == <<next, writes, done, undoing, change>>
mover == <<snap, moving>>
history == <<used, torn, faults>>
vars == <<files, layout, op, mover, history>>

NoSnapshot == [names |-> <<>>, tops |-> <<>>]
Idle == writes = <<>>

Entries == (Cols \ {Root}) \cup Items

\* The first start of the program: there is no file, so ensureRootCollection
\* makes __root__.  Later it leaves a __root__ alone that cannot be read.
Init ==
    /\ cache = [c \in Cols |-> IF c = Root THEN EmptyTree(RootName) ELSE Absent]
    /\ disk = cache /\ next = cache
    /\ layout = <<>>
    /\ writes = <<>> /\ done = 0 /\ undoing = FALSE /\ change = NoChange
    /\ snap = NoSnapshot /\ moving = FALSE
    /\ used = {} /\ torn = FALSE /\ faults = 0
----------------------------------------------------------------------------
(* unitOfWork                                                              *)

\* An operation takes the lock, passes its checks and knows what to write.
Begin(new, cols, layoutChange) ==
    /\ Idle
    /\ next' = new
    /\ writes' = cols /\ done' = 0 /\ undoing' = FALSE
    /\ change' = layoutChange
    /\ UNCHANGED <<files, layout, mover, torn, faults>>

End == writes' = <<>> /\ done' = 0 /\ undoing' = FALSE /\ change' = NoChange
Fault == faults < MaxFaults /\ faults' = faults + 1

WriteFile ==
    /\ ~undoing /\ done < Len(writes)
    /\ disk' = [disk EXCEPT ![writes[done + 1]] = next[writes[done + 1]]]
    /\ done' = done + 1
    /\ UNCHANGED <<cache, layout, next, writes, undoing, change, mover, history>>

\* Err() is set: Rollback, if there is anything to undo.
WriteFails ==
    /\ ~undoing /\ done < Len(writes)
    /\ Fault
    /\ IF done = 0 THEN End /\ next' = cache
       ELSE undoing' = TRUE /\ UNCHANGED <<next, writes, done, change>>
    /\ UNCHANGED <<files, layout, mover, used, torn>>

UndoStep ==
    /\ undoing
    /\ IF done = 1 THEN End /\ next' = cache
       ELSE done' = done - 1 /\ UNCHANGED <<next, writes, undoing, change>>

Undo ==
    /\ UndoStep
    /\ disk' = [disk EXCEPT ![writes[done]] = cache[writes[done]]]
    /\ UNCHANGED <<cache, layout, mover, history>>

\* An undo that fails, as the write did, is logged.
UndoFails ==
    /\ UndoStep
    /\ torn' = TRUE
    /\ UNCHANGED <<files, layout, mover, used, faults>>

\* Everything is written: the cache is replaced, and the layout as well as it
\* can be (applyLayoutBestEffort).
Commit ==
    /\ ~Idle /\ ~undoing /\ done = Len(writes)
    /\ cache' = next
    /\ \/ layout' = Changed(layout, change) /\ UNCHANGED faults
       \/ layout' = layout /\ change.how # "none" /\ Fault
    /\ End
    /\ UNCHANGED <<disk, next, mover, used, torn>>
----------------------------------------------------------------------------
(* Operations on collections                                               *)

\* An ID is given out once.
New(id) == id \notin used /\ used' = used \cup {id}

CreateCollection(c, name) ==
    /\ New(c)
    /\ Begin([cache EXCEPT ![c] = EmptyTree(name)], <<c>>, AppendEntry(c))

DeleteCollection(c) ==
    /\ Exists(cache[c])
    /\ Begin([cache EXCEPT ![c] = Absent], <<c>>, RemoveEntry(c))
    /\ UNCHANGED used

RenameCollection(c, name) ==
    /\ Exists(cache[c])
    /\ Begin([cache EXCEPT ![c].name = name], <<c>>, NoChange)
    /\ UNCHANGED used

\* AddFolder and AddRequest
AddItem(c, p, i) ==
    /\ Exists(cache[c])
    /\ p = Top \/ p \in Nodes(cache[c])
    /\ New(i)
    /\ Begin([cache EXCEPT ![c].kids[p] = Append(@, i)], <<c>>,
             IF c = Root /\ p = Top THEN AppendEntry(i) ELSE NoChange)

RenameItem(c, i) ==
    /\ Exists(cache[c]) /\ i \in Nodes(cache[c])
    /\ \A j \in Items : cache[c].ver[j] < MaxVer
    /\ Begin([cache EXCEPT ![c].ver[i] = @ + 1], <<c>>, NoChange)
    /\ UNCHANGED used

UpdateRequest(c, i) == i \notin Folders /\ RenameItem(c, i)

DeleteItem(c, i) ==
    /\ Exists(cache[c]) /\ i \in Nodes(cache[c])
    /\ Begin([cache EXCEPT ![c] = Pruned(@, {i})], <<c>>,
             IF c = Root THEN RemoveEntry(i) ELSE NoChange)
    /\ UNCHANGED used

\* Mutant: the source is written first.
MoveSourceFirst(src, i, dst, p, pos, layoutChange) ==
    /\ IF src = dst
       THEN Begin([cache EXCEPT ![src] = Inserted(Pruned(@, {i}), @, i, p, pos)],
                  <<src>>, layoutChange)
       ELSE Begin([cache EXCEPT ![dst] = Inserted(@, cache[src], i, p, pos),
                                ![src] = Pruned(@, {i})],
                  <<src, dst>>, layoutChange)
    /\ UNCHANGED used

\* The caches and files of a move: the target is written before the source.
MoveBetween(src, i, dst, p, pos, layoutChange) ==
    /\ IF src = dst
       THEN Begin([cache EXCEPT ![src] = Inserted(Pruned(@, {i}), @, i, p, pos)],
                  <<src>>, layoutChange)
       ELSE Begin([cache EXCEPT ![dst] = Inserted(@, cache[src], i, p, pos),
                                ![src] = Pruned(@, {i})],
                  <<dst, src>>, layoutChange)
    /\ UNCHANGED used

CanMove(src, i, dst) ==
    /\ Exists(cache[src]) /\ Exists(cache[dst])
    /\ i \in Nodes(cache[src])

MoveItem(src, i, dst, p, pos) ==
    /\ CanMove(src, i, dst)
    /\ p # Top => p \in Nodes(cache[dst]) \ Subtree(cache[src], i)
    /\ MoveBetween(src, i, dst, p,
                   IF src = dst THEN Shifted(cache[dst].kids[p], i, pos) ELSE pos, NoChange)

MoveItemToSidebar(src, i, pos) ==
    /\ CanMove(src, i, Root)
    /\ MoveBetween(src, i, Root, Top, AtEnd, InsertEntry(i, pos))
----------------------------------------------------------------------------
(* Operations on the layout alone                                          *)

\* MoveSidebarEntry, first half: the snapshot is taken under the lock.
TakeSnapshot ==
    /\ Idle /\ ~moving
    /\ snap' = Snapshot(cache) /\ moving' = TRUE
    /\ UNCHANGED <<files, layout, op, history>>

EndMove == snap' = NoSnapshot /\ moving' = FALSE

\* Second half: under the layout's own lock.
MoveSidebarEntry(e, pos) ==
    /\ moving /\ e \in Valid(snap)
    /\ \E view \in Reconciled(layout, snap) : layout' = Moved(view, e, pos)
    /\ EndMove
    /\ UNCHANGED <<files, op, history>>

\* The entry is unknown, or the layout cannot be read or saved.
MoveSidebarFails ==
    /\ moving
    /\ EndMove
    /\ UNCHANGED <<files, layout, op, history>>
----------------------------------------------------------------------------
(* The program ends at any moment and starts again (NewCollectionService). *)

\* Some files cannot be read and are skipped; a duplicate that cannot be saved
\* away stays on disk; so does the layout.
StartWith(unread, recovered, unsaved, keepLayout) ==
    /\ IF unread \cup unsaved = {} /\ ~keepLayout THEN UNCHANGED faults ELSE Fault
    /\ cache' = recovered /\ next' = recovered
    /\ disk' = [c \in Cols |-> IF c \in unread \cup unsaved THEN disk[c] ELSE recovered[c]]
    /\ IF keepLayout THEN layout' = layout
       ELSE layout' \in Reconciled(layout, Snapshot(recovered))
    /\ torn' = (unread # {} \/ unsaved # {})
    /\ End /\ EndMove
    /\ UNCHANGED used

Loaded(unread) == [c \in Cols |-> IF c \in unread THEN Absent ELSE disk[c]]

\* Mutant: duplicates are not recovered.
RestartUnrecovered(unread, unsaved, keepLayout) ==
    /\ unsaved = {}
    /\ StartWith(unread, Loaded(unread), unsaved, keepLayout)

Restart(unread, unsaved, keepLayout) ==
    /\ \A c \in unsaved : Deduped(Loaded(unread))[c] # Loaded(unread)[c]
    /\ StartWith(unread, Deduped(Loaded(unread)), unsaved, keepLayout)
----------------------------------------------------------------------------
Positions == 0..(MaxLayout + 1)

\* One operation of the user, if the lock is free.
Operation ==
    \/ \E c \in Cols \ {Root}, n \in Names : CreateCollection(c, n) \/ RenameCollection(c, n)
    \/ \E c \in Cols \ {Root} : DeleteCollection(c)
    \/ \E c \in Cols, i \in Items :
          \/ \E p \in Parents : AddItem(c, p, i)
          \/ RenameItem(c, i) \/ UpdateRequest(c, i) \/ DeleteItem(c, i)
    \/ \E src, dst \in Cols, i \in Items, p \in Parents, pos \in 0..Cardinality(Items) :
          MoveItem(src, i, dst, p, pos)
    \/ /\ Len(layout) < MaxLayout
       /\ \E src \in Cols \ {Root}, i \in Items, pos \in Positions : MoveItemToSidebar(src, i, pos)

FilesGoOn == WriteFile \/ WriteFails \/ Undo \/ UndoFails \/ Commit

Reorder ==
    \/ TakeSnapshot \/ MoveSidebarFails
    \/ \E e \in Entries, pos \in Positions : MoveSidebarEntry(e, pos)

Restarts ==
    \E unread, unsaved \in SUBSET {c \in Cols : Exists(disk[c])}, keepLayout \in BOOLEAN :
       Restart(unread, unsaved, keepLayout)

\* GetSidebarLayout: what the sidebar shows.
View(store, cols) == Reconciled(store, Snapshot(cols))
----------------------------------------------------------------------------
(* Properties                                                              *)

\* No item is in two places of the cache, whatever failed and whenever the
\* program died (reconcile.go:9).
NoDuplicates == \A i \in Items : Cardinality(PlacesOf(cache, i)) <= 1

\* If the program dies now, its next start finds the collections as before the
\* operation in progress or as after it: nothing is lost, doubled or mixed
\* (collection_service.go:469).  Unless a rollback has failed.
CrashAtomic == ~torn => Deduped(disk) \in {cache, next}

=============================================================================
