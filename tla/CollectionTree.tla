--------------------------- MODULE CollectionTree ---------------------------
(***************************************************************************)
(* The pure part of the HTTP collections: the trees of folders and         *)
(* requests (internal/domain/http/types.go), the recovery of duplicated    *)
(* items and the reconciliation of the sidebar layout                      *)
(* (internal/application/http/reconcile.go, sidebar_layout_service.go).    *)
(*                                                                         *)
(* A tree gives the children of each folder, and of Top, in their order.   *)
(* IDs are unique, so a layout entry is just the ID it names.  Collections *)
(* are numbered in the order of their IDs, the reserved __root__ first.    *)
(***************************************************************************)
EXTENDS Integers, Sequences, SequencesExt, FiniteSets, Arrays

CONSTANTS
    Items,      \* folders and requests
    Folders,    \* those that are folders
    Top,        \* the parent of what is directly in a collection
    MaxCol      \* collections are 0..MaxCol

Root == 0
Cols == 0..MaxCol

ASSUME FoldersAreItems == Folders \subseteq Items /\ IsFiniteSet(Items)
ASSUME IdsAreUnique == Top \notin Items /\ Items \cap Cols = {}
ASSUME MaxColIsNat == MaxCol \in Nat

Parents == Folders \cup {Top}
----------------------------------------------------------------------------
(* Trees                                                                   *)

EmptyTree(name) ==
    [name |-> name, kids |-> [p \in Parents |-> <<>>], ver |-> [i \in Items |-> 0]]

\* The file of a collection that does not exist.
Absent == [name |-> 0, kids |-> [p \in Parents |-> <<>>], ver |-> [i \in Items |-> 0]]

\* What is in or under the nodes of start; the walk does not enter stop.
Followed(t, S, stop) == \A f \in (S \cap Folders) \ stop : ToSet(t.kids[f]) \subseteq S
Within(t, start, stop) ==
    {i \in Items : \A S \in SUBSET Items : start \subseteq S /\ Followed(t, S, stop) => i \in S}

Nodes(t) == Within(t, ToSet(t.kids[Top]), {})
Subtree(t, i) == Within(t, {i}, {})

\* Where an item is: in which collection, below what, and in which position.
PlacesOf(cols, i) ==
    {w \in Cols \X Parents \X (1..Cardinality(Items)) :
       LET s == cols[w[1]].kids[w[2]] IN w[3] <= Len(s) /\ s[w[3]] = i}

\* RemoveNode, for each of gone.
Pruned(t, gone) ==
    LET sub == Within(t, gone, {})
    IN  [name |-> t.name,
         kids |-> [p \in Parents |->
                     IF p \in sub THEN <<>> ELSE Only(t.kids[p], Items \ gone)],
         ver  |-> [i \in Items |-> IF i \in sub THEN 0 ELSE t.ver[i]]]

\* InsertAt: a position out of range means the end.
Placed(s, e, pos) == IF pos \in 0..Len(s) THEN InsertAt(s, pos + 1, e) ELSE Append(s, e)
AtEnd == -1

\* InsertItem (AppendItem at the end): item i of tree from, with all that is
\* under it, becomes a child of p.
Inserted(t, from, i, p, pos) ==
    LET sub == Subtree(from, i)
    IN  [name |-> t.name,
         kids |-> [q \in Parents |->
                     CASE q = p -> Placed(t.kids[p], i, pos)
                       [] q \in sub -> from.kids[q]
                       [] OTHER -> t.kids[q]],
         ver  |-> [j \in Items |-> IF j \in sub THEN from.ver[j] ELSE t.ver[j]]]

\* Where an element goes whose own removal moves what is behind it.
Shifted(s, e, pos) == IF \E k \in 1..Len(s) : s[k] = e /\ k <= pos THEN pos - 1 ELSE pos
----------------------------------------------------------------------------
(* dropDuplicateItems: the first occurrence is kept, in the order of the   *)
(* collections; what is under a duplicate goes with it and is not scanned. *)

\* What has been seen before the scan comes to a collection.
Scanned(cols) ==
    LET Seen[c \in 0..(MaxCol + 1)] ==
          IF c = 0 THEN {}
          ELSE Seen[c - 1] \cup Within(cols[c - 1], ToSet(cols[c - 1].kids[Top]), Seen[c - 1])
    IN  Seen

Deduped(cols) ==
    LET Seen == Scanned(cols)
        Dup(c) == Within(cols[c], ToSet(cols[c].kids[Top]), Seen[c]) \cap Seen[c]
    IN  [c \in Cols |-> Pruned(cols[c], Dup(c))]
----------------------------------------------------------------------------
(* The sidebar                                                             *)

Exists(t) == t # Absent

\* snapshotForLayout: the collections with their names, and what is at the top
\* of __root__.
Snapshot(cols) ==
    [names |-> [c \in {d \in Cols \ {Root} : Exists(cols[d])} |-> cols[c].name],
     tops  |-> cols[Root].kids[Top]]
Valid(snap) == DOMAIN snap.names \cup ToSet(snap.tops)

\* Mutant: an entry that is doubled stays so.
AllValid(layout, valid) == SelectSeq(layout, LAMBDA e : e \in valid)

\* The entries of a layout that are valid, each at its first occurrence.
FirstValid(layout, valid) ==
    LET firsts == {k \in DOMAIN layout : layout[k] \in valid /\ \A j \in 1..(k - 1) : layout[j] # layout[k]}
        ranks == Ranked(firsts, {p \in firsts \X firsts : p[1] < p[2]})
    IN  [k \in DOMAIN ranks |-> layout[ranks[k]]]

\* reconcileSidebarLayout: missing collections come by name, in any order when
\* they are equal, then the missing items.
Reconciled(layout, snap) ==
    LET kept == FirstValid(layout, Valid(snap))
        missing == DOMAIN snap.names \ ToSet(kept)
        byName == {s \in SetToSeqs(missing) :
                     \A j, k \in 1..Len(s) : j < k => snap.names[s[j]] <= snap.names[s[k]]}
        items == Only(snap.tops, Items \ ToSet(kept))
    IN  {kept \o s \o items : s \in byName}

\* layoutMove; the entry is in the layout.
Moved(layout, e, pos) ==
    LET k == CHOOSE j \in 1..Len(layout) : layout[j] = e /\ \A l \in 1..(j - 1) : layout[l] # e
    IN  Placed(RemoveAt(layout, k), e, IF k <= pos THEN pos - 1 ELSE pos)

\* What an operation does to the stored layout.
NoChange == [how |-> "none", id |-> Top, pos |-> AtEnd]
AppendEntry(e) == [how |-> "append", id |-> e, pos |-> AtEnd]
RemoveEntry(e) == [how |-> "remove", id |-> e, pos |-> AtEnd]
InsertEntry(e, pos) == [how |-> "insert", id |-> e, pos |-> pos]
Changed(layout, change) ==
    CASE change.how = "none"   -> layout
      [] change.how = "append" -> Append(layout, change.id)
      [] change.how = "remove" -> Only(layout, ToSet(layout) \ {change.id})
      [] change.how = "insert" -> Placed(layout, change.id, change.pos)
=============================================================================
