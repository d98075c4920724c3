------------------------- MODULE HttpRequestsProofs --------------------------
(***************************************************************************)
(* Proofs about the response store and the service that uses it, for any   *)
(* executions and limits.  The store: its books are exact, the limits      *)
(* hold, no file is orphaned or taken from a save, and a closed store      *)
(* leaves nothing behind.  The service: it uses the store as ResponseStore *)
(* allows, an early cancel wins, and a drained shutdown is quiet.          *)
(***************************************************************************)
EXTENDS HttpRequests, FiniteSetTheorems, TLAPS

\* What an entry may look like, and what is left of it in a closed store.
EntryShape(x) ==
    /\ entry[x].spilling => entry[x].state = "running" /\ entry[x].reserved = Reserve
    /\ entry[x].file <=> entry[x].state \in {"ready", "saving"}
    /\ ~HasFile(x) => entry[x].reserved = 0
    /\ entry[x].state = "none" => ~HasFile(x) /\ ~entry[x].expired
    /\ storeClosed => entry[x].state \in {"none", "saving"}

\* How an entry, the call that writes its file and the file agree.
CallShape(x) ==
    /\ entry[x].spilling => Spilling(x)
    /\ Spilling(x) => entry[x].spilling \/ storeClosed
    /\ Spilling(x) => entry[x].state \in {"none", "running"}
    /\ call[x] = "writing" => disk[x] \/ storeClosed
    /\ disk[x] => entry[x].file \/ call[x] = "writing"

\* How an entry, its lease and the file agree.
LeaseShape(x) ==
    /\ lease[x] # "none" <=> entry[x].state = "saving"
    /\ entry[x].file => disk[x] \/ x \in vanished \/ lease[x] = "removed"
    /\ lease[x] = "removed" => ~disk[x]

Shape ==
    /\ dirGone => storeClosed
    /\ \A x \in Executions : EntryShape(x) /\ CallShape(x) /\ LeaseShape(x)

----------------------------------------------------------------------------

\* The units of space of a set are finitely many.
LEMMA ReservedFinite ==
  ASSUME StoreTypeOK, NEW set
  PROVE  Reserved(set) \in Nat /\ FilesOf(set \cap Executions) \in Nat
<1>1. IsFiniteSet(1..Reserve)
  BY FS_Interval, LimitsNat
<1>2. IsFiniteSet(Executions \X (1..Reserve))
  BY <1>1, ExecutionsFinite, FS_Product
<1>3. IsFiniteSet({u \in Executions \X (1..Reserve) : u[1] \in set /\ u[2] <= entry[u[1]].reserved})
  BY <1>2, FS_Subset
<1>4. IsFiniteSet({x \in set \cap Executions : HasFile(x)})
  BY ExecutionsFinite, FS_Subset
<1>5. QED
  BY <1>3, <1>4, FS_CardinalityType DEF Reserved, FilesOf

\* Dropping entries leaves entries.
LEMMA WithoutType ==
  ASSUME StoreTypeOK, NEW gone \in SUBSET Executions
  PROVE  Without(gone) \in [Executions -> Entry]
  BY LimitsNat DEF StoreTypeOK, Without, NoEntry, Entry

\* Changing the state of an entry leaves the rest of it alone.
LEMMA MovedEntry ==
  ASSUME NEW e \in Entry, NEW s \in {"none", "running", "ready", "saving"}
  PROVE  LET f == [e EXCEPT !.state = s]
         IN /\ f \in Entry
            /\ f.spilling = e.spilling /\ f.file = e.file /\ f.expired = e.expired
            /\ f.state = s /\ f.reserved = e.reserved
  BY DEF Entry

\* So does the passing of time.
LEMMA ExpiredEntry ==
  ASSUME NEW e \in Entry
  PROVE  LET f == [e EXCEPT !.expired = TRUE]
         IN /\ f \in Entry
            /\ f.spilling = e.spilling /\ f.file = e.file /\ f.state = e.state
            /\ f.reserved = e.reserved
  BY DEF Entry

\* Every step keeps the variables in their types.
LEMMA TypeStep == StoreTypeOK /\ Shape /\ [StoreNext]_storeVars => StoreTypeOK'
<1> SUFFICES ASSUME StoreTypeOK, Shape, [StoreNext]_storeVars PROVE StoreTypeOK'
  OBVIOUS
<1> USE LimitsNat DEF StoreTypeOK, storeVars, bookVars, fileVars

<1>a. ASSUME NEW set \in SUBSET Executions PROVE Reserved(set) \in Nat /\ FilesOf(set) \in Nat
  <2>1. set \cap Executions = set
    OBVIOUS
  <2>2. QED
    BY <2>1, ReservedFinite
<1>1. ASSUME NEW gone \in SUBSET Expired, NEW x \in Executions, Begin(x, gone)
      PROVE  StoreTypeOK'
  <2>1. Without(gone) \in [Executions -> Entry]
    BY WithoutType DEF Expired, StoreTypeOK
  <2>e. entry[x] \in Entry /\ Reserve \in 0..Reserve /\ 0 \in 0..Reserve
    OBVIOUS
  <2>2. Running \in Entry
    BY <2>e, LimitsNat DEF Entry, Running
  <2>3. entry' \in [Executions -> Entry]
    BY <1>1, <2>1, <2>2 DEF Begin
  <2>4. QED
    BY <1>1, <1>a, <2>3 DEF Begin, Release, Remove, Calls, Leases, Expired
<1>2. ASSUME NEW gone \in SUBSET Expired, NEW x \in Executions, StartSpill(x, gone)
      PROVE  StoreTypeOK'
  <2>1. Without(gone) \in [Executions -> Entry]
    BY WithoutType DEF Expired, StoreTypeOK
  <2>e. entry[x] \in Entry /\ Reserve \in 0..Reserve /\ 0 \in 0..Reserve
    OBVIOUS
  <2>2. Writing \in Entry
    BY <2>e, LimitsNat DEF Entry, Writing
  <2>3. entry' \in [Executions -> Entry]
    BY <1>2, <2>1, <2>2 DEF StartSpill
  <2>4. QED
    BY <1>2, <1>a, <2>3 DEF StartSpill, Release, Remove, Calls, Leases,
       Expired
<1>3. ASSUME NEW gone \in SUBSET Expired, NEW x \in Executions, RefuseSpill(x, gone)
      PROVE  StoreTypeOK'
  BY <1>3, <1>a DEF RefuseSpill, Drop, Without, Release, Remove, Calls,
     Expired, NoEntry, Entry
<1>4. ASSUME NEW gone \in SUBSET Expired, NEW x \in Executions, AcquireSave(x, gone)
      PROVE  StoreTypeOK'
  <2>1. Without(gone) \in [Executions -> Entry]
    BY WithoutType DEF Expired, StoreTypeOK
  <2>e. entry[x] \in Entry /\ Reserve \in 0..Reserve /\ 0 \in 0..Reserve
    OBVIOUS
  <2>2. [entry[x] EXCEPT !.state = "saving"] \in Entry
    BY <2>e, MovedEntry
  <2>3. entry' \in [Executions -> Entry]
    BY <1>4, <2>1, <2>2 DEF AcquireSave
  <2>4. QED
    BY <1>4, <1>a, <2>3 DEF AcquireSave, Release, Remove, Calls, Leases,
       Expired
<1>5. ASSUME NEW gone \in SUBSET Expired, Refused(gone) PROVE StoreTypeOK'
  BY <1>5, <1>a DEF Refused, Drop, Without, Release, Remove, Expired,
     NoEntry, Entry
<1>6. ASSUME NEW x \in Executions, NoSpill(x) PROVE StoreTypeOK'
  BY <1>6 DEF NoSpill, Calls, Entry
<1>7. ASSUME NEW x \in Executions, SpillTooLate(x) PROVE StoreTypeOK'
  BY <1>7 DEF SpillTooLate, Calls, Entry
<1>8. ASSUME NEW x \in Executions, CreateTemp(x) PROVE StoreTypeOK'
  BY <1>8 DEF CreateTemp, Calls, Entry
<1>9. ASSUME NEW x \in Executions, CreateFails(x) PROVE StoreTypeOK'
  BY <1>9 DEF CreateFails, Calls, Entry
<1>10. ASSUME NEW x \in Executions, WriteFails(x) PROVE StoreTypeOK'
  BY <1>10 DEF WriteFails, Calls, Remove, Entry
<1>11. ASSUME NEW x \in Executions, AbortSpill(x) PROVE StoreTypeOK'
  <2>e. entry[x] \in Entry /\ Reserve \in 0..Reserve /\ 0 \in 0..Reserve
    OBVIOUS
  <2>2. Running \in Entry
    BY <2>e, LimitsNat DEF Entry, Running
  <2>3. entry' \in [Executions -> Entry]
    BY <1>11, <2>2 DEF AbortSpill
  <2>r. entry[x].reserved \in Int
    BY DEF Entry
  <2>4. QED
    BY <1>11, <1>a, <2>3, <2>r DEF AbortSpill, Release, Remove, Calls,
       Leases, Expired
<1>12. ASSUME NEW x \in Executions, AbortOvertaken(x) PROVE StoreTypeOK'
  BY <1>12 DEF AbortOvertaken, Calls, Entry
<1>13. ASSUME NEW x \in Executions, CommitSpill(x) PROVE StoreTypeOK'
  BY <1>13 DEF CommitSpill, Calls, Ready, NoEntry, Entry
<1>14. ASSUME NEW x \in Executions, CommitTooLate(x) PROVE StoreTypeOK'
  BY <1>14 DEF CommitTooLate, Calls, Remove, Entry
<1>15. ASSUME NEW x \in Executions, Finish(x) PROVE StoreTypeOK'
  BY <1>15 DEF Finish, Calls, NoEntry, Entry
<1>16. ASSUME NEW x \in Executions, NotSaved(x) PROVE StoreTypeOK'
  BY <1>16 DEF NotSaved, Leases, Entry
<1>17. ASSUME NEW x \in Executions, Copied(x) PROVE StoreTypeOK'
  BY <1>17 DEF Copied, Leases, Entry
<1>18. ASSUME NEW x \in Executions, RemoveSaved(x) PROVE StoreTypeOK'
  BY <1>18 DEF RemoveSaved, Leases, Remove, Entry
<1>19. ASSUME NEW x \in Executions, RemoveSavedFails(x) PROVE StoreTypeOK'
  BY <1>19 DEF RemoveSavedFails, Leases, Entry
<1>20. ASSUME NEW x \in Executions, DropSaved(x) PROVE StoreTypeOK'
  BY <1>20, <1>a DEF DropSaved, Leases, Drop, Without, Release, NoEntry,
     Entry
<1>21. ASSUME NEW x \in Executions, RestoreReady(x) PROVE StoreTypeOK'
  BY <1>21 DEF RestoreReady, Leases, Entry
<1>22. ASSUME NEW x \in Executions, RestoreLost(x) PROVE StoreTypeOK'
  BY <1>22, <1>a DEF RestoreLost, Leases, Drop, Without, Release, NoEntry,
     Entry
<1>23. ASSUME NEW x \in Executions, RestoreClosed(x) PROVE StoreTypeOK'
  BY <1>23, <1>a DEF RestoreClosed, Leases, Remove, Drop, Without, Release,
     NoEntry, Entry
<1>24. ASSUME NEW x \in Executions, Discard(x) PROVE StoreTypeOK'
  BY <1>24, <1>a DEF Discard, Remove, Drop, Without, Release, NoEntry, Entry
<1>25. ASSUME NEW x \in Executions, Expire(x) PROVE StoreTypeOK'
  BY <1>25 DEF Expire, Entry
<1>26. ASSUME NEW x \in Executions, Vanish(x) PROVE StoreTypeOK'
  BY <1>26 DEF Vanish, Entry
<1>27. CASE CleanupWhole
  BY <1>27, <1>a DEF CleanupWhole, Drop, Without, Release, Saving, NoEntry,
     Entry
<1>28. CASE CleanupFiles
  BY <1>28, <1>a DEF CleanupFiles, Drop, Without, Release, Remove, Saving,
     NoEntry, Entry
<1>29. CASE UNCHANGED storeVars
  BY <1>29 DEF storeVars, Entry
<1>30. QED
  BY <1>1, <1>2, <1>3, <1>4, <1>5, <1>6, <1>7, <1>8, <1>9, <1>10, <1>11,
     <1>12, <1>13, <1>14, <1>15, <1>16, <1>17, <1>18, <1>19, <1>20, <1>21,
     <1>22, <1>23, <1>24, <1>25, <1>26, <1>27, <1>28, <1>29
  DEF StoreNext, Operate, Spill, Save

\* Every step keeps entries, calls, leases and files in agreement.
LEMMA ShapeStep == StoreTypeOK /\ Shape /\ [StoreNext]_storeVars => Shape'
<1> SUFFICES ASSUME StoreTypeOK, Shape, [StoreNext]_storeVars PROVE Shape'
  OBVIOUS
<1> USE LimitsNat DEF StoreTypeOK, storeVars, bookVars, fileVars, Shape, EntryShape, CallShape,
                     LeaseShape, Spilling, HasFile, NoEntry
<1>1. ASSUME NEW gone \in SUBSET Expired, NEW x \in Executions, Begin(x, gone)
      PROVE  Shape'
  <2>1. Without(gone) \in [Executions -> Entry]
    BY WithoutType DEF Expired
  <2>2. \A y \in gone : Without(gone)[y] = NoEntry
    BY DEF Without, Expired
  <2>3. \A y \in Executions \ gone : Without(gone)[y] = entry[y]
    BY DEF Without
  <2>4. entry[x] \in Entry /\ Reserve \in 0..Reserve /\ 0 \in 0..Reserve
    OBVIOUS
  <2>5. /\ entry'[x].state = "running" /\ ~entry'[x].file
        /\ ~entry'[x].spilling /\ entry'[x].reserved = 0
    <3>1. entry'[x] = Running
      BY <1>1, <2>1 DEF Begin
    <3>2. QED
      BY <2>4, <3>1 DEF Running
  <2>6. \A y \in Executions \ {x} : entry'[y] = Without(gone)[y]
    BY <1>1, <2>1 DEF Begin
  <2>7. /\ ~storeClosed
        /\ storeClosed' = storeClosed /\ dirGone' = dirGone /\ vanished' = vanished
        /\ \A y \in Executions : disk'[y] = (disk[y] /\ y \notin gone)
        /\ lease' = lease
        /\ \A y \in Executions \ {x} : call'[y] = call[y]
        /\ call[x] = "none" /\ call'[x] = "begun"
        /\ x \in gone \/ entry[x].state = "none"
    BY <1>1, <2>2, <2>3 DEF Begin, Remove, Calls, Leases, Expired, NoEntry
  <2>8. QED
    BY <2>2, <2>3, <2>5, <2>6, <2>7 DEF Expired, NoEntry
<1>2. ASSUME NEW gone \in SUBSET Expired, NEW x \in Executions, StartSpill(x, gone)
      PROVE  Shape'
  <2>1. Without(gone) \in [Executions -> Entry]
    BY WithoutType DEF Expired
  <2>2. \A y \in gone : Without(gone)[y] = NoEntry
    BY DEF Without, Expired
  <2>3. \A y \in Executions \ gone : Without(gone)[y] = entry[y]
    BY DEF Without
  <2>4. entry[x] \in Entry /\ Reserve \in 0..Reserve /\ 0 \in 0..Reserve
    OBVIOUS
  <2>5. /\ entry'[x].state = "running" /\ ~entry'[x].file
        /\ entry'[x].spilling /\ entry'[x].reserved = Reserve
    <3>1. entry'[x] = Writing
      BY <1>2, <2>1 DEF StartSpill
    <3>2. QED
      BY <2>4, <3>1 DEF Writing
  <2>6. \A y \in Executions \ {x} : entry'[y] = Without(gone)[y]
    BY <1>2, <2>1 DEF StartSpill
  <2>7. /\ ~storeClosed
        /\ storeClosed' = storeClosed /\ dirGone' = dirGone /\ vanished' = vanished
        /\ \A y \in Executions : disk'[y] = (disk[y] /\ y \notin gone)
        /\ lease' = lease
        /\ \A y \in Executions \ {x} : call'[y] = call[y]
        /\ call[x] = "begun" /\ call'[x] = "creating"
        /\ entry[x].state = "running" /\ ~HasFile(x)
    BY <1>2, <2>2, <2>3 DEF StartSpill, Remove, Calls, Leases, Expired, NoEntry
  <2>8. QED
    BY <2>2, <2>3, <2>5, <2>6, <2>7 DEF Expired, NoEntry
<1>3. ASSUME NEW gone \in SUBSET Expired, NEW x \in Executions, RefuseSpill(x, gone)
      PROVE  Shape'
  BY <1>3 DEF RefuseSpill, Drop, Without, Release, Remove, Calls, Expired,
     NoEntry, Entry
<1>4. ASSUME NEW gone \in SUBSET Expired, NEW x \in Executions, AcquireSave(x, gone)
      PROVE  Shape'
  <2>1. Without(gone) \in [Executions -> Entry]
    BY WithoutType DEF Expired
  <2>2. \A y \in gone : Without(gone)[y] = NoEntry
    BY DEF Without, Expired
  <2>3. \A y \in Executions \ gone : Without(gone)[y] = entry[y]
    BY DEF Without
  <2>4. entry[x] \in Entry /\ Reserve \in 0..Reserve /\ 0 \in 0..Reserve
    OBVIOUS
  <2>5. /\ entry'[x].state = "saving" /\ entry'[x].file = entry[x].file
        /\ entry'[x].spilling = entry[x].spilling /\ entry'[x].reserved = entry[x].reserved
    <3>1. entry'[x] = [entry[x] EXCEPT !.state = "saving"]
      BY <1>4, <2>1 DEF AcquireSave
    <3>2. QED
      BY <2>4, <3>1, MovedEntry
  <2>6. \A y \in Executions \ {x} : entry'[y] = Without(gone)[y]
    BY <1>4, <2>1 DEF AcquireSave
  <2>7. /\ ~storeClosed
        /\ storeClosed' = storeClosed /\ dirGone' = dirGone /\ vanished' = vanished
        /\ \A y \in Executions : disk'[y] = (disk[y] /\ y \notin gone)
        /\ call' = call
        /\ lease[x] = "none" /\ lease'[x] = "held"
        /\ \A y \in Executions \ {x} : lease'[y] = lease[y]
        /\ entry[x].state = "ready" /\ x \notin gone
    BY <1>4, <2>2, <2>3 DEF AcquireSave, Remove, Calls, Leases, Expired, NoEntry
  <2>8. QED
    BY <2>2, <2>3, <2>5, <2>6, <2>7 DEF Expired, NoEntry
<1>5. ASSUME NEW gone \in SUBSET Expired, Refused(gone) PROVE Shape'
  BY <1>5 DEF Refused, Drop, Without, Release, Remove, Expired, NoEntry,
     Entry
<1>6. ASSUME NEW x \in Executions, NoSpill(x) PROVE Shape'
  BY <1>6 DEF NoSpill, Calls, Entry
<1>7. ASSUME NEW x \in Executions, SpillTooLate(x) PROVE Shape'
  BY <1>7 DEF SpillTooLate, Calls, Entry
<1>8. ASSUME NEW x \in Executions, CreateTemp(x) PROVE Shape'
  BY <1>8 DEF CreateTemp, Calls, Entry
<1>9. ASSUME NEW x \in Executions, CreateFails(x) PROVE Shape'
  BY <1>9 DEF CreateFails, Calls, Entry
<1>10. ASSUME NEW x \in Executions, WriteFails(x) PROVE Shape'
  BY <1>10 DEF WriteFails, Calls, Remove, Entry
<1>11. ASSUME NEW x \in Executions, AbortSpill(x) PROVE Shape'
  <2>1. entry \in [Executions -> Entry]
    OBVIOUS
  <2>4. entry[x] \in Entry /\ Reserve \in 0..Reserve /\ 0 \in 0..Reserve
    OBVIOUS
  <2>5. /\ entry'[x].state = "running" /\ ~entry'[x].file
        /\ ~entry'[x].spilling /\ entry'[x].reserved = 0
    <3>1. entry'[x] = Running
      BY <1>11, <2>1 DEF AbortSpill
    <3>2. QED
      BY <2>4, <3>1 DEF Running
  <2>6. \A y \in Executions \ {x} : entry'[y] = entry[y]
    BY <1>11, <2>1 DEF AbortSpill
  <2>7. /\ storeClosed' = storeClosed /\ dirGone' = dirGone /\ vanished' = vanished /\ disk' = disk
        /\ lease' = lease
        /\ \A y \in Executions \ {x} : call'[y] = call[y]
        /\ call[x] = "aborting" /\ call'[x] = "ending" /\ entry[x].spilling
    BY <1>11 DEF AbortSpill, Remove, Calls, Leases, Expired, NoEntry
  <2>8. QED
    BY <2>5, <2>6, <2>7 DEF Expired, NoEntry
<1>12. ASSUME NEW x \in Executions, AbortOvertaken(x) PROVE Shape'
  BY <1>12 DEF AbortOvertaken, Calls, Entry
<1>13. ASSUME NEW x \in Executions, CommitSpill(x) PROVE Shape'
  BY <1>13 DEF CommitSpill, Calls, Ready, NoEntry, Entry
<1>14. ASSUME NEW x \in Executions, CommitTooLate(x) PROVE Shape'
  BY <1>14 DEF CommitTooLate, Calls, Remove, Entry
<1>15. ASSUME NEW x \in Executions, Finish(x) PROVE Shape'
  BY <1>15 DEF Finish, Calls, NoEntry, Entry
<1>16. ASSUME NEW x \in Executions, NotSaved(x) PROVE Shape'
  BY <1>16 DEF NotSaved, Leases, Entry
<1>17. ASSUME NEW x \in Executions, Copied(x) PROVE Shape'
  BY <1>17 DEF Copied, Leases, Entry
<1>18. ASSUME NEW x \in Executions, RemoveSaved(x) PROVE Shape'
  BY <1>18 DEF RemoveSaved, Leases, Remove, Entry
<1>19. ASSUME NEW x \in Executions, RemoveSavedFails(x) PROVE Shape'
  BY <1>19 DEF RemoveSavedFails, Leases, Entry
<1>20. ASSUME NEW x \in Executions, DropSaved(x) PROVE Shape'
  BY <1>20 DEF DropSaved, Leases, Drop, Without, Release, NoEntry, Entry
<1>21. ASSUME NEW x \in Executions, RestoreReady(x) PROVE Shape'
  BY <1>21 DEF RestoreReady, Leases, Entry
<1>22. ASSUME NEW x \in Executions, RestoreLost(x) PROVE Shape'
  BY <1>22 DEF RestoreLost, Leases, Drop, Without, Release, NoEntry, Entry
<1>23. ASSUME NEW x \in Executions, RestoreClosed(x) PROVE Shape'
  BY <1>23 DEF RestoreClosed, Leases, Remove, Drop, Without, Release,
     NoEntry, Entry
<1>24. ASSUME NEW x \in Executions, Discard(x) PROVE Shape'
  BY <1>24 DEF Discard, Remove, Drop, Without, Release, NoEntry, Entry
<1>25. ASSUME NEW x \in Executions, Expire(x) PROVE Shape'
  <2>1. entry \in [Executions -> Entry]
    OBVIOUS
  <2>4. entry[x] \in Entry /\ Reserve \in 0..Reserve /\ 0 \in 0..Reserve
    OBVIOUS
  <2>5. /\ entry'[x].state = entry[x].state /\ entry'[x].file = entry[x].file
        /\ entry'[x].spilling = entry[x].spilling /\ entry'[x].reserved = entry[x].reserved
    <3>1. entry'[x] = [entry[x] EXCEPT !.expired = TRUE]
      BY <1>25, <2>1 DEF Expire
    <3>2. QED
      BY <2>4, <3>1, ExpiredEntry
  <2>6. \A y \in Executions \ {x} : entry'[y] = entry[y]
    BY <1>25, <2>1 DEF Expire
  <2>7. /\ storeClosed' = storeClosed /\ dirGone' = dirGone /\ vanished' = vanished /\ disk' = disk
        /\ lease' = lease
        /\ call' = call
        /\ entry[x].state \in {"ready", "saving"}
    BY <1>25 DEF Expire, Remove, Calls, Leases, Expired, NoEntry
  <2>8. QED
    BY <2>5, <2>6, <2>7 DEF Expired, NoEntry
<1>26. ASSUME NEW x \in Executions, Vanish(x) PROVE Shape'
  BY <1>26 DEF Vanish, Entry
<1>27. CASE CleanupWhole
  BY <1>27 DEF CleanupWhole, Drop, Without, Release, Saving, NoEntry, Entry
<1>28. CASE CleanupFiles
  BY <1>28 DEF CleanupFiles, Drop, Without, Release, Remove, Saving,
     NoEntry, Entry
<1>29. CASE UNCHANGED storeVars
  BY <1>29 DEF storeVars, Entry
<1>30. QED
  BY <1>1, <1>2, <1>3, <1>4, <1>5, <1>6, <1>7, <1>8, <1>9, <1>10, <1>11,
     <1>12, <1>13, <1>14, <1>15, <1>16, <1>17, <1>18, <1>19, <1>20, <1>21,
     <1>22, <1>23, <1>24, <1>25, <1>26, <1>27, <1>28, <1>29
  DEF StoreNext, Operate, Spill, Save

----------------------------------------------------------------------------
\* Reserved and FilesOf for any entries.
UnitsIn(e, set) == {u \in Executions \X (1..Reserve) : u[1] \in set /\ u[2] <= e[u[1]].reserved}
FilesIn(e, set) == {x \in set : e[x].spilling \/ e[x].file}

\* Entries with the same reservation and number of files.
Alike(p, q) ==
    p.reserved = q.reserved /\ ((p.spilling \/ p.file) <=> (q.spilling \/ q.file))

\* All these sets are finite.
LEMMA Finiteness ==
  ASSUME NEW e, NEW set \in SUBSET Executions
  PROVE  IsFiniteSet(UnitsIn(e, set)) /\ IsFiniteSet(FilesIn(e, set))
<1>1. IsFiniteSet(1..Reserve)
  BY FS_Interval, LimitsNat
<1>2. IsFiniteSet(Executions \X (1..Reserve))
  BY <1>1, ExecutionsFinite, FS_Product
<1>3. UnitsIn(e, set) \in SUBSET (Executions \X (1..Reserve))
  BY DEF UnitsIn
<1>4. FilesIn(e, set) \in SUBSET Executions
  BY DEF FilesIn
<1>5. QED
  BY <1>2, <1>3, <1>4, ExecutionsFinite, FS_Subset

\* The books of two disjoint sets add up.
LEMMA Additive ==
  ASSUME NEW e, NEW one \in SUBSET Executions, NEW two \in SUBSET Executions, one \cap two = {}
  PROVE  /\ Cardinality(UnitsIn(e, one \cup two)) =
              Cardinality(UnitsIn(e, one)) + Cardinality(UnitsIn(e, two))
         /\ Cardinality(FilesIn(e, one \cup two)) =
              Cardinality(FilesIn(e, one)) + Cardinality(FilesIn(e, two))
<1>1. /\ UnitsIn(e, one \cup two) = UnitsIn(e, one) \cup UnitsIn(e, two)
      /\ UnitsIn(e, one) \cap UnitsIn(e, two) = {}
  BY DEF UnitsIn
<1>2. /\ FilesIn(e, one \cup two) = FilesIn(e, one) \cup FilesIn(e, two)
      /\ FilesIn(e, one) \cap FilesIn(e, two) = {}
  BY DEF FilesIn
<1>3. /\ Cardinality(UnitsIn(e, one)) \in Nat /\ Cardinality(UnitsIn(e, two)) \in Nat
      /\ Cardinality(FilesIn(e, one)) \in Nat /\ Cardinality(FilesIn(e, two)) \in Nat
  BY Finiteness, FS_CardinalityType
<1>4. Cardinality(UnitsIn(e, one) \cup UnitsIn(e, two)) =
        Cardinality(UnitsIn(e, one)) + Cardinality(UnitsIn(e, two)) - Cardinality({})
  BY <1>1, Finiteness, FS_Union
<1>5. Cardinality(FilesIn(e, one) \cup FilesIn(e, two)) =
        Cardinality(FilesIn(e, one)) + Cardinality(FilesIn(e, two)) - Cardinality({})
  BY <1>2, Finiteness, FS_Union
<1>6. Cardinality({}) = 0
  BY FS_EmptySet
<1>7. /\ Cardinality(UnitsIn(e, one \cup two)) = Cardinality(UnitsIn(e, one) \cup UnitsIn(e, two))
      /\ Cardinality(FilesIn(e, one \cup two)) = Cardinality(FilesIn(e, one) \cup FilesIn(e, two))
  BY <1>1, <1>2, Zenon
<1>8. QED
  BY <1>3, <1>4, <1>5, <1>6, <1>7

\* The books of all the executions, in two parts.
LEMMA Parted ==
  ASSUME NEW e, NEW one \in SUBSET Executions, NEW two \in SUBSET Executions,
         one \cap two = {}, Executions = one \cup two
  PROVE  /\ Cardinality(UnitsIn(e, Executions)) =
              Cardinality(UnitsIn(e, one)) + Cardinality(UnitsIn(e, two))
         /\ Cardinality(FilesIn(e, Executions)) =
              Cardinality(FilesIn(e, one)) + Cardinality(FilesIn(e, two))
<1>1. /\ Cardinality(UnitsIn(e, one \cup two)) =
           Cardinality(UnitsIn(e, one)) + Cardinality(UnitsIn(e, two))
      /\ Cardinality(FilesIn(e, one \cup two)) =
           Cardinality(FilesIn(e, one)) + Cardinality(FilesIn(e, two))
  BY Additive
<1>2. /\ UnitsIn(e, Executions) = UnitsIn(e, one \cup two)
      /\ FilesIn(e, Executions) = FilesIn(e, one \cup two)
  BY Zenon DEF UnitsIn, FilesIn
<1>3. QED
  BY <1>1, <1>2

\* The books of one entry.
LEMMA OneEntry ==
  ASSUME NEW e \in [Executions -> Entry], NEW x \in Executions
  PROVE  /\ Cardinality(UnitsIn(e, {x})) = e[x].reserved
         /\ Cardinality(FilesIn(e, {x})) = IF e[x].spilling \/ e[x].file THEN 1 ELSE 0
<1>1. e[x].reserved \in 0..Reserve
  BY DEF Entry
<1>2. UnitsIn(e, {x}) = {x} \X (1..e[x].reserved)
  <2>1. \A u : u \in UnitsIn(e, {x}) <=> u \in {x} \X (1..e[x].reserved)
    BY <1>1, LimitsNat DEF UnitsIn
  <2>2. QED
    BY <2>1
<1>3. IsFiniteSet(1..e[x].reserved) /\ Cardinality(1..e[x].reserved) = e[x].reserved
  <2>1. e[x].reserved \in Nat
    BY <1>1, LimitsNat
  <2>2. IsFiniteSet(1..e[x].reserved)
        /\ Cardinality(1..e[x].reserved) =
             IF 1 > e[x].reserved THEN 0 ELSE e[x].reserved - 1 + 1
    BY <2>1, FS_Interval
  <2>3. QED
    BY <2>1, <2>2
<1>4. Cardinality({x} \X (1..e[x].reserved)) = Cardinality({x}) * Cardinality(1..e[x].reserved)
  BY <1>3, FS_Singleton, FS_Product
<1>5. Cardinality({x}) = 1
  BY FS_Singleton
<1>6. FilesIn(e, {x}) = IF e[x].spilling \/ e[x].file THEN {x} ELSE {}
  BY DEF FilesIn
<1>7. Cardinality({}) = 0
  BY FS_EmptySet
<1>8. e[x].reserved \in Nat
  BY <1>1, LimitsNat
<1>9. Cardinality(UnitsIn(e, {x})) = e[x].reserved
  <2>1. Cardinality(UnitsIn(e, {x})) = 1 * e[x].reserved
    BY <1>2, <1>3, <1>4, <1>5, Zenon
  <2>2. QED
    BY <1>8, <2>1
<1>10. QED
  BY <1>5, <1>6, <1>7, <1>9

\* Entries with the same reservations and files have the same books.
LEMMA SameBooks ==
  ASSUME NEW e, NEW f, NEW set \in SUBSET Executions,
         \A y \in set : Alike(f[y], e[y])
  PROVE  UnitsIn(f, set) = UnitsIn(e, set) /\ FilesIn(f, set) = FilesIn(e, set)
  BY DEF UnitsIn, FilesIn, Alike

\* Entries without reservation and file have empty books.
LEMMA NoBooks ==
  ASSUME NEW f, NEW gone \in SUBSET Executions,
         \A y \in gone : f[y].reserved = 0 /\ ~f[y].spilling /\ ~f[y].file
  PROVE  Cardinality(UnitsIn(f, gone)) = 0 /\ Cardinality(FilesIn(f, gone)) = 0
<1>1. UnitsIn(f, gone) = {} /\ FilesIn(f, gone) = {}
  BY LimitsNat DEF UnitsIn, FilesIn
<1>2. QED
  BY <1>1, FS_EmptySet

\* When the entries of a set are dropped the books lose what they held.
LEMMA Cleared ==
  ASSUME NEW e, NEW f, NEW gone \in SUBSET Executions,
         \A y \in gone : f[y].reserved = 0 /\ ~f[y].spilling /\ ~f[y].file,
         \A y \in Executions \ gone : Alike(f[y], e[y])
  PROVE  /\ Cardinality(UnitsIn(f, Executions)) =
              Cardinality(UnitsIn(e, Executions)) - Cardinality(UnitsIn(e, gone))
         /\ Cardinality(FilesIn(f, Executions)) =
              Cardinality(FilesIn(e, Executions)) - Cardinality(FilesIn(e, gone))
<1> DEFINE rest == Executions \ gone
<1>1. rest \in SUBSET Executions /\ gone \cap rest = {}
  OBVIOUS
<1>2. Executions = gone \cup rest
  OBVIOUS
<1>3. \A y \in rest : Alike(f[y], e[y])
  OBVIOUS
<1> HIDE DEF rest
<1>4. UnitsIn(f, rest) = UnitsIn(e, rest) /\ FilesIn(f, rest) = FilesIn(e, rest)
  BY <1>1, <1>3, SameBooks
<1>5. Cardinality(UnitsIn(f, gone)) = 0 /\ Cardinality(FilesIn(f, gone)) = 0
  BY NoBooks
<1>6. /\ Cardinality(UnitsIn(e, gone)) \in Nat /\ Cardinality(UnitsIn(e, rest)) \in Nat
      /\ Cardinality(FilesIn(e, gone)) \in Nat /\ Cardinality(FilesIn(e, rest)) \in Nat
  BY <1>1, Finiteness, FS_CardinalityType
<1>7. /\ Cardinality(UnitsIn(e, Executions)) =
           Cardinality(UnitsIn(e, gone)) + Cardinality(UnitsIn(e, rest))
      /\ Cardinality(FilesIn(e, Executions)) =
           Cardinality(FilesIn(e, gone)) + Cardinality(FilesIn(e, rest))
      /\ Cardinality(UnitsIn(f, Executions)) =
           Cardinality(UnitsIn(f, gone)) + Cardinality(UnitsIn(f, rest))
      /\ Cardinality(FilesIn(f, Executions)) =
           Cardinality(FilesIn(f, gone)) + Cardinality(FilesIn(f, rest))
  <2>1. Executions = gone \cup rest /\ gone \cap rest = {}
    BY <1>1, <1>2
  <2>2. /\ gone \in SUBSET Executions /\ rest \in SUBSET Executions
    BY <1>1, <1>2
  <2>3. /\ Cardinality(UnitsIn(e, Executions)) =
             Cardinality(UnitsIn(e, gone)) + Cardinality(UnitsIn(e, rest))
        /\ Cardinality(FilesIn(e, Executions)) =
             Cardinality(FilesIn(e, gone)) + Cardinality(FilesIn(e, rest))
    BY ONLY <2>1, <2>2, Parted
  <2>4. /\ Cardinality(UnitsIn(f, Executions)) =
             Cardinality(UnitsIn(f, gone)) + Cardinality(UnitsIn(f, rest))
        /\ Cardinality(FilesIn(f, Executions)) =
             Cardinality(FilesIn(f, gone)) + Cardinality(FilesIn(f, rest))
    BY ONLY <2>1, <2>2, Parted
  <2>5. QED
    BY <2>3, <2>4
<1>8. QED
  BY <1>4, <1>5, <1>6, <1>7

\* When one more entry changes, they change by its difference.
LEMMA Changed ==
  ASSUME NEW e \in [Executions -> Entry], NEW f \in [Executions -> Entry],
         NEW gone \in SUBSET Executions, NEW x \in Executions \ gone,
         \A y \in gone : f[y].reserved = 0 /\ ~f[y].spilling /\ ~f[y].file,
         \A y \in Executions \ (gone \cup {x}) : f[y] = e[y]
  PROVE  /\ Cardinality(UnitsIn(f, Executions)) =
              Cardinality(UnitsIn(e, Executions)) - Cardinality(UnitsIn(e, gone))
                - e[x].reserved + f[x].reserved
         /\ Cardinality(FilesIn(f, Executions)) =
              Cardinality(FilesIn(e, Executions)) - Cardinality(FilesIn(e, gone))
                - Cardinality(FilesIn(e, {x})) + Cardinality(FilesIn(f, {x}))
<1> DEFINE g == [e EXCEPT ![x] = f[x]]
<1>1. g \in [Executions -> Entry] /\ g[x] = f[x] /\ \A y \in Executions \ {x} : g[y] = e[y]
  OBVIOUS
<1> HIDE DEF g
<1>2. /\ Cardinality(UnitsIn(f, Executions)) =
           Cardinality(UnitsIn(g, Executions)) - Cardinality(UnitsIn(g, gone))
      /\ Cardinality(FilesIn(f, Executions)) =
           Cardinality(FilesIn(g, Executions)) - Cardinality(FilesIn(g, gone))
  <2>1. \A y \in Executions \ gone : Alike(f[y], g[y])
    BY <1>1 DEF Alike
  <2>2. QED
    BY <2>1, Cleared
<1>3. UnitsIn(g, gone) = UnitsIn(e, gone) /\ FilesIn(g, gone) = FilesIn(e, gone)
  <2>1. \A y \in gone : Alike(g[y], e[y])
    BY <1>1 DEF Alike
  <2>2. QED
    BY <2>1, SameBooks
<1> DEFINE rest == Executions \ {x}
<1>4. /\ rest \in SUBSET Executions /\ {x} \in SUBSET Executions /\ {x} \cap rest = {}
      /\ Executions = {x} \cup rest
  OBVIOUS
<1>5. \A y \in rest : Alike(g[y], e[y])
  BY <1>1 DEF Alike
<1> HIDE DEF rest
<1>6. UnitsIn(g, rest) = UnitsIn(e, rest) /\ FilesIn(g, rest) = FilesIn(e, rest)
  BY <1>4, <1>5, SameBooks
<1>7. /\ Cardinality(UnitsIn(e, Executions)) =
           Cardinality(UnitsIn(e, {x})) + Cardinality(UnitsIn(e, rest))
      /\ Cardinality(FilesIn(e, Executions)) =
           Cardinality(FilesIn(e, {x})) + Cardinality(FilesIn(e, rest))
      /\ Cardinality(UnitsIn(g, Executions)) =
           Cardinality(UnitsIn(g, {x})) + Cardinality(UnitsIn(g, rest))
      /\ Cardinality(FilesIn(g, Executions)) =
           Cardinality(FilesIn(g, {x})) + Cardinality(FilesIn(g, rest))
  <2>1. Executions = {x} \cup rest /\ {x} \cap rest = {}
    BY <1>4
  <2>2. /\ {x} \in SUBSET Executions /\ rest \in SUBSET Executions
    BY <1>4
  <2>3. /\ Cardinality(UnitsIn(e, Executions)) =
             Cardinality(UnitsIn(e, {x})) + Cardinality(UnitsIn(e, rest))
        /\ Cardinality(FilesIn(e, Executions)) =
             Cardinality(FilesIn(e, {x})) + Cardinality(FilesIn(e, rest))
    BY ONLY <2>1, <2>2, Parted
  <2>4. /\ Cardinality(UnitsIn(g, Executions)) =
             Cardinality(UnitsIn(g, {x})) + Cardinality(UnitsIn(g, rest))
        /\ Cardinality(FilesIn(g, Executions)) =
             Cardinality(FilesIn(g, {x})) + Cardinality(FilesIn(g, rest))
    BY ONLY <2>1, <2>2, Parted
  <2>5. QED
    BY <2>3, <2>4
<1>8. /\ Cardinality(UnitsIn(e, {x})) = e[x].reserved
      /\ Cardinality(UnitsIn(g, {x})) = f[x].reserved
      /\ Cardinality(FilesIn(g, {x})) = Cardinality(FilesIn(f, {x}))
  <2>1. Cardinality(UnitsIn(e, {x})) = e[x].reserved
    BY OneEntry
  <2>2. Cardinality(UnitsIn(g, {x})) = g[x].reserved
    BY <1>1, OneEntry
  <2>3. FilesIn(g, {x}) = FilesIn(f, {x})
    BY <1>1, SameBooks DEF Alike
  <2>4. QED
    BY <1>1, <2>1, <2>2, <2>3
<1>9. /\ Cardinality(UnitsIn(e, rest)) \in Nat /\ Cardinality(FilesIn(e, rest)) \in Nat
      /\ Cardinality(UnitsIn(e, gone)) \in Nat /\ Cardinality(FilesIn(e, gone)) \in Nat
      /\ Cardinality(FilesIn(e, {x})) \in Nat /\ Cardinality(FilesIn(f, {x})) \in Nat
  BY <1>4, Finiteness, FS_CardinalityType
<1>10. e[x].reserved \in Int /\ f[x].reserved \in Int
  BY DEF Entry
<1>11. QED
  BY <1>2, <1>3, <1>6, <1>7, <1>8, <1>9, <1>10

\* The books of the store in these terms.
LEMMA InTerms ==
  /\ \A set : /\ Reserved(set) = Cardinality(UnitsIn(entry, set))
              /\ FilesOf(set) = Cardinality(FilesIn(entry, set))
  /\ Reserved(Executions)' = Cardinality(UnitsIn(entry', Executions))
  /\ FilesOf(Executions)' = Cardinality(FilesIn(entry', Executions))
  BY DEF Reserved, FilesOf, UnitsIn, FilesIn, HasFile

Totals == total = Reserved(Executions) /\ files = FilesOf(Executions)

\* A step that touches no reservation and no file.
LEMMA TotalsSame ==
  ASSUME Totals, total' = total, files' = files, \A y \in Executions : Alike(entry'[y], entry[y])
  PROVE  Totals'
<1>1. /\ UnitsIn(entry', Executions) = UnitsIn(entry, Executions)
      /\ FilesIn(entry', Executions) = FilesIn(entry, Executions)
  BY SameBooks
<1>2. QED
  BY <1>1, InTerms DEF Totals

\* A step that drops entries.
LEMMA TotalsCleared ==
  ASSUME Totals, NEW gone \in SUBSET Executions, Release(gone),
         \A y \in gone : entry'[y].reserved = 0 /\ ~entry'[y].spilling /\ ~entry'[y].file,
         \A y \in Executions \ gone : Alike(entry'[y], entry[y])
  PROVE  Totals'
<1>1. /\ Cardinality(UnitsIn(entry', Executions)) =
           Cardinality(UnitsIn(entry, Executions)) - Cardinality(UnitsIn(entry, gone))
      /\ Cardinality(FilesIn(entry', Executions)) =
           Cardinality(FilesIn(entry, Executions)) - Cardinality(FilesIn(entry, gone))
  BY Cleared
<1>2. QED
  BY <1>1, InTerms DEF Totals, Release

\* A step that drops entries and changes one.
LEMMA TotalsChanged ==
  ASSUME StoreTypeOK, StoreTypeOK', Totals,
         NEW gone \in SUBSET Executions, NEW x \in Executions \ gone,
         \A y \in gone : entry'[y].reserved = 0 /\ ~entry'[y].spilling /\ ~entry'[y].file,
         \A y \in Executions \ (gone \cup {x}) : entry'[y] = entry[y],
         total' = total - Reserved(gone) - entry[x].reserved + entry'[x].reserved,
         files' = files - FilesOf(gone) - (IF HasFile(x) THEN 1 ELSE 0)
                    + (IF entry'[x].spilling \/ entry'[x].file THEN 1 ELSE 0)
  PROVE  Totals'
<1>1. entry \in [Executions -> Entry] /\ entry' \in [Executions -> Entry]
  BY DEF StoreTypeOK
<1>2. /\ Cardinality(UnitsIn(entry', Executions)) =
           Cardinality(UnitsIn(entry, Executions)) - Cardinality(UnitsIn(entry, gone))
             - entry[x].reserved + entry'[x].reserved
      /\ Cardinality(FilesIn(entry', Executions)) =
           Cardinality(FilesIn(entry, Executions)) - Cardinality(FilesIn(entry, gone))
             - Cardinality(FilesIn(entry, {x})) + Cardinality(FilesIn(entry', {x}))
  BY <1>1, Changed
<1>3. /\ Cardinality(FilesIn(entry, {x})) = IF HasFile(x) THEN 1 ELSE 0
      /\ Cardinality(FilesIn(entry', {x})) = IF entry'[x].spilling \/ entry'[x].file THEN 1 ELSE 0
  BY <1>1, OneEntry DEF HasFile
<1>4. QED
  BY <1>2, <1>3, InTerms DEF Totals

\* The total and the number of files stay exact.
LEMMA TotalsStep ==
  StoreTypeOK /\ StoreTypeOK' /\ Shape /\ Totals /\ [StoreNext]_storeVars => Totals'
<1> SUFFICES ASSUME StoreTypeOK, StoreTypeOK', Shape, Totals, [StoreNext]_storeVars PROVE Totals'
  OBVIOUS
<1> USE LimitsNat
<1>a. entry \in [Executions -> Entry] /\ total \in Int /\ files \in Int
  BY DEF StoreTypeOK
<1>b. \A gone \in SUBSET Executions :
        /\ Without(gone) \in [Executions -> Entry]
        /\ \A y \in gone : Without(gone)[y] = NoEntry
        /\ \A y \in Executions \ gone : Without(gone)[y] = entry[y]
  BY WithoutType DEF Without
<1>c. \A y \in Executions : EntryShape(y)
  BY DEF Shape
<1>d. ~NoEntry.spilling /\ ~NoEntry.file /\ NoEntry.reserved = 0
  BY DEF NoEntry
<1>1. ASSUME NEW gone \in SUBSET Expired, NEW x \in Executions, Begin(x, gone)
      PROVE  Totals'
  <2>1. gone \in SUBSET Executions /\ Release(gone)
    BY <1>1 DEF Begin, Expired
  <2>2. \A y \in Executions \ {x} : entry'[y] = Without(gone)[y]
    BY <1>1, <1>b, <2>1 DEF Begin
  <2>3. entry'[x] = Running
    BY <1>1, <1>b, <2>1 DEF Begin
  <2>4. /\ entry'[x].reserved = 0 /\ ~entry'[x].spilling /\ ~entry'[x].file
        /\ x \in gone \/ entry[x] = NoEntry
    BY <1>1, <1>b, <2>1, <2>3 DEF Begin, Running
  <2>5. \A y \in gone : entry'[y].reserved = 0 /\ ~entry'[y].spilling /\ ~entry'[y].file
    BY <1>b, <1>d, <2>1, <2>2, <2>4
  <2>6. \A y \in Executions \ gone : Alike(entry'[y], entry[y])
    BY <1>b, <1>d, <2>1, <2>2, <2>4 DEF Alike
  <2>7. QED
    BY <2>1, <2>5, <2>6, TotalsCleared
<1>2. ASSUME NEW gone \in SUBSET Expired, NEW x \in Executions, StartSpill(x, gone)
      PROVE  Totals'
  <2>1. gone \in SUBSET Executions /\ x \in Executions \ gone
    BY <1>2 DEF StartSpill, Expired
  <2>2. /\ \A y \in gone : entry'[y] = NoEntry
        /\ \A y \in Executions \ (gone \cup {x}) : entry'[y] = entry[y]
        /\ entry'[x] = Writing
    BY <1>2, <1>b, <2>1 DEF StartSpill
  <2>3. entry'[x].spilling /\ entry'[x].reserved = Reserve
    BY <2>2 DEF Writing
  <2>4. ~HasFile(x) /\ entry[x].reserved = 0
    BY <1>2, <1>c DEF StartSpill, EntryShape
  <2>5. Reserved(gone) \in Nat /\ FilesOf(gone) \in Nat
    <3>1. gone \cap Executions = gone
      BY <2>1
    <3>2. QED
      BY <3>1, ReservedFinite
  <2>6. total' = total - Reserved(gone) - entry[x].reserved + entry'[x].reserved
    BY <1>2, <1>a, <2>3, <2>4, <2>5 DEF StartSpill
  <2>7. files' = files - FilesOf(gone) - (IF HasFile(x) THEN 1 ELSE 0)
                   + (IF entry'[x].spilling \/ entry'[x].file THEN 1 ELSE 0)
    BY <1>2, <1>a, <2>3, <2>4, <2>5 DEF StartSpill
  <2>8. \A y \in gone : entry'[y].reserved = 0 /\ ~entry'[y].spilling /\ ~entry'[y].file
    BY <1>d, <2>2
  <2>9. QED
    BY <2>1, <2>2, <2>6, <2>7, <2>8, TotalsChanged
<1>3. ASSUME NEW gone \in SUBSET Expired, NEW x \in Executions, RefuseSpill(x, gone)
      PROVE  Totals'
  <2>1. Drop(gone) /\ gone \in SUBSET Executions
    BY <1>3 DEF RefuseSpill, Expired
  <2>2. QED
    BY <1>a, <1>b, <1>d, <2>1, TotalsCleared DEF Drop, Alike
<1>4. ASSUME NEW gone \in SUBSET Expired, NEW x \in Executions, AcquireSave(x, gone)
      PROVE  Totals'
  <2>1. gone \in SUBSET Executions /\ Release(gone)
    BY <1>4 DEF AcquireSave, Expired
  <2>2. \A y \in Executions \ {x} : entry'[y] = Without(gone)[y]
    BY <1>4, <1>b, <2>1 DEF AcquireSave
  <2>3. entry'[x] = [entry[x] EXCEPT !.state = "saving"]
    BY <1>4, <1>b, <2>1 DEF AcquireSave
  <2>4. Alike(entry'[x], entry[x]) /\ x \notin gone
    <3>1. Alike(entry'[x], entry[x])
      BY <1>a, <2>3, MovedEntry DEF Alike
    <3>2. QED
      BY <1>4, <3>1 DEF AcquireSave
  <2>5. \A y \in gone : entry'[y].reserved = 0 /\ ~entry'[y].spilling /\ ~entry'[y].file
    BY <1>b, <1>d, <2>1, <2>2, <2>4
  <2>6. \A y \in Executions \ gone : Alike(entry'[y], entry[y])
    BY <1>b, <1>d, <2>1, <2>2, <2>4 DEF Alike
  <2>7. QED
    BY <2>1, <2>5, <2>6, TotalsCleared
<1>5. ASSUME NEW gone \in SUBSET Expired, Refused(gone) PROVE Totals'
  <2>1. Drop(gone) /\ gone \in SUBSET Executions
    BY <1>5 DEF Refused, Expired
  <2>2. QED
    BY <1>a, <1>b, <1>d, <2>1, TotalsCleared DEF Drop, Alike
<1>6. ASSUME NEW x \in Executions, NoSpill(x) PROVE Totals'
  BY <1>6, TotalsSame DEF NoSpill, bookVars, Alike
<1>7. ASSUME NEW x \in Executions, SpillTooLate(x) PROVE Totals'
  BY <1>7, TotalsSame DEF SpillTooLate, bookVars, Alike
<1>8. ASSUME NEW x \in Executions, CreateTemp(x) PROVE Totals'
  BY <1>8, TotalsSame DEF CreateTemp, bookVars, Alike
<1>9. ASSUME NEW x \in Executions, CreateFails(x) PROVE Totals'
  BY <1>9, TotalsSame DEF CreateFails, bookVars, Alike
<1>10. ASSUME NEW x \in Executions, WriteFails(x) PROVE Totals'
  BY <1>10, TotalsSame DEF WriteFails, bookVars, Alike
<1>11. ASSUME NEW x \in Executions, AbortSpill(x) PROVE Totals'
  <2>1. \A y \in Executions \ ({} \cup {x}) : entry'[y] = entry[y]
    BY <1>11, <1>a DEF AbortSpill
  <2>2. entry[x].spilling /\ HasFile(x) /\ entry[x].reserved \in Int
    BY <1>11, <1>a DEF AbortSpill, HasFile, Entry
  <2>3. Reserved({}) = 0 /\ FilesOf({}) = 0
    BY NoBooks, InTerms
  <2>4. ~entry'[x].spilling /\ ~entry'[x].file /\ entry'[x].reserved = 0
    <3>1. entry'[x] = Running
      BY <1>11, <1>a DEF AbortSpill
    <3>2. QED
      BY <3>1 DEF Running
  <2>5. total' = total - Reserved({}) - entry[x].reserved + entry'[x].reserved
    BY <1>11, <1>a, <2>2, <2>3, <2>4 DEF AbortSpill
  <2>6. files' = files - FilesOf({}) - (IF HasFile(x) THEN 1 ELSE 0)
                   + (IF entry'[x].spilling \/ entry'[x].file THEN 1 ELSE 0)
    BY <1>11, <1>a, <2>2, <2>3, <2>4 DEF AbortSpill
  <2>7. QED
    BY <2>1, <2>5, <2>6, TotalsChanged
<1>12. ASSUME NEW x \in Executions, AbortOvertaken(x) PROVE Totals'
  BY <1>12, TotalsSame DEF AbortOvertaken, Alike
<1>13. ASSUME NEW x \in Executions, CommitSpill(x) PROVE Totals'
  <2>1. \A y \in Executions \ ({} \cup {x}) : entry'[y] = entry[y]
    BY <1>13, <1>a DEF CommitSpill
  <2>2. entry[x].spilling /\ HasFile(x) /\ entry[x].reserved \in Int
    BY <1>13, <1>a DEF CommitSpill, HasFile, Entry
  <2>3. Reserved({}) = 0 /\ FilesOf({}) = 0
    BY NoBooks, InTerms
  <2>4. /\ ~entry'[x].spilling /\ entry'[x].file
        /\ total' = total - Reserved({}) - entry[x].reserved + entry'[x].reserved
    <3>1. PICK written \in 1..Reserve : /\ entry'[x] = Ready(written)
                                        /\ total' = total + written - entry[x].reserved
      BY <1>13, <1>a DEF CommitSpill
    <3>2. entry'[x].reserved = written /\ ~entry'[x].spilling /\ entry'[x].file
      BY <3>1 DEF Ready
    <3>3. QED
      BY <1>a, <2>2, <2>3, <3>1, <3>2
  <2>5. total' = total - Reserved({}) - entry[x].reserved + entry'[x].reserved
    BY <2>4
  <2>6. files' = files - FilesOf({}) - (IF HasFile(x) THEN 1 ELSE 0)
                   + (IF entry'[x].spilling \/ entry'[x].file THEN 1 ELSE 0)
    BY <1>13, <1>a, <2>2, <2>3, <2>4 DEF CommitSpill
  <2>7. QED
    BY <2>1, <2>5, <2>6, TotalsChanged
<1>14. ASSUME NEW x \in Executions, CommitTooLate(x) PROVE Totals'
  BY <1>14, TotalsSame DEF CommitTooLate, Alike
<1>15. ASSUME NEW x \in Executions, Finish(x) PROVE Totals'
  <2>1. \A y \in Executions \ {x} : entry'[y] = entry[y]
    BY <1>15, <1>a DEF Finish
  <2>2. Alike(entry'[x], entry[x])
    BY <1>15, <1>a, <1>c, <1>d DEF Finish, Alike, EntryShape, HasFile
  <2>3. \A y \in Executions : Alike(entry'[y], entry[y])
    BY <2>1, <2>2 DEF Alike
  <2>4. QED
    BY <1>15, <2>3, TotalsSame DEF Finish
<1>16. ASSUME NEW x \in Executions, NotSaved(x) PROVE Totals'
  BY <1>16, TotalsSame DEF NotSaved, bookVars, Alike
<1>17. ASSUME NEW x \in Executions, Copied(x) PROVE Totals'
  BY <1>17, TotalsSame DEF Copied, bookVars, Alike
<1>18. ASSUME NEW x \in Executions, RemoveSaved(x) PROVE Totals'
  BY <1>18, TotalsSame DEF RemoveSaved, bookVars, Alike
<1>19. ASSUME NEW x \in Executions, RemoveSavedFails(x) PROVE Totals'
  BY <1>19, TotalsSame DEF RemoveSavedFails, bookVars, Alike
<1>20. ASSUME NEW x \in Executions, DropSaved(x) PROVE Totals'
  <2>1. Drop({x}) /\ {x} \in SUBSET Executions
    BY <1>20 DEF DropSaved, Expired
  <2>2. QED
    BY <1>a, <1>b, <1>d, <2>1, TotalsCleared DEF Drop, Alike
<1>21. ASSUME NEW x \in Executions, RestoreReady(x) PROVE Totals'
  <2>1. \A y \in Executions \ {x} : entry'[y] = entry[y]
    BY <1>21, <1>a DEF RestoreReady
  <2>2. Alike(entry'[x], entry[x])
    <3>1. entry'[x] = [entry[x] EXCEPT !.state = "ready"]
      BY <1>21, <1>a DEF RestoreReady
    <3>2. QED
      BY <1>a, <3>1, MovedEntry DEF Alike
  <2>3. \A y \in Executions : Alike(entry'[y], entry[y])
    BY <2>1, <2>2 DEF Alike
  <2>4. QED
    BY <1>21, <2>3, TotalsSame DEF RestoreReady
<1>22. ASSUME NEW x \in Executions, RestoreLost(x) PROVE Totals'
  <2>1. Drop({x}) /\ {x} \in SUBSET Executions
    BY <1>22 DEF RestoreLost, Expired
  <2>2. QED
    BY <1>a, <1>b, <1>d, <2>1, TotalsCleared DEF Drop, Alike
<1>23. ASSUME NEW x \in Executions, RestoreClosed(x) PROVE Totals'
  <2>1. Drop({x}) /\ {x} \in SUBSET Executions
    BY <1>23 DEF RestoreClosed, Expired
  <2>2. QED
    BY <1>a, <1>b, <1>d, <2>1, TotalsCleared DEF Drop, Alike
<1>24. ASSUME NEW x \in Executions, Discard(x) PROVE Totals'
  <2>1. Drop({x}) /\ {x} \in SUBSET Executions
    BY <1>24 DEF Discard, Expired
  <2>2. QED
    BY <1>a, <1>b, <1>d, <2>1, TotalsCleared DEF Drop, Alike
<1>25. ASSUME NEW x \in Executions, Expire(x) PROVE Totals'
  <2>1. \A y \in Executions \ {x} : entry'[y] = entry[y]
    BY <1>25, <1>a DEF Expire
  <2>2. Alike(entry'[x], entry[x])
    <3>1. entry'[x] = [entry[x] EXCEPT !.expired = TRUE]
      BY <1>25, <1>a DEF Expire
    <3>2. QED
      BY <1>a, <3>1, ExpiredEntry DEF Alike
  <2>3. \A y \in Executions : Alike(entry'[y], entry[y])
    BY <2>1, <2>2 DEF Alike
  <2>4. QED
    BY <1>25, <2>3, TotalsSame DEF Expire
<1>26. ASSUME NEW x \in Executions, Vanish(x) PROVE Totals'
  BY <1>26, TotalsSame DEF Vanish, bookVars, Alike
<1>27. CASE CleanupWhole
  <2>1. Drop(Executions) /\ Executions \in SUBSET Executions
    BY <1>27 DEF CleanupWhole, Expired
  <2>2. QED
    BY <1>a, <1>b, <1>d, <2>1, TotalsCleared DEF Drop, Alike
<1>28. CASE CleanupFiles
  <2>1. Drop(Executions \ Saving) /\ Executions \ Saving \in SUBSET Executions
    BY <1>28 DEF CleanupFiles, Expired
  <2>2. QED
    BY <1>a, <1>b, <1>d, <2>1, TotalsCleared DEF Drop, Alike
<1>29. CASE UNCHANGED storeVars
  BY <1>29, TotalsSame DEF storeVars, bookVars, Alike
<1>30. QED
  BY <1>1, <1>2, <1>3, <1>4, <1>5, <1>6, <1>7, <1>8, <1>9, <1>10, <1>11,
     <1>12, <1>13, <1>14, <1>15, <1>16, <1>17, <1>18, <1>19, <1>20, <1>21,
     <1>22, <1>23, <1>24, <1>25, <1>26, <1>27, <1>28, <1>29
  DEF StoreNext, Operate, Spill, Save

\* The writes in progress, before and after a step.
Writers == {x \in Executions : Spilling(x)}
SpillsExact == spills = Cardinality(Writers)

LEMMA SpillsSame ==
  ASSUME SpillsExact, spills' = spills, \A y \in Executions : Spilling(y)' <=> Spilling(y)
  PROVE  SpillsExact'
<1>1. Writers' = Writers
  BY DEF Writers
<1>2. QED
  BY <1>1 DEF SpillsExact

LEMMA SpillStarts ==
  ASSUME SpillsExact, NEW x \in Executions, ~Spilling(x), Spilling(x)', spills' = spills + 1,
         \A y \in Executions \ {x} : Spilling(y)' <=> Spilling(y)
  PROVE  SpillsExact'
<1>1. Writers' = Writers \cup {x} /\ x \notin Writers
  BY DEF Writers
<1>2. IsFiniteSet(Writers)
  BY ExecutionsFinite, FS_Subset DEF Writers
<1>3. Cardinality(Writers \cup {x}) = Cardinality(Writers) + 1
  BY <1>1, <1>2, FS_AddElement
<1>4. QED
  BY <1>1, <1>3 DEF SpillsExact

LEMMA SpillEnds ==
  ASSUME SpillsExact, NEW x \in Executions, Spilling(x), ~Spilling(x)', spills' = spills - 1,
         \A y \in Executions \ {x} : Spilling(y)' <=> Spilling(y)
  PROVE  SpillsExact'
<1>1. Writers' = Writers \ {x} /\ x \in Writers
  BY DEF Writers
<1>2. IsFiniteSet(Writers)
  BY ExecutionsFinite, FS_Subset DEF Writers
<1>3. Cardinality(Writers \ {x}) = Cardinality(Writers) - 1
  BY <1>1, <1>2, FS_RemoveElement
<1>4. QED
  BY <1>1, <1>3 DEF SpillsExact

\* The number of writes in progress stays exact.
LEMMA SpillsStep == StoreTypeOK /\ SpillsExact /\ [StoreNext]_storeVars => SpillsExact'
<1> SUFFICES ASSUME StoreTypeOK, SpillsExact, [StoreNext]_storeVars PROVE SpillsExact'
  OBVIOUS
<1>a. call \in [Executions -> {"none", "begun", "creating", "writing", "aborting", "ending"}]
  BY DEF StoreTypeOK
<1>1. ASSUME NEW gone \in SUBSET Expired, NEW x \in Executions, Begin(x, gone)
      PROVE  SpillsExact'
  BY <1>1, <1>a, SpillsSame DEF Begin, bookVars, Calls, Spilling
<1>2. ASSUME NEW gone \in SUBSET Expired, NEW x \in Executions, StartSpill(x, gone)
      PROVE  SpillsExact'
  BY <1>2, <1>a, SpillStarts DEF StartSpill, bookVars, Calls, Spilling
<1>3. ASSUME NEW gone \in SUBSET Expired, NEW x \in Executions, RefuseSpill(x, gone)
      PROVE  SpillsExact'
  BY <1>3, <1>a, SpillsSame DEF RefuseSpill, bookVars, Calls, Spilling
<1>4. ASSUME NEW gone \in SUBSET Expired, NEW x \in Executions, AcquireSave(x, gone)
      PROVE  SpillsExact'
  BY <1>4, <1>a, SpillsSame DEF AcquireSave, bookVars, Calls, Spilling
<1>5. ASSUME NEW gone \in SUBSET Expired, Refused(gone) PROVE SpillsExact'
  BY <1>5, <1>a, SpillsSame DEF Refused, bookVars, Calls, Spilling
<1>6. ASSUME NEW x \in Executions, NoSpill(x) PROVE SpillsExact'
  BY <1>6, <1>a, SpillsSame DEF NoSpill, bookVars, Calls, Spilling
<1>7. ASSUME NEW x \in Executions, SpillTooLate(x) PROVE SpillsExact'
  BY <1>7, <1>a, SpillsSame DEF SpillTooLate, bookVars, Calls, Spilling
<1>8. ASSUME NEW x \in Executions, CreateTemp(x) PROVE SpillsExact'
  BY <1>8, <1>a, SpillsSame DEF CreateTemp, bookVars, Calls, Spilling
<1>9. ASSUME NEW x \in Executions, CreateFails(x) PROVE SpillsExact'
  BY <1>9, <1>a, SpillsSame DEF CreateFails, bookVars, Calls, Spilling
<1>10. ASSUME NEW x \in Executions, WriteFails(x) PROVE SpillsExact'
  BY <1>10, <1>a, SpillsSame DEF WriteFails, bookVars, Calls, Spilling
<1>11. ASSUME NEW x \in Executions, AbortSpill(x) PROVE SpillsExact'
  BY <1>11, <1>a, SpillEnds DEF AbortSpill, bookVars, Calls, Spilling
<1>12. ASSUME NEW x \in Executions, AbortOvertaken(x) PROVE SpillsExact'
  BY <1>12, <1>a, SpillEnds DEF AbortOvertaken, bookVars, Calls, Spilling
<1>13. ASSUME NEW x \in Executions, CommitSpill(x) PROVE SpillsExact'
  BY <1>13, <1>a, SpillEnds DEF CommitSpill, bookVars, Calls, Spilling
<1>14. ASSUME NEW x \in Executions, CommitTooLate(x) PROVE SpillsExact'
  BY <1>14, <1>a, SpillEnds DEF CommitTooLate, bookVars, Calls, Spilling
<1>15. ASSUME NEW x \in Executions, Finish(x) PROVE SpillsExact'
  BY <1>15, <1>a, SpillsSame DEF Finish, bookVars, Calls, Spilling
<1>16. ASSUME NEW x \in Executions, NotSaved(x) PROVE SpillsExact'
  BY <1>16, <1>a, SpillsSame DEF NotSaved, bookVars, Calls, Spilling
<1>17. ASSUME NEW x \in Executions, Copied(x) PROVE SpillsExact'
  BY <1>17, <1>a, SpillsSame DEF Copied, bookVars, Calls, Spilling
<1>18. ASSUME NEW x \in Executions, RemoveSaved(x) PROVE SpillsExact'
  BY <1>18, <1>a, SpillsSame DEF RemoveSaved, bookVars, Calls, Spilling
<1>19. ASSUME NEW x \in Executions, RemoveSavedFails(x) PROVE SpillsExact'
  BY <1>19, <1>a, SpillsSame DEF RemoveSavedFails, bookVars, Calls, Spilling
<1>20. ASSUME NEW x \in Executions, DropSaved(x) PROVE SpillsExact'
  BY <1>20, <1>a, SpillsSame DEF DropSaved, bookVars, Calls, Spilling
<1>21. ASSUME NEW x \in Executions, RestoreReady(x) PROVE SpillsExact'
  BY <1>21, <1>a, SpillsSame DEF RestoreReady, bookVars, Calls, Spilling
<1>22. ASSUME NEW x \in Executions, RestoreLost(x) PROVE SpillsExact'
  BY <1>22, <1>a, SpillsSame DEF RestoreLost, bookVars, Calls, Spilling
<1>23. ASSUME NEW x \in Executions, RestoreClosed(x) PROVE SpillsExact'
  BY <1>23, <1>a, SpillsSame DEF RestoreClosed, bookVars, Calls, Spilling
<1>24. ASSUME NEW x \in Executions, Discard(x) PROVE SpillsExact'
  BY <1>24, <1>a, SpillsSame DEF Discard, bookVars, Calls, Spilling
<1>25. ASSUME NEW x \in Executions, Expire(x) PROVE SpillsExact'
  BY <1>25, <1>a, SpillsSame DEF Expire, bookVars, Calls, Spilling
<1>26. ASSUME NEW x \in Executions, Vanish(x) PROVE SpillsExact'
  BY <1>26, <1>a, SpillsSame DEF Vanish, bookVars, Calls, Spilling
<1>27. CASE CleanupWhole
  BY <1>27, <1>a, SpillsSame DEF CleanupWhole, bookVars, Calls, Spilling
<1>28. CASE CleanupFiles
  BY <1>28, <1>a, SpillsSame DEF CleanupFiles, bookVars, Calls, Spilling
<1>29. CASE UNCHANGED storeVars
  BY <1>29, <1>a, SpillsSame DEF storeVars, bookVars, Calls, Spilling
<1>30. QED
  BY <1>1, <1>2, <1>3, <1>4, <1>5, <1>6, <1>7, <1>8, <1>9, <1>10, <1>11,
     <1>12, <1>13, <1>14, <1>15, <1>16, <1>17, <1>18, <1>19, <1>20, <1>21,
     <1>22, <1>23, <1>24, <1>25, <1>26, <1>27, <1>28, <1>29
  DEF StoreNext, Operate, Spill, Save

\* No step exceeds a limit.
LEMMA LimitsStep ==
  StoreTypeOK /\ Shape /\ WithinLimits /\ [StoreNext]_storeVars => WithinLimits'
<1> SUFFICES ASSUME StoreTypeOK, Shape, WithinLimits, [StoreNext]_storeVars PROVE WithinLimits'
  OBVIOUS
<1> USE LimitsNat DEF WithinLimits
<1>a. total \in Int /\ files \in Int /\ spills \in Int /\ entry \in [Executions -> Entry]
  BY DEF StoreTypeOK
<1>b. ASSUME NEW set \in SUBSET Executions, Release(set) PROVE total' <= MaxTotal /\ files' <= MaxFiles
  <2>1. set \cap Executions = set
    OBVIOUS
  <2>2. Reserved(set) \in Nat /\ FilesOf(set) \in Nat
    BY <2>1, ReservedFinite
  <2>3. QED
    BY <1>a, <1>b, <2>2 DEF Release
<1>c. \A y \in Executions : entry[y].spilling => entry[y].reserved = Reserve
  BY DEF Shape, EntryShape
<1>d. \A y \in Executions : entry[y].reserved \in Nat
  BY <1>a DEF Entry
<1>1. ASSUME NEW gone \in SUBSET Expired, NEW x \in Executions, Begin(x, gone)
      PROVE  WithinLimits'
  <2>1. Release(gone) /\ gone \in SUBSET Executions /\ spills' = spills
    BY <1>1 DEF Begin, Drop, Expired
  <2>2. QED
    BY <1>b, <2>1
<1>2. ASSUME NEW gone \in SUBSET Expired, NEW x \in Executions, StartSpill(x, gone)
      PROVE  WithinLimits'
  <2>1. gone \cap Executions = gone
    BY DEF Expired
  <2>2. Reserved(gone) \in Nat /\ FilesOf(gone) \in Nat
    BY <2>1, ReservedFinite
  <2>3. QED
    BY <1>2, <1>a, <2>2 DEF StartSpill, Fits
<1>3. ASSUME NEW gone \in SUBSET Expired, NEW x \in Executions, RefuseSpill(x, gone)
      PROVE  WithinLimits'
  <2>1. Release(gone) /\ gone \in SUBSET Executions /\ spills' = spills
    BY <1>3 DEF RefuseSpill, Drop, Expired
  <2>2. QED
    BY <1>b, <2>1
<1>4. ASSUME NEW gone \in SUBSET Expired, NEW x \in Executions, AcquireSave(x, gone)
      PROVE  WithinLimits'
  <2>1. Release(gone) /\ gone \in SUBSET Executions /\ spills' = spills
    BY <1>4 DEF AcquireSave, Drop, Expired
  <2>2. QED
    BY <1>b, <2>1
<1>5. ASSUME NEW gone \in SUBSET Expired, Refused(gone) PROVE WithinLimits'
  <2>1. Release(gone) /\ gone \in SUBSET Executions /\ spills' = spills
    BY <1>5 DEF Refused, Drop, Expired
  <2>2. QED
    BY <1>b, <2>1
<1>6. ASSUME NEW x \in Executions, NoSpill(x) PROVE WithinLimits'
  BY <1>6, <1>a DEF NoSpill, bookVars
<1>7. ASSUME NEW x \in Executions, SpillTooLate(x) PROVE WithinLimits'
  BY <1>7, <1>a DEF SpillTooLate, bookVars
<1>8. ASSUME NEW x \in Executions, CreateTemp(x) PROVE WithinLimits'
  BY <1>8, <1>a DEF CreateTemp, bookVars
<1>9. ASSUME NEW x \in Executions, CreateFails(x) PROVE WithinLimits'
  BY <1>9, <1>a DEF CreateFails, bookVars
<1>10. ASSUME NEW x \in Executions, WriteFails(x) PROVE WithinLimits'
  BY <1>10, <1>a DEF WriteFails, bookVars
<1>11. ASSUME NEW x \in Executions, AbortSpill(x) PROVE WithinLimits'
  BY <1>11, <1>a, <1>d DEF AbortSpill
<1>12. ASSUME NEW x \in Executions, AbortOvertaken(x) PROVE WithinLimits'
  BY <1>12, <1>a DEF AbortOvertaken, bookVars
<1>13. ASSUME NEW x \in Executions, CommitSpill(x) PROVE WithinLimits'
  BY <1>13, <1>a, <1>c DEF CommitSpill
<1>14. ASSUME NEW x \in Executions, CommitTooLate(x) PROVE WithinLimits'
  BY <1>14, <1>a DEF CommitTooLate, bookVars
<1>15. ASSUME NEW x \in Executions, Finish(x) PROVE WithinLimits'
  BY <1>15, <1>a DEF Finish, bookVars
<1>16. ASSUME NEW x \in Executions, NotSaved(x) PROVE WithinLimits'
  BY <1>16, <1>a DEF NotSaved, bookVars
<1>17. ASSUME NEW x \in Executions, Copied(x) PROVE WithinLimits'
  BY <1>17, <1>a DEF Copied, bookVars
<1>18. ASSUME NEW x \in Executions, RemoveSaved(x) PROVE WithinLimits'
  BY <1>18, <1>a DEF RemoveSaved, bookVars
<1>19. ASSUME NEW x \in Executions, RemoveSavedFails(x) PROVE WithinLimits'
  BY <1>19, <1>a DEF RemoveSavedFails, bookVars
<1>20. ASSUME NEW x \in Executions, DropSaved(x) PROVE WithinLimits'
  <2>1. Release({x}) /\ {x} \in SUBSET Executions /\ spills' = spills
    BY <1>20 DEF DropSaved, Drop, Expired
  <2>2. QED
    BY <1>b, <2>1
<1>21. ASSUME NEW x \in Executions, RestoreReady(x) PROVE WithinLimits'
  BY <1>21, <1>a DEF RestoreReady, bookVars
<1>22. ASSUME NEW x \in Executions, RestoreLost(x) PROVE WithinLimits'
  <2>1. Release({x}) /\ {x} \in SUBSET Executions /\ spills' = spills
    BY <1>22 DEF RestoreLost, Drop, Expired
  <2>2. QED
    BY <1>b, <2>1
<1>23. ASSUME NEW x \in Executions, RestoreClosed(x) PROVE WithinLimits'
  <2>1. Release({x}) /\ {x} \in SUBSET Executions /\ spills' = spills
    BY <1>23 DEF RestoreClosed, Drop, Expired
  <2>2. QED
    BY <1>b, <2>1
<1>24. ASSUME NEW x \in Executions, Discard(x) PROVE WithinLimits'
  <2>1. Release({x}) /\ {x} \in SUBSET Executions /\ spills' = spills
    BY <1>24 DEF Discard, Drop, Expired
  <2>2. QED
    BY <1>b, <2>1
<1>25. ASSUME NEW x \in Executions, Expire(x) PROVE WithinLimits'
  BY <1>25, <1>a DEF Expire, bookVars
<1>26. ASSUME NEW x \in Executions, Vanish(x) PROVE WithinLimits'
  BY <1>26, <1>a DEF Vanish, bookVars
<1>27. CASE CleanupWhole
  <2>1. Release(Executions) /\ Executions \in SUBSET Executions /\ spills' = spills
    BY <1>27 DEF CleanupWhole, Drop, Expired
  <2>2. QED
    BY <1>b, <2>1
<1>28. CASE CleanupFiles
  <2>1. Release(Executions \ Saving) /\ Executions \ Saving \in SUBSET Executions /\ spills' = spills
    BY <1>28 DEF CleanupFiles, Drop, Expired
  <2>2. QED
    BY <1>b, <2>1
<1>29. CASE UNCHANGED storeVars
  BY <1>29 DEF storeVars, bookVars
<1>30. QED
  BY <1>1, <1>2, <1>3, <1>4, <1>5, <1>6, <1>7, <1>8, <1>9, <1>10, <1>11,
     <1>12, <1>13, <1>14, <1>15, <1>16, <1>17, <1>18, <1>19, <1>20, <1>21,
     <1>22, <1>23, <1>24, <1>25, <1>26, <1>27, <1>28, <1>29
  DEF StoreNext, Operate, Spill, Save

----------------------------------------------------------------------------
\* The inductive invariant.
StoreInv == StoreTypeOK /\ Shape /\ Totals /\ SpillsExact /\ WithinLimits

LEMMA StoreInvInit == StoreInit => StoreInv
<1> SUFFICES ASSUME StoreInit PROVE StoreInv
  OBVIOUS
<1> USE LimitsNat DEF StoreInit
<1>1. StoreTypeOK
  <2>1. NoEntry \in Entry
    BY DEF NoEntry, Entry
  <2>2. disk \in [Executions -> BOOLEAN] /\ storeClosed \in BOOLEAN /\ dirGone \in BOOLEAN
    OBVIOUS
  <2>3. entry \in [Executions -> Entry]
    BY <2>1
  <2>4. abandoned \subseteq Executions /\ vanished \subseteq Executions
    OBVIOUS
  <2>5. /\ call \in [Executions -> {"none", "begun", "creating", "writing", "aborting", "ending"}]
        /\ lease \in [Executions -> {"none", "held", "copied", "removed", "restoring"}]
    OBVIOUS
  <2>6. QED
    BY <2>2, <2>3, <2>4, <2>5 DEF StoreTypeOK
<1>2. Shape
  BY DEF Shape, EntryShape, CallShape, LeaseShape, Spilling, HasFile, NoEntry
<1>3. Totals
  BY NoBooks, InTerms DEF Totals, NoEntry
<1>4. SpillsExact
  <2>1. Writers = {}
    BY DEF Writers, Spilling
  <2>2. QED
    BY <2>1, FS_EmptySet DEF SpillsExact
<1>5. WithinLimits
  BY DEF WithinLimits
<1>6. QED
  BY <1>1, <1>2, <1>3, <1>4, <1>5 DEF StoreInv

LEMMA StoreInvStep == StoreInv /\ [StoreNext]_storeVars => StoreInv'
  BY TypeStep, ShapeStep, TotalsStep, SpillsStep, LimitsStep DEF StoreInv

\* The invariant holds in every reachable state, for any executions and limits.
THEOREM StoreInvariance == StoreSpec => []StoreInv
  BY StoreInvInit, StoreInvStep, PTL DEF StoreSpec

\* Every variable has its type: no reservation exceeds what a spill may write.
THEOREM StoreTypeCorrect == StoreSpec => []StoreTypeOK
<1>1. StoreInv => StoreTypeOK
  BY DEF StoreInv
<1>2. QED
  BY <1>1, StoreInvariance, PTL

\* Total, files and spills (response_store.go:99-102) are exact in every state.
THEOREM BooksCorrect == StoreSpec => []BooksExact
<1>1. StoreInv => BooksExact
  BY DEF StoreInv, Totals, SpillsExact, Writers, BooksExact
<1>2. QED
  BY <1>1, StoreInvariance, PTL

\* No limit is exceeded (response_store.go:175), however many spills overlap.
THEOREM LimitsCorrect == StoreSpec => []WithinLimits
<1>1. StoreInv => WithinLimits
  BY DEF StoreInv
<1>2. QED
  BY <1>1, StoreInvariance, PTL

\* Every file on the disk is tracked or being written.
THEOREM NoOrphanFile == StoreSpec => []EveryFileOwned
<1>1. StoreInv => EveryFileOwned
  BY DEF StoreInv, Shape, CallShape, EveryFileOwned
<1>2. QED
  BY <1>1, StoreInvariance, PTL

\* Nobody in the program takes a file away from its save.
THEOREM SaveProtected == StoreSpec => []LeaseProtects
<1>1. StoreInv => LeaseProtects
  <2> SUFFICES ASSUME StoreInv, NEW x \in Executions
               PROVE  /\ lease[x] # "none" <=> entry[x].state = "saving"
                      /\ lease[x] \in {"held", "copied"} => disk[x] \/ x \in vanished
    BY DEF LeaseProtects
  <2>1. LeaseShape(x) /\ EntryShape(x)
    BY DEF StoreInv, Shape
  <2>2. QED
    BY <2>1 DEF LeaseShape, EntryShape
<1>2. QED
  BY <1>1, StoreInvariance, PTL

\* A closed store keeps nothing once what was in progress has ended.
THEOREM NothingLeft == StoreSpec => []ClosedLeavesNothing
<1>1. StoreInv => ClosedLeavesNothing
  <2> SUFFICES ASSUME StoreInv, storeClosed, NEW x \in Executions,
                      ~Spilling(x), lease[x] = "none"
               PROVE  ~disk[x] /\ entry[x] = NoEntry
    BY DEF ClosedLeavesNothing
  <2>1. EntryShape(x) /\ CallShape(x) /\ LeaseShape(x)
    BY DEF StoreInv, Shape
  <2>2. entry[x].state = "none"
    BY <2>1 DEF EntryShape, LeaseShape
  <2>3. ~entry[x].spilling /\ ~entry[x].file /\ ~entry[x].expired /\ entry[x].reserved = 0
    BY <2>1, <2>2 DEF EntryShape, HasFile
  <2>4. entry[x] \in Entry
    BY DEF StoreInv, StoreTypeOK
  <2>5. entry[x] = NoEntry
    BY <2>2, <2>3, <2>4 DEF Entry, NoEntry
  <2>6. ~disk[x]
    BY <2>1, <2>3 DEF CallShape, Spilling
  <2>7. QED
    BY <2>5, <2>6
<1>2. QED
  BY <1>1, StoreInvariance, PTL
-----------------------------------------------------------------------------
(* The service.                                                            *)

\* Every step of the service is a step of the store, or does not touch it.
LEMMA StepOfStore == [Next]_vars => [StoreNext]_storeVars
<1> SUFFICES ASSUME [Next]_vars PROVE [StoreNext]_storeVars
  OBVIOUS
<1>1. ASSUME NEW x \in Executions, Send(x) PROVE UNCHANGED storeVars
  BY <1>1 DEF Send, SendTooLate, SendDuplicate, SendCancelled, SendRequest, vars
<1>2. ASSUME NEW x \in Executions, Runs(x) PROVE [StoreNext]_storeVars
  <2>1. ASSUME NEW gone \in SUBSET Expired, DoBegins(x, gone) PROVE StoreNext
    BY <2>1 DEF DoBegins, StoreNext, Operate
  <2>2. ASSUME DoRefused(x) \/ Unregister(x) \/ Done(x) PROVE UNCHANGED storeVars
    BY <2>2 DEF DoRefused, Unregister, Done
  <2>3. ASSUME DoGoesOn(x) PROVE StoreNext
    BY <2>3 DEF DoGoesOn, StoreNext, Operate
  <2>4. ASSUME DoReturns(x) PROVE StoreNext
    BY <2>4 DEF DoReturns, StoreNext
  <2>5. QED
    BY <1>2, <2>1, <2>2, <2>3, <2>4 DEF Runs
<1>3. ASSUME NEW x \in Executions, CancelRequest(x) PROVE UNCHANGED storeVars
  BY <1>3 DEF CancelRequest, CancelRunning, CancelTooLate, CancelEarly, vars
<1>4. ASSUME NEW x \in Executions, Responses(x) PROVE StoreNext
  BY <1>4 DEF Responses, StoreNext, Operate
<1>5. ASSUME NEW x \in Executions, GrowStale(x) PROVE UNCHANGED storeVars
  BY <1>5 DEF GrowStale
<1>6. ASSUME Shutdown \/ StopRoot \/ ShutdownReturns PROVE UNCHANGED storeVars
  BY <1>6 DEF Shutdown, StopRoot, ShutdownReturns
<1>7. CASE Cleanup
  BY <1>7 DEF Cleanup, StoreNext
<1>8. CASE UNCHANGED vars
  BY <1>8 DEF vars
<1>9. QED
  BY <1>1, <1>2, <1>3, <1>4, <1>5, <1>6, <1>7, <1>8 DEF Next

\* For any executions and limits: the service uses the store as the store's
\* own specification allows, so all that is proved of the store holds here.
THEOREM UsesStore == Spec => StoreSpec
<1>1. Init => StoreInit
  BY DEF Init
<1>2. QED
  BY <1>1, StepOfStore, PTL DEF Spec, StoreSpec

\* An entry appears only when Do begins.
LEMMA NothingAppears ==
  ASSUME StoreTypeOK, Shape, [StoreNext]_storeVars
  PROVE  \A y \in Executions :
            entry[y].state = "none" =>
               entry'[y].state = "none" \/ (call[y] = "none" /\ call'[y] = "begun")
<1> DEFINE Appears(y) ==
      entry[y].state = "none" =>
         entry'[y].state = "none" \/ (call[y] = "none" /\ call'[y] = "begun")
<1> SUFFICES ASSUME NEW y \in Executions PROVE Appears(y)
  OBVIOUS
<1>a. entry \in [Executions -> Entry]
      /\ call \in [Executions -> {"none", "begun", "creating", "writing", "aborting", "ending"}]
  BY DEF StoreTypeOK
<1>b. \A gone \in SUBSET Executions :
        /\ Without(gone) \in [Executions -> Entry]
        /\ \A z \in gone : Without(gone)[z] = NoEntry
        /\ \A z \in Executions \ gone : Without(gone)[z] = entry[z]
  BY WithoutType DEF Without
<1>c. NoEntry.state = "none"
  BY DEF NoEntry
<1>d. entry[y].spilling => entry[y].state = "running"
  BY DEF Shape, EntryShape
<1>1. ASSUME NEW gone \in SUBSET Expired, NEW x \in Executions, Begin(x, gone)
      PROVE  Appears(y)
  <2>1. gone \in SUBSET Executions
    BY DEF Expired
  <2>2. \A z \in Executions \ {x} : entry'[z] = Without(gone)[z]
    BY <1>1, <1>b, <2>1 DEF Begin
  <2>3. call[x] = "none" /\ call'[x] = "begun"
    BY <1>1, <1>a DEF Begin, Calls
  <2>4. QED
    BY <1>b, <1>c, <2>1, <2>2, <2>3
<1>2. ASSUME NEW gone \in SUBSET Expired, NEW x \in Executions, StartSpill(x, gone)
      PROVE  Appears(y)
  <2>1. gone \in SUBSET Executions
    BY DEF Expired
  <2>2. \A z \in Executions \ {x} : entry'[z] = Without(gone)[z]
    BY <1>2, <1>b, <2>1 DEF StartSpill
  <2>3. entry[x].state # "none"
    BY <1>2 DEF StartSpill
  <2>4. QED
    BY <1>b, <1>c, <2>1, <2>2, <2>3
<1>3. ASSUME NEW gone \in SUBSET Expired, NEW x \in Executions, RefuseSpill(x, gone)
      PROVE  Appears(y)
  <2>1. entry' = Without(gone) /\ gone \in SUBSET Executions
    BY <1>3 DEF RefuseSpill, Drop, Expired
  <2>2. QED
    BY <1>b, <1>c, <2>1
<1>4. ASSUME NEW gone \in SUBSET Expired, NEW x \in Executions, AcquireSave(x, gone)
      PROVE  Appears(y)
  <2>1. gone \in SUBSET Executions
    BY DEF Expired
  <2>2. \A z \in Executions \ {x} : entry'[z] = Without(gone)[z]
    BY <1>4, <1>b, <2>1 DEF AcquireSave
  <2>3. entry[x].state # "none"
    BY <1>4 DEF AcquireSave
  <2>4. QED
    BY <1>b, <1>c, <2>1, <2>2, <2>3
<1>5. ASSUME NEW gone \in SUBSET Expired, Refused(gone) PROVE Appears(y)
  <2>1. entry' = Without(gone) /\ gone \in SUBSET Executions
    BY <1>5 DEF Refused, Drop, Expired
  <2>2. QED
    BY <1>b, <1>c, <2>1
<1>6. ASSUME NEW x \in Executions, NoSpill(x) PROVE Appears(y)
  BY <1>6 DEF NoSpill, bookVars
<1>7. ASSUME NEW x \in Executions, SpillTooLate(x) PROVE Appears(y)
  BY <1>7 DEF SpillTooLate, bookVars
<1>8. ASSUME NEW x \in Executions, CreateTemp(x) PROVE Appears(y)
  BY <1>8 DEF CreateTemp, bookVars
<1>9. ASSUME NEW x \in Executions, CreateFails(x) PROVE Appears(y)
  BY <1>9 DEF CreateFails, bookVars
<1>10. ASSUME NEW x \in Executions, WriteFails(x) PROVE Appears(y)
  BY <1>10 DEF WriteFails, bookVars
<1>11. ASSUME NEW x \in Executions, AbortSpill(x) PROVE Appears(y)
  <2>1. \A z \in Executions \ {x} : entry'[z] = entry[z]
    BY <1>11, <1>a DEF AbortSpill
  <2>2. x = y => entry[y].state # "none"
    BY <1>11, <1>d DEF AbortSpill
  <2>3. QED
    BY <2>1, <2>2
<1>12. ASSUME NEW x \in Executions, AbortOvertaken(x) PROVE Appears(y)
  BY <1>12 DEF AbortOvertaken, bookVars
<1>13. ASSUME NEW x \in Executions, CommitSpill(x) PROVE Appears(y)
  <2>1. \A z \in Executions \ {x} : entry'[z] = entry[z]
    BY <1>13, <1>a DEF CommitSpill
  <2>2. x = y => entry[y].state # "none"
    BY <1>13, <1>d DEF CommitSpill
  <2>3. QED
    BY <2>1, <2>2
<1>14. ASSUME NEW x \in Executions, CommitTooLate(x) PROVE Appears(y)
  BY <1>14 DEF CommitTooLate, bookVars
<1>15. ASSUME NEW x \in Executions, Finish(x) PROVE Appears(y)
  <2>1. \A z \in Executions \ {x} : entry'[z] = entry[z]
    BY <1>15, <1>a DEF Finish
  <2>2. x = y => Appears(y)
    BY <1>15, <1>a DEF Finish, NoEntry
  <2>3. QED
    BY <2>1, <2>2
<1>16. ASSUME NEW x \in Executions, NotSaved(x) PROVE Appears(y)
  BY <1>16 DEF NotSaved, bookVars
<1>17. ASSUME NEW x \in Executions, Copied(x) PROVE Appears(y)
  BY <1>17 DEF Copied, bookVars
<1>18. ASSUME NEW x \in Executions, RemoveSaved(x) PROVE Appears(y)
  BY <1>18 DEF RemoveSaved, bookVars
<1>19. ASSUME NEW x \in Executions, RemoveSavedFails(x) PROVE Appears(y)
  BY <1>19 DEF RemoveSavedFails, bookVars
<1>20. ASSUME NEW x \in Executions, DropSaved(x) PROVE Appears(y)
  <2>1. entry' = Without({x}) /\ {x} \in SUBSET Executions
    BY <1>20 DEF DropSaved, Drop, Expired
  <2>2. QED
    BY <1>b, <1>c, <2>1
<1>21. ASSUME NEW x \in Executions, RestoreReady(x) PROVE Appears(y)
  <2>1. \A z \in Executions \ {x} : entry'[z] = entry[z]
    BY <1>21, <1>a DEF RestoreReady
  <2>2. x = y => entry[y].state # "none"
    BY <1>21, <1>d DEF RestoreReady
  <2>3. QED
    BY <2>1, <2>2
<1>22. ASSUME NEW x \in Executions, RestoreLost(x) PROVE Appears(y)
  <2>1. entry' = Without({x}) /\ {x} \in SUBSET Executions
    BY <1>22 DEF RestoreLost, Drop, Expired
  <2>2. QED
    BY <1>b, <1>c, <2>1
<1>23. ASSUME NEW x \in Executions, RestoreClosed(x) PROVE Appears(y)
  <2>1. entry' = Without({x}) /\ {x} \in SUBSET Executions
    BY <1>23 DEF RestoreClosed, Drop, Expired
  <2>2. QED
    BY <1>b, <1>c, <2>1
<1>24. ASSUME NEW x \in Executions, Discard(x) PROVE Appears(y)
  <2>1. entry' = Without({x}) /\ {x} \in SUBSET Executions
    BY <1>24 DEF Discard, Drop, Expired
  <2>2. QED
    BY <1>b, <1>c, <2>1
<1>25. ASSUME NEW x \in Executions, Expire(x) PROVE Appears(y)
  <2>1. \A z \in Executions \ {x} : entry'[z] = entry[z]
    BY <1>25, <1>a DEF Expire
  <2>2. x = y => entry[y].state # "none"
    BY <1>25, <1>d DEF Expire
  <2>3. QED
    BY <2>1, <2>2
<1>26. ASSUME NEW x \in Executions, Vanish(x) PROVE Appears(y)
  BY <1>26 DEF Vanish, bookVars
<1>27. CASE CleanupWhole
  <2>1. entry' = Without(Executions) /\ Executions \in SUBSET Executions
    BY <1>27 DEF CleanupWhole, Drop, Expired
  <2>2. QED
    BY <1>b, <1>c, <2>1
<1>28. CASE CleanupFiles
  <2>1. entry' = Without((Executions \ Saving)) /\ (Executions \ Saving) \in SUBSET Executions
    BY <1>28 DEF CleanupFiles, Drop, Expired
  <2>2. QED
    BY <1>b, <1>c, <2>1
<1>29. CASE UNCHANGED storeVars
  BY <1>29 DEF storeVars, bookVars
<1>30. QED
  BY <1>1, <1>2, <1>3, <1>4, <1>5, <1>6, <1>7, <1>8, <1>9, <1>10, <1>11,
     <1>12, <1>13, <1>14, <1>15, <1>16, <1>17, <1>18, <1>19, <1>20, <1>21,
     <1>22, <1>23, <1>24, <1>25, <1>26, <1>27, <1>28, <1>29
  DEF StoreNext, Operate, Spill, Save

\* Between its beginning and its end Do neither begins nor ends a call.
LEMMA CallGoesOn ==
  ASSUME StoreTypeOK, NEW x \in Executions, DoGoesOn(x)
  PROVE  \A y \in Executions : call'[y] # "none" <=> call[y] # "none"
<1> USE DEF StoreTypeOK, Calls
<1>1. CASE NoSpill(x)
  BY <1>1 DEF NoSpill
<1>2. CASE SpillTooLate(x)
  BY <1>2 DEF SpillTooLate
<1>3. CASE CreateTemp(x)
  BY <1>3 DEF CreateTemp
<1>4. CASE CreateFails(x)
  BY <1>4 DEF CreateFails
<1>5. CASE WriteFails(x)
  BY <1>5 DEF WriteFails
<1>6. CASE AbortSpill(x)
  BY <1>6 DEF AbortSpill
<1>7. CASE AbortOvertaken(x)
  BY <1>7 DEF AbortOvertaken
<1>8. CASE CommitSpill(x)
  BY <1>8 DEF CommitSpill
<1>9. CASE CommitTooLate(x)
  BY <1>9 DEF CommitTooLate
<1>10. ASSUME NEW gone \in SUBSET Expired, StartSpill(x, gone) \/ RefuseSpill(x, gone)
       PROVE  \A y \in Executions : call'[y] # "none" <=> call[y] # "none"
  BY <1>10 DEF StartSpill, RefuseSpill
<1>11. QED
  BY <1>1, <1>2, <1>3, <1>4, <1>5, <1>6, <1>7, <1>8, <1>9, <1>10 DEF DoGoesOn, Spill

\* What the user does with a response leaves the calls alone.
LEMMA ResponsesKeepCalls ==
  ASSUME NEW x \in Executions, Responses(x)
  PROVE  call' = call /\ storeClosed' = storeClosed
<1>1. CASE Save(x)
  BY <1>1 DEF Save, NotSaved, Copied, RemoveSaved, RemoveSavedFails, DropSaved, RestoreReady,
              RestoreLost, RestoreClosed, bookVars
<1>2. CASE Discard(x) \/ Expire(x) \/ Vanish(x)
  BY <1>2 DEF Discard, Expire, Vanish, bookVars
<1>3. ASSUME NEW gone \in SUBSET Expired, AcquireSave(x, gone)
      PROVE  call' = call /\ storeClosed' = storeClosed
  BY <1>3 DEF AcquireSave
<1>4. QED
  BY <1>1, <1>2, <1>3 DEF Responses

\* Only Cleanup closes the store.
LEMMA DoKeepsOpen ==
  ASSUME NEW x \in Executions, DoGoesOn(x) \/ DoReturns(x)
  PROVE  storeClosed' = storeClosed
<1>1. ASSUME NEW gone \in SUBSET Expired, StartSpill(x, gone) \/ RefuseSpill(x, gone)
      PROVE  storeClosed' = storeClosed
  BY <1>1 DEF StartSpill, RefuseSpill
<1>2. CASE NoSpill(x) \/ Spill(x) \/ Finish(x)
  BY <1>2 DEF NoSpill, Spill, SpillTooLate, CreateTemp, CreateFails, WriteFails, AbortSpill,
              AbortOvertaken, CommitSpill, CommitTooLate, Finish, bookVars
<1>3. QED
  BY <1>1, <1>2 DEF DoGoesOn, DoReturns

----------------------------------------------------------------------------
\* The types of the service's own variables.
ReqTypeOK ==
    /\ req \in [Executions -> {"none", "rejected", "registered", "doing",
                               "returned", "unregistered", "done"}]
    /\ cancels \subseteq Executions /\ ctxDone \subseteq Executions
    /\ pending \subseteq Executions /\ Cardinality(pending) <= MaxPending
    /\ older \in [Executions -> SUBSET Executions]
    /\ stale \subseteq pending /\ early \subseteq Executions
    /\ reqClosed \in BOOLEAN
    /\ shutdown \in {"none", "closed", "stopped", "drained", "timedOut"}

\* How a request, its call, its registration and its early cancel agree.
Agree(x) ==
    /\ call[x] # "none" <=> req[x] = "doing"
    /\ x \in cancels <=> req[x] \in {"registered", "doing", "returned"}
    /\ req[x] \in {"none", "rejected", "registered"} => entry[x].state = "none"
    /\ x \in early => req[x] = "rejected" \/ (req[x] = "none" /\ x \in Fresh)

\* The WaitGroup counts the requests that have not ended.
LiveSet == {x \in Executions : Live(x)}
WgExact == wg = Cardinality(LiveSet)

\* How the shutdown advances.
Closing ==
    /\ reqClosed <=> shutdown # "none"
    /\ storeClosed => shutdown \in {"drained", "timedOut"}
    /\ shutdown = "drained" => LiveSet = {}

IInv ==
    /\ StoreInv /\ ReqTypeOK /\ WgExact /\ Closing
    /\ \A x \in Executions : Agree(x)

\* Forgetting one pending cancel leaves room.
LEMMA PendingRoom ==
  ASSUME pending \subseteq Executions, Cardinality(pending) <= MaxPending,
         NEW x \in Executions
  PROVE  Cardinality(pending \ {x}) <= MaxPending
<1>1. IsFiniteSet(pending)
  BY ExecutionsFinite, FS_Subset
<1>2. /\ Cardinality(pending) \in Nat
      /\ Cardinality(pending \ {x}) \in Nat
      /\ Cardinality(pending \ {x}) <= Cardinality(pending)
  <2>1. pending \ {x} \subseteq pending
    OBVIOUS
  <2>2. QED
    BY <1>1, <2>1, FS_Subset, FS_CardinalityType
<1>3. QED
  BY <1>2, MaxPendingPositive

\* Every step keeps the service's variables in their types.
LEMMA ReqTypeStep == ReqTypeOK /\ [Next]_vars => ReqTypeOK'
<1> SUFFICES ASSUME ReqTypeOK, [Next]_vars PROVE ReqTypeOK'
  OBVIOUS
<1> USE DEF ReqTypeOK, vars, sendVars, pendingVars, endVars
<1>1. ASSUME NEW x \in Executions, SendTooLate(x) PROVE ReqTypeOK'
  BY <1>1 DEF SendTooLate, Sends
<1>2. ASSUME NEW x \in Executions, SendDuplicate(x) PROVE ReqTypeOK'
  BY <1>2 DEF SendDuplicate
<1>3. ASSUME NEW x \in Executions, SendCancelled(x) PROVE ReqTypeOK'
  <2>2. Cardinality(pending \ {x}) <= MaxPending
    BY PendingRoom
  <2>3. QED
    BY <1>3, <2>2 DEF SendCancelled, Forget, Sends
<1>4. ASSUME NEW x \in Executions, SendRequest(x) PROVE ReqTypeOK'
  <2>2. Cardinality(pending \ {x}) <= MaxPending
    BY PendingRoom
  <2>3. QED
    BY <1>4, <2>2 DEF SendRequest, Forget, Sends
<1>5. ASSUME NEW x \in Executions, NEW gone \in SUBSET Expired, DoBegins(x, gone)
      PROVE  ReqTypeOK'
  BY <1>5 DEF DoBegins, Sends
<1>6. ASSUME NEW x \in Executions, DoRefused(x) PROVE ReqTypeOK'
  BY <1>6 DEF DoRefused, Sends
<1>7. ASSUME NEW x \in Executions, DoGoesOn(x) PROVE ReqTypeOK'
  BY <1>7 DEF DoGoesOn
<1>8. ASSUME NEW x \in Executions, DoReturns(x) PROVE ReqTypeOK'
  BY <1>8 DEF DoReturns, Sends
<1>9. ASSUME NEW x \in Executions, Unregister(x) PROVE ReqTypeOK'
  BY <1>9 DEF Unregister, Sends
<1>10. ASSUME NEW x \in Executions, Done(x) PROVE ReqTypeOK'
  BY <1>10 DEF Done, Sends
<1>11. ASSUME NEW x \in Executions, CancelRunning(x) PROVE ReqTypeOK'
  BY <1>11 DEF CancelRunning
<1>12. ASSUME NEW x \in Executions, CancelTooLate(x) PROVE ReqTypeOK'
  BY <1>12 DEF CancelTooLate
<1>13. ASSUME NEW x \in Executions, CancelEarly(x) PROVE ReqTypeOK'
  <2>1. PICK kept \in SUBSET Fresh : Sweeps(kept) /\ Pend(kept, x)
    BY <1>13 DEF CancelEarly
  <2>2. IsFiniteSet(kept) /\ kept \subseteq Executions
    BY ExecutionsFinite, FS_Subset DEF Fresh
  <2>3. Cardinality(kept \cup {x}) <= Cardinality(kept) + 1 /\ Cardinality(kept) \in Nat
    BY <2>2, FS_AddElement, FS_CardinalityType
  <2>a. Cardinality(kept) < MaxPending
    BY <2>1 DEF Sweeps
  <2>b. Cardinality(kept \cup {x}) \in Nat
    BY <2>2, FS_AddElement, FS_CardinalityType
  <2>4. Cardinality(kept \cup {x}) <= MaxPending
    <3> HIDE DEF ReqTypeOK, vars
    <3> QED
      BY <2>3, <2>a, <2>b, MaxPendingPositive
  <2>5. pending' \subseteq Executions /\ Cardinality(pending') <= MaxPending
    BY <2>1, <2>2, <2>4 DEF Pend
  <2>6. older' \in [Executions -> SUBSET Executions]
    BY <2>1, <2>2 DEF Pend
  <2>7. QED
    BY <1>13, <2>5, <2>6 DEF CancelEarly, Fresh
<1>14. ASSUME NEW x \in Executions, Responses(x) PROVE ReqTypeOK'
  BY <1>14 DEF Responses
<1>15. ASSUME NEW x \in Executions, GrowStale(x) PROVE ReqTypeOK'
  BY <1>15 DEF GrowStale, Fresh
<1>16. CASE Shutdown
  <2>1. Cardinality(pending \ Executions) <= MaxPending
    <3>1. pending \ Executions = {}
      OBVIOUS
    <3>2. QED
      BY <3>1, FS_EmptySet, MaxPendingPositive
  <2>2. QED
    BY <1>16, <2>1 DEF Shutdown, Forget
<1>17. CASE StopRoot
  BY <1>17 DEF StopRoot
<1>18. CASE ShutdownReturns
  BY <1>18 DEF ShutdownReturns
<1>19. CASE Cleanup
  BY <1>19 DEF Cleanup
<1>20. CASE UNCHANGED vars
  BY <1>20
<1>21. QED
  BY <1>1, <1>2, <1>3, <1>4, <1>5, <1>6, <1>7, <1>8, <1>9, <1>10, <1>11,
     <1>12, <1>13, <1>14, <1>15, <1>16, <1>17, <1>18, <1>19, <1>20
  DEF Next, Send, Runs, CancelRequest

\* Every step keeps requests, calls and early cancels in agreement.
LEMMA AgreeStep ==
  ASSUME IInv, [Next]_vars
  PROVE  \A y \in Executions : Agree(y)'
<1> SUFFICES ASSUME NEW y \in Executions PROVE Agree(y)'
  OBVIOUS
<1> USE DEF sendVars, pendingVars, endVars
<1>a. /\ StoreTypeOK /\ Shape /\ ReqTypeOK
      /\ Agree(y)
  BY DEF IInv, StoreInv
<1>b. /\ req \in [Executions -> {"none", "rejected", "registered", "doing",
                                "returned", "unregistered", "done"}]
      /\ cancels \subseteq Executions /\ early \subseteq Executions
      /\ call \in [Executions -> {"none", "begun", "creating", "writing", "aborting", "ending"}]
  BY <1>a DEF ReqTypeOK, StoreTypeOK
<1>c. entry[y].state = "none" =>
        entry'[y].state = "none" \/ (call[y] = "none" /\ call'[y] = "begun")
  BY <1>a, StepOfStore, NothingAppears
<1>1. ASSUME NEW x \in Executions, SendTooLate(x) PROVE Agree(y)'
  BY <1>1, <1>a, <1>b DEF SendTooLate, Sends, Agree, Fresh, storeVars,
     bookVars
<1>2. ASSUME NEW x \in Executions, SendDuplicate(x) PROVE Agree(y)'
  BY <1>2, <1>a, <1>b DEF SendDuplicate, vars, Agree, Fresh, storeVars,
     bookVars
<1>3. ASSUME NEW x \in Executions, SendCancelled(x) PROVE Agree(y)'
  BY <1>3, <1>a, <1>b DEF SendCancelled, Sends, Forget, Agree, Fresh,
     storeVars, bookVars
<1>4. ASSUME NEW x \in Executions, SendRequest(x) PROVE Agree(y)'
  BY <1>4, <1>a, <1>b DEF SendRequest, Sends, Forget, Agree, Fresh,
     storeVars, bookVars
<1>5. ASSUME NEW x \in Executions, NEW gone \in SUBSET Expired, DoBegins(x, gone)
      PROVE  Agree(y)'
  BY <1>5, <1>a, <1>b, <1>c DEF DoBegins, Begin, Calls, Sends, Agree, Fresh
<1>6. ASSUME NEW x \in Executions, DoRefused(x) PROVE Agree(y)'
  BY <1>6, <1>a, <1>b DEF DoRefused, Sends, Agree, Fresh, storeVars,
     bookVars
<1>7. ASSUME NEW x \in Executions, DoGoesOn(x) PROVE Agree(y)'
  <2>1. call'[y] # "none" <=> call[y] # "none"
    BY <1>7, <1>a, CallGoesOn
  <2>2. entry[y].state = "none" => entry'[y].state = "none"
    BY <1>c, <2>1
  <2>3. QED
    BY <1>7, <1>a, <2>1, <2>2 DEF DoGoesOn, Agree, Fresh
<1>8. ASSUME NEW x \in Executions, DoReturns(x) PROVE Agree(y)'
  BY <1>8, <1>a, <1>b, <1>c DEF DoReturns, Finish, Calls, Sends, Agree,
     Fresh
<1>9. ASSUME NEW x \in Executions, Unregister(x) PROVE Agree(y)'
  BY <1>9, <1>a, <1>b DEF Unregister, Sends, Agree, Fresh, storeVars,
     bookVars
<1>10. ASSUME NEW x \in Executions, Done(x) PROVE Agree(y)'
  BY <1>10, <1>a, <1>b DEF Done, Sends, Agree, Fresh, storeVars, bookVars
<1>11. ASSUME NEW x \in Executions, CancelRunning(x) PROVE Agree(y)'
  BY <1>11, <1>a, <1>b DEF CancelRunning, Agree, Fresh, storeVars, bookVars
<1>12. ASSUME NEW x \in Executions, CancelTooLate(x) PROVE Agree(y)'
  BY <1>12, <1>a, <1>b DEF CancelTooLate, vars, Agree, Fresh, storeVars,
     bookVars
<1>13. ASSUME NEW x \in Executions, CancelEarly(x) PROVE Agree(y)'
  <2>1. PICK kept \in SUBSET Fresh :
          /\ pending' = kept \cup {x}
          /\ early' = (early \ (Fresh \ kept)) \cup {z \in {x} : req[z] = "none"}
    BY <1>13 DEF CancelEarly, Pend
  <2>2. y \in early' => req[y] = "rejected" \/ (req[y] = "none" /\ y \in pending')
    BY <1>a, <2>1 DEF Agree
  <2>3. QED
    BY <1>13, <1>a, <2>2 DEF CancelEarly, Agree, Fresh, storeVars, bookVars
<1>14. ASSUME NEW x \in Executions, Responses(x) PROVE Agree(y)'
  <2>1. call' = call
    BY <1>14, ResponsesKeepCalls
  <2>2. entry[y].state = "none" => entry'[y].state = "none"
    BY <1>c, <2>1
  <2>3. QED
    BY <1>14, <1>a, <2>1, <2>2 DEF Responses, Agree, Fresh
<1>15. ASSUME NEW x \in Executions, GrowStale(x) PROVE Agree(y)'
  BY <1>15, <1>a, <1>b DEF GrowStale, Agree, Fresh, storeVars, bookVars
<1>16. CASE Shutdown
  BY <1>16, <1>a, <1>b DEF Shutdown, Forget, Agree, Fresh, storeVars,
     bookVars
<1>17. CASE StopRoot
  BY <1>17, <1>a, <1>b DEF StopRoot, Agree, Fresh, storeVars, bookVars
<1>18. CASE ShutdownReturns
  BY <1>18, <1>a, <1>b DEF ShutdownReturns, Agree, Fresh, storeVars,
     bookVars
<1>19. CASE Cleanup
  <2>1. call' = call
    BY <1>19 DEF Cleanup, CleanupWhole, CleanupFiles
  <2>2. entry[y].state = "none" => entry'[y].state = "none"
    BY <1>c, <2>1
  <2>3. QED
    BY <1>19, <1>a, <2>1, <2>2 DEF Cleanup, Agree, Fresh
<1>20. CASE UNCHANGED vars
  BY <1>20, <1>a DEF vars, storeVars, bookVars, Agree, Fresh
<1>21. QED
  BY <1>1, <1>2, <1>3, <1>4, <1>5, <1>6, <1>7, <1>8, <1>9, <1>10, <1>11,
     <1>12, <1>13, <1>14, <1>15, <1>16, <1>17, <1>18, <1>19, <1>20
  DEF Next, Send, Runs, CancelRequest

\* Counting the requests that have not ended.
LEMMA LiveFinite == IsFiniteSet(LiveSet)
  BY ExecutionsFinite, FS_Subset DEF LiveSet

LEMMA LiveSame ==
  ASSUME WgExact, req' = req, wg' = wg
  PROVE  WgExact' /\ LiveSet' = LiveSet
<1>1. LiveSet' = LiveSet
  BY DEF LiveSet, Live
<1>2. QED
  BY <1>1 DEF WgExact

LEMMA LiveMoves ==
  ASSUME ReqTypeOK, WgExact, wg' = wg, NEW x \in Executions, NEW from, NEW to, Sends(x, from, to),
         from \in {"registered", "doing", "returned", "unregistered"} <=>
            to \in {"registered", "doing", "returned", "unregistered"}
  PROVE  WgExact' /\ LiveSet' = LiveSet
<1>1. \A y \in Executions : Live(y)' <=> Live(y)
  BY DEF ReqTypeOK, Sends, Live
<1>2. LiveSet' = LiveSet
  BY <1>1 DEF LiveSet
<1>3. QED
  BY <1>2 DEF WgExact

\* The WaitGroup is exact, and the shutdown advances as described.
LEMMA CountStep == IInv /\ [Next]_vars => WgExact' /\ Closing'
<1> SUFFICES ASSUME IInv, [Next]_vars PROVE WgExact' /\ Closing'
  OBVIOUS
<1> USE DEF sendVars, pendingVars, endVars
<1>a. ReqTypeOK /\ WgExact /\ Closing
  BY DEF IInv
<1>b. req \in [Executions -> {"none", "rejected", "registered", "doing",
                              "returned", "unregistered", "done"}]
  BY <1>a DEF ReqTypeOK
<1>1. ASSUME NEW x \in Executions, SendTooLate(x) PROVE WgExact' /\ Closing'
  <2>1. Sends(x, "none", "rejected") /\ wg' = wg
    BY <1>1 DEF SendTooLate
  <2>2. WgExact' /\ LiveSet' = LiveSet
    BY <1>a, <2>1, LiveMoves
  <2>3. storeClosed' = storeClosed
    BY <1>1 DEF SendTooLate, storeVars, bookVars
  <2>4. QED
    BY <1>1, <1>a, <2>2, <2>3 DEF SendTooLate, Closing
<1>2. ASSUME NEW x \in Executions, SendDuplicate(x) PROVE WgExact' /\ Closing'
  <2>1. WgExact' /\ LiveSet' = LiveSet
    BY <1>2, <1>a, LiveSame DEF SendDuplicate, vars
  <2>2. QED
    BY <1>2, <1>a, <2>1 DEF SendDuplicate, Closing, vars, storeVars, bookVars
<1>3. ASSUME NEW x \in Executions, SendCancelled(x) PROVE WgExact' /\ Closing'
  <2>1. Sends(x, "none", "rejected") /\ wg' = wg
    BY <1>3 DEF SendCancelled
  <2>2. WgExact' /\ LiveSet' = LiveSet
    BY <1>a, <2>1, LiveMoves
  <2>3. storeClosed' = storeClosed
    BY <1>3 DEF SendCancelled, storeVars, bookVars
  <2>4. QED
    BY <1>3, <1>a, <2>2, <2>3 DEF SendCancelled, Closing
<1>4. ASSUME NEW x \in Executions, SendRequest(x) PROVE WgExact' /\ Closing'
  <2>1. LiveSet' = LiveSet \cup {x} /\ x \notin LiveSet
    BY <1>4, <1>b DEF SendRequest, Sends, LiveSet, Live
  <2>2. Cardinality(LiveSet \cup {x}) = Cardinality(LiveSet) + 1
    BY <2>1, LiveFinite, FS_AddElement
  <2>3. WgExact'
    BY <1>4, <1>a, <2>1, <2>2 DEF SendRequest, WgExact
  <2>4. QED
    BY <1>4, <1>a, <2>3 DEF SendRequest, Closing, storeVars, bookVars
<1>5. ASSUME NEW x \in Executions, NEW gone \in SUBSET Expired, DoBegins(x, gone)
      PROVE  WgExact' /\ Closing'
  <2>1. Sends(x, "registered", "doing") /\ wg' = wg
    BY <1>5 DEF DoBegins
  <2>2. WgExact' /\ LiveSet' = LiveSet
    BY <1>a, <2>1, LiveMoves
  <2>3. storeClosed' = storeClosed
    BY <1>5 DEF DoBegins, Begin
  <2>4. QED
    BY <1>5, <1>a, <2>2, <2>3 DEF DoBegins, Closing
<1>6. ASSUME NEW x \in Executions, DoRefused(x) PROVE WgExact' /\ Closing'
  <2>1. Sends(x, "registered", "returned") /\ wg' = wg
    BY <1>6 DEF DoRefused
  <2>2. WgExact' /\ LiveSet' = LiveSet
    BY <1>a, <2>1, LiveMoves
  <2>3. storeClosed' = storeClosed
    BY <1>6 DEF DoRefused, storeVars, bookVars
  <2>4. QED
    BY <1>6, <1>a, <2>2, <2>3 DEF DoRefused, Closing
<1>7. ASSUME NEW x \in Executions, DoGoesOn(x) PROVE WgExact' /\ Closing'
  <2>1. WgExact' /\ LiveSet' = LiveSet
    BY <1>7, <1>a, LiveSame DEF DoGoesOn
  <2>2. storeClosed' = storeClosed
    BY <1>7, DoKeepsOpen
  <2>3. QED
    BY <1>7, <1>a, <2>1, <2>2 DEF DoGoesOn, Closing
<1>8. ASSUME NEW x \in Executions, DoReturns(x) PROVE WgExact' /\ Closing'
  <2>1. Sends(x, "doing", "returned") /\ wg' = wg
    BY <1>8 DEF DoReturns
  <2>2. WgExact' /\ LiveSet' = LiveSet
    BY <1>a, <2>1, LiveMoves
  <2>3. storeClosed' = storeClosed
    BY <1>8, DoKeepsOpen
  <2>4. QED
    BY <1>8, <1>a, <2>2, <2>3 DEF DoReturns, Closing
<1>9. ASSUME NEW x \in Executions, Unregister(x) PROVE WgExact' /\ Closing'
  <2>1. Sends(x, "returned", "unregistered") /\ wg' = wg
    BY <1>9 DEF Unregister
  <2>2. WgExact' /\ LiveSet' = LiveSet
    BY <1>a, <2>1, LiveMoves
  <2>3. storeClosed' = storeClosed
    BY <1>9 DEF Unregister, storeVars, bookVars
  <2>4. QED
    BY <1>9, <1>a, <2>2, <2>3 DEF Unregister, Closing
<1>10. ASSUME NEW x \in Executions, Done(x) PROVE WgExact' /\ Closing'
  <2>1. LiveSet' = LiveSet \ {x} /\ x \in LiveSet
    BY <1>10, <1>b DEF Done, Sends, LiveSet, Live
  <2>2. Cardinality(LiveSet \ {x}) = Cardinality(LiveSet) - 1
    BY <2>1, LiveFinite, FS_RemoveElement
  <2>3. WgExact'
    BY <1>10, <1>a, <2>1, <2>2 DEF Done, WgExact
  <2>4. QED
    BY <1>10, <1>a, <2>1, <2>3 DEF Done, Closing, storeVars, bookVars
<1>11. ASSUME NEW x \in Executions, CancelRunning(x) PROVE WgExact' /\ Closing'
  <2>1. WgExact' /\ LiveSet' = LiveSet
    BY <1>11, <1>a, LiveSame DEF CancelRunning
  <2>2. QED
    BY <1>11, <1>a, <2>1 DEF CancelRunning, Closing, storeVars, bookVars
<1>12. ASSUME NEW x \in Executions, CancelTooLate(x) PROVE WgExact' /\ Closing'
  <2>1. WgExact' /\ LiveSet' = LiveSet
    BY <1>12, <1>a, LiveSame DEF CancelTooLate, vars
  <2>2. QED
    BY <1>12, <1>a, <2>1 DEF CancelTooLate, Closing, vars, storeVars, bookVars
<1>13. ASSUME NEW x \in Executions, CancelEarly(x) PROVE WgExact' /\ Closing'
  <2>1. WgExact' /\ LiveSet' = LiveSet
    BY <1>13, <1>a, LiveSame DEF CancelEarly
  <2>2. QED
    BY <1>13, <1>a, <2>1 DEF CancelEarly, Closing, storeVars, bookVars
<1>14. ASSUME NEW x \in Executions, Responses(x) PROVE WgExact' /\ Closing'
  <2>1. WgExact' /\ LiveSet' = LiveSet
    BY <1>14, <1>a, LiveSame DEF Responses
  <2>2. storeClosed' = storeClosed
    BY <1>14, ResponsesKeepCalls
  <2>3. QED
    BY <1>14, <1>a, <2>1, <2>2 DEF Responses, Closing
<1>15. ASSUME NEW x \in Executions, GrowStale(x) PROVE WgExact' /\ Closing'
  <2>1. WgExact' /\ LiveSet' = LiveSet
    BY <1>15, <1>a, LiveSame DEF GrowStale
  <2>2. QED
    BY <1>15, <1>a, <2>1 DEF GrowStale, Closing, storeVars, bookVars
<1>16. CASE Shutdown
  <2>1. WgExact' /\ LiveSet' = LiveSet
    BY <1>16, <1>a, LiveSame DEF Shutdown
  <2>2. QED
    BY <1>16, <1>a, <2>1 DEF Shutdown, Closing, storeVars, bookVars
<1>17. CASE StopRoot
  <2>1. WgExact' /\ LiveSet' = LiveSet
    BY <1>17, <1>a, LiveSame DEF StopRoot
  <2>2. QED
    BY <1>17, <1>a, <2>1 DEF StopRoot, Closing, storeVars, bookVars
<1>18. CASE ShutdownReturns
  <2>1. WgExact' /\ LiveSet' = LiveSet
    BY <1>18, <1>a, LiveSame DEF ShutdownReturns
  <2>2. wg = 0 => LiveSet = {}
    BY <1>a, LiveFinite, FS_EmptySet DEF WgExact
  <2>3. QED
    BY <1>18, <1>a, <2>1, <2>2 DEF ShutdownReturns, Closing, storeVars, bookVars
<1>19. CASE Cleanup
  <2>1. WgExact' /\ LiveSet' = LiveSet
    BY <1>19, <1>a, LiveSame DEF Cleanup
  <2>2. QED
    BY <1>19, <1>a, <2>1 DEF Cleanup, Closing, storeVars, bookVars
<1>20. CASE UNCHANGED vars
  <2>1. WgExact' /\ LiveSet' = LiveSet
    BY <1>20, <1>a, LiveSame DEF vars
  <2>2. QED
    BY <1>20, <1>a, <2>1 DEF vars, storeVars, bookVars, Closing
<1>21. QED
  BY <1>1, <1>2, <1>3, <1>4, <1>5, <1>6, <1>7, <1>8, <1>9, <1>10, <1>11,
     <1>12, <1>13, <1>14, <1>15, <1>16, <1>17, <1>18, <1>19, <1>20
  DEF Next, Send, Runs, CancelRequest

----------------------------------------------------------------------------
LEMMA InvInit == Init => IInv
<1> SUFFICES ASSUME Init PROVE IInv
  OBVIOUS
<1> USE DEF Init
<1>1. StoreInv
  BY StoreInvInit
<1>2. ReqTypeOK
  <2>1. Cardinality({}) <= MaxPending
    BY FS_EmptySet, MaxPendingPositive
  <2>2. Cardinality(pending) <= MaxPending
    BY <2>1
  <2>3. /\ req \in [Executions -> {"none", "rejected", "registered", "doing",
                                  "returned", "unregistered", "done"}]
        /\ older \in [Executions -> SUBSET Executions]
    OBVIOUS
  <2>4. QED
    BY <2>2, <2>3 DEF ReqTypeOK
<1>3. WgExact
  <2>1. LiveSet = {}
    BY DEF LiveSet, Live
  <2>2. QED
    BY <2>1, FS_EmptySet DEF WgExact
<1>4. Closing
  BY DEF Closing, StoreInit
<1>5. ASSUME NEW x \in Executions PROVE Agree(x)
  BY DEF Agree, StoreInit, NoEntry
<1>6. QED
  BY <1>1, <1>2, <1>3, <1>4, <1>5 DEF IInv

LEMMA InvStep == IInv /\ [Next]_vars => IInv'
<1> SUFFICES ASSUME IInv, [Next]_vars PROVE IInv'
  OBVIOUS
<1>1. StoreInv'
  BY StepOfStore, StoreInvStep DEF IInv
<1>2. ReqTypeOK'
  BY ReqTypeStep DEF IInv
<1>3. WgExact' /\ Closing'
  BY CountStep
<1>4. \A x \in Executions : Agree(x)'
  BY AgreeStep
<1>5. QED
  BY <1>1, <1>2, <1>3, <1>4 DEF IInv

\* The invariant of the service and its store, for any executions and limits.
THEOREM Invariance == Spec => []IInv
  BY InvInit, InvStep, PTL DEF Spec

\* Every variable has its type: among others, no more cancels are pending
\* than maxPendingCancels (request_service.go:174).
THEOREM TypeCorrect == Spec => []TypeOK
<1>1. IInv => TypeOK
  <2> SUFFICES ASSUME IInv PROVE TypeOK
    OBVIOUS
  <2>1. wg \in Nat
    BY LiveFinite, FS_CardinalityType DEF IInv, WgExact
  <2>2. StoreTypeOK /\ ReqTypeOK
    BY DEF IInv, StoreInv
  <2>3. QED
    BY <2>1, <2>2 DEF TypeOK, ReqTypeOK
<1>2. QED
  BY <1>1, Invariance, PTL

\* A cancel that arrived first and is not forgotten keeps its request from the
\* network and the disk (request_service.go:103).
THEOREM CancelCorrect == Spec => []CancelWins
<1>1. IInv => CancelWins
  <2> SUFFICES ASSUME IInv, NEW x \in early
               PROVE  req[x] \in {"none", "rejected"} /\ entry[x] = NoEntry /\ ~disk[x]
    BY DEF CancelWins
  <2>1. x \in Executions /\ Agree(x) /\ EntryShape(x) /\ CallShape(x)
    BY DEF IInv, ReqTypeOK, StoreInv, Shape
  <2>2. req[x] \in {"none", "rejected"} /\ entry[x].state = "none" /\ call[x] = "none"
    BY <2>1 DEF Agree
  <2>3. ~entry[x].spilling /\ ~entry[x].file /\ ~entry[x].expired /\ entry[x].reserved = 0
    BY <2>1, <2>2 DEF EntryShape, HasFile
  <2>4. entry[x] \in Entry
    BY <2>1 DEF IInv, StoreInv, StoreTypeOK
  <2>5. entry[x] = NoEntry
    BY <2>2, <2>3, <2>4 DEF Entry, NoEntry
  <2>6. ~disk[x]
    BY <2>1, <2>2, <2>3 DEF CallShape
  <2>7. QED
    BY <2>2, <2>5, <2>6
<1>2. QED
  BY <1>1, Invariance, PTL

\* When Shutdown returns true nothing runs and nothing will, and Cleanup leaves
\* only what is being saved (request_service.go:185).
THEOREM DrainedCorrect == Spec => []DrainedMeansQuiet
<1>1. IInv => DrainedMeansQuiet
  <2> SUFFICES ASSUME IInv, shutdown = "drained", NEW x \in Executions
               PROVE  /\ ~Live(x) /\ call[x] = "none"
                      /\ storeClosed /\ disk[x] => lease[x] # "none"
    BY DEF DrainedMeansQuiet
  <2>1. ~Live(x)
    BY DEF IInv, Closing, LiveSet
  <2>2. call[x] = "none"
    BY <2>1 DEF IInv, Agree, Live
  <2>3. EntryShape(x) /\ CallShape(x) /\ LeaseShape(x)
    BY DEF IInv, StoreInv, Shape
  <2>4. storeClosed /\ disk[x] => lease[x] # "none"
    BY <2>2, <2>3 DEF EntryShape, CallShape, LeaseShape
  <2>5. QED
    BY <2>1, <2>2, <2>4
<1>2. QED
  BY <1>1, Invariance, PTL
=============================================================================
