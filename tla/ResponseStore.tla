--------------------------- MODULE ResponseStore ---------------------------
(***************************************************************************)
(* The temporary files of truncated HTTP responses:                        *)
(* internal/infrastructure/http/response_store.go, used by NetClient.Do    *)
(* (one call per execution) and by SaveResponseBody (one lease per file).  *)
(*                                                                         *)
(* An entry goes running -> ready <-> saving -> gone.  Writing, copying    *)
(* and some removals happen outside s.mu, and Cleanup may come in between. *)
(* A file is named by its execution: disk[x] is the file the store could   *)
(* still be responsible for.                                               *)
(***************************************************************************)
EXTENDS Integers, FiniteSets

CONSTANTS
    Executions,     \* execution IDs
    MaxFiles,       \* maxResponseFiles
    MaxTotal,       \* maxResponseTotalBytes
    MaxSpills,      \* maxConcurrentSpills
    Reserve         \* tempLimit(): what a spill reserves, in units of MaxTotal

ASSUME ExecutionsFinite == IsFiniteSet(Executions)
ASSUME LimitsNat == MaxFiles \in Nat /\ MaxTotal \in Nat /\ MaxSpills \in Nat /\ Reserve \in Nat

VARIABLES
    entry,          \* s.entries
    total,          \* s.total
    files,          \* s.files
    spills,         \* s.spilling
    storeClosed,    \* s.closed
    dirGone,        \* Cleanup has removed the session directory
    disk,           \* the file of the execution's entry exists
    call,           \* where NetClient.Do of the execution is
    lease,          \* where the save of the execution's file is
    abandoned,      \* history: files nobody tracks because their removal failed
    vanished        \* history: files that somebody else removed

bookVars == <<entry, total, files, spills, storeClosed>>
fileVars == <<disk, dirGone, abandoned, vanished>>
storeVars == <<bookVars, fileVars, call, lease>>

Entry == [state : {"none", "running", "ready", "saving"}, spilling : BOOLEAN, file : BOOLEAN,
          reserved : 0..Reserve, expired : BOOLEAN]
NoEntry == [state |-> "none", spilling |-> FALSE, file |-> FALSE, reserved |-> 0, expired |-> FALSE]
Running == [state |-> "running", spilling |-> FALSE, file |-> FALSE, reserved |-> 0, expired |-> FALSE]
Writing == [state |-> "running", spilling |-> TRUE, file |-> FALSE, reserved |-> Reserve,
            expired |-> FALSE]
Ready(size) == [state |-> "ready", spilling |-> FALSE, file |-> TRUE, reserved |-> size,
                expired |-> FALSE]
HasFile(x) == entry[x].spilling \/ entry[x].file
Expired == {x \in Executions : entry[x].state = "ready" /\ entry[x].expired}

StoreTypeOK ==
    /\ entry \in [Executions -> Entry]
    /\ total \in Int /\ files \in Int /\ spills \in Int
    /\ storeClosed \in BOOLEAN /\ dirGone \in BOOLEAN
    /\ disk \in [Executions -> BOOLEAN]
    /\ call \in [Executions -> {"none", "begun", "creating", "writing", "aborting", "ending"}]
    /\ lease \in [Executions -> {"none", "held", "copied", "removed", "restoring"}]
    /\ abandoned \subseteq Executions /\ vanished \subseteq Executions

StoreInit ==
    /\ entry = [x \in Executions |-> NoEntry]
    /\ total = 0 /\ files = 0 /\ spills = 0
    /\ storeClosed = FALSE /\ dirGone = FALSE
    /\ disk = [x \in Executions |-> FALSE]
    /\ call = [x \in Executions |-> "none"]
    /\ lease = [x \in Executions |-> "none"]
    /\ abandoned = {} /\ vanished = {}

Calls(x, from, to) ==
    /\ call[x] = from
    /\ call' = [call EXCEPT ![x] = to]
Leases(x, from, to) ==
    /\ lease[x] = from
    /\ lease' = [lease EXCEPT ![x] = to]

\* The units of space that the entries of a set reserve, and their files.
Reserved(set) ==
    Cardinality({u \in Executions \X (1..Reserve) : u[1] \in set /\ u[2] <= entry[u[1]].reserved})
FilesOf(set) == Cardinality({x \in set : HasFile(x)})

\* dropLocked of every entry of a set.
Without(gone) == [x \in Executions |-> IF x \in gone THEN NoEntry ELSE entry[x]]
Release(gone) ==
    /\ total' = total - Reserved(gone)
    /\ files' = files - FilesOf(gone)
Drop(gone) ==
    /\ entry' = Without(gone)
    /\ Release(gone)

\* Files that are removed, or stay for good because that failed.
Remove(gone, failed) ==
    /\ disk' = [x \in Executions |-> disk[x] /\ x \notin gone]
    /\ abandoned' = abandoned \cup {x \in failed : disk[x]}
    /\ UNCHANGED <<dirGone, vanished>>
----------------------------------------------------------------------------
(* NetClient.Do.  An operation begins with evictExpiredLocked: gone are the *)
(* expired files that could be removed, the others stay tracked.            *)

Begin(x, gone) ==
    /\ ~storeClosed
    /\ Without(gone)[x] = NoEntry
    /\ Calls(x, "none", "begun")
    /\ entry' = [Without(gone) EXCEPT ![x] = Running]
    /\ Release(gone)
    /\ Remove(gone, {})
    /\ UNCHANGED <<spills, storeClosed, lease>>

\* Begin or AcquireSave of an execution that is busy, unknown or expired.
Refused(gone) ==
    /\ ~storeClosed
    /\ Drop(gone)
    /\ Remove(gone, {})
    /\ UNCHANGED <<spills, storeClosed, call, lease>>

\* The response is small, or the request failed: nothing is spilled.
NoSpill(x) ==
    /\ Calls(x, "begun", "ending")
    /\ UNCHANGED <<bookVars, fileVars, lease>>

Fits(gone) ==
    /\ files - FilesOf(gone) + 1 <= MaxFiles
    /\ total - Reserved(gone) + Reserve <= MaxTotal
    /\ spills + 1 <= MaxSpills

\* startSpill: the largest possible file is reserved ...
StartSpill(x, gone) ==
    /\ ~storeClosed
    /\ Calls(x, "begun", "creating")
    /\ Fits(gone)
    /\ entry[x].state = "running" /\ ~HasFile(x)
    /\ entry' = [Without(gone) EXCEPT ![x] = Writing]
    /\ total' = total - Reserved(gone) + Reserve
    /\ files' = files - FilesOf(gone) + 1
    /\ spills' = spills + 1
    /\ Remove(gone, {})
    /\ UNCHANGED <<storeClosed, lease>>

\* ... or it fails: a limit is reached, or there is no directory ...
RefuseSpill(x, gone) ==
    /\ ~storeClosed
    /\ Calls(x, "begun", "ending")
    /\ Drop(gone)
    /\ Remove(gone, {})
    /\ UNCHANGED <<spills, storeClosed, lease>>

\* ... or the store is closed.
SpillTooLate(x) ==
    /\ storeClosed
    /\ Calls(x, "begun", "ending")
    /\ UNCHANGED <<bookVars, fileVars, lease>>

CreateTemp(x) ==
    /\ ~dirGone
    /\ Calls(x, "creating", "writing")
    /\ disk' = [disk EXCEPT ![x] = TRUE]
    /\ vanished' = vanished \ {x}
    /\ UNCHANGED <<bookVars, dirGone, abandoned, lease>>

CreateFails(x) ==
    /\ Calls(x, "creating", "aborting")
    /\ UNCHANGED <<bookVars, fileVars, lease>>

\* Mutant: abortSpill is not told of the file that was created.
WriteFailsKeepingFile(x) ==
    /\ Calls(x, "writing", "aborting")
    /\ UNCHANGED <<bookVars, fileVars, lease>>

\* The body could not be written: abortSpill removes the file ...
WriteFails(x) ==
    /\ Calls(x, "writing", "aborting")
    /\ \E failed \in SUBSET {x} : Remove({x}, failed)
    /\ UNCHANGED <<bookVars, lease>>

\* ... and gives the reservation back ...
AbortSpill(x) ==
    /\ entry[x].spilling
    /\ Calls(x, "aborting", "ending")
    /\ entry' = [entry EXCEPT ![x] = Running]
    /\ total' = total - entry[x].reserved
    /\ files' = files - 1
    /\ spills' = spills - 1
    /\ UNCHANGED <<storeClosed, fileVars, lease>>

\* Mutant: abortSpill gives a reservation back that Cleanup gave back before.
AbortTwice(x) ==
    /\ ~entry[x].spilling
    /\ Calls(x, "aborting", "ending")
    /\ total' = total - Reserve
    /\ files' = files - 1
    /\ spills' = spills - 1
    /\ UNCHANGED <<entry, storeClosed, fileVars, lease>>

\* ... unless Cleanup did.
AbortOvertaken(x) ==
    /\ ~entry[x].spilling
    /\ Calls(x, "aborting", "ending")
    /\ spills' = spills - 1
    /\ UNCHANGED <<entry, total, files, storeClosed, fileVars, lease>>

CommitSpill(x) ==
    /\ ~storeClosed /\ entry[x].spilling
    /\ Calls(x, "writing", "ending")
    /\ \E written \in 1..Reserve :
          /\ entry' = [entry EXCEPT ![x] = Ready(written)]
          /\ total' = total + written - entry[x].reserved
    /\ spills' = spills - 1
    /\ UNCHANGED <<files, storeClosed, fileVars, lease>>

CommitTooLate(x) ==
    /\ storeClosed \/ ~entry[x].spilling
    /\ Calls(x, "writing", "ending")
    /\ \E failed \in SUBSET {x} : Remove({x}, failed)
    /\ spills' = spills - 1
    /\ UNCHANGED <<entry, total, files, storeClosed, lease>>

Finish(x) ==
    /\ Calls(x, "ending", "none")
    /\ entry' = IF entry[x].state = "running" /\ ~entry[x].spilling
                THEN [entry EXCEPT ![x] = NoEntry] ELSE entry
    /\ UNCHANGED <<total, files, spills, storeClosed, fileVars, lease>>
----------------------------------------------------------------------------
(* Saving and discarding                                                   *)

AcquireSave(x, gone) ==
    /\ ~storeClosed
    /\ entry[x].state = "ready" /\ x \notin gone
    /\ Leases(x, "none", "held")
    /\ entry' = [Without(gone) EXCEPT ![x] = [entry[x] EXCEPT !.state = "saving"]]
    /\ Release(gone)
    /\ Remove(gone, {})
    /\ UNCHANGED <<spills, storeClosed, call>>

\* The dialog is cancelled or fails (Release), or the copy fails.
NotSaved(x) ==
    /\ Leases(x, "held", "restoring")
    /\ UNCHANGED <<bookVars, fileVars, call>>

Copied(x) ==
    /\ disk[x]
    /\ Leases(x, "held", "copied")
    /\ UNCHANGED <<bookVars, fileVars, call>>

RemoveSaved(x) ==
    /\ Leases(x, "copied", "removed")
    /\ Remove({x}, {})
    /\ UNCHANGED <<bookVars, call>>

RemoveSavedFails(x) ==
    /\ Leases(x, "copied", "restoring")
    /\ UNCHANGED <<bookVars, fileVars, call>>

DropSaved(x) ==
    /\ Leases(x, "removed", "none")
    /\ Drop({x})
    /\ UNCHANGED <<spills, storeClosed, fileVars, call>>

\* restore: back to ready, or out of the books when the store is closed or the
\* file has been lost.
RestoreReady(x) ==
    /\ entry[x].state = "saving"
    /\ ~storeClosed /\ disk[x]
    /\ Leases(x, "restoring", "none")
    /\ entry' = [entry EXCEPT ![x] = [@ EXCEPT !.state = "ready"]]
    /\ UNCHANGED <<total, files, spills, storeClosed, fileVars, call>>

RestoreLost(x) ==
    /\ entry[x].state = "saving"
    /\ ~storeClosed /\ ~disk[x]
    /\ Leases(x, "restoring", "none")
    /\ Drop({x})
    /\ UNCHANGED <<spills, storeClosed, fileVars, call>>

RestoreClosed(x) ==
    /\ entry[x].state = "saving"
    /\ storeClosed
    /\ Leases(x, "restoring", "none")
    /\ \E failed \in SUBSET {x} : Remove({x}, failed)
    /\ Drop({x})
    /\ UNCHANGED <<spills, storeClosed, call>>

\* Discard; a removal that fails changes nothing.
Discard(x) ==
    /\ entry[x].state = "ready"
    /\ Remove({x}, {})
    /\ Drop({x})
    /\ UNCHANGED <<spills, storeClosed, call, lease>>

\* responseReadyTTL has passed since the file was ready.
Expire(x) ==
    /\ entry[x].state \in {"ready", "saving"} /\ ~entry[x].expired
    /\ entry' = [entry EXCEPT ![x] = [@ EXCEPT !.expired = TRUE]]
    /\ UNCHANGED <<total, files, spills, storeClosed, fileVars, call, lease>>

\* Somebody cleans the temporary directory.
Vanish(x) ==
    /\ entry[x].file /\ disk[x]
    /\ disk' = [disk EXCEPT ![x] = FALSE]
    /\ vanished' = vanished \cup {x}
    /\ UNCHANGED <<bookVars, dirGone, abandoned, call, lease>>
----------------------------------------------------------------------------
(* Cleanup: everything but what is being saved leaves the books.           *)

Saving == {x \in Executions : entry[x].state = "saving"}

\* Mutant: the directory is removed although a response is being saved.
CleanupWholeAnyway ==
    /\ ~storeClosed
    /\ storeClosed' = TRUE
    /\ Drop(Executions \ Saving)
    /\ dirGone' = TRUE
    /\ disk' = [x \in Executions |-> FALSE]
    /\ UNCHANGED <<spills, abandoned, vanished, call, lease>>

\* Nothing is being saved, and the directory goes as a whole ...
CleanupWhole ==
    /\ ~storeClosed
    /\ Saving = {}
    /\ storeClosed' = TRUE
    /\ Drop(Executions)
    /\ dirGone' = TRUE
    /\ disk' = [x \in Executions |-> FALSE]
    /\ UNCHANGED <<spills, abandoned, vanished, call, lease>>

\* ... or it stays, for the sake of a save or because it can not be removed.
CleanupFiles ==
    /\ ~storeClosed
    /\ storeClosed' = TRUE
    /\ Drop(Executions \ Saving)
    /\ LET tracked == {x \in Executions \ Saving : entry[x].file}
       IN \E failed \in SUBSET tracked : Remove(tracked, failed)
    /\ UNCHANGED <<spills, call, lease>>
----------------------------------------------------------------------------
Operate(x, gone) ==
    \/ Begin(x, gone) \/ StartSpill(x, gone) \/ RefuseSpill(x, gone) \/ AcquireSave(x, gone)
Spill(x) ==
    \/ SpillTooLate(x) \/ CreateTemp(x) \/ CreateFails(x) \/ WriteFails(x)
    \/ AbortSpill(x) \/ AbortOvertaken(x) \/ CommitSpill(x) \/ CommitTooLate(x)
Save(x) ==
    \/ NotSaved(x) \/ Copied(x) \/ RemoveSaved(x) \/ RemoveSavedFails(x) \/ DropSaved(x)
    \/ RestoreReady(x) \/ RestoreLost(x) \/ RestoreClosed(x)

StoreNext ==
    \/ \E gone \in SUBSET Expired :
          \/ \E x \in Executions : Operate(x, gone)
          \/ Refused(gone)
    \/ \E x \in Executions :
          \/ NoSpill(x) \/ Spill(x) \/ Finish(x)
          \/ Save(x) \/ Discard(x) \/ Expire(x) \/ Vanish(x)
    \/ CleanupWhole \/ CleanupFiles

StoreSpec == StoreInit /\ [][StoreNext]_storeVars
----------------------------------------------------------------------------
(* Properties                                                              *)

Spilling(x) == call[x] \in {"creating", "writing", "aborting"}

\* The books are exact at every moment, whatever failed or was overtaken:
\* total is what the entries reserve, files the entries with a file, and
\* spilling the writes in progress (response_store.go:175).
BooksExact ==
    /\ total = Reserved(Executions)
    /\ files = FilesOf(Executions)
    /\ spills = Cardinality({x \in Executions : Spilling(x)})

\* No limit is ever exceeded, counting what spills in progress may yet write.
WithinLimits == total <= MaxTotal /\ files <= MaxFiles /\ spills <= MaxSpills

\* Every file is somebody's: tracked by its entry or being written.
EveryFileOwned ==
    \A x \in Executions : disk[x] => entry[x].file \/ call[x] = "writing"

\* While a response is being saved nobody in the program takes its file away,
\* not even Cleanup (response_store.go:285).
LeaseProtects ==
    \A x \in Executions :
        /\ lease[x] # "none" <=> entry[x].state = "saving"
        /\ lease[x] \in {"held", "copied"} => disk[x] \/ x \in vanished

\* Once the store is closed and what was in progress has ended, no file is left
\* except one whose removal failed (the next start sweeps it).
ClosedLeavesNothing ==
    storeClosed => \A x \in Executions :
        ~Spilling(x) /\ lease[x] = "none" => ~disk[x] /\ entry[x] = NoEntry
=============================================================================
