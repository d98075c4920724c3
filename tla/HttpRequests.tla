--------------------------- MODULE HttpRequests ---------------------------
(***************************************************************************)
(* Sending and cancelling HTTP requests:                                   *)
(* internal/application/http/request_service.go over NetClient.Do and its  *)
(* ResponseStore, and the end of the program (App.shutdown, app.go).       *)
(*                                                                         *)
(* SendRequest and CancelRequest are separate RPCs of one execution ID and *)
(* may arrive in either order, so a cancel that comes first is kept for    *)
(* the send: not for ever, and only so many of them.                       *)
(***************************************************************************)
EXTENDS ResponseStore

CONSTANT MaxPending     \* maxPendingCancels

ASSUME MaxPendingPositive == MaxPending \in Nat \ {0}

VARIABLES
    req,        \* where SendRequest of each execution is
    cancels,    \* s.cancels: the executions that can be cancelled
    wg,         \* s.wg
    ctxDone,    \* executions whose context is cancelled
    pending,    \* s.pending: cancels that wait for their request
    older,      \* older[x]: the pending cancels that came before that of x
    stale,      \* pending cancels older than pendingCancelTTL
    reqClosed,  \* s.closed
    shutdown,   \* how far Shutdown is
    early       \* history: cancelled before they were sent, and not forgotten

sendVars == <<req, cancels, wg, ctxDone>>
pendingVars == <<pending, older, stale, early>>
endVars == <<reqClosed, shutdown>>
vars == <<storeVars, sendVars, pendingVars, endVars>>

TypeOK ==
    /\ StoreTypeOK
    /\ req \in [Executions -> {"none", "rejected", "registered", "doing",
                               "returned", "unregistered", "done"}]
    /\ cancels \subseteq Executions /\ ctxDone \subseteq Executions
    /\ wg \in Nat
    /\ pending \subseteq Executions /\ Cardinality(pending) <= MaxPending
    /\ older \in [Executions -> SUBSET Executions]
    /\ stale \subseteq pending /\ early \subseteq Executions
    /\ reqClosed \in BOOLEAN
    /\ shutdown \in {"none", "closed", "stopped", "drained", "timedOut"}

Init ==
    /\ StoreInit
    /\ req = [x \in Executions |-> "none"]
    /\ cancels = {} /\ wg = 0 /\ ctxDone = {}
    /\ pending = {} /\ stale = {} /\ early = {}
    /\ older = [x \in Executions |-> {}]
    /\ reqClosed = FALSE /\ shutdown = "none"

Sends(x, from, to) ==
    /\ req[x] = from
    /\ req' = [req EXCEPT ![x] = to]

\* The pending cancels become those of kept, and that of x as the newest.
Pend(kept, x) ==
    /\ pending' = kept \cup {x}
    /\ older' = [y \in Executions |-> IF y = x THEN kept \ {x} ELSE (older[y] \cap kept) \ {x}]
Forget(gone) ==
    /\ pending' = pending \ gone
    /\ older' = [y \in Executions |-> IF y \in gone THEN {} ELSE older[y] \ gone]
    /\ stale' = stale \ gone
----------------------------------------------------------------------------
(* SendRequest: one critical section, then Do, then the deferred clean-up. *)
(* Every execution ID is sent once, but for a duplicate that is refused.   *)

SendTooLate(x) ==
    /\ reqClosed
    /\ Sends(x, "none", "rejected")
    /\ UNCHANGED <<storeVars, cancels, wg, ctxDone, pendingVars, endVars>>

SendDuplicate(x) ==
    /\ ~reqClosed /\ x \in cancels
    /\ UNCHANGED vars

\* The cancel came first: nothing touches the network or the disk.
SendCancelled(x) ==
    /\ ~reqClosed
    /\ x \in pending \ stale
    /\ Sends(x, "none", "rejected")
    /\ Forget({x})
    /\ UNCHANGED <<storeVars, cancels, wg, ctxDone, early, endVars>>

\* Mutant: the request does not ask whether it was cancelled already.
SendUnasked(x) ==
    /\ ~reqClosed /\ x \notin cancels
    /\ Sends(x, "none", "registered")
    /\ cancels' = cancels \cup {x}
    /\ wg' = wg + 1
    /\ UNCHANGED <<storeVars, ctxDone, pendingVars, endVars>>

SendRequest(x) ==
    /\ ~reqClosed /\ x \notin cancels
    /\ x \notin pending \ stale
    /\ Sends(x, "none", "registered")
    /\ Forget({x})
    /\ cancels' = cancels \cup {x}
    /\ wg' = wg + 1
    /\ UNCHANGED <<storeVars, ctxDone, early, endVars>>

DoBegins(x, gone) ==
    /\ Begin(x, gone)
    /\ Sends(x, "registered", "doing")
    /\ UNCHANGED <<cancels, wg, ctxDone, pendingVars, endVars>>

DoRefused(x) ==
    /\ storeClosed
    /\ Sends(x, "registered", "returned")
    /\ UNCHANGED <<storeVars, cancels, wg, ctxDone, pendingVars, endVars>>

DoGoesOn(x) ==
    /\ \/ NoSpill(x) \/ Spill(x)
       \/ \E gone \in SUBSET Expired : StartSpill(x, gone) \/ RefuseSpill(x, gone)
    /\ UNCHANGED <<sendVars, pendingVars, endVars>>

\* Mutant: a cancelled request waits for an answer that nobody sends.
DoReturnsUncancelled(x) ==
    /\ x \notin ctxDone
    /\ Finish(x)
    /\ Sends(x, "doing", "returned")
    /\ UNCHANGED <<cancels, wg, ctxDone, pendingVars, endVars>>

DoReturns(x) ==
    /\ Finish(x)
    /\ Sends(x, "doing", "returned")
    /\ UNCHANGED <<cancels, wg, ctxDone, pendingVars, endVars>>

Unregister(x) ==
    /\ Sends(x, "returned", "unregistered")
    /\ cancels' = cancels \ {x}
    /\ ctxDone' = ctxDone \cup {x}
    /\ UNCHANGED <<storeVars, wg, pendingVars, endVars>>

Done(x) ==
    /\ Sends(x, "unregistered", "done")
    /\ wg' = wg - 1
    /\ UNCHANGED <<storeVars, cancels, ctxDone, pendingVars, endVars>>
----------------------------------------------------------------------------
(* CancelRequest.  cancel is called after the lock is left; it concerns    *)
(* only the context of its own execution.                                  *)

CancelRunning(x) ==
    /\ x \in cancels
    /\ ctxDone' = ctxDone \cup {x}
    /\ UNCHANGED <<storeVars, req, cancels, wg, pendingVars, endVars>>

CancelTooLate(x) ==
    /\ x \notin cancels /\ reqClosed
    /\ UNCHANGED vars

\* sweepPendingLocked: what is stale goes, then the oldest ones until there is
\* room for one more.
Fresh == pending \ stale
Sweeps(kept) ==
    /\ \A y \in Fresh \ kept, z \in kept : z \notin older[y]
    /\ Cardinality(kept) < MaxPending
    /\ kept = Fresh \/ Cardinality(kept) = MaxPending - 1

CancelEarly(x) ==
    /\ x \notin cancels /\ ~reqClosed
    /\ \E kept \in SUBSET Fresh :
          /\ Sweeps(kept)
          /\ Pend(kept, x)
          /\ early' = (early \ (Fresh \ kept)) \cup {y \in {x} : req[y] = "none"}
    /\ stale' = {}
    /\ UNCHANGED <<storeVars, sendVars, endVars>>

\* pendingCancelTTL has passed since the oldest cancel that was still fresh.
GrowStale(x) ==
    /\ x \in Fresh /\ older[x] \cap Fresh = {}
    /\ stale' = stale \cup {x}
    /\ early' = early \ {x}
    /\ UNCHANGED <<storeVars, sendVars, pending, older, endVars>>
----------------------------------------------------------------------------
(* App.shutdown: Shutdown of the service, then Cleanup of the store.       *)

\* Mutant: Shutdown refuses new requests only after it has waited.
ShutdownOpen ==
    /\ shutdown = "none"
    /\ shutdown' = "closed"
    /\ Forget(Executions) /\ early' = {}
    /\ UNCHANGED <<storeVars, sendVars, reqClosed>>

Shutdown ==
    /\ shutdown = "none"
    /\ shutdown' = "closed"
    /\ reqClosed' = TRUE
    /\ Forget(Executions) /\ early' = {}
    /\ UNCHANGED <<storeVars, sendVars>>

StopRoot ==
    /\ shutdown = "closed"
    /\ shutdown' = "stopped"
    /\ ctxDone' = Executions
    /\ UNCHANGED <<storeVars, req, cancels, wg, pendingVars, reqClosed>>

ShutdownReturns ==
    /\ shutdown = "stopped"
    /\ \/ wg = 0 /\ shutdown' = "drained"
       \/ shutdown' = "timedOut"
    /\ UNCHANGED <<storeVars, sendVars, pendingVars, reqClosed>>

Cleanup ==
    /\ shutdown \in {"drained", "timedOut"}
    /\ CleanupWhole \/ CleanupFiles
    /\ UNCHANGED <<sendVars, pendingVars, endVars>>
----------------------------------------------------------------------------
\* What the user does with the responses meanwhile.
Responses(x) ==
    /\ Save(x) \/ Discard(x) \/ Expire(x) \/ Vanish(x)
       \/ \E gone \in SUBSET Expired : AcquireSave(x, gone)
    /\ UNCHANGED <<sendVars, pendingVars, endVars>>

Runs(x) ==
    \/ \E gone \in SUBSET Expired : DoBegins(x, gone)
    \/ DoRefused(x) \/ DoGoesOn(x) \/ DoReturns(x) \/ Unregister(x) \/ Done(x)
Send(x) == SendTooLate(x) \/ SendDuplicate(x) \/ SendCancelled(x) \/ SendRequest(x)
CancelRequest(x) == CancelRunning(x) \/ CancelTooLate(x) \/ CancelEarly(x)

Next ==
    \/ \E x \in Executions : Send(x) \/ Runs(x) \/ CancelRequest(x) \/ Responses(x) \/ GrowStale(x)
    \/ Shutdown \/ StopRoot \/ ShutdownReturns \/ Cleanup

Spec == Init /\ [][Next]_vars

\* A request whose context is done comes back from the network and the disk,
\* and its goroutine goes on; nothing else is sure to happen.
Fairness == \A x \in Executions : WF_vars(x \in ctxDone /\ Runs(x))
FairSpec == Spec /\ Fairness
----------------------------------------------------------------------------
(* Properties                                                              *)

Live(x) == req[x] \in {"registered", "doing", "returned", "unregistered"}

\* A cancel that arrives before its request, and is not forgotten, keeps the
\* request from the network and the disk (request_service.go:103).
CancelWins ==
    \A x \in early : req[x] \in {"none", "rejected"} /\ entry[x] = NoEntry /\ ~disk[x]

\* When Shutdown says that everything has ended nothing runs and nothing will:
\* Cleanup meets no write in progress and leaves only what is being saved.
DrainedMeansQuiet ==
    shutdown = "drained" =>
        \A x \in Executions :
            /\ ~Live(x) /\ call[x] = "none"
            /\ storeClosed /\ disk[x] => lease[x] # "none"

\* A request that is cancelled while it runs ends, even if the server never
\* answers; so do all of them after Shutdown.
CancelledEnds ==
    \A x \in Executions : (Live(x) /\ x \in ctxDone) ~> req[x] = "done"
=============================================================================
