------------------------------ MODULE MqttTabs ------------------------------
(***************************************************************************)
(* The tabs of the MQTT panel: what the frontend believes of the backend's *)
(* connections (application/mqtt/connections.ts, profiles.ts), and the     *)
(* controls that the broker list, the settings dialog and the connection   *)
(* bar offer for them.                                                     *)
(*                                                                         *)
(* A call reaches the backend when it is sent; its answer and the events   *)
(* of the connections arrive later, in any order between them.  Only the   *)
(* events of one connection keep their order.  A step is what runs between *)
(* two awaits.                                                             *)
(*                                                                         *)
(* Next assumes a user who waits for the tabs of the start; the code does  *)
(* not make him wait.                                                      *)
(***************************************************************************)
EXTENDS Integers, Sequences, FiniteSets, SequencesExt, Functions, Arrays

CONSTANTS
    Profiles,   \* IDs of broker profiles; the offline tab of p has the ID p
    MaxConns,   \* bound: connections the backend ever makes
    None,       \* no tab, no answer
    MaxNews,    \* bound: events of one connection that are on their way
    MaxVer,     \* bound: contents a profile may have
    MaxBusy     \* bound: operations of the user in progress at a time

Conns == 1 .. MaxConns
TabIds == Conns \cup Profiles
Vers == 0 .. MaxVer

ASSUME TabAssumption ==
    /\ MaxConns \in Nat \ {0} /\ MaxNews \in Nat \ {0}
    /\ MaxVer \in Nat /\ MaxBusy \in Nat
    /\ Profiles \cap Conns = {}
    /\ None \notin TabIds /\ None \notin {"connected", "lost", "closed"}
    /\ IsFiniteSet(Profiles)

VARIABLES
    \* the backend, as far as the frontend can tell
    life,       \* life[c] of the connection: "none", "dialing", "up", "lost", "over"
    owner,      \* owner[c]: the profile it was made for
    dialed,     \* dialed[c]: the content the profile had then, until it is over
    news,       \* news[c]: events that are on their way
    stored,     \* stored[p]: the backend's profile: "never", "kept", "deleted"
    \* the frontend's stores
    listed,     \* the profiles in the broker list
    saved,      \* saved[p]: the content of p in the list
    tabs,       \* the keys of the connection store, oldest first
    node,       \* node[id]: the tab's record, kept for a handler that holds it
    active,     \* activeConnectionId
    early,      \* early[c]: earlyStates
    last,       \* the profile that was active last, in the local storage
    \* what is in progress
    restore,    \* "start", "asked", "answered", "done", or "failed"
    snapshot,   \* what GetProfiles and GetConnections answered
    dial,       \* dial[p]: handleConnect
    flow,       \* flow[id]: handleReconnect
    saving,     \* saving[p]: a save of p
    deleting,   \* deleting[p]: a deletion of p
    leaving,    \* connections whose handleDisconnect waits for its answer
    \* history
    orphaned    \* live connections whose tab another one replaced, or never comes

backendVars == <<life, owner, dialed, news, stored>>
listVars == <<listed, saved>>
tabVars == <<tabs, node, active, last>>
callVars == <<dial, flow, saving, deleting, leaving>>
restoreVars == <<restore, snapshot>>
vars == <<backendVars, listVars, tabVars, early, callVars, restoreVars, orphaned>>
-----------------------------------------------------------------------------
(* Records.                                                                *)

\* makeOfflineState, makeOnlineState: neither connected nor closed
Fresh(ver) == [connected |-> FALSE, closed |-> FALSE, ver |-> ver]

\* got: the connection that the answer names
Idle == [pc |-> "idle", ver |-> 0, got |-> None]

NotSaving == [kind |-> "none", ver |-> 0, ok |-> FALSE]

Online(id) == id \in Conns
ProfileOf(id) == IF Online(id) THEN owner[id] ELSE id
Shown(id) == id \in Range(tabs)
Live(c) == life[c] \in {"dialing", "up", "lost"}

\* hasLiveConnection and isConnected of the tab's record
HasLive(id) == Online(id) /\ ~node[id].closed
IsConnected(id) == Online(id) /\ node[id].connected

TabsOf(p) == Only(tabs, {id \in TabIds : ProfileOf(id) = p})

\* getConnectionForProfile: the tab of p that was made last
TabOf(p) == IF TabsOf(p) = <<>> THEN None ELSE Last(TabsOf(p))

Without(ids) == Only(tabs, TabIds \ ids)

\* A record that neither a tab nor a running handleReconnect holds is gone.
Held(records, shown, ended) == [id \in TabIds |->
    IF id \in shown \/ (id # ended /\ flow[id].pc # "idle") THEN records[id] ELSE Fresh(0)]

\* updateConnection: nothing happens to a tab that is gone
Put(id, rec) == [node EXCEPT ![id] = IF Shown(id) THEN rec ELSE @]

Closed(id) == [node[id] EXCEPT !.connected = FALSE, !.closed = TRUE]

\* The effect that keeps the active profile for the next start, once restore
\* has read it.
Persist ==
    last' = IF restore' # "done" THEN last
            ELSE IF active' \notin Range(tabs') THEN None
            ELSE IF Online(active') THEN owner'[active'] ELSE active'
-----------------------------------------------------------------------------
(* Early states.  They are kept while a call that makes tabs is running.    *)

TabRpcs ==
    Cardinality({p \in Profiles : dial[p].pc = "dialing"})
  + Cardinality({id \in TabIds : flow[id].pc = "dialing"})
  + (IF restore \in {"asked", "answered"} THEN 1 ELSE 0)

NoEarly == [c \in Conns |-> None]

\* withEarlyStates' finally: the last call to end forgets them
EndTabRpc == early' = IF TabRpcs = 1 THEN NoEarly ELSE early

\* Mutant: what arrives before the tab is forgotten.
ForgetEarly(c, state) == early' = IF Shown(c) THEN early ELSE [early EXCEPT ![c] = None]

RememberEarly(c, state) ==
    early' = IF TabRpcs = 0 \/ Shown(c) THEN early ELSE [early EXCEPT ![c] = state]

EarlyOr(c, rec) ==
    CASE early[c] = None -> rec
      [] early[c] = "connected" -> [rec EXCEPT !.connected = TRUE, !.closed = FALSE]
      [] early[c] = "lost" -> [rec EXCEPT !.connected = FALSE, !.closed = FALSE]
      [] early[c] = "closed" -> [rec EXCEPT !.connected = FALSE, !.closed = TRUE]
-----------------------------------------------------------------------------
(* The backend: what MqttEventStream promises of a connection.              *)

CanTell(c) == Len(news[c]) < MaxNews
Tell(c, event) == news' = [news EXCEPT ![c] = Append(@, event)]

Happens(c, from, to, event) ==
    /\ life[c] \in from /\ CanTell(c)
    /\ life' = [life EXCEPT ![c] = to]
    /\ dialed' = IF to = "over" THEN [dialed EXCEPT ![c] = 0] ELSE dialed
    /\ Tell(c, event)
    /\ UNCHANGED <<owner, stored, listVars, tabVars, early, callVars, restoreVars, orphaned>>

Establish(c) == Happens(c, {"dialing", "lost"}, "up", "connected")
LoseLink(c) == Happens(c, {"up"}, "lost", "lost")
FailDial(c) == Happens(c, {"dialing"}, "over", "closed")

\* api.disconnect(c): it fails when the connection is over
Cut(c) ==
    IF Live(c)
    THEN /\ life' = [life EXCEPT ![c] = "over"]
         /\ dialed' = [dialed EXCEPT ![c] = 0]
         /\ Tell(c, "closed")
    ELSE UNCHANGED <<life, dialed, news>>

\* api.connect(profile): a new connection, or an error
Spare == {c \in Conns : life[c] = "none"}
DialFor(p, ver, c) ==
    /\ c \in {None} \cup {n \in Spare : \A m \in Spare : n <= m}
    /\ IF c = None THEN UNCHANGED <<life, owner, dialed>>
       ELSE /\ life' = [life EXCEPT ![c] = "dialing"]
            /\ owner' = [owner EXCEPT ![c] = p]
            /\ dialed' = [dialed EXCEPT ![c] = ver]
-----------------------------------------------------------------------------
(* Events.                                                                  *)

Deliver(c, event) ==
    /\ news[c] # <<>> /\ Head(news[c]) = event
    /\ news' = [news EXCEPT ![c] = Tail(@)]
    /\ RememberEarly(c, event)
    /\ UNCHANGED <<life, owner, dialed, stored, listVars, tabs, active, last, callVars,
                   restoreVars, orphaned>>

\* mqtt:connected.  A tab that is closed stays closed.
HearConnected(c) ==
    /\ Deliver(c, "connected")
    /\ node' = Put(c, IF node[c].closed THEN node[c] ELSE [node[c] EXCEPT !.connected = TRUE])

\* mqtt:connection-lost: paho connects again, the connection is still there
HearLost(c) ==
    /\ Deliver(c, "lost")
    /\ node' = Put(c, [node[c] EXCEPT !.connected = FALSE])

\* mqtt:disconnected and mqtt:connection-failed
HearClosed(c) ==
    /\ Deliver(c, "closed")
    /\ node' = Put(c, Closed(c))
-----------------------------------------------------------------------------
(* Restoring the tabs when the panel is mounted, once.                      *)

Unread == [live |-> {}, up |-> {}, profiles |-> {}]

\* the content of every profile as GetProfiles answers it
Loaded == 0

\* Connections that no answer to come will show, nor one of the tabs ids.
Awaited(c) ==
    \/ \E p \in Profiles : dial[p].got = c
    \/ \E id \in TabIds : flow[id].got = c
Unseen(ids) == {c \in Conns : Live(c) /\ ~Awaited(c)} \ ids

\* loadProfiles fails: nothing is restored
LoadFails ==
    /\ restore = "start"
    /\ restore' = "failed"
    /\ snapshot' = Unread
    /\ orphaned' = orphaned \cup Unseen(Range(tabs))
    /\ UNCHANGED <<backendVars, listVars, tabVars, early, callVars>>

\* the profiles come, and restore() sends GetConnections
AskRestore ==
    /\ restore = "start"
    /\ restore' = "asked"
    /\ listed' = snapshot.profiles
    /\ UNCHANGED <<backendVars, saved, tabVars, early, snapshot, callVars, orphaned>>

\* the backend answers with the connections as they are, or not at all
AnswerRestore ==
    /\ restore = "asked"
    /\ restore' = "answered"
    /\ \E live \in {{c \in Conns : Live(c)}, {}} :
          snapshot' = [snapshot EXCEPT !.live = live, !.up = {c \in Conns : life[c] = "up"}]
    /\ UNCHANGED <<backendVars, listVars, tabVars, early, callVars, orphaned>>

\* The profile is the loaded one, or made up from the status (synthesizeProfile).
Restored(c) ==
    EarlyOr(c, [connected |-> c \in snapshot.up, closed |-> FALSE,
                ver |-> IF owner[c] \in snapshot.profiles THEN Loaded ELSE dialed[c]])

\* Live connections get online tabs, the other profiles offline ones, and the
\* tab of the profile that was used last becomes active.  Tabs that are there
\* already are replaced in place.
Restore ==
    /\ restore = "answered"
    /\ restore' = "done"
    /\ LET live == snapshot.live
           offline == {p \in snapshot.profiles : \A c \in live : owner[c] # p} IN
          /\ tabs' = tabs \o SetToSeq(live \ Range(tabs)) \o SetToSeq(offline \ Range(tabs))
          /\ node' = [id \in TabIds |->
                IF id \in live THEN Restored(id)
                ELSE IF id \in offline THEN Fresh(Loaded) ELSE node[id]]
          /\ active' = IF \E c \in live : owner[c] = last
                       THEN CHOOSE c \in live : owner[c] = last
                       ELSE IF last \in snapshot.profiles THEN last ELSE active
          /\ orphaned' = orphaned \cup Unseen(Range(tabs'))
    /\ EndTabRpc
    /\ snapshot' = Unread
    /\ UNCHANGED <<backendVars, listVars, callVars>>
    /\ Persist

\* the start is over
Ready == restore \in {"done", "failed"}
-----------------------------------------------------------------------------
(* Operations shared by the handlers.                                       *)

\* a bound: the user has few things under way at a time
Busy ==
    Cardinality({p \in Profiles : dial[p].pc # "idle"}) + Cardinality(leaving)
  + Cardinality({p \in Profiles : saving[p].kind # "none"})
  + Cardinality({p \in Profiles : deleting[p] # None})
  + Cardinality({id \in TabIds : flow[id].pc # "idle"})
MayAct == Busy < MaxBusy
OnActive == active # None /\ Shown(active)

\* replaceProfileTab: the tabs of p go, the new one is the youngest
ReplaceTab(p, id) ==
    /\ tabs' = Append(Without(Range(TabsOf(p))), id)
    /\ orphaned' = orphaned \cup {c \in Range(TabsOf(p)) : Online(c) /\ Live(c)}

CreateOffline(p, ver) ==
    /\ ReplaceTab(p, p)
    /\ node' = Held([node EXCEPT ![p] = Fresh(ver)],
                  (Range(tabs) \ Range(TabsOf(p))) \cup {p}, None)
    /\ active' = p

\* handleReconnect: not when it runs already for this tab.  An online tab is
\* disconnected first, and whether that works does not matter.
CanReconnect(id) == Shown(id) /\ flow[id].pc = "idle"
StartReconnect(id, ver) ==
    IF Online(id)
    THEN /\ flow' = [flow EXCEPT ![id] = [pc |-> "cutting", ver |-> ver, got |-> None]]
         /\ Cut(id)
         /\ UNCHANGED <<owner, stored>>
    ELSE \E c \in Conns \cup {None} :
         /\ DialFor(id, ver, c)
         /\ flow' = [flow EXCEPT ![id] = [pc |-> "dialing", ver |-> ver, got |-> c]]
         /\ UNCHANGED <<news, stored>>

\* Mutant: only a connected tab is disconnected.
CloseQuietly(id) ==
    LET rest == Without({id}) IN
    /\ IF Online(id) /\ Shown(id) /\ IsConnected(id) THEN Cut(id)
       ELSE UNCHANGED <<life, dialed, news>>
    /\ tabs' = rest
    /\ active' = IF active # id THEN active ELSE IF rest = <<>> THEN None ELSE Head(rest)

\* closeConnection: whatever is online is disconnected, connected or not
CloseTab(id) ==
    LET rest == Without({id}) IN
    /\ IF Online(id) /\ Shown(id) THEN Cut(id) ELSE UNCHANGED <<life, dialed, news>>
    /\ tabs' = rest
    /\ active' = IF active # id THEN active ELSE IF rest = <<>> THEN None ELSE Head(rest)
-----------------------------------------------------------------------------
(* The broker list and the connection bar.                                  *)

\* The bar shows one of Connect, Connecting... and Disconnect, and the address
\* can be edited while the backend has no connection for the tab.
OffersConnect == OnActive /\ ~IsConnected(active) /\ ~HasLive(active)
OffersDisconnect == OnActive /\ (IsConnected(active) \/ HasLive(active))
OffersEdit == OnActive /\ ~IsConnected(active) /\ ~HasLive(active)

\* The list offers Settings and Delete of a listed profile and a new one; the
\* dialog offers Save & Connect always, Save not while the connection is live.
OffersDelete(p) == p \in listed
OffersSave(p, kind) ==
    /\ p \in listed \/ stored[p] = "never"
    /\ kind = "save" => TabOf(p) = None \/ ~HasLive(TabOf(p))

\* handleProfileClick: switchConnection or createOfflineConnection
ClickProfile(p) ==
    /\ p \in listed
    /\ UNCHANGED <<backendVars, listVars, callVars>>
    /\ IF TabOf(p) # None
       THEN active' = TabOf(p) /\ UNCHANGED <<tabs, node, orphaned>>
       ELSE CreateOffline(p, saved[p])
    /\ UNCHANGED <<early, restoreVars>>
    /\ Persist

ClickConnect ==
    /\ MayAct /\ OffersConnect
    /\ CanReconnect(active)
    /\ StartReconnect(active, node[active].ver)
    /\ UNCHANGED <<listVars, tabVars, early, restoreVars, dial, saving, deleting, leaving, orphaned>>

\* handleDisconnect, behind Disconnect and behind Connecting...
ClickDisconnect ==
    /\ MayAct /\ OffersDisconnect /\ active \notin leaving
    /\ Cut(active)
    /\ leaving' = leaving \cup {active}
    /\ UNCHANGED <<owner, stored, listVars, tabVars, early, restoreVars, dial, flow,
                   saving, deleting, orphaned>>

\* The answer, or an error: the tab is closed either way.
AnswerDisconnect(c) ==
    /\ c \in leaving
    /\ leaving' = leaving \ {c}
    /\ node' = Put(c, Closed(c))
    /\ UNCHANGED <<backendVars, listVars, tabs, active, last, early, restoreVars, dial, flow,
                   saving, deleting, orphaned>>

\* The backend gives a new profile a new ID, keeps a changed one, and knows
\* nothing of a deleted one.
SendSave(p, kind, ver) ==
    /\ saving[p].kind = "none"
    /\ \E ok \in IF stored[p] = "deleted" THEN {FALSE} ELSE BOOLEAN :
          /\ saving' = [saving EXCEPT ![p] = [kind |-> kind, ver |-> ver, ok |-> ok]]
          /\ stored' = IF ok THEN [stored EXCEPT ![p] = "kept"] ELSE stored

\* Mutant: only a connected tab is kept from being edited.
EditPending(ver) ==
    /\ MayAct /\ OnActive
    /\ ~IsConnected(active)
    /\ SendSave(ProfileOf(active), "edit", ver)
    /\ node' = Put(active, [node[active] EXCEPT !.ver = ver])
    /\ UNCHANGED <<life, owner, dialed, news, listVars, tabs, active, last, early, restoreVars,
                   dial, flow, deleting, leaving, orphaned>>

\* updateConnectionBroker: typing in the bar changes the tab and saves
EditBroker(ver) ==
    /\ MayAct /\ OffersEdit
    /\ ~HasLive(active)
    /\ SendSave(ProfileOf(active), "edit", ver)
    /\ node' = Put(active, [node[active] EXCEPT !.ver = ver])
    /\ UNCHANGED <<life, owner, dialed, news, listVars, tabs, active, last, early, restoreVars,
                   dial, flow, deleting, leaving, orphaned>>

\* Save and Save & Connect of the settings dialog
AskSave(p, kind, ver) ==
    /\ MayAct /\ OffersSave(p, kind)
    /\ SendSave(p, kind, ver)
    /\ UNCHANGED <<life, owner, dialed, news, listVars, tabVars, early, restoreVars, dial, flow,
                   deleting, leaving, orphaned>>

SaveFails(p) ==
    /\ saving[p].kind # "none" /\ ~saving[p].ok
    /\ saving' = [saving EXCEPT ![p] = NotSaving]
    /\ UNCHANGED <<backendVars, listVars, tabVars, early, restoreVars, dial, flow, deleting,
                   leaving, orphaned>>

\* The saved profile enters the list; the rest depends on who saved.
Saved(p, kind) ==
    /\ saving[p].kind = kind /\ saving[p].ok
    /\ saving' = [saving EXCEPT ![p] = NotSaving]
    /\ listed' = listed \cup {p}
    /\ saved' = [saved EXCEPT ![p] = saving[p].ver]

SavedEdit(p) ==
    /\ Saved(p, "edit")
    /\ UNCHANGED <<backendVars, tabVars, early, restoreVars, dial, flow, deleting, leaving, orphaned>>

\* applySavedProfile: a connection that became live meanwhile is cut
SavedProfile(p) ==
    /\ Saved(p, "save")
    /\ UNCHANGED flow
    /\ IF TabOf(p) = None
       THEN CreateOffline(p, saving[p].ver) /\ UNCHANGED <<life, dialed, news>>
       ELSE LET id == Head(TabsOf(p))
                rec == IF HasLive(id) THEN Closed(id) ELSE node[id] IN
            /\ IF HasLive(id) THEN Cut(id) ELSE UNCHANGED <<life, dialed, news>>
            /\ node' = Put(id, [rec EXCEPT !.ver = saving[p].ver])
            /\ active' = id
            /\ UNCHANGED <<tabs, orphaned>>
    /\ UNCHANGED <<owner, stored, early, restoreVars, dial, deleting, leaving>>
    /\ Persist

\* Save & Connect: handleReconnect of the profile's tab
SavedThenReconnect(p) ==
    /\ Saved(p, "connect") /\ TabOf(p) # None
    /\ IF CanReconnect(TabOf(p)) THEN StartReconnect(TabOf(p), saving[p].ver)
       ELSE UNCHANGED <<backendVars, flow>>
    /\ UNCHANGED <<tabVars, early, restoreVars, dial, deleting, leaving, orphaned>>

\* Save & Connect: handleConnect when there is no tab, once at a time
SavedThenConnect(p) ==
    /\ Saved(p, "connect") /\ TabOf(p) = None
    /\ IF dial[p].pc = "idle"
       THEN \E c \in Conns \cup {None} :
               /\ DialFor(p, saving[p].ver, c)
               /\ dial' = [dial EXCEPT ![p] = [pc |-> "dialing", ver |-> saving[p].ver, got |-> c]]
       ELSE UNCHANGED <<life, owner, dialed, dial>>
    /\ UNCHANGED <<news, stored, tabVars, early, restoreVars, flow, deleting, leaving, orphaned>>

\* handleProfileDelete: the tab is closed when the backend has agreed
AskDelete(p) ==
    /\ MayAct /\ OffersDelete(p) /\ deleting[p] = None
    /\ \E ok \in IF stored[p] = "deleted" THEN {FALSE} ELSE BOOLEAN :
          /\ deleting' = [deleting EXCEPT ![p] = ok]
          /\ stored' = IF ok THEN [stored EXCEPT ![p] = "deleted"] ELSE stored
    /\ UNCHANGED <<life, owner, dialed, news, listVars, tabVars, early, restoreVars, dial, flow,
                   saving, leaving, orphaned>>

DeleteFails(p) ==
    /\ deleting[p] = FALSE
    /\ deleting' = [deleting EXCEPT ![p] = None]
    /\ UNCHANGED <<backendVars, listVars, tabVars, early, restoreVars, dial, flow, saving,
                   leaving, orphaned>>

Deleted(p) ==
    /\ deleting[p] = TRUE
    /\ deleting' = [deleting EXCEPT ![p] = None]
    /\ listed' = listed \ {p}
    /\ UNCHANGED flow
    /\ IF TabOf(p) # None
       THEN CloseTab(TabOf(p)) /\ node' = Held(node, Range(tabs) \ {TabOf(p)}, None)
       ELSE UNCHANGED <<life, dialed, news, tabs, active, node>>
    /\ UNCHANGED <<owner, stored, saved, early, restoreVars, dial, saving, leaving, orphaned>>
    /\ Persist
-----------------------------------------------------------------------------
(* Answers of connect.                                                      *)

\* handleConnect's answer replaces every tab of the profile
DialAnswered(p) ==
    /\ dial[p].pc = "dialing" /\ dial[p].got # None
    /\ UNCHANGED <<flow, backendVars>>
    /\ LET c == dial[p].got IN
          /\ ReplaceTab(p, c)
          /\ node' = Held([node EXCEPT ![c] = EarlyOr(c, Fresh(dial[p].ver))],
                        (Range(tabs) \ Range(TabsOf(p))) \cup {c}, None)
          /\ active' = c
    /\ EndTabRpc
    /\ dial' = [dial EXCEPT ![p] = Idle]
    /\ UNCHANGED <<listVars, restoreVars, saving, deleting, leaving>>
    /\ Persist

DialRefused(p) ==
    /\ dial[p].pc = "dialing" /\ dial[p].got = None
    /\ EndTabRpc
    /\ dial' = [dial EXCEPT ![p] = Idle]
    /\ UNCHANGED <<backendVars, listVars, tabVars, restoreVars, flow, saving, deleting, leaving,
                   orphaned>>

\* reconnect: the old connection is cut, or was gone; now connect
CutAnswered(id) ==
    /\ flow[id].pc = "cutting"
    /\ \E c \in Conns \cup {None} :
          /\ DialFor(ProfileOf(id), flow[id].ver, c)
          /\ flow' = [flow EXCEPT ![id] = [pc |-> "dialing", ver |-> @.ver, got |-> c]]
    /\ UNCHANGED <<news, stored, listVars, tabVars, early, restoreVars, dial, saving, deleting,
                   leaving, orphaned>>

ReconnectRefused(id) ==
    /\ flow[id].pc = "dialing" /\ flow[id].got = None
    /\ EndTabRpc
    /\ flow' = [flow EXCEPT ![id] = Idle]
    /\ UNCHANGED <<backendVars, listVars, tabs, active, last, restoreVars, dial, saving,
                   deleting, leaving, orphaned>>
    /\ node' = Held(node, Range(tabs), id)

\* The new tab takes over what the old one shows, whether that one is still
\* there or not.  The handler goes on with the rows.
Reconnected(id) ==
    /\ flow[id].pc = "dialing" /\ flow[id].got # None
    /\ UNCHANGED backendVars
    /\ LET c == flow[id].got
           rest == Without({id, c}) IN
          /\ tabs' = Append(rest, c)
          /\ flow' = [flow EXCEPT ![id] = [Idle EXCEPT !.pc = "rows"]]
          /\ node' = Held([node EXCEPT ![c] = EarlyOr(c, Fresh(flow[id].ver))],
                        Range(rest) \cup {c}, id)
          /\ active' = IF active = id THEN c ELSE active
          /\ orphaned' = orphaned \cup
                {o \in Range(rest) : Online(o) /\ Live(o) /\ owner[o] = owner[c]}
    /\ EndTabRpc
    /\ UNCHANGED <<listVars, restoreVars, dial, saving, deleting, leaving>>
    /\ Persist

\* The rows are subscribed again (MqttRows); then the handler is done.
RowsDone(id) ==
    /\ flow[id].pc = "rows"
    /\ flow' = [flow EXCEPT ![id] = Idle]
    /\ node' = Held(node, Range(tabs), id)
    /\ UNCHANGED <<backendVars, listVars, tabs, active, last, early, restoreVars, dial, saving,
                   deleting, leaving, orphaned>>
-----------------------------------------------------------------------------
\* The panel is mounted: at the start of the program, or after a reload, when
\* the backend has kept a connection.  GetProfiles is sent.
Init ==
    /\ life \in [Conns -> {"none", "dialing", "up", "lost"}]
    /\ \A c \in Conns : c > 1 => life[c] = "none"
    /\ owner \in {[c \in Conns |-> p] : p \in Profiles}
    /\ dialed = [c \in Conns |-> 0]
    /\ news = [c \in Conns |-> <<>>]
    /\ stored \in [Profiles -> {"never", "kept"}]
    /\ listed = {}
    /\ saved = [p \in Profiles |-> Loaded]
    /\ tabs = <<>>
    /\ node = [id \in TabIds |-> Fresh(0)]
    /\ active = None
    /\ early = NoEarly
    /\ last \in Profiles \cup {None}
    /\ restore = "start"
    /\ snapshot = [Unread EXCEPT !.profiles = {p \in Profiles : stored[p] = "kept"}]
    /\ dial = [p \in Profiles |-> Idle]
    /\ flow = [id \in TabIds |-> Idle]
    /\ saving = [p \in Profiles |-> NotSaving]
    /\ deleting = [p \in Profiles |-> None]
    /\ leaving = {}
    /\ orphaned = {}

Backend == \E c \in Conns : Establish(c) \/ LoseLink(c) \/ FailDial(c)
Hear == \E c \in Conns : HearConnected(c) \/ HearLost(c) \/ HearClosed(c)
Restoring == LoadFails \/ AskRestore \/ AnswerRestore \/ Restore
User ==
    \/ ClickConnect \/ ClickDisconnect
    \/ \E p \in Profiles : ClickProfile(p) \/ AskDelete(p)
    \/ \E ver \in Vers :
          \/ EditBroker(ver)
          \/ \E p \in Profiles, kind \in {"save", "connect"} : AskSave(p, kind, ver)
Answers ==
    \/ \E p \in Profiles :
          \/ SaveFails(p) \/ SavedEdit(p) \/ SavedProfile(p)
          \/ SavedThenReconnect(p) \/ SavedThenConnect(p)
          \/ DeleteFails(p) \/ Deleted(p) \/ DialAnswered(p) \/ DialRefused(p)
    \/ \E c \in Conns : AnswerDisconnect(c)
    \/ \E id \in TabIds :
          CutAnswered(id) \/ ReconnectRefused(id) \/ Reconnected(id) \/ RowsDone(id)

\* assumed of the user, and not in the code: he waits for the tabs of the start
Next == Backend \/ Hear \/ Restoring \/ (Ready /\ User) \/ Answers
Spec == Init /\ [][Next]_vars
-----------------------------------------------------------------------------
(* Properties.                                                              *)

\* A tab that has heard everything tells the truth: it is connected exactly
\* while the backend is, closed exactly when the connection is over, whichever
\* of answer and events came first (connections.ts:128-135, 186-188).  It needs a
\* user who waits for the start.
TabTruth ==
    Ready => \A c \in Conns : Shown(c) =>
        /\ node[c].closed => ~node[c].connected
        /\ news[c] = <<>> => /\ node[c].connected <=> life[c] = "up"
                            /\ node[c].closed <=> ~Live(c)

\* A connection that the backend keeps can be reached from the list or waits
\* for the answer that makes its tab.  Only those are lost that another answer
\* for the profile replaced, or that no restore was told of (531-532).
NothingHidden ==
    Ready => \A c \in Conns : Live(c) =>
        c \in orphaned \/ Awaited(c) \/ TabOf(owner[c]) = c

\* A tab names the broker that its connection goes to: the profile of a live
\* connection does not change under it (322-323, 353-354).
TargetTrue ==
    Ready => \A c \in Conns : Shown(c) /\ Live(c) /\ HasLive(c) => node[c].ver = dialed[c]

=============================================================================
