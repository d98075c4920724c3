# Wirexa in TLA+

Wirexa is a desktop API client (Wails): a Go backend with an MQTT client, an
HTTP client, a UDP sender and listener, an OpenAPI file browser and JSON
stores, and a SolidJS frontend that calls the backend over RPC and listens to
its events. These modules model the parts of it in which several goroutines,
callbacks, files or RPC answers meet, check them with TLC and prove the most
important results with TLAPS.

Contents: 1 the system, 2 the modules, 3 the runs, 4 fairness, 5 the proofs,
6 disagreements found, 7 what the models leave out.

## 1. The system

Paths are relative to `src/`. "Hard" names what unit tests hardly reach;
"correct when" is what the properties are about.

### MQTT connections — modelled
`internal/application/mqtt/service.go`, `internal/infrastructure/mqtt/paho_client.go`

- State: the service keeps `conns`, `closing`, `closed` and a WaitGroup under
  `mu`; each connection has a life-cycle `state` under `stateMu` and `opMu`,
  which is held across network waits; the paho client has its link, its
  automatic reconnect and an `aborting` flag.
- Operations: `Connect` (starts `runConnect`), `Disconnect`, `withConn`
  (publish, subscribe, unsubscribe), `Shutdown`; the callbacks `onConnected`
  and `onConnectionLost` on paho's goroutines.
- Hard: a dial that succeeds after it was aborted; Disconnect and Shutdown
  against a connection in any stage, and against each other; a WaitGroup that
  is added to while it is waited on; callbacks that wait for `opMu`.
- Correct when: no link outlives its bookkeeping, the WaitGroup is exact,
  `true` from Shutdown means quiet, events come in an order the frontend can
  follow, nobody waits forever.

### MQTT subscriptions — modelled
`internal/application/mqtt/subscription.go`, the routes of `paho_client.go`

- State: `subs` and `subOrder` of the connection, the client's `routes`, and,
  outside the program, the broker's session.
- Operations: `Subscribe`, `Unsubscribe`, `resubscribe` (on every link),
  message dispatch.
- Hard: the broker forgets on reconnect; answers are late, lost or negative;
  the copy `resubscribe` works from gets older while it waits.
- Correct when: what is listed is served with its QoS, what is taken off the
  list is announced and no longer shown.

### Topic scan — modelled
`internal/application/mqtt/topic_scan.go`

- State: at most one scan per connection, starting or running, with a client
  of its own.
- Operations: `StartTopicScan`, `StopTopicScan`, `scanHandler`,
  `onScanConnectionLost`, the parts of Disconnect and Shutdown that end a scan.
- Hard: starting connects without any lock; the scan may be stopped, replaced,
  lost or shut down meanwhile, and messages arrive before the start is decided.
- Correct when: a running scan is served, misses nothing, ends with notice, and
  its client is disconnected by exactly those allowed to.

### HTTP requests — modelled
`internal/application/http/request_service.go`, `NetClient.Do`, `App.shutdown`

- State: the cancel functions of running executions, cancellations that came
  first (`pending`, bounded and ageing), `closed`, a WaitGroup.
- Operations: `SendRequest`, `CancelRequest`, `Shutdown`, then `Cleanup`.
- Hard: send and cancel are separate calls and arrive in either order; Shutdown
  may give up waiting and clean up under a request that still writes.
- Correct when: an early cancel wins, a cancelled request ends, a drained
  shutdown is quiet.

### Response files — modelled, but for the sweep of old directories at start
`internal/infrastructure/http/response_store.go`, `net_client.go`

- State: an entry per execution (running, ready, saving), totals of bytes,
  files and concurrent spills, the files in the session directory.
- Operations: `Begin`, `startSpill`/`commitSpill`/`abortSpill`, `AcquireSave`
  and the lease's end, `Discard`, eviction of expired files, `Cleanup`.
- Hard: files are created, written, copied and removed outside the lock, while
  Cleanup or another caller moves the entry on; removals fail.
- Correct when: books are exact, limits hold, every file has an owner, a save
  keeps its file, a closed store leaves nothing.

### Collections and sidebar — modelled
`internal/application/http/collection_service.go`, `unit_of_work.go`,
`reconcile.go`, `sidebar_layout_service.go`, `internal/domain/http/types.go`

- State: trees in the cache, a file per collection, the sidebar's layout.
- Operations: create, rename, delete and move of collections, folders and
  requests; `MoveItemToSidebar`, `MoveSidebarEntry`; the start of the program.
- Hard: a move writes two files; a write, its undo, or the program may fail in
  between; the layout is saved as well as it can be, and repaired when read.
- Correct when: the next start finds the state before or after an operation,
  nothing is in two places, the sidebar shows everything once.

### Drag and drop in the sidebar — modelled
`frontend/src/presentation/components/sidebar/use-tree-drag-drop.ts`,
`use-long-press-drag.ts`, `tree-item-node.tsx`, `collection-node.tsx`,
`collection-tree.tsx`, `frontend/src/application/http/collections.ts`

- State: the trees and the layout as read last, the row pressed or dragged, the
  queue of operations.
- Operations: press, drag, drop on a row, a gap, a header or the sidebar; the
  queue's calls and the reads after each.
- Hard: positions are counted in what is shown, and used by a service whose
  trees may have gone on; the tree is replaced between press and drop.
- Correct when: what is dropped ends where the user saw it go.

### Request editor and responses — modelled
`frontend/src/application/http/request.ts`, `active-request.ts`,
`collections.ts`, `frontend/src/presentation/components/http`

- State: the request that is open with its text, the saves on their way, the
  tree; the response that is shown, executions in flight, exports and discards.
- Operations: typing, autosave, opening another request, the operations of the
  tree, sending, saving and discarding a cut response.
- Hard: answers come when another request or response is shown; saves run
  beside the queue of the tree; three reads make up one tree.
- Correct when: nothing typed is lost without a word, only a deletion closes
  the editor, what is shown belongs to what is open, no file is forgotten.

### OpenAPI files — modelled
`internal/application/openapi/file_service.go`,
`frontend/src/presentation/providers/openapi-provider.tsx`, `editor.ts`, `files.ts`

- State: recent files with their permissions, the open document, its text,
  dialogs.
- Operations: open, select, save, save as, drop, remove, move, close.
- Hard: flows of several calls overlap; a write lies between two critical
  sections; the list evicts; the parse waits for a pause.
- Correct when: nothing typed is given up unasked, what is listed can be read,
  what is shown is fresh.

### UDP client — modelled, but for some payloads
`internal/application/udp`, `internal/domain/udp/encoding.go`,
`frontend/src/application/udp`, `frontend/src/presentation/components/udp`

- State: sessions with sockets and receive loops, rows and log; the form's
  fields; targets and their order.
- Operations: start, stop, list, receive; editing and sending a packet; saving,
  deleting and dragging targets; loading the page again.
- Hard: a packet read before a stop is emitted after it; a reload loses the
  answers of calls that go on; form and encoder have rules of their own;
  refreshes are answered late.
- Correct when: rows are sessions, a stopped session falls silent, what is sent
  is what was shown, the user's order stays.

### MQTT panel — modelled
`frontend/src/application/mqtt`, `frontend/src/presentation/components/mqtt`,
`broker-tree.tsx`, `profile-list.tsx`

- State: a tab per connection, early events, profiles; rows of subscriptions;
  the scan button and its topics; messages, filter and selection.
- Operations: connect, disconnect, reconnect, close, edit, restore after a
  reload; subscribing and its loop after a reconnection; scanning; muting,
  filtering and following.
- Hard: events and answers arrive in either order; tabs are closed and rows
  removed while calls are under way; presses of a button overtake each other.
- Correct when: tabs tell the truth and hide no live connection, rows are what
  is subscribed, the scan button is right, messages are kept.

### Not modelled

| part | files | why |
|---|---|---|
| Profile and target stores | `internal/application/store`, `internal/infrastructure/json_store.go` | cache and file change under one lock, the file first: no interleaving shows. File formats and recovery of damaged files are left |
| Request bodies | `internal/infrastructure/http/request_body.go`, `file_registry.go` | building a body is sequential; it is inside one step of `Do` |
| Application lifecycle | `app.go`, `main.go` | the order of the shutdown is in `HttpRequests` and `MqttService`, the question before closing in `OpenApiFiles`; the rest is pure I/O |
| RPC handlers, encodings of stored files, importers, style and markup | `internal/adapters`, `frontend/src` | sequential or pure I/O; the repository's unit tests reach them |

### How the parts interact

The frontend calls the application services over RPC; the services call the
infrastructure behind the ports of `internal/domain`; results come back as
return values or as events. `App.shutdown` (`app.go:224`) stops MQTT, UDP and
HTTP in this order, each with a time limit, and then cleans up the response
files: that is why `HttpRequests` ends in the store's `Cleanup`. A topic scan
is counted in the MQTT service's WaitGroup and ended by its Disconnect and
Shutdown: `MqttTopicScan` contains these steps. A subscription is made again by
the `onConnected` that `MqttService` lets wait for `opMu`:
`MqttSubscriptions` opens that callback up. In the frontend each panel keeps
one record of state that several handlers write: `MqttFrontend`, `HttpPanel`,
`SidebarDrag` and `UdpClient` put the parts of a panel together as its provider
does. What a part of the frontend needs of the backend is modelled beside it
in the little that its calls and events show; the backend's own modules say
why that little is true.

## 2. The modules

| module | code | relation |
|---|---|---|
| `MqttEventStream` | what the frontend may expect of `mqtt:*` events | abstract specification |
| `MqttService` | `service.go` over `paho_client.go` | implements `MqttEventStream` (`KeepsPromise`, an INSTANCE with a refinement mapping) |
| `MqttSubscriptions` | `subscription.go`, routes | one connection; the life cycle is reduced to connecting, connected, over |
| `MqttTopicScan` | `topic_scan.go` | one connection |
| `ResponseStore` | `response_store.go`, lease and spill in `net_client.go` | |
| `HttpRequests` | `request_service.go`, `App.shutdown` | EXTENDS `ResponseStore`: every step of the store is taken by a caller that exists |
| `CollectionTree` | `types.go`, `reconcile.go`, layout functions | operators only |
| `Collections` | `collection_service.go`, `unit_of_work.go`, `sidebar_layout_service.go` | EXTENDS `CollectionTree` |
| `SidebarDrag` | drag and drop, the queue of `collections.ts` | EXTENDS `Collections`: the sidebar in front of the service |
| `RequestEditor` | `request.ts`, `active-request.ts`, `collections.ts` | the service is reduced to what is stored of each request |
| `HttpResponses` | `request.ts`, `response-viewer.tsx` | the store is reduced to the state of each file |
| `HttpPanel` | `http-provider.tsx` | EXTENDS both |
| `OpenApiFiles` | `file_service.go`, `openapi-provider.tsx`, `editor.ts`, `files.ts` | backend and frontend |
| `UdpListener`, `UdpSend`, `UdpTargets` | the three parts of the UDP client, backend and frontend | |
| `UdpClient` | `udp-provider.tsx`, `index.tsx` | EXTENDS the three |
| `MqttTabs` | `connections.ts`, `profiles.ts`, broker list and dialog | the backend is `MqttEventStream`'s promise |
| `MqttRows` | rows of `subscriptions.ts`, the resubscribe loop | the backend is what `MqttSubscriptions` shows |
| `MqttScanPanel` | scan of `subscriptions.ts`, topics of `message-buffer.ts` | the backend is what `MqttTopicScan` shows |
| `MqttMessages` | messages of `message-buffer.ts`, `messages.ts` | |
| `MqttFrontend` | `mqtt-provider.tsx` | EXTENDS the four |
| `Arrays` | `Array.prototype.filter`, `sort` | `Only` and `Ranked`, which can be proved about where `SelectSeq` and `SortSeq` can not |
| `*Proofs` | | theorems: section 5 |
| `MC*` | | constants and symmetry for TLC |

Definitions keep the names of the code's functions where they can; a function
with several outcomes or unlocked waits is several actions named for what
happens (`ConnectReturns`, `ConnectedTooLate`). A section under a lock that
does no I/O is one action. Where the code leaves a lock, waits or does I/O,
the action ends. "Mutant" in a comment marks a changed copy of a definition; no
specification uses it. It shows, put in the definition's place, that the
property it belongs to can fail.

**MqttService.** `runner[c]` is the program counter of `runConnect`, `disc[c]`
that of `Disconnect`, `drain[c]` that of the goroutine `Shutdown` starts for
each connection, `shutdown` that of its caller. `upCalls`, `lostCalls` and
`waitingOps` count callbacks and operations that exist but have not run yet.
`opMu[c]` says who holds the lock that is kept across I/O. Paho's own threads
(`DialSucceeds`, `DialFails`, `PahoCleanup`, `LinkLost`, `Reconnect`) do what
`paho_client.go` and its comments expect of the library: a Disconnect does not
interrupt a dial, a dial that was given up may still complete. The abstract
stream's `life` is a function of `state`, its `silent` is `closed`.

**MqttSubscriptions.** `op` is what the holder of `opMu` does and how far it
has come; `todo` is the rest of `resubscribe`'s copy. A request to the broker
is sent in one step and answered in another: `ok`, `rejected`, `timeout` (the
broker may have served it or not) or `failed` (it never left). `broker` is the
broker's session: it is empty after every new link. `known` is what the
frontend was told, `doubt` and `leftover` remember requests without an answer
and clean-ups that failed: the properties except exactly these.

**MqttTopicScan.** `starter[s]` is the program counter of `StartTopicScan`,
`cutters[s]` are those about to disconnect the scan's client, `joins[s]` the
callers that found the scan starting and wait for its end.

**ResponseStore.** `call[x]` is where `NetClient.Do` is, `lease[x]` where
`SaveResponseBody` is, `disk[x]` the file. `Reserve` is the limit of one file:
a spill reserves it before it writes and gives the rest back when it commits.
Sizes are counted in units of which a file has 0 to `Reserve`. `abandoned` and
`vanished` remember files whose removal failed and files that somebody outside
removed.

**HttpRequests.** `req[x]` follows `SendRequest` from registration to the end
of its deferred calls. `older` is the age order of the early cancels: it stands
for their time stamps, which are taken to differ; `stale` are those older than
the time limit. `early` remembers cancels that came first and were not
forgotten by age, by the limit or by Shutdown.

**Collections.** An operation is a `Begin` that computes the next cache and
names the files to write, then `WriteFile` for each, `Commit` (cache, then
layout as well as it can be), or `WriteFails` and `Undo`. The lock is held from
`Begin` to the end, so `Idle` stands for a free lock. `Restart` is the death of
the program at any moment and `NewCollectionService` after it: files that
cannot be read are skipped, duplicates are dropped and saved, the layout is
reconciled and saved. The `__root__` collection exists from the first start
on, which is before Init; when its file cannot be read the service runs without
it and leaves the file alone (`collection_service.go:88`). A tree gives the
children of each folder; the content of an item is a version number, a name is
a number that sorts.

**SidebarDrag.** `trees` and `entries` are what the last reads showed, `drag` is
the row with the place it knows. `Under` is the set of places a row can be
dropped on with the call each makes (`OnRow`, `OnGap`, `OnHeader`, `OnEdge`);
zones that would change nothing are hidden as in the code. `seen` and `fresh`
are history: the row that the user saw below the dropped one, and whether the
tree shown was the service's. A call takes the service's own steps
(`BeginCall`, `ServiceGoesOn`, `CallSucceeds`). `part` lets the service go
alone with failing files (`files`), with a layout that moves meanwhile
(`overlap`), or behind the sidebar (`panel`).

**RequestEditor.** The text of a request is the number of its last change.
`saves` are calls of `updateRequest` under way, `queue` holds the operations of
the tree, whose head goes through its call and the three reads of `loadTree`,
one step each. `disk` and `place` are the service's. `said`, `raced` and `left`
remember notices, saves that overtook each other and saves of a request that
was left.

**HttpResponses.** `exec[x]` is the execution's stage, `file[x]` the state of
its file in the store, `exports` are calls of `saveResponseBody` and how far
they are, `discards` those of `discardResponseBody`.

**OpenApiFiles.** `flows` are the calls the user started, each a record of what
it does and what it waits for; a call and its answer are one step, but for the list
of the sidebar. `granted` is
the backend's set of permissions, `recents` its list. `settled` is the model's
own: the last text was typed while nothing was under way and was not written
since. Reading the list and showing it are two steps (`ListFiles`, then the
`Finish` action of the flow, or `FinishMount` at the start), and each of them may
fail; `latest` and `overtaken` remember, for the properties, the list that was
read last and whether the one that was shown last is another.

**UdpListener, UdpSend, UdpTargets.** `calls` and `waits` are made, carried out
and answered in three steps; a reload drops the answers. A value of the form is
a sequence of characters, the encoding is computed byte by byte and read back
by the property.

**MqttTabs.** `news[c]` are events not heard yet, `early` those heard before
their tab existed; `dial[p]` and `flow[id]` are the handlers that wait for an
answer. The start asks for the profiles (which may fail: then nothing is restored
and live connections stay unseen) and then for the connections. The actions are
the code's handlers and have no guard about the start; that the user waits for it
is an assumption of `Next` about the environment (`Ready /\ User`). **MqttRows**: `rpcs` are calls of the rows, `renew` is the loop that
subscribes again, `told` the events on their way; `awry` and `torn` remember
what the property excepts (section 6). **MqttScanPanel**: `presser` are presses
whose calls have not ended, `wire` the events. **MqttMessages**: `buffer` waits
for the frame, `due` remembers what has to be shown.

**Compositions.** In `MqttFrontend`, `HttpPanel` and `SidebarDrag` the variable
`part` chooses at the start which part takes steps; the others stay in a state
they start in. It is a named bound: the parts write different fields, so their
interleavings would multiply states without showing anything new.

## 3. The runs

| run | question | bounds |
|---|---|---|
| `mqtt_connection` | one connection against everything that can happen to it, with fairness: `NoOrphanLink`, `DrainedMeansQuiet`, `KeepsPromise`, `DisconnectCompletes`, `ShutdownDrains` | one connection (IDs share only the service's maps and WaitGroup, and the proofs hold for any set), two links, so that one follows a reconnect, one waiting operation |
| `mqtt_subscriptions` | `ListedIsServed`, `ListAgrees`, `ReconnectServed` | two filters, so that one is served while another waits; two qualities; two links |
| `mqtt_scan` | `ScanTold`, `NothingMissed`, `ClientsOwned`, no deadlock: no caller waits forever for a start | two scans (one undone while the next begins), one lost link and one second caller each, two messages for the order |
| `http_requests` | the store's `BooksExact`, `EveryFileOwned`, `LeaseProtects` and the service's `CancelWins`, `DrainedMeansQuiet`, `CancelledEnds` | two executions; space for one full file and a half, so that a second spill is refused or cut; one early cancel kept, so that the second drives out the first |
| `collections` | `NoDuplicates`, `CrashAtomic`, `SidebarExact`, `DropLands` | a folder and a request, `__root__` and one collection, one edit, two incidents of failing files, any number of crashes; two drops from every full tree |
| `mqtt_tabs` | `TabTruth`, `NothingHidden`, `TargetTrue`, `RowsServed`, `ScanShown`, `MessagesShown` | one profile and two connections, so that a reconnect meets the old one; two rows and one lost link; four presses of the button; two tabs with three messages and a list of two |
| `request_editor` | `SavedOrSaid`, `QuietWhenMoved`, `ViewerTrue`, `FilesFollowed`, `ClosesWhenGone`, `TasksEnd` | two requests, one collection and the root, two operations of the tree, one save in flight, one failing call; two sends and two exports |
| `openapi` | `AskedFirst`, `ListedIsReadable`, `ShownFresh` | three paths of which two are remembered, so that the list evicts; two flows at a time, one failing call |
| `udp` | `RowsTrue`, `QuietAfterStop`, `FieldsAgree`, `OrderKept` | two ports and sessions, two calls under way, two packets; two fields with values at the bounds of their types; three targets, two of them stored before |
| `sidebar_drop`, `edits_lost`, `rows_hidden` | violations of `SidebarDropLands`, `EditsSurvive`, `NothingUnseen` (section 6) | as the runs above, no failing files in the first |

Bounds by name. MQTT service: `MaxLinks` (links of one connection), `MaxOps`
(operations that wait at once), `MaxLost`, `MaxMessages`, `MaxJoins` (per
scan). HTTP: `MaxPending` (the code's `maxPendingCancels`), `MaxFiles`,
`MaxTotal`, `MaxSpills`, `Reserve` (the code's limits, made small), `MaxVer`
(edits of an item), `MaxLayout` (stored layout length at which an entry is
still inserted), `MaxFaults` (incidents in which files cannot be read or
written, or calls fail; an undo that fails after a failed write belongs to the
same incident), `MaxDrops`, `MaxTasks`, `MaxSaves`, `MaxSends`, `MaxView`,
`MaxExports`. OpenAPI: `MaxRecents` (the code's limit), `MaxText`, `MaxFlows`,
`MaxOps`, `MaxClock`. UDP: `MaxSessions`, `MaxCalls`, `MaxPackets`, `MaxLog`
(the code's limit), `MaxFields`, `MaxWaits`, `MaxSteps`. MQTT panel:
`MaxConns`, `MaxNews`, `MaxBusy`, `MaxRows`, `MaxRowCalls`, `MaxLosses`,
`Failures`, `MaxPresses`, `MaxFound`, `MaxEnds`, `MaxTopics` and `MaxBuffered` (limits of
the code's), `MaxArrivals`, `MaxClicks`; and `part`. IDs are used once, as
UUIDs are, so the sets of connections, scans, executions and items bound the
length of a behaviour. Where section 5 lists a proof, it holds for every value
of these constants.

Deadlock is checked in `mqtt_connection` and `mqtt_scan`, where the only end is
a stopped service. It is not checked where a behaviour may end because its
bounds are used up, because the user owes no further step or because the
connection is over.

What each property says stands above its definition, with the line of the code
or comment it is about.

## 4. Fairness

- `MqttService`: weak fairness for goroutines that wait for nothing (a dial,
  which has a time limit; the release of `opMu`; lost-link callbacks; the two
  steps of Shutdown), strong fairness for those that wait for a mutex (a Go
  mutex in starvation mode admits every waiter). Users, the broker, a lost link
  and the reconnect loop owe nothing.
- `MqttSubscriptions`: weak fairness for answers, since every request has a
  time limit, and for the holder of `opMu`; strong for `onConnected`, which
  waits for `opMu`.
- `HttpRequests`: weak fairness only for a request whose context is done: it
  returns from the network (`http.Client` obeys the context) and from the file
  system. A request that nobody cancels owes nothing, so `CancelledEnds` cannot
  lean on a server that answers.

- `RequestEditor`: weak fairness for the steps of the tree's queue: calls to the
  backend return, since it commits or undoes under a lock and has no waits.

The other runs use no fairness.

## 5. The proofs

All theorems hold for every value of the constants under the assumptions that
stand, named, beneath each module's constants: sets of IDs are finite, bounds and
limits are natural numbers, a name for nothing (`None`, `NoResponse`, `Nothing`)
is none of the things it is beside, a quality of service is 0, 1 or 2. TLC
evaluates them in the passing runs.

**MqttServiceProofs.** `TypeCorrect`, `CountCorrect`, `NoOrphans`,
`DrainedCorrect`, `WaitCorrect`, and `Implements`: `Spec` implies
`MqttEventStream`'s specification under the refinement mapping. None of the
invariants is inductive alone. `IInv` adds to `TypeOK` and `CountExact`: how
dialler and paho agree (`Dialer`), where the service lists a connection by its
state (`Books`), what a closed service looks like (`Marked`, `Latch`), and who
answers for a live link once its dialler has returned (`Owned`: it is down, or
the connection is not over, or a Disconnect or a drain still has to cut it). The
count is preserved because each Add and each Done changes exactly one of the
two counted sets by one element.

**MqttTopicsProofs.** For the scan: `OwnersCorrect`, `ToldCorrect`,
`HeardCorrect`. The invariant follows one client: until its start is decided it is its starter's
alone, while the scan runs it is nobody's, afterwards it is off or somebody has
it to disconnect (`Owners`); the latter is never true of a scan that did not
start, which is why a discard and a detach cannot meet. `CountExact` counts
starts and the Disconnect under way, so that a drained service has none
(`Quiet`); a start that is about to succeed knows of every loss of its link
(`Told`); what came in so far is kept, and emitted once it runs (`AllHeard`).

For the subscriptions: `InvHolds`, `ListAlwaysAgrees` and
`ListedIsAlwaysServed`. That a listed topic is served, once nothing is under
way for it, needs to know how far every operation has come. The invariant
joins parts: no filter is listed twice (`Unique`); until the first link comes up
nobody asks the broker (`Early`); what resubscribe has copied and not yet made
again is listed as it was copied, or no longer (`CopyTrue`), and its request
is about the head of that copy (`AtHead`); which answers a request can have got
(`Answers`); what the frontend was told is the list (`KnownTrue`); a route
belongs to what is listed or left over, or to the request at hand
(`RoutesTrue`); on a link that is up, each listed subscription is served unless
the request at hand is about it or resubscribe has still to come to it
(`ServedTrue`), and the broker has what it has just accepted (`AcceptedTrue`).

**HttpRequestsProofs.** For the store: `StoreTypeCorrect`, `BooksCorrect`, `LimitsCorrect`,
`NoOrphanFile`, `SaveProtected`, `NothingLeft`. The inductive invariant joins
the shape of an entry, its writer and its lease (`Shape`) with the exact
totals. The lemmas on `Reserved` and `FilesOf` say how the sums change when
entries are dropped or one changes; every action then comes to arithmetic.

For the service around it, `UsesStore` shows that each step of the service is a
step of the store or leaves it alone, so `Spec => StoreSpec` and the whole
store invariant holds in the composition without being proved again. On it
rest `TypeCorrect`, `CancelCorrect` and `DrainedCorrect`, with an invariant
that says where the WaitGroup, the registered executions and `Do`'s progress
agree and what each stage of Shutdown implies.

**HttpPanelProofs.** For the editor: `EditorInvHolds` and from it `AlwaysSavedOrSaid`,
`AlwaysQuietWhenMoved` and the action property `AlwaysClosesWhenGone`. The
three answers `loadTree` reads one after the other still agree with where
requests lie, since only the task that reads can move them (`ReadsTrue`);
the open request lies where the tree shows it (`OpenTrue`); the text in the
fields is stored, or the last save of the request is on its way with it, or the
timer is to send it, or the user is told (`Secured`); and as long as nothing
failed and no other request was opened, each save that is awaited is one to
where the editor has the request, and an error that is shown will be taken
back (`Calm`).

For the responses: `ResponseInvHolds`, and from it `ViewerAlwaysTrue` and
`FilesAlwaysFollowed`, over every step of the joined panel. The response shown
was settled, for the request that is open (`ShownTrue`); only a response that
was cut off has a file, and one that was saved has it no more (`FileTrue`); how
far each export is says what has become of its file, and of the exports of one
response only one has the lease (`ExportsTrue`, `OneLease`); the buttons say no
more than that (`StateTrue`, `ChoiceTrue`); and a file that is there is shown,
is to be discarded or was kept, also while it is being saved, since the save may
come to nothing (`StillFollowed`). `EditorBesideResponses` carries the
editor's invariant into the panel: the steps of the responses leave the editor
alone.

**MqttFrontendProofs.** `TabsInvHolds` and from it `TabsTellTruth`,
`NothingEverHidden`, `TargetsAlwaysTrue`; `MessagesInvHolds` and from it
`MessagesAlwaysShown`; `ScanInvHolds` and from it `ScanAlwaysShown`;
`RowsInvHolds` and from it `RowsAlwaysServed`; `PanelHasTabs`,
`PanelHasMessages`, `PanelHasScan` and `PanelHasRows` say that each step of the
joined panel is a step of these parts or leaves them alone.
`TabsInv` follows one connection from the click to the end of its tab: the news
on its way ends with the state the connection is in (`NewsTrue`); the record of
a tab is right up to the news on its way (`RecordTrue`); a connection that an
answer names is named by no other and shown by no tab yet, the early state kept
for it is right up to the news on its way, and its caller still has the
settings it dialled with (`DialsTrue`, `FlowsTrue`, together `AnswersTrue`); a
connection is over once a handler has cut it (`CutTrue`); until the start is
over nothing of the user's is under way (`FirstTrue`: this is where the proofs
use that the user of `Spec` waits); and everything the backend keeps is in the
list, named by an answer, or given up (`ReachTrue`). None of the three
properties is inductive: each speaks of tabs, but a tab is only as right as the news and answers that made
it. For the messages, everything in buffer and lists is in the order of arrival
and the buffer is newer (`OrderTrue`), so a message that is due and not there is
older than a list that is full (`DueTrue`). For the scan, of the calls under way
only the last is not superseded and only the first has a start that went on
(`PressersTrue`); a scan that runs was asked for by the last press or some call
will still stop it (`ScanTrue`), and a button that says so waits for its start
or for news of the end (`ButtonTrue`, `EndTrue`): so they agree when nothing is
under way. For the rows, `RowsServed` says nothing until all is quiet, so
`RowsInv` says of every call under way what its answer may still change: a topic
that is being added has no row and is not subscribed before the call is carried
out, and afterwards it is, or the event that drops it is newer than the call
(`AddTrue`, `DropsTrue`); an answer that takes a row off speaks of a topic that
is not subscribed (`OffTrue`); what the reconnection has yet to subscribe is not
subscribed, not dropped, and asked about only by its own removal (`AgainTrue`,
`AgainFirst`); and every difference between rows and subscriptions has a call or
an event that will settle it (`SubsShown`, `RowsMeant`, `LoopGoesOn`). It holds as
long as the connection and the tab are there and no exception of the two history
variables has been met (`awry`: a call was overtaken by an event, an answer or
another call about its topic, was made twice, or the list could not be read;
`torn`: a row was taken off, or is being, that the backend has or is sent again):
these are what `RowsServed` excludes as well, and `GoneTold` says that a
connection that ended is not taken for a quiet one. The lemmas about `Only` and `Merged` are proved
by a shortest counterexample: the set of lengths at which the claim fails has a
least element, and one step of the recursion refutes it. This takes the place
of induction over data, which the provers lack.

**UdpClientProofs.** `ClientInvHolds`, and from it `RowsAlwaysTrue`,
`AlwaysQuietAfterStop` and `OrderAlwaysKept`, over every step of the joined
client. `RowsTrue` speaks only of moments when nothing is under way, so
`ListenInv` says what each call under way is good for. A session is there
exactly when it has a row that no stop is about to take away, or a start that
worked and has yet to be heard (`SessionsTrue`). A page that still reads the
list has no rows and waits for nothing else, and the answer it will get is the
sessions (`ListTrue`); one start is under way at most, and no stop is about what
it starts (`StartTrue`). These three end where `awry` begins. Without exception,
a socket that is open has a session or a stop that will close it, and a loop
whose session was stopped can emit the packet it holds and no other
(`SocketsTrue`). For the targets, `TargetsInv` says that what localStorage holds
is the order the user gave, and that neither the list shown nor one on its way
has a target twice, so that `applyOrder` puts a list into that order however old
it is. Lemmas on `Ranked` (counting what comes before), `MoveItem`, `RemoveAt`
and `InsertAt` carry this. That there are finitely many targets is assumed: the
code keeps them in a map.

**OpenApiFilesProofs.** `InvHolds`, and from it `AlwaysAskedFirst`,
`ListedAlwaysReadable` and `AlwaysShownFresh`. The three properties look at the
moment before a document is replaced, at the list, and at rest; what makes them
inductive is a statement about each flow under way. How far a flow is says what
it holds: a path to read, a text and a place to write it to (`FlowsTrue`). What
is being saved has its permission unless a removal crossed the save
(`ListedTrue`). When no call failed, a backend list that differs from the one read last has a
flow coming that will read it (`FilesTrue`), and what the sidebar shows is the
one read last unless a flow is about to show it or an older answer was shown
after it (`ShownTrue`). And a text that was
typed at rest and not written since is in no file and counts as unsaved; each
flow that saves while the editor holds it is saving that very text, and one
that is about to replace it belongs to a user who chose to discard it
(`SettledTrue`). The last part fails for a text that has been written, as
another save-as may write over that file: see section 6. A lemma on `Ranked`
shows that the sort of `addRecentLocked` makes up no entry, so that a list which
was sorted and cut still needs no permission it did not have.

**CollectionsProofs.** `InvHolds`, and from it `NeverDuplicated`,
`AlwaysCrashAtomic` and `SidebarAlwaysExact`, over every step of the service,
its crashes and restarts, and the sidebar in front of it. `NoDuplicates` looks
at the cache alone, `CrashAtomic` at what a start would make of the files; what
makes them inductive is how the cache, the cache to come, the files and the
layout belong together. Cache, next cache and files are trees, in which every
item has one place and every folder is reached from the top (`Sound`), of items
that were given out; the two caches have no item in two collections
(`CacheTrue`). An operation changes the collections it writes and no other, and
when it writes two, an item is carried between them with all that is under it,
the target first (`WritesTrue`, `Carried`). As long as no rollback failed, a file
is new when it is written and old otherwise (`DiskTrue`). Between the two writes
of a move the files hold the item twice. `Clash` says what that looks like: two
collections share exactly one subtree. The scan for duplicates then empties
the higher of the two of that subtree (`DedupedClash`), which is the old state
or the new one, according to which of the two collections has the smaller ID;
after a failed rollback it still leaves each item in one place
(`DedupedApart`). The stored layout may hold entries that are gone and lack
others (`LayoutTrue`); `FirstValid`, the missing collections and the missing
items make every entry appear once. The last part of `SidebarExact` needs
`ShownTrue`: while nothing failed, the panel shows what the service has, but for
what it is about to read. Most of the lemmas are about the operators on trees:
what is below a node (`Within`, the least set that is closed under children),
what `Pruned` and `Inserted` leave sound. `Within` is stated as a least set and
not by recursion because the provers have no induction over trees: each
containment is shown by naming a closed set.

Only model-checked:

- all liveness, and what rests on `ENABLED`: no prover here reaches it;
- `DropLands`: it compares positions in lists before and after a call that goes
  through several steps. Nothing puts it out of a prover's reach: a proof needs
  further invariants about the call at the head of the queue while the panel
  still shows what the drop saw, and is not written;
- `FieldsAgree`: what the form says of a value and what the encoder makes of it
  are folds over characters, and the claim is about finitely many types;

## 6. Disagreements found

Shown by runs:

- `sidebar_drop`: `MoveItem` never removes the layout entry of an item it takes
  out of `__root__`, and `MoveItemToSidebar` inserts at the position counted in
  the sidebar the user sees into the stored layout, which may hold such an
  entry (`collection_service.go:595`): the item then appears elsewhere than
  line 555 says.
- `edits_lost`: `loadRequest` takes a request's text from the tree although the
  tree learns of a save only when it is answered: opening a request again
  before that puts the old text back, and the autosave stores it, against
  `e2e/ui/http/tree-drag-drop.spec.ts:320`.
- `rows_hidden`: a row that is removed while the tab is not connected is taken
  off even if the call fails; the backend may keep the subscription and serve
  it, against `subscriptions.ts:147`.

Met while modelling, without a run of their own:

- MQTT service. A second `Shutdown` returns `true` at once although the first
  may not have drained (`service.go:381`, against the comment at 375);
  `App.shutdown` calls it once, and the model does too. When the clean-up of a
  dropped subscription fails, `pahoClient.Unsubscribe` keeps the route
  (`paho_client.go:301`), so messages of a filter that is no longer listed go on
  being shown, although `subscription.go:159` says that this cannot be:
  `leftover` is the exception of `ListAgrees`.
- Collections. When an undo fails, or a file could not be read at a start, a
  stale copy of a moved item may be what the next start keeps, and a later edit
  is lost with the other. `CrashAtomic` excepts exactly these (`torn`);
  `NoDuplicates` does not.
- Sidebar. A drop on the row of an item at the root sends the row's place in the
  sidebar as a position among the root's items and leaves the layout alone
  (`use-tree-drag-drop.ts:150`): the item does not move there. An item inside a
  folder of `__root__` that is dropped on the sidebar is sent to
  `moveSidebarEntry` (`collection-tree.tsx:142`), which does not know it and
  refuses, although the zones accept items (`tree-item-node.tsx:54`). The zones
  around position k of the sidebar are hidden also for an item at position k of
  a folder (`tree-item-node.tsx:53`). A second drop while the first is under way
  counts positions in the old tree: `DropLands` excepts it (`fresh`).
- Editor. A failed save of a request that was left goes without a notice if
  another request is moved before the answer (`request.ts:122`). No control
  calls `newRequest`.
- OpenAPI. What is typed while a save is writing counts as saved
  (`editor.ts:51`, `openapi-provider.tsx:151`). Removing the open file closes it
  without asking. What is typed with no document open can neither be saved nor
  is asked about; what is typed while another file is read is dropped unasked.
  Two flows of save-as may give one document the path of another: a save-as
  that is pointed at the file opened in the meantime writes over it, and the
  document is closed later without a question though no file holds its text.
  The user chose that file, so `AskedFirst` speaks of texts not written since
  they were typed (`settled`). A read that
  fails after a file was picked leaves an open file that was evicted without
  permission, and the sidebar stale. Each flow reads the list of recent files
  when its call has ended and shows the answer whenever it comes
  (`files.ts:21`): when a file is opened while the list of the start is on its way,
  or a move overlaps an opening, an older answer may be shown last, and the
  sidebar stays stale with nothing under way, although line 14 calls the backend's
  list the only truth. `overtaken` is the exception of `ShownFresh`. Adding a file sorts the list by time and
  undoes the user's order.
- UDP. A read of the list that crosses a start after a reload leaves a session
  without a row or with two (`receive.ts:34`): `awry` is the exception of
  `RowsTrue`. A socket that cannot be closed leaves a row that nothing stops and
  Start disabled. `types.ts:58` says that values are refused before they are
  sent, but `send` does not check; the form accepts hex with tabs, empty numbers
  and lengths of zero, which the backend refuses. A double click on Save makes
  two targets; a save that ends closes whichever dialog is open; late answers
  of reads may replace newer lists.
- MQTT panel. `handleConnect` and `handleReconnect` use different keys of
  `connecting` (`connections.ts:368`). The
  controls work before the tabs of the start are restored. When Connect is
  pressed then, and the backend carries it out before `GetConnections`, the two
  answers make the same tab, and the later one replaces it by a new one: an event
  that the first one heard in between is gone, since `rememberEarly` keeps only
  what has no tab yet (`connections.ts:138`, against the comment at 128, by which
  there is none in either case). A connection that failed is then shown as
  connecting, one that is up as not connected. TLC finds this in nine steps when
  `Next` has `User` instead of `Ready /\ User`; `TabTruth` is about a user who
  waits. Subscribing twice adds two rows. A
  subscription can be hidden by the removal of its row during the loop that
  subscribes again (`torn`). A stop of an older scan that is heard after a new
  start was pressed leaves a scan that the button denies, and the stop that
  restoring sends may end a scan just started: `crossed` is the exception of
  `ScanAgrees`. A scan that is starting at a reload goes on unseen. Topics of an
  earlier scan may show in a new one for a frame.

## 7. What the models leave out

- Content: messages, bodies, requests and errors are members of small sets or
  absent. Time limits only add outcomes, they never exclude one.
- MQTT: publishing (it changes no state), TLS and credentials, persistent
  sessions (the code opens clean ones).
- Files: the atomic write (temporary file and rename) is one step that happens
  or not; the quarantine of corrupt files is left out, an unreadable file is
  one that stays. Sweeping old session directories at a start is left out.
- Collections: UpdateRequest and RenameItem both give an item a new version;
  failing to read the layout is the same as failing to save it.
- Sidebar: every folder is expanded, the three reads of the tree are one step
  there (they are three in `RequestEditor`); ghost and marker are layout.
- OpenAPI: the file of the list and a restart of the program. `AskedFirst` says
  nothing of removing the open file from the list, of a text typed with no
  document open, or of one typed while an operation was under way: what the code
  does with these is in section 6.
- UDP: text and JSON payloads, 4 and 8 byte numbers and floats; switching
  between the two tabs.
- MQTT panel: `Spec`, and so `mqtt_tabs` and the proofs of the tabs, assume that
  the user acts only when the start is over, that is when `loadProfiles` failed or
  `restore` had its answer (`Ready`). The code has no such gate, only a window of
  about one call, since `GetConnections` waits for no lock of an operation;
  section 6 says what the assumption hides. Other effects of the same window (a tab
  that was closed comes back, a setting that was saved shows its old value) are
  not looked at one by one. Of the loads that fail the joined panel looks at those
  that leave a live connection unseen, with one value of the stored last profile,
  which nothing reads afterwards (`Failures`); the proofs hold for all.
- MQTT panel: scrolling, the detail of a message, matching a topic level by
  level (a filter is the set of names it matches).
- Two cancels with equal time stamps.
- The parts of section 1 under "Not modelled".
