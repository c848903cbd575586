# apskel-np: specifications, model checking and proofs

This directory holds TLA+ specifications of the apskel runtime and server, the
configurations that check them with TLC, and proofs checked by TLAPS. Paths
below are relative to the repository (`runtime/queue.js`, `server/wireServer.js`).

## 1. The system

apskel runs applications described in XML. A Node server sends a bundle to the
browser; pages bind components to database columns; every bound write goes to
the server as one envelope over "the Wire" (a POST), and accepted writes come
back to every page over one event feed (SSE). Applications with identity also
get an offline queue: a write that cannot reach the server is kept in IndexedDB
and flushed when the feed reopens.

| Component | State it keeps | Operations | What makes it correct |
|---|---|---|---|
| Offline queue, `runtime/queue.js` | entries in seq order, dead letters, `nextSeq`, `tempCounter`, live temp-id mapping | enqueue (coalesce, pin), allocTempId, ack, ackInsert, releaseMapping, deadLetter, reconcile, advanceBase, keepMine, takeTheirs, snapshot | only a foreign move conflicts; no temp id is left behind; lineages keep connected components whole; a seq names one write |
| Sync client, `runtime/syncClient.js` | IndexedDB stores shared by tabs, the tab's queue in memory, revisions, the Web Lock | capture, allocSeq, persist, resync (reload, pull, reconcile, flush), keepMine, takeTheirs, boot overlay | no edit lost, no foreign work overwritten unseen, one seq one entry |
| Wire client, `runtime/wireClient.js` | per-context fetch generations, collections' rows | send effects, receive broadcasts, record contexts, collections | sends carry the revision the user saw; stale answers are not painted |
| Bootstrap, `runtime/boot.js` | token, event source, clientId | send, create, remove, remint, reconnect | failures are classified: refused, conflicted, offline |
| Wire server, `server/wireServer.js`, `server/sync.sql` | rows, receipts, feed connections | set, setMembers, insert, delete, get, select, query, events | guarded update; an insert key creates one row; a reader hears only what it may read |
| Identity, `server/authServer.js`, `runtime/frameworkFunctions.js` | users, devices, links; the page's identity, token and credential | register, login, token, re-mint | a page acts, listens and flushes as whom it shows |
| Collections, `wireClient.js` `attachCollectionSync`, `binder.js` | rows by key, instances in the DOM, fetch generation | select, the four broadcasts, heal | the list is what its source selects, each row once, in order |
| Store and watchers, `runtime/store.js`, `runtime/watchers.js` | values, subscribers, cascade | set, server and replay doors, batch, watch | bounded cascades, one settled order, no echo loops |
| Router, `runtime/router.js` | compiled routes; the browser's history | match, apply, navigate, syncUrl | URL and state agree; one history entry per input |
| Loader, resolver, serializer | the instance tree, scopes, bindings | load, declare, resolve, check, collect | a name means one place; what is read is fetched; what cannot be queued safely is refused |
| Markup parser, widgets | none, the DOM | parsing, rendering | - |
| Application server, tools, primitives, applications | none or the DOM | start-up, static files | - |

Interactions: a keystroke changes the store, a watcher of the wire client sends
it; `boot.js` classifies the answer and hands it to the sync client's capture
chain; capture goes to the queue in memory and then to IndexedDB; a reopened feed
or a 409 calls `resync`, which takes the Web Lock of the identity's database,
reloads memory from IndexedDB, pulls revisions, lets the queue split its lineages
into clean and parked, and posts the clean ones. The server runs a handler per
request over **one** PostgreSQL connection, so handlers interleave query by query.

The hard behaviours: several tabs and one durable queue; every `await` in capture
and flush; requests whose answers are lost; page, tab and server crashes; receipts
that are pruned while duplicates may be on the way; temp ids that must be
rewritten wherever they are; the feed delivering foreign revisions in the middle
of a flush; a row that changes hands between a guard's walk and its statement;
tokens that end with the server's process while several tabs of one device log in
and re-mint without each other's knowledge; watchers that change each other's
fields; selects that are answered before and arrive after a broadcast. The places that
matter most are in `PROJECT.json` under `hazards`, with the properties that cover
them, or the reason none does yet; section 3 adds what is no more than the code's choice.

## 2. Modules

| Module | Models | Note |
|---|---|---|
| `OfflineQueue` | the queue's operations as operators on values | no state; a queue is a function seq -> entry |
| `QueueMachine` | one queue and its driver, one step per call | EXTENDS `OfflineQueue`; instances in `MCQueue` |
| `InsertLedger` | what receipts promise, abstractly: an insert is open, commits once, is acknowledged after that | three actions |
| `InsertReceipts` | creates, durable queue, flush, network, insert handler and connection | implements `InsertLedger` by refinement mapping |
| `SyncTabs` | sets of one row from several tabs, at `await` granularity | instances in `MCTabs`, `MCTabsDetect` |
| `RecordContexts` | one record context of a page: selections, loads, keystrokes, broadcasts | the wire client against server and feed |
| `Cascade` | the store's doors and the watcher engine, one firing a step | no Init or Next of its own |
| `Router` | the two directions of URL and state, as operators | no state |
| `PageState` | a page: inputs, presses, Wire writes, navigation, history | EXTENDS `Cascade`, `Router`; instance `MCPage` |
| `DataGraph` | rules, walks, stamps and join tables, worked out of graph and schema | operators on an application |
| `WireAccess` | the server's doors and broadcasts, one query a step | EXTENDS `DataGraph`; instance `MCAccess` |
| `Collections` | one collection of a page against its table and feed | instance `MCCollections` |
| `Session` | boot, login, re-mint, feed, send and flush under changing identities | instance `MCSession` |
| `Names` | an application loaded, declared, resolved and checked | one step per element |
| `Bundle` | what is read off it: fields, columns, policies; the stamping of rows | EXTENDS `Names`; instances in `MCNames` |
| `InsertReceiptsProofs`, `SyncTabsProofs`, `QueueMachineProofs`, `RecordContextsProofs`, `PageStateProofs`, `WireAccessProofs`, `SessionProofs` | theorems about the module they are named for | each EXTENDS its module and TLAPS |
| `CommonLemmas` | lemmas on sequences, minima and counting up that several of them cite | no state |

### OfflineQueue and QueueMachine

An entry is one record with the envelope's slots, its policy and its temp id. Row
ids are integers: positive from the server, negative for temp ids, 0 for a slot
the envelope does not have. That 0 stands for JavaScript's `undefined` matters:
`tempRefsOf` compares it, so inserts that leave the same foreign key absent share
a lineage. `Lineages` computes the partition the union-find builds, as the fold of
`Merge` over the `Pairs` of row keys that are united; `Component`, the entries reached
by going from link to link (`Near`), is its reference definition, and its links are
those of the design (docs/apskel-design.md:2742-2746): the same row, or a reference to
a temp row. The undefined match is no such link. `LineagesAreComponents` therefore
excepts the components it reaches (`AbsentKeys`) from being kept apart, never from
being kept whole.
The machine's server is what the queue can tell apart: rows and revisions, and in
`issued` every row id there ever was. An identity column never hands one out twice;
a server that reused the id of a deleted row would let a queued set meet a row it
was not meant for, and `NoOrphans` could not be proved. `Heal`
is the refetch that ends a temp id's mapping; `Restart` restores the snapshot,
which has no mapping. `Reconcile` is what a resync does once: it pulls, parks the lineages
in conflict and leaves in `flushing` what the flush may send, until the network fails
(`FlushOffline`) or all is sent. `foreign` is a history variable: the queued sets that a
write by somebody else overtook and whose pin has not been moved past it since. Two
things move it: keep-mine, and the answer to a membership entry. That has no revision
of its own; `advanceBase` is called with the one of the page's bookkeeping
(`syncClient.js:348-356`), and carries later pins past a write of somebody else, where
`queue.js:275-277` says that only own lineage's acks do. A write to a row the page knows
no revision of is sent with 0 (`?? 0`, `wireClient.js:119`), which is what is typed on an
optimistic row: it is in conflict as soon as the real row has a revision the page has not
got from that row's insert. `blind` marks those typed when a newer one was known already,
which prompt all the same.

`allocTempId`, `ackInsert`'s mapping and `releaseMapping` are what the queue and
its tests offer to an optimistic insert; the shipped client creates no optimistic
rows yet ("no optimistic instance in v0.1", `boot.js:280`), so the runs
with `MaxTemps > 0` describe the queue's contract, and those with `MaxTemps = 0`
what the client reaches.

### InsertReceipts

Attempts are numbered; a request is `[att, key, through]`, key 0 meaning "no
idempotency key" (the online create), `through` the watermark. `dbq` is the
connection: the one query each running handler waits for, in issue order; a
handler's next query goes to its end, which is how two handlers of one
key interleave. `LateDelivery` says whether a request can outlive the fetch that
sent it. Where it is FALSE a fetch that rejects takes its request off the wire;
requests already in the server stay there. Only inserts are queued here; the
sets' only effect on receipts would be earlier watermarks, which are covered by
any entry of the queue leaving it.

### SyncTabs

One row, its fields, tabs of one identity. Each action ends where the code awaits:
`CaptureAlloc` / `CaptureEnqueue` are the two halves of a capture, `Lock` /
`Reload` of a reload, `PullRead` / `Reconcile` of the pull, `FlushSend`, the answer,
`Advance` of a flush. An IndexedDB transaction takes effect when it is created:
those on the same stores run in creation order and a page that dies first has done
nothing. Waiting for the lock is no state of its own. Keystroke number n types
value n, so values are unique. Everything below "History" in VARIABLES is read by
properties only. A resync may be asked for at any time, a superset of its
triggers (feed opened, online event, 409, resolution).

A page has two notions of the row's revision. `known` is the runtime's bookkeeping, which
is sent and pinned; `fed` is what the screen shows, moved by the feed alone (and by
keep-mine, which adopts what the page knows: its prompt may show an older value). A 409
(`boot.js:227-229`), a conflict of the flush (`syncClient.js:261-263`) and the pull
(328) move the first and paint nothing. `seen` records `fed` for each keystroke, so that
overwriting "unseen" work is about the user and not about the bookkeeping; `blind` marks
the keystrokes for which the two differ by somebody else's write.

A value that is lost is put in one of the sets the properties speak of by the action that
loses it: `unsaved` by `Crash` and nothing else, for what the page alone had (its requests in
flight and its capture chain); `logged` by the answer that refuses an online edit
(`boot.js:213-239` writes to the console); `exposed` by a coalesce into what the lock's
holder has in hand, and by a stale tab's put of a seq that is a dead letter. `excused`
holds what a later keystroke replaced or its user gave up, and nothing a fault took. A
request whose fetch has failed, or whose page has died, is not served afterwards;
late delivery is a question of `InsertReceipts`.

### RecordContexts

One dynamic context under last write wins, and the server behind it. A load fetches
the fields one after the other, and each fetch is three steps: `Asked`, `Serve`,
`Arrives` (or `ServeRefused`, `Fails`). Loads that overlap run side by side, as the
asynchronous functions do; what tells them apart is the generation. `shown` pairs
the text of a field with the row it was loaded for, which the code does not record:
it is what `NeverMisfiled` is about. POSTs are a set, since each has a connection of
its own; broadcasts are a sequence, lost when the feed drops. `FeedOpens` and
`Refetch` are apart because `resync` is awaited between them. POSTs do not fail here;
that side is `SyncTabs`.

`raced` holds the fields in which one of the known races has happened since the last
load began, or until a later paint repairs it. The races are listed at
`FreshUnlessRaced`; each leaves the page and the server different, and each is in
`hazards`. The property says there is no other.

### Cascade, Router and PageState

A cascade runs to its end before JavaScript does anything else; here each firing is
a step, so that its intermediate states are states, and `running` keeps every other
event out. `Body(w, change, state)` is what the body of a watcher writes, a constant:
the runtime cannot know it. The views (`dom`), the senders (`outbox`) and the outward
watcher of the router are the framework's own. Batches are what `Store.batch` opens;
`apply` of a route is *not* one (`router.js:51`), which `HistoryTells` and
`NavigationAddsOneEntry` are about. `local` is history: the fields user or app code
changed in the cascade. `torn` remembers that a cascade was aborted, `pushes` and
`planned` what an event pushed, and how many assignments it came with.

`HistoryTells` is no theorem of the runtime alone: two routes may tell one state, a route
may assign one field twice, `"1"` and `"01"` are one number, and bodies may write the
fields that routes assign. `RoutesTell` and `BodiesLeaveRoutes` are the conditions on
an application under which it is; `MCPageTells` says that the instance meets them.

What the framework's own watchers are is assumed of the constants: a view and a sender
watch one field each, a view skips no origin and a sender the two inward ones
(`EngineAssumption`), the router's watcher watches the fields that routes assign and
skips no origin, and a route's parameters are declared in its pattern
(`PageAssumption`; `loader.js:244`). The origin of what a body writes is never an inward one: app code
reaches the store through `set`, and `applyServerWrite` and `applyReplayWrite` are the
Wire's and the overlay's doors (`store.js:52-70`). `PageShowsStore` is about views;
that app watchers agree with the store in the end is `Agreed`, in `CascadesEnd`.

### DataGraph and WireAccess

An application's graph and schema are data (a record); `BornDead` and the other
refusals of start-up decide whether it comes `up`. `Apps` holds several hundred of
them; six are served, and on those two requests of two users and of nobody
interleave. A request is a record that knows where in its handler it is (`at`); the
`queue` is the single database connection: the head's answer arrives, its handler
issues its next query behind the others'. `OwnerOf` is the walk, hop by hop in
`WalkGuard`, `Owners` its reference definition (the set of users at the end of the
path). `mirror` is a listener that applies every broadcast. `moved` marks a request
whose row, or the row its guard walked from, has changed hands since; the request's own
deletion does not count. The database's own behaviour is external: a foreign key refuses
what points nowhere and the deletion of what is pointed at (`KeyHolds`), and no id is
given out twice (`born`). An empty membership is accepted, and broadcast, for a row that is
not there, since the statement then touches nothing (`wireServer.js:275-300`). Feeds stay as
they are for a behaviour; that one follows its page's token is `Session`'s. `AccessAssumption` says what the loader has seen to before a
server starts: nodes in document order, rules from the menus of `read` and `write`, and
rows that fit the schema.

The insert guard walks from the parent row that the new row names, by the *parent
table's own* permission hops (`wireServer.js:445-453`). Two things follow, which the
models show. Where the parent table has no rules, every such insert is answered 403, and
where it is ruled, but not by owner, the statement asks for a column `undefined`
(the model refuses both alike), although the
design and the fixtures let the owner of the referenced parent give birth
(docs/apskel-design.md:2384-2400, test/fixtures/README.md:802-807). And where the parent
is ruled on another line of the graph, by another foreign key to users (the last of the
served applications), the one who may give birth is not the one the row then belongs to.
`UpMeansSound` and `BornOwned` except that case; without the exception TLC finds it.

### Collections

`Answer` computes a select at the server, `Deliver` hands it to the page; in between
broadcasts pass on the other connection (`feed`). `page` has both the Map (`rows`) and
the instances (`dom` in order, `shown` their values). `fault` names what excuses a
list from being right: `raced` (a broadcast between answer and delivery), `failed`
(the fetch) - nothing else does.

### Session

A tab is a record: whom it shows (`user`, and `status` beside it), `token`, its open database
(`db`), feed, calls under way, and the lock it flushes under. The device's credential is
shared; `linked` at the server is who logged in last. Every call is served and then answered,
or lost at either place; a login may be refused, and then the status says anonymous while
user and token stay (`frameworkFunctions.js:74-77`); a server restart ends every token. A
write's token is fixed when its request is made (`postWire`, `boot.js:58-66`): `sendAs` and
`flushAs` hold it until the server executes the request, whatever the page has done
meanwhile. A flush loads, pulls and parks what is `stale` (somebody else wrote that row),
posts the rest in order, and passes over an entry that is answered 409; `parked` is what
the page's prompt shows. Resyncs are asked for by the feed's opening, the online event, a 409
and the resolutions. Each edit is of a field of its own, so that an entry is a lineage;
refusals other than 401 and 409 are left out, as they end a write the way a final 401 does,
and so is the pull's own 401, which re-mints as the first entry's does. `left` holds the
identities whose database got or resolved an entry, or whose flush was cut short, since it
was last loaded: the ones that wait for another trigger. `act` is history: the last write
executed, as whom (`as`), whose it was (`for`), and whether the page that made the request
still showed whom it was booted for and had been told who is linked (`sure`). `MCBudgets`
gives the bounds per behaviour, so that one run covers two tabs with few events and one
tab with many.

### Names and Bundle

Files hold elements and references in document order; `todo` is the loader's
recursion made explicit. A reference is its form and its names, as the parser
classifies it; a field name here never equals a child table's, so that a bound
reference is a column (edges and filters are left out). `culprit` remembers the first
reference that could not be bound. `Bundle` reads the loaded tree as `serialize.js`
does, and compares the policy the page queues under (`CapturePolicy`) with the one
the server checks by (`ServerPolicy`). Arguments of a `source=` are resolved and
collected nowhere, as in the code.

## 3. Runs

`expect: pass`:

| Run | Question | Bounds |
|---|---|---|
| `queue_pins` | pins, own acks, foreign moves, resolutions, dead letters, restarts; an optimistic row, a membership edge, a read-only table beside | 3 entries ever, 2 revisions, 1 temp row, 2 real ids |
| `queue_tree` | offline-born rows naming each other through foreign keys and membership arrays; last write wins | 3 entries, 3 temp rows, 3 real ids, no revisions |
| `receipts` | inserts end to end; refinement of `InsertLedger` | 3 creates, 2 faults |
| `tabs_lww` | two tabs, two fields, last write wins, offline | 3 keystrokes, 3 faults |
| `tabs_detect` | a detect row: two tabs offline with prompts in both, or one tab, online and offline, with a fault | 2 keystrokes, 1 foreign write, 1 fault |
| `contexts` | one context: overlapping loads, keystrokes, broadcasts, a failed fetch or a feed loss | 2 rows, 2 fields, 2 writes, 2 selections, 1 fault |
| `page` | what page, URL, history and outbox hold once it rests; every cascade ends | 2 routes, 4 fields, 8 watchers, 3 events, firing bound 2 |
| `access` | which applications come up; who reads, writes and hears what, query by query | some 300 applications, 6 served; 2 requests of 3 identities over 16 kinds, 3 rows |
| `collections` | what a list shows once it rests, and in which order | 7 kinds of source, 3 rows, 2 writes, 1 move of the selection, 1 fault |
| `session` | whom page, token, feed and requests speak for; what a flush leaves; that the feed comes back | 2 tabs, 2 users, up to 2 logins, 2 edits, 1 restart, 2 faults, 2 conflicts |
| `names` | what names mean, what is fetched, what is refused | some 9,500 applications of up to three files and a dozen elements |

Why the bounds are enough: the queue's operations look at one entry and one other
(coalesce, temp reference, pin carried over), so three entries give a first, a
middle and one that depends on another; two revisions are a foreign move and an ack behind it. A duplicate insert needs one lost answer and
one more fault to disturb the retry; a third create moves the watermark past it.
The tab hazards involve one flusher, one other actor and one more edit; the third
fault of `tabs_lww` is the second refusal of one seq. Two rows and two
selections make an older load and a newer one, two fields a load that is half done.
A page needs one watcher that mirrors and one that answers it for a cascade to settle
late or never, and two routes for one to be left for the other. An access race is two
requests on rows one hop apart; the walk of the odd graphs has up to four. A list needs
a row on either side of the newcomer. Identities go wrong between one login and one
re-mint, in two tabs or in one; a request in flight outlives its page's identity with a
second login. Names clash at depth two: a mount, its content and its
definition, and one definition inside another. Mutants of
the code's definitions, listed in `PROJECT.json`, break every property of every
passing run within these bounds. The type invariant of a module is the first
conjunct of one of its structural properties (`PathsLead`, `FeedIsToken`, ...), save in
`receipts`, where it is a theorem of its own.

`tabs_detect` chooses its scenario at the start, by whether the bound on faults is
passed already, and its cfg keeps to it by a CONSTRAINT; the two together are out of TLC's reach. Every run sets
`CHECK_DEADLOCK FALSE`: the bounds on edits, creates, events and faults let a behaviour
end, an application is loaded once, and a page with nothing typed and nothing queued
does nothing either.

`expect: violation`: `session_identity` states what the design says of the queue
(docs/apskel-design.md:2853-2861: its entries flush only under the identity whose
database holds them) as `NeverReattributed`, and TLC shows a login on a page whose
database still holds another's edit; see `findings`. In the same paragraph the design
lets a flush whose re-mint failed abort with the queue intact; the code
(`syncClient.js:266-277`) puts a 401 away as a dead letter, which `Session`'s `Buried`
models and `QueueDrained` sees as a queue that was emptied.

Other sentences of the documents, comments or fixtures are stated as formulas beside
the properties and are *not* invariants; adding one to the INVARIANTS of its run's cfg,
under the constants named, makes TLC show the behaviour:

| Formula | Sentence | What happens |
|---|---|---|
| `InsertReceipts!AtMostOnce`, `LateDelivery = TRUE` | the receipt guarantees exactly-once (docs/apskel-design.md:3090) | a request outliving its fetch meets a pruned receipt |
| `InsertReceipts!CreatedOnce` | an insert flushes with its idempotency key (`boot.js:280`) | an unanswered online attempt is repeated under a fresh key |
| `QueueMachine!LineagesAsDocumented` | a lineage joins entries by `table:id` and temp-id references (docs/apskel-design.md:2742-2746) | `queue.js:208` matches `undefined` with `undefined`: a foreign key left absent joins an entry to rows it has nothing to do with, and all park together; two entries are enough |
| `SyncTabs!NothingLost` | entries leave the queue only when answered (docs/apskel-design.md:2708) | a value coalesced into the entry in flight goes with it |
| `SyncTabs!NothingLost` | a refused entry is moved to the dead letters, never deleted (`syncClient.js:265`) | the dead letter is overwritten, see below |
| `SyncTabs!OnlyForeignConflicts`, `Online = TRUE` | only a foreign move is a conflict (docs/apskel-design.md:2806) | two quick edits of one user on two fields |
| `RecordContexts!NeverMisfiled` | the old row's text is never saved into the new row (docs/apskel-design.md:1908) | after a load that failed, it is |
| `PageState!NavigationAddsOneEntry` | navigation is typing the URL, back and forward walk the entries | a route's targets are set one by one, and a half-made selection that fits a route is pushed |
| `Collections!OrderAlwaysKept` | a row is inserted before the first it outranks (`positionFor`) | the second newcomer stands by arrival |

The passing runs therefore state how far those promises do hold:
`LineagesAreComponents` - no lineage is split, and only components that an absent foreign key
reaches may be joined to others; `LostOnlyAsListed` - a value can vanish in four ways only:
with its page, before IndexedDB or the server has it; refused online, with a line on
the console; coalesced into what a flush or a resolution has in hand; with a dead letter that is
overwritten. The first two are what the design grants (an edit is durable once captured),
the other two are the code's. `OverwritesOnlyAsListed` - under detect, work that never was on
the user's screen is overwritten only by an edit typed when the page's bookkeeping was past
it already (a 409, a conflict or a pull had moved it without painting) or whose
pin was moved other than by its own lineage's ack (resync reads the
revision for `advanceBase` from the page's map after an await, `syncClient.js:350`, and
a broadcast can put a foreign one there); `MisfiledOnlyIfBroken` - text goes to
another row only after a load failed; `HistoryTells` - a navigation adds at most
one entry, and one more per assignment of its route, the back button one per assignment; `RowsAreInstances` - the first newcomer
stands right; `ActsForItsOwn` - a write is executed as somebody else only if the page, when it
made the request, had moved on to another identity or had not been told who is linked;
`ShownIsActing` - page and token disagree only after a change the page was not told of.

The overwritten dead letter: one tab's flush has an entry refused and moves it to the
`dead-letter` store, which is keyed by seq. Another tab still has that entry in memory
and coalesces its next keystroke into it (`queue.coalesces`, `syncClient.js:183`), which
puts the seq back into the durable queue; when that is refused too, `persist`
(`syncClient.js:109-119`) puts it over the first dead letter, whose payload is gone. It
takes three keystrokes and three faults, and came to light when the property could not be
proved as it was first stated, without that way.

Fairness: `RecordContexts` assumes that a fetch ends,
`WF_vars(\E l \in loads : Serve(l) \/ Arrives(l))`: the server answers every `get`
and the browser hands over the answer. Nothing is assumed of the user, of other users,
of failures or of the feed. `SendsResume` rests on it. `PageState` assumes
`WF_vars(Running)`: a cascade that has begun goes on, as nothing can come between.
`Session` assumes, tab by tab, weak fairness of `Calls` (requests are answered, answers
arrive) and of `Feed` (an EventSource connects, the page's timer fires); faults, being
bounded, are not assumed to stop otherwise. `FeedComesBack` rests on that. A flush is
asked for by the feed's reopening (`boot.js:240`), the browser's online event (`boot.js:369`),
a 409 (`boot.js:231`) and a resolution; while the feed stays up none of them is bound to come,
so that an entry leaves at all is no theorem of the code. `QueueDrained` is the safety half:
what nobody flushes are conflicts waiting for their user, or the entries of a database in
`left`, whose last flush was cut short or which got an entry since it was loaded.
The other modules state safety only.

What the models show and no property states: `bundle.syncBindings` is read
(`syncClient.js:73`) and produced nowhere, so that foreign keys and edges of queued
entries are rewritten only where the queue's own tests declare them; an input may be
bound to a field of `app.identity` (`ResolveRef`
refuses assignments only); two contexts of one column may declare different policies, and then
the page queues under the first and the server checks by the last (`PoliciesAgree`
excepts them); a row inserted below somebody else's is told to its inserter alone until
the next fetch (`AudienceIsReaders` excepts it); a limited list that has lost a row
stays short until its next fetch; after a login elsewhere two tabs can flush one database
at once, as the lock's name is computed from the identity each time and the database is opened
once (`syncClient.js:46`), and then only the receipts keep inserts from running twice; an edit
answered 401 whose re-mint is lost is neither retried nor queued (`boot.js:196`).

One thing the model of `receipts` shows and no run states: when two handlers of one
key overlap, the loser is answered 400 (`wireServer.js:511-516`) and the client moves
every refusal to the dead letters, so an insert whose row exists can be shown as
rejected; `AtMostOnce` and `AckedCreated` hold all the same.

And one thing only an optimistic row could reach: a coalesced `setMembers` keeps its seq
(`queue.js:126`) and may so come to name a row whose insert is queued behind it.

## 4. Proofs

Checked by `tlapm` with Z3, Zenon and LS4, some 18,100 obligations. The assumptions
on constants are those of the modules (`SyncConstants`, `QueueConstants`,
`ContextConstants`, `SessionAssumption`, `ReceiptConstants`): bounds are naturals, names
that stand for nothing are no member of the sets they leave, real ids are positive; and
what section 2 says of `EngineAssumption`, `PageAssumption` and `AccessAssumption`. So
the theorems hold for any number of tabs, rows, fields, users, edits and faults, for any
watchers and routes, and for any applications. Hypotheses
beyond them are two: `Bounded == LateDelivery = FALSE`, in the theorems on receipts
other than typing (with `LateDelivery = TRUE` TLC finds them false, not merely unproved);
and `RoutesTell`, `BodiesLeaveRoutes` in `HistoryAlwaysTells`, on which section 2 has more.
The instances of the runs satisfy all three.

| Theorem | Property | Holds for |
|---|---|---|
| `ReceiptsTyped` | `TypeOK` | any creates and faults, late delivery or not |
| `ReceiptsOnePlace`, `ReceiptsPruneSafe`, `ReceiptsAtMostOnce`, `ReceiptsAckedCreated` | `OnePlace`, `PruneSafe`, `AtMostOnce`, `AckedCreated` | any creates and faults |
| `ReceiptsImplementLedger` | `Spec => LedgerSpec` | the same |
| `SeqNames` | `SeqNamesOneEntry` | any tabs, fields, edits, faults, either policy |
| `NothingElseLost` | `LostOnlyAsListed` | the same |
| `PinsProtect` | `OverwritesOnlyAsListed` | the same |
| `OneEntryPerSlot` | `CoalesceUnique` | any tables, policies, foreign keys, edges, bounds |
| `ConflictsAreForeign` | `ConflictIffForeign` | the same |
| `TempRefsHaveInserts` | `NoOrphans` | the same |
| `SeqsNameOneWrite` | `SeqDiscipline`, an action property | the same |
| `LineagesAreTheComponents` | `LineagesAreComponents` | the same |
| `FreshAtRest` | `FreshUnlessRaced` | any rows, fields, writes, selections, faults |
| `SentForItsRow` | `MisfiledOnlyIfBroken`, an action property | the same |
| `ShownActs`, `FeedFollowsToken`, `NothingLeftQueued` | `ShownIsActing`, `FeedIsToken`, `QueueDrained` | any tabs, users, budgets |
| `WritesAreOnesOwn` | `ActsForItsOwn`, an action property | the same |
| `PageAlwaysShowsStore`, `OutboxAlwaysLocalChanges` | `PageShowsStore`, `OutboxIsLocalChanges` | any fields, watchers, bodies, routes, events, firing bound |
| `HistoryAlwaysTells` | `HistoryTells` | the same, where `RoutesTell` and `BodiesLeaveRoutes` |
| `MirrorAlwaysFollows`, `ComingUpIsSound` | `MirrorFollows`, `UpMeansSound` | any applications, rows, users, requests |
| `RunsOnlyAllowed`, `BirthsAreOwned`, `ReadersAreTold` | `AllowedWhenRun`, `BornOwned`, `AudienceIsReaders`, action properties | the same |

None of the properties is inductive. Each module has one `IInv` (in `PageState` with the
fold's own lemmas before it), checked with TLC on the
instances of its runs before it was proved; `InvInit` and the lemma for the steps prove
it, one lemma per action, one step per conjunct it can disturb, and each theorem follows
from it.

**Receipts.** A state with a pruned receipt and a duplicate at the head of the connection
would break `AtMostOnce`. `IInv` says why there is none: `Places` (where a seq may be),
`Attempts` and `Order` (attempt numbers are unique and below `nextAtt`; handlers and
requests of one attempt exclude each other), `Answered`, `Receipts` (a receipt or a
resolved key for every keyed row), `Watermark` and `WatermarkSent` (every watermark, sent
or yet to be sent, is at most each seq that is not yet resolved), and `Fresh` (a key at or
above `nextSeq` has been used nowhere). `LInv` adds `Acks` and `Settled` for the
refinement: the insert's commit maps to `Commit`, the durable removal to `Acknowledge`,
the move to the dead letters to `Bury`, all else to stuttering.

**Tabs.** `Names` gives every seq one field, wherever it is written down, and keeps a seq
that is just being allocated out of every queue. `OnePlace` keeps a value on one capture
chain, on the wire, or in the queues under one seq. `LockHeld` says what only the
holder of the lock may be in the middle of, and `Current` that what it works on is a part
of the durable queue, up to exposed values: of the other tabs' copies nothing is claimed,
which is why a stale one can do the harm it does. With them `AllKept` says where each edit
is; a crash has to be shown to take nothing but what its own page held. `Pins` is what
`OverwritesOnlyAsListed` needs: an edit that was neither skewed nor typed blind is `Honest`, its
pin covers no foreign revision that was not on its user's screen. `Revisions` bounds all revisions by
the row's own.

**Queue.** Temp ids are where the argument is. `Behind` is the order: an entry that names
a temp id has that row's insert, queued or refused, before it; `Known` and `EntriesKnown`
say that the ids in queue and mappings have been handed out, so that a rewritten id can
meet no other entry's slot (`Unique`); `Pins` and `Conflicts` tie pins to the server's
revisions and to the history variable `foreign`; `Shown` says that an optimistic row the
page shows has its insert or a live mapping.

That lineages are components is about one value and not about steps, save that no
membership array names `undefined` (`MembersNamed`). `Splits(P, K, T)` says that the blocks
`P` divide the row keys `K` as far as the pairs `T` allow and no further; `MergeSplits` that
one `Merge` adds one pair to `T`, `FoldSplits` that the fold therefore ends with all. `ComponentIsLeast`: a component
is the least set of entries that holds `s` and every link of its members, the other side
of the same coin. What is left is that two entries share a block of row keys as often as
they are linked (`LineagesOf`), or more often through a key of `AbsentKeys`; that row keys are
the code's, and links the design's, is why it is worth proving.

**Contexts.** `Sound(v, r, f)` is the idea: a text is right if it is the server's value, or
if the last broadcast of that field still in the feed is somebody else's, and will
replace it. While the feed is up and no refetch is due, `AnswersSound` claims it of an
answer that nothing has overtaken, `FieldsSound` of every field that has been painted and
not raced, unless an own write is on its way, which is then what the field shows.
`FeedTells` (the last broadcast of a field has the server's value) and `Current` (one load
per generation, and how far it has come) carry it; `Filled` is the other theorem's.

**Session.** `Types` includes `PageOK`, which says what a page's token, feed, calls under
way, send and flush can be together. `Linked`: a page that was told of every login, and
whose own login is not on its way back, shows the user the server linked last, and its
tokens and granted re-mints are for that user. `PostsOK` keeps that for a request on its
way: a token fixed while the page was sure is for the user whose write it carries, and
nothing the page does later changes it, so `ActsForItsOwn` follows whenever the server gets
to it. `Drained` says that an entry queued at the last load, and not in conflict, is in the
hands of one who flushes.

**Page.** A write is `Put`, a batch the fold of `Put`: `Kept` says of a state within a
cascade what each write preserves, and the fold lemmas carry it through the writes of a
body. `CascadeInv` then has: every view shows its field or has its entry pending, with
the present value, every sender whose field changed on this side has its entry pending or its
effect enqueued, and nothing else is in `effects`. Coalescing is the hard case: a
server's write over a user's leaves the field in `local`, and the entry fires with the
last value. For the history `UrlInv` is added: the outward watcher waits, or no route
tells the state, or the URL shown assigns nothing but what the fields hold or `apply` has
yet to set; and an entry waiting and an assignment yet to be made are each worth one push at
most (`OnceEach`). A write to a field that routes assign wakes the watcher
(`PutTells`); when it fires, the URL it pushes reads back as the state it was built from
(`ReadsBack`), and a corrected URL assigns what the given one does (`CorrectedAlike`).

**Access.** Three things are shown apart. `Resolved` says of every table that the walk
start-up settled, if any, is the line of the graph to the nearest users table, so that `OwnerOf`,
which climbs it hop by hop, and `Owners`, which takes the edges in sets, agree on every
row whose foreign keys lead somewhere (`RowsFit`). `Entries` says of every waiting request
that is not `moved` that what its guard found still holds, since a statement of another that
changes it marks it. `MirrorHears`: the mirror with the broadcasts of those requests
that have changed the database and have yet to walk for their audience, applied in the
queue's order, gives the database; these writes are to different rows or in that order,
so that they commute with those that overtake them - save that the members of a row that is
not there are set to none (`wireServer.js:275-300` broadcasts them), which commutes with
that row's birth. `ReadersAreTold` has two halves: that nobody is told but the writer and
who may read by then needs no exception (what is told at once is told of its writer or of a
rule that asks for no owner, the rest is looked up when it is told); that all readers are
told needs the three its comment lists.

Proving found faults of the models, all mended: an id that was handed out again
(`issued`), a bounded set of seqs, overlapping arms of a CASE, of which the semantics
leaves the choice open (now IF in `QueueMachine`, `WireAccess`, `Names`) - and the dead letter of
section 3, which is the code's.

Left to TLC: liveness under fairness and ENABLED (`SendsResume`, `CascadesEnd`,
`FeedComesBack`), out of the prover's reach; `Names` and `Bundle`, whose properties are
about recursive reading of data; and `Collections`, not attempted: its selection
sorts and its page is built with `:>`, `@@` and `SelectSeq`, which the provers do not
interpret.

## 5. Plan

1. Proofs: `RowsAreInstances` of `Collections`, which first needs `Selected` and
   `Removed` in terms the provers read.
2. Inserts and sets of several tabs in one model (an insert's ack puts the whole
   in-memory queue back, `syncClient.js:281`).
3. Revisions under detect in `RecordContexts`, and the fields of query sources.

## 6. Not modelled, and why

XML parsing and the shape of attributes and domains (pure, refused at their site);
edges and filters as references, select options, query files; elements, visibility and
widgets (no state but the DOM); static serving, tools and the example applications
(I/O); the bundle-version reload, the replica and the prompt's `app.sync` region
(display of what is modelled); registration and password checking; a token's expiry by
time, for which a restart of the server stands; collections nested in a template, which
the code defers; values' formatting. `LateDelivery` is the only network behaviour with a
switch; TCP delivers a request once, so a request is never duplicated by the network
itself.
