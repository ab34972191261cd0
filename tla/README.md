# A TLA+ model of Protonet's node

Protonet shares signed records of flagged files between nodes. A node signs the
records its user creates, hears others by gossip, exchanges the rest by
synchronisation, and keeps all of them in SQLite. This directory holds TLA+
modules translated from the Rust source, TLC configurations that check them on
small instances, and proofs for TLAPS. Paths below are those of the repository.

Model values, bounds and configurations are described under *Runs*; what is
proved for all values of the constants is described under *Proofs*. Run, in
this directory,

    tlc -config pipeline_live.cfg MCRecordPipeline.tla
    tlapm RecordPipeline_proofs.tla

## 1. Inventory

| component | state | operations | talks to |
|---|---|---|---|
| **network actor** (`network/swarm.rs`, `run_engine`, `run_swarm`, `Actor`) | `storage_safety_mode`, blocked peers, pending local publications, gossip messages that wait | one `select!` loop: commands, swarm events, signed records, persistence events, database actions, ticks | everything below |
| **replay protection** (`network/replay.rs`) | recent ids, Bloom filter of stored ids, per-origin sequence window, highest sequences | `check`, `accept`, `mark_pending`, `forget`, `load_persistent_state` | called by the actor |
| **persistence worker** (`storage/worker.rs`) | bounded request queue, batch, bounded event channel | `try_enqueue`, one thread that batches, commits and sends outcomes | actor, database |
| **signature database** (`storage/database.rs`, `migrations.rs`) | records (unique origin+sequence), `origin_sequences`, local sequence counters | `insert_batch`, paging of ids, `records_by_ids`, expiry, removal, `clear_identity_state` | worker thread, blocking tasks |
| **signer** (`spawn_signer`) | two bounded channels, the next local sequence | `next_local_sequence`, sign | actor, database |
| **identity store** (`identity/keystore.rs`) | key file, lock file | `load_or_create`, `load`, `reset` | start-up, reset; several processes |
| **connection manager** (`network/connection_manager.rs`) | counts and first address per peer, denied connections | `can_accept`, `connected`, `disconnected`, tie-break | libp2p swarm events |
| **synchronisation, requester** (`swarm.rs`, `start_sync` to `finish_sync`; `protocol/sync.rs`) | `sync_sessions`, `pending_sync`, blocking comparisons | start, answer, failure, time-out, pump | libp2p request_response, database |
| **synchronisation, responder** (`prepare_sync_response`) | a task for each request | limit, read, limit again, answer | peers, rate limits |
| **rate limits** (`network/rate_limit.rs`, `WindowCounter`) | token buckets of peers and sources, windows, blocked peers | `take`, `allow_*`, `note_invalid`, `block` | every handler of the actor that peers can call |
| **external addresses** (`swarm.rs`) | candidates and who observed them, promoted addresses, the Swarm's set, reachability | observe, promote, expire, withdraw | Identify, AutoNAT, listeners |
| **user interface** (`app.rs`, `ui/`) | log, scan awaited, alert, tab, page of flagged files, dialog | one `update` for each frame | user, hasher, controller, database |
| **file hashing** (`signature/hasher.rs`) | a thread for each scan, its channel and its cancellation flag | read to the end, fail, stop | user interface |
| **controller** (`network/controller.rs`) | command and event channels, snapshot | `try_send`, `try_recv` | user interface, actor |
| **record format** (`protocol/record.rs`, `codec.rs`) | none | encode, decode, verify, validate times | |
| **peer discovery**, **libp2p behaviour**, **metrics**, **drawing** | none that anything modelled depends on | | |

What is hard here:

* A record is *checked* in one handler of the actor, queued to a thread, and
  *accepted* only in a later handler. Between the two there can be commits of
  other records under the same key, an eviction, an identity reset with a new
  actor, or a crash. The gossip message waits in all this for one verdict.
* Three channels are bounded. The actor never waits for the queue
  (`try_enqueue`), the writer waits for the event channel; a full queue is one
  of the actor's ordinary cases.
* The identity reset is three steps (drop the swarm, clear the sequence
  counters, replace the key), of which each may fail. The writer thread and the
  records in it survive the swarm.
* Both ends of a link decide by themselves which of two simultaneous
  connections is superfluous, and the table of peers counts only some of them.
* A synchronisation session is spread over requests, blocking comparisons and
  several tables; a session may end while requests and comparisons are under
  way, whose results reach the next session of the same peer.
* Several processes share one identity directory, guarded by a lock file that
  a crash leaves behind and that a reset does not hold.

* Token buckets refill lazily, when they are asked; several are asked for one
  message, and a cache forgets them.
* The user interface is one thread that draws at its own pace. Scans end on
  other threads, rows come and go between two reads of one frame, and an event
  that finds its channel full is gone.

What makes each component correct is stated as a property below (section 3);
`PROJECT.json` lists each hazard at its line with the properties that watch it.

## 2. Modules

| module | models | uses |
|---|---|---|
| `Replay` | `ReplayState`: `Check`, `Accept`, `MarkPending`, `Forget`, `LoadPersistent`, evictions, as operators on a record | |
| `RecordPipeline` | the life of a record and of the process: signer, gossip, sync ingestion, queue, writer, `handle_persisted`, expiry, start, reset, shutdown, crash | `Replay` |
| `VouchLedger` | abstract: what a node promises its neighbours | implemented by `RecordPipeline` (`LedgerSpec`) |
| `ReplayWindow` | long lives of the sequence windows: disorder, eviction, restart | `Replay` |
| `Connections` | connection events and the manager at both ends of every connection | |
| `SyncSession` | the requester's bookkeeping, against every failure, whatever the answers hold | |
| `SyncConvergence` | what the answers of an honest peer achieve, with the data | |
| `IdentityStore` | key file and lock file among several processes | |
| `RateLimits` | token buckets and windows with their arithmetic, the handlers that ask them, blocks, the responder | |
| `ExternalAddresses` | the external addresses a node has of itself: observed, promoted, confirmed, withdrawn | |
| `NodeParts` | the four modules whose state nothing else shares, as parts of one node | `ReplayWindow`, `RateLimits`, `ExternalAddresses`, `IdentityStore` |
| `StorageLimits` | the times of a record's validation, the limits of the database, checked before each batch, and the safety mode of the actor | |
| `Interface` | the frames of the user interface, the hasher threads, both channels to the actor, the pages of the database | |
| `MC*` | small instances: definitions that cfg files give to constants | |
| `ReplayTheorems`, `*_proofs` | lemmas, theorems, proofs | |

The actor is a single task, so **each of its handlers is one action** with
everything the handler does. The writer thread, the signer and blocking tasks
are processes of their own, with an action per step that another can see.
Operators beginning a comment with `Mistake:` are plausible bugs. No
specification uses them; `PROJECT.json` pairs each with the property that
notices it when it takes the place of the right definition.

### RecordPipeline

| action | code |
|---|---|
| `Start`, `StoredOrNew`, `StartSwarm`, `LoadedReplay` | `run_engine`, `run_swarm` up to its loop: key file, three start-up reads, each of which may fail into an empty result |
| `ResetIdentity`, `ClearIdentityState`, `NewIdentity`, `ResetFails`, `Shutdown`, `Crash` | the loop's exits and the steps of `run_engine` after `Reset` |
| `PublishFile`, `Sign`, `SignFails`, `HandleSignedRecord` | `handle_command`, `spawn_signer`, `handle_signed_record` |
| `ValidateGossip`: `GossipGated`, `GossipInvalid`, `GossipSeen`, `GossipTooOld`, `GossipOverLimit`, `GossipQueued`, `GossipSaturated` | the exits of `validate_gossip`, in their order |
| `AcceptSyncRecords` | `accept_sync_records` |
| `WriterTake`, `WriterCommit`, `WriterFail`, `WriterSend` | the writer thread and `insert_batch` |
| `HandlePersisted`: `HandleStoredRemote`, `HandleStoredLocal`, `HandleDuplicate`, `HandleFailed` | `handle_persisted` |
| `Maintain`, `HandleMaintenance`, `RemoveSignature`, `BlockExpires`, `Evict` | cleanup, deletion, block expiry, the caches' limits |

`verdict`, `flag`, `published` and `durable` are what the outside sees: what
gossipsub was told of a message, what became of a flagged file, what was
published, and what ever was committed. A flagged file that was swallowed as a
duplicate, orphaned by a reset or abandoned with its swarm has come to its end
(`FlagAnswered`), though the user is told nothing. Abstractions: a record is origin,
sequence and body; signatures and decoding are the choice to reject; rate
limits and block decisions are a choice of the environment; the Bloom filter is
exact (a false positive would only ignore more); the LRU and time limits of the
caches are an eviction at any time; the start-up reads are one step; power loss
after a commit (SQLite WAL) is not modelled.

### The others

`Connections` has the transport's side as an environment (dial, offer, fail,
establish at either end in any order, break) and the handler of
`ConnectionEstablished` as one action per exit (`EstablishDenied`,
`EstablishBlocked`, `EstablishRefused`, `EstablishCounted`). Round-trip times
and byte counters are left out.

`SyncSession` keeps `sync_sessions`, `pending_sync`, the requests libp2p owes an
event for (`wire`) and the blocking comparisons (`tasks`). Helpers
(`Send`, `Pump`, `Without`) return the books a piece of a handler leaves, so
that an action is the whole handler. An answer somebody waits for comes from a
tracked peer; a peer that is linked and untracked is the subject of
`connections_untracked`. `SyncConvergence` has one honest peer and one session
at a time, and keeps what `SyncSession` leaves open: inventories cut to
`MAX_BUCKETS`, pages, cursors, the limit of `records_by_ids`, buckets put back,
local reads that fail, and all that `accept_sync_records` turns a record away
for (`ReceiveRecords`): safety mode, the validator, the replay memory (`Replay`),
a source without tokens (`allowance`, for its address and prefix together) and a
full queue. Each record has the origin and sequence that the replay memory
judges it by. `Commit` and `BatchFails` are a commit with its event,
`TurnUnsafe` and `TurnSafe` a maintenance, `Refill` and `SpendElsewhere` what
happens to the source's tokens meanwhile. Both nodes are of one day: nothing
expires, and the node has nothing its peer lacks. A blocked peer keeps its
session and its connection, as in the code; what the block does to gossip is
`RateLimits`' subject.

`IdentityStore` has one action per file-system operation. `Stale` is a lock
file nobody will remove: its process crashed, or failed between creating and
writing it. Temporary files and the DPAPI encryption are left out; their
failure is `IoFails`.

`StorageLimits` computes what `RecordPipeline` leaves open: when a batch fails
and what a maintenance finds. The database's lock is held from the check of a
batch to its commit (`Unlocked`), but the clock goes on, and both read it
(`CheckPasses`, `Insert`). Free space and file size are one flag of the
environment; the clock does not go back; maintenance tasks do not overlap.

A record passes the comparisons of `validate` (`Valid`) before it is queued. Their
subtraction is modelled modulo `2^Width` (`Wrapped`), as in a release build.

`RateLimits` counts tokens in units of 1/`Period`, so that the refill of a tick
is whole; the code keeps the same fraction as a floating-point number. A refused
call refills the bucket and restarts its clock like a granted one (`Take`), the
second bucket of `allow_gossip` is asked only if the first allows, those of
`allow_ingestion_source` in any case. `debt` is a meter that takes in what a
bucket gives and leaks its capacity in a period; `passed` remembers what the
windows let through. Both go on when an LRU map forgets the bucket or window
(`ForgetBuckets`, `ForgetWindow`), and `forgot` and `forgotten` count how often
that happened: each time gives the caller a full bucket or an empty window, which
is the price of the map's limit. The kinds of traffic share no bucket, nor do
the peers that ask for synchronisation, so a behaviour has one of them
(`traffic`).

`ExternalAddresses` keeps the three structures the code keeps: candidates with
their observers, promoted addresses with their age, and the Swarm's set of
external addresses. libp2p changes that set by itself too: `confirmed` is what it
put there (an address AutoNAT's server dialed, a relay's reservation), and
`ExternalAddrExpired` takes a circuit away. `ExpireExternal` is a tick and the
sweep that follows it. Identify sends peers this set together with the addresses
the node listens on, private ones among them (`behaviour.rs:109`); the module says
nothing of those.

`Interface` takes `ProtonetApp::update` apart where other threads can step in
between: reading events, taking a scan's result, publishing, the click of the
header, the tab, counting rows and reading their page, the dialog. Each of its
reads of the database may fail, which the code takes for none: a count of zero, a
page without some or all of its rows, a file that is not flagged, a removal that
found nothing. `untold`, `gone` and `unread` are history: whether a change of mode
was never announced, what the user removed, and whether rows of the page could
not be read. Anything may be stored or expire at any time; how it gets there is
`RecordPipeline`'s.

`ReplayWindow` has what lies between check and commit (the subject of
`RecordPipeline`) as one step, and longer sequences in return. `Restart` reads
any of the three things a start-up reads, as `StartSwarm` does.

## 3. Runs

Every `cfg` names its bounds. `Upsets` selects the disturbances of a run, so
that each run can afford those its question needs; a proof covers all of them.
A `CHECK_DEADLOCK FALSE` stands where the system may come to rest: nothing more
to dial, every message used up.

| run | instance | shows |
|---|---|---|
| `pipeline_batch` | one gossip message, responses of two records, three records of which two share a key, a queue of one, batches of two, failed batches, safety mode, maintenance, expiry, removal, crash, **start-up reads that fail, one or all** | `DiskInv` (the inductive invariant of the proofs); `SeenIsBacked`: no id is known for nothing; `TablesAgree` |
| `pipeline_live` | two identities, two messages, one flagged file, **one place in every channel**, refused and invalid messages, reset, shutdown, crash, eviction; a start-up may fail to read all but the stored ids | `VouchedIsDurable`; `StoredIsKnown`: a commit that races a start-up is not forgotten; `PendingInFlight`: a message without verdict is in exactly one place; `VerdictIsFinal`; `PublishedAsSelf`: nothing is published under another identity; `LedgerSpec`: the pipeline implements `VouchLedger`; `MessageAnswered`, `FlagAnswered` |
| `pipeline_swallowed` | two files, reset, crash | *violated*: `FlagNotSwallowed` (finding 1) |
| `node_parts`, windows | one origin, window of one, sequences up to three, eviction, expiry, restart | windows sound (`WindowIsSound`), never ahead of the disk (`MemoryBehindDisk`), no step makes new what a window judged too old (`JudgementStands`), unless it is a restart that knows less: rows at the top of the window were removed, or a read failed |
| `node_parts`, limits | two peers on one host, periods of two ticks, capacities 0 to 2, two responses in preparation, one eviction while it matters | `BucketIsMeter`: a bucket gives what a leaky meter has room for, no less, and one capacity more for each eviction while the meter runs; `WindowBound`: at most twice the limit in any period, and once more for each eviction in it |
| `node_parts`, addresses | three observers and an address of each kind, in a test network and outside | `ExternalIsBacked`: the Swarm's external addresses are those libp2p confirmed by itself and those the table has, public and no older than the time to live |
| `node_parts`, identity | three processes, one call each (create or reset), crash, error, time-out | `StoreTypeOK`, `OneIdentity`, `ResetIsNew`, `CallEnds` |
| `connections_nodes` | three nodes, two connections, direct or relayed on one prefix, limits of one, up to two dials each way, breaks, blocks, denials | `TableInv`: the limits hold in every table; `NoGhost`: no count above the live counted connections; `DeniedIsPending`; `StaysLinked`: the tie-break leaves a pair one of its connections, unless the larger identity dialed them all |
| `connections_untracked` | two nodes, one dial each way, no disturbance | *violated*: `LiveIsTracked` (finding 2) |
| `session_peers` | two peers, one session at a time, two buckets, two outstanding, late answers, time-outs, disconnections, oversized answers | `SessionInv`: sessions and listings within their limits; `SessionAdvances`: an open session waits for something that comes; `PendingIsOwed`: `pending_sync` does not leak; `SessionEnds` without the time-out |
| `sync_days` | four days, inventories of three, a day of two pages, pages of three and requests of two, two outstanding, queue of two, two tokens, two origins and a window of two, two mishaps of any kind | `SessionIsComplete`: a session without loss skips no page; `Converges`: while sessions end, the node gets all that an inventory offers and a request can name, but for records that left the sequence window; `ExchangeInv` |
| `sync_busy_day` | a page larger than what `records_by_ids` takes | *violated*: `BringsEverything` (finding 3) |
| `storage_limits` | three records, two days, limits of two, batches of two, queue of one, one failing call, a disk that fills and empties | `WithinCapacity`: no limit is exceeded, whatever lies between check and commit; `LifeBounded`: nothing stored outlives the longest lifetime; `SafetyLifts` |
| `storage_lifetimes` | times of four bits, one record from the first to the last of them | *violated*: `LifeBounded` (finding 4) |
| `interface` | one file, pages of one row, two rows, three clicks, one place in each channel | `ScannerInv`: no scan is judged that was cancelled, none behind an alert; `ToldInStep`: the log's last word on the safety mode is the actor's; `RemovedIsGone`: the page drawn has nothing the user removed; `EmptyMeansClean`: it is empty only of an empty database, of one that lost rows since they were counted, or for want of reading them; `ScanEnds` |

**Why the bounds are enough.** The pipeline's interesting cases are collisions:
two records under one key, a full channel, a batch with a duplicate in it, a
reset while a record is in each of the stages. One place per channel makes
every channel full in some behaviour; two identities and two messages put an
old identity's record and message in every stage while the new actor starts.
The window is a matter of distances, and three sequences reach below, inside
and above a window of one, also after a restart. Two connections meet the tie-break
in both orders at both ends, three nodes fill a limit of one. Two peers compete
for one place of a session; two buckets and two outstanding requests fill the
session. A day of four ids needs a second page, which finds room in some behaviours
and has its bucket put back in others; a third day needs a bucket to wait, and a
fourth is cut off by the inventory. Pages are longer than a request for records,
as in the code (2000 against 256), so the last id of a full page is never asked
for (finding 3, `Beyond`). Two tokens and a queue of two each stop a response in its
middle, and a window of two makes records too old when later ones of their origin
come first. Three processes are a creator, one that
waits for the lock and one that resets. Two peers of one host meet in the
buckets of their source; with capacities of nought, one and two each of a pair of
buckets refuses alone, and a period of two ticks has a refill that is a part of
one. One eviction in a period (`MaxForgets`) reaches the bound of both properties,
and the theorems have any number. The public address of `node_parts` is no circuit;
a promoted circuit that its relay withdraws is left to the theorem. Three observers are as many as a promotion needs, so a fourth adds nothing
but a second promotion, which AutoNAT makes too. In `storage_limits` a batch of
two meets room for two, one and none, on both sides of midnight. One file and two
rows are two records of the same content and two pages of one row; three clicks
are enough to start a scan, replace it and cancel, or to turn to a page, remove
and turn back. Every channel there has one place, so each event and command is
lost in some behaviour.

`NodeParts` puts four modules into one run. They share no variable, so their
joint behaviours are the interleavings of theirs, and a property of one part
holds of the whole if it holds where only that part steps. `part` picks it.

**Fairness.** *RecordPipeline*: a ready branch of the `select!` loop is taken in
the end (tokio polls the branches in random order), the signer task and the
writer thread run, and `run_engine` goes on after a reset; nothing is assumed
of starts, commands, messages, maintenance. *SyncSession*: libp2p reports on
requests (its request_response behaviour ends each in a response, a failure or
its own time-out), blocking tasks end, a connection being closed closes; no
session need start or be timed out. *SyncConvergence*: the tick starts
sessions, the oldest request is answered or fails in the end (libp2p, as above;
nothing is assumed of the order of the others), the writer runs, buckets refill
with time, and the hourly maintenance finds the storage safe when it is
(`TurnSafe`); all that goes wrong is free within `MaxErrors`. *IdentityStore*: a call goes on, and
one that waits for the lock gets it if it is free again and again; time-outs,
errors and crashes are never forced. `CallEnds` excepts a lock file that was
left behind, where only the ten seconds of the time-out help. *StorageLimits*:
time passes, the threads run and the hourly interval fires; records, removals
and the state of the disk are free. *Interface*: `update` asks for a repaint, so
frames follow each other (weak fairness of `Frame`; the file chooser, which
blocks a frame, is closed in the end); the loop over the events ends, as they
come slower than they are read (strong fairness of `EventsRead`); a hasher
thread reads its file to the end. Clicks, records and events are free.

## 4. Findings

1. **A failed reset reuses sequences** (`swarm.rs:70`, run `pipeline_swallowed`).
   The counters are deleted before the key is replaced. If the reset fails or
   the process ends in between, the old identity counts from 1 again and its
   next record is silently dropped as a duplicate: it is neither stored nor
   published, and nobody is told.
2. **A live peer leaves the table** (`swarm.rs:671`, run `connections_untracked`).
   A duplicate that was closed without being counted still decrements the count
   when it closes, and the peer vanishes with its preferred connection open. It
   returns with its next connection.
3. **A busy day never arrives** (`database.rs:401`, run `sync_busy_day`). A page
   of more than 256 ids cannot be looked up locally; all of it counts as
   missing and its first 256 are fetched again in every session. Nothing else
   goes wrong in that run (`MaxErrors` is 0).

4. **A lifetime that wraps** (`record.rs:235`, run `storage_lifetimes`).
   `validate` subtracts two times of a record that need only be in order. If
   they are further apart than 64 bits reach, a release build wraps to a negative
   lifetime, below any limit, and the record stays for good; a debug build
   panics. A `checked_sub`, or comparing with `created.saturating_add(max)`,
   restores `LifeBounded`, as the theorem `Lifetimes` says.

Limits rather than faults, as nothing in the repository says otherwise:

* `configure_bootstrap` and mDNS dial several addresses of a peer at once
  (`swarm.rs:244`, `781`). Two connections of the larger identity that come up in
  opposite order at the two ends are both closed, as each end closes its second;
  `StaysLinked` excepts a pair all of whose connections the larger identity dialed.
* A day of more than one page, whose first page is longer than 256 ids, has its
  first page fetched anew each time it is listed. When the next page then finds
  two requests outstanding (`MAX_PENDING_SYNC_REQUESTS_PER_PEER`), the bucket is put
  back and listed from its start (`swarm.rs:1243`), and an order of answers exists
  that repeats this until the session times out. `Converges` is therefore conditional
  on sessions that end.
* Of an origin with more records than its sequence window reaches (1024), which
  arrive in the order of their hashes, older ones can be too old for good once
  newer ones were accepted. `Converges` excepts them.
* An inventory has the oldest 366 days (`database.rs:327`). Records live 31 days at
  most, so the cut is reached only by records whose lifetime wraps (finding 4).
* The limiter forgets peers beyond its LRU capacity, and a peer that comes back
  finds full buckets (`rate_limit.rs:85`); the bounds count these evictions.
* A restart builds the windows from the rows. One that was evicted and began anew
  from an older record comes back higher, and turns away what was new; one whose
  top rows were removed comes back lower, and admits what was too old.
* A count that fails, a page that fails and a row that cannot be decoded show the
  user "Your database is clean" over a database that is not
  (`database.rs:66`, `73`, `257`; `manage_signatures.rs:112`).
* The interface logs a file as "broadcasted" when its command was queued
  (`scanner_panel.rs:263`); the actor may still refuse it, and says so with a
  violation of its own. A reset whose command finds the channel full is dropped
  without a word (`app.rs:393`).
* The mode a swarm starts in is read from the database and announced by nobody
  (`swarm.rs:159`): the log shows it only with the next change.
* After its window was evicted an origin gets a new one from the next accepted
  record, however old, and `persistent_highest` is no longer consulted
  (`replay.rs:101`); what was too old before the eviction can be new again.
  `JudgementStands` speaks of windows that exist for this reason. The unique key of the
  database still keeps such a record from a second row.

## 5. Proofs

All leaves are checked by `tlapm`. Assumptions are those the modules state
(`ReplayAssumption`, `PipelineAssumption`, `WindowAssumption`,
`StorageAssumption`, `RateAssumption`, `AddressAssumption`,
`ConnectionsAssumption`, `StoreAssumption`, `SessionAssumption`,
`ConvergenceAssumption`, `InterfaceAssumption`): distinct null values, capacities
and windows at least 1, finite sets of nodes, connections, buckets and stored
records, sets as declared. Peers, records, identities, capacities and `Upsets`
are arbitrary. Two theorems have a hypothesis beside them, `StoredKnown` and
`Lifetimes`: a node whose read of the stored ids failed knows none of them, and
finding 4 shows a lifetime that wraps.

Every invariant and every action property of the passing runs is proved.

* `ReplayTheorems`: the operators of `Replay` return replay states. The largest
  element of a finite set of sequences is proved to be one, by the
  well-ordering of the naturals.
* `RecordPipeline_proofs`:
  * `TypeCorrect` (`Spec => []TypeOK`), action by action (`TypeStep`).
  * `DiskInvariant` (`Spec => []DiskInv`), and from it `Vouching`
    (`VouchedIsDurable`) and `Remembering` (`SeenIsBacked`). Neither is
    inductive alone: what the actor does on a `Stored` event is right only if
    the event is true of the disk (`OutcomesAreTrue`) and the request holds the
    record of its own message, also when the message belongs to a swarm that is
    gone (`CarriesMessage`); a known id is backed by the filter only if the filter
    names durable keys (`ActiveIsDurable`); and a batch's outcome is true after
    the commit only because the writer decides it from rows that are all
    durable (`IgnoredHasKey`). `DiskStep`, `QueueStep`, `MoveStep`, `EventStep`
    are the frame of the step proofs: what a move of a request through the
    stages leaves alone.
  * `LineInvariant`: queue, batch, replies and events are one line of requests
    (`Line`), and `LineInv` says that no message is in it twice, that a pending
    one is in it and a decided one is not. A step leaves the line as it is, or adds
    requests at its end, takes its head, or drops it all
    (`LineMove`); `LineMoves` shows that each of these keeps `LineInv`, and
    `LineNext` that each action is one of them. From it follow `Waiting`
    (`PendingInFlight`) and `ToldOnce` (`VerdictIsFinal`).
  * `Promise`: `Spec => LedgerSpec`, the refinement of `VouchLedger`, step by step
    (`LedgerStep`). `LineInv` supplies that a verdict closes an open message,
    `DiskInv` that what is vouched for is durable.
  * `OwnName` (`PublishedAsSelf`), an action property without an invariant.
  * `Tables` (`TablesAgree`), by what a batch adds (`NewRowsDiffer`,
    `TablesCommit`): its rows differ in key from the stored ones and among
    themselves.
  * `StoredKnown` (`StoredIsKnown`), under the hypothesis that the stored ids are
    read at each start (`"ids"` in every outcome of `LoadOutcomes`). The code goes
    on without them if that read fails, and then knows none. `KnownInv` is
    stronger in one point: an outcome that failed promises nothing.
* `NodeParts_proofs`, one section for each part:
  * `PartsAreApart`: a behaviour of `NodeParts` is one of each part, so the
    theorems about the parts hold in the node.
  * `WindowInvariant`, and from it `SoundWindows`, `BehindDisk` and the action
    property `JudgementsStand`. The invariant needs `RowsCovered` (the highest
    sequence on disk covers every row), since a restart builds the windows from
    the rows and the highest sequences separately. `NextKeepsJudgement` compares the
    window a restart builds with the one before, from what it has read (`KnowsLess`).
  * `Metering` (`BucketIsMeter`). The invariant adds that a bucket never holds
    more than its capacity. `GivesTick` and `AgreesTick` are the arithmetic: a tick
    either adds what the meter leaks, or finds the bucket full, and a meter that ran
    empty forgives the evictions before; `Taking` covers every handler, whichever
    buckets it asks and which of them refuse, and `Forgetting` the evictions.
  * `WindowsMeet` (`WindowBound`). Windows of a counter do not lie end to end: one
    starts with the first call after the last ran out. `Counted` relates a window
    to the history of its calls: a running window counted what passed since it
    began, and before that, within a period, no more than one earlier window
    could let through, and one for each that was evicted.
  * `Advertising` (`ExternalIsBacked`), by one lemma for each way the table
    changes (`Promoting`, `Clearing`, `Expiring`, `Confirming`) and `AddressFrame` for the rest.
  * `IdentityInvariant`, and from it `StoreTypes` (`StoreTypeOK`), `Agreement`
    (`OneIdentity`) and `Renewal` (`ResetIsNew`). `OneIdentity` needs that what was
    removed stays removed and that a process about to write finds no file
    (`WriterAlone`); `ResetIsNew` that a reset past its removal has removed the
    identity it began with (`ResetRemoves`).
* `Connections_proofs`:
  * `Tables` (`TableIsTrue`), and from it `Limits` (`TableInv`), `NoGhosts`
    (`NoGhost`) and `DeniedEnds` (`DeniedIsPending`). The invariant adds that a
    connection that was never dialed has no stage (`FreshIsNowhere`), so that a
    dial moves no live connection. `OneMoreTracked` is the counting: a table with
    room takes one more peer; a close takes one from the count and at most one
    from the live connections (`Live`).
  * `OnlySecond`: whatever is closed as a duplicate was dialed by the larger
    identity and has a second connection beside it (`DroppedIsSecond`), for any
    number of dials. If one that a pair has was dialed by the smaller identity, it is
    never closed: `Linked` (`StaysLinked`).
* `SyncSession_proofs`: `Limits` (`SessionInv`), `Advances` (`SessionAdvances`) and
  `NoLeak` (`PendingIsOwed`), from one invariant of the four tables, `BookLine`.
  Its main part, `Balanced`, says that whatever a session waits for is a request
  libp2p owes an event for, or a comparison under way, and that no session has more
  listings out than it may. A helper of the model takes books that balance to books
  that balance (`Sent`, `Pumped`, `Begun`, `Dropped`, `FetchedBooks`,
  `NextPageBooks`), and `Moved` turns that into a step. That a session with
  buckets to list gets a request out needs `FreshOnes`: there are always numbers
  left that no request alive bears.
* `SyncConvergence_proofs`: `Exchange` (`ExchangeInv`) and `Complete`
  (`SessionIsComplete`). `NothingSkipped` is the invariant behind the second: as
  long as a session has lost nothing, each record the node lacks is owed by an
  outstanding request (a page to come, a page being compared, a record asked
  for) or lies in a bucket still to be listed; what no request names (`Beyond`) is
  left out of the claim, and nothing is assumed of the size of a page. The lemmas before
  it are about sorted pages: the first records of a day and those behind
  the cursor are all of it (`PageProperties`, `MissingProperties`).
* `Interface_proofs`: four invariants, each of its own part of the state.
  `ScanLine` gives `Scanner` (`ScannerInv`): a scan that was cancelled is not the one
  waited for, and the one waited for has no verdict. `PageLine` gives `Gone`
  (`RemovedIsGone`): what is gone is not in the database, and a page that is drawn
  has been read since the removal. `LogLine` gives `InStep` (`ToldInStep`): reading
  all events that wait would leave the log with the actor's mode (`Word`), unless an
  announcement was lost. `Clean` is `EmptyMeansClean`; its arithmetic is that the last
  page of rows that exist is not empty (`LastPageIsPage`), so that a count that
  failed leads to the first page, and only rows that cannot be read make it empty.
* `StorageLimits_proofs`: `TypeCorrect`, and `Capacity` (`WithinCapacity`). The
  invariant `CapacityInv` says of a batch that was checked that it still fits, on
  the day of its check and on every later one; that needs days that have not
  begun to be empty, and that rows only expire while the batch waits. `InsertFits`
  counts the new rows; every other step is an instance of `CapacityFrame`.
  `Lifetimes` (`LifeBounded`) has the hypothesis `NoWrap`: lifetimes of records
  fit the width of a time. Its invariant follows a record from validation through
  queue and batch to the rows.

Checked by TLC only is liveness: `MessageAnswered`, `FlagAnswered`,
`SessionEnds`, `Converges`, `CallEnds`, `SafetyLifts` and `ScanEnds`. Their proofs
would need ENABLED of the actions under fairness, which is beyond the prover. The
four properties that runs show violated are of course not proved; `LifeBounded`
is, under the hypothesis its run lacks.

## 6. Not modelled

* libp2p's own protocols (gossipsub scoring, Kademlia, relay, AutoNAT's probes,
  mDNS) and the discovery that decides which dials happen: the environment of
  the models.
* Encoding and verification of records beyond their times, digests of files,
  metrics, snapshots and drawing: pure functions, or output nothing depends on.
* The inventory digests: two inventories differ exactly when the sets do.
* Power loss after a commit (SQLite WAL), and the DPAPI encryption of the key.
* The panel that lists peers and bootstrap addresses: its commands are
  disturbances of `Connections` and `SyncSession`.
* The signer's blocking task survives an aborted signer task; it may use up a
  sequence number and no more.

## 7. Plan

Done, in this order: `Replay`, `RecordPipeline` with `VouchLedger` and its type
and disk proofs; `ReplayWindow` and its proofs; `Connections` and its proofs;
`SyncSession` and `SyncConvergence`; `IdentityStore` and its proofs;
`StorageLimits` and its proofs; `RateLimits` and `ExternalAddresses` with their
proofs, and `NodeParts`; `Interface`; the line of requests and the refinement of
`VouchLedger`; the windows of `RateLimits`; the proofs of both synchronisation
modules, of the interface and of the tie-break.

Next:

1. *Prove more.* An abstract specification of a session (records owed, asked for
   and had) that `SyncConvergence` implements; the steps of the liveness
   arguments that are safety, such as that a verdict owed is never further from
   the actor than before.
2. *Model more.* Inventory digests as a function of the records of a day;
   the discovery that causes dials; relay reservations; the time-out of a session
   that goes round (section 4).
