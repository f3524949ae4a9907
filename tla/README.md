# Tulya checkpoint store: TLA+ models, model checking and proofs

The repository is a durable store for agent checkpoints (`src/`) with a library
of versioned byte histories under it (`crates/tulya-core`). This directory holds
TLA+ models of both, of the balanced tree and the v2 format beneath them and of
the LangGraph adapter beside them, the TLC configurations that check them on
small instances, and TLAPS proofs about the two stores, in memory, on disk with
kills, failing calls and power loss, and under concurrent readers, and about the
adapter.

Paths below are relative to the repository. `checkpoint_store/` stands for
`src/checkpoint_store/`, `persistent_history/` and `persistent_sequence/` for
the directories of these names in `crates/tulya-core/src/`.

## 1. The system

### Components

| component | source | state | operations |
|---|---|---|---|
| history store | `persistent_history/mod.rs` | histories, immutable versions with parent and tree root, active and retired request receipts in arrival order, expired set, bindings, content arena | create, splice, append, fork, expire, retire, collect, read |
| durable history authority | `persistent_history/authority.rs`, `durable_log.rs`, `snapshot.rs`, `manifest.rs` | the store, its manifest generation, its physical generation, a poison flag; on disk a manifest, sealed snapshots, hot logs | open (recover, heal), the durable form of each operation, seal, collect, clean up |
| physical content store | `persistent_sequence/physical.rs` | a payload file and a node file per physical generation, committed frontiers | create, heal, append, sync, roll back, next generation |
| history reader | `open_history_authority` in `authority.rs` | the recovered store, open descriptors | open without a lock, read |
| checkpoint store | `checkpoint_store/store.rs`, `state.rs`, `transaction.rs`, `manifest.rs`, `model.rs` | checkpoints in commit order, tombstones, its manifest; on disk a manifest, segments, routes | open, append, bounded append, seal, delete a set or a subtree, new identity, reclaim, read |
| hot write-ahead log | `hot_wal_commit.rs`, `HotWal` and `recycle_hot_file` in `checkpoint_store/mod.rs` | a zero-filled reserve, the committed tail, `recovery_required` | append with one barrier, extend the reserve, recycle |
| sealed reader, reclaim worker | `checkpoint_store/lazy.rs`, `reclaim_worker_poll` in `mod.rs` | a shared lease and a manifest; a manifest and the exclusive gate | open and read; poll |
| segment codec | `checkpoint_store/segment.rs`, `storage_format.rs` | none | encode, decode |
| balanced sequence | `persistent_sequence/avl.rs` | an arena of payload bytes and tree nodes with heights, lengths and commitments | append, splice, read a range, verify a root, compact to roots, export and import an image |
| v2 committed state | `persistent_sequence/apply_v2.rs`, `transaction_v2.rs`, `compaction_v2.rs`, `backend_v2.rs` | an arena, version and checkpoint tables, active and retired requests, tombstones | apply a commit, retire a request, delete a subtree, compact, seal, recover |
| v2 wire | `format_v2.rs`, `publication_v2.rs`, `image_v2.rs`, `snapshot_v2.rs`, `commit_v2.rs`, `hot_frame_v2.rs`, `recovery_v2.rs` | none | encode, decode, scan a log |
| LangGraph adapter | `integrations/langgraph/tulya_shadow.py` | which Tulya checkpoint stands for which primary one, the messages of each, the next number; an asyncio lock and a thread lock | put, asynchronous put, rebuild from the store |
| tools | `src/bin`, `admin.rs`, `fsck.rs` | none | one store call per command, serve, check |

### How they interact

Both stores keep a directory with **one writer**, admitted by a file lock. The
writer holds the state in memory and commits an operation by appending one
record to a hot log and syncing it. A *seal* moves the committed state out of
the hot log into immutable files and renames a new manifest into place: that
rename is the commit of the generation. Then the hot log is replaced (the
history authority starts a new one per generation; the checkpoint store copies
the unsealed suffix into a new file). Readers of histories take no lock.
Readers of checkpoints hold a shared lease, and whoever reclaims old files (the
writer or a background worker) needs the same gate exclusively. A
`CheckpointStore` owns a history authority in the same directory.

The balanced sequence holds the bytes of a version; histories splice it, the v2
format stores it. The v2 format is staged: its functions are complete and tested
and nothing released calls them yet. The adapter writes to its primary saver
first and then runs one `tulya-checkpoint put` process per mirrored checkpoint.

### What is hard

* **Crash cuts.** Every operation is a sequence of durable effects. A stop
  between any two must recover the state before or after the operation.
* **Power loss.** Renames without a directory sync and writes without a file
  sync may be undone, in any combination.
* **Failing calls.** After a failed barrier nobody knows what is durable; the
  handle must poison itself in exactly these cases.
* **Idempotency at its limit.** Receipts are bounded, may be retired, and their
  versions may expire or be compacted.
* **Interleaving.** Readers and the worker read a directory at several moments
  while the writer changes it.
* **Deletion.** Tombstones must bar their keys through compaction and reopen,
  and no survivor may lose its parent.
* **Renumbering.** Compaction moves nodes, bytes, versions and ordinals, and
  everything that names one must move with it.
* **Stale work.** A v2 commit is encoded against one state and applied to
  another; what tells them apart is four lengths.
* **Lost answers.** A mirrored put may be committed by a process nobody listens
  to any more.

`PROJECT.json` lists these hazards with their lines and properties.

## 2. Modules

| module | models |
|---|---|
| `HistoryOps` | the operations of `PersistentHistoryStore` as operators from store to store, and the snapshot gate |
| `HistoryStore` | the store as a state machine, with its properties; the abstract specification of the authority |
| `HistoryOpsProofs` | what each operation of `HistoryOps` keeps |
| `HistoryStoreProofs` | theorems about `HistoryStore`: content, identities, request ledgers, snapshot gate |
| `HistoryRecovery` | what a history directory holds, and recovery as an operator on it |
| `HistoryAuthority` | the writer, cut at every I/O call; implements `HistoryStore` |
| `HistoryAuthorityProofs` | what recovery gives for any directory; theorems about `HistoryAuthority`: kills, failing calls, the refinement, losing power |
| `HistoryReader` | a lock-free reader beside `HistoryAuthority` |
| `HistoryReaderProofs` | theorems about `HistoryReader` |
| `CheckpointOps` | conditions and effects of append and deletion |
| `CheckpointLog` | checkpoints and tombstones with no files; the abstract specification of the store |
| `CheckpointLogProofs` | theorems about `CheckpointLog` |
| `CheckpointFiles` | what a checkpoint directory holds, and recovery as an operator on it |
| `CheckpointStore` | the writer, cut at every I/O call; implements `CheckpointLog` |
| `CheckpointStoreProofs` | theorems about `CheckpointStore`: the refinement, memory against files, what survives |
| `CheckpointSharing` | a sealed reader and the reclaim worker beside `CheckpointStore` |
| `CheckpointSharingProofs` | theorems about `CheckpointSharing` |
| `SequenceArena` | the arena and its functions: records, rebalancing, concatenation, split, splice, reads, verification, import, compaction |
| `PersistentSequence` | an arena in use: splices of retained roots, compactions and damage beneath it, against the plain text of each root |
| `V2State` | the v2 committed state and the functions on it |
| `V2Backend` | a v2 state in use: commits encoded ahead and applied later, retirements, deletions, compactions, seals and crashes |
| `V2Wire` | the words a v2 state, commit and frame are written as, their decoders and the log scanner; extends `V2Backend` |
| `ShadowSaver` | the LangGraph adapter and the processes it runs |
| `ShadowSaverProofs` | theorems about `ShadowSaver` |
| `MC...` | instances for TLC |

`HistoryOps` is used twice by the authority, live and in replay, as the code
applies the same `apply_prepared_*` functions in both.

### State and actions against the code

**`HistoryStore`.** One variable, `store`, with the fields of
`PersistentHistoryStore`. Its actions are `create_history(_with_binding)`,
`splice`, `append`, `fork`, `expire`, `retire_request` and garbage collection. A
rejected call and a replayed request change nothing and are stuttering steps.

**`HistoryAuthority`.** `disk` is the visible directory, `synced` the part known
durable, `pc` the place in the code; `mem`, `gen`, `pgen`, `poisoned` are the
writer; `job` holds the locals of the call. A splice is
`BeginSplice, AppendPayload, AppendNodes, SyncContent, AppendFrame, SyncFrame`;
a seal or a collection is `BeginSeal, (BuildGc,) PublishSnapshot, PublishHot,
RenameManifest, SyncManifest, Recycle`. Each has a `...Fails` action with what
the error path does: rolls back, gives an identity back, poisons.

**`HistoryReader`.** `ReadManifest`, `ReadSnapshot` and `ReadHotLog` are the
three moments at which `open_history_authority` looks at the directory.

**`CheckpointStore`.** `dir` and `safe` are the directory and its durable part,
`gate` the reader/reclaim lock, `mem`, `man`, `tail`, `poisoned` the handle. An
append is `BeginAppend, WriteRecord, SyncRecord`. A seal or a deletion is
`BeginSeal | BeginPruneSet | BeginPruneSubtree`, then `Stage...` and
`Publish...` of segment and route, `StageManifest, RenameManifest,
SyncManifest`, and then `Recycle, RecycleSync` (seal) or the reclaim actions
(deletion). `BeginBoundedAppend` seals first and goes on to its own record. An
open is `OpenLoad .. OpenReplay`, with `OpenRecycle` when the log still begins
with what the manifest covers.

**`CheckpointSharing`.** The reader takes the lease, reads the manifest, opens
segments, looks at the log. The worker loads a manifest, tries the gate, deletes
what that manifest does not refer to.

**`PersistentSequence`.** `arena` is the payload and the node table, `kept` the
roots a caller retains with the text each must spell. `Create`, `AppendRoot` and
`EditRoot` are `append` and `splice` with every offset and length; a refused
splice leaves the arena as it was. `Compact` is `compact_to_roots` of any subset.
`Damage` changes a byte or the child of a branch record in place.

**`V2Backend`.** `st` is `V2CommittedState`, `sealed` and `hot` the durable base
and log. `EncodeNew`, `EncodeChild` and `EncodeFork` make a commit against the
state of the moment and put it into `prep`; `Apply` takes one out, at any later
time, and appends its frame; `Retire`, `Delete`, `Compact`, `Seal` and
`SealCompacted` are the functions of these names. `CrashWriting` stops the
process in the middle of a frame. Since nothing released drives these functions,
the model assumes the one thing a driver cannot do without: a change that the
log does not carry is sealed before the next frame.

**`V2Wire`.** Adds no state. `Artifact` and `Log` are what `sealed` and `hot` are
on disk, and `RecoverBackend` reads them back. The checks of
`validate_transaction` that a decoder repeats are made once, by `ApplyCommit`.

**`ShadowSaver`.** `saved` is the primary, `tulya` the store, `index`, `known`
and `nextNo` the adapter's dictionaries and counter. An asynchronous put is
`Aput` (primary, then the queue of the lock), `Begin` (walk to the parent, decide,
start the process), `Runs` (the process commits or is refused) and `End`.
`Loses`, `Cancel`, `CancelWaiting`, `OrphanRuns`, `Restart` and `Prune` are what
goes wrong around it: a put is cancelled while it waits for the lock or while its
process runs, and any number of processes may outlive their puts and meet each
other in the store. A synchronous put is one step, also in the middle of an
asynchronous one (the thread lock is re-entrant), and may lose its answer too.
What only the bound of events limits is how many of these happen in one
behaviour, two in the run; the proofs have no such limit.

### Abstractions

* In the history modules a balanced tree is the byte sequence it spells and the
  arena maps roots to sequences; `PersistentSequence` checks that it does. A
  digest or checksum is what it is computed from.
* On the wire a field is one word, or two where a torn write shows (magic, commit
  length, commit digest); lengths count words. Schemas, flags, record widths and
  the overflow checks of lengths are left out, the reserved version id is not.
* A v2 checkpoint's number is not modelled. The operation digest hashes it
  (`commit_v2.rs`), so a retry with another number is a conflict in the code; the
  model's callers retry with the same one.
* A v2 text grows by appends, so that one version extends another; `splice` is
  checked by itself in `PersistentSequence`.
* In the checkpoint store the five watermarks of a geometry move together and
  the checkpoint count stands for them. Lengths are counted in transactions. A
  key is a (thread, checkpoint id) pair; all keys share one thread, since a
  parent is in the thread of its child. Bytes, nodes and versions of a
  checkpoint are one value.
* A file is its records and whether a torn record follows. A write that is cut
  leaves a prefix. Old bytes after the tail never parse as a record.
* A file sync is taken to persist the name of a newly created file; a rename or
  removal is durable once the directory is synced. `docs/RECOVERY.md` claims
  process exits only and disclaims power loss; the runs with one show how far the
  code gets anyway.
* The writer recovers eagerly. A bounded append refused after its seal is the
  seal alone, and one below the limit is a plain append.
* The request identities of the checkpoint log are written by test code only
  and are left out.
* `gc_quiescent` asks its caller to keep readers away; the model takes that as
  given.

## 3. Runs

Only `shadow_mirror` assumes fairness, for `EveryPutEnds`: weak fairness of
`Begin`, `Runs` and `End`. An asyncio lock wakes its waiters in order, the event
loop goes on running tasks, and a started process ends; losses, cancellations
and restarts are never required to happen. All other properties are safety
properties.

### Runs that pass

| run | instance | shows |
|---|---|---|
| `store_ledger` | 3 requests, horizon 2, 4 versions | exactly-once within the horizon, receipts that tell the truth, nothing retired or expired comes back, a snapshot gate that never refuses its own store |
| `store_content` | 2 letters, 2 histories, 1 binding, 3 versions of length up to 2 | retained versions read as committed through any edits, forks, expiries and collections; bindings and lineage stay unique and immutable |
| `authority_stops` | 2 versions, 2 generations, 1 stop (kill or power loss), or 1 failing call and then a kill, or a kill that leaves the first seal pending and then a power loss | each cut recovers the old or the new store, acknowledged commits survive, the directory opens again after a kill, memory and files agree, committed bytes are never touched, a generation the device may fall back to is complete |
| `reader_sealed` | 1 reader, 1 crash, 2 versions, 2 generations | a reader invents nothing and, past the first seal, misses nothing |
| `checkpoint_stops` | 3 keys, 3 generations, 2 identities; 2 process crashes and 1 failing call, or 1 power loss | each cut recovers the checkpoints before or after the call; acknowledged checkpoints and deletions survive; a handle that stays usable agrees with its directory |
| `sharing_lease` | 2 keys, 2 generations, reader and worker | a leased reader keeps its files and sees nothing deleted before it began |
| `sequence_tree` | leaves of 2 bytes, inserts of 0, 1 and 6 bytes, texts up to 8, 3 splices or 2 and one damage | every root reads as its edited text, on damaged storage or refuses; rotations always suffice; every arena imports from its image |
| `v2_commit` | 3 names, 1 request, 2 one-leaf texts, 3 commits of which 2 encoded ahead, 1 deletion or retirement, 1 crash | a commit that outlived its state is refused or still means the same; base and log recover the memory; requests, tombstones and ancestry survive deletion, compaction and sealing; every state seals |
| `v2_wire` | 3 names, 1 request, texts of one leaf and more where one extends another, 3 commits, 1 deletion or retirement, reserved version id 2 | what is written is what is read, and no version takes the reserved id; a frame cut at any word into reserve of several lengths is skipped; no word of an artifact changes unnoticed |
| `shadow_mirror` | 3 checkpoints, values absent, A or AB, 2 events (loss, cancellation, restart, prune, repeat) | mirrored checkpoints read as the primary was given them and hang in their own branch; a reported success is in the store; the index names what is stored; every asynchronous put ends |

Two refinements are among them: `ImplementsStore` (`HistoryAuthority`
implements `HistoryStore`) and `ImplementsLog` (`CheckpointStore` implements
`CheckpointLog`). Both map the directory to the state a recovery of it would
give, so they say at once that each operation takes effect in one step, that
every crash cut is the old or the new state, and that seals, collections,
recycling, reclaiming and failures are invisible. A power loss is the one step
that need not be a step of the abstract specification: what it may take is what
`AckedSurvives` says.

`checkpoint_stops` also checks for deadlock: a writer can always go on, close or
open. The others switch it off, because a bounded counter or a directory that
cannot be opened ends their behaviours.

### Why these bounds

The second generation is the first that supersedes one; the third is the first
built on a recycled log. Two versions, or two checkpoints, make a parent and a
child and leave a suffix behind a partial seal; a third makes a subtree of depth
two and a suffix behind a suffix. Three requests on a horizon of two is the
least that evicts while something is left, and four versions let an evicted
request commit again. Two process crashes reach a crash during the
recovery from a crash, and a crash with a failing call a failure during it. A
power loss is the only failure of its behaviour, with one exception: in
`authority_stops` it also undoes a first seal that a killed writer left without
its directory sync, after the next writer has committed under it. That is how a
next-generation log with frames comes about, which the next seal must refuse to
overwrite (`PublishHotRefused`). In `checkpoint_stops` and
`sharing_lease` the reserve (`MinReserve = 3`) is never filled exactly by a suffix;
`checkpoint_exact` is the case where it is.

In `sequence_tree` an insert of six bytes is three leaves, so a tree reaches
height three and a splice in its middle needs double rotations. In `v2_commit` two
texts of one leaf each leave tables of the same geometry, which is what lets a
stale commit pass the comparison of lengths, and three versions are the least with
a parent that compaction moves across a hole; none of them reaches the reserved id
there (3, and ids on the wire start at 0). In `v2_wire` the reserved id is 2, so
that the third version would take it and its commit is refused; three names let
two deleted identities have an order, and a text that extends another has a
branch record. The order of two request ids in a ledger is beyond these bounds.
Three checkpoints make two branches in `shadow_mirror`, and two events a loss
followed by a restart. Keys, requests, names, letters and bytes are
interchangeable where they are model values, and symmetry is used with safety
properties only.

### Runs that refute a statement of the repository

| run | statement | what the code does |
|---|---|---|
| `checkpoint_exact` | "copy the remaining WAL suffix into a replacement reserve, sync it, rename it" (`docs/RECOVERY.md`) | a suffix that fills the reserve exactly is not synced, since the sync is part of the zero-fill; a power loss takes acknowledged checkpoints |
| `sharing_worker` | "It only retries the already-authoritative manifest's deferred generation cleanup" (`mod.rs`) | the worker reads its manifest before it has the gate, and deletes files that a seal publishes in between |

`sharing_worker` is the most serious one: with no crash and no failing call,
sealed checkpoints are gone and the directory no longer opens.

### What the properties leave out, and why

* `AckedSurvives` of `HistoryAuthority` speaks up to the second stop. When a
  process dies between the rename of a manifest and its directory sync, a reopen
  adopts the manifest without syncing the directory: the history authority commits into the new
  generation, the checkpoint store recycles its log. A power loss may then undo
  the rename under them. Likewise a reopened history authority answers a retry
  from a replayed frame that nobody synced. `docs/RECOVERY.md` claims process
  exits only.
* Completeness of a history reader is claimed once a generation is sealed. One
  that looks for the manifest before the first seal and for the genesis log after
  its recycling takes both absences for a fresh store; a checkpoint reader at
  generation zero returns before it looks at the log.
* `FallbackComplete` speaks up to the first stop or failing call: a reopen seals
  over files that the writer before it left unsynced.
* `ReadsExact` exempts a root that was built over a damaged branch record, and
  `TornTailSkipped` says that a cut inside the magic may fail closed (section 5).

## 4. Proofs

All theorems hold for every value of the constants that satisfies the named
assumptions; `tlapm` checks every leaf. Each inductive invariant was first
checked by TLC on the instance of its run.

### The history store

`StoreAssumption`: positive receipt capacity, natural bounds, and `None` apart
from requests, bindings and integers.

**`HistoryOpsProofs`** has one lemma per operation of `HistoryOps`: it keeps a
store `Sound` and forgets nothing promised. `Sound` is the type, dense version
identities, disjoint ledgers, and trees that spell what was promised. `TypeOK` and
`RetainedReadsTrue` alone are not inductive: that a retained version reads true
after a collection needs the root of *every* version, also an expired one, to
lead to the promised bytes, and that a splice puts its version at a fresh place
needs identities to be dense.

**`HistoryStoreProofs`** lifts this to `HistoryStore`:

* `InvariantHolds`, `TypeCorrect`, `ReadsTrue`: always `StoreInvariant`,
  `TypeOK`, `RetainedReadsTrue`;
* `Immutable`: no step changes a committed version (`VersionsImmutable`);
* `NoResurrection`: nothing expired, collected or retired comes back
  (`NothingResurrects`).

Its second half proves the three properties of the request ledgers:

* `SnapshotAccepted`: every reachable store passes its own snapshot gate
  (`SnapshotNeverRefused`);
* `ReceiptsTruthful`: an active receipt names the version of its own operation
  (`ReceiptsTellTheTruth`);
* `ExactlyOnce`: a request identity commits twice only past the receipt horizon
  (`ExactlyOnceInHorizon`).

The invariant, `LedgerTrue`, adds to `Sound` that the eviction order lists the
two ledgers once each and no more than the horizon, that lineage stays inside its
history, and `HorizonExact`: a remembered request stands as far from the end of
the eviction order as requests committed after it. The last one ties the two
counts `ExactlyOnceInHorizon` compares; without it a full ledger says nothing
about how many commits filled it.

### The durable authority

These theorems have the hypothesis `NoneIsNoFunction`: `None`, the answer of a
failed recovery, is not a function, so not a store. It is a hypothesis of the
theorems, not an `ASSUME`: TLC takes `None` for a model value, which differs from
every function, but cannot evaluate the formula that says so.

The first part of **`HistoryAuthorityProofs`** is about recovery as an operator,
for any directory.
Replay is a recursive function on the frames (`ReplayStates`); what it gives is
proved by induction over the naturals on a set (`SetInduction`, from the least
element of the complement). `AuthoritativeSame`: two directories with the same
seal and frames, whose content agrees below the arena of the recovered store,
recover the same store. `AuthoritativeAppend` and `AuthoritativeSealed`: what one
more frame and a new seal recover. They rest on `Whole`, what a store needs for
recovery to go on from it, which every accepted frame keeps, also in a directory
a power loss left behind.

Its second part proves `AuthorityInvariant`: for each step of the
writer, how its memory, its job and its files stand to the store a recovery would
give (`MemoryFollows`, `JobFits`, `DeltaWritten`, `PublicationFits`, `BytesHeld`),
and up to the first power loss that this store is there, sound, with whole
payloads and everything acknowledged (`BeforeOutage`). One lemma per action shows
that it is kept, and that the recovered store stays or takes one operation of the
store (`StoreStep`). From it:

* `AuthorityInvariantHolds`: always `AuthorityInvariant`;
* `MemoryTrue`: always `MemoryIsAuthority`, after a power loss as well;
* `Reopenable`: always `StaysOpenable`;
* `BytesStable`: `CommittedBytesStable` until power is lost;
* `AckedSurvivesKills`: until power is lost, whatever was acknowledged is
  recovered, after any number of kills and failing calls. `AckedSurvives` itself
  stops at the second;
* `DirectoryImplementsStore`: `ImplementsStore`, the refinement of `HistoryStore`.

Its last part is about losing power. `Previous` is the directory without
the effect that is not synced yet: the last frame, or the rename of the manifest.
`DurableState` says of both directories that the snapshot, the log and the content
they recover from are durable as far as the recovered store reaches, and of an
operation in flight that what is to become authoritative is synced before
(`NextDurable`). It is kept for a writer that was not disturbed before, which is
where the properties are claimed. A power loss then leaves one of the two
directories, up to content above the recovered store (`PowerLossDurable`). From it:

* `DurableInvariantHolds`: always `DurableInvariant`;
* `AckedSurvivesPowerLoss`: always `AckedSurvives`, for every way of losing power;
* `FallbackIsComplete`: always `FallbackComplete`.

### The reader beside the authority

**`HistoryReaderProofs`** adds a reader to `AuthorityInvariant`. The reader binds
to one generation and the writer moves on, so `ReaderInvariant` speaks of the
directory as that reader sees it (`At(d, g)`, the directory with manifest `g`):

* `ReaderBound`: its generation is sealed over the content files in use;
* `GenerationReadable`: as long as the log of that generation is there, it still
  stands for a store, inside the current one and with all that was acknowledged
  before the reader began;
* `BaseCurrent`, `ReaderOpen`: what the reader has taken so far is what that
  directory gives, and the content files still hold its bytes.

The writer is summed up once, in `Beside`: what any of its steps may do to the
directory that matters to a reader of an older generation. One lemma per action
shows `Beside`, one lemma shows that `Beside` keeps the reader's invariant, and the
reader's own three looks are a lemma each. From it, until power is lost:

* `ReaderInvariantHolds`: always `ReaderInvariant`;
* `NothingInvented`: `ReaderNeverInvents`;
* `SealedComplete`: `SealedReaderComplete`. Generation zero is left out because its
  log may be recycled under the reader, which then opens the empty store
  (`NewStoreInside`): nothing invented, much missing;
* `ReaderBytesKept`: `ReaderBytesStable`.

The model keeps a reader across a power loss, which no process survives; the
condition only takes that case out.

So every safety property of `store_content`, `store_ledger`, `authority_stops` and
`reader_sealed` is a theorem, `CommittedBytesStable` and the reader's up to a power
loss.

### The checkpoint log

**`CheckpointLogProofs`** proves for all sets of keys and values
(`CheckpointAssumption`: `None` is no key)

* `LineageStaysWhole`: always `LineageWhole`. The inductive invariant is
  `TypeOK /\ LineageWhole`; the lemma behind it is that the descendants of a
  checkpoint are closed under children, so deleting them leaves no orphan;
* `CheckpointsKept`: every step satisfies `NothingRewritten`. That a deleted key
  stays out of the new state uses the invariant in the old one.

### The checkpoint store

**`CheckpointStoreProofs`** carries both statements over to the store with files.
Its hypothesis `NoneIsNoFunction` is the one of the authority.

`Stands(m, hot, t, b)` says that manifest `m` and a log beginning after `b`
checkpoints stand for state `t`: the segments are `t` up to the count of `m`, the
log spells `t` from `b` on, `b` is the count of `m` or where its last segment
starts, and every checkpoint behind the manifest could be appended to the ones
before it. From it follows what a reopen gives (`StandsRecovered`), with the
overlap of an interrupted seal dropped and nothing else. `StoreInvariant` then is

* `DirectoryTrue`: the directory stands for the recovered state at every cut;
* `WriterTrue`: how manifest, memory, tail and job of the writer stand to it at
  each step. `MemoryIsAuthority` alone is not inductive: that a handle agrees with
  its directory when a call ends needs the job to name, from its first step on, a
  manifest that together with the *old* log stands for the state the call ends in
  (`JobTrue`), and files that cannot be mistaken for those of the old manifest
  (`NewFiles`);
* `DeviceTrue`, as long as nothing failed: the manifest, files and log a power loss
  may fall back to stand for the same state or the one before the call.

From it:

* `StoreInvariantHolds`: always `StoreInvariant`;
* `MemoryTrue`: always `MemoryIsAuthority`;
* `DirectoryImplementsLog`: `ImplementsLog`, the refinement of `CheckpointLog`, so
  that `LineageStaysWhole` and `CheckpointsKept` hold of what the store recovers;
* `AckedSurvivesStops`: always `AckedSurvives`, after any number of kills and
  failing calls, and after a power loss under `LogReserved`: no recycled log fills
  its reserve exactly. The condition is the one `checkpoint_exact` shows to be
  needed. The proof adds to the invariant that the states an unfinished call may
  end in hold what was acknowledged (`AckedTrue`) and that all records but the one
  being written are on the device (`RecordsSynced`).

### The checkpoint store beside a reader and the worker

`StoreInvariant` does not hold in `CheckpointSharing`: the worker may delete a
segment the manifest refers to (`sharing_worker` shows it), and then the directory
recovers to nothing. What a leased reader is promised holds all the same.
**`CheckpointSharingProofs`** keeps of the store's invariant what does not need the
files, and adds the reader:

* `SharedDirectory`: manifest and log stand for a state none of whose checkpoints
  is deleted, whether its segments are there or not;
* `SharedWriter`: the writer's memory and job stand to them at each step. A reader
  that loads a manifest right after its rename sees what the job prepared, so the
  job's state must be free of deleted checkpoints from its first step on, and its
  manifest must have every tombstone of the one before (`Generation`);
* `SharedAcks`: an acknowledged deletion is in the manifest;
* `Gates`: the gate is with the writer, the worker or the readers, each exactly in
  the steps in which it holds it;
* `SharedReader`: a reader's manifest is no newer than the directory's, its files
  are there, and it has every deletion acknowledged before the lease.

The writer is summed up in `Forward`: generation and tombstones only grow, and
outside the gate it only adds files of a generation to come, which no manifest a
reader holds refers to. From it, with `NoneIsNoFunction` and for any number of kills
and failing calls:

* `SharingInvariantHolds`: always `SharingInvariant`;
* `LeaseKeepsFiles`: always `LeasedFilesStay`;
* `DeletedHidden`: always `DeletedStaysHidden`.

Power loss is left out (`"power" \notin CrashKinds`): no reader outlives one.

### The adapter

**`ShadowSaverProofs`** proves the four safety properties of `shadow_mirror`, for
any number of checkpoints and events and any values. `ShadowAssumption` is all it
needs: `None` is no checkpoint, and a value is `None` or a sequence of messages.
`ShadowInvariant` has these parts:

* `PrimaryTrue`: a parent was saved before its child, so lineages end;
* `StoreTrue`: a stored checkpoint has the value of the primary, and its parent is
  above it;
* `IndexTrue`: an entry leads to a checkpoint that is stored, remembered with its
  true value, and on the lineage of the one that has the entry. That it is stored
  is what `IndexIsTrue` says; that it is on the lineage is what `LineageKept` needs
  when a later put finds its parent through an entry left by an earlier walk;
* `ProcessTrue`, of the process that is awaited and of the one nobody awaits any
  more: it appends to a stored parent exactly what makes its value. Without it
  nothing could be said of a commit that comes after the adapter has restarted;
* `QueueTrue`, `GoodTrue`: waiting puts are in the primary; what was reported good
  can be read back.

The walk of `_resolve_parent_tulya` and the lineage are recursive functions. What
is used of them is proved for every primary: that they are defined
(`CollectionExists`, from the least sets closed under parents), that a walk stays
on the lineage of where it began and that the entry it ends at is reached from
every checkpoint it passed (`ReachedFacts`), and facts about lineages by least counterexample
(`LineageInduction`). From the invariant:

* `ShadowInvariantHolds`: always `ShadowInvariant`;
* `Mirrored`: always `MirrorsPrimary`;
* `BranchKept`: always `LineageKept`;
* `SuccessDurable`: always `SuccessIsDurable`;
* `IndexRight`: always `IndexIsTrue`.

### Only model-checked

The tree (`PersistentSequence`), the v2 format (`V2Backend`, `V2Wire`) and the
liveness of the adapter (`EveryPutEnds`). Out of the prover's reach: liveness under
fairness, `ENABLED`, and what recursive definitions over data compute for every
input, which the tree and the v2 format are made of.

## 5. Known behaviours, and what is not modelled

Behaviours met while modelling that no run refutes a statement with:

* **A first open that is cut short.** `WritableHistoryAuthority::open` creates
  two content files and their headers one at a time, before there is a manifest
  or a log. A process that dies in between leaves a directory no later open
  accepts (`create_new` in `physical.rs`, "a crashed earlier build is recreated
  explicitly"). `StaysOpenable` starts at the first hot log.
* **A reader during a partial seal.** Between the manifest of a partial seal and
  the recycling of the log, `lazy.rs` parses the log from the new watermark, takes
  it for empty and opens without its suffix. `CheckpointStore::open` knows that
  overlap; the reader does not.
* **A damaged branch record below a new root.** `branch_children_on` loads a
  branch without `validate_node_on`, so concatenation and rebalancing hash a
  damaged record's children into a new record that verifies. The comment above
  `validate_node_on` has every read funnel through it. Roots built before the
  damage still refuse.
* **A cut inside a magic.** A frame cut within the four bytes of `T2C2` and
  followed by zero reserve is refused, not skipped
  (`probe_v2_hot_frame`; `docs/FORMAT_V2_RECOVERY.md` has recovery expose the
  complete previous state).
* **Leaf order.** A v2 commit may own its payload with leaves in any order
  (`transaction_v2.rs`), and a state built from one with another order than the
  allocation order is refused by the importer. The encoder keeps the order.
* **A stale prepared deletion.** `apply_prepared_delete_checkpoint_subtree` takes
  whatever was prepared, from whichever state; only tests call it.
* **Checkpoint numbers.** A synchronous put on the event loop's thread, and a put
  after a lost answer, repeat the number of another checkpoint. Nothing reads it
  back.

Not modelled:

* The composition of a checkpoint store with the history authority it owns, and
  lazy recovery of a writer, block caches and range reads (`lazy.rs`).
* Byte layouts and compression of segments (`segment.rs`, `storage_format.rs`)
  and of history logs and snapshots: encoding without state.
* Server, the other commands of the command line, error classification, `fsck`,
  fault injection, the conformance corpus: thin layers over the modelled
  operations, or test code.

## 6. Plan

In order of importance; the first seven steps are done.

1. The history store in memory, with its proofs.
2. Its durable authority with crashes, power loss and faults, refinement to 1,
   and the lock-free reader.
3. The checkpoint store over its abstract log, with the same failures, the
   reader and the worker; proofs about the log.
4. The balanced sequence: splices of trees against the byte sequence, balance,
   sharing under compaction, damage.
5. The v2 format: commit, requests, deletion, compaction, sealing and recovery,
   then the wire beneath it.
6. The adapter: lost answers, cancelled puts, restarts, and liveness.
7. Proofs: the request ledgers, the durable authority with its refinement, the
   reader beside it, the checkpoint store with its refinement, the reader and the
   worker beside that, and the adapter.
8. Composition: a checkpoint store with the history authority it owns, and lazy
   recovery of the writer.
9. Liveness of the reclaim worker: with readers that close, deferred files are
   reclaimed.
