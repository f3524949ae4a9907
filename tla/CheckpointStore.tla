--------------------------- MODULE CheckpointStore ---------------------------
(***************************************************************************)
(* CheckpointStore: the single writer of a checkpoint-store directory.     *)
(* Appends go to the hot write-ahead log; a seal moves a prefix of the log *)
(* into an immutable segment and route under a new manifest; a deletion    *)
(* rewrites what is left as one new generation.  Every operation is cut at *)
(* its I/O, so the process may die, the power may go or an I/O call may    *)
(* fail between any two effects.                                           *)
(*                                                                         *)
(* dir is the directory as a process sees it, safe what the device is sure *)
(* to hold.  The writer recovers eagerly (ReusePayload).  Record lengths   *)
(* are counted in transactions.                                            *)
(*                                                                         *)
(* MaxCount, MaxGen, MaxId, MaxCrashes and MaxFaults bound checkpoints,    *)
(* generations, identities, stops and failing calls.                       *)
(***************************************************************************)
EXTENDS CheckpointFiles

CONSTANTS
    MaxCount, MaxId, MaxCrashes, MaxFaults,
    CrashKinds,     \* subset of {"process", "power"}
    SoftLimit,      \* BoundedWalLifecyclePolicy.soft_logical_bytes
    WalSegment,     \* CheckpointStoreConfig.wal_segment_bytes
    MinReserve      \* MIN_RESERVE_BYTES

ASSUME StoreAssumption ==
    /\ {MaxCount, MaxId, MaxCrashes, MaxFaults} \subseteq Nat
    /\ {SoftLimit, WalSegment, MinReserve} \subseteq Nat \ {0}

VARIABLES
    dir,            \* the visible directory, see CheckpointFiles
    auth,           \* history: the state dir stands for, Recovered(dir)
    safe,           \* [manifest, files, synced, older]: see DirSync, ReplaceLog
    gate,           \* reader/reclaim lock: "free", "shared", "writer", "worker"
    pc, mem, man,   \* the writer: its step, its state, its manifest
    tail,           \* committed transactions in its log
    poisoned,       \* recovery_required of its committer
    job,            \* the operation in flight, or None
    acked,          \* history: what callers were told is live and deleted
    crashes, faults

writerVars == <<pc, mem, man, tail, poisoned, job>>
directory == <<dir, auth>>
budget == <<crashes, faults>>
vars == <<directory, safe, gate, writerVars, acked, budget>>

-----------------------------------------------------------------------------
(* Abbreviations *)

Writes(d) == dir' = d /\ auth' = Recovered(d)

Ready == pc = "idle" /\ ~poisoned

Step(next) == pc' = next /\ UNCHANGED <<mem, man, tail, poisoned, job>>

Return == pc' = "idle" /\ job' = None /\ UNCHANGED <<mem, man, tail, poisoned>>

\* An error after which the handle refuses every mutation.
Poison == pc' = "idle" /\ job' = None /\ poisoned' = TRUE /\ UNCHANGED <<mem, man, tail>>

Fault == faults < MaxFaults /\ faults' = faults + 1 /\ UNCHANGED crashes

Quiet == UNCHANGED <<gate, acked, budget>>

\* The handle is dropped or its process is gone, and its locks with it.
Stop ==
    /\ pc' = "closed" /\ mem' = EmptyState /\ man' = DefaultManifest
    /\ tail' = 0 /\ poisoned' = FALSE /\ job' = None
    /\ gate' = IF gate = "writer" THEN "free" ELSE gate

Job(kind) ==
    [kind |-> kind, manifest |-> man, entry |-> None, state |-> mem,
     drop |-> 0, tx |-> None, removed |-> FALSE]

\* A directory sync makes the visible names durable.
DirSync == [safe EXCEPT !.manifest = dir.manifest, !.files = dir.files, !.older = None]

-----------------------------------------------------------------------------
(* The log file *)

\* round_capacity, lengths in transactions.
RoundCapacity(n) ==
    LET floor == IF n = 0 THEN 1 ELSE n
        initial == IF WalSegment <= MinReserve THEN WalSegment ELSE MinReserve
        sizes == {initial * 2^k : k \in 0..floor} \cup {WalSegment}
    IN  IF floor <= WalSegment
        THEN CHOOSE c \in sizes : c >= floor /\ \A d \in sizes : d >= floor => c <= d
        ELSE ((floor + WalSegment - 1) \div WalSegment) * WalSegment

\* recycle_hot_file syncs the copied suffix only while it zero-fills the rest
\* of the reserve.
SyncedByRecycle(n) == IF RoundCapacity(n) > n THEN n ELSE 0

\* The log is replaced by a new file.  Until a directory sync the device may
\* still have the name on the older one.
ReplaceLog(hot) ==
    /\ Writes([dir EXCEPT !.hot = hot])
    /\ safe' = [safe EXCEPT
                  !.synced = SyncedByRecycle(Len(hot.txs)),
                  !.older = IF @ = None THEN [hot |-> dir.hot, synced |-> safe.synced] ELSE @]

-----------------------------------------------------------------------------
(* Opening *)

\* The writer lock admits one; a manifest whose files are missing fails.
OpenLoad ==
    /\ pc = "closed"
    /\ ManifestHolds(dir, Loaded(dir))
    /\ man' = Loaded(dir)
    /\ pc' = IF dir.manifest = None THEN "initManifest" ELSE "materialize"
    /\ job' = [Job("open") EXCEPT !.manifest = man']
    /\ Quiet /\ UNCHANGED <<directory, safe, mem, tail, poisoned>>

\* ensure_format_v1_manifest gives a new store its identity.
InitManifest ==
    /\ pc = "initManifest"
    /\ man' = [man EXCEPT !.id = 1]
    /\ Writes([dir EXCEPT !.manifest = man'])
    /\ pc' = "initSync"
    /\ Quiet /\ UNCHANGED <<safe, mem, tail, poisoned, job>>

InitSync ==
    /\ pc = "initSync"
    /\ safe' = DirSync
    /\ Step("materialize")
    /\ Quiet /\ UNCHANGED directory

Materialize ==
    /\ pc = "materialize"
    /\ ManifestHolds(dir, man)
    /\ mem' = SealedState(man)
    /\ pc' = "reclaim"
    /\ Quiet /\ UNCHANGED <<directory, safe, man, tail, poisoned, job>>

\* ensure_hot_file_exists
OpenHot ==
    /\ pc = "openHot"
    /\ IF dir.hot = None
       THEN Writes([dir EXCEPT !.hot = EmptyLog]) /\ safe' = DirSync
       ELSE UNCHANGED <<directory, safe>>
    /\ Step("openLog")
    /\ Quiet

\* The manifest of a seal was published and its log not recycled: finish it.
OpenRecycle ==
    /\ pc = "openLog"
    /\ Overlap(dir.hot, man) > 0
    /\ ReplaceLog(Recycled(ParsedFrom(dir.hot, PreviousCount(man)), Overlap(dir.hot, man)))
    /\ Step("openRecycled")
    /\ Quiet

OpenRecycleSync ==
    /\ pc = "openRecycled"
    /\ safe' = DirSync
    /\ Step("openLog")
    /\ Quiet /\ UNCHANGED directory

OpenReplay ==
    /\ pc = "openLog"
    /\ Overlap(dir.hot, man) = 0
    /\ LET txs == ParsedFrom(dir.hot, man.count)
       IN  /\ Replayed(mem, txs) # None
           /\ mem' = Replayed(mem, txs)
           /\ tail' = Len(txs)
    /\ pc' = "idle" /\ job' = None
    /\ Quiet /\ UNCHANGED <<directory, safe, man, poisoned>>

OpenFails ==
    /\ pc \in {"initManifest", "initSync", "materialize", "openHot", "openLog", "openRecycled"}
    /\ Fault
    /\ Stop /\ UNCHANGED <<directory, safe, acked>>

-----------------------------------------------------------------------------
(* Reclaiming unreferenced artifacts, under the exclusive gate *)

\* The call the reclaim belongs to goes on; a deletion is acknowledged here.
Reclaimed ==
    IF job.kind = "open" THEN Step("openHot") /\ UNCHANGED acked
    ELSE /\ Return
         /\ acked' = IF job.kind = "prune" THEN [acked EXCEPT !.deleted = mem.deleted] ELSE acked

ReclaimGate ==
    /\ pc = "reclaim"
    /\ gate = "free"
    /\ gate' = "writer"
    /\ Step("delete")
    /\ UNCHANGED <<directory, safe, acked, budget>>

\* One file of the directory listing at a time, in any order.
ReclaimDelete ==
    /\ pc = "delete"
    /\ \/ \E a \in Unreferenced(dir, man) :
             Writes([dir EXCEPT !.files = [x \in DOMAIN @ \ {a} |-> @[x]]])
       \/ \E t \in dir.tmps : Writes([dir EXCEPT !.tmps = @ \ {t}])
    /\ job' = [job EXCEPT !.removed = TRUE]
    /\ Quiet /\ UNCHANGED <<safe, pc, mem, man, tail, poisoned>>

ReclaimDone ==
    /\ pc = "delete"
    /\ Unreferenced(dir, man) = {} /\ dir.tmps = {}
    /\ safe' = IF job.removed THEN DirSync ELSE safe
    /\ gate' = "free"
    /\ Reclaimed
    /\ UNCHANGED <<directory, budget>>

\* A failed removal: the open fails, a committed deletion poisons, a plain
\* reclaim call only reports it.
ReclaimFails ==
    /\ pc = "delete"
    /\ Fault
    /\ IF job.kind = "open" THEN Stop
       ELSE /\ gate' = "free"
            /\ IF job.kind = "prune" THEN Poison ELSE Return
    /\ UNCHANGED <<directory, safe, acked>>

BeginReclaim ==
    /\ Ready
    /\ job' = Job("reclaim")
    /\ pc' = "reclaim"
    /\ Quiet /\ UNCHANGED <<directory, safe, mem, man, tail, poisoned>>

-----------------------------------------------------------------------------
(* Appending one checkpoint *)

Prepared(c) ==
    /\ Len(mem.cps) < MaxCount
    /\ Appendable(LiveOf(mem), mem.deleted, c)

AppendJob(c) == [Job("append") EXCEPT !.tx = Tx(Len(mem.cps), c)]

BeginAppend(c) ==
    /\ Ready
    /\ Prepared(c)
    /\ job' = AppendJob(c)
    /\ pc' = "write"
    /\ Quiet /\ UNCHANGED <<directory, safe, mem, man, tail, poisoned>>

\* The record goes to the committed tail, over whatever a torn write left.
WriteRecord ==
    /\ pc = "write"
    /\ Writes([dir EXCEPT !.hot = [txs |-> Append(SubSeq(@.txs, 1, tail), job.tx),
                                   torn |-> FALSE]])
    /\ Step("sync")
    /\ Quiet /\ UNCHANGED safe

\* Nothing written is a plain error; a torn record, or a reserve that could
\* not be extended, requires recovery.
WriteRecordFails ==
    /\ pc = "write"
    /\ Fault
    /\ \/ UNCHANGED directory /\ Return
       \/ UNCHANGED directory /\ Poison
       \/ Writes([dir EXCEPT !.hot.torn = TRUE]) /\ Poison
    /\ UNCHANGED <<safe, gate, acked>>

\* Mutant: the record is acknowledged before the barrier.
SyncRecordSkipped ==
    /\ pc = "sync"
    /\ mem' = Applied(mem, <<job.tx>>)
    /\ tail' = tail + 1
    /\ acked' = [acked EXCEPT !.live = LiveOf(mem')]
    /\ pc' = "idle" /\ job' = None
    /\ UNCHANGED <<directory, safe, gate, man, poisoned, budget>>

\* One sync_data, then the state in memory, then the answer.
SyncRecord ==
    /\ pc = "sync"
    /\ safe' = [safe EXCEPT !.synced = Len(dir.hot.txs)]
    /\ mem' = Applied(mem, <<job.tx>>)
    /\ tail' = tail + 1
    /\ acked' = [acked EXCEPT !.live = LiveOf(mem')]
    /\ pc' = "idle" /\ job' = None
    /\ UNCHANGED <<directory, gate, man, poisoned, budget>>

\* Mutant: a failed barrier leaves the handle usable.
SyncRecordFailsLightly ==
    /\ pc = "sync"
    /\ Fault
    /\ Return
    /\ UNCHANGED <<directory, safe, gate, acked>>

SyncRecordFails ==
    /\ pc = "sync"
    /\ Fault
    /\ Poison
    /\ UNCHANGED <<directory, safe, gate, acked>>

-----------------------------------------------------------------------------
(* Beginning a new manifest *)

\* seal_through(n) takes the transactions up to n from the log file.
Sealing(n, tx) ==
    LET parsed == ParsedFrom(dir.hot, man.count)
        drop == n - man.count
        cps == [i \in 1..drop |-> parsed[i].cp]
    IN  /\ n > man.count /\ n <= Len(mem.cps)
        /\ drop <= Len(parsed)
        /\ man.gen < MaxGen
        /\ job' = [Job("seal") EXCEPT
                     !.entry = Entry(man.gen + 1, cps), !.drop = drop, !.tx = tx,
                     !.manifest = [man EXCEPT !.gen = @ + 1, !.count = n,
                                     !.segments = Append(@, Entry(man.gen + 1, cps))]]
        /\ pc' = "stageSegment"
        /\ Quiet /\ UNCHANGED <<directory, safe, mem, man, tail, poisoned>>

BeginSeal(n) == Ready /\ Sealing(n, None)

\* append_..._with_bounded_lifecycle: the log is sealed first when the record
\* would take it past the soft limit.  (Below the limit it is BeginAppend; a
\* record refused after the seal is BeginSeal.)
BeginBoundedAppend(c) ==
    /\ Ready
    /\ Prepared(c)
    /\ tail > 0 /\ tail + 1 > SoftLimit
    /\ Sealing(Len(mem.cps), Tx(Len(mem.cps), c))

\* Mutant: the deleted checkpoints stay in the segment.
CompactedKeeping(s, K) == [s EXCEPT !.deleted = @ \cup K]

\* compact_live_state: the survivors in their order, and a tombstone for each
\* deleted key.
Compacted(s, K) ==
    LET kept == [i \in 1..Len(s.cps) |-> IF s.cps[i].key \in K THEN <<>> ELSE <<s.cps[i]>>]
    IN  [cps |-> Joined(kept), deleted |-> s.deleted \cup K]

\* delete_checkpoint_set: only a fully sealed store; what is left becomes the
\* single segment of the next generation.
Pruning(K) ==
    LET rest == Compacted(mem, K)
        entry == Entry(man.gen + 1, rest.cps)
    IN  /\ tail = 0
        /\ man.gen < MaxGen
        /\ job' = [Job("prune") EXCEPT
                     !.state = rest, !.entry = entry,
                     !.manifest = [man EXCEPT !.gen = @ + 1, !.count = Len(rest.cps),
                                     !.segments = <<entry>>, !.deleted = rest.deleted]]
        /\ acked' = [acked EXCEPT !.live = Surviving(@, K)]
        /\ pc' = "stageSegment"
        /\ UNCHANGED <<directory, safe, gate, mem, man, tail, poisoned, budget>>

BeginPruneSet(K) ==
    /\ Ready
    /\ Prunable(LiveOf(mem), K)
    /\ Pruning(K)

BeginPruneSubtree(k) ==
    /\ Ready
    /\ k \in KeysOf(LiveOf(mem))
    /\ Pruning(Subtree(LiveOf(mem), k))

BeginReidentify ==
    /\ Ready
    /\ man.id < MaxId
    /\ job' = [Job("reidentify") EXCEPT !.manifest.id = @ + 1]
    /\ pc' = "stageManifest"
    /\ Quiet /\ UNCHANGED <<directory, safe, mem, man, tail, poisoned>>

-----------------------------------------------------------------------------
(* Publishing segment, route and manifest *)

Stage(at, name, next) ==
    /\ pc = at
    /\ Writes([dir EXCEPT !.tmps = @ \cup {name}])
    /\ Step(next)
    /\ Quiet /\ UNCHANGED safe

StageSegment == Stage("stageSegment", "segment", "publishSegment")
StageRoute == Stage("stageRoute", "route", "publishRoute")
StageManifest == Stage("stageManifest", "manifest", "publishManifest")

\* The temporary file being written or renamed.
Temporary ==
    CASE pc \in {"stageSegment", "publishSegment"} -> "segment"
      [] pc \in {"stageRoute", "publishRoute"} -> "route"
      [] pc \in {"stageManifest", "publishManifest"} -> "manifest"

\* A failure before the first publication is only reported, and so is one
\* that leaves a new identity unpublished; any other poisons.  The temporary
\* file may be left.
StageFails ==
    /\ pc \in {"stageSegment", "stageRoute", "stageManifest"}
    /\ Fault
    /\ UNCHANGED directory \/ Writes([dir EXCEPT !.tmps = @ \cup {Temporary}])
    /\ IF pc = "stageSegment" \/ job.kind = "reidentify" THEN Return ELSE Poison
    /\ UNCHANGED <<safe, gate, acked>>

WithArtifact(name) ==
    [dir EXCEPT !.tmps = @ \ {name},
                !.files = [a \in DOMAIN @ \cup {<<name, job.entry.gen>>} |->
                             IF a = <<name, job.entry.gen>> THEN job.entry.cps ELSE @[a]]]

\* publish_existing_tmp: file sync, rename, directory sync.
PublishArtifact(at, name, next) ==
    /\ pc = at
    /\ name \in dir.tmps
    /\ Writes(WithArtifact(name))
    /\ safe' = [safe EXCEPT !.manifest = dir.manifest, !.files = dir'.files, !.older = None]
    /\ Step(next)
    /\ Quiet

PublishSegment == PublishArtifact("publishSegment", "segment", "stageRoute")
PublishRoute == PublishArtifact("publishRoute", "route", "stageManifest")

PublishArtifactFails ==
    /\ pc \in {"publishSegment", "publishRoute"}
    /\ Temporary \in dir.tmps
    /\ Fault
    /\ UNCHANGED directory \/ Writes(WithArtifact(Temporary))
    /\ Poison
    /\ UNCHANGED <<safe, gate, acked>>

\* The rename of the manifest is the commit point.
RenameManifest ==
    /\ pc = "publishManifest"
    /\ "manifest" \in dir.tmps
    /\ Writes([dir EXCEPT !.manifest = job.manifest, !.tmps = @ \ {"manifest"}])
    /\ Step("syncManifest")
    /\ Quiet /\ UNCHANGED safe

\* The sync of the temporary file fails as a staging does; the rename leaves
\* it open which manifest is the authority, and poisons.
RenameManifestFails ==
    /\ pc = "publishManifest"
    /\ Fault
    /\ Poison \/ (job.kind = "reidentify" /\ Return)
    /\ UNCHANGED <<directory, safe, gate, acked>>

SyncManifest ==
    /\ pc = "syncManifest"
    /\ safe' = DirSync
    /\ man' = job.manifest
    /\ mem' = job.state
    /\ pc' = CASE job.kind = "seal" -> "recycle"
               [] job.kind = "prune" -> "reclaim"
               [] OTHER -> "idle"
    /\ job' = IF job.kind = "reidentify" THEN None ELSE job
    /\ Quiet /\ UNCHANGED <<directory, tail, poisoned>>

SyncManifestFails ==
    /\ pc = "syncManifest"
    /\ Fault
    /\ Poison
    /\ UNCHANGED <<directory, safe, gate, acked>>

-----------------------------------------------------------------------------
(* Recycling the sealed prefix of the log *)

Recycle ==
    /\ pc = "recycle"
    /\ ReplaceLog(Recycled(SubSeq(dir.hot.txs, 1, tail), job.drop))
    /\ Step("recycled")
    /\ Quiet

\* A bounded append goes on with its own record.
RecycleSync ==
    /\ pc = "recycled"
    /\ safe' = DirSync
    /\ tail' = tail - job.drop
    /\ IF job.tx = None THEN pc' = "idle" /\ job' = None
       ELSE pc' = "write" /\ job' = [Job("append") EXCEPT !.tx = job.tx]
    /\ Quiet /\ UNCHANGED <<directory, mem, man, poisoned>>

\* The seal is committed, the maintenance is not done: reopen.
RecycleFails ==
    /\ pc \in {"recycle", "recycled"}
    /\ Fault
    /\ Poison
    /\ UNCHANGED <<directory, safe, gate, acked>>

-----------------------------------------------------------------------------
(* Stopping *)

Close ==
    /\ pc = "idle"
    /\ Stop
    /\ UNCHANGED <<directory, safe, acked, budget>>

ProcessCrash ==
    /\ "process" \in CrashKinds
    /\ pc # "closed"
    /\ crashes < MaxCrashes
    /\ crashes' = crashes + 1
    /\ Stop
    /\ UNCHANGED <<directory, safe, acked, faults>>

\* What may be left of a log of which n transactions are synced.
LogLeft(hot, n) ==
    IF hot = None THEN {None}
    ELSE {[txs |-> SubSeq(hot.txs, 1, k), torn |-> torn] :
             k \in n..Len(hot.txs), torn \in {FALSE, hot.torn \/ n < Len(hot.txs)}}

\* Renames and removals that no directory sync followed may be undone.
FilesLeft ==
    LET changed == {a \in DOMAIN dir.files \cup DOMAIN safe.files :
                      ~(/\ a \in DOMAIN dir.files /\ a \in DOMAIN safe.files
                        /\ dir.files[a] = safe.files[a])}
        Mixed(S) == [a \in (DOMAIN dir.files \ (changed \ S)) \cup (DOMAIN safe.files \ S) |->
                        IF a \in DOMAIN dir.files /\ (a \in S \/ a \notin changed)
                        THEN dir.files[a] ELSE safe.files[a]]
    IN  {Mixed(S) : S \in SUBSET changed}

\* A power loss is the only failure of its behaviour: it takes the whole budget.
PowerLoss ==
    /\ "power" \in CrashKinds
    /\ crashes = 0 /\ faults = 0 /\ crashes < MaxCrashes
    /\ crashes' = MaxCrashes /\ faults' = MaxFaults
    /\ \E m \in {safe.manifest, dir.manifest}, files \in FilesLeft,
          hot \in LogLeft(dir.hot, safe.synced)
                    \cup (IF safe.older = None THEN {}
                          ELSE LogLeft(safe.older.hot, safe.older.synced)) :
          Writes([dir EXCEPT !.manifest = m, !.files = files, !.hot = hot])
    /\ safe' = [manifest |-> dir'.manifest, files |-> dir'.files, older |-> None,
                synced |-> IF dir'.hot = None THEN 0 ELSE Len(dir'.hot.txs)]
    /\ Stop
    /\ UNCHANGED acked

-----------------------------------------------------------------------------
(* Specification *)

Init ==
    /\ dir = EmptyDirectory /\ auth = Recovered(EmptyDirectory)
    /\ safe = [manifest |-> None, files |-> dir.files, synced |-> 0, older |-> None]
    /\ gate = "free"
    /\ pc = "closed" /\ mem = EmptyState /\ man = DefaultManifest
    /\ tail = 0 /\ poisoned = FALSE /\ job = None
    /\ acked = [live |-> {}, deleted |-> {}]
    /\ crashes = 0 /\ faults = 0

Opening ==
    \/ OpenLoad \/ InitManifest \/ InitSync \/ Materialize
    \/ OpenHot \/ OpenRecycle \/ OpenRecycleSync \/ OpenReplay \/ OpenFails

Reclaiming ==
    \/ BeginReclaim \/ ReclaimGate \/ ReclaimDelete
    \/ ReclaimDone \/ ReclaimFails

Appending ==
    \/ \E c \in Checkpoints : BeginAppend(c) \/ BeginBoundedAppend(c)
    \/ WriteRecord \/ WriteRecordFails \/ SyncRecord \/ SyncRecordFails

Generations ==
    \/ \E n \in 1..MaxCount : BeginSeal(n)
    \/ \E K \in SUBSET Keys : BeginPruneSet(K)
    \/ \E k \in Keys : BeginPruneSubtree(k)
    \/ BeginReidentify
    \/ StageSegment \/ StageRoute \/ StageManifest \/ StageFails
    \/ PublishSegment \/ PublishRoute \/ PublishArtifactFails
    \/ RenameManifest \/ RenameManifestFails \/ SyncManifest \/ SyncManifestFails
    \/ Recycle \/ RecycleSync \/ RecycleFails

Next ==
    \/ Opening \/ Reclaiming \/ Appending \/ Generations
    \/ Close \/ ProcessCrash \/ PowerLoss

Spec == Init /\ [][Next]_vars

-----------------------------------------------------------------------------
(* Properties *)

\* The durable store implements the plain log of checkpoints: seen through
\* recovery, the directory changes only by one whole append or one whole
\* deletion; seals, recycles, reclaims, identities, failures and stops leave
\* it as it is.  Only a power loss may take back what was not acknowledged.
CL == INSTANCE CheckpointLog WITH
         live <- IF auth = None THEN None ELSE LiveOf(auth),
         deleted <- IF auth = None THEN None ELSE auth.deleted
ImplementsLog == CL!Init /\ [][CL!Next \/ PowerLoss]_(CL!logVars)

\* Everything acknowledged is recovered at every cut: checkpoints with parent
\* and bytes unless their deletion was asked for, and tombstones.
AckedSurvives ==
    /\ auth # None
    /\ acked.live \subseteq LiveOf(auth)
    /\ acked.deleted \subseteq auth.deleted

\* Between calls a handle that is not poisoned agrees with its directory: the
\* same checkpoints in the same order, the same manifest, and a tail at which
\* the next record continues the log (append_parsed_transaction, seal_through,
\* delete_checkpoint_set, open).
MemoryIsAuthority ==
    Ready => /\ mem = auth
             /\ man = dir.manifest
             /\ tail = Len(ParsedFrom(dir.hot, man.count))
             /\ Len(mem.cps) = man.count + tail
=============================================================================
