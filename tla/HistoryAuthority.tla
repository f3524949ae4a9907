-------------------------- MODULE HistoryAuthority --------------------------
(***************************************************************************)
(* WritableHistoryAuthority: the single writer over one history directory. *)
(* Every operation is cut where its I/O is cut, so that the process may    *)
(* die, the machine may lose power or an I/O call may fail between any two *)
(* durable effects.                                                        *)
(*                                                                         *)
(* disk is what a process sees in the directory; synced is what is known   *)
(* to have reached the device.  A process crash forgets the writer and     *)
(* keeps disk.  A power loss keeps at least what is synced, and any more.  *)
(* A file sync is taken to persist a newly created file's name with it;    *)
(* a rename reaches the device with a directory sync.                      *)
(*                                                                         *)
(* MaxCrashes and MaxFaults bound crashes and failing I/O calls.           *)
(***************************************************************************)
EXTENDS HistoryRecovery

CONSTANTS
    CrashKinds,     \* subset of {"process", "power"}: how the writer may stop
    MaxCrashes,
    MaxFaults

VARIABLES
    disk,           \* the visible directory, see HistoryRecovery
    auth,           \* history: the store disk stands for, Authoritative(disk)
    synced,         \* [manifest, snaps, hots, content]: the part known durable
    pc,             \* where the writer is
    mem,            \* the writer's store; NewStore when closed
    gen, pgen,      \* its generation and its physical generation
    poisoned,
    job,            \* the operation in flight, or None
    acked,          \* history: what callers were told, see Promise
    crashes, faults

writerVars == <<pc, mem, gen, pgen, poisoned, job>>
directory == <<disk, auth>>
vars == <<directory, synced, writerVars, acked, crashes, faults>>

-----------------------------------------------------------------------------
(* Abbreviations *)

\* The directory becomes d.
Writes(d) == disk' = d /\ auth' = Authoritative(d)

\* What an acknowledged state promises: its histories, its versions with
\* their bytes and lineage, and which of them are expired.
Promise(s) ==
    [histories |-> s.histories, expired |-> s.expired,
     versions |-> [v \in DOMAIN s.versions |-> [s.versions[v] EXCEPT !.root = None]]]

Frontier == Len(mem.arena)
Content0 == disk.content[pgen]

AppendTo(file, delta) == [file EXCEPT !.data = Append(@, delta)]

Stops == crashes.kills + crashes.outages

\* An I/O call fails, before the first stop.
Fault == Stops = 0 /\ faults < MaxFaults /\ faults' = faults + 1

Ready == pc = "idle" /\ ~poisoned

\* The call returns, with success or rejected: the writer is idle again.
Return == pc' = "idle" /\ job' = None /\ UNCHANGED <<gen, pgen, poisoned>>

\* The writer takes its next step, the operation and the catalogue unchanged.
Step(next) == pc' = next /\ UNCHANGED <<mem, gen, pgen, poisoned, job>>

Poison == poisoned' = TRUE /\ pc' = "idle" /\ job' = None /\ UNCHANGED <<gen, pgen>>

Observed == UNCHANGED <<acked, crashes>>

\* How many deltas of each content file are durable; -1: not even the file.
NotSynced == [payload |-> -1, nodes |-> -1]

\* Truncation takes the tail back from what is known durable as well.
MinOf(a, b) == IF a <= b THEN a ELSE b

SyncedAtMost(c, n) ==
    [payload |-> MinOf(synced.content[c].payload, n),
     nodes |-> MinOf(synced.content[c].nodes, n)]

\* A directory sync makes every rename so far durable; a snapshot's bytes were
\* synced before its rename.
DirectorySynced ==
    [synced EXCEPT !.manifest = disk.manifest, !.snaps = DOMAIN disk.snaps]

\* The writer is gone: nothing of it is left but the directory.
Stop ==
    /\ pc' = "closed"
    /\ mem' = NewStore
    /\ gen' = 0 /\ pgen' = 0
    /\ poisoned' = FALSE
    /\ job' = None

-----------------------------------------------------------------------------
(* Opening: lease, recovery, healing, hot log *)

\* The lease admits one writer; recovery only reads.
Open ==
    /\ pc = "closed"
    /\ Recovered(disk) # None
    /\ mem' = Recovered(disk)
    /\ gen' = disk.manifest
    /\ pgen' = SealedPgen(disk)
    /\ pc' = IF FilesPresent(disk.content[pgen']) THEN "heal" ELSE "createPayload"
    /\ poisoned' = FALSE
    /\ job' = None
    /\ UNCHANGED <<directory, synced, acked, crashes, faults>>

\* Mutant: the files are emptied.
HealOnOpenEmptying ==
    /\ pc = "heal"
    /\ Writes([disk EXCEPT !.content[pgen] = TruncatedContent(@, 0)])
    /\ synced' = [synced EXCEPT !.content[pgen] = SyncedAtMost(pgen, 0)]
    /\ Step("openHot")
    /\ Observed /\ UNCHANGED faults

\* heal_for_write: both files are cut back to the frontier.
HealOnOpen ==
    /\ pc = "heal"
    /\ Writes([disk EXCEPT !.content[pgen] = TruncatedContent(@, Frontier)])
    /\ synced' = [synced EXCEPT !.content[pgen] = SyncedAtMost(pgen, Frontier)]
    /\ Step("openHot")
    /\ Observed /\ UNCHANGED faults

\* create_new, one file operation at a time: a name that is already taken
\* fails the open and releases the lease.
CreateContentFile(at, file, next) ==
    /\ pc = at
    /\ IF disk.content[pgen][file].state = "absent"
       THEN /\ Writes([disk EXCEPT !.content[pgen][file] = BareFile])
            /\ Step(next)
       ELSE /\ UNCHANGED directory
            /\ Stop
    /\ Observed /\ UNCHANGED <<synced, faults>>

CreatePayload == CreateContentFile("createPayload", "payload", "createNodes")

\* Mutant: the hot log is created before the headers are written.
CreateNodesHeaderless == CreateContentFile("createNodes", "nodes", "openHot")

CreateNodes == CreateContentFile("createNodes", "nodes", "payloadHeader")

WriteHeader(at, file, next) ==
    /\ pc = at
    /\ Writes([disk EXCEPT !.content[pgen][file] = ReadyFile(<<>>)])
    /\ Step(next)
    /\ Observed /\ UNCHANGED <<synced, faults>>

PayloadHeader == WriteHeader("payloadHeader", "payload", "nodesHeader")
NodesHeader == WriteHeader("nodesHeader", "nodes", "syncHeaders")

SyncHeaders ==
    /\ pc = "syncHeaders"
    /\ synced' = [synced EXCEPT !.content[pgen] = [payload |-> 0, nodes |-> 0]]
    /\ Step("openHot")
    /\ Observed /\ UNCHANGED <<directory, faults>>

\* open_write: the genesis log is created here, any other exists.
OpenHot ==
    /\ pc = "openHot"
    /\ IF gen \in DOMAIN disk.hots THEN UNCHANGED directory
       ELSE Writes([disk EXCEPT !.hots = Put(@, gen, EmptyHot)])
    /\ synced' = IF gen \in DOMAIN synced.hots THEN synced
                 ELSE [synced EXCEPT !.hots = Put(@, gen, 0)]
    /\ Step("idle")
    /\ Observed /\ UNCHANGED faults

\* Any other failure while opening: the open is rejected.
OpenFails ==
    /\ pc \in {"heal", "createPayload", "createNodes", "payloadHeader",
              "nodesHeader", "syncHeaders", "openHot"}
    /\ Fault
    /\ Stop
    /\ Observed /\ UNCHANGED <<directory, synced>>

-----------------------------------------------------------------------------
(* Beginning an operation: the preview decides, nothing is written *)

Begin(frame, next, s) ==
    /\ job' = frame
    /\ pc' = next
    /\ mem' = s
    /\ UNCHANGED <<directory, synced, gen, pgen, poisoned, faults>>
    /\ Observed

\* The counter is taken before the frame is written.
BeginCreate(binding) ==
    /\ Ready
    /\ CreateFresh(mem, binding)
    /\ Begin(CreateFrame(mem.nextHistory, binding), "frame",
             [mem EXCEPT !.nextHistory = @ + 1])

BeginSplice(op, req) ==
    /\ Ready
    /\ PreviewFresh(mem, op, req)
    /\ Begin(CommitFrame(mem.nextVersion, op, req,
                         Placement(pgen, Frontier + 1, op.insert, Spelled(mem, op))),
             "payload", mem)

BeginFork(op, req) ==
    /\ Ready
    /\ PreviewFresh(mem, op, req)
    /\ Begin(CommitFrame(mem.nextVersion, op, req, None), "frame", mem)

BeginExpire(v) ==
    /\ Ready
    /\ ExpireFresh(mem, v)
    /\ Begin(ExpireFrame(mem, v), "frame", mem)

BeginRetire(req) ==
    /\ Ready
    /\ req \in DOMAIN mem.active
    /\ Begin(RetireFrame(mem, req), "frame", mem)

\* A retry of a recorded operation is answered from the ledger, with no I/O.
AnswerReplayed(op, req) ==
    /\ Ready
    /\ Valid(mem, op)
    /\ Replays(mem, req, op)
    /\ acked' = Promise(mem)
    /\ UNCHANGED <<directory, synced, writerVars, crashes, faults>>

-----------------------------------------------------------------------------
(* The physical half of a splice *)

\* commit_physical_delta heals, then appends the payload.
Healed == TruncatedContent(Content0, Frontier)

AppendPayload ==
    /\ pc = "payload"
    /\ Writes([disk EXCEPT !.content[pgen] =
                   [Healed EXCEPT !.payload = AppendTo(@, job.place.payload)]])
    /\ synced' = [synced EXCEPT !.content[pgen] = SyncedAtMost(pgen, Frontier)]
    /\ Step("nodes")
    /\ Observed /\ UNCHANGED faults

\* A failed heal or payload append may leave a partial delta for the next
\* commit to heal.
AppendPayloadFails ==
    /\ pc = "payload"
    /\ Fault
    /\ \E c \in {Content0, Healed, [Healed EXCEPT !.payload = AppendTo(@, None)]} :
          Writes([disk EXCEPT !.content[pgen] = c])
    /\ synced' = [synced EXCEPT !.content[pgen] = SyncedAtMost(pgen, Frontier)]
    /\ Return /\ Observed /\ UNCHANGED mem

AppendNodes ==
    /\ pc = "nodes"
    /\ Writes([disk EXCEPT !.content[pgen].nodes = AppendTo(@, job.place.tree)])
    /\ Step("syncContent")
    /\ Observed /\ UNCHANGED <<synced, faults>>

\* Mutant: the rollback empties the files.
RolledBackToZero(c) == {TruncatedContent(c, 0)}

\* rollback_to_committed: the payload first; either truncation may fail.
RolledBack(c) == { TruncatedContent(c, Frontier),
                   [c EXCEPT !.payload = Truncated(@, Frontier)],
                   c }

\* A failed node append may leave a partial delta; the rollback is best effort.
AppendNodesFails ==
    /\ pc = "nodes"
    /\ Fault
    /\ \E c \in RolledBack([Content0 EXCEPT !.nodes = AppendTo(@, None)]) :
          Writes([disk EXCEPT !.content[pgen] = c])
    /\ Return /\ Observed /\ UNCHANGED <<synced, mem>>

SyncContent ==
    /\ pc = "syncContent"
    /\ synced' = [synced EXCEPT !.content[pgen] = [payload |-> Len(Content0.payload.data),
                                                   nodes |-> Len(Content0.nodes.data)]]
    /\ Step("frame")
    /\ Observed /\ UNCHANGED <<directory, faults>>

\* A failed barrier rolls back.  When that fails too the caller is told to
\* reopen, but the store is not poisoned: the next splice heals by itself.
SyncContentFails ==
    /\ pc = "syncContent"
    /\ Fault
    /\ \E c \in RolledBack(Content0) : Writes([disk EXCEPT !.content[pgen] = c])
    /\ Return /\ Observed /\ UNCHANGED <<synced, mem>>

-----------------------------------------------------------------------------
(* The metadata half: frame, barrier, adoption *)

\* append_frame cuts the log back to its tail, dropping a torn frame.
AppendFrame ==
    /\ pc = "frame"
    /\ Writes([disk EXCEPT !.hots[gen] = [frames |-> Append(@.frames, job), torn |-> FALSE]])
    /\ Step("syncFrame")
    /\ Observed /\ UNCHANGED <<synced, faults>>

\* Mutant: the history counter is not given back.
AppendFrameFailsKeepingId ==
    /\ pc = "frame"
    /\ Fault
    /\ \E torn \in BOOLEAN : Writes([disk EXCEPT !.hots[gen].torn = torn])
    /\ Return /\ Observed /\ UNCHANGED <<synced, mem>>

\* A failed append leaves at most a torn frame; a history counter taken for
\* the frame is given back.
AppendFrameFails ==
    /\ pc = "frame"
    /\ Fault
    /\ \E torn \in BOOLEAN : Writes([disk EXCEPT !.hots[gen].torn = torn])
    /\ mem' = IF job.type = "create" THEN [mem EXCEPT !.nextHistory = job.history] ELSE mem
    /\ Return /\ Observed /\ UNCHANGED synced

\* What the operation does to the catalogue once its frame is durable.
Adopt(s, f) ==
    CASE f.type = "create" -> [s EXCEPT !.histories = @ \cup {f.history},
                                        !.historyBindings = PutBinding(@, f.history, f.binding)]
      [] f.type = "commit" -> IF f.op.kind = "fork" THEN ApplyFork(s, f.op, f.request)
                              ELSE AdoptTree(s, f.op, f.request, f.place.tree)
      [] f.type = "expire" -> ApplyExpire(s, f.version)
      [] f.type = "retire" -> ApplyRetire(s, f.request)

\* Mutant: the call succeeds without the barrier.
SyncFrameSkipped ==
    /\ pc = "syncFrame"
    /\ mem' = Adopt(mem, job)
    /\ acked' = Promise(mem')
    /\ Return
    /\ UNCHANGED <<directory, synced, crashes, faults>>

SyncFrame ==
    /\ pc = "syncFrame"
    /\ synced' = [synced EXCEPT !.hots[gen] = Len(disk.hots[gen].frames)]
    /\ mem' = Adopt(mem, job)
    /\ acked' = Promise(mem')
    /\ Return
    /\ UNCHANGED <<directory, crashes, faults>>

\* The frame may or may not be durable: the writer poisons itself.
SyncFrameFails ==
    /\ pc = "syncFrame"
    /\ Fault
    /\ Poison /\ Observed /\ UNCHANGED <<directory, synced, mem>>

-----------------------------------------------------------------------------
(* Publication of a sealed or compacted generation *)

NextGen == disk.manifest + 1

\* A generation job carries the store and physical generation to publish.
BeginSeal ==
    /\ Ready
    /\ NextGen <= MaxGen
    /\ SnapshotReady(mem)
    /\ Begin([type |-> "seal", store |-> mem, pgen |-> pgen], "snapshot", mem)

\* prepare_physical_gc builds the next physical generation from scratch.
BuildGc ==
    /\ Ready
    /\ NextGen <= MaxGen
    /\ GcReady(mem)
    /\ SnapshotReady(ApplyGc(mem))
    /\ LET compact == ApplyGc(mem)
           file == ReadyFile(compact.arena)
       IN  /\ job' = [type |-> "gc", store |-> compact, pgen |-> pgen + 1]
           /\ Writes([disk EXCEPT !.content[pgen + 1] = [payload |-> file, nodes |-> file]])
           /\ synced' = [synced EXCEPT !.content[pgen + 1] =
                            [payload |-> Len(compact.arena), nodes |-> Len(compact.arena)]]
    /\ pc' = "snapshot"
    /\ Observed /\ UNCHANGED <<mem, gen, pgen, poisoned, faults>>

\* A build that stops, with the process or without it, leaves partial files
\* nothing refers to.
BuildGcFails ==
    /\ Ready
    /\ NextGen <= MaxGen
    /\ Fault
    /\ \/ Writes([disk EXCEPT !.content[pgen + 1].payload = BareFile])
       \/ Writes([disk EXCEPT !.content[pgen + 1] = [payload |-> ReadyFile(<<None>>),
                                                     nodes |-> ReadyFile(<<>>)]])
    /\ synced' = [synced EXCEPT !.content[pgen + 1] = NotSynced]
    /\ Observed /\ UNCHANGED writerVars

\* Written to a temporary name, synced, renamed, directory synced.
PublishSnapshot ==
    /\ pc = "snapshot"
    /\ Writes([disk EXCEPT !.snaps = Put(@, NextGen, SnapshotOf(job.store, job.pgen))])
    /\ synced' = [DirectorySynced EXCEPT !.snaps = @ \cup {NextGen}]
    /\ Step("nextHot")
    /\ Observed /\ UNCHANGED faults

\* The rename may have happened when the directory sync fails.
PublishSnapshotFails ==
    /\ pc = "snapshot"
    /\ Fault
    /\ \/ UNCHANGED directory
       \/ Writes([disk EXCEPT !.snaps = Put(@, NextGen, SnapshotOf(job.store, job.pgen))])
    /\ Return /\ Observed /\ UNCHANGED <<synced, mem>>

NextHotFree ==
    NextGen \in DOMAIN disk.hots => disk.hots[NextGen] = EmptyHot

\* Mutant: the directory is not synced after the rename.
PublishHotUnsynced ==
    /\ pc = "nextHot"
    /\ NextHotFree
    /\ Writes([disk EXCEPT !.hots = Put(@, NextGen, EmptyHot)])
    /\ Step("manifest")
    /\ Observed /\ UNCHANGED <<synced, faults>>

\* The next hot log must be new or empty; it is published and opened before
\* the manifest commits.
PublishHot ==
    /\ pc = "nextHot"
    /\ NextHotFree
    /\ Writes([disk EXCEPT !.hots = Put(@, NextGen, EmptyHot)])
    /\ synced' = [DirectorySynced EXCEPT !.hots = Put(@, NextGen, 0)]
    /\ Step("manifest")
    /\ Observed /\ UNCHANGED faults

PublishHotRefused ==
    /\ pc = "nextHot"
    /\ ~NextHotFree
    /\ Return /\ Observed /\ UNCHANGED <<directory, synced, mem, faults>>

PublishHotFails ==
    /\ pc = "nextHot"
    /\ NextHotFree
    /\ Fault
    /\ \/ UNCHANGED directory
       \/ Writes([disk EXCEPT !.hots = Put(@, NextGen, EmptyHot)])
    /\ Return /\ Observed /\ UNCHANGED <<synced, mem>>

\* The manifest rename is the commit point of the generation.
RenameManifest ==
    /\ pc = "manifest"
    /\ Writes([disk EXCEPT !.manifest = NextGen])
    /\ Step("syncManifest")
    /\ Observed /\ UNCHANGED <<synced, faults>>

RenameManifestFails ==
    /\ pc = "manifest"
    /\ Fault
    /\ Return /\ Observed /\ UNCHANGED <<directory, synced, mem>>

\* The directory sync makes it durable; adoption cannot fail after it.
SyncManifest ==
    /\ pc = "syncManifest"
    /\ synced' = DirectorySynced
    /\ mem' = job.store
    /\ gen' = disk.manifest
    /\ pgen' = job.pgen
    /\ pc' = "recycle"
    /\ UNCHANGED <<directory, poisoned, job, faults>>
    /\ Observed

SyncManifestFails ==
    /\ pc = "syncManifest"
    /\ Fault
    /\ Poison /\ Observed /\ UNCHANGED <<directory, synced, mem>>

\* Seal removes the superseded hot log; a collection removes every hot log,
\* snapshot and content file of another generation.
SupersededHots == IF job.type = "gc" THEN DOMAIN disk.hots \ {gen}
                  ELSE {gen - 1} \cap DOMAIN disk.hots
SupersededSnaps == IF job.type = "gc" THEN DOMAIN disk.snaps \ {gen} ELSE {}
SupersededContent ==
    {x \in {"payload", "nodes"} \X (Gens \ {pgen}) :
        job.type = "gc" /\ disk.content[x[2]][x[1]].state # "absent"}

RemoveFiles(H, S, C) ==
    Writes([disk EXCEPT
             !.hots = Drop(@, H), !.snaps = Drop(@, S),
             !.content = [g \in Gens |-> [file \in {"payload", "nodes"} |->
                            IF <<file, g>> \in C THEN AbsentFile ELSE @[g][file]]]])

Recycle ==
    /\ pc = "recycle"
    /\ RemoveFiles(SupersededHots, SupersededSnaps, SupersededContent)
    /\ Return /\ Observed /\ UNCHANGED <<synced, mem, faults>>

\* Each removal is best effort: any of them may fail.
RecycleFails ==
    /\ pc = "recycle"
    /\ Fault
    /\ \E H \in SUBSET SupersededHots, S \in SUBSET SupersededSnaps,
          C \in SUBSET SupersededContent : RemoveFiles(H, S, C)
    /\ Return /\ Observed /\ UNCHANGED <<synced, mem>>

-----------------------------------------------------------------------------
(* Stopping *)

\* The process exits, in any way; the directory stays as it is.
ProcessCrash ==
    /\ "process" \in CrashKinds
    /\ pc # "closed"
    /\ Stops < MaxCrashes
    /\ crashes' = [crashes EXCEPT !.kills = @ + 1]
    /\ Stop
    /\ UNCHANGED <<directory, synced, acked, faults>>

\* What a power loss may leave of a content file, of a hot log, of a name.
FileLeft(file, n) ==
    IF file.state = "absent" THEN {file}
    ELSE {Truncated(file, k) : k \in (IF n < 0 THEN 0 ELSE n)..Len(file.data)}
           \cup (IF n < 0 THEN {AbsentFile, BareFile} ELSE {})

HotLeft(g) ==
    LET hot == disk.hots[g]
        n == IF g \in DOMAIN synced.hots THEN synced.hots[g] ELSE 0
    IN  {[frames |-> SubSeq(hot.frames, 1, k), torn |-> torn] :
            k \in n..Len(hot.frames), torn \in {FALSE, hot.torn \/ n < Len(hot.frames)}}
         \cup (IF g \in DOMAIN synced.hots THEN {} ELSE {None})

\* Every way to choose one element of F(x) for each x of D.
EachOf(D, F(_)) == {f \in [D -> UNION {F(x) : x \in D}] : \A x \in D : f[x] \in F(x)}

ContentLeft(g) ==
    [payload: FileLeft(disk.content[g].payload, synced.content[g].payload),
     nodes: FileLeft(disk.content[g].nodes, synced.content[g].nodes)]

FileSynced(file) == IF file.state = "ready" THEN Len(file.data) ELSE -1

\* After a power loss what is still there is on the device.
AllSynced(d) ==
    [manifest |-> d.manifest, snaps |-> DOMAIN d.snaps,
     hots |-> [g \in DOMAIN d.hots |-> Len(d.hots[g].frames)],
     content |-> [g \in Gens |-> [payload |-> FileSynced(d.content[g].payload),
                                  nodes |-> FileSynced(d.content[g].nodes)]]]

\* A writer has committed under the first manifest, whose rename may still be
\* undone: a writer before it was killed at that place.
FirstSealPending ==
    Ready /\ synced.manifest = 0 /\ disk.manifest = 1 /\ disk.hots[1].frames # <<>>

\* Power is lost: synced bytes survive, later ones may, and a rename that no
\* directory sync followed may be undone.  Power is lost once, and no I/O call
\* fails in that behaviour; beyond MaxCrashes it only takes back a first seal
\* that a killed writer left pending.
PowerLoss ==
    /\ "power" \in CrashKinds
    /\ crashes.outages = 0 /\ faults = 0
    /\ crashes' = [crashes EXCEPT !.outages = 1]
    /\ \E m \in {synced.manifest, disk.manifest},
          S \in SUBSET (DOMAIN disk.snaps \ synced.snaps),
          hots \in EachOf(DOMAIN disk.hots, HotLeft),
          content \in EachOf(Gens, ContentLeft) :
       /\ Stops < MaxCrashes \/ (FirstSealPending /\ m = 0)
       /\ Writes([manifest |-> m, snaps |-> Drop(disk.snaps, S),
                   hots |-> Drop(hots, {g \in DOMAIN hots : hots[g] = None}),
                   content |-> content])
    /\ synced' = AllSynced(disk')
    /\ Stop
    /\ UNCHANGED <<acked, faults>>

-----------------------------------------------------------------------------
(* Specification *)

Init ==
    /\ disk = EmptyDisk /\ auth = Authoritative(EmptyDisk)
    /\ synced = AllSynced(EmptyDisk)
    /\ pc = "closed" /\ mem = NewStore /\ gen = 0 /\ pgen = 0
    /\ poisoned = FALSE /\ job = None
    /\ acked = Promise(NewStore)
    /\ crashes = [kills |-> 0, outages |-> 0] /\ faults = 0

Opening ==
    \/ Open \/ HealOnOpen \/ CreatePayload \/ CreateNodes
    \/ PayloadHeader \/ NodesHeader \/ SyncHeaders \/ OpenHot \/ OpenFails

Calls ==
    \/ \E b \in Bindings \cup {None} : BeginCreate(b)
    \/ \E op \in SpliceOps, r \in Requests \cup {None} : BeginSplice(op, r)
    \/ \E op \in ForkOps, r \in Requests \cup {None} : BeginFork(op, r)
    \/ \E op \in Ops, r \in Requests : AnswerReplayed(op, r)
    \/ \E v \in VersionIds : BeginExpire(v)
    \/ \E r \in Requests : BeginRetire(r)
    \/ BeginSeal \/ BuildGc \/ BuildGcFails

Committing ==
    \/ AppendPayload \/ AppendPayloadFails \/ AppendNodes \/ AppendNodesFails
    \/ SyncContent \/ SyncContentFails
    \/ AppendFrame \/ AppendFrameFails \/ SyncFrame \/ SyncFrameFails

Publishing ==
    \/ PublishSnapshot \/ PublishSnapshotFails
    \/ PublishHot \/ PublishHotRefused \/ PublishHotFails
    \/ RenameManifest \/ RenameManifestFails
    \/ SyncManifest \/ SyncManifestFails
    \/ Recycle \/ RecycleFails

Next == Opening \/ Calls \/ Committing \/ Publishing \/ ProcessCrash \/ PowerLoss

Spec == Init /\ [][Next]_vars

-----------------------------------------------------------------------------
(* Properties *)

\* The durable authority implements the in-memory store: read through
\* recovery, the directory changes only by whole operations of HistoryStore,
\* and every other step, crash and failure leaves the recovered store as it
\* was.  So each crash cut recovers the old authority or the new one.  A power
\* loss may take back what was not acknowledged (AckedSurvives); from there on
\* the directory implements the store again.
HS == INSTANCE HistoryStore WITH store <- auth
ImplementsStore == HS!Init /\ [][HS!Next \/ PowerLoss]_auth

\* Between calls, a writer that is not poisoned holds in memory exactly what
\* a recovery of the directory would: it never serves or builds on a state
\* that a reopen would not give back (splice_durable .. gc_with_sync).
MemoryIsAuthority == Ready => mem = auth

\* While a writer is open, the content files hold, below its frontier, the
\* bytes its versions were committed with: failed appends, rollbacks, heals
\* and collections never touch committed content.
CommittedBytesStable ==
    pc \notin {"closed", "createPayload", "createNodes", "payloadHeader", "nodesHeader"} =>
        /\ FilesReady(Content0)
        /\ FilesCover(Content0, Frontier)
        /\ SubSeq(Content0.nodes.data, 1, Frontier) = mem.arena
        /\ None \notin {Content0.payload.data[i] : i \in 1..Frontier}

\* p keeps every promise of q.
Keeps(p, q) ==
    /\ q.histories \subseteq p.histories
    /\ q.expired \subseteq p.expired
    /\ \A v \in DOMAIN q.versions : v \in DOMAIN p.versions /\ p.versions[v] = q.versions[v]

\* Whatever was acknowledged is recovered: committed versions with lineage
\* and bytes, histories, and expiries, at every cut of every operation, seal
\* and collection (splice_durable .. gc_with_sync).  It is stated up to the
\* second stop: a writer killed between the manifest rename and its directory
\* sync is followed by one that commits to the new generation without syncing
\* the directory, and a power loss may then take that generation back.
AckedSurvives == Stops <= 1 => auth # None /\ Keeps(Promise(auth), acked)

\* A writable open would get through: recovery succeeds and the content files
\* are both there to heal or both absent to create.
Openable ==
    /\ Recovered(disk) # None
    /\ LET c == disk.content[SealedPgen(disk)]
       IN  FilesPresent(c) \/ c = AbsentContent

\* A directory that was opened once can be opened again wherever the writer
\* was killed: mid-commit, mid-seal, mid-collection or mid-cleanup.
StaysOpenable ==
    pc = "closed" /\ disk.hots # EmptyMap /\ crashes.outages = 0 => Openable

\* The generation a power loss may fall back to is always complete: its
\* snapshot, hot log and content files are there and durable, so nothing is
\* deleted before the manifest that supersedes it is durable
\* (recycle_superseded_hot, cleanup_superseded_generations).  It is stated up
\* to the first failure: a reopen seals over files a stopped writer left unsynced.
FallbackComplete ==
    Stops + faults = 0 => \A m \in {synced.manifest, disk.manifest} \ {0} :
        /\ m \in DOMAIN disk.snaps \cap DOMAIN disk.hots
        /\ m \in synced.snaps /\ m \in DOMAIN synced.hots
        /\ LET snap == disk.snaps[m]
               c == synced.content[snap.pgen]
           IN  /\ FilesReady(disk.content[snap.pgen])
               /\ FilesCover(disk.content[snap.pgen], snap.frontier)
               /\ c.payload >= snap.frontier /\ c.nodes >= snap.frontier
=============================================================================
