-------------------------- MODULE HistoryRecovery ---------------------------
(***************************************************************************)
(* What a history directory holds and what opening it recovers: manifest,  *)
(* sealed snapshots, hot logs and content files, and open_history_authority*)
(* as an operator on them.                                                 *)
(*                                                                         *)
(* Abstractions.  A hot log is its complete frames and whether a torn      *)
(* prefix of one more follows them; framing and SHA-256 make a complete    *)
(* frame recognizable.  A content file is the sequence of the deltas       *)
(* appended to it; None is a delta only part of which was written.  A      *)
(* payload delta is the inserted bytes, a node delta the tree, that is the *)
(* bytes it spells.  Offsets count deltas.                                 *)
(***************************************************************************)
EXTENDS HistoryOps

CONSTANTS MaxGen            \* the largest generation of manifest and content

ASSUME GenAssumption == MaxGen \in Nat

Gens == 0..MaxGen

-----------------------------------------------------------------------------
(* Files *)

AbsentFile == [state |-> "absent", data |-> <<>>]
BareFile == [state |-> "bare", data |-> <<>>]      \* created, header not written
ReadyFile(data) == [state |-> "ready", data |-> data]

AbsentContent == [payload |-> AbsentFile, nodes |-> AbsentFile]

EmptyHot == [frames |-> <<>>, torn |-> FALSE]

\* The directory of a store nobody has opened yet.  manifest is the
\* generation the manifest file names, 0 when there is no manifest file.
EmptyDisk ==
    [manifest |-> 0, snaps |-> EmptyMap, hots |-> EmptyMap,
     content |-> [g \in Gens |-> AbsentContent]]

FilesPresent(c) == c.payload.state # "absent" /\ c.nodes.state # "absent"

FilesReady(c) == c.payload.state = "ready" /\ c.nodes.state = "ready"

FilesCover(c, frontier) ==
    Len(c.payload.data) >= frontier /\ Len(c.nodes.data) >= frontier

Truncated(file, n) ==
    [file EXCEPT !.data = SubSeq(@, 1, IF Len(@) < n THEN Len(@) ELSE n)]

TruncatedContent(c, n) ==
    [payload |-> Truncated(c.payload, n), nodes |-> Truncated(c.nodes, n)]

-----------------------------------------------------------------------------
(* Snapshots: metadata and the frontier, never content *)

\* Mutant: the expired set is not encoded.
SnapshotOfUnexpired(s, pgen) ==
    [store |-> [s EXCEPT !.arena = <<>>, !.expired = {}], pgen |-> pgen, frontier |-> Len(s.arena)]

SnapshotOf(s, pgen) ==
    [store |-> [s EXCEPT !.arena = <<>>], pgen |-> pgen, frontier |-> Len(s.arena)]

\* Binding a snapshot to its content files: the arena is what the node file
\* spells up to the frontier; missing files or bytes fail closed.
ImportSnapshot(snap, c) ==
    IF FilesReady(c) /\ FilesCover(c, snap.frontier)
    THEN [snap.store EXCEPT !.arena = SubSeq(c.nodes.data, 1, snap.frontier)]
    ELSE None

\* Generation zero before any manifest: files bind when both are there, and
\* then must have their headers; otherwise binding is deferred.
GenesisHalfBuilt(c) == FilesPresent(c) /\ ~FilesReady(c)

-----------------------------------------------------------------------------
(* Frames of the hot log and their replay *)

CreateFrame(h, binding) == [type |-> "create", history |-> h, binding |-> binding]

CommitFrame(v, op, req, place) ==
    [type |-> "commit", version |-> v, op |-> op, request |-> req, place |-> place]

ExpireFrame(s, v) ==
    [type |-> "expire", history |-> s.versions[v].history, version |-> v]

RetireFrame(s, req) ==
    [type |-> "retire", request |-> req, digest |-> s.active[req].digest]

\* Where a splice put its delta, with the digest over its bytes.
Placement(pgen, index, payload, tree) ==
    [pgen |-> pgen, index |-> index, payload |-> payload, tree |-> tree]

\* validate_committed_delta: contiguous with the frontier, in this physical
\* generation, and the bytes in the files are the ones the frame was
\* written for.
PlacementHolds(s, place, pgen, c) ==
    /\ place.pgen = pgen
    /\ place.index = Len(s.arena) + 1
    /\ FilesReady(c)
    /\ FilesCover(c, place.index)
    /\ c.payload.data[place.index] = place.payload
    /\ c.nodes.data[place.index] = place.tree

ReplayCommitAllowed(s, f, pgen, c) ==
    /\ Valid(s, f.op)
    /\ f.op.parent # None =>
         /\ f.op.parent \notin s.expired
         /\ s.versions[f.op.parent].root # None
    /\ f.version = s.nextVersion
    /\ s.nextVersion < MaxVersion
    /\ f.op.kind = "splice" => PlacementHolds(s, f.place, pgen, c)
    /\ Unrecorded(s, f.request)

ReplayAllowed(s, f, pgen, c) ==
    CASE f.type = "create" -> f.history = s.nextHistory /\ s.nextHistory < MaxHistory
      [] f.type = "commit" -> ReplayCommitAllowed(s, f, pgen, c)
      [] f.type = "expire" -> Known(s, f.version) /\ s.versions[f.version].history = f.history
      [] f.type = "retire" -> Replays(s, f.request, f.digest) /\ f.request \notin DOMAIN s.retired

ReplayEffect(s, f, c) ==
    CASE f.type = "create" -> Create(s, f.binding)
      [] f.type = "commit" ->
            IF f.op.kind = "fork" THEN ApplyFork(s, f.op, f.request)
            ELSE AdoptTree(s, f.op, f.request, c.nodes.data[f.place.index])
      [] f.type = "expire" -> IF f.version \in s.expired THEN s ELSE ApplyExpire(s, f.version)
      [] f.type = "retire" -> ApplyRetire(s, f.request)

\* apply_recovered_record; one record out of order fails the whole recovery.
ReplayRecord(s, f, pgen, c) ==
    IF s = None THEN None
    ELSE IF ReplayAllowed(s, f, pgen, c) THEN ReplayEffect(s, f, c) ELSE None

\* The stores the replay goes through: after[n] once n frames are applied.
ReplayStates(base, frames, pgen, c) ==
    LET after[n \in 0..Len(frames)] ==
            IF n = 0 THEN base ELSE ReplayRecord(after[n - 1], frames[n], pgen, c)
    IN  after

\* replay_history_suffix
ReplaySuffix(base, frames, pgen, c) ==
    LET replayed == ReplayStates(base, frames, pgen, c)[Len(frames)]
    IN  IF replayed = None THEN None
        ELSE IF BindingsUnique(replayed) THEN replayed ELSE None

-----------------------------------------------------------------------------
(* Opening *)

SealedPgen(disk) ==
    IF disk.manifest = 0 THEN 0 ELSE disk.snaps[disk.manifest].pgen

\* Mutant: a missing log is always taken for an empty one.
HotFramesLenient(disk, gen) ==
    IF gen \in DOMAIN disk.hots THEN disk.hots[gen].frames ELSE <<>>

\* The frames of the hot log of a generation.  Only before the first manifest
\* may the log be missing, and then it counts as empty.
HotFrames(disk, gen) ==
    IF gen \in DOMAIN disk.hots THEN disk.hots[gen].frames
    ELSE IF gen = 0 THEN <<>> ELSE None

\* The store the directory stands for: the sealed base and the hot suffix
\* replayed on it.  None when they do not fit together.
Authoritative(disk) ==
    LET gen == disk.manifest
        pgen == SealedPgen(disk)
        c == disk.content[pgen]
        base == IF gen = 0 THEN NewStore ELSE ImportSnapshot(disk.snaps[gen], c)
    IN  IF gen # 0 /\ gen \notin DOMAIN disk.snaps THEN None
        ELSE IF base = None \/ HotFrames(disk, gen) = None THEN None
        ELSE ReplaySuffix(base, HotFrames(disk, gen), pgen, c)

\* open_history_authority in one look at the directory: None when it fails.
Recovered(disk) ==
    IF disk.manifest = 0 /\ GenesisHalfBuilt(disk.content[0]) THEN None
    ELSE Authoritative(disk)
=============================================================================
