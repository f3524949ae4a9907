------------------------------- MODULE V2State -------------------------------
(***************************************************************************)
(* The committed state of the v2 format and the pure functions on it: the  *)
(* transaction checks, commit apply, request ledger, subtree deletion,     *)
(* export and import of the sealed base, hot-log recovery and compaction   *)
(* (apply_v2, transaction_v2, commit_v2, publication_v2, snapshot_v2,      *)
(* backend_v2, recovery_v2, hot_frame_v2, compaction_v2).                  *)
(*                                                                         *)
(* Version ids and checkpoint ordinals are positions and start at 1; 0 is  *)
(* no version.  A checkpoint's identity, messages and result versions are  *)
(* one sequence, uses, whose first is the identity.  A digest is the value *)
(* it digests.                                                             *)
(***************************************************************************)
EXTENDS SequenceArena

CONSTANTS
    None,           \* no parent, no request, no sealed base
    NoneVersion     \* V2_NONE_VERSION, the reserved version id

ASSUME NoneVersionAssumption == NoneVersion \in Nat \ {0}

EmptyState ==
    [payload |-> <<>>, nodes |-> <<>>, versions |-> <<>>, checkpoints |-> <<>>,
     ordinals |-> <<>>, requests |-> <<>>, retired |-> <<>>, deleted |-> {}]

Arena(s) == [payload |-> s.payload, nodes |-> s.nodes]

Geometry(s) ==
    [payload |-> Len(s.payload), nodes |-> Len(s.nodes),
     versions |-> Len(s.versions), checkpoints |-> Len(s.checkpoints)]

Without(f, keys) == [k \in DOMAIN f \ keys |-> f[k]]

-----------------------------------------------------------------------------
(* Checkpoints *)

KeyOf(cp) == <<cp.thread, cp.name>>

ParentKey(cp) == <<cp.thread, cp.parent>>

\* checkpoint_state_metadata over the roots a checkpoint uses.
StateOf(versions, uses) ==
    [i \in DOMAIN uses |-> [len |-> versions[uses[i]].root.len, com |-> versions[uses[i]].root.com]]

\* checkpoint_operation_digest: no version id is part of it.  The checkpoint
\* number it also hashes is not modelled: a caller retries with the same one.
OperationDigest(cp) == <<cp.thread, cp.name, cp.parent, cp.state>>

-----------------------------------------------------------------------------
(* A commit: [base, payload, nodes, versions, checkpoint, request] *)

\* The tables the commit would leave behind.
Grown(s, c) ==
    [s EXCEPT !.payload = @ \o c.payload, !.nodes = @ \o c.nodes, !.versions = @ \o c.versions]

\* transaction_v2: new leaves own the payload delta exactly, in any order.
LeavesOwnDelta(s, c) ==
    LET g == Grown(s, c)
        leaves == {i \in Len(s.nodes) + 1 .. Len(g.nodes) : g.nodes[i].leaf}
    IN  /\ \A i \in leaves : /\ g.nodes[i].off >= Len(s.payload)
                             /\ g.nodes[i].off + g.nodes[i].len <= Len(g.payload)
        /\ Disjoint(g.nodes, leaves)
        /\ FoldSet(LAMBDA i, sum : g.nodes[i].len + sum, 0, leaves) = Len(c.payload)

\* Mutant: a new node is not compared with its bytes or children.
NodesHoldUnread(s, c) ==
    LET g == Grown(s, c) IN
    /\ LeavesOwnDelta(s, c)
    /\ \A i \in Len(s.nodes) + 1 .. Len(g.nodes) :
           ~g.nodes[i].leaf => g.nodes[i].left < i /\ g.nodes[i].right < i

\* Nodes name earlier nodes and are what their bytes or children give.
NodesHold(s, c) ==
    LET g == Grown(s, c) IN
    /\ LeavesOwnDelta(s, c)
    /\ \A i \in Len(s.nodes) + 1 .. Len(g.nodes) :
           /\ ~g.nodes[i].leaf => g.nodes[i].left < i /\ g.nodes[i].right < i
           /\ ValidNode(Arena(g), i)

\* Mutant: the last version may take the reserved id.
VersionsHoldReserved(s, c) ==
    LET g == Grown(s, c) IN
    /\ Len(g.versions) <= NoneVersion + 1
    /\ \A v \in Len(s.versions) + 1 .. Len(g.versions) :
           /\ g.versions[v].parent < v
           /\ NodeForRoot(Arena(g), g.versions[v].root)

\* The version table may not reach the reserved id.
VersionsHold(s, c) ==
    LET g == Grown(s, c) IN
    /\ Len(g.versions) <= NoneVersion
    /\ \A v \in Len(s.versions) + 1 .. Len(g.versions) :
           /\ g.versions[v].parent < v
           /\ NodeForRoot(Arena(g), g.versions[v].root)

CheckpointHolds(s, c) ==
    LET g == Grown(s, c)  cp == c.checkpoint IN
    /\ KeyOf(cp) \notin DOMAIN s.ordinals \union s.deleted
    /\ cp.parent # None => ParentKey(cp) \in DOMAIN s.ordinals
    /\ \A i \in DOMAIN cp.uses : cp.uses[i] \in DOMAIN g.versions
    /\ cp.state = StateOf(g.versions, cp.uses)

-----------------------------------------------------------------------------
(* apply_v2_commit *)

ClassifyRequest(s, request, digest) ==
    IF request = None THEN "new"
    ELSE IF request \in DOMAIN s.requests
    THEN IF s.requests[request].digest = digest THEN "replayed" ELSE "conflict"
    ELSE IF request \in DOMAIN s.retired
    THEN IF s.retired[request] = digest THEN "retired" ELSE "conflict"
    ELSE "new"

Committed(s, c) ==
    LET g == Grown(s, c)
        ordinal == Len(s.checkpoints) + 1
        digest == OperationDigest(c.checkpoint)
    IN  [g EXCEPT
            !.checkpoints = Append(@, c.checkpoint),
            !.ordinals = (KeyOf(c.checkpoint) :> ordinal) @@ @,
            !.requests = IF c.request = None THEN @
                         ELSE (c.request :> [digest |-> digest, ordinal |-> ordinal]) @@ @]

\* The request is looked up before the geometry is compared.
ApplyCommit(s, c) ==
    LET class == ClassifyRequest(s, c.request, OperationDigest(c.checkpoint)) IN
    IF class # "new" THEN [out |-> class, state |-> s]
    ELSE IF /\ c.base = Geometry(s)
            /\ NodesHold(s, c) /\ VersionsHold(s, c) /\ CheckpointHolds(s, c)
    THEN [out |-> "applied", state |-> Committed(s, c)]
    ELSE [out |-> "refused", state |-> s]

RetireRequest(s, request) ==
    [s EXCEPT !.requests = Without(@, {request}),
              !.retired = (request :> s.requests[request].digest) @@ @]

-----------------------------------------------------------------------------
(* Subtree deletion *)

\* validate_delete_source_state
IndexHolds(s) ==
    /\ DOMAIN s.ordinals = {KeyOf(s.checkpoints[i]) : i \in DOMAIN s.checkpoints}
    /\ \A i \in DOMAIN s.checkpoints :
           LET cp == s.checkpoints[i] IN
           /\ s.ordinals[KeyOf(cp)] = i
           /\ KeyOf(cp) \notin s.deleted
           /\ cp.parent # None => \E j \in 1 .. i - 1 : KeyOf(s.checkpoints[j]) = ParentKey(cp)

LedgersHold(s) ==
    /\ DOMAIN s.requests \intersect DOMAIN s.retired = {}
    /\ \A r \in DOMAIN s.requests :
           /\ s.requests[r].ordinal \in DOMAIN s.checkpoints
           /\ OperationDigest(s.checkpoints[s.requests[r].ordinal]) = s.requests[r].digest

\* Mutant: only the children of the target go with it.
SubtreeChildren(s, key) ==
    {i \in DOMAIN s.checkpoints :
        KeyOf(s.checkpoints[i]) = key \/ ParentKey(s.checkpoints[i]) = key}

\* The target and every later checkpoint whose parent goes.
SubtreeOf(s, key) ==
    FoldLeft(LAMBDA gone, i :
                 IF \/ KeyOf(s.checkpoints[i]) = key
                    \/ \E j \in gone : KeyOf(s.checkpoints[j]) = ParentKey(s.checkpoints[i])
                 THEN gone \union {i} ELSE gone,
             {}, [i \in DOMAIN s.checkpoints |-> i])

\* Mutant: the requests of what stays keep their ordinals.
MovedRequestsKept(s, gone) ==
    [r \in {q \in DOMAIN s.requests : s.requests[q].ordinal \notin gone} |-> s.requests[r]]

MovedRequests(s, gone) ==
    [r \in {q \in DOMAIN s.requests : s.requests[q].ordinal \notin gone} |->
        [s.requests[r] EXCEPT !.ordinal = @ - Cardinality({i \in gone : i < @})]]

\* Mutant: the arena outlives the last checkpoint.
ClearedNever(s) == s

\* Without a checkpoint there is no sequence state.
Cleared(s) ==
    IF s.checkpoints = <<>>
    THEN [s EXCEPT !.payload = <<>>, !.nodes = <<>>, !.versions = <<>>] ELSE s

\* prepare_delete_ledgers and the apply that swaps them in.
DeleteSubtree(s, key) ==
    LET gone == SubtreeOf(s, key)
        kept == FoldLeft(LAMBDA acc, i : IF i \in gone THEN acc ELSE Append(acc, s.checkpoints[i]),
                         <<>>, [i \in DOMAIN s.checkpoints |-> i])
        dead == {r \in DOMAIN s.requests : s.requests[r].ordinal \in gone}
        t == [s EXCEPT
                !.checkpoints = kept,
                !.ordinals = [k \in {KeyOf(kept[i]) : i \in DOMAIN kept} |->
                                 CHOOSE i \in DOMAIN kept : KeyOf(kept[i]) = k],
                !.requests = MovedRequests(s, gone),
                !.retired = [r \in dead |-> s.requests[r].digest] @@ @,
                !.deleted = @ \union {KeyOf(s.checkpoints[i]) : i \in gone}]
    IN  Cleared(t)

DeleteHolds(s, key) == IndexHolds(s) /\ LedgersHold(s) /\ key \in DOMAIN s.ordinals

-----------------------------------------------------------------------------
(* The sealed base *)

\* validate_snapshot, which both the encoder and the decoder run.
SnapshotHolds(s) ==
    /\ IF s.checkpoints = <<>>
       THEN Geometry(s) = Geometry(EmptyState) /\ DOMAIN s.requests = {}
       ELSE /\ ImportAccepts(Arena(s), {s.versions[v].root : v \in DOMAIN s.versions})
            /\ \A v \in DOMAIN s.versions : s.versions[v].parent < v
    /\ \A i \in DOMAIN s.checkpoints :
           LET cp == s.checkpoints[i] IN
           /\ \A u \in DOMAIN cp.uses : cp.uses[u] \in DOMAIN s.versions
           /\ cp.state = StateOf(s.versions, cp.uses)
    /\ IndexHolds(s)
    /\ LedgersHold(s)

\* Mutant: the retired ledger is sealed only when nothing else is.
ExportStateLive(s) ==
    IF s = EmptyState THEN None
    ELSE IF s.checkpoints = <<>> THEN s ELSE [s EXCEPT !.retired = <<>>]

\* A state nothing was ever done to has no artifact.
ExportState(s) == IF s = EmptyState THEN None ELSE s

\* The importer rebuilds the index from the checkpoint table.
ImportState(sealed) ==
    IF sealed = None THEN EmptyState
    ELSE [sealed EXCEPT !.ordinals =
             [k \in {KeyOf(sealed.checkpoints[i]) : i \in DOMAIN sealed.checkpoints} |->
                 CHOOSE i \in DOMAIN sealed.checkpoints : KeyOf(sealed.checkpoints[i]) = k]]

-----------------------------------------------------------------------------
(* Hot-log recovery *)

\* recover_v2_hot_wal stops at a torn frame.
Complete(frames) ==
    LET torn == {i \in DOMAIN frames : ~frames[i].whole}
    IN  IF torn = {} THEN frames ELSE SubSeq(frames, 1, Min(torn) - 1)

Applied(res) == IF res.out = "applied" THEN [ok |-> TRUE, state |-> res.state] ELSE Refused

\* A frame that does not apply fails the recovery.
Recovered(sealed, frames) ==
    FoldLeft(LAMBDA acc, f :
                 Then(acc, LAMBDA a : Applied(ApplyCommit(a.state, f.commit))),
             [ok |-> TRUE, state |-> ImportState(sealed)], Complete(frames))

-----------------------------------------------------------------------------
(* Compaction *)

RECURSIVE WithAncestors(_, _)

\* plan_retained_versions: what checkpoints use, and the ancestry of that.
WithAncestors(s, ids) ==
    LET more == ids \union ({s.versions[v].parent : v \in ids} \ {0})
    IN  IF more = ids THEN ids ELSE WithAncestors(s, more)

\* Mutant: ancestors are not retained.
RetainedUsed(s) ==
    UNION {Range(s.checkpoints[i].uses) : i \in DOMAIN s.checkpoints}

RetainedVersions(s) ==
    WithAncestors(s, UNION {Range(s.checkpoints[i].uses) : i \in DOMAIN s.checkpoints})

\* prepare_v2_compaction and its apply, under one borrow; ledgers stay.
CompactState(s) ==
    LET keep == RetainedVersions(s)
        order == Ascending(keep, LAMBDA v : v)
        Version(v) == IF v = 0 THEN 0 ELSE NewId(keep, v)
    IN  Then(CompactTo(Arena(s), {s.versions[v].root.id : v \in keep}), LAMBDA res :
            LET versions == [i \in DOMAIN order |->
                                [parent |-> Version(s.versions[order[i]].parent),
                                 root |-> RootAt(res.arena, res.ids[s.versions[order[i]].root.id])]]
                checkpoints == [i \in DOMAIN s.checkpoints |->
                                   [s.checkpoints[i] EXCEPT
                                       !.uses = [u \in DOMAIN @ |-> Version(@[u])]]]
            IN  IF \A i \in DOMAIN checkpoints :
                       checkpoints[i].state = StateOf(versions, checkpoints[i].uses)
                THEN [ok |-> TRUE,
                      state |-> [s EXCEPT !.payload = res.arena.payload, !.nodes = res.arena.nodes,
                                          !.versions = versions, !.checkpoints = checkpoints]]
                ELSE Refused)

\* prepare_compacted_v2_sealed_artifact
CompactedArtifact(s) ==
    Then(CompactState(s), LAMBDA res :
        IF IndexHolds(s) /\ SnapshotHolds(res.state)
        THEN [ok |-> TRUE, sealed |-> ExportState(res.state)] ELSE Refused)
=============================================================================
