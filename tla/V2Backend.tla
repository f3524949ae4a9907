------------------------------ MODULE V2Backend ------------------------------
(***************************************************************************)
(* A v2 backend in use: commits are encoded against the state of the day   *)
(* and applied later, requests are retried, subtrees deleted, the state    *)
(* compacted and sealed, and the process loses its memory and recovers     *)
(* from the sealed base and the hot log.                                   *)
(*                                                                         *)
(* No released code drives these functions yet.  What a driver must do is  *)
(* taken from them: a frame is written for every commit that applies, and  *)
(* a change the log cannot carry (deletion, retirement, compaction) is     *)
(* sealed before the next frame, or recovery would refuse that frame's     *)
(* geometry.                                                               *)
(***************************************************************************)
EXTENDS V2State

CONSTANTS
    Threads,        \* thread ids
    Names,          \* checkpoint ids within a thread
    Requests,       \* request ids
    Texts,          \* texts a commit adds
    MaxCommits,     \* commits encoded
    MaxPrepared,    \* commits encoded and not yet applied
    MaxChanges,     \* deletions and retirements
    MaxCrashes      \* crashes

ASSUME BackendAssumption ==
    /\ None \notin Names /\ None \notin Requests
    /\ MaxCommits \in Nat /\ MaxPrepared \in Nat /\ MaxChanges \in Nat /\ MaxCrashes \in Nat

VARIABLES
    st,             \* the committed state in memory
    sealed,         \* the sealed base, or None
    hot,            \* [whole, commit] frames after it
    dirty,          \* st holds a change only a seal makes durable
    prep,           \* [commit, texts] encoded and not yet applied
    meant,          \* key -> the texts its writer meant it to hold
    asked,          \* request -> the key its first commit made
    gone,           \* keys whose deletion was sealed
    count           \* [commits, changes, crashes]

vars == <<st, sealed, hot, dirty, prep, meant, asked, gone, count>>
durable == <<sealed, hot>>
ghosts == <<meant, asked, gone>>

Keys == Threads \X Names

-----------------------------------------------------------------------------
(* Encoding a commit *)

\* What b has after a.
Delta(a, b) ==
    [payload |-> SubSeq(b.payload, Len(a.payload) + 1, Len(b.payload)),
     nodes |-> SubSeq(b.nodes, Len(a.nodes) + 1, Len(b.nodes))]

Commit(key, parent, request, delta, versions, uses) ==
    LET table == st.versions \o versions
    IN  [base |-> Geometry(st), payload |-> delta.payload, nodes |-> delta.nodes,
         versions |-> versions, request |-> request,
         checkpoint |-> [thread |-> key[1], name |-> key[2], parent |-> parent, uses |-> uses,
                         state |-> StateOf(table, uses)]]

Encode(commit, texts) ==
    /\ prep' = prep \union {[commit |-> commit, texts |-> texts]}
    /\ count' = [count EXCEPT !.commits = @ + 1]
    /\ UNCHANGED <<st, durable, dirty, ghosts>>

TextOf(v) == ReadRange(Arena(st), st.versions[v].root, 0, st.versions[v].root.len).bytes

\* A checkpoint without a parent: one new root, of its own or derived from any
\* version there is.
EncodeNew(key, from, request, text) ==
    \E root \in {IF from = 0 THEN NoRoot ELSE st.versions[from].root} :
    \E new \in {Splice(Arena(st), root, root.len, 0, text)} :
        Encode(Commit(key, None, request, Delta(st, new.arena),
                      <<[parent |-> from, root |-> new.root]>>, <<Len(st.versions) + 1>>),
               <<(IF from = 0 THEN <<>> ELSE TextOf(from)) \o text>>)

\* A child keeps the identity of its parent and extends what it read last.
EncodeChild(key, cp, request, text) ==
    /\ cp.thread = key[1]
    /\ \E root \in {st.versions[Last(cp.uses)].root} :
       \E new \in {Splice(Arena(st), root, root.len, 0, text)} :
           Encode(Commit(key, cp.name, request, Delta(st, new.arena),
                         <<[parent |-> Last(cp.uses), root |-> new.root]>>,
                         <<cp.uses[1], Len(st.versions) + 1>>),
                  <<meant[KeyOf(cp)][1], Last(meant[KeyOf(cp)]) \o text>>)

\* A fork uses its parent's versions and adds nothing to the arena.
EncodeFork(key, cp, request) ==
    /\ cp.thread = key[1]
    /\ Encode(Commit(key, cp.name, request, [payload |-> <<>>, nodes |-> <<>>], <<>>, cp.uses),
              meant[KeyOf(cp)])

-----------------------------------------------------------------------------
(* Applying it *)

\* What the commit p was meant to do, once it is done.
Noted(p) ==
    LET key == KeyOf(p.commit.checkpoint)  request == p.commit.request IN
    /\ meant' = (key :> p.texts) @@ meant
    /\ asked' = IF request = None THEN asked ELSE (request :> key) @@ asked

\* The frame is on disk before the commit is applied and answered.
Apply(p) ==
    /\ \E res \in {ApplyCommit(st, p.commit)} :
           /\ res.out = "applied" => ~dirty
           /\ st' = res.state
           /\ IF res.out = "applied"
              THEN hot' = Append(hot, [whole |-> TRUE, commit |-> p.commit]) /\ Noted(p)
              ELSE UNCHANGED <<hot, meant, asked>>
    /\ prep' = prep \ {p}
    /\ UNCHANGED <<sealed, dirty, gone, count>>

\* The process ends while the frame is written: a torn tail, or a whole frame
\* whose commit nobody was told of.
CrashWriting(p, whole) ==
    LET frames == Append(hot, [whole |-> whole, commit |-> p.commit]) IN
    /\ ApplyCommit(st, p.commit).out = "applied" /\ ~dirty
    /\ count.crashes < MaxCrashes
    /\ st' = Recovered(sealed, frames).state
    /\ hot' = Complete(frames)
    /\ IF whole THEN Noted(p) ELSE UNCHANGED <<meant, asked>>
    /\ count' = [count EXCEPT !.crashes = @ + 1]
    /\ UNCHANGED <<sealed, dirty, prep, gone>>

\* A crash with nothing being written; changes not sealed are undone.
Crash ==
    /\ count.crashes < MaxCrashes
    /\ \E res \in {Recovered(sealed, hot)} : res.ok /\ st' = res.state
    /\ dirty' = FALSE
    /\ count' = [count EXCEPT !.crashes = @ + 1]
    /\ UNCHANGED <<durable, prep, ghosts>>

-----------------------------------------------------------------------------
(* Changes the log does not carry *)

Change(s) ==
    /\ st' = s
    /\ dirty' = TRUE
    /\ UNCHANGED <<durable, prep, ghosts>>

Counted ==
    /\ count.changes < MaxChanges
    /\ count' = [count EXCEPT !.changes = @ + 1]

Retire(request) ==
    /\ request \in DOMAIN st.requests
    /\ Change(RetireRequest(st, request))
    /\ Counted

Delete(key) ==
    /\ DeleteHolds(st, key)
    /\ Change(DeleteSubtree(st, key))
    /\ Counted

Compact ==
    /\ \E res \in {CompactState(st)} : res.ok /\ res.state # st /\ Change(res.state)
    /\ UNCHANGED count

\* export_v2_sealed_state; the artifact may be the compacted one.
Seal ==
    /\ dirty \/ hot # <<>>
    /\ SnapshotHolds(st)
    /\ sealed' = ExportState(st)
    /\ hot' = <<>>
    /\ dirty' = FALSE
    /\ gone' = st.deleted
    /\ UNCHANGED <<st, prep, meant, asked, count>>

SealCompacted ==
    /\ dirty \/ hot # <<>>
    /\ \E res \in {CompactedArtifact(st)} :
           res.ok /\ sealed' = res.sealed /\ st' = ImportState(res.sealed)
    /\ hot' = <<>>
    /\ dirty' = FALSE
    /\ gone' = st.deleted
    /\ UNCHANGED <<prep, meant, asked, count>>

-----------------------------------------------------------------------------
Init ==
    /\ st = EmptyState
    /\ sealed = None
    /\ hot = <<>>
    /\ dirty = FALSE
    /\ prep = {}
    /\ meant = <<>>
    /\ asked = <<>>
    /\ gone = {}
    /\ count = [commits |-> 0, changes |-> 0, crashes |-> 0]

EncodeAny ==
    /\ count.commits < MaxCommits
    /\ Cardinality(prep) < MaxPrepared
    /\ \E key \in Keys, request \in Requests \union {None} :
        \/ \E text \in Texts, from \in {0} \union DOMAIN st.versions :
               EncodeNew(key, from, request, text)
        \/ \E i \in DOMAIN st.checkpoints :
               \/ \E text \in Texts :
                      EncodeChild(key, st.checkpoints[i], request, text)
               \/ EncodeFork(key, st.checkpoints[i], request)

Next ==
    \/ EncodeAny
    \/ \E p \in prep : Apply(p)
    \/ \E p \in prep, whole \in BOOLEAN : CrashWriting(p, whole)
    \/ Crash
    \/ \E request \in Requests : Retire(request)
    \/ \E key \in Keys : Delete(key)
    \/ Compact
    \/ Seal
    \/ SealCompacted

Spec == Init /\ [][Next]_vars

-----------------------------------------------------------------------------
(* Properties *)

Texted(cp) == [i \in DOMAIN cp.uses |->
                  LET root == st.versions[cp.uses[i]].root
                  IN  ReadRange(Arena(st), root, 0, root.len)]

\* Every live checkpoint reads what its writer meant, whatever was deleted,
\* compacted, sealed, recovered or committed between the encoding of its
\* commit and its apply: a commit that outlived the state it was encoded
\* against is refused, or still names the same text (apply_v2_commit).
ReadsMeant ==
    \A i \in DOMAIN st.checkpoints :
        LET cp == st.checkpoints[i]  reads == Texted(cp) IN
        /\ KeyOf(cp) \in DOMAIN meant
        /\ \A u \in DOMAIN reads : reads[u].ok /\ reads[u].bytes = meant[KeyOf(cp)][u]

\* The state in memory is what recovery makes of the sealed base and the hot
\* log, ledgers and tombstones included; no acknowledged commit makes the log
\* unrecoverable (recover_v2_backend).
RecoversExactly ==
    \A res \in {Recovered(sealed, hot)} : res.ok /\ (dirty \/ res.state = st)

\* A request whose commit was ever applied is never new again: it answers
\* with the checkpoint it made, or that it is retired (classify_request over
\* deletion, retirement, sealing and recovery).
RequestsRemembered ==
    \A r \in DOMAIN asked :
        IF r \in DOMAIN st.requests
        THEN /\ st.requests[r].ordinal \in DOMAIN st.checkpoints
             /\ KeyOf(st.checkpoints[st.requests[r].ordinal]) = asked[r]
        ELSE r \in DOMAIN st.retired

\* A deletion that was sealed bars its identities for good, and what hangs
\* below a deleted checkpoint is deleted with it (prepare_delete_ledgers).
DeletedStaysDeleted ==
    /\ gone \subseteq st.deleted
    /\ DOMAIN st.ordinals \intersect st.deleted = {}
    /\ \A i \in DOMAIN st.checkpoints :
           ParentKey(st.checkpoints[i]) \notin st.deleted

\* Any committed state exports as a sealed base or has nothing to export, and
\* its compacted artifact is never refused (docs/FORMAT_V2_BACKEND_STATE.md,
\* "a canonical export of that state produces").
Sealable == SnapshotHolds(st) /\ CompactedArtifact(st).ok

\* Every version extends the text of the version it derives from: compaction
\* keeps the ancestors of what is used, and renumbers them with it
\* (plan_retained_versions, rebuild_compact_versions).
AncestryKept ==
    \A v \in DOMAIN st.versions : st.versions[v].parent # 0 =>
        IsStrictPrefix(TextOf(st.versions[v].parent), TextOf(v))
=============================================================================
