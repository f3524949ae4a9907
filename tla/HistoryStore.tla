---------------------------- MODULE HistoryStore ----------------------------
(***************************************************************************)
(* PersistentHistoryStore as a state machine over one in-memory store: one *)
(* action per mutating operation.  An operation that is rejected, replayed *)
(* or already done changes nothing and is a stuttering step.               *)
(*                                                                         *)
(* This is also the abstract specification of the durable authority:       *)
(* HistoryAuthority implements it with the store recovered from its files. *)
(***************************************************************************)
EXTENDS HistoryOps

VARIABLE store

-----------------------------------------------------------------------------
(* The store as a state machine *)

CreateHistory ==
    /\ CreateFresh(store, None)
    /\ store' = Create(store, None)

CreateHistoryWithBinding(binding) ==
    /\ CreateFresh(store, binding)
    /\ store' = Create(store, binding)

Splice(op, req) ==
    /\ PreviewFresh(store, op, req)
    /\ store' = ApplySplice(store, op, req)

AppendBytes(h, parent, bytes, req, binding) ==
    /\ parent # None => Known(store, parent)
    /\ Splice(AppendOp(store, h, parent, bytes, binding), req)

Fork(op, req) ==
    /\ PreviewFresh(store, op, req)
    /\ store' = ApplyFork(store, op, req)

Expire(v) ==
    /\ ExpireFresh(store, v)
    /\ store' = ApplyExpire(store, v)

RetireRequest(req) ==
    /\ RetireFresh(store, req)
    /\ store' = ApplyRetire(store, req)

Gc ==
    /\ GcReady(store)
    /\ store' = ApplyGc(store)

Init == store = NewStore

Next ==
    \/ CreateHistory
    \/ \E b \in Bindings : CreateHistoryWithBinding(b)
    \/ \E op \in SpliceOps, r \in Requests \cup {None} : Splice(op, r)
    \/ \E h \in HistoryIds, p \in VersionIds \cup {None}, i \in Inserts,
          r \in Requests \cup {None}, b \in Bindings \cup {None} :
            AppendBytes(h, p, i, r, b)
    \/ \E op \in ForkOps, r \in Requests \cup {None} : Fork(op, r)
    \/ \E v \in VersionIds : Expire(v)
    \/ \E r \in Requests : RetireRequest(r)
    \/ Gc

Spec == Init /\ [][Next]_store
-----------------------------------------------------------------------------
(* Properties *)

\* Every component of the store has its type: the fields of
\* PersistentHistoryStore, with counters that never pass u64::MAX.
TypeOK == StoreType(store)

\* No sequence of creates, edits, forks, expiries, retirements and
\* collections leads to a store its own snapshot gate refuses: sealing and
\* collecting stay possible (validate_snapshot_receipt_consistency and the
\* density, lineage and materialization checks of the snapshot codec).
SnapshotNeverRefused == SnapshotReady(store)

\* A retained version reads as the bytes its commit promised, whatever was
\* committed, forked, expired and compacted since (read, compact_to_roots).
RetainedReadsTrue ==
    \A v \in DOMAIN store.versions \ store.expired :
        Content(store, v) = store.versions[v].meant

\* The inductive invariant behind TypeOK and RetainedReadsTrue: identities are
\* dense, no request is in both ledgers, a promise is as long as its version
\* says, a retained version has a root, and every root that is left, also an
\* expired version's, leads to the promised bytes.
StoreInvariant ==
    /\ StoreType(store)
    /\ Dense(store)
    /\ LedgersDisjoint(store)
    /\ TreesTrue(store)

\* An active receipt names the version its own operation made: a retry that
\* replays gets the effect it asked for (preview_splice, preview_fork).
ReceiptsTellTheTruth ==
    \A r \in DOMAIN store.active :
        LET op == store.active[r].digest
            rec == store.versions[store.active[r].version]
        IN  /\ rec.request = r
            /\ rec.history = op.history
            /\ rec.parent = op.parent
            /\ rec.meant = Meaning(store, op)

\* Exactly once within the receipt horizon: a request identity commits a
\* second version only after Capacity later requests committed theirs
\* (push_fresh_receipt, enforce_receipt_horizon).
ExactlyOnceInHorizon ==
    \A v, w \in DOMAIN store.versions :
        (/\ v < w
         /\ store.versions[v].request # None
         /\ store.versions[v].request = store.versions[w].request)
        => Cardinality({u \in v+1..w-1 : store.versions[u].request # None}) >= Capacity

\* A committed version is immutable: its lineage, length, request and binding
\* never change, and while it is retained neither do its bytes.
VersionsImmutable ==
    [][\A v \in DOMAIN store.versions :
         /\ v \in DOMAIN store'.versions
         /\ [store'.versions[v] EXCEPT !.root = None] = [store.versions[v] EXCEPT !.root = None]
         /\ v \in DOMAIN store.versionBindings <=> v \in DOMAIN store'.versionBindings
         /\ v \in DOMAIN store.versionBindings =>
                store.versionBindings[v] = store'.versionBindings[v]
         /\ v \notin store'.expired => Content(store', v) = Content(store, v)]_store

\* Nothing comes back: an expired version stays expired and, once collected,
\* rootless; a retired request never answers with its version again; counters
\* never run backwards, so no identity is issued twice.
NothingResurrects ==
    [][/\ store.expired \subseteq store'.expired
       /\ DOMAIN store.retired \cap DOMAIN store'.active = {}
       /\ \A v \in store.expired :
              store.versions[v].root = None => store'.versions[v].root = None
       /\ store.nextHistory <= store'.nextHistory
       /\ store.nextVersion <= store'.nextVersion]_store
=============================================================================
