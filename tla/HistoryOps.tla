----------------------------- MODULE HistoryOps -----------------------------
(***************************************************************************)
(* The operations of PersistentHistoryStore, the versioned history store   *)
(* of tulya-core, as operators from store to store: the catalogue of       *)
(* immutable versions, the bounded idempotency ledgers, version expiry and *)
(* the compaction of the content arena.  HistoryStore makes them a state   *)
(* machine; the durable authority applies the same operators live and in   *)
(* recovery.                                                               *)
(*                                                                         *)
(* Abstractions.  The balanced tree behind a version is the byte sequence  *)
(* it spells: the arena maps a root to that sequence.  The SHA-256 digest  *)
(* of an operation is the operation itself.  Allocation failures reject an *)
(* operation with nothing changed and are stuttering steps.                *)
(*                                                                         *)
(* Two fields of a version record exist only for the properties and are    *)
(* read by no operation: meant, the bytes the commit promised, and request,*)
(* the request identity that created the version (None without one).       *)
(***************************************************************************)
EXTENDS Integers, Sequences, FiniteSets

CONSTANTS
    Bytes,          \* the alphabet of content
    Inserts,        \* the byte sequences a caller may insert
    Requests,       \* request identities
    Bindings,       \* external identities of histories and versions
    None,           \* absence: no parent, no request, no binding, no root
    Capacity,       \* STAGING_REQUEST_RECEIPT_CAPACITY
    MaxHistory,     \* the largest value of the history counter (u64::MAX)
    MaxVersion,     \* the largest value of the version counter (u64::MAX)
    MaxLen          \* the largest length of a version (u64::MAX)

ASSUME StoreAssumption ==
    /\ Capacity \in Nat \ {0}
    /\ MaxHistory \in Nat
    /\ MaxVersion \in Nat
    /\ MaxLen \in Nat
    /\ Inserts \subseteq Seq(Bytes)
    /\ None \notin Requests \cup Bindings \cup Int

-----------------------------------------------------------------------------
(* Values *)

HistoryIds == 0..MaxHistory - 1
VersionIds == 0..MaxVersion - 1

\* What the two mutating operations say; also their digest, which binds the
\* operation domain, the history, the parent, the edit and the binding.
SpliceOps ==
    [kind: {"splice"}, history: HistoryIds, parent: VersionIds \cup {None},
     offset: 0..MaxLen, delete: 0..MaxLen, insert: Inserts,
     binding: Bindings \cup {None}]

ForkOps ==
    [kind: {"fork"}, history: HistoryIds, parent: VersionIds,
     binding: Bindings \cup {None}]

Ops == SpliceOps \cup ForkOps

VersionRecords ==
    [history: HistoryIds, parent: VersionIds \cup {None},
     root: Nat \cup {None}, len: 1..MaxLen, meant: Seq(Bytes),
     request: Requests \cup {None}]

EmptyMap == [x \in {} |-> None]

NewStore ==
    [histories |-> {}, versions |-> EmptyMap,
     nextHistory |-> 0, nextVersion |-> 0,
     active |-> EmptyMap, retired |-> EmptyMap, order |-> <<>>,
     expired |-> {}, historyBindings |-> EmptyMap,
     versionBindings |-> EmptyMap, arena |-> <<>>]

-----------------------------------------------------------------------------
(* Finite maps *)

Put(f, k, v) == [x \in DOMAIN f \cup {k} |-> IF x = k THEN v ELSE f[x]]
Drop(f, K) == [x \in DOMAIN f \ K |-> f[x]]

PutBinding(f, k, b) == IF b = None THEN f ELSE Put(f, k, b)

-----------------------------------------------------------------------------
(* Validation of a proposed edit *)

Known(s, v) == v \in DOMAIN s.versions

Retained(s, v) == Known(s, v) /\ v \notin s.expired

ParentLen(s, parent) == IF parent = None THEN 0 ELSE s.versions[parent].len

ParentInHistory(s, op) ==
    \/ op.parent = None
    \/ Known(s, op.parent) /\ s.versions[op.parent].history = op.history

SpliceLen(s, op) == ParentLen(s, op.parent) - op.delete + Len(op.insert)

SpliceValid(s, op) ==
    /\ op.history \in s.histories
    /\ ParentInHistory(s, op)
    /\ op.offset <= ParentLen(s, op.parent)
    /\ op.delete <= ParentLen(s, op.parent) - op.offset
    /\ SpliceLen(s, op) \in 1..MaxLen
    /\ IF op.parent = None
       THEN op.offset = 0 /\ op.delete = 0 /\ op.insert # <<>>
       ELSE op.delete # 0 \/ op.insert # <<>>

ForkValid(s, op) ==
    /\ op.history \in s.histories
    /\ op.parent # None
    /\ ParentInHistory(s, op)

Valid(s, op) == IF op.kind = "fork" THEN ForkValid(s, op) ELSE SpliceValid(s, op)

-----------------------------------------------------------------------------
(* The idempotency ledgers *)

Ledger(s) == DOMAIN s.active \cup DOMAIN s.retired

Replays(s, req, op) == req \in DOMAIN s.active /\ s.active[req].digest = op

\* Mutant: the retired ledger is not consulted.
UnrecordedActiveOnly(s, req) == req = None \/ req \notin DOMAIN s.active

\* A request identity neither ledger remembers.  A remembered one replays its
\* version, answers Retired or, for another operation, is a conflict.
Unrecorded(s, req) == req = None \/ req \notin Ledger(s)

\* The outcome Fresh of a preview: the only one that changes the store.  An
\* expired parent is looked at only after the ledgers.
PreviewFresh(s, op, req) ==
    /\ s.nextVersion < MaxVersion
    /\ Valid(s, op)
    /\ Unrecorded(s, req)
    /\ op.parent # None => Retained(s, op.parent)

\* Mutant: one receipt too many is evicted.
OverflowingEarly(s, popped) ==
    Cardinality(DOMAIN s.active \ popped) + Cardinality(DOMAIN s.retired \ popped) >= Capacity

\* How many of the oldest receipts enforce_receipt_horizon pops: the fewest
\* that bring the two ledgers within the capacity, or all there are.
Overflowing(s, popped) ==
    Cardinality(DOMAIN s.active \ popped)
      + Cardinality((DOMAIN s.retired \ popped) \cup (DOMAIN s.retired \cap DOMAIN s.active))
      > Capacity

Oldest(s, k) == {s.order[i] : i \in 1..k}

Evictions(s) ==
    LET enough == {k \in 0..Len(s.order) : ~Overflowing(s, Oldest(s, k))}
    IN  IF enough = {} THEN Len(s.order)
        ELSE CHOOSE k \in enough : \A j \in enough : k <= j

EnforceHorizon(s) ==
    LET popped == Oldest(s, Evictions(s))
    IN  [s EXCEPT !.order = SubSeq(@, Evictions(s) + 1, Len(@)),
                  !.active = Drop(@, popped),
                  !.retired = Drop(@, popped \ DOMAIN s.active)]

\* Mutant: the receipt names the version before the new one.
PushReceiptOffByOne(s, req, op, v) ==
    IF req = None THEN s
    ELSE EnforceHorizon([s EXCEPT !.order = Append(@, req),
                !.active = Put(@, req, [digest |-> op, version |-> IF v = 0 THEN 0 ELSE v - 1])])

PushReceipt(s, req, op, v) ==
    IF req = None THEN s
    ELSE EnforceHorizon([s EXCEPT !.active = Put(@, req, [digest |-> op, version |-> v]),
                                  !.order = Append(@, req)])

\* Mutant: a retired receipt also stays active.
MoveToRetiredKeeping(s, K) ==
    [s EXCEPT !.retired = [r \in DOMAIN @ \cup K |->
                              IF r \in K THEN s.active[r].digest ELSE @[r]]]

MoveToRetired(s, K) ==
    [s EXCEPT !.active = Drop(@, K),
              !.retired = [r \in DOMAIN @ \cup K |->
                              IF r \in K THEN s.active[r].digest ELSE @[r]]]

-----------------------------------------------------------------------------
(* Content *)

Content(s, v) == s.arena[s.versions[v].root]

Edit(bytes, op) ==
    SubSeq(bytes, 1, op.offset) \o op.insert
        \o SubSeq(bytes, op.offset + op.delete + 1, Len(bytes))

\* The bytes an operation promises, from the bytes its parent promised.
Meaning(s, op) ==
    LET base == IF op.parent = None THEN <<>> ELSE s.versions[op.parent].meant
    IN  IF op.kind = "fork" THEN base ELSE Edit(base, op)

\* Mutant: the deleted range stays in the tree.
SpelledKeepingDeleted(s, op) ==
    Edit(IF op.parent = None THEN <<>> ELSE Content(s, op.parent), [op EXCEPT !.delete = 0])

\* The bytes the tree really spells after the edit, from the parent's tree.
Spelled(s, op) ==
    Edit(IF op.parent = None THEN <<>> ELSE Content(s, op.parent), op)

-----------------------------------------------------------------------------
(* The operations, as operators from store to store *)

Create(s, binding) ==
    [s EXCEPT !.histories = @ \cup {s.nextHistory},
              !.nextHistory = @ + 1,
              !.historyBindings = PutBinding(@, s.nextHistory, binding)]

\* Mutant: a binding is not looked up.
CreateFreshUnbound(s, binding) == s.nextHistory < MaxHistory

\* A bound history that already exists is returned and nothing changes.
CreateFresh(s, binding) ==
    /\ s.nextHistory < MaxHistory
    /\ binding # None => \A h \in DOMAIN s.historyBindings : s.historyBindings[h] # binding

\* A version whose tree is at root: the tail shared by splices and forks.
Publish(s, op, req, root, len) ==
    LET v == s.nextVersion
        published ==
          [s EXCEPT !.nextVersion = @ + 1,
                    !.versions = Put(@, v, [history |-> op.history, parent |-> op.parent,
                                            root |-> root, len |-> len,
                                            meant |-> Meaning(s, op), request |-> req])]
        receipted == PushReceipt(published, req, op, v)
    IN  [receipted EXCEPT !.versionBindings = PutBinding(@, v, op.binding)]

\* The splice whose new tree spells bytes, appended to the arena.
AdoptTree(s, op, req, bytes) ==
    Publish([s EXCEPT !.arena = Append(@, bytes)], op, req,
            Len(s.arena) + 1, SpliceLen(s, op))

ApplySplice(s, op, req) == AdoptTree(s, op, req, Spelled(s, op))

ApplyFork(s, op, req) ==
    Publish(s, op, req, s.versions[op.parent].root, s.versions[op.parent].len)

\* The edit append makes: at the end of its parent, deleting nothing.
AppendOp(s, h, parent, bytes, binding) ==
    [kind |-> "splice", history |-> h, parent |-> parent,
     offset |-> ParentLen(s, parent), delete |-> 0, insert |-> bytes,
     binding |-> binding]

ExpireFresh(s, v) == Known(s, v) /\ v \notin s.expired

\* Mutant: expiry leaves the receipt active.
ReceiptOfNone(s, v) == {}

\* The receipt an expiry retires: the one active receipt of the version.
ReceiptOf(s, v) ==
    LET mine == {r \in DOMAIN s.active : s.active[r].version = v}
    IN  IF mine = {} THEN {} ELSE {CHOOSE r \in mine : TRUE}

\* Mutant: expiry drops the binding of the version.
ApplyExpireUnbinding(s, v) ==
    MoveToRetired([s EXCEPT !.expired = @ \cup {v}, !.versionBindings = Drop(@, {v})],
                  ReceiptOf(s, v))

ApplyExpire(s, v) ==
    MoveToRetired([s EXCEPT !.expired = @ \cup {v}], ReceiptOf(s, v))

RetireFresh(s, req) == req \in DOMAIN s.active /\ req \notin DOMAIN s.retired

ApplyRetire(s, req) == MoveToRetired(s, {req})

-----------------------------------------------------------------------------
(* Compaction *)

RetainedRoots(s) == {s.versions[v].root : v \in DOMAIN s.versions \ s.expired}

\* The consistency gate of the collector: lengths agree with roots, and every
\* retained version has one.
GcReady(s) ==
    \A v \in DOMAIN s.versions :
        /\ s.versions[v].root # None => s.versions[v].len = Len(Content(s, v))
        /\ v \notin s.expired => s.versions[v].root # None

\* Compaction copies the retained trees into a new arena: some renumbering of
\* the retained roots by 1..n.
Renumbering(R) ==
    CHOOSE f \in [R -> 1..Cardinality(R)] : \A x, y \in R : f[x] = f[y] => x = y

\* The arena with the roots R at their new places, and the catalogue pointing
\* there; an expired version loses its root.
Repacked(s, R, remap) ==
    [i \in 1..Cardinality(R) |-> s.arena[CHOOSE x \in R : remap[x] = i]]

Relocated(s, remap) ==
    [v \in DOMAIN s.versions |->
        [s.versions[v] EXCEPT !.root = IF v \in s.expired THEN None ELSE remap[@]]]

ApplyGc(s) ==
    LET R == RetainedRoots(s)
    IN  [s EXCEPT !.arena = Repacked(s, R, Renumbering(R)),
                  !.versions = Relocated(s, Renumbering(R))]

-----------------------------------------------------------------------------
(* The fields of PersistentHistoryStore, with counters within u64 *)

StoreType(s) ==
    /\ DOMAIN s = DOMAIN NewStore
    /\ s.histories \subseteq HistoryIds
    /\ s.nextHistory \in 0..MaxHistory
    /\ s.nextVersion \in 0..MaxVersion
    /\ s.versions \in [DOMAIN s.versions -> VersionRecords]
    /\ DOMAIN s.versions \subseteq VersionIds
    /\ s.active \in [DOMAIN s.active -> [digest: Ops, version: VersionIds]]
    /\ s.retired \in [DOMAIN s.retired -> Ops]
    /\ Ledger(s) \subseteq Requests
    /\ s.order \in Seq(Requests)
    /\ s.expired \subseteq DOMAIN s.versions
    /\ s.historyBindings \in [DOMAIN s.historyBindings -> Bindings]
    /\ DOMAIN s.historyBindings \subseteq s.histories
    /\ s.versionBindings \in [DOMAIN s.versionBindings -> Bindings]
    /\ DOMAIN s.versionBindings \subseteq DOMAIN s.versions
    /\ s.arena \in Seq(Seq(Bytes))

Dense(s) ==
    /\ s.histories = 0..s.nextHistory - 1
    /\ DOMAIN s.versions = 0..s.nextVersion - 1

LedgersDisjoint(s) == DOMAIN s.active \cap DOMAIN s.retired = {}

TreesTrue(s) ==
    \A v \in DOMAIN s.versions :
        /\ Len(s.versions[v].meant) = s.versions[v].len
        /\ v \notin s.expired => s.versions[v].root # None
        /\ s.versions[v].root # None =>
              /\ s.versions[v].root \in DOMAIN s.arena
              /\ Content(s, v) = s.versions[v].meant

-----------------------------------------------------------------------------
(* The snapshot gate: what encode_history_snapshot, the strict re-decode   *)
(* before publication and the import after reopening all insist on.        *)

ReceiptsConsistent(s) ==
    LET ordered == {s.order[i] : i \in 1..Len(s.order)}
    IN  /\ Len(s.order) <= Capacity
        /\ Cardinality(ordered) = Len(s.order)
        /\ Len(s.order) = Cardinality(DOMAIN s.active) + Cardinality(DOMAIN s.retired)
        /\ Ledger(s) \subseteq ordered
        /\ DOMAIN s.active \cap DOMAIN s.retired = {}
        /\ \A r \in DOMAIN s.active : Retained(s, s.active[r].version)
        /\ \A r, q \in DOMAIN s.active :
               s.active[r].version = s.active[q].version => r = q

CatalogueConsistent(s) ==
    \A v \in DOMAIN s.versions :
        LET rec == s.versions[v]
        IN  /\ rec.history < s.nextHistory
            /\ rec.len # 0
            /\ IF rec.root = None THEN v \in s.expired
               ELSE rec.len = Len(Content(s, v))
            /\ rec.parent # None =>
                 /\ rec.parent < v
                 /\ s.versions[rec.parent].history = rec.history

BindingsUnique(s) ==
    \A h, g \in DOMAIN s.historyBindings :
        s.historyBindings[h] = s.historyBindings[g] => h = g

SnapshotReady(s) ==
    /\ s.histories = 0..s.nextHistory - 1
    /\ DOMAIN s.versions = 0..s.nextVersion - 1
    /\ CatalogueConsistent(s)
    /\ BindingsUnique(s)
    /\ ReceiptsConsistent(s)
=============================================================================
