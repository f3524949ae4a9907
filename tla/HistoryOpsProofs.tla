-------------------------- MODULE HistoryOpsProofs --------------------------
(***************************************************************************)
(* Facts about the operations of HistoryOps, for every alphabet, capacity  *)
(* and bound: each keeps a sound store sound and forgets nothing the store *)
(* promised.  The proofs about HistoryStore, about recovery and about the  *)
(* durable authority rest on them.                                         *)
(***************************************************************************)
EXTENDS HistoryOps, FiniteSetTheorems, FunctionTheorems, SequenceTheorems,
        NaturalsInduction, WellFoundedInduction, TLAPS

\* What every operation lets a later store rely on.
Grows(s, t) ==
    /\ s.nextHistory <= t.nextHistory
    /\ s.nextVersion <= t.nextVersion
    /\ s.expired \subseteq t.expired
    /\ DOMAIN s.retired \cap DOMAIN t.active = {}
    /\ \A v \in DOMAIN s.versions :
          /\ v \in DOMAIN t.versions
          /\ [t.versions[v] EXCEPT !.root = None] = [s.versions[v] EXCEPT !.root = None]
          /\ v \in s.expired /\ s.versions[v].root = None => t.versions[v].root = None
          /\ v \in DOMAIN s.versionBindings <=> v \in DOMAIN t.versionBindings
          /\ v \in DOMAIN s.versionBindings => s.versionBindings[v] = t.versionBindings[v]

CatalogueSound(s) ==
    /\ s.nextHistory \in 0..MaxHistory
    /\ s.nextVersion \in 0..MaxVersion
    /\ s.histories \subseteq HistoryIds
    /\ s.versions \in [DOMAIN s.versions -> VersionRecords]
    /\ DOMAIN s.versions \subseteq VersionIds
    /\ s.expired \subseteq DOMAIN s.versions
    /\ s.historyBindings \in [DOMAIN s.historyBindings -> Bindings]
    /\ DOMAIN s.historyBindings \subseteq s.histories
    /\ s.versionBindings \in [DOMAIN s.versionBindings -> Bindings]
    /\ DOMAIN s.versionBindings \subseteq DOMAIN s.versions
    /\ s.arena \in Seq(Seq(Bytes))
    /\ Dense(s)
    /\ TreesTrue(s)

LedgersSound(s) ==
    /\ s.active \in [DOMAIN s.active -> [digest: Ops, version: VersionIds]]
    /\ s.retired \in [DOMAIN s.retired -> Ops]
    /\ Ledger(s) \subseteq Requests
    /\ s.order \in Seq(Requests)
    /\ LedgersDisjoint(s)

Sound(s) ==
    /\ DOMAIN s = DOMAIN NewStore
    /\ CatalogueSound(s)
    /\ LedgersSound(s)

-----------------------------------------------------------------------------
(* Finite maps *)

\* A binding is added under a new identity, or nothing is.
LEMMA PutBindingType ==
    ASSUME NEW f, f \in [DOMAIN f -> Bindings], NEW k, NEW b \in Bindings \cup {None}
    PROVE  /\ PutBinding(f, k, b) \in [DOMAIN PutBinding(f, k, b) -> Bindings]
           /\ DOMAIN f \subseteq DOMAIN PutBinding(f, k, b)
           /\ DOMAIN PutBinding(f, k, b) \subseteq DOMAIN f \cup {k}
           /\ \A x \in DOMAIN f : x # k => PutBinding(f, k, b)[x] = f[x]
<1>1. CASE b = None
  BY <1>1 DEF PutBinding
<1>2. CASE b # None
  <2>1. PutBinding(f, k, b) = Put(f, k, b) /\ b \in Bindings
    BY <1>2 DEF PutBinding
  <2>2. QED
    BY <2>1 DEF Put
<1>3. QED
  BY <1>1, <1>2

-----------------------------------------------------------------------------
(* Content *)

\* Cutting d bytes at offset o and pasting ins there.
LEMMA CutAndPaste ==
    ASSUME NEW bytes \in Seq(Bytes), NEW o \in Nat, NEW d \in Nat, NEW ins \in Seq(Bytes),
           o + d <= Len(bytes)
    PROVE  LET r == SubSeq(bytes, 1, o) \o ins \o SubSeq(bytes, o + d + 1, Len(bytes))
           IN  r \in Seq(Bytes) /\ Len(r) = Len(bytes) - d + Len(ins)
<1> DEFINE front == SubSeq(bytes, 1, o)
           back == SubSeq(bytes, o + d + 1, Len(bytes))
<1>1. front \in Seq(Bytes) /\ Len(front) = o
  BY SubSeqProperties
<1>2. back \in Seq(Bytes) /\ Len(back) = Len(bytes) - o - d
  BY SubSeqProperties
<1> HIDE DEF front, back
<1>3. \A x, y \in Seq(Bytes) : x \o y \in Seq(Bytes) /\ Len(x \o y) = Len(x) + Len(y)
  BY ConcatProperties
<1>4. front \o ins \in Seq(Bytes) /\ Len(front \o ins) = Len(front) + Len(ins)
  BY <1>1, <1>3
<1>5. /\ (front \o ins) \o back \in Seq(Bytes)
      /\ Len((front \o ins) \o back) = Len(front \o ins) + Len(back)
  BY <1>2, <1>3, <1>4, Zenon
<1>6. Len(front \o ins) + Len(back) = Len(bytes) - d + Len(ins)
  BY <1>1, <1>2, <1>4
<1>7. QED
  BY <1>5, <1>6, Zenon DEF front, back

\* An edit within its bytes is a byte sequence of the length the code computes.
LEMMA EditType ==
    ASSUME NEW bytes \in Seq(Bytes), NEW op,
           op.offset \in Nat, op.delete \in Nat, op.insert \in Seq(Bytes),
           op.offset + op.delete <= Len(bytes)
    PROVE  /\ Edit(bytes, op) \in Seq(Bytes)
           /\ Len(Edit(bytes, op)) = Len(bytes) - op.delete + Len(op.insert)
BY CutAndPaste DEF Edit

-----------------------------------------------------------------------------
(* The ledgers *)

\* What evicting and retiring receipts leaves alone.
SameCatalogue(s, t) ==
    /\ DOMAIN t = DOMAIN NewStore
    /\ t.histories = s.histories /\ t.versions = s.versions
    /\ t.nextHistory = s.nextHistory /\ t.nextVersion = s.nextVersion
    /\ t.expired = s.expired /\ t.arena = s.arena
    /\ t.historyBindings = s.historyBindings /\ t.versionBindings = s.versionBindings

\* f is g on a smaller domain.
Within(f, g) ==
    /\ DOMAIN f \subseteq DOMAIN g
    /\ f = [x \in DOMAIN f |-> g[x]]

\* The fields of a store.
LEMMA Fields ==
    DOMAIN NewStore = {"histories", "versions", "nextHistory", "nextVersion", "active",
                       "retired", "order", "expired", "historyBindings",
                       "versionBindings", "arena"}
BY DEF NewStore

\* A nonempty set of naturals has a least element.
LEMMA LeastNatural ==
    ASSUME NEW T, T \subseteq Nat, T # {}
    PROVE  \E k \in T : \A j \in T : k <= j
<1> DEFINE R == {ss \in Nat \X Nat : ss[1] < ss[2]}
<1>1. IsWellFoundedOn(R, Nat)
  BY NatLessThanWellFounded, Zenon DEF OpToRel
<1> HIDE DEF R
<1>2. \E k \in T : \A j \in T : ~(<<j, k>> \in R)
  BY <1>1, WFMin
<1>3. \A j, k \in Nat : ~(<<j, k>> \in R) => k <= j
  BY DEF R
<1>4. QED
  BY <1>2, <1>3

\* Touching only the ledgers keeps the catalogue sound.
LEMMA SameCatalogueSound ==
    ASSUME NEW s, NEW t, SameCatalogue(s, t), CatalogueSound(s)
    PROVE  CatalogueSound(t)
BY DEF SameCatalogue, CatalogueSound, Dense, TreesTrue, Content

\* Ledgers that only forget stay sound.
LEMMA WithinSound ==
    ASSUME NEW s, NEW t, LedgersSound(s), t.order \in Seq(Requests),
           Within(t.active, s.active), Within(t.retired, s.retired)
    PROVE  LedgersSound(t)
BY DEF Within, LedgersSound, LedgersDisjoint, Ledger

\* The number of receipts enforce_receipt_horizon pops is one it has.
LEMMA EvictionsType ==
    ASSUME NEW s, s.order \in Seq(Requests)
    PROVE  Evictions(s) \in 0..Len(s.order)
<1> DEFINE enough == {k \in 0..Len(s.order) : ~Overflowing(s, Oldest(s, k))}
<1>1. CASE enough = {}
  BY <1>1 DEF Evictions
<1>2. CASE enough # {}
  <2>1. \E k \in enough : \A j \in enough : k <= j
    <3>1. enough \subseteq Nat
      OBVIOUS
    <3> HIDE DEF enough
    <3>2. QED
      BY <1>2, <3>1, LeastNatural
  <2>2. Evictions(s) = CHOOSE k \in enough : \A j \in enough : k <= j
    BY <1>2, Zenon DEF Evictions
  <2>3. Evictions(s) \in enough
    BY <2>1, <2>2, Zenon
  <2>4. QED
    BY <2>3
<1>3. QED
  BY <1>1, <1>2

\* enforce_receipt_horizon only forgets receipts.
LEMMA HorizonForgets ==
    ASSUME NEW s, DOMAIN s = DOMAIN NewStore, s.order \in Seq(Requests)
    PROVE  /\ SameCatalogue(s, EnforceHorizon(s))
           /\ EnforceHorizon(s).order \in Seq(Requests)
           /\ Within(EnforceHorizon(s).active, s.active)
           /\ Within(EnforceHorizon(s).retired, s.retired)
<1> DEFINE popped == Oldest(s, Evictions(s))
           t == [s EXCEPT !.order = SubSeq(@, Evictions(s) + 1, Len(@)),
                          !.active = Drop(@, popped),
                          !.retired = Drop(@, popped \ DOMAIN s.active)]
<1>1. EnforceHorizon(s) = t
  BY Zenon DEF EnforceHorizon
<1>2. /\ SameCatalogue(s, t)
      /\ t.order = SubSeq(s.order, Evictions(s) + 1, Len(s.order))
      /\ t.active = Drop(s.active, popped)
      /\ t.retired = Drop(s.retired, popped \ DOMAIN s.active)
  BY Fields DEF SameCatalogue
<1>3. SubSeq(s.order, Evictions(s) + 1, Len(s.order)) \in Seq(Requests)
  <2>1. Evictions(s) \in 0..Len(s.order)
    BY EvictionsType
  <2>2. QED
    BY <2>1, SubSeqProperties
<1> HIDE DEF popped, t
<1>4. QED
  BY <1>1, <1>2, <1>3 DEF Within, Drop

\* push_fresh_receipt under an identity neither ledger knows.
LEMMA PushReceiptSound ==
    ASSUME NEW s, DOMAIN s = DOMAIN NewStore, LedgersSound(s),
           NEW req \in Requests \cup {None}, Unrecorded(s, req),
           NEW op \in Ops, NEW v \in VersionIds
    PROVE  /\ SameCatalogue(s, PushReceipt(s, req, op, v))
           /\ LedgersSound(PushReceipt(s, req, op, v))
           /\ \A r \in DOMAIN PushReceipt(s, req, op, v).active :
                 r \in DOMAIN s.active \/ r = req
           /\ DOMAIN PushReceipt(s, req, op, v).retired \subseteq DOMAIN s.retired
<1>1. CASE req = None
  BY <1>1 DEF PushReceipt, SameCatalogue
<1>2. CASE req # None
  <2> DEFINE receipt == [digest |-> op, version |-> v]
             t == [s EXCEPT !.active = Put(@, req, receipt), !.order = Append(@, req)]
  <2>1. PushReceipt(s, req, op, v) = EnforceHorizon(t)
    BY <1>2, Zenon DEF PushReceipt
  <2>2. /\ SameCatalogue(s, t)
        /\ t.active = Put(s.active, req, receipt)
        /\ t.retired = s.retired
        /\ t.order = Append(s.order, req)
    BY Fields DEF SameCatalogue
  <2>3. receipt \in [digest: Ops, version: VersionIds]
    OBVIOUS
  <2> HIDE DEF t, receipt
  <2>4. req \in Requests /\ req \notin DOMAIN s.active /\ req \notin DOMAIN s.retired
    BY <1>2 DEF Unrecorded, Ledger
  <2>5. LedgersSound(t)
    <3>1. t.active \in [DOMAIN t.active -> [digest: Ops, version: VersionIds]]
      BY <2>2, <2>3 DEF LedgersSound, Put
    <3>2. DOMAIN t.active = DOMAIN s.active \cup {req}
      BY <2>2 DEF Put
    <3>3. t.order \in Seq(Requests)
      BY <2>2, <2>4 DEF LedgersSound
    <3>4. QED
      BY <2>2, <2>4, <3>1, <3>2, <3>3 DEF LedgersSound, LedgersDisjoint, Ledger
  <2>6. DOMAIN t = DOMAIN NewStore /\ t.order \in Seq(Requests)
    BY <2>2, <2>5 DEF SameCatalogue, LedgersSound
  <2>7. /\ SameCatalogue(t, EnforceHorizon(t))
        /\ EnforceHorizon(t).order \in Seq(Requests)
        /\ Within(EnforceHorizon(t).active, t.active)
        /\ Within(EnforceHorizon(t).retired, t.retired)
    BY <2>6, HorizonForgets
  <2>8. LedgersSound(EnforceHorizon(t))
    BY <2>5, <2>7, WithinSound
  <2>9. SameCatalogue(s, EnforceHorizon(t))
    BY <2>2, <2>7 DEF SameCatalogue
  <2>10. DOMAIN t.active = DOMAIN s.active \cup {req}
    BY <2>2 DEF Put
  <2>11. QED
    BY <2>1, <2>2, <2>7, <2>8, <2>9, <2>10 DEF Within
<1>3. QED
  BY <1>1, <1>2

\* Receipts moved to the retired ledger (retire_request, expiry).
LEMMA MoveToRetiredSound ==
    ASSUME NEW s, DOMAIN s = DOMAIN NewStore, LedgersSound(s),
           NEW K, K \subseteq DOMAIN s.active
    PROVE  /\ SameCatalogue(s, MoveToRetired(s, K))
           /\ LedgersSound(MoveToRetired(s, K))
           /\ DOMAIN MoveToRetired(s, K).active = DOMAIN s.active \ K
<1> DEFINE t == MoveToRetired(s, K)
<1>1. /\ SameCatalogue(s, t)
      /\ t.active = Drop(s.active, K)
      /\ t.retired = [r \in DOMAIN s.retired \cup K |->
                        IF r \in K THEN s.active[r].digest ELSE s.retired[r]]
      /\ t.order = s.order
  BY Fields DEF SameCatalogue, MoveToRetired
<1> HIDE DEF t
<1>2. t.active \in [DOMAIN t.active -> [digest: Ops, version: VersionIds]]
  BY <1>1 DEF LedgersSound, Drop
<1>3. DOMAIN t.active = DOMAIN s.active \ K
  BY <1>1 DEF Drop
<1>4. t.retired \in [DOMAIN t.retired -> Ops]
  BY <1>1 DEF LedgersSound
<1>5. LedgersSound(t)
  BY <1>1, <1>2, <1>3, <1>4 DEF LedgersSound, LedgersDisjoint, Ledger
<1>6. QED
  BY <1>1, <1>3, <1>5 DEF t

-----------------------------------------------------------------------------
(* The operations *)

\* PersistentHistoryStore::new
LEMMA NewStoreSound == Sound(NewStore)
<1>1. CatalogueSound(NewStore)
  BY StoreAssumption
  DEF CatalogueSound, NewStore, EmptyMap, Dense, TreesTrue, HistoryIds, VersionIds
<1>2. LedgersSound(NewStore)
  BY DEF LedgersSound, NewStore, EmptyMap, Ledger, LedgersDisjoint
<1>3. QED
  BY <1>1, <1>2 DEF Sound

\* create_history, create_history_with_binding
LEMMA CreateSound ==
    ASSUME NEW s, Sound(s), NEW b \in Bindings \cup {None}, CreateFresh(s, b)
    PROVE  Sound(Create(s, b)) /\ Grows(s, Create(s, b))
<1> DEFINE t == Create(s, b)
           id == s.nextHistory
<1>1. /\ DOMAIN t = DOMAIN NewStore
      /\ t.histories = s.histories \cup {id}
      /\ t.nextHistory = id + 1
      /\ t.historyBindings = PutBinding(s.historyBindings, id, b)
      /\ t.versions = s.versions /\ t.nextVersion = s.nextVersion
      /\ t.active = s.active /\ t.retired = s.retired /\ t.order = s.order
      /\ t.expired = s.expired /\ t.arena = s.arena
      /\ t.versionBindings = s.versionBindings
  BY Fields DEF Create, Sound
<1> HIDE DEF t
<1>2. id \in 0..MaxHistory - 1 /\ MaxHistory \in Nat
  BY StoreAssumption DEF CreateFresh, Sound, CatalogueSound
<1>3. /\ t.historyBindings \in [DOMAIN t.historyBindings -> Bindings]
      /\ DOMAIN t.historyBindings \subseteq DOMAIN s.historyBindings \cup {id}
  BY <1>1, PutBindingType DEF Sound, CatalogueSound
<1>4. t.histories = 0..t.nextHistory - 1
  BY <1>1, <1>2 DEF Sound, CatalogueSound, Dense
<1>5. CatalogueSound(t)
  <2>1. TreesTrue(t) /\ DOMAIN t.versions = 0..t.nextVersion - 1
    BY <1>1 DEF Sound, CatalogueSound, TreesTrue, Content, Dense
  <2>2. t.histories \subseteq HistoryIds /\ t.nextHistory \in 0..MaxHistory
    BY <1>1, <1>2, <1>4 DEF HistoryIds
  <2>3. DOMAIN t.historyBindings \subseteq t.histories
    BY <1>1, <1>3 DEF Sound, CatalogueSound
  <2>4. QED
    BY <1>1, <1>3, <1>4, <2>1, <2>2, <2>3 DEF Sound, CatalogueSound, Dense
<1>6. LedgersSound(t)
  BY <1>1 DEF Sound, LedgersSound, LedgersDisjoint, Ledger
<1>7. Grows(s, t)
  <2>1. s.nextHistory <= t.nextHistory /\ s.nextVersion <= t.nextVersion
    BY <1>1, <1>2 DEF Sound, CatalogueSound
  <2>2. DOMAIN s.retired \cap DOMAIN t.active = {}
    BY <1>1 DEF Sound, LedgersSound, LedgersDisjoint
  <2>3. QED
    BY <1>1, <2>1, <2>2 DEF Grows
<1>8. QED
  BY <1>1, <1>5, <1>6, <1>7 DEF Sound, t

\* The tail of apply_prepared_splice and apply_prepared_fork: a version whose
\* root spells what the operation means.
LEMMA PublishSound ==
    ASSUME NEW s, Sound(s), s.nextVersion < MaxVersion,
           NEW op \in Ops, NEW req \in Requests \cup {None}, Unrecorded(s, req),
           NEW root \in DOMAIN s.arena, s.arena[root] = Meaning(s, op),
           NEW len \in 1..MaxLen, Len(s.arena[root]) = len
    PROVE  LET t == Publish(s, op, req, root, len)
           IN  /\ Sound(t)
               /\ t.versions = Put(s.versions, s.nextVersion, t.versions[s.nextVersion])
               /\ t.nextVersion = s.nextVersion + 1
               /\ t.nextHistory = s.nextHistory
               /\ t.expired = s.expired /\ t.arena = s.arena
               /\ \A r \in DOMAIN t.active : r \in DOMAIN s.active \/ r = req
               /\ DOMAIN t.versionBindings \subseteq DOMAIN s.versionBindings \cup {s.nextVersion}
               /\ \A v \in DOMAIN s.versionBindings : /\ v \in DOMAIN t.versionBindings
                                                      /\ t.versionBindings[v] = s.versionBindings[v]
<1> DEFINE v == s.nextVersion
           rec == [history |-> op.history, parent |-> op.parent, root |-> root,
                   len |-> len, meant |-> Meaning(s, op), request |-> req]
           p == [s EXCEPT !.nextVersion = @ + 1, !.versions = Put(@, v, rec)]
           q == PushReceipt(p, req, op, v)
           t == [q EXCEPT !.versionBindings = PutBinding(@, v, op.binding)]
<1>1. Publish(s, op, req, root, len) = t
  BY Zenon DEF Publish
<1>2. /\ op.history \in HistoryIds /\ op.parent \in VersionIds \cup {None}
      /\ op.binding \in Bindings \cup {None}
  BY DEF Ops, SpliceOps, ForkOps
<1>3. v \in VersionIds /\ v \in Nat /\ v \notin DOMAIN s.versions
  BY StoreAssumption DEF VersionIds, Sound, CatalogueSound, Dense
<1>4. Meaning(s, op) \in Seq(Bytes) /\ Len(Meaning(s, op)) = len /\ root \in Nat
  BY DEF Sound, CatalogueSound
<1>5. rec \in VersionRecords
  BY <1>2, <1>4 DEF VersionRecords
<1>6. /\ DOMAIN p = DOMAIN NewStore
      /\ p.versions = Put(s.versions, v, rec) /\ p.nextVersion = v + 1
      /\ p.histories = s.histories /\ p.nextHistory = s.nextHistory
      /\ p.active = s.active /\ p.retired = s.retired /\ p.order = s.order
      /\ p.expired = s.expired /\ p.arena = s.arena
      /\ p.historyBindings = s.historyBindings
      /\ p.versionBindings = s.versionBindings
  BY Fields DEF Sound
<1>7. rec.root = root /\ rec.len = len /\ rec.meant = Meaning(s, op)
  OBVIOUS
<1> HIDE DEF rec, p, q, t, v
<1>8. CatalogueSound(p)
  <2>1. /\ p.versions \in [DOMAIN p.versions -> VersionRecords]
        /\ DOMAIN p.versions = DOMAIN s.versions \cup {v}
        /\ p.versions[v] = rec
        /\ \A w \in DOMAIN s.versions : p.versions[w] = s.versions[w]
    BY <1>3, <1>5, <1>6 DEF Put, Sound, CatalogueSound
  <2>2. DOMAIN p.versions = 0..p.nextVersion - 1 /\ p.histories = 0..p.nextHistory - 1
    BY <1>3, <1>6, <2>1 DEF Sound, CatalogueSound, Dense, v
  <2>3. TreesTrue(p)
    <3>1. ASSUME NEW w \in DOMAIN p.versions
          PROVE  /\ Len(p.versions[w].meant) = p.versions[w].len
                 /\ w \notin p.expired => p.versions[w].root # None
                 /\ p.versions[w].root # None =>
                       /\ p.versions[w].root \in DOMAIN p.arena
                       /\ p.arena[p.versions[w].root] = p.versions[w].meant
      <4>1. CASE w = v
        <5>1. root # None
          BY <1>4, StoreAssumption
        <5>2. QED
          BY <1>4, <1>6, <1>7, <2>1, <4>1, <5>1
      <4>2. CASE w # v
        BY <1>6, <2>1, <4>2 DEF Sound, CatalogueSound, TreesTrue, Content
      <4>3. QED
        BY <4>1, <4>2
    <3>2. QED
      BY <3>1 DEF TreesTrue, Content
  <2>4. p.nextVersion \in 0..MaxVersion /\ DOMAIN p.versions \subseteq VersionIds
    BY <1>3, <1>6, <2>1, StoreAssumption DEF VersionIds, Sound, CatalogueSound, v
  <2>5. QED
    BY <1>6, <2>1, <2>2, <2>3, <2>4 DEF Sound, CatalogueSound, Dense
<1>9. LedgersSound(p) /\ Unrecorded(p, req)
  BY <1>6 DEF Sound, LedgersSound, LedgersDisjoint, Ledger, Unrecorded
<1>10. /\ SameCatalogue(p, q)
       /\ LedgersSound(q)
       /\ \A r \in DOMAIN q.active : r \in DOMAIN p.active \/ r = req
  BY <1>3, <1>6, <1>9, PushReceiptSound DEF q
<1>11. CatalogueSound(q) /\ DOMAIN q = DOMAIN NewStore
  BY <1>8, <1>10, SameCatalogueSound DEF SameCatalogue
<1>12. /\ DOMAIN t = DOMAIN NewStore
       /\ t.versionBindings = PutBinding(q.versionBindings, v, op.binding)
       /\ t.versions = q.versions /\ t.nextVersion = q.nextVersion
       /\ t.histories = q.histories /\ t.nextHistory = q.nextHistory
       /\ t.active = q.active /\ t.retired = q.retired /\ t.order = q.order
       /\ t.expired = q.expired /\ t.arena = q.arena
       /\ t.historyBindings = q.historyBindings
  BY <1>11, Fields DEF t
<1>13. /\ t.versionBindings \in [DOMAIN t.versionBindings -> Bindings]
       /\ DOMAIN q.versionBindings \subseteq DOMAIN t.versionBindings
       /\ DOMAIN t.versionBindings \subseteq DOMAIN q.versionBindings \cup {v}
       /\ \A x \in DOMAIN q.versionBindings : x # v => t.versionBindings[x] = q.versionBindings[x]
  BY <1>2, <1>11, <1>12, PutBindingType DEF CatalogueSound
<1>14. v \in DOMAIN q.versions /\ v \notin DOMAIN s.versionBindings
  BY <1>3, <1>6, <1>10 DEF SameCatalogue, Put, Sound, CatalogueSound
<1>15. CatalogueSound(t)
  <2>1. Dense(t) /\ TreesTrue(t)
    BY <1>11, <1>12 DEF CatalogueSound, Dense, TreesTrue, Content
  <2>2. DOMAIN t.versionBindings \subseteq DOMAIN t.versions
    BY <1>11, <1>12, <1>13, <1>14 DEF CatalogueSound
  <2>3. QED
    BY <1>11, <1>12, <1>13, <2>1, <2>2 DEF CatalogueSound
<1>16. LedgersSound(t)
  BY <1>10, <1>12 DEF LedgersSound, LedgersDisjoint, Ledger
<1>17. Sound(t)
  BY <1>12, <1>15, <1>16 DEF Sound
<1>18. t.versions = Put(s.versions, v, t.versions[v])
  <2>1. t.versions = Put(s.versions, v, rec)
    BY <1>6, <1>10, <1>12 DEF SameCatalogue
  <2>2. t.versions[v] = rec
    BY <2>1 DEF Put
  <2>3. QED
    BY <2>1, <2>2
<1>19. /\ t.nextVersion = v + 1 /\ t.nextHistory = s.nextHistory
       /\ t.expired = s.expired /\ t.arena = s.arena
       /\ \A r \in DOMAIN t.active : r \in DOMAIN s.active \/ r = req
       /\ q.versionBindings = s.versionBindings
  BY <1>6, <1>10, <1>12 DEF SameCatalogue
<1>20. QED
  BY <1>1, <1>13, <1>14, <1>17, <1>18, <1>19 DEF v

\* A published version leaves the others as they were.
LEMMA PublishGrows ==
    ASSUME NEW s, Sound(s), NEW t, NEW req, Unrecorded(s, req),
           t.versions = Put(s.versions, s.nextVersion, t.versions[s.nextVersion]),
           t.nextVersion = s.nextVersion + 1, t.nextHistory = s.nextHistory,
           t.expired = s.expired,
           \A r \in DOMAIN t.active : r \in DOMAIN s.active \/ r = req,
           None \notin DOMAIN s.retired,
           DOMAIN t.versionBindings \subseteq DOMAIN s.versionBindings \cup {s.nextVersion},
           \A v \in DOMAIN s.versionBindings : /\ v \in DOMAIN t.versionBindings
                                              /\ t.versionBindings[v] = s.versionBindings[v]
    PROVE  Grows(s, t)
<1>1. s.nextVersion \notin DOMAIN s.versions /\ s.nextVersion \in Nat /\ s.nextHistory \in Nat
  BY StoreAssumption DEF Sound, CatalogueSound, Dense
<1>2. \A v \in DOMAIN s.versions : v \in DOMAIN t.versions /\ t.versions[v] = s.versions[v]
  BY <1>1 DEF Put
<1>3. DOMAIN s.retired \cap DOMAIN t.active = {}
  BY DEF Unrecorded, Ledger, Sound, LedgersSound, LedgersDisjoint
<1>4. QED
  BY <1>1, <1>2, <1>3 DEF Grows

\* The tree a splice appends to the arena is edited from the parent's tree and
\* spells what the edit means for the parent's promise.
LEMMA SpliceTree ==
    ASSUME NEW s, Sound(s), NEW op \in SpliceOps, NEW req \in Requests \cup {None},
           PreviewFresh(s, op, req)
    PROVE  LET s1 == [s EXCEPT !.arena = Append(@, Spelled(s, op))]
               root == Len(s.arena) + 1
               len == SpliceLen(s, op)
           IN  /\ ApplySplice(s, op, req) = Publish(s1, op, req, root, len)
               /\ Sound(s1) /\ op \in Ops
               /\ s1.versions = s.versions /\ s1.nextVersion = s.nextVersion
               /\ s1.histories = s.histories /\ s1.nextHistory = s.nextHistory
               /\ s1.active = s.active /\ s1.retired = s.retired /\ s1.order = s.order
               /\ s1.expired = s.expired
               /\ s1.historyBindings = s.historyBindings
               /\ s1.versionBindings = s.versionBindings
               /\ Unrecorded(s1, req) /\ s1.nextVersion < MaxVersion
               /\ root \in DOMAIN s1.arena /\ s1.arena[root] = Meaning(s1, op)
               /\ len \in 1..MaxLen /\ Len(s1.arena[root]) = len
<1> DEFINE s1 == [s EXCEPT !.arena = Append(@, Spelled(s, op))]
           root == Len(s.arena) + 1
           len == SpliceLen(s, op)
           base == IF op.parent = None THEN <<>> ELSE s.versions[op.parent].meant
           bytes == Edit(base, op)
<1>1. /\ op.kind = "splice" /\ op.offset \in Nat /\ op.delete \in Nat
      /\ op.insert \in Seq(Bytes) /\ op \in Ops
  BY StoreAssumption DEF SpliceOps, Ops
<1>2. SpliceValid(s, op) /\ Unrecorded(s, req) /\ s.nextVersion < MaxVersion
  BY <1>1 DEF PreviewFresh, Valid
<1>3. /\ base \in Seq(Bytes) /\ Len(base) = ParentLen(s, op.parent)
      /\ Spelled(s, op) = bytes
  <2>1. CASE op.parent # None
    <3>1. op.parent \in DOMAIN s.versions /\ op.parent \notin s.expired
      BY <2>1 DEF PreviewFresh, Retained, Known
    <3>2. /\ s.versions[op.parent].meant \in Seq(Bytes)
          /\ Len(s.versions[op.parent].meant) = s.versions[op.parent].len
          /\ Content(s, op.parent) = s.versions[op.parent].meant
      BY <3>1 DEF Sound, CatalogueSound, TreesTrue, VersionRecords
    <3>3. QED
      BY <2>1, <3>2 DEF ParentLen, Spelled
  <2>2. CASE op.parent = None
    BY <2>2 DEF ParentLen, Spelled
  <2>3. QED
    BY <2>1, <2>2
<1>4. Meaning(s, op) = bytes
  BY <1>1 DEF Meaning
<1> HIDE DEF base
<1>5. bytes \in Seq(Bytes) /\ Len(bytes) = len
  <2>1. op.offset + op.delete <= Len(base)
    <3>1. op.offset <= Len(base) /\ op.delete <= Len(base) - op.offset
      BY <1>2, <1>3 DEF SpliceValid
    <3>2. \A a, b, c \in Nat : b <= c - a => a + b <= c
      OBVIOUS
    <3>3. Len(base) \in Nat
      BY <1>3
    <3>4. QED
      BY <1>1, <3>1, <3>2, <3>3
  <2>2. /\ bytes \in Seq(Bytes)
        /\ Len(bytes) = Len(base) - op.delete + Len(op.insert)
    BY <1>1, <1>3, <2>1, EditType
  <2>3. QED
    BY <1>3, <2>2 DEF SpliceLen
<1>6. len \in 1..MaxLen
  BY <1>2 DEF SpliceValid
<1> HIDE DEF bytes
<1>7. /\ DOMAIN s1 = DOMAIN NewStore
      /\ s1.arena = Append(s.arena, bytes)
      /\ s1.versions = s.versions /\ s1.nextVersion = s.nextVersion
      /\ s1.histories = s.histories /\ s1.nextHistory = s.nextHistory
      /\ s1.active = s.active /\ s1.retired = s.retired /\ s1.order = s.order
      /\ s1.expired = s.expired
      /\ s1.historyBindings = s.historyBindings
      /\ s1.versionBindings = s.versionBindings
  BY <1>3, Fields DEF Sound
<1>8. ApplySplice(s, op, req) = Publish(s1, op, req, root, len)
  BY DEF ApplySplice, AdoptTree
<1> HIDE DEF s1, root, len
<1>9. /\ s1.arena \in Seq(Seq(Bytes)) /\ DOMAIN s1.arena = DOMAIN s.arena \cup {root}
       /\ root \in DOMAIN s1.arena /\ s1.arena[root] = bytes
       /\ \A i \in DOMAIN s.arena : s1.arena[i] = s.arena[i]
  <2>1. s.arena \in Seq(Seq(Bytes))
    BY DEF Sound, CatalogueSound
  <2>2. QED
    BY <1>5, <1>7, <2>1 DEF root
<1>10. Sound(s1)
  <2>1. TreesTrue(s1)
    BY <1>7, <1>9 DEF Sound, CatalogueSound, TreesTrue, Content
  <2>2. CatalogueSound(s1)
    BY <1>7, <1>9, <2>1 DEF Sound, CatalogueSound, Dense
  <2>3. LedgersSound(s1)
    BY <1>7 DEF Sound, LedgersSound, LedgersDisjoint, Ledger
  <2>4. QED
    BY <1>7, <2>2, <2>3 DEF Sound
<1>11. Meaning(s1, op) = bytes /\ Unrecorded(s1, req) /\ s1.nextVersion < MaxVersion
  BY <1>2, <1>4, <1>7 DEF Meaning, Unrecorded, Ledger
<1>12. QED
  BY <1>1, <1>5, <1>6, <1>7, <1>8, <1>9, <1>10, <1>11 DEF s1, root, len

\* apply_prepared_splice
LEMMA SpliceSound ==
    ASSUME NEW s, Sound(s), NEW op \in SpliceOps, NEW req \in Requests \cup {None},
           PreviewFresh(s, op, req)
    PROVE  Sound(ApplySplice(s, op, req)) /\ Grows(s, ApplySplice(s, op, req))
<1> DEFINE s1 == [s EXCEPT !.arena = Append(@, Spelled(s, op))]
           root == Len(s.arena) + 1
           len == SpliceLen(s, op)
           t == Publish(s1, op, req, root, len)
<1>1. /\ ApplySplice(s, op, req) = t
      /\ Sound(s1) /\ op \in Ops
      /\ s1.versions = s.versions /\ s1.nextVersion = s.nextVersion
      /\ s1.nextHistory = s.nextHistory
      /\ s1.active = s.active /\ s1.retired = s.retired
      /\ s1.expired = s.expired /\ s1.versionBindings = s.versionBindings
      /\ Unrecorded(s1, req) /\ s1.nextVersion < MaxVersion
      /\ root \in DOMAIN s1.arena /\ s1.arena[root] = Meaning(s1, op)
      /\ len \in 1..MaxLen /\ Len(s1.arena[root]) = len
  BY SpliceTree, Zenon
<1> HIDE DEF s1, root, len
<1>2. /\ Sound(t)
      /\ t.versions = Put(s1.versions, s1.nextVersion, t.versions[s1.nextVersion])
      /\ t.nextVersion = s1.nextVersion + 1
      /\ t.nextHistory = s1.nextHistory
      /\ t.expired = s1.expired
      /\ \A r \in DOMAIN t.active : r \in DOMAIN s1.active \/ r = req
      /\ DOMAIN t.versionBindings \subseteq DOMAIN s1.versionBindings \cup {s1.nextVersion}
      /\ \A v \in DOMAIN s1.versionBindings : /\ v \in DOMAIN t.versionBindings
                                              /\ t.versionBindings[v] = s1.versionBindings[v]
  BY <1>1, PublishSound
<1> HIDE DEF t
<1>3. None \notin DOMAIN s.retired
  BY StoreAssumption DEF Sound, LedgersSound, Ledger
<1>4. Unrecorded(s, req)
  BY DEF PreviewFresh
<1>5. Grows(s, t)
  BY <1>1, <1>2, <1>3, <1>4, PublishGrows
<1>6. QED
  BY <1>1, <1>2, <1>5

\* apply_prepared_fork: the new version shares its parent's root.
LEMMA ForkSound ==
    ASSUME NEW s, Sound(s), NEW op \in ForkOps, NEW req \in Requests \cup {None},
           PreviewFresh(s, op, req)
    PROVE  Sound(ApplyFork(s, op, req)) /\ Grows(s, ApplyFork(s, op, req))
<1> DEFINE parent == s.versions[op.parent]
           t == Publish(s, op, req, parent.root, parent.len)
<1>1. op.kind = "fork" /\ op \in Ops /\ op.parent # None
  BY StoreAssumption DEF ForkOps, Ops, VersionIds
<1>2. /\ op.parent \in DOMAIN s.versions /\ op.parent \notin s.expired
      /\ Unrecorded(s, req) /\ s.nextVersion < MaxVersion
  BY <1>1 DEF PreviewFresh, Retained, Known
<1>3. /\ parent.root \in DOMAIN s.arena /\ s.arena[parent.root] = parent.meant
      /\ Len(parent.meant) = parent.len /\ parent.len \in 1..MaxLen
  BY <1>2 DEF Sound, CatalogueSound, TreesTrue, Content, VersionRecords
<1>4. Meaning(s, op) = parent.meant
  BY <1>1 DEF Meaning
<1>5. ApplyFork(s, op, req) = t
  BY DEF ApplyFork
<1> HIDE DEF parent
<1>6. /\ Sound(t)
      /\ t.versions = Put(s.versions, s.nextVersion, t.versions[s.nextVersion])
      /\ t.nextVersion = s.nextVersion + 1
      /\ t.nextHistory = s.nextHistory
      /\ t.expired = s.expired
      /\ \A r \in DOMAIN t.active : r \in DOMAIN s.active \/ r = req
      /\ DOMAIN t.versionBindings \subseteq DOMAIN s.versionBindings \cup {s.nextVersion}
      /\ \A v \in DOMAIN s.versionBindings : /\ v \in DOMAIN t.versionBindings
                                             /\ t.versionBindings[v] = s.versionBindings[v]
  BY <1>1, <1>2, <1>3, <1>4, PublishSound
<1> HIDE DEF t
<1>7. None \notin DOMAIN s.retired
  BY StoreAssumption DEF Sound, LedgersSound, Ledger
<1>8. Grows(s, t)
  BY <1>2, <1>6, <1>7, PublishGrows
<1>9. QED
  BY <1>5, <1>6, <1>8

\* Retiring receipts keeps a sound store sound.
LEMMA RetiringSound ==
    ASSUME NEW s, Sound(s), NEW K, K \subseteq DOMAIN s.active
    PROVE  Sound(MoveToRetired(s, K)) /\ Grows(s, MoveToRetired(s, K))
<1> DEFINE t == MoveToRetired(s, K)
<1>1. SameCatalogue(s, t) /\ LedgersSound(t) /\ DOMAIN t.active = DOMAIN s.active \ K
  BY MoveToRetiredSound DEF Sound
<1> HIDE DEF t
<1>2. Sound(t)
  BY <1>1, SameCatalogueSound DEF Sound, SameCatalogue
<1>3. s.nextHistory <= t.nextHistory /\ s.nextVersion <= t.nextVersion
  BY <1>1 DEF SameCatalogue, Sound, CatalogueSound
<1>4. Grows(s, t)
  BY <1>1, <1>3 DEF Grows, SameCatalogue, Sound, LedgersSound, LedgersDisjoint
<1>5. QED
  BY <1>2, <1>4 DEF t

\* retire_request
LEMMA RetireSound ==
    ASSUME NEW s, Sound(s), NEW req, RetireFresh(s, req)
    PROVE  Sound(ApplyRetire(s, req)) /\ Grows(s, ApplyRetire(s, req))
BY RetiringSound DEF ApplyRetire, RetireFresh

\* apply_prepared_expire
LEMMA ExpireSound ==
    ASSUME NEW s, Sound(s), NEW v, ExpireFresh(s, v)
    PROVE  Sound(ApplyExpire(s, v)) /\ Grows(s, ApplyExpire(s, v))
<1> DEFINE s1 == [s EXCEPT !.expired = @ \cup {v}]
           K == ReceiptOf(s, v)
           t == MoveToRetired(s1, K)
<1>1. ApplyExpire(s, v) = t
  BY DEF ApplyExpire
<1>2. K \subseteq DOMAIN s.active
  BY DEF ReceiptOf
<1>3. /\ DOMAIN s1 = DOMAIN NewStore
      /\ s1.expired = s.expired \cup {v}
      /\ s1.versions = s.versions /\ s1.nextVersion = s.nextVersion
      /\ s1.histories = s.histories /\ s1.nextHistory = s.nextHistory
      /\ s1.active = s.active /\ s1.retired = s.retired /\ s1.order = s.order
      /\ s1.arena = s.arena
      /\ s1.historyBindings = s.historyBindings
      /\ s1.versionBindings = s.versionBindings
  BY Fields DEF Sound
<1> HIDE DEF s1, K
<1>4. Sound(s1)
  <2>1. TreesTrue(s1) /\ Dense(s1)
    BY <1>3 DEF Sound, CatalogueSound, TreesTrue, Content, Dense
  <2>2. CatalogueSound(s1)
    BY <1>3, <2>1 DEF ExpireFresh, Known, Sound, CatalogueSound
  <2>3. LedgersSound(s1)
    BY <1>3 DEF Sound, LedgersSound, LedgersDisjoint, Ledger
  <2>4. QED
    BY <1>3, <2>2, <2>3 DEF Sound
<1>5. Sound(t) /\ Grows(s1, t)
  BY <1>2, <1>3, <1>4, RetiringSound
<1> HIDE DEF t
<1>6. Grows(s, t)
  BY <1>3, <1>5 DEF Grows
<1>7. QED
  BY <1>1, <1>5, <1>6

\* The renumbering of a finite set is a bijection.
LEMMA RenumberingFacts ==
    ASSUME NEW R, IsFiniteSet(R)
    PROVE  /\ Cardinality(R) \in Nat
           /\ Renumbering(R) \in [R -> 1..Cardinality(R)]
           /\ \A x, y \in R : Renumbering(R)[x] = Renumbering(R)[y] => x = y
           /\ \A i \in 1..Cardinality(R) : \E x \in R : Renumbering(R)[x] = i
<1> DEFINE n == Cardinality(R)
           f == Renumbering(R)
<1>1. n \in Nat /\ ExistsBijection(1..n, R)
  BY FS_CardinalityType
<1> HIDE DEF n
<1>2. PICK g : g \in Bijection(R, 1..n)
  <2>1. ExistsBijection(R, 1..n)
    BY <1>1, Fun_ExistsBijSymmetric
  <2>2. QED
    BY <2>1, Fun_ExistsBij
<1>3. g \in [R -> 1..n] /\ \A x, y \in R : g[x] = g[y] => x = y
  BY <1>2 DEF Bijection, Injection, IsInjective
<1>4. f \in [R -> 1..n] /\ \A x, y \in R : f[x] = f[y] => x = y
  BY <1>3, Zenon DEF Renumbering, n
<1> HIDE DEF f
<1>5. f \in Injection(R, 1..n)
  BY <1>4, Fun_IsInj
<1>6. IsFiniteSet(1..n) /\ Cardinality(1..n) = n
  BY <1>1, FS_Interval
<1>7. f \in Surjection(R, 1..n)
  BY <1>5, <1>6, FS_Injection DEF n
<1>8. \A i \in 1..n : \E x \in R : f[x] = i
  BY <1>7 DEF Surjection
<1>9. QED
  BY <1>1, <1>4, <1>8 DEF n, f

\* prepare_gc, prepare_physical_gc: every retained version keeps its bytes
\* under its new root, every expired one loses its root.
LEMMA GcSound ==
    ASSUME NEW s, Sound(s), GcReady(s)
    PROVE  Sound(ApplyGc(s)) /\ Grows(s, ApplyGc(s))
<1> DEFINE R == RetainedRoots(s)
           n == Cardinality(R)
           remap == Renumbering(R)
           packed == Repacked(s, R, remap)
           moved == Relocated(s, remap)
           t == ApplyGc(s)
<1>1. R \subseteq DOMAIN s.arena /\ s.arena \in Seq(Seq(Bytes))
  BY DEF RetainedRoots, Sound, CatalogueSound, TreesTrue
<1>2. IsFiniteSet(R)
  <2>1. R \subseteq Nat /\ \A x \in R : x <= Len(s.arena)
    BY <1>1
  <2> HIDE DEF R
  <2>2. Len(s.arena) \in Nat
    BY <1>1
  <2>3. QED
    BY <2>1, <2>2, FS_BoundedSetOfNaturals, Zenon
<1>3. \A v \in DOMAIN s.versions \ s.expired : s.versions[v].root \in R
  BY DEF RetainedRoots
<1>4. /\ DOMAIN t = DOMAIN NewStore
      /\ t.arena = packed /\ t.versions = moved
      /\ t.nextVersion = s.nextVersion
      /\ t.histories = s.histories /\ t.nextHistory = s.nextHistory
      /\ t.active = s.active /\ t.retired = s.retired /\ t.order = s.order
      /\ t.expired = s.expired
      /\ t.historyBindings = s.historyBindings
      /\ t.versionBindings = s.versionBindings
  <2>1. t = [s EXCEPT !.arena = packed, !.versions = moved]
    BY Zenon DEF ApplyGc
  <2> HIDE DEF t, packed, moved
  <2>2. QED
    BY <2>1, Fields DEF Sound
<1> HIDE DEF R, t
<1>5. /\ n \in Nat /\ remap \in [R -> 1..n]
      /\ \A x, y \in R : remap[x] = remap[y] => x = y
      /\ \A i \in 1..n : \E x \in R : remap[x] = i
  BY <1>2, RenumberingFacts
<1> HIDE DEF n, remap
<1>6. \A x \in R : packed[remap[x]] = s.arena[x]
  <2>1. ASSUME NEW x \in R
        PROVE  packed[remap[x]] = s.arena[x]
    <3>1. remap[x] \in 1..n
      BY <1>5
    <3>2. (CHOOSE y \in R : remap[y] = remap[x]) = x
      BY <1>5
    <3>3. QED
      BY <3>1, <3>2 DEF Repacked, n
  <2>2. QED
    BY <2>1
<1>7. packed \in Seq(Seq(Bytes)) /\ DOMAIN packed = 1..n
  <2>1. ASSUME NEW i \in 1..n
        PROVE  s.arena[CHOOSE x \in R : remap[x] = i] \in Seq(Bytes)
    <3>1. (CHOOSE x \in R : remap[x] = i) \in R
      BY <1>5
    <3>2. QED
      BY <1>1, <3>1
  <2>2. packed \in [1..n -> Seq(Bytes)]
    BY <2>1 DEF Repacked, n
  <2>3. QED
    BY <1>5, <2>2
<1>8. ASSUME NEW v \in DOMAIN s.versions
      PROVE  /\ moved[v] \in VersionRecords
             /\ [moved[v] EXCEPT !.root = None] = [s.versions[v] EXCEPT !.root = None]
             /\ moved[v].meant = s.versions[v].meant /\ moved[v].len = s.versions[v].len
             /\ v \in s.expired => moved[v].root = None
             /\ v \notin s.expired =>
                   /\ moved[v].root = remap[s.versions[v].root]
                   /\ s.versions[v].root \in R
                   /\ s.arena[s.versions[v].root] = s.versions[v].meant
  <2>1. s.versions[v] \in VersionRecords
    BY DEF Sound, CatalogueSound
  <2>2. v \notin s.expired => remap[s.versions[v].root] \in Nat
    BY <1>3, <1>5
  <2>3. v \notin s.expired => s.arena[s.versions[v].root] = s.versions[v].meant
    BY DEF Sound, CatalogueSound, TreesTrue, Content
  <2>4. QED
    BY <1>3, <2>1, <2>2, <2>3 DEF VersionRecords, Relocated
<1>9. DOMAIN moved = DOMAIN s.versions /\ moved \in [DOMAIN moved -> VersionRecords]
  BY <1>8 DEF Relocated
<1> HIDE DEF packed, moved
<1>10. TreesTrue(t)
  <2>1. ASSUME NEW v \in DOMAIN t.versions
        PROVE  /\ Len(t.versions[v].meant) = t.versions[v].len
               /\ v \notin t.expired => t.versions[v].root # None
               /\ t.versions[v].root # None =>
                     /\ t.versions[v].root \in DOMAIN t.arena
                     /\ t.arena[t.versions[v].root] = t.versions[v].meant
    <3>1. v \in DOMAIN s.versions /\ Len(s.versions[v].meant) = s.versions[v].len
      BY <1>4, <1>9 DEF Sound, CatalogueSound, TreesTrue
    <3>2. CASE v \in s.expired
      BY <1>4, <1>8, <3>1, <3>2
    <3>3. CASE v \notin s.expired
      <4>1. /\ moved[v].root = remap[s.versions[v].root] /\ s.versions[v].root \in R
            /\ s.arena[s.versions[v].root] = s.versions[v].meant
            /\ moved[v].meant = s.versions[v].meant /\ moved[v].len = s.versions[v].len
        BY <1>8, <3>1, <3>3
      <4>2. remap[s.versions[v].root] \in 1..n
        BY <1>5, <4>1
      <4>3. remap[s.versions[v].root] # None
        BY <4>2, StoreAssumption
      <4>4. packed[remap[s.versions[v].root]] = s.arena[s.versions[v].root]
        BY <1>6, <4>1
      <4>5. QED
        BY <1>4, <1>7, <3>1, <4>1, <4>2, <4>3, <4>4
    <3>4. QED
      BY <3>2, <3>3
  <2>2. QED
    BY <2>1 DEF TreesTrue, Content
<1>11. Sound(t)
  <2>1. CatalogueSound(t)
    BY <1>4, <1>7, <1>9, <1>10 DEF Sound, CatalogueSound, Dense
  <2>2. LedgersSound(t)
    BY <1>4 DEF Sound, LedgersSound, LedgersDisjoint, Ledger
  <2>3. QED
    BY <1>4, <2>1, <2>2 DEF Sound
<1>12. Grows(s, t)
  <2>1. s.nextHistory <= t.nextHistory /\ s.nextVersion <= t.nextVersion
    BY <1>4 DEF Sound, CatalogueSound
  <2>2. DOMAIN s.retired \cap DOMAIN t.active = {}
    BY <1>4 DEF Sound, LedgersSound, LedgersDisjoint
  <2>3. QED
    BY <1>4, <1>8, <1>9, <2>1, <2>2 DEF Grows
<1>13. QED
  BY <1>11, <1>12 DEF t

\* append asks for a splice at the end of a version the store knows.
LEMMA AppendOpType ==
    ASSUME NEW s, Sound(s), NEW h \in HistoryIds, NEW p \in VersionIds \cup {None},
           NEW i \in Inserts, NEW b \in Bindings \cup {None},
           p # None => Known(s, p)
    PROVE  AppendOp(s, h, p, i, b) \in SpliceOps
<1>1. ParentLen(s, p) \in 0..MaxLen
  <2>1. CASE p = None
    BY <2>1, StoreAssumption DEF ParentLen
  <2>2. CASE p # None
    BY <2>2 DEF ParentLen, Known, Sound, CatalogueSound, VersionRecords
  <2>3. QED
    BY <2>1, <2>2
<1>2. 0 \in 0..MaxLen
  BY StoreAssumption
<1>3. QED
  BY <1>1, <1>2 DEF AppendOp, SpliceOps
=============================================================================
