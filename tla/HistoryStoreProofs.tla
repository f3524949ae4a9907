------------------------- MODULE HistoryStoreProofs -------------------------
(***************************************************************************)
(* Proofs about HistoryStore, for every alphabet, capacity and bound: the  *)
(* store is always well typed, every retained version reads as the bytes   *)
(* its commit promised, versions are immutable and nothing comes back; a   *)
(* receipt names the version of its own operation, a request commits twice *)
(* only past the receipt horizon, and no reachable store is refused by its *)
(* own snapshot gate.                                                      *)
(*                                                                         *)
(* The first four rest on Sound, an operator on stores: HistoryOpsProofs   *)
(* shows that each operation preserves it.  The other three are not        *)
(* inductive alone.  LedgerTrue adds what they rest on: the eviction order *)
(* lists the ledgers without repetition, and a remembered request sits as  *)
(* far from the end of that order as requests committed after it           *)
(* (HorizonExact).                                                         *)
(***************************************************************************)
EXTENDS HistoryStore, HistoryOpsProofs

\* Sound is StoreInvariant, as an operator on stores.
LEMMA SoundIsStoreInvariant == StoreInvariant <=> Sound(store)
BY DEF StoreInvariant, StoreType, Sound, CatalogueSound, LedgersSound

\* Every operation keeps a sound store sound and forgets nothing it promised.
LEMMA NextSound ==
    ASSUME Sound(store), Next
    PROVE  Sound(store') /\ Grows(store, store')
<1>1. CASE CreateHistory
  BY <1>1, CreateSound DEF CreateHistory
<1>2. ASSUME NEW b \in Bindings, CreateHistoryWithBinding(b)
      PROVE  Sound(store') /\ Grows(store, store')
  BY <1>2, CreateSound DEF CreateHistoryWithBinding
<1>3. ASSUME NEW op \in SpliceOps, NEW r \in Requests \cup {None}, Splice(op, r)
      PROVE  Sound(store') /\ Grows(store, store')
  BY <1>3, SpliceSound DEF Splice
<1>4. ASSUME NEW h \in HistoryIds, NEW p \in VersionIds \cup {None}, NEW i \in Inserts,
             NEW r \in Requests \cup {None}, NEW b \in Bindings \cup {None},
             AppendBytes(h, p, i, r, b)
      PROVE  Sound(store') /\ Grows(store, store')
  <2>1. AppendOp(store, h, p, i, b) \in SpliceOps
    BY <1>4, AppendOpType DEF AppendBytes
  <2>2. Splice(AppendOp(store, h, p, i, b), r)
    BY <1>4 DEF AppendBytes
  <2>3. QED
    BY <1>3, <2>1, <2>2
<1>5. ASSUME NEW op \in ForkOps, NEW r \in Requests \cup {None}, Fork(op, r)
      PROVE  Sound(store') /\ Grows(store, store')
  BY <1>5, ForkSound DEF Fork
<1>6. ASSUME NEW v \in VersionIds, Expire(v)
      PROVE  Sound(store') /\ Grows(store, store')
  BY <1>6, ExpireSound DEF Expire
<1>7. ASSUME NEW r \in Requests, RetireRequest(r)
      PROVE  Sound(store') /\ Grows(store, store')
  BY <1>7, RetireSound DEF RetireRequest
<1>8. CASE Gc
  BY <1>8, GcSound DEF Gc
<1>9. QED
  BY <1>1, <1>2, <1>3, <1>4, <1>5, <1>6, <1>7, <1>8, Zenon DEF Next

\* The inductive invariant holds in every reachable store: whatever sequence of
\* creates, splices, appends, forks, expiries, retirements and collections the
\* caller makes, identities are dense, no request is in both ledgers and every
\* root leads to the bytes its version promised.
THEOREM InvariantHolds == Spec => []StoreInvariant
<1>1. Init => StoreInvariant
  BY NewStoreSound, SoundIsStoreInvariant DEF Init
<1>2. StoreInvariant /\ [Next]_store => StoreInvariant'
  <2> SUFFICES ASSUME StoreInvariant, [Next]_store
               PROVE  StoreInvariant'
    OBVIOUS
  <2>1. CASE Next
    <3>1. Sound(store')
      BY <2>1, NextSound, SoundIsStoreInvariant
    <3>2. QED
      BY <3>1 DEF StoreInvariant, StoreType, Sound, CatalogueSound, LedgersSound
  <2>2. CASE UNCHANGED store
    BY <2>2 DEF StoreInvariant
  <2>3. QED
    BY <2>1, <2>2
<1>3. QED
  BY <1>1, <1>2, PTL DEF Spec

\* The store is always well typed: no counter of create_history, splice or fork
\* passes its limit and every ledger, map and arena entry has its type.
THEOREM TypeCorrect == Spec => []TypeOK
<1>1. StoreInvariant => TypeOK
  BY DEF StoreInvariant, TypeOK
<1>2. QED
  BY <1>1, InvariantHolds, PTL

\* A retained version always reads as the bytes its commit promised (read,
\* after any splices, forks, expiries and compactions).
THEOREM ReadsTrue == Spec => []RetainedReadsTrue
<1>1. StoreInvariant => RetainedReadsTrue
  BY DEF StoreInvariant, TreesTrue, RetainedReadsTrue
<1>2. QED
  BY <1>1, InvariantHolds, PTL

\* No operation changes a committed version: not its lineage, its length, its
\* request, its binding or, while it is retained, its bytes.
THEOREM Immutable == Spec => VersionsImmutable
<1> DEFINE Step == \A v \in DOMAIN store.versions :
         /\ v \in DOMAIN store'.versions
         /\ [store'.versions[v] EXCEPT !.root = None] = [store.versions[v] EXCEPT !.root = None]
         /\ v \in DOMAIN store.versionBindings <=> v \in DOMAIN store'.versionBindings
         /\ v \in DOMAIN store.versionBindings =>
                store.versionBindings[v] = store'.versionBindings[v]
         /\ v \notin store'.expired => Content(store', v) = Content(store, v)
<1>1. StoreInvariant /\ Next => Step
  <2> SUFFICES ASSUME StoreInvariant, Next, NEW v \in DOMAIN store.versions
               PROVE  /\ v \in DOMAIN store'.versions
                      /\ [store'.versions[v] EXCEPT !.root = None]
                            = [store.versions[v] EXCEPT !.root = None]
                      /\ v \in DOMAIN store.versionBindings
                            <=> v \in DOMAIN store'.versionBindings
                      /\ v \in DOMAIN store.versionBindings =>
                            store.versionBindings[v] = store'.versionBindings[v]
                      /\ v \notin store'.expired => Content(store', v) = Content(store, v)
    OBVIOUS
  <2>1. Sound(store) /\ Sound(store') /\ Grows(store, store')
    BY NextSound, SoundIsStoreInvariant
  <2>2. /\ v \in DOMAIN store'.versions
        /\ [store'.versions[v] EXCEPT !.root = None]
             = [store.versions[v] EXCEPT !.root = None]
        /\ v \in DOMAIN store.versionBindings <=> v \in DOMAIN store'.versionBindings
        /\ v \in DOMAIN store.versionBindings =>
              store.versionBindings[v] = store'.versionBindings[v]
    BY <2>1 DEF Grows
  <2>3. store'.versions[v].meant = store.versions[v].meant
    <3>1. store.versions[v] \in VersionRecords /\ store'.versions[v] \in VersionRecords
      BY <2>1, <2>2 DEF Sound, CatalogueSound
    <3>2. QED
      BY <2>2, <3>1 DEF VersionRecords
  <2>4. ASSUME v \notin store'.expired
        PROVE  Content(store', v) = Content(store, v)
    <3>1. v \notin store.expired
      BY <2>1, <2>4 DEF Grows
    <3>2. Content(store, v) = store.versions[v].meant
      BY <2>1, <3>1 DEF Sound, CatalogueSound, TreesTrue
    <3>3. Content(store', v) = store'.versions[v].meant
      BY <2>1, <2>2, <2>4 DEF Sound, CatalogueSound, TreesTrue
    <3>4. QED
      BY <2>3, <3>2, <3>3
  <2>5. QED
    BY <2>2, <2>4
<1>2. StoreInvariant /\ [Next]_store => [Step]_store
  BY <1>1
<1>3. QED
  BY <1>2, InvariantHolds, PTL DEF Spec, VersionsImmutable

\* Nothing an expiry, a retirement or a collection gave up comes back, and no
\* counter runs backwards.
THEOREM NoResurrection == Spec => NothingResurrects
<1> DEFINE Step ==
       /\ store.expired \subseteq store'.expired
       /\ DOMAIN store.retired \cap DOMAIN store'.active = {}
       /\ \A v \in store.expired :
              store.versions[v].root = None => store'.versions[v].root = None
       /\ store.nextHistory <= store'.nextHistory
       /\ store.nextVersion <= store'.nextVersion
<1>1. StoreInvariant /\ Next => Step
  <2> SUFFICES ASSUME StoreInvariant, Next
               PROVE  Step
    OBVIOUS
  <2>1. Sound(store) /\ Grows(store, store')
    BY NextSound, SoundIsStoreInvariant
  <2>2. store.expired \subseteq DOMAIN store.versions
    BY <2>1 DEF Sound, CatalogueSound
  <2>3. QED
    BY <2>1, <2>2 DEF Grows
<1>2. StoreInvariant /\ [Next]_store => [Step]_store
  BY <1>1
<1>3. QED
  BY <1>2, InvariantHolds, PTL DEF Spec, NothingResurrects

-----------------------------------------------------------------------------
(* The idempotency ledgers and the snapshot gate *)

\* The eviction order lists every request of the two ledgers once, and no
\* more than n of them.
OrderExact(s, n) ==
    /\ Len(s.order) <= n
    /\ \A i, j \in 1..Len(s.order) : s.order[i] = s.order[j] => i = j
    /\ \A r \in Ledger(s) : \E i \in 1..Len(s.order) : s.order[i] = r
    /\ \A i \in 1..Len(s.order) : s.order[i] \in Ledger(s)

\* A version's history is known and its parent is older, in the same history.
LineageSound(s) ==
    \A v \in DOMAIN s.versions :
        /\ s.versions[v].history < s.nextHistory
        /\ s.versions[v].parent # None =>
             /\ s.versions[v].parent < v
             /\ s.versions[s.versions[v].parent].history = s.versions[v].history

\* What an active receipt says of its version.
ReceiptTrue(s, r, receipt) ==
    /\ receipt.version \in DOMAIN s.versions \ s.expired
    /\ s.versions[receipt.version].request = r
    /\ s.versions[receipt.version].history = receipt.digest.history
    /\ s.versions[receipt.version].parent = receipt.digest.parent
    /\ s.versions[receipt.version].meant = Meaning(s, receipt.digest)

ReceiptsTrue(s) == \A r \in DOMAIN s.active : ReceiptTrue(s, r, s.active[r])

\* The versions from lo to hi that a request committed.
Requesting(s, lo, hi) == {u \in lo..hi : s.versions[u].request # None}

\* A version a request committed is beyond the horizon, or its request stands
\* in the order with as many requests after it as committed since.
HorizonExact(s) ==
    \A v \in DOMAIN s.versions :
        s.versions[v].request # None =>
            LET since == Cardinality(Requesting(s, v + 1, s.nextVersion - 1))
            IN  \/ since >= Capacity
                \/ \E i \in 1..Len(s.order) :
                      s.order[i] = s.versions[v].request /\ since = Len(s.order) - i

OnceInHorizon(s) ==
    \A v, w \in DOMAIN s.versions :
        (v < w /\ s.versions[v].request # None /\ s.versions[v].request = s.versions[w].request)
        => Cardinality(Requesting(s, v + 1, w - 1)) >= Capacity

LedgerTrue(s) ==
    /\ OrderExact(s, Capacity)
    /\ LineageSound(s)
    /\ BindingsUnique(s)
    /\ ReceiptsTrue(s)
    /\ HorizonExact(s)
    /\ OnceInHorizon(s)

-----------------------------------------------------------------------------
(* Counting receipts *)

\* The ledgers together hold as many receipts as the order lists.
LEMMA LedgerCount ==
    ASSUME NEW s, s.order \in Seq(Requests), NEW n, OrderExact(s, n), LedgersDisjoint(s)
    PROVE  /\ IsFiniteSet(DOMAIN s.active) /\ IsFiniteSet(DOMAIN s.retired)
           /\ Cardinality(DOMAIN s.active) \in Nat /\ Cardinality(DOMAIN s.retired) \in Nat
           /\ Cardinality(DOMAIN s.active) + Cardinality(DOMAIN s.retired) = Len(s.order)
           /\ Cardinality(Ledger(s)) = Len(s.order)
<1> DEFINE L == Ledger(s)
           A == DOMAIN s.active
           B == DOMAIN s.retired
           m == Len(s.order)
<1>1. m \in Nat /\ s.order \in [1..m -> L]
  BY DEF OrderExact
<1>2. s.order \in Bijection(1..m, L)
  <2>1. IsInjective(s.order)
    BY <1>1 DEF OrderExact, IsInjective
  <2>2. \A r \in L : \E i \in 1..m : s.order[i] = r
    BY DEF OrderExact
  <2>3. QED
    BY <1>1, <2>1, <2>2 DEF Bijection, Injection, Surjection
<1>3. ExistsBijection(1..m, L)
  BY <1>2 DEF ExistsBijection
<1>4. IsFiniteSet(L) /\ Cardinality(L) = m
  BY <1>1, <1>3, FS_NatBijection, FS_CountingElements
<1>5. L = A \cup B /\ A \cap B = {} /\ A \subseteq L /\ B \subseteq L
  BY DEF Ledger, LedgersDisjoint
<1> HIDE DEF L, A, B, m
<1>6. IsFiniteSet(A) /\ IsFiniteSet(B)
  BY <1>4, <1>5, FS_Subset
<1>7. Cardinality(A) \in Nat /\ Cardinality(B) \in Nat
  BY <1>6, FS_CardinalityType
<1>8. Cardinality(L) = Cardinality(A) + Cardinality(B) - Cardinality({})
  BY <1>5, <1>6, FS_Union
<1>9. QED
  BY <1>4, <1>6, <1>7, <1>8, FS_EmptySet DEF L, A, B, m

\* How many of the oldest receipts overflow the capacity: one popped receipt
\* makes room for one.
LEMMA OverflowingExact ==
    ASSUME NEW s, s.order \in Seq(Requests), NEW n, OrderExact(s, n), LedgersDisjoint(s)
    PROVE  /\ Overflowing(s, Oldest(s, 0)) <=> Len(s.order) > Capacity
           /\ Len(s.order) > 0 =>
                (Overflowing(s, Oldest(s, 1)) <=> Len(s.order) - 1 > Capacity)
<1> DEFINE A == DOMAIN s.active
           B == DOMAIN s.retired
<1>1. /\ IsFiniteSet(A) /\ IsFiniteSet(B) /\ A \cap B = {}
      /\ Cardinality(A) \in Nat /\ Cardinality(B) \in Nat
      /\ Cardinality(A) + Cardinality(B) = Len(s.order)
  BY LedgerCount DEF LedgersDisjoint
<1>2. Capacity \in Nat
  BY StoreAssumption
<1>3. Overflowing(s, Oldest(s, 0)) <=> Len(s.order) > Capacity
  <2>1. Oldest(s, 0) = {}
    BY DEF Oldest
  <2>2. A \ {} = A /\ (B \ {}) \cup (B \cap A) = B
    OBVIOUS
  <2>3. QED
    BY <1>1, <2>1, <2>2 DEF Overflowing
<1>4. ASSUME Len(s.order) > 0
      PROVE  Overflowing(s, Oldest(s, 1)) <=> Len(s.order) - 1 > Capacity
  <2> DEFINE r == s.order[1]
  <2>1. Oldest(s, 1) = {r}
    BY DEF Oldest
  <2>2. r \in A \cup B
    BY <1>4 DEF OrderExact, Ledger
  <2>3. (B \ {r}) \cup (B \cap A) = B \ {r}
    BY <1>1
  <2> HIDE DEF r, A, B
  <2>4. /\ Cardinality(A \ {r}) = IF r \in A THEN Cardinality(A) - 1 ELSE Cardinality(A)
        /\ Cardinality(B \ {r}) = IF r \in B THEN Cardinality(B) - 1 ELSE Cardinality(B)
    BY <1>1, FS_RemoveElement
  <2>5. Cardinality(A \ {r}) + Cardinality(B \ {r}) = Len(s.order) - 1
    BY <1>1, <2>2, <2>4
  <2>6. Overflowing(s, {r}) <=> Cardinality(A \ {r}) + Cardinality(B \ {r}) > Capacity
    BY <2>3 DEF Overflowing, A, B
  <2>7. QED
    BY <2>1, <2>5, <2>6
<1>5. QED
  BY <1>3, <1>4

\* enforce_receipt_horizon pops nothing within the capacity and the oldest
\* receipt one past it.
LEMMA EvictionsExact ==
    ASSUME NEW s, s.order \in Seq(Requests), OrderExact(s, Capacity + 1), LedgersDisjoint(s)
    PROVE  Evictions(s) = IF Len(s.order) <= Capacity THEN 0 ELSE 1
<1> DEFINE enough == {k \in 0..Len(s.order) : ~Overflowing(s, Oldest(s, k))}
           most == IF Len(s.order) <= Capacity THEN 0 ELSE 1
<1>1. Capacity \in Nat \ {0} /\ Len(s.order) \in Nat /\ Len(s.order) <= Capacity + 1
  BY StoreAssumption DEF OrderExact
<1>2. /\ 0 \in enough <=> Len(s.order) <= Capacity
      /\ Len(s.order) > Capacity => 1 \in enough
  BY <1>1, OverflowingExact
<1>3. most \in enough /\ \A j \in enough : most <= j
  BY <1>1, <1>2
<1>4. enough \subseteq Nat
  OBVIOUS
<1>5. Evictions(s) = CHOOSE k \in enough : \A j \in enough : k <= j
  BY <1>3, Zenon DEF Evictions
<1> HIDE DEF enough, most
<1>6. (CHOOSE k \in enough : \A j \in enough : k <= j) = most
  <2>1. ASSUME NEW k \in enough, \A j \in enough : k <= j
        PROVE  k = most
    BY <1>3, <1>4, <2>1
  <2>2. QED
    BY <1>3, <2>1
<1>7. QED
  BY <1>5, <1>6 DEF most

-----------------------------------------------------------------------------
(* Operations that commit no version *)

\* t has the version records of s, up to their roots.
SameRecords(s, t) ==
    /\ DOMAIN t.versions = DOMAIN s.versions
    /\ t.nextVersion = s.nextVersion
    /\ \A v \in DOMAIN s.versions :
          /\ t.versions[v].history = s.versions[v].history
          /\ t.versions[v].parent = s.versions[v].parent
          /\ t.versions[v].meant = s.versions[v].meant
          /\ t.versions[v].request = s.versions[v].request

\* The catalogue of a sound store, as arithmetic needs it.
LEMMA VersionFacts ==
    ASSUME NEW s, Sound(s), NEW v \in DOMAIN s.versions
    PROVE  /\ v \in Nat /\ v < s.nextVersion /\ s.nextVersion \in Nat
           /\ \A u \in v + 1 .. s.nextVersion - 1 : u \in DOMAIN s.versions
           /\ s.versions[v].history \in Nat /\ s.nextHistory \in Nat
           /\ s.versions[v].parent \in Nat \cup {None}
           /\ s.versions[v].request \in Requests \cup {None}
<1>1. v \in 0..s.nextVersion - 1 /\ s.nextVersion \in Nat /\ s.nextHistory \in Nat
  BY StoreAssumption DEF Sound, CatalogueSound, Dense
<1>2. s.versions[v] \in VersionRecords
  BY DEF Sound, CatalogueSound
<1>3. \A u \in v + 1 .. s.nextVersion - 1 : u \in DOMAIN s.versions
  BY <1>1 DEF Sound, CatalogueSound, Dense
<1>4. HistoryIds \subseteq Nat /\ VersionIds \subseteq Nat
  BY DEF HistoryIds, VersionIds
<1>5. /\ s.versions[v].history \in HistoryIds
      /\ s.versions[v].parent \in VersionIds \cup {None}
      /\ s.versions[v].request \in Requests \cup {None}
  BY <1>2 DEF VersionRecords
<1>6. v \in Nat /\ v < s.nextVersion
  BY <1>1
<1>7. QED
  BY <1>1, <1>3, <1>4, <1>5, <1>6

\* A parent is a version of the catalogue.
LEMMA ParentKnown ==
    ASSUME NEW s, Sound(s), LineageSound(s), NEW v \in DOMAIN s.versions,
           s.versions[v].parent # None
    PROVE  s.versions[v].parent \in DOMAIN s.versions
<1>1. /\ v \in Nat /\ v < s.nextVersion /\ s.nextVersion \in Nat
      /\ s.versions[v].parent \in Nat /\ s.versions[v].parent < v
  BY VersionFacts DEF LineageSound
<1>2. DOMAIN s.versions = 0..s.nextVersion - 1
  BY DEF Sound, CatalogueSound, Dense
<1>3. QED
  BY <1>1, <1>2

\* Requests are counted the same.
LEMMA SameRequesting ==
    ASSUME NEW s, NEW t, NEW lo, NEW hi,
           \A u \in lo..hi : t.versions[u].request = s.versions[u].request
    PROVE  Requesting(t, lo, hi) = Requesting(s, lo, hi)
BY DEF Requesting

\* An operation that commits no version and forgets no request keeps the
\* ledgers true, if every receipt it leaves active is of a retained version.
LEMMA QuietLedger ==
    ASSUME NEW s, Sound(s), LedgerTrue(s), NEW t, Sound(t), SameRecords(s, t),
           s.nextHistory <= t.nextHistory, BindingsUnique(t),
           t.order = s.order, Ledger(t) = Ledger(s), Within(t.active, s.active),
           \A r \in DOMAIN t.active : t.active[r].version \notin t.expired
    PROVE  LedgerTrue(t)
<1> USE DEF LedgerTrue
<1>1. OrderExact(t, Capacity)
  BY DEF OrderExact
<1>2. ASSUME NEW v \in DOMAIN s.versions, s.versions[v].parent # None
      PROVE  s.versions[v].parent \in DOMAIN s.versions
  BY <1>2, ParentKnown
<1>3. LineageSound(t)
  <2> SUFFICES ASSUME NEW v \in DOMAIN t.versions
               PROVE  /\ t.versions[v].history < t.nextHistory
                      /\ t.versions[v].parent # None =>
                           /\ t.versions[v].parent < v
                           /\ t.versions[t.versions[v].parent].history = t.versions[v].history
    BY DEF LineageSound
  <2>1. v \in DOMAIN s.versions
    BY DEF SameRecords
  <2>2. s.versions[v].history \in Nat /\ s.nextHistory \in Nat /\ t.nextHistory \in Nat
    BY <2>1, VersionFacts
  <2>3. t.versions[v].history < t.nextHistory
    BY <2>1, <2>2 DEF LineageSound, SameRecords
  <2>4. QED
    BY <1>2, <2>1, <2>3 DEF LineageSound, SameRecords
<1>4. ReceiptsTrue(t)
  <2> SUFFICES ASSUME NEW r \in DOMAIN t.active
               PROVE  ReceiptTrue(t, r, t.active[r])
    BY DEF ReceiptsTrue
  <2> DEFINE v == s.active[r].version
             op == s.active[r].digest
  <2>1. r \in DOMAIN s.active /\ t.active[r] = s.active[r]
    BY DEF Within
  <2>2. /\ v \in DOMAIN s.versions /\ v \notin t.expired
        /\ s.versions[v].request = r
        /\ s.versions[v].history = op.history
        /\ s.versions[v].parent = op.parent
        /\ s.versions[v].meant = Meaning(s, op)
    BY <2>1 DEF ReceiptsTrue, ReceiptTrue
  <2>3. Meaning(t, op) = Meaning(s, op)
    BY <1>2, <2>2 DEF Meaning, SameRecords
  <2>4. QED
    BY <2>1, <2>2, <2>3 DEF ReceiptTrue, SameRecords
<1>5. HorizonExact(t)
  <2> SUFFICES ASSUME NEW v \in DOMAIN t.versions, t.versions[v].request # None
               PROVE  LET since == Cardinality(Requesting(t, v + 1, t.nextVersion - 1))
                      IN  \/ since >= Capacity
                          \/ \E i \in 1..Len(t.order) :
                                t.order[i] = t.versions[v].request /\ since = Len(t.order) - i
    BY DEF HorizonExact
  <2>1. v \in DOMAIN s.versions /\ t.versions[v].request = s.versions[v].request
    BY DEF SameRecords
  <2>2. Requesting(t, v + 1, t.nextVersion - 1) = Requesting(s, v + 1, s.nextVersion - 1)
    BY <2>1, VersionFacts, SameRequesting DEF SameRecords
  <2>3. QED
    BY <2>1, <2>2 DEF HorizonExact
<1>6. OnceInHorizon(t)
  <2> SUFFICES ASSUME NEW v \in DOMAIN t.versions, NEW w \in DOMAIN t.versions, v < w,
                      t.versions[v].request # None,
                      t.versions[v].request = t.versions[w].request
               PROVE  Cardinality(Requesting(t, v + 1, w - 1)) >= Capacity
    BY DEF OnceInHorizon
  <2>1. /\ v \in DOMAIN s.versions /\ t.versions[v].request = s.versions[v].request
        /\ w \in DOMAIN s.versions /\ t.versions[w].request = s.versions[w].request
    BY DEF SameRecords
  <2>2. \A u \in v + 1 .. w - 1 : u \in DOMAIN s.versions
    BY <2>1, VersionFacts
  <2>3. Requesting(t, v + 1, w - 1) = Requesting(s, v + 1, w - 1)
    BY <2>2, SameRequesting DEF SameRecords
  <2>4. QED
    BY <2>1, <2>3 DEF OnceInHorizon
<1>7. QED
  BY <1>1, <1>3, <1>4, <1>5, <1>6

\* create_history, create_history_with_binding
LEMMA CreateLedger ==
    ASSUME NEW s, Sound(s), LedgerTrue(s), NEW b \in Bindings \cup {None}, CreateFresh(s, b)
    PROVE  LedgerTrue(Create(s, b))
<1> DEFINE t == Create(s, b)
           id == s.nextHistory
<1>1. /\ t.historyBindings = PutBinding(s.historyBindings, id, b)
      /\ t.versions = s.versions /\ t.nextVersion = s.nextVersion
      /\ t.active = s.active /\ t.retired = s.retired /\ t.order = s.order
      /\ t.expired = s.expired
  BY Fields DEF Create, Sound
<1>2. Sound(t) /\ s.nextHistory <= t.nextHistory
  BY CreateSound DEF Grows
<1> HIDE DEF t
<1>3. BindingsUnique(t)
  <2>1. CASE b = None
    BY <1>1, <2>1 DEF PutBinding, BindingsUnique, LedgerTrue
  <2>2. CASE b # None
    BY <1>1, <2>2 DEF PutBinding, Put, BindingsUnique, LedgerTrue, CreateFresh
  <2>3. QED
    BY <2>1, <2>2
<1>4. SameRecords(s, t) /\ Within(t.active, s.active) /\ Ledger(t) = Ledger(s)
  BY <1>1 DEF SameRecords, Within, Ledger, Sound, LedgersSound
<1>5. \A r \in DOMAIN t.active : t.active[r].version \notin t.expired
  BY <1>1 DEF LedgerTrue, ReceiptsTrue, ReceiptTrue
<1>6. QED
  BY <1>1, <1>2, <1>3, <1>4, <1>5, QuietLedger DEF t

\* retire_request: the receipt moves, the request stays remembered.
LEMMA RetireLedger ==
    ASSUME NEW s, Sound(s), LedgerTrue(s), NEW req, RetireFresh(s, req)
    PROVE  LedgerTrue(ApplyRetire(s, req))
<1> DEFINE t == MoveToRetired(s, {req})
<1>1. /\ SameCatalogue(s, t)
      /\ t.active = Drop(s.active, {req})
      /\ DOMAIN t.retired = DOMAIN s.retired \cup {req}
      /\ t.order = s.order
  BY Fields DEF SameCatalogue, MoveToRetired, Sound
<1>2. Sound(t) /\ s.nextHistory <= t.nextHistory
  BY RetireSound DEF ApplyRetire, Grows
<1>3. ApplyRetire(s, req) = t
  BY DEF ApplyRetire
<1> HIDE DEF t
<1>4. SameRecords(s, t) /\ BindingsUnique(t)
  BY <1>1 DEF SameRecords, SameCatalogue, BindingsUnique, LedgerTrue
<1>5. Within(t.active, s.active) /\ Ledger(t) = Ledger(s)
  BY <1>1 DEF Within, Drop, Ledger, RetireFresh
<1>6. \A r \in DOMAIN t.active : t.active[r].version \notin t.expired
  BY <1>1, <1>5 DEF Within, SameCatalogue, LedgerTrue, ReceiptsTrue, ReceiptTrue
<1>7. QED
  BY <1>1, <1>2, <1>3, <1>4, <1>5, <1>6, QuietLedger

\* apply_prepared_expire: a version has at most one active receipt, the one of
\* the request that committed it, so the receipt that is looked for is it.
LEMMA ExpireLedger ==
    ASSUME NEW s, Sound(s), LedgerTrue(s), NEW v, ExpireFresh(s, v)
    PROVE  LedgerTrue(ApplyExpire(s, v))
<1> DEFINE K == ReceiptOf(s, v)
           mine == {r \in DOMAIN s.active : s.active[r].version = v}
           s1 == [s EXCEPT !.expired = @ \cup {v}]
           t == MoveToRetired(s1, K)
<1>1. /\ DOMAIN t = DOMAIN NewStore
      /\ t.versions = s.versions /\ t.nextVersion = s.nextVersion
      /\ t.nextHistory = s.nextHistory /\ t.historyBindings = s.historyBindings
      /\ t.expired = s.expired \cup {v}
      /\ t.active = Drop(s.active, K)
      /\ DOMAIN t.retired = DOMAIN s.retired \cup K
      /\ t.order = s.order
  BY Fields DEF MoveToRetired, Sound
<1>2. ApplyExpire(s, v) = t
  BY DEF ApplyExpire
<1>3. Sound(t) /\ s.nextHistory <= t.nextHistory
  BY <1>2, ExpireSound DEF Grows
<1>4. mine \subseteq K /\ K \subseteq DOMAIN s.active
  <2>1. \A r, q \in mine : r = q
    BY DEF LedgerTrue, ReceiptsTrue, ReceiptTrue
  <2>2. QED
    BY <2>1 DEF ReceiptOf
<1> HIDE DEF t, K
<1>5. SameRecords(s, t) /\ BindingsUnique(t)
  BY <1>1 DEF SameRecords, BindingsUnique, LedgerTrue
<1>6. Within(t.active, s.active) /\ Ledger(t) = Ledger(s)
  BY <1>1, <1>4 DEF Within, Drop, Ledger
<1>7. \A r \in DOMAIN t.active : t.active[r].version \notin t.expired
  <2>1. ASSUME NEW r \in DOMAIN t.active
        PROVE  t.active[r].version \notin t.expired
    <3>1. r \in DOMAIN s.active /\ r \notin K /\ t.active[r] = s.active[r]
      BY <1>1 DEF Drop
    <3>2. s.active[r].version # v
      BY <1>4, <3>1
    <3>3. s.active[r].version \notin s.expired
      BY <3>1 DEF LedgerTrue, ReceiptsTrue, ReceiptTrue
    <3>4. QED
      BY <1>1, <3>1, <3>2, <3>3
  <2>2. QED
    BY <2>1
<1>8. QED
  BY <1>1, <1>2, <1>3, <1>5, <1>6, <1>7, QuietLedger

\* prepare_gc, prepare_physical_gc: only roots move.
LEMMA GcLedger ==
    ASSUME NEW s, Sound(s), LedgerTrue(s), GcReady(s)
    PROVE  LedgerTrue(ApplyGc(s))
<1> DEFINE R == RetainedRoots(s)
           packed == Repacked(s, R, Renumbering(R))
           moved == Relocated(s, Renumbering(R))
           t == [s EXCEPT !.arena = packed, !.versions = moved]
<1>1. ApplyGc(s) = t
  BY Zenon DEF ApplyGc
<1>2. Sound(t) /\ Grows(s, t)
  BY <1>1, GcSound
<1>3. DOMAIN moved = DOMAIN s.versions
  BY DEF Relocated
<1> HIDE DEF packed, moved
<1>4. /\ t.versions = moved /\ t.nextVersion = s.nextVersion
      /\ t.historyBindings = s.historyBindings
      /\ t.active = s.active /\ t.retired = s.retired /\ t.order = s.order
      /\ t.expired = s.expired
  BY Fields DEF Sound
<1> HIDE DEF t
<1>5. SameRecords(s, t)
  <2>1. ASSUME NEW v \in DOMAIN s.versions
        PROVE  /\ t.versions[v].history = s.versions[v].history
               /\ t.versions[v].parent = s.versions[v].parent
               /\ t.versions[v].meant = s.versions[v].meant
               /\ t.versions[v].request = s.versions[v].request
    <3>1. [t.versions[v] EXCEPT !.root = None] = [s.versions[v] EXCEPT !.root = None]
      BY <1>2 DEF Grows
    <3>2. s.versions[v] \in VersionRecords /\ t.versions[v] \in VersionRecords
      BY <1>2, <1>3, <1>4 DEF Sound, CatalogueSound
    <3>3. QED
      BY <3>1, <3>2 DEF VersionRecords
  <2>2. QED
    BY <1>3, <1>4, <2>1 DEF SameRecords
<1>6. BindingsUnique(t) /\ Within(t.active, s.active) /\ Ledger(t) = Ledger(s)
  BY <1>4 DEF BindingsUnique, LedgerTrue, Within, Ledger, Sound, LedgersSound
<1>7. \A r \in DOMAIN t.active : t.active[r].version \notin t.expired
  BY <1>4 DEF LedgerTrue, ReceiptsTrue, ReceiptTrue
<1>8. QED
  BY <1>1, <1>2, <1>4, <1>5, <1>6, <1>7, QuietLedger DEF Grows

-----------------------------------------------------------------------------
(* Committing a version *)

\* The eviction order with a new request, and how many of it are popped.
Listed(s, req) == Append(s.order, req)
PoppedCount(s) == IF Len(s.order) < Capacity THEN 0 ELSE 1
Popped(s, req) == {Listed(s, req)[i] : i \in 1..PoppedCount(s)}

\* The record Publish makes.
NewRecord(s, op, req, root, len) ==
    [history |-> op.history, parent |-> op.parent, root |-> root, len |-> len,
     meant |-> Meaning(s, op), request |-> req]

\* push_fresh_receipt and enforce_receipt_horizon: one receipt in, and out with
\* the oldest one if the ledgers were full.
LEMMA PushReceiptExact ==
    ASSUME NEW s, DOMAIN s = DOMAIN NewStore, LedgersSound(s), OrderExact(s, Capacity),
           NEW req \in Requests, req \notin Ledger(s), NEW op \in Ops, NEW v \in VersionIds
    PROVE  LET t == PushReceipt(s, req, op, v)
           IN  /\ t.order = SubSeq(Listed(s, req), PoppedCount(s) + 1, Len(s.order) + 1)
               /\ t.active = Drop(Put(s.active, req, [digest |-> op, version |-> v]),
                                  Popped(s, req))
               /\ DOMAIN t.retired = DOMAIN s.retired \ Popped(s, req)
<1> DEFINE receipt == [digest |-> op, version |-> v]
           p == [s EXCEPT !.active = Put(@, req, receipt), !.order = Append(@, req)]
           out == Oldest(p, Evictions(p))
           t == [p EXCEPT !.order = SubSeq(@, Evictions(p) + 1, Len(@)),
                          !.active = Drop(@, out),
                          !.retired = Drop(@, out \ DOMAIN p.active)]
<1>1. req # None
  BY StoreAssumption
<1>2. PushReceipt(s, req, op, v) = EnforceHorizon(p)
  BY <1>1, Zenon DEF PushReceipt
<1>3. EnforceHorizon(p) = t
  BY Zenon DEF EnforceHorizon
<1>4. /\ DOMAIN p = DOMAIN NewStore
      /\ p.active = Put(s.active, req, receipt)
      /\ p.retired = s.retired
      /\ p.order = Listed(s, req)
  BY Fields DEF Listed
<1> HIDE DEF receipt, p
<1>5. /\ t.order = SubSeq(p.order, Evictions(p) + 1, Len(p.order))
      /\ t.active = Drop(p.active, out)
      /\ t.retired = Drop(p.retired, out \ DOMAIN p.active)
  BY <1>4, Fields
<1> HIDE DEF t
<1>6. s.order \in Seq(Requests) /\ Capacity \in Nat
  BY StoreAssumption DEF LedgersSound
<1>7. /\ p.order \in Seq(Requests) /\ Len(p.order) = Len(s.order) + 1
      /\ p.order[Len(s.order) + 1] = req
      /\ \A i \in 1..Len(s.order) : p.order[i] = s.order[i]
  BY <1>4, <1>6 DEF Listed
<1>8. Ledger(p) = Ledger(s) \cup {req} /\ LedgersDisjoint(p)
  BY <1>4 DEF Ledger, Put, LedgersSound, LedgersDisjoint
<1>9. OrderExact(p, Capacity + 1)
  <2> DEFINE m == Len(s.order)
  <2>1. m \in Nat /\ m <= Capacity
    BY <1>6 DEF OrderExact
  <2>2. \A i \in 1..m : p.order[i] = s.order[i] /\ s.order[i] \in Ledger(s)
    BY <1>7 DEF OrderExact
  <2>3. \A i, j \in 1..m : p.order[i] = p.order[j] => i = j
    BY <1>7 DEF OrderExact
  <2>4. \A r \in Ledger(s) : \E i \in 1..m : p.order[i] = r
    BY <1>7 DEF OrderExact
  <2> HIDE DEF m
  <2>5. \A i \in 1..m + 1 : i \in 1..m \/ i = m + 1
    BY <2>1
  <2>6. p.order[m + 1] = req /\ Len(p.order) = m + 1
    BY <1>7 DEF m
  <2>7. \A i, j \in 1..m + 1 : p.order[i] = p.order[j] => i = j
    BY <2>2, <2>3, <2>5, <2>6
  <2>8. \A r \in Ledger(p) : \E i \in 1..m + 1 : p.order[i] = r
    <3>1. m + 1 \in 1..m + 1 /\ 1..m \subseteq 1..m + 1
      BY <2>1
    <3>2. QED
      BY <1>8, <2>4, <2>6, <3>1
  <2>9. \A i \in 1..m + 1 : p.order[i] \in Ledger(p)
    BY <1>8, <2>2, <2>5, <2>6
  <2>10. QED
    BY <1>6, <2>1, <2>6, <2>7, <2>8, <2>9 DEF OrderExact
<1>10. Evictions(p) = PoppedCount(s)
  <2>1. Evictions(p) = IF Len(p.order) <= Capacity THEN 0 ELSE 1
    BY <1>7, <1>8, <1>9, EvictionsExact
  <2>2. Len(s.order) + 1 <= Capacity <=> Len(s.order) < Capacity
    BY <1>6
  <2>3. QED
    BY <1>7, <2>1, <2>2 DEF PoppedCount
<1>11. out = Popped(s, req)
  BY <1>4, <1>10 DEF Oldest, Popped
<1> HIDE DEF out
<1>12. DOMAIN t.retired = DOMAIN s.retired \ Popped(s, req)
  <2>1. DOMAIN p.active \cap DOMAIN s.retired = {}
    BY <1>4, <1>8 DEF LedgersDisjoint
  <2>2. QED
    BY <1>4, <1>5, <1>11, <2>1 DEF Drop
<1>13. QED
  BY <1>2, <1>3, <1>4, <1>5, <1>7, <1>10, <1>11, <1>12 DEF receipt

\* Every field of a store after a commit.
LEMMA PublishFields ==
    ASSUME NEW s, Sound(s), OrderExact(s, Capacity), s.nextVersion < MaxVersion,
           NEW op \in Ops, NEW req \in Requests \cup {None}, Unrecorded(s, req),
           NEW root, NEW len
    PROVE  LET t == Publish(s, op, req, root, len)
               v == s.nextVersion
           IN  /\ t.versions = Put(s.versions, v, NewRecord(s, op, req, root, len))
               /\ t.nextVersion = v + 1 /\ t.nextHistory = s.nextHistory
               /\ t.expired = s.expired /\ t.historyBindings = s.historyBindings
               /\ req = None => /\ t.active = s.active /\ t.retired = s.retired
                                /\ t.order = s.order
               /\ req # None =>
                    /\ t.order = SubSeq(Listed(s, req), PoppedCount(s) + 1, Len(s.order) + 1)
                    /\ t.active = Drop(Put(s.active, req, [digest |-> op, version |-> v]),
                                       Popped(s, req))
                    /\ DOMAIN t.retired = DOMAIN s.retired \ Popped(s, req)
<1> DEFINE v == s.nextVersion
           rec == NewRecord(s, op, req, root, len)
           p == [s EXCEPT !.nextVersion = @ + 1, !.versions = Put(@, v, rec)]
           q == PushReceipt(p, req, op, v)
           t == [q EXCEPT !.versionBindings = PutBinding(@, v, op.binding)]
<1>1. Publish(s, op, req, root, len) = t
  BY Zenon DEF Publish, NewRecord
<1> HIDE DEF rec
<1>2. /\ DOMAIN p = DOMAIN NewStore
      /\ p.versions = Put(s.versions, v, rec) /\ p.nextVersion = v + 1
      /\ p.nextHistory = s.nextHistory
      /\ p.active = s.active /\ p.retired = s.retired /\ p.order = s.order
      /\ p.expired = s.expired /\ p.historyBindings = s.historyBindings
  BY Fields DEF Sound
<1>3. v \in VersionIds
  BY StoreAssumption DEF VersionIds, Sound, CatalogueSound
<1> HIDE DEF p, v
<1>4. LedgersSound(p) /\ OrderExact(p, Capacity) /\ Unrecorded(p, req) /\ Ledger(p) = Ledger(s)
  BY <1>2 DEF Sound, LedgersSound, LedgersDisjoint, Ledger, OrderExact, Unrecorded
<1>5. SameCatalogue(p, q)
  BY <1>2, <1>3, <1>4, PushReceiptSound
<1>6. req = None => q = p
  BY DEF PushReceipt
<1>7. req # None =>
        /\ q.order = SubSeq(Listed(s, req), PoppedCount(s) + 1, Len(s.order) + 1)
        /\ q.active = Drop(Put(s.active, req, [digest |-> op, version |-> v]), Popped(s, req))
        /\ DOMAIN q.retired = DOMAIN s.retired \ Popped(s, req)
  <2> SUFFICES ASSUME req # None
               PROVE  /\ q.order = SubSeq(Listed(s, req), PoppedCount(s) + 1, Len(s.order) + 1)
                      /\ q.active = Drop(Put(s.active, req, [digest |-> op, version |-> v]),
                                         Popped(s, req))
                      /\ DOMAIN q.retired = DOMAIN s.retired \ Popped(s, req)
    OBVIOUS
  <2>1. req \in Requests /\ req \notin Ledger(p)
    BY <1>4 DEF Unrecorded
  <2>2. /\ Listed(p, req) = Listed(s, req) /\ PoppedCount(p) = PoppedCount(s)
        /\ Popped(p, req) = Popped(s, req)
    BY <1>2 DEF Listed, PoppedCount, Popped
  <2>3. /\ q.order = SubSeq(Listed(p, req), PoppedCount(p) + 1, Len(p.order) + 1)
        /\ q.active = Drop(Put(p.active, req, [digest |-> op, version |-> v]), Popped(p, req))
        /\ DOMAIN q.retired = DOMAIN p.retired \ Popped(p, req)
    BY <1>2, <1>3, <1>4, <2>1, PushReceiptExact
  <2>4. QED
    BY <1>2, <2>2, <2>3
<1> HIDE DEF q
<1>8. /\ t.versions = q.versions /\ t.nextVersion = q.nextVersion
      /\ t.nextHistory = q.nextHistory /\ t.expired = q.expired
      /\ t.historyBindings = q.historyBindings
      /\ t.active = q.active /\ t.retired = q.retired /\ t.order = q.order
  BY <1>5, Fields DEF SameCatalogue
<1> HIDE DEF t
<1>9. QED
  BY <1>1, <1>2, <1>5, <1>6, <1>7, <1>8 DEF SameCatalogue, v, rec

\* The order after a commit: the positions move by what was popped.
LEMMA OrderAfterPush ==
    ASSUME NEW s, s.order \in Seq(Requests), OrderExact(s, Capacity),
           NEW req \in Requests, req \notin Ledger(s),
           NEW t, t.order = SubSeq(Listed(s, req), PoppedCount(s) + 1, Len(s.order) + 1),
           DOMAIN t.active = (DOMAIN s.active \cup {req}) \ Popped(s, req),
           DOMAIN t.retired = DOMAIN s.retired \ Popped(s, req)
    PROVE  /\ Len(t.order) = Len(s.order) + 1 - PoppedCount(s)
           /\ \A i \in 1..Len(s.order) :
                 i > PoppedCount(s) => t.order[i - PoppedCount(s)] = s.order[i]
           /\ t.order[Len(t.order)] = req
           /\ OrderExact(t, Capacity)
<1> DEFINE m == Len(s.order)
           k == PoppedCount(s)
           all == Listed(s, req)
<1>1. m \in Nat /\ m <= Capacity /\ Capacity \in Nat \ {0}
  BY StoreAssumption DEF OrderExact
<1>2. k \in 0..1 /\ (k = 0 => m < Capacity) /\ (k = 1 => m >= 1)
  BY <1>1 DEF PoppedCount
<1>3. /\ all \in Seq(Requests) /\ Len(all) = m + 1 /\ all[m + 1] = req
      /\ \A i \in 1..m : all[i] = s.order[i]
  BY DEF Listed
<1>4. Popped(s, req) = {all[i] : i \in 1..k}
  BY DEF Popped
<1>5. \A i \in 1..m : s.order[i] \in Ledger(s)
  BY DEF OrderExact
<1>6. \A r \in Ledger(s) : \E i \in 1..m : s.order[i] = r
  BY DEF OrderExact
<1>7. \A i, j \in 1..m : s.order[i] = s.order[j] => i = j
  BY DEF OrderExact
<1> HIDE DEF m, k, all
<1>8. t.order = SubSeq(all, k + 1, m + 1)
  BY DEF all, k, m
<1>9. /\ t.order \in Seq(Requests) /\ Len(t.order) = m + 1 - k
      /\ \A i \in 1..m + 1 - k : t.order[i] = all[i + k]
  <2>1. k + 1 \in Int /\ m + 1 \in Int /\ k + 1 <= m + 1 /\ (m + 1) - (k + 1) + 1 = m + 1 - k
    BY <1>1, <1>2
  <2>2. \A i \in k + 1 .. m + 1 : all[i] \in Requests
    BY <1>1, <1>2, <1>3
  <2> DEFINE from == k + 1
             upto == m + 1
  <2>3. from \in Int /\ upto \in Int /\ \A i \in from..upto : all[i] \in Requests
    BY <2>1, <2>2
  <2>4. /\ from <= upto /\ upto - from + 1 = m + 1 - k
        /\ \A i \in 1..m + 1 - k : from + i - 1 = i + k
    BY <1>1, <1>2, <2>1
  <2> HIDE DEF from, upto
  <2>5. /\ SubSeq(all, from, upto) \in Seq(Requests)
        /\ Len(SubSeq(all, from, upto)) = IF from <= upto THEN upto - from + 1 ELSE 0
        /\ \A i \in 1..upto - from + 1 : SubSeq(all, from, upto)[i] = all[from + i - 1]
    BY <2>3, SubSeqProperties
  <2>6. t.order = SubSeq(all, from, upto)
    BY <1>8 DEF from, upto
  <2>7. QED
    BY <2>4, <2>5, <2>6
<1>10. \A i \in 1..m + 1 : i \in 1..m \/ i = m + 1
  BY <1>1
<1>11. \A i, j \in 1..m + 1 : all[i] = all[j] => i = j
  BY <1>3, <1>5, <1>7, <1>10
<1>12. Ledger(t) = (Ledger(s) \cup {req}) \ Popped(s, req)
  BY DEF Ledger
<1>13. \A i \in 1..m : i > k => t.order[i - k] = s.order[i]
  <2>1. ASSUME NEW i \in 1..m, i > k
        PROVE  t.order[i - k] = s.order[i]
    <3>1. i - k \in 1..m + 1 - k /\ (i - k) + k = i
      BY <1>1, <1>2, <2>1
    <3>2. QED
      BY <1>3, <1>9, <3>1
  <2>2. QED
    BY <2>1
<1>14. t.order[Len(t.order)] = req
  <2>1. m + 1 - k \in 1..m + 1 - k /\ (m + 1 - k) + k = m + 1
    BY <1>1, <1>2
  <2>2. QED
    BY <1>3, <1>9, <2>1
<1>15. OrderExact(t, Capacity)
  <2> DEFINE n == m + 1 - k
  <2>1. n \in Nat /\ n <= Capacity
    BY <1>1, <1>2
  <2>2. \A i \in 1..n : i + k \in 1..m + 1 /\ i + k > k /\ t.order[i] = all[i + k]
    BY <1>1, <1>2, <1>9
  <2>3. ASSUME NEW i \in 1..n, NEW j \in 1..n, t.order[i] = t.order[j]
        PROVE  i = j
    <3>1. i + k = j + k
      BY <1>11, <2>2, <2>3
    <3>2. QED
      BY <1>2, <3>1
  <2>4. ASSUME NEW r \in Ledger(t)
        PROVE  \E i \in 1..n : t.order[i] = r
    <3>1. PICK j \in 1..m + 1 : all[j] = r
      <4>1. CASE r = req
        BY <1>1, <1>3, <4>1
      <4>2. CASE r \in Ledger(s)
        BY <1>1, <1>3, <1>6, <4>2
      <4>3. QED
        BY <1>12, <2>4, <4>1, <4>2
    <3>2. j \notin 1..k
      BY <1>4, <1>12, <2>4, <3>1
    <3>3. j - k \in 1..n /\ (j - k) + k = j
      BY <1>1, <1>2, <3>2
    <3>4. t.order[j - k] = r
      BY <2>2, <3>1, <3>3
    <3>5. QED
      BY <3>3, <3>4
  <2>5. ASSUME NEW i \in 1..n
        PROVE  t.order[i] \in Ledger(t)
    <3>1. all[i + k] \in Ledger(s) \cup {req}
      BY <1>3, <1>5, <1>10, <2>2
    <3>2. \A j \in 1..k : j \in 1..m + 1 /\ j # i + k
      BY <1>1, <1>2
    <3>3. all[i + k] \notin Popped(s, req)
      BY <1>4, <1>11, <2>2, <3>2
    <3>4. QED
      BY <1>12, <2>2, <3>1, <3>3
  <2>6. Len(t.order) = n
    BY <1>9
  <2> HIDE DEF n
  <2>7. QED
    BY <2>1, <2>3, <2>4, <2>5, <2>6 DEF OrderExact
<1>16. QED
  BY <1>9, <1>13, <1>14, <1>15 DEF m, k

\* Requests up to a new version are one more if it has a request.
LEMMA RequestingNext ==
    ASSUME NEW t, NEW lo \in Nat, NEW n \in Nat, lo <= n
    PROVE  /\ Cardinality(Requesting(t, lo, n - 1)) \in Nat
           /\ t.versions[n].request = None => Requesting(t, lo, n) = Requesting(t, lo, n - 1)
           /\ t.versions[n].request # None =>
                 Cardinality(Requesting(t, lo, n)) = Cardinality(Requesting(t, lo, n - 1)) + 1
<1> DEFINE S == Requesting(t, lo, n - 1)
<1>1. IsFiniteSet(S) /\ Cardinality(S) \in Nat
  <2>1. IsFiniteSet(lo..n - 1) /\ S \subseteq lo..n - 1
    BY FS_Interval DEF Requesting
  <2> HIDE DEF S
  <2>2. QED
    BY <2>1, FS_Subset, FS_CardinalityType
<1>2. lo..n = (lo..n - 1) \cup {n} /\ n \notin lo..n - 1
  OBVIOUS
<1>3. t.versions[n].request = None => Requesting(t, lo, n) = S
  BY <1>2 DEF Requesting
<1>4. t.versions[n].request # None => Requesting(t, lo, n) = S \cup {n}
  BY <1>2 DEF Requesting
<1>5. n \notin S
  BY <1>2 DEF Requesting
<1> HIDE DEF S
<1>6. Cardinality(S \cup {n}) = Cardinality(S) + 1
  BY <1>1, <1>5, FS_AddElement
<1>7. QED
  BY <1>1, <1>3, <1>4, <1>6 DEF S

\* A commit in a known history, on a retained parent of that history, keeps
\* the ledgers true.
LEMMA PublishLedger ==
    ASSUME NEW s, Sound(s), LedgerTrue(s), s.nextVersion < MaxVersion,
           NEW op \in Ops, NEW req \in Requests \cup {None}, Unrecorded(s, req),
           op.history \in s.histories,
           op.parent # None => /\ op.parent \in DOMAIN s.versions
                               /\ s.versions[op.parent].history = op.history,
           NEW root, NEW len
    PROVE  LedgerTrue(Publish(s, op, req, root, len))
<1> DEFINE t == Publish(s, op, req, root, len)
           n == s.nextVersion
           k == PoppedCount(s)
           rec == NewRecord(s, op, req, root, len)
           receipt == [digest |-> op, version |-> n]
<1>1. OrderExact(s, Capacity) /\ s.order \in Seq(Requests)
  BY DEF LedgerTrue, Sound, LedgersSound
<1>2. /\ t.versions = Put(s.versions, n, rec)
      /\ t.nextVersion = n + 1 /\ t.nextHistory = s.nextHistory
      /\ t.expired = s.expired /\ t.historyBindings = s.historyBindings
      /\ req = None => /\ t.active = s.active /\ t.retired = s.retired
                       /\ t.order = s.order
      /\ req # None =>
           /\ t.order = SubSeq(Listed(s, req), k + 1, Len(s.order) + 1)
           /\ t.active = Drop(Put(s.active, req, receipt), Popped(s, req))
           /\ DOMAIN t.retired = DOMAIN s.retired \ Popped(s, req)
  BY <1>1, PublishFields
<1>3. /\ rec.history = op.history /\ rec.parent = op.parent
      /\ rec.meant = Meaning(s, op) /\ rec.request = req
      /\ receipt.digest = op /\ receipt.version = n
  BY DEF NewRecord
<1> HIDE DEF t, n, k, rec, receipt
<1>4. /\ n \in Nat /\ DOMAIN s.versions = 0..n - 1 /\ n \notin DOMAIN s.versions
      /\ s.expired \subseteq DOMAIN s.versions
  BY StoreAssumption DEF Sound, CatalogueSound, Dense, n
<1>5. /\ DOMAIN t.versions = DOMAIN s.versions \cup {n}
      /\ t.versions[n] = rec
      /\ \A v \in DOMAIN s.versions : t.versions[v] = s.versions[v]
  BY <1>2, <1>4 DEF Put
<1>6. req # None =>
        /\ req \in Requests /\ req \notin Ledger(s)
        /\ DOMAIN t.active = (DOMAIN s.active \cup {req}) \ Popped(s, req)
        /\ \A r \in DOMAIN t.active : t.active[r] = IF r = req THEN receipt ELSE s.active[r]
  BY <1>2 DEF Unrecorded, Drop, Put
<1>7. req # None =>
        /\ Len(t.order) = Len(s.order) + 1 - k
        /\ \A i \in 1..Len(s.order) : i > k => t.order[i - k] = s.order[i]
        /\ t.order[Len(t.order)] = req
        /\ OrderExact(t, Capacity)
  BY <1>1, <1>2, <1>6, OrderAfterPush DEF k
<1>8. OrderExact(t, Capacity)
  <2>1. CASE req = None
    BY <1>1, <1>2, <2>1 DEF OrderExact, Ledger
  <2>2. QED
    BY <1>7, <2>1
<1>9. LineageSound(t)
  <2> SUFFICES ASSUME NEW v \in DOMAIN t.versions
               PROVE  /\ t.versions[v].history < t.nextHistory
                      /\ t.versions[v].parent # None =>
                           /\ t.versions[v].parent < v
                           /\ t.versions[t.versions[v].parent].history = t.versions[v].history
    BY DEF LineageSound
  <2>1. CASE v = n
    <3>1. op.history < s.nextHistory
      BY DEF Sound, CatalogueSound, Dense
    <3>2. op.parent # None => op.parent < n
      BY <1>4
    <3>3. QED
      BY <1>2, <1>3, <1>5, <2>1, <3>1, <3>2
  <2>2. CASE v \in DOMAIN s.versions
    <3>1. LineageSound(s)
      BY DEF LedgerTrue
    <3>2. s.versions[v].parent # None => s.versions[v].parent \in DOMAIN s.versions
      BY <2>2, <3>1, ParentKnown
    <3>3. QED
      BY <1>2, <1>5, <2>2, <3>1, <3>2 DEF LineageSound
  <2>3. QED
    BY <1>5, <2>1, <2>2
<1>10. BindingsUnique(t)
  BY <1>2 DEF BindingsUnique, LedgerTrue
<1>11. ReceiptsTrue(t)
  <2>1. ASSUME NEW o, o.parent # None => o.parent \in DOMAIN s.versions
        PROVE  Meaning(t, o) = Meaning(s, o)
    BY <1>5, <2>1 DEF Meaning
  <2>2. ASSUME NEW r \in DOMAIN s.active
        PROVE  ReceiptTrue(t, r, s.active[r])
    <3> DEFINE v == s.active[r].version
               o == s.active[r].digest
    <3>1. ReceiptTrue(s, r, s.active[r]) /\ LineageSound(s)
      BY <2>2 DEF LedgerTrue, ReceiptsTrue
    <3>2. /\ v \in DOMAIN s.versions \ s.expired
          /\ s.versions[v].request = r /\ s.versions[v].history = o.history
          /\ s.versions[v].parent = o.parent /\ s.versions[v].meant = Meaning(s, o)
      BY <3>1 DEF ReceiptTrue
    <3>3. o.parent # None => o.parent \in DOMAIN s.versions
      BY <3>1, <3>2, ParentKnown
    <3>4. Meaning(t, o) = Meaning(s, o)
      BY <2>1, <3>3
    <3>5. QED
      BY <1>2, <1>5, <3>2, <3>4 DEF ReceiptTrue
  <2>3. ReceiptTrue(t, req, receipt)
    <3>1. n \in DOMAIN t.versions \ t.expired
      BY <1>2, <1>4, <1>5
    <3>2. Meaning(t, op) = Meaning(s, op)
      BY <2>1
    <3>3. QED
      BY <1>3, <1>5, <3>1, <3>2 DEF ReceiptTrue
  <2>4. CASE req = None
    BY <1>2, <2>2, <2>4 DEF ReceiptsTrue
  <2>5. CASE req # None
    BY <1>6, <2>2, <2>3, <2>5 DEF ReceiptsTrue
  <2>6. QED
    BY <2>4, <2>5
<1>12. ASSUME NEW v \in DOMAIN s.versions
       PROVE  /\ Cardinality(Requesting(s, v + 1, n - 1)) \in Nat
              /\ Requesting(t, v + 1, n - 1) = Requesting(s, v + 1, n - 1)
              /\ req = None => Requesting(t, v + 1, n) = Requesting(s, v + 1, n - 1)
              /\ req # None => Cardinality(Requesting(t, v + 1, n))
                                 = Cardinality(Requesting(s, v + 1, n - 1)) + 1
  <2> DEFINE lo == v + 1
  <2>1. lo \in Nat /\ lo <= n
    BY <1>4
  <2>2. \A u \in lo..n - 1 : t.versions[u].request = s.versions[u].request
    BY <1>4, <1>5
  <2>3. t.versions[n].request = req
    BY <1>3, <1>5
  <2> HIDE DEF lo
  <2>4. Requesting(t, lo, n - 1) = Requesting(s, lo, n - 1)
    BY <2>2, SameRequesting
  <2>5. /\ Cardinality(Requesting(t, lo, n - 1)) \in Nat
        /\ req = None => Requesting(t, lo, n) = Requesting(t, lo, n - 1)
        /\ req # None =>
              Cardinality(Requesting(t, lo, n)) = Cardinality(Requesting(t, lo, n - 1)) + 1
    BY <1>4, <2>1, <2>3, RequestingNext
  <2>6. QED
    BY <2>4, <2>5 DEF lo
<1>13. HorizonExact(t)
  <2> SUFFICES ASSUME NEW v \in DOMAIN t.versions, t.versions[v].request # None
               PROVE  LET since == Cardinality(Requesting(t, v + 1, t.nextVersion - 1))
                      IN  \/ since >= Capacity
                          \/ \E i \in 1..Len(t.order) :
                                t.order[i] = t.versions[v].request /\ since = Len(t.order) - i
    BY DEF HorizonExact
  <2> DEFINE m == Len(s.order)
             since == Cardinality(Requesting(t, v + 1, n))
  <2>1. t.nextVersion - 1 = n
    BY <1>2, <1>4
  <2>2. /\ m \in Nat /\ m <= Capacity /\ Capacity \in Nat \ {0}
        /\ k \in 0..1 /\ (k = 1 => m = Capacity)
    BY <1>1, StoreAssumption DEF OrderExact, PoppedCount, k
  <2>3. CASE v = n
    <3>1. req # None /\ t.versions[v].request = req
      BY <1>3, <1>5, <2>3
    <3>2. Requesting(t, v + 1, n) = {}
      BY <1>4, <2>3 DEF Requesting
    <3>3. since = 0
      BY <3>2, FS_EmptySet
    <3>4. Len(t.order) = m + 1 - k /\ t.order[Len(t.order)] = req
      BY <1>7, <3>1
    <3>5. Len(t.order) \in 1..Len(t.order) /\ 0 = Len(t.order) - Len(t.order)
      BY <2>2, <3>4
    <3>6. QED
      BY <2>1, <3>1, <3>3, <3>4, <3>5
  <2>4. CASE v \in DOMAIN s.versions
    <3> DEFINE before == Cardinality(Requesting(s, v + 1, n - 1))
    <3>1. t.versions[v].request = s.versions[v].request
      BY <1>5, <2>4
    <3>2. \/ before >= Capacity
          \/ \E i \in 1..m : s.order[i] = s.versions[v].request /\ before = m - i
      BY <2>4, <3>1 DEF LedgerTrue, HorizonExact, n
    <3>3. CASE req = None
      <4>1. since = before
        BY <1>12, <2>4, <3>3
      <4>2. QED
        BY <1>2, <2>1, <3>1, <3>2, <3>3, <4>1
    <3>4. CASE req # None
      <4>1. since = before + 1 /\ before \in Nat
        BY <1>12, <2>4, <3>4
      <4> HIDE DEF since, before
      <4>2. CASE before >= Capacity
        BY <2>1, <2>2, <4>1, <4>2 DEF since
      <4>3. ASSUME NEW i \in 1..m, s.order[i] = s.versions[v].request, before = m - i
            PROVE  \/ since >= Capacity
                   \/ \E j \in 1..Len(t.order) :
                         t.order[j] = t.versions[v].request /\ since = Len(t.order) - j
        <5>1. Len(t.order) = m + 1 - k
          BY <1>7, <3>4
        <5>2. CASE i > k
          <6>1. /\ i - k \in 1..Len(t.order)
                /\ since = Len(t.order) - (i - k)
            BY <2>2, <4>1, <4>3, <5>1, <5>2
          <6>2. t.order[i - k] = t.versions[v].request
            BY <1>7, <3>1, <3>4, <4>3, <5>2
          <6>3. QED
            BY <6>1, <6>2
        <5>3. CASE ~(i > k)
          BY <2>2, <4>1, <4>3, <5>3
        <5>4. QED
          BY <5>2, <5>3
      <4>4. QED
        BY <2>1, <3>2, <4>2, <4>3 DEF since
    <3>5. QED
      BY <3>3, <3>4
  <2>5. QED
    BY <1>5, <2>3, <2>4
<1>14. OnceInHorizon(t)
  <2> SUFFICES ASSUME NEW v \in DOMAIN t.versions, NEW w \in DOMAIN t.versions, v < w,
                      t.versions[v].request # None,
                      t.versions[v].request = t.versions[w].request
               PROVE  Cardinality(Requesting(t, v + 1, w - 1)) >= Capacity
    BY DEF OnceInHorizon
  <2>1. v \in DOMAIN s.versions /\ t.versions[v].request = s.versions[v].request
    <3>1. \A u \in DOMAIN t.versions : u \in 0..n
      BY <1>4, <1>5
    <3>2. v # n
      BY <1>4, <3>1
    <3>3. QED
      BY <1>5, <3>2
  <2>2. CASE w \in DOMAIN s.versions
    <3>1. \A u \in v + 1 .. w - 1 : t.versions[u].request = s.versions[u].request
      BY <1>4, <1>5, <2>1, <2>2
    <3>2. Requesting(t, v + 1, w - 1) = Requesting(s, v + 1, w - 1)
      BY <3>1, SameRequesting
    <3>3. QED
      BY <1>5, <2>1, <2>2, <3>2 DEF LedgerTrue, OnceInHorizon
  <2>3. CASE w = n
    <3>1. req = s.versions[v].request /\ req # None
      BY <1>3, <1>5, <2>1, <2>3
    <3>2. \A i \in 1..Len(s.order) : s.order[i] # req
      BY <1>1, <1>6, <3>1 DEF OrderExact
    <3>3. Cardinality(Requesting(s, v + 1, n - 1)) >= Capacity
      BY <2>1, <3>1, <3>2 DEF LedgerTrue, HorizonExact, n
    <3>4. QED
      BY <1>12, <2>1, <2>3, <3>3
  <2>4. QED
    BY <1>5, <2>2, <2>3
<1>15. QED
  BY <1>8, <1>9, <1>10, <1>11, <1>13, <1>14 DEF LedgerTrue, t

\* What the previews check of an operation's history and parent.
LEMMA ValidFacts ==
    ASSUME NEW s, NEW op \in Ops, NEW req, PreviewFresh(s, op, req)
    PROVE  /\ op.history \in s.histories /\ Unrecorded(s, req) /\ s.nextVersion < MaxVersion
           /\ op.parent # None => /\ op.parent \in DOMAIN s.versions
                                  /\ s.versions[op.parent].history = op.history
BY DEF PreviewFresh, Valid, ForkValid, SpliceValid, ParentInHistory, Retained, Known

\* apply_prepared_splice
LEMMA SpliceLedger ==
    ASSUME NEW s, Sound(s), LedgerTrue(s), NEW op \in SpliceOps,
           NEW req \in Requests \cup {None}, PreviewFresh(s, op, req)
    PROVE  LedgerTrue(ApplySplice(s, op, req))
<1> DEFINE s1 == [s EXCEPT !.arena = Append(@, Spelled(s, op))]
           root == Len(s.arena) + 1
           len == SpliceLen(s, op)
<1>1. /\ ApplySplice(s, op, req) = Publish(s1, op, req, root, len)
      /\ Sound(s1) /\ op \in Ops
      /\ s1.versions = s.versions /\ s1.nextVersion = s.nextVersion
      /\ s1.histories = s.histories /\ s1.nextHistory = s.nextHistory
      /\ s1.active = s.active /\ s1.retired = s.retired /\ s1.order = s.order
      /\ s1.expired = s.expired
      /\ s1.historyBindings = s.historyBindings
      /\ Unrecorded(s1, req) /\ s1.nextVersion < MaxVersion
  BY SpliceTree, Zenon
<1> HIDE DEF s1, root, len
<1>2. LedgerTrue(s1)
  <2>1. SameRecords(s, s1) /\ Within(s1.active, s.active) /\ Ledger(s1) = Ledger(s)
    BY <1>1 DEF SameRecords, Within, Ledger, Sound, LedgersSound
  <2>2. BindingsUnique(s1) /\ s.nextHistory <= s1.nextHistory
    BY <1>1 DEF BindingsUnique, LedgerTrue, Sound, CatalogueSound
  <2>3. \A r \in DOMAIN s1.active : s1.active[r].version \notin s1.expired
    BY <1>1 DEF LedgerTrue, ReceiptsTrue, ReceiptTrue
  <2>4. QED
    BY <1>1, <2>1, <2>2, <2>3, QuietLedger
<1>3. /\ op.history \in s1.histories
      /\ op.parent # None => /\ op.parent \in DOMAIN s1.versions
                             /\ s1.versions[op.parent].history = op.history
  BY <1>1, ValidFacts
<1>4. QED
  BY <1>1, <1>2, <1>3, PublishLedger

\* apply_prepared_fork
LEMMA ForkLedger ==
    ASSUME NEW s, Sound(s), LedgerTrue(s), NEW op \in ForkOps,
           NEW req \in Requests \cup {None}, PreviewFresh(s, op, req)
    PROVE  LedgerTrue(ApplyFork(s, op, req))
<1>1. op \in Ops
  BY DEF Ops
<1>2. /\ op.history \in s.histories /\ Unrecorded(s, req) /\ s.nextVersion < MaxVersion
      /\ op.parent # None => /\ op.parent \in DOMAIN s.versions
                             /\ s.versions[op.parent].history = op.history
  BY <1>1, ValidFacts
<1>3. QED
  BY <1>1, <1>2, PublishLedger DEF ApplyFork

-----------------------------------------------------------------------------
(* The state machine *)

\* PersistentHistoryStore::new
LEMMA NewStoreLedger == LedgerTrue(NewStore)
<1>1. /\ NewStore.order = <<>> /\ NewStore.active = EmptyMap /\ NewStore.retired = EmptyMap
      /\ NewStore.versions = EmptyMap /\ NewStore.historyBindings = EmptyMap
      /\ DOMAIN EmptyMap = {}
  BY DEF NewStore, EmptyMap
<1>2. OrderExact(NewStore, Capacity)
  BY <1>1, StoreAssumption DEF OrderExact, Ledger
<1>3. /\ LineageSound(NewStore) /\ BindingsUnique(NewStore) /\ ReceiptsTrue(NewStore)
      /\ HorizonExact(NewStore) /\ OnceInHorizon(NewStore)
  BY <1>1 DEF LineageSound, BindingsUnique, ReceiptsTrue, HorizonExact, OnceInHorizon
<1>4. QED
  BY <1>2, <1>3 DEF LedgerTrue

\* Every operation keeps the ledgers true.
LEMMA NextLedger ==
    ASSUME Sound(store), LedgerTrue(store), Next
    PROVE  LedgerTrue(store')
<1>1. CASE CreateHistory
  BY <1>1, CreateLedger DEF CreateHistory
<1>2. ASSUME NEW b \in Bindings, CreateHistoryWithBinding(b)
      PROVE  LedgerTrue(store')
  BY <1>2, CreateLedger DEF CreateHistoryWithBinding
<1>3. ASSUME NEW op \in SpliceOps, NEW r \in Requests \cup {None}, Splice(op, r)
      PROVE  LedgerTrue(store')
  BY <1>3, SpliceLedger DEF Splice
<1>4. ASSUME NEW h \in HistoryIds, NEW p \in VersionIds \cup {None}, NEW i \in Inserts,
             NEW r \in Requests \cup {None}, NEW b \in Bindings \cup {None},
             AppendBytes(h, p, i, r, b)
      PROVE  LedgerTrue(store')
  <2>1. AppendOp(store, h, p, i, b) \in SpliceOps
    BY <1>4, AppendOpType DEF AppendBytes
  <2>2. Splice(AppendOp(store, h, p, i, b), r)
    BY <1>4 DEF AppendBytes
  <2>3. QED
    BY <1>3, <2>1, <2>2
<1>5. ASSUME NEW op \in ForkOps, NEW r \in Requests \cup {None}, Fork(op, r)
      PROVE  LedgerTrue(store')
  BY <1>5, ForkLedger DEF Fork
<1>6. ASSUME NEW v \in VersionIds, Expire(v)
      PROVE  LedgerTrue(store')
  BY <1>6, ExpireLedger DEF Expire
<1>7. ASSUME NEW r \in Requests, RetireRequest(r)
      PROVE  LedgerTrue(store')
  BY <1>7, RetireLedger DEF RetireRequest
<1>8. CASE Gc
  BY <1>8, GcLedger DEF Gc
<1>9. QED
  BY <1>1, <1>2, <1>3, <1>4, <1>5, <1>6, <1>7, <1>8, Zenon DEF Next

\* The ledger invariant, with the store invariant it is relative to.
LEMMA LedgerAlways == Spec => [](Sound(store) /\ LedgerTrue(store))
<1>1. Init => Sound(store) /\ LedgerTrue(store)
  BY NewStoreSound, NewStoreLedger DEF Init
<1>2. Sound(store) /\ LedgerTrue(store) /\ [Next]_store => (Sound(store) /\ LedgerTrue(store))'
  <2> SUFFICES ASSUME Sound(store), LedgerTrue(store), [Next]_store
               PROVE  Sound(store') /\ LedgerTrue(store')
    OBVIOUS
  <2>1. CASE Next
    BY <2>1, NextSound, NextLedger
  <2>2. CASE store' = store
    BY <2>2
  <2>3. QED
    BY <2>1, <2>2
<1>3. QED
  BY <1>1, <1>2, PTL DEF Spec

\* A store whose ledgers are true passes the snapshot gate.
LEMMA TruePassesGate ==
    ASSUME NEW s, Sound(s), LedgerTrue(s)
    PROVE  SnapshotReady(s)
<1>1. Dense(s) /\ BindingsUnique(s)
  BY DEF Sound, CatalogueSound, LedgerTrue
<1>2. CatalogueConsistent(s)
  <2> SUFFICES ASSUME NEW v \in DOMAIN s.versions
               PROVE  LET rec == s.versions[v]
                      IN  /\ rec.history < s.nextHistory
                          /\ rec.len # 0
                          /\ IF rec.root = None THEN v \in s.expired
                             ELSE rec.len = Len(Content(s, v))
                          /\ rec.parent # None =>
                               /\ rec.parent < v
                               /\ s.versions[rec.parent].history = rec.history
    BY DEF CatalogueConsistent
  <2>1. s.versions[v].len # 0
    BY DEF Sound, CatalogueSound, VersionRecords
  <2>2. QED
    BY <2>1 DEF LedgerTrue, LineageSound, Sound, CatalogueSound, TreesTrue
<1>3. ReceiptsConsistent(s)
  <2> DEFINE ordered == {s.order[i] : i \in 1..Len(s.order)}
  <2>1. OrderExact(s, Capacity) /\ LedgersDisjoint(s) /\ s.order \in Seq(Requests)
    BY DEF LedgerTrue, Sound, LedgersSound
  <2>2. ordered = Ledger(s)
    BY <2>1 DEF OrderExact
  <2>3. /\ Cardinality(DOMAIN s.active) + Cardinality(DOMAIN s.retired) = Len(s.order)
        /\ Cardinality(Ledger(s)) = Len(s.order)
    BY <2>1, LedgerCount
  <2>4. \A r \in DOMAIN s.active : /\ Retained(s, s.active[r].version)
                                   /\ s.versions[s.active[r].version].request = r
    BY DEF LedgerTrue, ReceiptsTrue, ReceiptTrue, Retained, Known
  <2>5. \A r, q \in DOMAIN s.active : s.active[r].version = s.active[q].version => r = q
    BY <2>4
  <2>6. Len(s.order) <= Capacity /\ DOMAIN s.active \cap DOMAIN s.retired = {}
    BY <2>1 DEF OrderExact, LedgersDisjoint
  <2>7. QED
    BY <2>2, <2>3, <2>4, <2>5, <2>6, Zenon DEF ReceiptsConsistent
<1>4. QED
  BY <1>1, <1>2, <1>3 DEF SnapshotReady, Dense

\* No sequence of operations leads to a store that its own snapshot gate
\* refuses, so sealing and collecting never get stuck on an earlier call
\* (validate_snapshot_receipt_consistency, encode_history_snapshot).
THEOREM SnapshotAccepted == Spec => []SnapshotNeverRefused
<1>1. Sound(store) /\ LedgerTrue(store) => SnapshotNeverRefused
  BY TruePassesGate DEF SnapshotNeverRefused
<1>2. QED
  BY <1>1, LedgerAlways, PTL

\* An active receipt always names the version its own operation made, however
\* many receipts were pushed, evicted and retired since (preview_splice,
\* preview_fork answer retries from it).
THEOREM ReceiptsTruthful == Spec => []ReceiptsTellTheTruth
<1>1. LedgerTrue(store) => ReceiptsTellTheTruth
  BY DEF LedgerTrue, ReceiptsTrue, ReceiptTrue, ReceiptsTellTheTruth
<1>2. QED
  BY <1>1, LedgerAlways, PTL

\* A request commits a second version only after Capacity other requests have
\* committed theirs, whatever was expired, retired and collected between
\* (push_fresh_receipt, enforce_receipt_horizon).
THEOREM ExactlyOnce == Spec => []ExactlyOnceInHorizon
<1>1. LedgerTrue(store) => ExactlyOnceInHorizon
  BY DEF LedgerTrue, OnceInHorizon, Requesting, ExactlyOnceInHorizon
<1>2. QED
  BY <1>1, LedgerAlways, PTL
=============================================================================
