----------------------- MODULE HistoryAuthorityProofs -----------------------
(***************************************************************************)
(* Proofs about HistoryAuthority, for any number of failing calls, kills   *)
(* and generations: the writer never serves what a reopen would not give   *)
(* back, its content files keep the committed bytes, a killed writer can   *)
(* always be followed by another, the directory implements HistoryStore,   *)
(* what was acknowledged survives a power loss, and the generation that    *)
(* one falls back to is complete.                                          *)
(*                                                                         *)
(* The invariant says, for every step of the writer, how its memory, its   *)
(* job and its files stand to the store a recovery would give.  After a    *)
(* power loss it still holds, but for the part named BeforeOutage.         *)
(*                                                                         *)
(* First come facts about recovery, for any directory: what a replay of    *)
(* frames gives, and which changes to the files leave the recovered store  *)
(* as it was.  The shape Whole is what recovery itself rests on.  It is    *)
(* kept by every frame that recovery accepts, also in a directory a power  *)
(* loss left, so it holds where the promises of HistoryStore about content *)
(* need not.                                                               *)
(***************************************************************************)
EXTENDS HistoryAuthority, HistoryOpsProofs

-----------------------------------------------------------------------------
(* Recovery *)

\* None, the answer of a recovery that fails, is not a store: it is not even a
\* function.  (TLC takes None for a model value, which differs from both.)
NoneIsNoFunction == None # [x \in DOMAIN None |-> None[x]]

\* A sequence, of whatever it holds.
IsSeq(q) == q \in Seq({q[i] : i \in DOMAIN q})

\* The fields of a store.
IsStore(s) == s = [x \in DOMAIN NewStore |-> s[x]]

\* What recovery relies on in a store and keeps: the fields, dense version
\* identities, a root for every retained version, and two disjoint ledgers.
Whole(s) ==
    /\ IsStore(s)
    /\ IsSeq(s.arena)
    /\ s.nextVersion \in Nat
    /\ DOMAIN s.versions = 0..s.nextVersion - 1
    /\ \A v \in DOMAIN s.versions : v \notin s.expired => s.versions[v].root # None
    /\ LedgersDisjoint(s)

\* t has what s has, with the same versions.
OnlyAdds(s, t) ==
    /\ s.histories \subseteq t.histories
    /\ s.expired \subseteq t.expired
    /\ \A v \in DOMAIN s.versions : v \in DOMAIN t.versions /\ t.versions[v] = s.versions[v]

IsFrame(f) ==
    /\ f.type \in {"create", "commit", "expire", "retire"}
    /\ f.type = "commit" => f.op.kind \in {"splice", "fork"}

IsContent(c) == IsSeq(c.payload.data) /\ IsSeq(c.nodes.data)

\* From index lo + 1 to hi, the files c2 hold what the files c hold.
Agree(c, c2, lo, hi) ==
    lo < hi => /\ FilesReady(c2)
               /\ FilesCover(c2, hi)
               /\ \A i \in lo+1..hi : /\ c2.payload.data[i] = c.payload.data[i]
                                      /\ c2.nodes.data[i] = c.nodes.data[i]

\* t goes on from s, and what its arena has more is what the node file spells.
Continues(s, t, c) ==
    /\ Len(s.arena) <= Len(t.arena)
    /\ \A i \in 1..Len(s.arena) : t.arena[i] = s.arena[i]
    /\ Len(s.arena) < Len(t.arena) =>
          /\ FilesReady(c)
          /\ FilesCover(c, Len(t.arena))
          /\ \A i \in Len(s.arena)+1..Len(t.arena) : t.arena[i] = c.nodes.data[i]

-----------------------------------------------------------------------------
(* Naturals and sequences *)

\* Induction over the naturals, on a set.
LEMMA SetInduction ==
    ASSUME NEW T, 0 \in T, \A n \in Nat : n \in T => n + 1 \in T
    PROVE  \A n \in Nat : n \in T
<1> DEFINE B == Nat \ T
<1>1. SUFFICES ASSUME B # {} PROVE FALSE
  OBVIOUS
<1>2. PICK k \in B : \A j \in B : k <= j
  <2>1. B \subseteq Nat
    OBVIOUS
  <2> HIDE DEF B
  <2>2. QED
    BY <1>1, <2>1, LeastNatural
<1>3. k \in Nat /\ k # 0
  BY <1>2
<1>4. k - 1 \in Nat /\ k - 1 \notin B
  BY <1>2, <1>3
<1>5. QED
  BY <1>2, <1>3, <1>4

\* Whatever set its elements are taken from, a sequence is one.
LEMMA SeqIsSeq ==
    ASSUME NEW T, NEW q \in Seq(T)
    PROVE  IsSeq(q)
<1>1. q \in [1..Len(q) -> {q[i] : i \in DOMAIN q}] /\ Len(q) \in Nat
  BY LenProperties
<1>2. QED
  BY <1>1, IsASeq DEF IsSeq

LEMMA IsSeqFacts ==
    ASSUME NEW q, IsSeq(q)
    PROVE  /\ Len(q) \in Nat
           /\ DOMAIN q = 1..Len(q)
           /\ q = [i \in 1..Len(q) |-> q[i]]
BY LenProperties DEF IsSeq

LEMMA IsSeqAppend ==
    ASSUME NEW q, IsSeq(q), NEW e
    PROVE  /\ IsSeq(Append(q, e))
           /\ Len(Append(q, e)) = Len(q) + 1
           /\ \A i \in 1..Len(q) : Append(q, e)[i] = q[i]
           /\ Append(q, e)[Len(q) + 1] = e
<1> DEFINE T == {q[i] : i \in DOMAIN q} \cup {e}
<1>1. q \in Seq(T)
  <2>1. q \in [1..Len(q) -> T] /\ Len(q) \in Nat
    BY IsSeqFacts
  <2>2. QED
    BY <2>1, IsASeq
<1> HIDE DEF T
<1>2. e \in T
  BY DEF T
<1>3. Append(q, e) \in Seq(T)
  BY <1>1, <1>2, AppendProperties
<1>4. /\ Len(Append(q, e)) = Len(q) + 1
      /\ \A i \in 1..Len(q) : Append(q, e)[i] = q[i]
      /\ Append(q, e)[Len(q) + 1] = e
  BY <1>1, <1>2, AppendProperties
<1>5. QED
  BY <1>3, <1>4, SeqIsSeq

LEMMA IsSeqPrefix ==
    ASSUME NEW q, IsSeq(q), NEW n \in 0..Len(q)
    PROVE  /\ IsSeq(SubSeq(q, 1, n))
           /\ Len(SubSeq(q, 1, n)) = n
           /\ \A i \in 1..n : SubSeq(q, 1, n)[i] = q[i]
<1> DEFINE T == {q[i] : i \in DOMAIN q}
<1>1. q \in Seq(T)
  BY DEF IsSeq
<1>2. Len(q) \in Nat
  BY IsSeqFacts
<1> HIDE DEF T
<1>3. SubSeq(q, 1, n) \in Seq(T) /\ Len(SubSeq(q, 1, n)) = n
         /\ \A i \in 1..n : SubSeq(q, 1, n)[i] = q[i]
  BY <1>1, <1>2, SubSeqProperties
<1>4. QED
  BY <1>3, SeqIsSeq

\* Two sequences with the same elements are the same.
LEMMA IsSeqEqual ==
    ASSUME NEW p, NEW q, IsSeq(p), IsSeq(q), Len(p) = Len(q),
           \A i \in 1..Len(p) : p[i] = q[i]
    PROVE  p = q
<1>1. p = [i \in 1..Len(p) |-> p[i]] /\ q = [i \in 1..Len(q) |-> q[i]]
  BY IsSeqFacts
<1>2. [i \in 1..Len(p) |-> p[i]] = [i \in 1..Len(q) |-> q[i]]
  OBVIOUS
<1>3. QED
  BY <1>1, <1>2

-----------------------------------------------------------------------------
(* The recursive replay *)

\* ReplayStates is the function its definition says: each state is the one
\* before it with one more frame replayed.
LEMMA ReplayUnfolds ==
    ASSUME NEW base, NEW frames, Len(frames) \in Nat, NEW p, NEW c
    PROVE  /\ ReplayStates(base, frames, p, c)[0] = base
           /\ \A n \in 1..Len(frames) :
                 ReplayStates(base, frames, p, c)[n] =
                     ReplayRecord(ReplayStates(base, frames, p, c)[n - 1], frames[n], p, c)
<1> DEFINE Body(g, N) == [n \in 0..N |->
                IF n = 0 THEN base ELSE ReplayRecord(g[n - 1], frames[n], p, c)]
           T == {N \in Nat : \E g : g = Body(g, N)}
<1>1. 0 \in T
  <2> DEFINE g == [n \in 0..0 |-> base]
  <2>1. g = Body(g, 0)
    OBVIOUS
  <2>2. QED
    BY <2>1
<1>2. ASSUME NEW N \in Nat, N \in T PROVE N + 1 \in T
  <2>1. PICK g : g = Body(g, N)
    BY <1>2
  <2> DEFINE h == [n \in 0..N + 1 |->
                     IF n = 0 THEN base ELSE ReplayRecord(g[n - 1], frames[n], p, c)]
  <2>2. \A n \in 0..N : h[n] = g[n]
    <3>1. \A n \in 0..N : Body(g, N)[n] = h[n]
      OBVIOUS
    <3>2. QED
      BY <2>1, <3>1, Zenon
  <2>3. \A n \in 0..N + 1 : n # 0 => h[n - 1] = g[n - 1]
    <3> HIDE DEF h
    <3>1. \A n \in 0..N + 1 : n # 0 => n - 1 \in 0..N
      OBVIOUS
    <3>2. QED
      BY <2>2, <3>1, Zenon
  <2>4. h = Body(h, N + 1)
    <3> HIDE DEF h
    <3>1. \A n \in 0..N + 1 :
            (IF n = 0 THEN base ELSE ReplayRecord(h[n - 1], frames[n], p, c))
              = (IF n = 0 THEN base ELSE ReplayRecord(g[n - 1], frames[n], p, c))
      BY <2>3, Zenon
    <3>2. Body(h, N + 1) = [n \in 0..N + 1 |->
            IF n = 0 THEN base ELSE ReplayRecord(g[n - 1], frames[n], p, c)]
      BY <3>1
    <3>3. QED
      BY <3>2, Zenon DEF h
  <2>5. \E f : f = Body(f, N + 1)
    <3> HIDE DEF h, Body
    <3>1. QED
      BY <2>4, Zenon
  <2>6. QED
    <3> HIDE DEF Body
    <3>1. QED
      BY <2>5
<1>3. Len(frames) \in T
  <2> HIDE DEF T
  <2>1. QED
    BY <1>1, <1>2, SetInduction
<1>4. PICK g : g = Body(g, Len(frames))
  BY <1>3
<1> DEFINE r == ReplayStates(base, frames, p, c)
<1>5. r = CHOOSE f : f = Body(f, Len(frames))
  BY Zenon DEF ReplayStates
<1>6. r = Body(r, Len(frames))
  <2> HIDE DEF Body, r
  <2>1. QED
    BY <1>4, <1>5, Zenon
<1> HIDE DEF r
<1>7. \A n \in 0..Len(frames) :
         r[n] = IF n = 0 THEN base ELSE ReplayRecord(r[n - 1], frames[n], p, c)
  <2>1. \A n \in 0..Len(frames) : Body(r, Len(frames))[n] =
            IF n = 0 THEN base ELSE ReplayRecord(r[n - 1], frames[n], p, c)
    OBVIOUS
  <2>2. QED
    BY <1>6, <2>1, Zenon
<1>8. QED
  BY <1>7 DEF r
-----------------------------------------------------------------------------
(* One frame *)

\* The two stores agree outside the ledgers, and t remembers no request more
\* than req.
SameButLedgers(s, t, req) ==
    /\ IsStore(t)
    /\ t.versions = s.versions /\ t.nextVersion = s.nextVersion
    /\ t.expired = s.expired /\ t.arena = s.arena
    /\ t.histories = s.histories /\ t.nextHistory = s.nextHistory
    /\ t.historyBindings = s.historyBindings
    /\ t.versionBindings = s.versionBindings
    /\ DOMAIN t.active \subseteq DOMAIN s.active \cup ({req} \ {None})
    /\ DOMAIN t.retired \subseteq DOMAIN s.retired

LEMMA EnforceHorizonLedgers ==
    ASSUME NEW s, IsStore(s), NEW req
    PROVE  SameButLedgers(s, EnforceHorizon(s), req)
<1> DEFINE popped == Oldest(s, Evictions(s))
           kept == SubSeq(s.order, Evictions(s) + 1, Len(s.order))
           t == [s EXCEPT !.order = kept,
                          !.active = Drop(@, popped),
                          !.retired = Drop(@, popped \ DOMAIN s.active)]
<1>1. EnforceHorizon(s) = t
  BY Zenon DEF EnforceHorizon
<1> HIDE DEF popped, kept
<1>2. /\ t.active = Drop(s.active, popped)
      /\ t.retired = Drop(s.retired, popped \ DOMAIN s.active)
  BY Fields DEF IsStore
<1>3. DOMAIN t.active \subseteq DOMAIN s.active /\ DOMAIN t.retired \subseteq DOMAIN s.retired
  BY <1>2 DEF Drop
<1>4. SameButLedgers(s, t, req)
  BY <1>3, Fields DEF SameButLedgers, IsStore
<1>5. QED
  BY <1>1, <1>4

LEMMA PushReceiptLedgers ==
    ASSUME NEW s, IsStore(s), NEW req, NEW op, NEW v
    PROVE  SameButLedgers(s, PushReceipt(s, req, op, v), req)
<1>1. CASE req = None
  <2>1. PushReceipt(s, req, op, v) = s
    BY <1>1 DEF PushReceipt
  <2>2. QED
    BY <2>1 DEF SameButLedgers
<1>2. CASE req # None
  <2> DEFINE receipt == [digest |-> op, version |-> v]
             t == [s EXCEPT !.active = Put(@, req, receipt), !.order = Append(@, req)]
  <2>1. PushReceipt(s, req, op, v) = EnforceHorizon(t)
    BY <1>2, Zenon DEF PushReceipt
  <2> HIDE DEF receipt
  <2>2. IsStore(t)
    BY Fields DEF IsStore
  <2>3. t.active = Put(s.active, req, receipt) /\ t.retired = s.retired
    BY Fields DEF IsStore
  <2>4. DOMAIN t.active \subseteq DOMAIN s.active \cup ({req} \ {None})
    BY <1>2, <2>3 DEF Put
  <2>5. SameButLedgers(s, t, req)
    BY <2>2, <2>3, <2>4, Fields DEF SameButLedgers, IsStore
  <2> HIDE DEF t
  <2>6. SameButLedgers(t, EnforceHorizon(t), req)
    BY <2>2, EnforceHorizonLedgers
  <2>7. QED
    BY <2>1, <2>5, <2>6 DEF SameButLedgers
<1>3. QED
  BY <1>1, <1>2

\* A version is published: the store stays whole, and nothing older changes.
LEMMA PublishWhole ==
    ASSUME NEW s, Whole(s), NEW op, NEW req, Unrecorded(s, req), NEW root, root # None, NEW len
    PROVE  LET t == Publish(s, op, req, root, len)
           IN  /\ Whole(t) /\ OnlyAdds(s, t) /\ t.arena = s.arena
               /\ t.historyBindings = s.historyBindings
<1> DEFINE v == s.nextVersion
           rec == [history |-> op.history, parent |-> op.parent, root |-> root,
                   len |-> len, meant |-> Meaning(s, op), request |-> req]
           published == [s EXCEPT !.nextVersion = @ + 1, !.versions = Put(@, v, rec)]
           receipted == PushReceipt(published, req, op, v)
           t == [receipted EXCEPT !.versionBindings = PutBinding(@, v, op.binding)]
<1>1. Publish(s, op, req, root, len) = t
  BY Zenon DEF Publish
<1>2. rec.root = root
  OBVIOUS
<1> HIDE DEF rec
<1>3. /\ IsStore(published)
      /\ published.versions = Put(s.versions, v, rec)
      /\ published.nextVersion = s.nextVersion + 1
      /\ published.expired = s.expired /\ published.arena = s.arena
      /\ published.histories = s.histories
      /\ published.historyBindings = s.historyBindings
      /\ published.active = s.active /\ published.retired = s.retired
  BY Fields DEF Whole, IsStore
<1> HIDE DEF published
<1>4. SameButLedgers(published, receipted, req)
  BY <1>3, PushReceiptLedgers
<1> HIDE DEF receipted
<1>5. /\ IsStore(t)
      /\ t.versions = receipted.versions /\ t.nextVersion = receipted.nextVersion
      /\ t.expired = receipted.expired /\ t.arena = receipted.arena
      /\ t.histories = receipted.histories
      /\ t.historyBindings = receipted.historyBindings
      /\ t.active = receipted.active /\ t.retired = receipted.retired
  BY <1>4, Fields DEF SameButLedgers, IsStore
<1> HIDE DEF t
<1>6. /\ t.versions = Put(s.versions, v, rec) /\ t.nextVersion = s.nextVersion + 1
      /\ t.expired = s.expired /\ t.arena = s.arena
      /\ t.histories = s.histories /\ t.historyBindings = s.historyBindings
      /\ DOMAIN t.active \subseteq DOMAIN s.active \cup ({req} \ {None})
      /\ DOMAIN t.retired \subseteq DOMAIN s.retired
  BY <1>3, <1>4, <1>5 DEF SameButLedgers
<1>7. LedgersDisjoint(t)
  BY <1>6 DEF LedgersDisjoint, Whole, Unrecorded, Ledger
<1>8. /\ DOMAIN t.versions = 0..t.nextVersion - 1
      /\ t.nextVersion \in Nat
      /\ \A w \in DOMAIN s.versions : w \in DOMAIN t.versions /\ t.versions[w] = s.versions[w]
      /\ t.versions[v] = rec
  BY <1>6 DEF Put, Whole
<1>9. \A w \in DOMAIN t.versions : w \notin t.expired => t.versions[w].root # None
  <2>1. \A w \in DOMAIN t.versions : w \in DOMAIN s.versions \/ w = v
    BY <1>6 DEF Put
  <2>2. QED
    BY <1>2, <1>6, <1>8, <2>1 DEF Whole
<1>10. Whole(t)
  BY <1>5, <1>6, <1>7, <1>8, <1>9 DEF Whole
<1>11. OnlyAdds(s, t)
  BY <1>6, <1>8 DEF OnlyAdds
<1>12. QED
  BY <1>1, <1>6, <1>10, <1>11

\* Moving receipts to the retired ledger keeps a store whole.
LEMMA MoveToRetiredWhole ==
    ASSUME NEW s, Whole(s), NEW K
    PROVE  LET t == MoveToRetired(s, K)
           IN  /\ Whole(t)
               /\ t.arena = s.arena /\ t.expired = s.expired /\ t.versions = s.versions
               /\ t.histories = s.histories /\ t.historyBindings = s.historyBindings
<1> DEFINE moved == [r \in DOMAIN s.retired \cup K |->
                        IF r \in K THEN s.active[r].digest ELSE s.retired[r]]
           t == [s EXCEPT !.active = Drop(@, K), !.retired = moved]
<1>1. MoveToRetired(s, K) = t
  BY Fields DEF MoveToRetired, Whole, IsStore
<1>2. DOMAIN moved = DOMAIN s.retired \cup K
  OBVIOUS
<1> HIDE DEF moved
<1>3. /\ IsStore(t) /\ t.active = Drop(s.active, K) /\ t.retired = moved
      /\ t.arena = s.arena /\ t.expired = s.expired /\ t.versions = s.versions
      /\ t.nextVersion = s.nextVersion
      /\ t.histories = s.histories /\ t.historyBindings = s.historyBindings
  BY Fields DEF Whole, IsStore
<1> HIDE DEF t
<1>4. LedgersDisjoint(t)
  BY <1>2, <1>3 DEF LedgersDisjoint, Whole, Drop
<1>5. Whole(t)
  BY <1>3, <1>4 DEF Whole
<1>6. QED
  BY <1>1, <1>3, <1>5

LEMMA CreateWhole ==
    ASSUME NEW s, Whole(s), NEW b
    PROVE  LET t == Create(s, b)
           IN  /\ Whole(t) /\ OnlyAdds(s, t) /\ t.arena = s.arena
               /\ t.historyBindings = PutBinding(s.historyBindings, s.nextHistory, b)
<1> DEFINE bound == PutBinding(s.historyBindings, s.nextHistory, b)
           t == [s EXCEPT !.histories = @ \cup {s.nextHistory}, !.nextHistory = @ + 1,
                          !.historyBindings = bound]
<1>1. Create(s, b) = t
  BY Fields DEF Create, Whole, IsStore
<1> HIDE DEF bound
<1>2. /\ IsStore(t) /\ t.histories = s.histories \cup {s.nextHistory}
      /\ t.arena = s.arena /\ t.expired = s.expired /\ t.versions = s.versions
      /\ t.nextVersion = s.nextVersion /\ t.active = s.active /\ t.retired = s.retired
      /\ t.historyBindings = bound
  BY Fields DEF Whole, IsStore
<1> HIDE DEF t
<1>3. Whole(t) /\ OnlyAdds(s, t)
  BY <1>2 DEF Whole, OnlyAdds, LedgersDisjoint
<1>4. QED
  BY <1>1, <1>2, <1>3 DEF bound

\* A binding that is fresh keeps bindings unique.
LEMMA CreateUnique ==
    ASSUME NEW s, Whole(s), BindingsUnique(s), NEW b, CreateFresh(s, b)
    PROVE  BindingsUnique(Create(s, b))
<1>1. Create(s, b).historyBindings = PutBinding(s.historyBindings, s.nextHistory, b)
  BY CreateWhole
<1>2. QED
  BY <1>1 DEF BindingsUnique, CreateFresh, PutBinding, Put

LEMMA ForkWhole ==
    ASSUME NEW s, Whole(s), NEW op, s.versions[op.parent].root # None,
           NEW req, Unrecorded(s, req)
    PROVE  LET t == ApplyFork(s, op, req)
           IN  /\ Whole(t) /\ OnlyAdds(s, t) /\ t.arena = s.arena
               /\ t.historyBindings = s.historyBindings
<1> DEFINE root == s.versions[op.parent].root
           len == s.versions[op.parent].len
<1>1. ApplyFork(s, op, req) = Publish(s, op, req, root, len)
  BY Zenon DEF ApplyFork
<1>2. root # None
  OBVIOUS
<1> HIDE DEF root, len
<1>3. QED
  BY <1>1, <1>2, PublishWhole

LEMMA AdoptTreeWhole ==
    ASSUME NEW s, Whole(s), NEW op, NEW req, Unrecorded(s, req), NEW bytes
    PROVE  LET t == AdoptTree(s, op, req, bytes)
           IN  /\ Whole(t) /\ OnlyAdds(s, t) /\ t.arena = Append(s.arena, bytes)
               /\ t.historyBindings = s.historyBindings
<1> DEFINE grown == [s EXCEPT !.arena = Append(@, bytes)]
           root == Len(s.arena) + 1
           len == SpliceLen(s, op)
<1>1. AdoptTree(s, op, req, bytes) = Publish(grown, op, req, root, len)
  BY Zenon DEF AdoptTree
<1>2. root # None
  BY IsSeqFacts, StoreAssumption DEF Whole
<1>3. /\ IsStore(grown) /\ grown.arena = Append(s.arena, bytes)
      /\ grown.histories = s.histories /\ grown.expired = s.expired
      /\ grown.versions = s.versions /\ grown.nextVersion = s.nextVersion
      /\ grown.active = s.active /\ grown.retired = s.retired
      /\ grown.historyBindings = s.historyBindings
  BY Fields DEF Whole, IsStore
<1>4. IsSeq(Append(s.arena, bytes))
  BY IsSeqAppend DEF Whole
<1> HIDE DEF grown, root, len
<1>5. Whole(grown) /\ Unrecorded(grown, req)
  BY <1>3, <1>4 DEF Whole, LedgersDisjoint, Unrecorded, Ledger
<1> DEFINE t == Publish(grown, op, req, root, len)
<1>6. /\ Whole(t) /\ OnlyAdds(grown, t) /\ t.arena = grown.arena
      /\ t.historyBindings = grown.historyBindings
  BY <1>2, <1>5, PublishWhole
<1> HIDE DEF t
<1>7. OnlyAdds(s, t)
  BY <1>3, <1>6 DEF OnlyAdds
<1>8. QED
  BY <1>1, <1>3, <1>6, <1>7 DEF t

LEMMA RetireWhole ==
    ASSUME NEW s, Whole(s), NEW req
    PROVE  LET t == ApplyRetire(s, req)
           IN  /\ Whole(t) /\ OnlyAdds(s, t) /\ t.arena = s.arena
               /\ t.historyBindings = s.historyBindings
BY MoveToRetiredWhole DEF ApplyRetire, OnlyAdds

LEMMA ExpireWhole ==
    ASSUME NEW s, Whole(s), NEW v
    PROVE  LET t == ApplyExpire(s, v)
           IN  /\ Whole(t) /\ OnlyAdds(s, t) /\ t.arena = s.arena
               /\ t.historyBindings = s.historyBindings
<1> DEFINE expired == [s EXCEPT !.expired = @ \cup {v}]
           K == ReceiptOf(s, v)
<1>1. ApplyExpire(s, v) = MoveToRetired(expired, K)
  BY Zenon DEF ApplyExpire
<1>2. /\ IsStore(expired) /\ expired.expired = s.expired \cup {v}
      /\ expired.arena = s.arena /\ expired.histories = s.histories
      /\ expired.versions = s.versions /\ expired.nextVersion = s.nextVersion
      /\ expired.active = s.active /\ expired.retired = s.retired
      /\ expired.historyBindings = s.historyBindings
  BY Fields DEF Whole, IsStore
<1> HIDE DEF expired, K
<1>3. Whole(expired)
  BY <1>2 DEF Whole, LedgersDisjoint
<1>4. QED
  BY <1>1, <1>2, <1>3, MoveToRetiredWhole DEF OnlyAdds

\* What a frame that recovery accepts does to a whole store: it stays whole,
\* keeps what it has and, for a splice, takes the next tree of the node file.
LEMMA ReplayEffectWhole ==
    ASSUME NEW s, Whole(s), NEW f, IsFrame(f), NEW p, NEW c,
           ReplayAllowed(s, f, p, c)
    PROVE  LET t == ReplayEffect(s, f, c)
           IN  /\ Whole(t)
               /\ OnlyAdds(s, t)
               /\ \/ t.arena = s.arena
                  \/ /\ f.type = "commit" /\ f.op.kind = "splice"
                     /\ f.place.index = Len(s.arena) + 1
                     /\ FilesReady(c) /\ FilesCover(c, Len(s.arena) + 1)
                     /\ t.arena = Append(s.arena, c.nodes.data[Len(s.arena) + 1])
<1> DEFINE t == ReplayEffect(s, f, c)
<1>1. CASE f.type = "create"
  BY <1>1, CreateWhole DEF ReplayEffect
<1>2. CASE f.type = "commit"
  <2>1. ReplayCommitAllowed(s, f, p, c)
    BY <1>2 DEF ReplayAllowed
  <2>2. CASE f.op.kind = "fork"
    <3>1. t = ApplyFork(s, f.op, f.request)
      BY <1>2, <2>2 DEF ReplayEffect
    <3>2. s.versions[f.op.parent].root # None /\ Unrecorded(s, f.request)
      BY <2>1, <2>2 DEF ReplayCommitAllowed, Valid, ForkValid
    <3>3. QED
      BY <3>1, <3>2, ForkWhole
  <2>3. CASE f.op.kind # "fork"
    <3> DEFINE bytes == c.nodes.data[f.place.index]
    <3>1. t = AdoptTree(s, f.op, f.request, bytes)
      BY <1>2, <2>3 DEF ReplayEffect
    <3>2. Unrecorded(s, f.request)
      BY <2>1 DEF ReplayCommitAllowed
    <3>3. QED
      BY <1>2, <2>1, <2>3, <3>1, <3>2, AdoptTreeWhole
         DEF ReplayCommitAllowed, PlacementHolds, IsFrame
  <2>4. QED
    BY <2>2, <2>3
<1>3. CASE f.type = "expire"
  <2>1. CASE f.version \in s.expired
    BY <1>3, <2>1 DEF ReplayEffect, OnlyAdds
  <2>2. CASE f.version \notin s.expired
    BY <1>3, <2>2, ExpireWhole DEF ReplayEffect
  <2>3. QED
    BY <2>1, <2>2
<1>4. CASE f.type = "retire"
  BY <1>4, RetireWhole DEF ReplayEffect
<1>5. QED
  BY <1>1, <1>2, <1>3, <1>4 DEF IsFrame

-----------------------------------------------------------------------------
(* A sequence of frames *)

LEMMA ContinuesReflexive ==
    ASSUME NEW s, Whole(s), NEW c
    PROVE  Continues(s, s, c)
BY IsSeqFacts DEF Whole, Continues

LEMMA ContinuesTransitive ==
    ASSUME NEW a, NEW s, NEW t, Whole(a), Whole(s), Whole(t), NEW c,
           Continues(a, s, c), Continues(s, t, c)
    PROVE  Continues(a, t, c)
<1>1. Len(a.arena) \in Nat /\ Len(s.arena) \in Nat /\ Len(t.arena) \in Nat
  BY IsSeqFacts DEF Whole
<1>2. Len(a.arena) <= Len(t.arena)
      /\ \A i \in 1..Len(a.arena) : t.arena[i] = a.arena[i]
  BY <1>1 DEF Continues
<1>3. ASSUME Len(a.arena) < Len(t.arena)
      PROVE  /\ FilesReady(c)
             /\ FilesCover(c, Len(t.arena))
             /\ \A i \in Len(a.arena)+1..Len(t.arena) : t.arena[i] = c.nodes.data[i]
  <2>1. CASE Len(s.arena) = Len(t.arena)
    BY <1>1, <1>3, <2>1 DEF Continues
  <2>2. CASE Len(s.arena) < Len(t.arena)
    BY <1>1, <1>3, <2>2 DEF Continues
  <2>3. QED
    BY <1>1, <2>1, <2>2 DEF Continues
<1>4. QED
  BY <1>2, <1>3 DEF Continues

\* An accepted frame continues the store.
LEMMA ReplayEffectContinues ==
    ASSUME NEW s, Whole(s), NEW f, IsFrame(f), NEW p, NEW c, ReplayAllowed(s, f, p, c)
    PROVE  Whole(ReplayEffect(s, f, c)) /\ Continues(s, ReplayEffect(s, f, c), c)
<1> DEFINE t == ReplayEffect(s, f, c)
           n == Len(s.arena)
<1>1. /\ Whole(t)
      /\ \/ t.arena = s.arena
         \/ /\ FilesReady(c) /\ FilesCover(c, n + 1)
            /\ t.arena = Append(s.arena, c.nodes.data[n + 1])
  BY ReplayEffectWhole
<1> SUFFICES Continues(s, t, c)
  BY <1>1
<1> HIDE DEF t
<1>2. n \in Nat /\ IsSeq(s.arena)
  BY IsSeqFacts DEF Whole
<1>3. CASE t.arena = s.arena
  BY <1>1, <1>2, <1>3 DEF Continues
<1>4. CASE /\ FilesReady(c) /\ FilesCover(c, n + 1)
           /\ t.arena = Append(s.arena, c.nodes.data[n + 1])
  <2> DEFINE e == c.nodes.data[n + 1]
  <2>1. /\ Len(t.arena) = n + 1
        /\ \A i \in 1..n : t.arena[i] = s.arena[i]
        /\ t.arena[n + 1] = e
    <3> HIDE DEF e
    <3>1. t.arena = Append(s.arena, e)
      BY <1>4 DEF e
    <3>2. QED
      BY <1>2, <3>1, IsSeqAppend
  <2>2. \A i \in n+1..n+1 : t.arena[i] = c.nodes.data[i]
    BY <1>2, <2>1
  <2>3. QED
    BY <1>2, <1>4, <2>1, <2>2 DEF Continues
<1>5. QED
  BY <1>1, <1>3, <1>4

Frames(frames) == IsSeq(frames) /\ \A i \in 1..Len(frames) : IsFrame(frames[i])

\* Every state of a replay is None or a whole store that continues the base.
LEMMA ReplayStatesWhole ==
    ASSUME NEW base, Whole(base), NEW frames, Frames(frames), NEW p, NEW c
    PROVE  \A n \in 0..Len(frames) :
              LET t == ReplayStates(base, frames, p, c)[n]
              IN  t = None \/ (Whole(t) /\ Continues(base, t, c))
<1> DEFINE r == ReplayStates(base, frames, p, c)
           Good(t) == t = None \/ (Whole(t) /\ Continues(base, t, c))
           T == {n \in Nat : n <= Len(frames) => Good(r[n])}
<1>1. Len(frames) \in Nat
  BY IsSeqFacts DEF Frames
<1>2. /\ r[0] = base
      /\ \A n \in 1..Len(frames) : r[n] = ReplayRecord(r[n - 1], frames[n], p, c)
  BY <1>1, ReplayUnfolds
<1> HIDE DEF r
<1>3. Good(base)
  BY ContinuesReflexive
<1>4. ASSUME NEW s, Good(s), NEW f, IsFrame(f) PROVE Good(ReplayRecord(s, f, p, c))
  <2>1. CASE s = None \/ ~ReplayAllowed(s, f, p, c)
    BY <2>1 DEF ReplayRecord
  <2>2. CASE s # None /\ ReplayAllowed(s, f, p, c)
    <3> DEFINE t == ReplayEffect(s, f, c)
    <3>1. ReplayRecord(s, f, p, c) = t
      BY <2>2 DEF ReplayRecord
    <3>2. Whole(s) /\ Continues(base, s, c)
      BY <1>4, <2>2
    <3>3. Whole(t) /\ Continues(s, t, c)
      BY <1>4, <2>2, <3>2, ReplayEffectContinues
    <3> HIDE DEF t
    <3>4. Continues(base, t, c)
      BY <3>2, <3>3, ContinuesTransitive
    <3>5. QED
      BY <3>1, <3>3, <3>4
  <2>3. QED
    BY <2>1, <2>2
<1> HIDE DEF Good
<1>5. 0 \in T
  BY <1>2, <1>3
<1>6. ASSUME NEW n \in Nat, n \in T PROVE n + 1 \in T
  <2>1. SUFFICES ASSUME n + 1 <= Len(frames) PROVE Good(r[n + 1])
    OBVIOUS
  <2>2. n + 1 \in 1..Len(frames) /\ Good(r[n])
    BY <1>1, <1>6, <2>1
  <2>3. r[n + 1] = ReplayRecord(r[n], frames[n + 1], p, c)
    BY <1>2, <2>2
  <2>4. IsFrame(frames[n + 1])
    BY <2>2 DEF Frames
  <2>5. QED
    BY <1>4, <2>2, <2>3, <2>4
<1>7. \A n \in Nat : n \in T
  <2> HIDE DEF T
  <2>1. QED
    BY <1>5, <1>6, SetInduction
<1>8. QED
  BY <1>1, <1>7 DEF Good, r

LEMMA AgreeWithin ==
    ASSUME NEW c, NEW c2, NEW lo \in Nat, NEW hi \in Nat, NEW lo2 \in Nat, NEW hi2 \in Nat,
           Agree(c, c2, lo, hi), lo <= lo2, hi2 <= hi,
           Len(c2.payload.data) \in Nat, Len(c2.nodes.data) \in Nat
    PROVE  Agree(c, c2, lo2, hi2)
BY DEF Agree, FilesCover

\* An accepted frame is accepted, with the same effect, over any other files
\* that hold its delta.
LEMMA ReplayEffectSame ==
    ASSUME NEW s, Whole(s), NEW f, IsFrame(f), NEW p, NEW c, NEW c2, ReplayAllowed(s, f, p, c),
           Agree(c, c2, Len(s.arena), Len(ReplayEffect(s, f, c).arena))
    PROVE  ReplayAllowed(s, f, p, c2) /\ ReplayEffect(s, f, c2) = ReplayEffect(s, f, c)
<1>1. CASE ~(f.type = "commit" /\ f.op.kind = "splice")
  <2>1. f.type = "create" \/ f.type = "expire" \/ f.type = "retire"
          \/ (f.type = "commit" /\ f.op.kind = "fork")
    BY <1>1 DEF IsFrame
  <2>2. ReplayAllowed(s, f, p, c2)
    BY <2>1 DEF ReplayAllowed, ReplayCommitAllowed
  <2>3. QED
    BY <2>1, <2>2 DEF ReplayEffect
<1>2. CASE f.type = "commit" /\ f.op.kind = "splice"
  <2> DEFINE bytes == c.nodes.data[f.place.index]
             t == AdoptTree(s, f.op, f.request, bytes)
  <2>1. ReplayCommitAllowed(s, f, p, c) /\ ReplayEffect(s, f, c) = t
    BY <1>2 DEF ReplayAllowed, ReplayEffect
  <2>2. f.place.index = Len(s.arena) + 1 /\ Unrecorded(s, f.request)
    BY <1>2, <2>1 DEF ReplayCommitAllowed, PlacementHolds
  <2>3. t.arena = Append(s.arena, bytes)
    BY <2>2, AdoptTreeWhole
  <2>4. Len(s.arena) \in Nat /\ Len(t.arena) = Len(s.arena) + 1
    <3> HIDE DEF t, bytes
    <3>1. QED
      BY <2>3, IsSeqFacts, IsSeqAppend DEF Whole
  <2> HIDE DEF t
  <2>5. /\ FilesReady(c2) /\ FilesCover(c2, f.place.index)
        /\ c2.payload.data[f.place.index] = c.payload.data[f.place.index]
        /\ c2.nodes.data[f.place.index] = c.nodes.data[f.place.index]
    BY <2>1, <2>2, <2>4 DEF Agree
  <2>6. ReplayCommitAllowed(s, f, p, c2)
    BY <1>2, <2>1, <2>5 DEF ReplayCommitAllowed, PlacementHolds
  <2>7. QED
    BY <1>2, <2>1, <2>5, <2>6 DEF ReplayAllowed, ReplayEffect, t
<1>3. QED
  BY <1>1, <1>2

\* A replay that succeeds goes through the same states whatever frames come
\* after, over any files that hold the deltas it took.
LEMMA ReplaySame ==
    ASSUME NEW base, Whole(base), NEW frames, Frames(frames), NEW frames2, Frames(frames2),
           NEW N \in Nat, N <= Len(frames), N <= Len(frames2),
           \A i \in 1..N : frames2[i] = frames[i],
           NEW p, NEW c, NEW c2, IsContent(c2),
           ReplayStates(base, frames, p, c)[N] # None,
           Agree(c, c2, Len(base.arena), Len(ReplayStates(base, frames, p, c)[N].arena))
    PROVE  ReplayStates(base, frames2, p, c2)[N] = ReplayStates(base, frames, p, c)[N]
<1> DEFINE r == ReplayStates(base, frames, p, c)
           r2 == ReplayStates(base, frames2, p, c2)
           L(n) == Len(r[n].arena)
           Back == {k \in Nat : k <= N => r[N - k] # None /\ L(N - k) <= L(N)}
           Same == {n \in Nat : n <= N => r2[n] = r[n]}
<1>1. Len(frames) \in Nat /\ Len(frames2) \in Nat
  BY IsSeqFacts DEF Frames
<1>2. /\ r[0] = base
      /\ \A n \in 1..Len(frames) : r[n] = ReplayRecord(r[n - 1], frames[n], p, c)
  BY <1>1, ReplayUnfolds
<1>3. /\ r2[0] = base
      /\ \A n \in 1..Len(frames2) : r2[n] = ReplayRecord(r2[n - 1], frames2[n], p, c2)
  BY <1>1, ReplayUnfolds
<1>4. \A n \in 0..N : r[n] = None \/ (Whole(r[n]) /\ Continues(base, r[n], c))
  BY <1>1, ReplayStatesWhole
<1>5. r[N] # None /\ Agree(c, c2, Len(base.arena), L(N))
  OBVIOUS
<1>6. Len(c2.payload.data) \in Nat /\ Len(c2.nodes.data) \in Nat
  BY IsSeqFacts DEF IsContent
<1> HIDE DEF r, r2
<1>7. \A n \in 0..N : r[n] # None => L(n) \in Nat /\ Len(base.arena) \in Nat
                                      /\ Len(base.arena) <= L(n)
  BY <1>4, IsSeqFacts DEF Whole, Continues
\* Each successful step is an accepted frame.
<1>8. ASSUME NEW n \in Nat, n + 1 <= N, r[n + 1] # None
      PROVE  /\ r[n] # None
             /\ ReplayAllowed(r[n], frames[n + 1], p, c)
             /\ r[n + 1] = ReplayEffect(r[n], frames[n + 1], c)
             /\ IsFrame(frames[n + 1])
             /\ L(n) <= L(n + 1)
  <2>1. n + 1 \in 1..Len(frames) /\ n \in 0..N /\ n + 1 - 1 = n
    BY <1>1, <1>8
  <2>2. r[n + 1] = ReplayRecord(r[n], frames[n + 1], p, c)
    BY <1>2, <2>1
  <2>3. /\ r[n] # None
        /\ ReplayAllowed(r[n], frames[n + 1], p, c)
        /\ r[n + 1] = ReplayEffect(r[n], frames[n + 1], c)
    BY <1>8, <2>2 DEF ReplayRecord
  <2>4. IsFrame(frames[n + 1]) /\ Whole(r[n])
    BY <1>4, <2>1, <2>3 DEF Frames
  <2>5. Continues(r[n], r[n + 1], c)
    BY <2>3, <2>4, ReplayEffectContinues
  <2>6. QED
    BY <2>3, <2>4, <2>5 DEF Continues
<1>9. \A k \in Nat : k \in Back
  <2>1. 0 \in Back
    BY <1>5, <1>7
  <2>2. ASSUME NEW k \in Nat, k \in Back PROVE k + 1 \in Back
    <3>1. SUFFICES ASSUME k + 1 <= N
                   PROVE  r[N - (k + 1)] # None /\ L(N - (k + 1)) <= L(N)
      OBVIOUS
    <3> DEFINE n == N - (k + 1)
    <3>2. n \in Nat /\ n + 1 = N - k /\ n + 1 <= N /\ n \in 0..N /\ n + 1 \in 0..N
      BY <3>1
    <3> HIDE DEF n
    <3>3. r[n + 1] # None /\ L(n + 1) <= L(N)
      BY <2>2, <3>1, <3>2
    <3>4. r[n] # None /\ L(n) <= L(n + 1)
      BY <1>8, <3>2, <3>3
    <3>5. L(n) <= L(N)
      <4>1. L(n) \in Nat /\ L(n + 1) \in Nat /\ L(N) \in Nat
        BY <1>5, <1>7, <3>2, <3>3, <3>4
      <4> HIDE DEF L
      <4>2. QED
        BY <3>3, <3>4, <4>1
    <3>6. QED
      BY <3>4, <3>5 DEF n
  <2> HIDE DEF Back
  <2>3. QED
    BY <2>1, <2>2, SetInduction
<1>10. \A n \in 0..N : r[n] # None /\ L(n) <= L(N)
  <2>1. \A n \in 0..N : N - n \in Nat /\ N - n <= N /\ N - (N - n) = n
    OBVIOUS
  <2>2. QED
    BY <1>9, <2>1
<1>11. \A n \in Nat : n \in Same
  <2>1. 0 \in Same
    BY <1>2, <1>3
  <2>2. ASSUME NEW n \in Nat, n \in Same PROVE n + 1 \in Same
    <3>1. SUFFICES ASSUME n + 1 <= N PROVE r2[n + 1] = r[n + 1]
      OBVIOUS
    <3>2. n \in 0..N /\ n + 1 \in 0..N /\ n + 1 \in 1..Len(frames2) /\ n + 1 - 1 = n
            /\ n + 1 \in 1..N
      BY <1>1, <3>1
    <3>3. /\ ReplayAllowed(r[n], frames[n + 1], p, c)
          /\ r[n + 1] = ReplayEffect(r[n], frames[n + 1], c)
          /\ IsFrame(frames[n + 1])
      BY <1>8, <1>10, <3>1, <3>2
    <3>4. Whole(r[n]) /\ r[n] # None
      BY <1>4, <1>10, <3>2
    <3>5. Agree(c, c2, L(n), L(n + 1))
      <4>1. /\ L(n) \in Nat /\ L(n + 1) \in Nat /\ L(N) \in Nat /\ Len(base.arena) \in Nat
            /\ Len(base.arena) <= L(n) /\ L(n + 1) <= L(N)
        BY <1>7, <1>10, <3>2
      <4> HIDE DEF L
      <4>2. QED
        BY <1>5, <1>6, <4>1, AgreeWithin
    <3>6. /\ ReplayAllowed(r[n], frames[n + 1], p, c2)
          /\ ReplayEffect(r[n], frames[n + 1], c2) = r[n + 1]
      <4> DEFINE s == r[n]
                 f == frames[n + 1]
      <4>1. Whole(s) /\ IsFrame(f) /\ ReplayAllowed(s, f, p, c)
              /\ Agree(c, c2, Len(s.arena), Len(ReplayEffect(s, f, c).arena))
        BY <3>3, <3>4, <3>5
      <4> HIDE DEF s, f
      <4>2. ReplayAllowed(s, f, p, c2) /\ ReplayEffect(s, f, c2) = ReplayEffect(s, f, c)
        BY <4>1, ReplayEffectSame
      <4>3. QED
        BY <3>3, <4>2 DEF s, f
    <3>7. r2[n + 1] = ReplayRecord(r[n], frames[n + 1], p, c2)
      BY <1>3, <2>2, <3>2
    <3>8. QED
      BY <3>4, <3>6, <3>7 DEF ReplayRecord
  <2> HIDE DEF Same
  <2>3. QED
    BY <2>1, <2>2, SetInduction
<1>12. QED
  BY <1>11 DEF r, r2

-----------------------------------------------------------------------------
(* Directories *)

IsFile(file) == DOMAIN file = {"state", "data"} /\ IsSeq(file.data)

AreFiles(c) ==
    DOMAIN c = {"payload", "nodes"} /\ IsFile(c.payload) /\ IsFile(c.nodes)

\* The shape of a directory the writer and a power loss may leave.
IsDirectory(d) ==
    /\ DOMAIN d = {"manifest", "snaps", "hots", "content"}
    /\ d.manifest \in Nat
    /\ DOMAIN d.content = Gens
    /\ \A g \in Gens : AreFiles(d.content[g])
    /\ \A g \in DOMAIN d.snaps : /\ Whole(d.snaps[g].store)
                                 /\ d.snaps[g].frontier \in Nat
                                 /\ d.snaps[g].pgen \in Gens
    /\ \A g \in DOMAIN d.hots : /\ DOMAIN d.hots[g] = {"frames", "torn"}
                                /\ Frames(d.hots[g].frames)

Current(d) == d.content[SealedPgen(d)]

\* The sealed base recovery starts from.
Base(d) ==
    IF d.manifest = 0 THEN NewStore ELSE ImportSnapshot(d.snaps[d.manifest], Current(d))

\* The files hold the arena of s.
Holds(s, c) ==
    /\ FilesReady(c)
    /\ FilesCover(c, Len(s.arena))
    /\ \A i \in 1..Len(s.arena) : c.nodes.data[i] = s.arena[i]

\* The first n deltas of c are those of c2.
KeepsContent(c, c2, n) ==
    /\ FilesReady(c2)
    /\ FilesCover(c2, n)
    /\ \A i \in 1..n : /\ c2.payload.data[i] = c.payload.data[i]
                       /\ c2.nodes.data[i] = c.nodes.data[i]

\* The new directory names the same sealed base.
SameSeal(d, e) ==
    /\ e.manifest = d.manifest
    /\ d.manifest # 0 => /\ d.manifest \in DOMAIN e.snaps
                         /\ e.snaps[d.manifest] = d.snaps[d.manifest]

LEMMA WholeIsSome ==
    ASSUME NoneIsNoFunction, NEW s, Whole(s)
    PROVE  s # None
BY DEF NoneIsNoFunction, Whole, IsStore

LEMMA SeqIsSome ==
    ASSUME NoneIsNoFunction, NEW q, IsSeq(q)
    PROVE  q # None
<1>1. q = [i \in DOMAIN q |-> q[i]]
  BY IsSeqFacts
<1>2. QED
  BY <1>1 DEF NoneIsNoFunction

LEMMA EmptyIsSeq == IsSeq(<<>>) /\ Len(<<>>) = 0
BY SeqIsSeq, EmptySeq

LEMMA NewStoreWhole ==
    Whole(NewStore) /\ Len(NewStore.arena) = 0 /\ BindingsUnique(NewStore)
<1>1. IsStore(NewStore)
  BY DEF IsStore, NewStore
<1>2. NewStore.arena = <<>> /\ NewStore.nextVersion = 0 /\ DOMAIN NewStore.versions = {}
        /\ DOMAIN NewStore.active = {} /\ DOMAIN NewStore.historyBindings = {}
  BY DEF NewStore, EmptyMap
<1>3. QED
  BY <1>1, <1>2, EmptyIsSeq DEF Whole, LedgersDisjoint, BindingsUnique

LEMMA ImportWhole ==
    ASSUME NEW snap, Whole(snap.store), snap.frontier \in Nat, NEW c, IsContent(c),
           FilesReady(c), FilesCover(c, snap.frontier)
    PROVE  LET s == ImportSnapshot(snap, c)
           IN  /\ Whole(s)
               /\ s = [snap.store EXCEPT !.arena = SubSeq(c.nodes.data, 1, snap.frontier)]
               /\ s.arena = SubSeq(c.nodes.data, 1, snap.frontier)
               /\ Len(s.arena) = snap.frontier
               /\ \A i \in 1..snap.frontier : s.arena[i] = c.nodes.data[i]
<1> DEFINE q == SubSeq(c.nodes.data, 1, snap.frontier)
           s == [snap.store EXCEPT !.arena = q]
<1>1. ImportSnapshot(snap, c) = s
  BY DEF ImportSnapshot
<1>2. IsSeq(q) /\ Len(q) = snap.frontier /\ \A i \in 1..snap.frontier : q[i] = c.nodes.data[i]
  <2>1. snap.frontier \in 0..Len(c.nodes.data) /\ IsSeq(c.nodes.data)
    BY IsSeqFacts DEF FilesCover, IsContent
  <2>2. QED
    BY <2>1, IsSeqPrefix
<1> HIDE DEF q
<1>3. /\ IsStore(s) /\ s.arena = q
      /\ s.expired = snap.store.expired /\ s.versions = snap.store.versions
      /\ s.nextVersion = snap.store.nextVersion
      /\ s.active = snap.store.active /\ s.retired = snap.store.retired
  BY Fields DEF Whole, IsStore
<1> HIDE DEF s
<1>4. Whole(s)
  BY <1>2, <1>3 DEF Whole, LedgersDisjoint
<1>5. QED
  BY <1>1, <1>2, <1>3, <1>4 DEF s, q

LEMMA DirectoryFacts ==
    ASSUME NEW d, IsDirectory(d)
    PROVE  /\ \A g \in Gens : IsContent(d.content[g])
           /\ d.manifest = 0 \/ d.manifest \in DOMAIN d.snaps =>
                 SealedPgen(d) \in Gens /\ IsContent(Current(d))
<1>1. \A g \in Gens : IsContent(d.content[g])
  BY DEF IsDirectory, AreFiles, IsFile, IsContent
<1>2. 0 \in Gens
  BY GenAssumption DEF Gens
<1>3. ASSUME d.manifest = 0 \/ d.manifest \in DOMAIN d.snaps PROVE SealedPgen(d) \in Gens
  BY <1>2, <1>3 DEF SealedPgen, IsDirectory
<1>4. QED
  BY <1>1, <1>3 DEF Current

\* What a recovery that succeeds says of the directory.
LEMMA AuthoritativeFacts ==
    ASSUME NEW d, IsDirectory(d), Authoritative(d) # None
    PROVE  LET a == Authoritative(d)
               frames == HotFrames(d, d.manifest)
           IN  /\ Whole(a) /\ BindingsUnique(a)
               /\ d.manifest = 0 \/ d.manifest \in DOMAIN d.snaps
               /\ SealedPgen(d) \in Gens
               /\ IsContent(Current(d))
               /\ d.manifest # 0 => d.manifest \in DOMAIN d.hots
               /\ Frames(frames)
               /\ Base(d) # None /\ Whole(Base(d))
               /\ d.manifest # 0 => /\ FilesReady(Current(d))
                                    /\ FilesCover(Current(d), d.snaps[d.manifest].frontier)
               /\ a = ReplayStates(Base(d), frames, SealedPgen(d), Current(d))[Len(frames)]
               /\ Continues(Base(d), a, Current(d))
               /\ Holds(a, Current(d)) \/ (d.manifest = 0 /\ Len(a.arena) = 0)
<1> DEFINE a == Authoritative(d)
           frames == HotFrames(d, d.manifest)
           p == SealedPgen(d)
           c == Current(d)
<1>1. /\ d.manifest = 0 \/ d.manifest \in DOMAIN d.snaps
      /\ Base(d) # None
      /\ frames # None
      /\ a = ReplaySuffix(Base(d), frames, p, c)
  BY Zenon DEF Authoritative, Base, Current
<1>2. p \in Gens /\ IsContent(c)
  BY <1>1, DirectoryFacts
<1>3. Frames(frames) /\ (d.manifest # 0 => d.manifest \in DOMAIN d.hots)
  <2>1. Frames(<<>>)
    BY EmptyIsSeq DEF Frames
  <2>2. QED
    BY <1>1, <2>1 DEF HotFrames, IsDirectory
<1>4. /\ Whole(Base(d))
      /\ d.manifest # 0 => /\ FilesReady(c)
                           /\ FilesCover(c, d.snaps[d.manifest].frontier)
                           /\ Holds(Base(d), c)
      /\ d.manifest = 0 => Len(Base(d).arena) = 0
  <2>1. CASE d.manifest = 0
    BY <2>1, NewStoreWhole DEF Base
  <2>2. CASE d.manifest # 0
    <3> DEFINE snap == d.snaps[d.manifest]
    <3>1. Whole(snap.store) /\ snap.frontier \in Nat
      BY <1>1, <2>2 DEF IsDirectory
    <3> HIDE DEF snap
    <3>2. Base(d) = ImportSnapshot(snap, c) /\ ImportSnapshot(snap, c) # None
      BY <1>1, <2>2 DEF Base, snap
    <3>3. FilesReady(c) /\ FilesCover(c, snap.frontier)
      BY <3>2 DEF ImportSnapshot
    <3> HIDE DEF c
    <3>4. /\ Whole(Base(d)) /\ Len(Base(d).arena) = snap.frontier
          /\ \A i \in 1..snap.frontier : Base(d).arena[i] = c.nodes.data[i]
      BY <1>2, <3>1, <3>2, <3>3, ImportWhole
    <3>5. QED
      BY <2>2, <3>3, <3>4 DEF Holds, snap
  <2>3. QED
    BY <2>1, <2>2
<1> DEFINE t == ReplayStates(Base(d), frames, p, c)[Len(frames)]
<1>5. a = t /\ BindingsUnique(t) /\ t # None
  BY <1>1 DEF ReplaySuffix
<1>6. Whole(t) /\ Continues(Base(d), t, c)
  <2>1. Len(frames) \in Nat /\ Len(frames) \in 0..Len(frames)
    BY <1>3, IsSeqFacts DEF Frames
  <2> HIDE DEF frames, p, c
  <2>2. t = None \/ (Whole(t) /\ Continues(Base(d), t, c))
    BY <1>3, <1>4, <2>1, ReplayStatesWhole
  <2>3. QED
    BY <1>5, <2>2
<1> HIDE DEF t, c
<1>7. Holds(t, c) \/ (d.manifest = 0 /\ Len(t.arena) = 0)
  <2>1. Len(t.arena) \in Nat /\ Len(Base(d).arena) \in Nat
    BY <1>4, <1>6, IsSeqFacts DEF Whole
  <2>2. QED
    BY <1>4, <1>6, <2>1 DEF Continues, Holds
<1>8. QED
  BY <1>1, <1>2, <1>3, <1>4, <1>5, <1>6, <1>7 DEF t, c

\* What recovery makes of a directory whose parts are all there.
LEMMA AuthoritativeIs ==
    ASSUME NEW d, d.manifest = 0 \/ d.manifest \in DOMAIN d.snaps,
           Base(d) # None, HotFrames(d, d.manifest) # None
    PROVE  Authoritative(d) =
              ReplaySuffix(Base(d), HotFrames(d, d.manifest), SealedPgen(d), Current(d))
BY Zenon DEF Authoritative, Base, Current

\* The sealed base is bound to the same deltas.
LEMMA BaseSame ==
    ASSUME NEW d, IsDirectory(d), NEW e, IsDirectory(e), SameSeal(d, e),
           Authoritative(d) # None,
           \/ d.manifest = 0 /\ Len(Authoritative(d).arena) = 0
           \/ KeepsContent(Current(d), e.content[SealedPgen(d)], Len(Authoritative(d).arena))
    PROVE  Base(e) = Base(d)
<1> DEFINE a == Authoritative(d)
           p == SealedPgen(d)
           c == Current(d)
           c2 == e.content[p]
           n == Len(a.arena)
<1>1. /\ Whole(a)
      /\ d.manifest = 0 \/ d.manifest \in DOMAIN d.snaps
      /\ p \in Gens
      /\ Whole(Base(d))
      /\ Continues(Base(d), a, c)
      /\ d.manifest # 0 => FilesReady(c) /\ FilesCover(c, d.snaps[d.manifest].frontier)
      /\ IsContent(c)
  BY AuthoritativeFacts
<1>2. IsContent(c2)
  BY <1>1, DirectoryFacts
<1>3. SealedPgen(e) = p /\ Current(e) = c2
  BY <1>1 DEF SameSeal, SealedPgen, Current
<1>4. \/ d.manifest = 0 /\ n = 0
      \/ KeepsContent(c, c2, n)
  OBVIOUS
<1>5. n \in Nat /\ Len(Base(d).arena) \in Nat /\ Len(Base(d).arena) <= n
  BY <1>1, IsSeqFacts DEF Whole, Continues
<1> HIDE DEF a, p, c, c2
<1>6. CASE d.manifest = 0
  BY <1>6 DEF Base, SameSeal
<1>7. CASE d.manifest # 0
  <2> DEFINE snap == d.snaps[d.manifest]
  <2>1. Whole(snap.store) /\ snap.frontier \in Nat
    BY <1>1, <1>7 DEF IsDirectory
  <2>2. e.snaps[e.manifest] = snap /\ e.manifest # 0
    BY <1>7 DEF SameSeal
  <2> HIDE DEF snap
  <2>3. Base(d) = ImportSnapshot(snap, c) /\ Base(e) = ImportSnapshot(snap, c2)
    BY <1>3, <1>7, <2>2 DEF Base, snap, c
  <2>4. FilesReady(c) /\ FilesCover(c, snap.frontier) /\ KeepsContent(c, c2, n)
    BY <1>1, <1>4, <1>7 DEF snap
  <2>5. /\ Base(d) = [snap.store EXCEPT !.arena = SubSeq(c.nodes.data, 1, snap.frontier)]
        /\ Len(Base(d).arena) = snap.frontier
    BY <1>1, <2>1, <2>3, <2>4, ImportWhole
  <2>6. FilesReady(c2) /\ FilesCover(c2, snap.frontier) /\ snap.frontier <= n
    <3>1. Len(c2.payload.data) \in Nat /\ Len(c2.nodes.data) \in Nat
      BY <1>2, IsSeqFacts DEF IsContent
    <3>2. QED
      BY <1>5, <2>1, <2>4, <2>5, <3>1 DEF KeepsContent, FilesCover
  <2>7. Base(e) = [snap.store EXCEPT !.arena = SubSeq(c2.nodes.data, 1, snap.frontier)]
    BY <1>2, <2>1, <2>3, <2>6, ImportWhole
  <2>8. SubSeq(c2.nodes.data, 1, snap.frontier) = SubSeq(c.nodes.data, 1, snap.frontier)
    <3> DEFINE q == SubSeq(c.nodes.data, 1, snap.frontier)
               q2 == SubSeq(c2.nodes.data, 1, snap.frontier)
    <3>1. IsSeq(c.nodes.data) /\ snap.frontier \in 0..Len(c.nodes.data)
      BY <1>1, <2>1, <2>4, IsSeqFacts DEF IsContent, FilesCover
    <3>2. IsSeq(c2.nodes.data) /\ snap.frontier \in 0..Len(c2.nodes.data)
      BY <1>2, <2>1, <2>6, IsSeqFacts DEF IsContent, FilesCover
    <3>3. /\ IsSeq(q) /\ Len(q) = snap.frontier
          /\ \A i \in 1..snap.frontier : q[i] = c.nodes.data[i]
      BY <3>1, IsSeqPrefix
    <3>4. /\ IsSeq(q2) /\ Len(q2) = snap.frontier
          /\ \A i \in 1..snap.frontier : q2[i] = c2.nodes.data[i]
      BY <3>2, IsSeqPrefix
    <3>5. \A i \in 1..snap.frontier : c2.nodes.data[i] = c.nodes.data[i]
      BY <1>5, <2>1, <2>4, <2>6 DEF KeepsContent
    <3> HIDE DEF q, q2
    <3>6. q2 = q
      BY <3>3, <3>4, <3>5, IsSeqEqual
    <3>7. QED
      BY <3>6 DEF q, q2
  <2>9. QED
    BY <2>5, <2>7, <2>8
<1>8. QED
  BY <1>6, <1>7

\* A change to the directory that keeps the sealed base, the frames and the
\* deltas below the frontier keeps the recovered store.
LEMMA AuthoritativeSame ==
    ASSUME NoneIsNoFunction, NEW d, IsDirectory(d), NEW e, IsDirectory(e), SameSeal(d, e),
           Authoritative(d) # None,
           HotFrames(e, d.manifest) = HotFrames(d, d.manifest),
           \/ d.manifest = 0 /\ Len(Authoritative(d).arena) = 0
           \/ KeepsContent(Current(d), e.content[SealedPgen(d)], Len(Authoritative(d).arena))
    PROVE  Authoritative(e) = Authoritative(d)
<1> DEFINE a == Authoritative(d)
           frames == HotFrames(d, d.manifest)
           p == SealedPgen(d)
           c == Current(d)
           c2 == e.content[p]
           n == Len(a.arena)
<1>1. /\ Whole(a) /\ BindingsUnique(a)
      /\ d.manifest = 0 \/ d.manifest \in DOMAIN d.snaps
      /\ p \in Gens
      /\ Frames(frames)
      /\ Whole(Base(d))
      /\ a = ReplayStates(Base(d), frames, p, c)[Len(frames)]
      /\ Continues(Base(d), a, c)
      /\ d.manifest # 0 => FilesReady(c) /\ FilesCover(c, d.snaps[d.manifest].frontier)
      /\ IsContent(c)
  BY AuthoritativeFacts
<1>2. IsContent(c2)
  BY <1>1, DirectoryFacts
<1>3. SealedPgen(e) = p /\ Current(e) = c2
  BY <1>1 DEF SameSeal, SealedPgen, Current
<1>4. \/ d.manifest = 0 /\ n = 0
      \/ KeepsContent(c, c2, n)
  OBVIOUS
<1>5. n \in Nat /\ Len(Base(d).arena) \in Nat /\ Len(Base(d).arena) <= n
  BY <1>1, IsSeqFacts DEF Whole, Continues
<1> HIDE DEF a, frames, p, c, c2
<1>6. Base(e) = Base(d)
  BY BaseSame
<1>7. Agree(c, c2, Len(Base(d).arena), n)
  BY <1>4, <1>5 DEF Agree, KeepsContent
<1>8. Len(frames) \in Nat
  BY <1>1, IsSeqFacts DEF Frames
<1>9. a # None
  BY DEF a
<1>10. ReplayStates(Base(d), frames, p, c2)[Len(frames)] = a
  BY <1>1, <1>2, <1>7, <1>8, <1>9, ReplaySame
<1>11. /\ e.manifest = 0 \/ e.manifest \in DOMAIN e.snaps
       /\ Base(e) # None /\ HotFrames(e, e.manifest) = frames /\ frames # None
  <2>1. Base(d) # None
    BY <1>1, WholeIsSome
  <2>2. frames # None
    BY <1>1, SeqIsSome DEF Frames
  <2>3. QED
    BY <1>6, <2>1, <2>2 DEF SameSeal, frames
<1>12. Authoritative(e) = ReplaySuffix(Base(d), frames, p, c2)
  BY <1>3, <1>6, <1>11, AuthoritativeIs
<1>13. QED
  BY <1>1, <1>9, <1>10, <1>12 DEF ReplaySuffix, a

\* One more accepted frame: the directory stands for the store it leads to.
LEMMA AuthoritativeAppend ==
    ASSUME NoneIsNoFunction, NEW d, IsDirectory(d), NEW e, IsDirectory(e), SameSeal(d, e),
           Authoritative(d) # None, NEW f,
           HotFrames(e, d.manifest) = Append(HotFrames(d, d.manifest), f),
           e.content[SealedPgen(d)] = Current(d),
           ReplayAllowed(Authoritative(d), f, SealedPgen(d), Current(d)),
           IsFrame(f),
           BindingsUnique(ReplayEffect(Authoritative(d), f, Current(d)))
    PROVE  Authoritative(e) = ReplayEffect(Authoritative(d), f, Current(d))
<1> DEFINE a == Authoritative(d)
           frames == HotFrames(d, d.manifest)
           frames2 == Append(frames, f)
           p == SealedPgen(d)
           c == Current(d)
           t == ReplayEffect(a, f, c)
           N == Len(frames)
           r == ReplayStates(Base(d), frames, p, c)
           r2 == ReplayStates(Base(d), frames2, p, c)
<1>1. /\ Whole(a)
      /\ d.manifest = 0 \/ d.manifest \in DOMAIN d.snaps
      /\ Frames(frames)
      /\ Whole(Base(d))
      /\ a = r[N]
      /\ IsContent(c)
      /\ Len(Base(d).arena) <= Len(a.arena)
  BY AuthoritativeFacts DEF Continues
<1>2. SealedPgen(e) = p /\ Current(e) = c
  BY <1>1 DEF SameSeal, SealedPgen, Current
<1>3. Base(e) = Base(d)
  BY <1>2 DEF Base, SameSeal
<1>4. /\ IsFrame(f) /\ ReplayAllowed(a, f, p, c) /\ a # None
      /\ HotFrames(e, e.manifest) = frames2 /\ BindingsUnique(t)
  BY DEF SameSeal
<1> HIDE DEF a, frames, p, c
<1>5. /\ IsSeq(frames2) /\ Len(frames2) = N + 1 /\ N \in Nat
      /\ \A i \in 1..N : frames2[i] = frames[i]
      /\ frames2[N + 1] = f
  BY <1>1, IsSeqFacts, IsSeqAppend DEF Frames
<1> HIDE DEF frames2
<1>6. Frames(frames2)
  <2>1. \A i \in 1..N+1 : i \in 1..N \/ i = N + 1
    BY <1>5
  <2>2. QED
    BY <1>1, <1>4, <1>5, <2>1 DEF Frames
<1>7. Len(c.payload.data) \in Nat /\ Len(c.nodes.data) \in Nat /\ Len(a.arena) \in Nat
        /\ Len(Base(d).arena) \in Nat
  BY <1>1, IsSeqFacts DEF IsContent, Whole
<1>8. Agree(c, c, Len(Base(d).arena), Len(a.arena))
  <2>1. Continues(Base(d), a, c)
    BY AuthoritativeFacts DEF a, c
  <2>2. QED
    BY <1>7, <2>1 DEF Agree, Continues
<1>9. r2[N] = a
  BY <1>1, <1>4, <1>5, <1>6, <1>8, ReplaySame
<1>10. r2[N + 1] = ReplayRecord(a, f, p, c)
  <2>1. \A n \in 1..Len(frames2) : r2[n] = ReplayRecord(r2[n - 1], frames2[n], p, c)
    BY <1>5, ReplayUnfolds
  <2>2. N + 1 \in 1..Len(frames2) /\ N + 1 - 1 = N
    BY <1>5
  <2>3. QED
    BY <1>5, <1>9, <2>1, <2>2
<1>11. r2[Len(frames2)] = t
  BY <1>4, <1>5, <1>10 DEF ReplayRecord
<1>12. t # None
  <2>1. Whole(t)
    BY <1>1, <1>4, ReplayEffectContinues
  <2>2. QED
    BY <2>1, WholeIsSome
<1>13. /\ e.manifest = 0 \/ e.manifest \in DOMAIN e.snaps
       /\ Base(e) # None /\ frames2 # None
  <2>1. Base(d) # None
    BY <1>1, WholeIsSome
  <2>2. frames2 # None
    BY <1>5, SeqIsSome
  <2>3. QED
    BY <1>3, <2>1, <2>2 DEF SameSeal
<1>14. Authoritative(e) = ReplaySuffix(Base(d), frames2, p, c)
  BY <1>2, <1>3, <1>4, <1>13, AuthoritativeIs
<1> HIDE DEF t
<1>15. QED
  BY <1>4, <1>11, <1>12, <1>14 DEF ReplaySuffix, a, c, t

LEMMA ReplayNothing ==
    ASSUME NEW base, NEW p, NEW c
    PROVE  ReplayStates(base, <<>>, p, c)[Len(<<>>)] = base
<1>1. \A frames : Len(frames) = 0 => ReplayStates(base, frames, p, c)[Len(frames)] = base
  <2> SUFFICES ASSUME NEW frames, Len(frames) = 0
               PROVE  ReplayStates(base, frames, p, c)[0] = base
    OBVIOUS
  <2>1. Len(frames) \in Nat
    OBVIOUS
  <2>2. QED
    BY <2>1, ReplayUnfolds
<1>2. QED
  BY <1>1, EmptyIsSeq

\* A manifest that names a snapshot of t, over files that hold its arena and
\* with no frames yet, stands for t.
LEMMA AuthoritativeSealed ==
    ASSUME NoneIsNoFunction, NEW e, IsDirectory(e), e.manifest # 0,
           e.manifest \in DOMAIN e.snaps, NEW t, Whole(t), BindingsUnique(t), NEW p,
           e.snaps[e.manifest] = SnapshotOf(t, p), HotFrames(e, e.manifest) = <<>>,
           Holds(t, e.content[p])
    PROVE  Authoritative(e) = t
<1> DEFINE snap == e.snaps[e.manifest]
           c == e.content[p]
<1>1. /\ snap.store = [t EXCEPT !.arena = <<>>] /\ snap.pgen = p
      /\ snap.frontier = Len(t.arena)
  BY DEF SnapshotOf
<1>2. SealedPgen(e) = p /\ Current(e) = c
  BY <1>1 DEF SealedPgen, Current
<1>3. Whole(snap.store) /\ snap.frontier \in Nat /\ IsContent(c)
  BY <1>2, DirectoryFacts DEF IsDirectory
<1>4. FilesReady(c) /\ FilesCover(c, snap.frontier)
        /\ \A i \in 1..Len(t.arena) : c.nodes.data[i] = t.arena[i]
  BY <1>1 DEF Holds
<1>5. Base(e) = ImportSnapshot(snap, c)
  BY <1>2 DEF Base
<1> HIDE DEF snap, c
<1> DEFINE q == SubSeq(c.nodes.data, 1, snap.frontier)
<1>6. Base(e) = [snap.store EXCEPT !.arena = q] /\ Whole(Base(e))
  BY <1>3, <1>4, <1>5, ImportWhole
<1>7. q = t.arena
  <2>1. IsSeq(c.nodes.data) /\ snap.frontier \in 0..Len(c.nodes.data)
    BY <1>3, <1>4, IsSeqFacts DEF IsContent, FilesCover
  <2>2. /\ IsSeq(q) /\ Len(q) = snap.frontier
        /\ \A i \in 1..snap.frontier : q[i] = c.nodes.data[i]
    BY <2>1, IsSeqPrefix
  <2>3. IsSeq(t.arena)
    BY DEF Whole
  <2> HIDE DEF q
  <2>4. QED
    BY <1>1, <1>4, <2>2, <2>3, IsSeqEqual
<1>8. Base(e) = t
  <2> HIDE DEF q
  <2>1. Base(e) = [[t EXCEPT !.arena = <<>>] EXCEPT !.arena = t.arena]
    BY <1>1, <1>6, <1>7
  <2>2. QED
    BY <2>1, Fields DEF Whole, IsStore
<1>9. Base(e) # None /\ <<>> # None
  BY <1>6, WholeIsSome, SeqIsSome, EmptyIsSeq
<1>10. Authoritative(e) = ReplaySuffix(t, <<>>, p, c)
  BY <1>2, <1>8, <1>9, AuthoritativeIs
<1>11. ReplayStates(t, <<>>, p, c)[Len(<<>>)] = t
  BY ReplayNothing
<1>12. QED
  BY <1>8, <1>9, <1>10, <1>11 DEF ReplaySuffix

-----------------------------------------------------------------------------
(* Writing files *)

LEMMA TruncatedFacts ==
    ASSUME NEW file, IsFile(file), NEW n \in Nat
    PROVE  LET t == Truncated(file, n)
               m == IF Len(file.data) < n THEN Len(file.data) ELSE n
           IN  /\ IsFile(t)
               /\ t.state = file.state
               /\ Len(t.data) = m
               /\ \A i \in 1..m : t.data[i] = file.data[i]
<1> DEFINE m == IF Len(file.data) < n THEN Len(file.data) ELSE n
           q == SubSeq(file.data, 1, m)
           t == [file EXCEPT !.data = q]
<1>1. Truncated(file, n) = t
  BY DEF Truncated, IsFile
<1>2. IsSeq(file.data) /\ m \in 0..Len(file.data)
  BY IsSeqFacts DEF IsFile
<1> HIDE DEF m
<1>3. IsSeq(q) /\ Len(q) = m /\ \A i \in 1..m : q[i] = file.data[i]
  BY <1>2, IsSeqPrefix
<1> HIDE DEF q
<1>4. DOMAIN t = {"state", "data"} /\ t.data = q /\ t.state = file.state
  BY DEF IsFile
<1>5. QED
  BY <1>1, <1>3, <1>4 DEF IsFile, m

\* Cutting files that cover n back to n loses nothing below n.
LEMMA TruncatedContentFacts ==
    ASSUME NEW c, AreFiles(c), NEW n \in Nat, FilesReady(c), FilesCover(c, n)
    PROVE  LET t == TruncatedContent(c, n)
           IN  /\ AreFiles(t)
               /\ KeepsContent(c, t, n)
               /\ Len(t.payload.data) = n /\ Len(t.nodes.data) = n
<1> DEFINE t == TruncatedContent(c, n)
<1>1. t.payload = Truncated(c.payload, n) /\ t.nodes = Truncated(c.nodes, n)
        /\ DOMAIN t = {"payload", "nodes"}
  BY DEF TruncatedContent
<1>2. ~(Len(c.payload.data) < n) /\ ~(Len(c.nodes.data) < n)
  BY IsSeqFacts DEF AreFiles, IsFile, FilesCover
<1>3. /\ IsFile(t.payload) /\ t.payload.state = c.payload.state /\ Len(t.payload.data) = n
      /\ \A i \in 1..n : t.payload.data[i] = c.payload.data[i]
  BY <1>1, <1>2, TruncatedFacts DEF AreFiles
<1>4. /\ IsFile(t.nodes) /\ t.nodes.state = c.nodes.state /\ Len(t.nodes.data) = n
      /\ \A i \in 1..n : t.nodes.data[i] = c.nodes.data[i]
  BY <1>1, <1>2, TruncatedFacts DEF AreFiles
<1> HIDE DEF t
<1>5. QED
  BY <1>1, <1>3, <1>4 DEF AreFiles, KeepsContent, FilesReady, FilesCover, t

\* Rewriting the files of one physical generation.
LEMMA ContentWritten ==
    ASSUME NEW d, IsDirectory(d), NEW g \in Gens, NEW c, AreFiles(c)
    PROVE  LET e == [d EXCEPT !.content[g] = c]
           IN  /\ IsDirectory(e)
               /\ e.manifest = d.manifest /\ e.snaps = d.snaps /\ e.hots = d.hots
               /\ e.content[g] = c
               /\ \A h \in Gens : h # g => e.content[h] = d.content[h]
<1> DEFINE content == [d.content EXCEPT ![g] = c]
           e == [d EXCEPT !.content = content]
<1>1. [d EXCEPT !.content[g] = c] = e
  BY DEF IsDirectory
<1>2. /\ DOMAIN content = Gens /\ content[g] = c
      /\ \A h \in Gens : h # g => content[h] = d.content[h]
  BY DEF IsDirectory
<1> HIDE DEF content
<1>3. /\ DOMAIN e = {"manifest", "snaps", "hots", "content"} /\ e.content = content
      /\ e.manifest = d.manifest /\ e.snaps = d.snaps /\ e.hots = d.hots
  BY DEF IsDirectory
<1> HIDE DEF e
<1>4. \A h \in Gens : AreFiles(content[h])
  BY <1>2 DEF IsDirectory
<1>5. IsDirectory(e)
  BY <1>2, <1>3, <1>4 DEF IsDirectory
<1>6. QED
  BY <1>1, <1>2, <1>3, <1>5

\* Writing another set of snapshots, hot logs or another manifest.
LEMMA NamesWritten ==
    ASSUME NEW d, IsDirectory(d), NEW hots, NEW snaps, NEW m \in Nat,
           \A g \in DOMAIN snaps : /\ Whole(snaps[g].store)
                                   /\ snaps[g].frontier \in Nat
                                   /\ snaps[g].pgen \in Gens,
           \A g \in DOMAIN hots : /\ DOMAIN hots[g] = {"frames", "torn"}
                                  /\ Frames(hots[g].frames)
    PROVE  LET e == [d EXCEPT !.hots = hots, !.snaps = snaps, !.manifest = m]
           IN  /\ IsDirectory(e)
               /\ e.manifest = m /\ e.snaps = snaps /\ e.hots = hots
               /\ e.content = d.content
<1> DEFINE e == [d EXCEPT !.hots = hots, !.snaps = snaps, !.manifest = m]
<1>1. /\ DOMAIN e = {"manifest", "snaps", "hots", "content"} /\ e.content = d.content
      /\ e.manifest = m /\ e.snaps = snaps /\ e.hots = hots
  BY DEF IsDirectory
<1> HIDE DEF e
<1>2. IsDirectory(e)
  BY <1>1 DEF IsDirectory
<1>3. QED
  BY <1>1, <1>2 DEF e

-----------------------------------------------------------------------------
(* The steps of the writer *)

CreatingSteps == {"createPayload", "createNodes", "payloadHeader", "nodesHeader"}
OpeningSteps == CreatingSteps \cup {"heal", "syncHeaders", "openHot"}
ContentSteps == {"payload", "nodes", "syncContent"}
CommitSteps == ContentSteps \cup {"frame", "syncFrame"}
PreparingSteps == {"snapshot", "nextHot", "manifest"}
PublishingSteps == PreparingSteps \cup {"syncManifest", "recycle"}
RestingSteps == {"idle", "heal", "syncHeaders", "openHot", "recycle"}

-----------------------------------------------------------------------------
(* The invariant *)

\* The record of what is durable.
IsSynced(y) ==
    /\ DOMAIN y = {"manifest", "snaps", "hots", "content"}
    /\ y.manifest \in Nat
    /\ \A g \in DOMAIN y.hots : y.hots[g] \in Nat
    /\ DOMAIN y.content = Gens
    /\ \A g \in Gens : y.content[g].payload \in Int /\ y.content[g].nodes \in Int

\* A snapshot's physical generation is no later than its own.
SealsInOrder(d) == \A g \in DOMAIN d.snaps : g \in Nat /\ d.snaps[g].pgen <= g

\* The directory and its history variable.
DirectoryTrue ==
    /\ IsDirectory(disk)
    /\ SealsInOrder(disk)
    /\ auth = Authoritative(disk)
    /\ IsSynced(synced)
    /\ DOMAIN crashes = {"kills", "outages"}

\* The writer is at a step of an operation, or poisoned between two.
Placed ==
    /\ pc \in {"closed", "idle"} \cup OpeningSteps \cup CommitSteps \cup PublishingSteps
    /\ poisoned \in BOOLEAN
    /\ poisoned => pc = "idle"

Working == pc # "closed" /\ ~poisoned

\* The writer knows the generation it works on.
GenerationKnown ==
    Working =>
        /\ auth # None
        /\ pc # "syncManifest" => gen = disk.manifest /\ pgen = SealedPgen(disk)
        /\ pc = "syncManifest" => /\ disk.manifest = gen + 1
                                  /\ job.pgen = SealedPgen(disk)
        /\ pc \notin OpeningSteps => disk.manifest \in DOMAIN disk.hots

\* The frames an operation on s may have in flight.
CreateJob(s) ==
    \E b \in Bindings \cup {None} :
        CreateFresh(s, b) /\ job = CreateFrame(s.nextHistory, b)

SpliceJob(s) ==
    \E op \in SpliceOps, r \in Requests \cup {None} :
        /\ PreviewFresh(s, op, r)
        /\ job = CommitFrame(s.nextVersion, op, r,
                    Placement(pgen, Len(s.arena) + 1, op.insert, Spelled(s, op)))

OtherJob(s) ==
    \/ \E op \in ForkOps, r \in Requests \cup {None} :
          PreviewFresh(s, op, r) /\ job = CommitFrame(s.nextVersion, op, r, None)
    \/ \E v \in VersionIds : ExpireFresh(s, v) /\ job = ExpireFrame(s, v)
    \/ \E r \in Requests : r \in DOMAIN s.active /\ job = RetireFrame(s, r)

\* The memory of the writer is the recovered store, but for the operation in
\* flight: a create has taken its counter, a durable frame or manifest is not
\* adopted yet.
MemoryFollows ==
    Working =>
        IF pc = "frame" /\ CreateJob(auth) THEN mem = [auth EXCEPT !.nextHistory = @ + 1]
        ELSE IF pc = "syncFrame" THEN auth = Adopt(mem, job)
        ELSE IF pc = "syncManifest" THEN auth = job.store
        ELSE mem = auth

\* The frame to be written was made for the store it will be appended to, and
\* the delta of a splice is where the frame says.
DeltaWritten ==
    /\ pc \in {"nodes", "syncContent", "frame"} =>
          /\ Len(Content0.payload.data) = Frontier + 1
          /\ Content0.payload.data[Frontier + 1] = job.place.payload
    /\ pc = "nodes" => Len(Content0.nodes.data) = Frontier
    /\ pc \in {"syncContent", "frame"} =>
          /\ Len(Content0.nodes.data) = Frontier + 1
          /\ Content0.nodes.data[Frontier + 1] = job.place.tree

JobFits ==
    /\ pc \in ContentSteps => SpliceJob(auth) /\ DeltaWritten
    /\ pc = "frame" => \/ CreateJob(auth)
                       \/ OtherJob(auth)
                       \/ SpliceJob(auth) /\ DeltaWritten

\* The names of the next generation that are there already.
Published ==
    /\ pc \in {"nextHot", "manifest"} =>
          /\ NextGen \in DOMAIN disk.snaps
          /\ disk.snaps[NextGen] = SnapshotOf(job.store, job.pgen)
    /\ pc = "manifest" => NextGen \in DOMAIN disk.hots /\ disk.hots[NextGen] = EmptyHot

\* The generation to be published is whole and its files hold it.
PublicationFits ==
    /\ pc \in PreparingSteps =>
          /\ \/ job.type = "seal" /\ job.store = auth /\ job.pgen = pgen
             \/ /\ job.type = "gc" /\ GcReady(auth)
                /\ job.store = ApplyGc(auth) /\ job.pgen = pgen + 1
          /\ Whole(job.store) /\ BindingsUnique(job.store)
          /\ NextGen <= MaxGen
          /\ Holds(job.store, disk.content[job.pgen])
    /\ Published
    /\ pc = "syncManifest" =>
          /\ Whole(job.store)
          /\ Holds(job.store, disk.content[job.pgen])

\* The content files hold what the writer has in memory.  While they are being
\* created there is nothing to hold.
BytesHeld ==
    /\ pc \notin CreatingSteps \cup {"closed"} =>
          pgen \in Gens /\ Whole(mem) /\ Holds(mem, Content0)
    /\ pc \in CreatingSteps => /\ disk.manifest = 0 /\ Len(auth.arena) = 0
                               /\ crashes.outages = 0 => disk.hots = EmptyMap
    /\ pc = "nodesHeader" => Content0.payload.state = "ready"

PayloadWhole(c, n) == \A i \in 1..n : c.payload.data[i] # None

\* What a power loss may take away: the recovered store is there and sound,
\* its payloads are whole, the hot log is created after the content files, and
\* every acknowledged effect is recovered.
Recoverable ==
    /\ auth # None /\ Sound(auth)
    /\ PayloadWhole(Current(disk), Len(auth.arena))
    /\ disk.hots # EmptyMap => FilesReady(Current(disk))
    /\ Keeps(Promise(auth), acked)

\* Nothing torn is below a frontier either.
BeforeOutage ==
    crashes.outages = 0 =>
        /\ Recoverable
        /\ pc \notin CreatingSteps \cup {"closed"} => PayloadWhole(Content0, Frontier)
        /\ pc \in PreparingSteps \cup {"syncManifest"} =>
              PayloadWhole(disk.content[job.pgen], Len(job.store.arena))

AuthorityInvariant ==
    /\ DirectoryTrue
    /\ Placed
    /\ GenerationKnown
    /\ MemoryFollows
    /\ JobFits
    /\ PublicationFits
    /\ BytesHeld
    /\ BeforeOutage

-----------------------------------------------------------------------------
(* What the invariant gives at once *)

\* A recovered store and the files under it.
LEMMA StoreFacts ==
    ASSUME NEW d, IsDirectory(d), SealsInOrder(d), NEW a, a = Authoritative(d), a # None
    PROVE  /\ Whole(a) /\ BindingsUnique(a) /\ Len(a.arena) \in Nat
           /\ d.manifest = 0 \/ d.manifest \in DOMAIN d.snaps
           /\ d.manifest # 0 => d.manifest \in DOMAIN d.hots
           /\ SealedPgen(d) \in Gens /\ SealedPgen(d) <= d.manifest
           /\ AreFiles(Current(d))
           /\ Holds(a, Current(d)) \/ (d.manifest = 0 /\ Len(a.arena) = 0)
           /\ FilesReady(Current(d)) => Holds(a, Current(d))
<1>1. /\ Whole(a) /\ BindingsUnique(a)
      /\ d.manifest = 0 \/ d.manifest \in DOMAIN d.snaps
      /\ SealedPgen(d) \in Gens
      /\ d.manifest # 0 => d.manifest \in DOMAIN d.hots
      /\ Holds(a, Current(d)) \/ (d.manifest = 0 /\ Len(a.arena) = 0)
  BY AuthoritativeFacts
<1>2. Len(a.arena) \in Nat
  BY <1>1, IsSeqFacts DEF Whole
<1>3. AreFiles(Current(d))
  BY <1>1 DEF IsDirectory, Current
<1>4. SealedPgen(d) <= d.manifest
  BY <1>1 DEF SealsInOrder, SealedPgen, IsDirectory
<1>5. FilesReady(Current(d)) => Holds(a, Current(d))
  <2>1. Len(Current(d).payload.data) \in Nat /\ Len(Current(d).nodes.data) \in Nat
    BY <1>3, IsSeqFacts DEF AreFiles, IsFile
  <2>2. QED
    BY <1>1, <2>1 DEF Holds, FilesCover
<1>6. QED
  BY <1>1, <1>2, <1>3, <1>4, <1>5

\* A writer at work.
LEMMA WorkingFacts ==
    ASSUME AuthorityInvariant, pc # "closed", ~poisoned, pc # "syncManifest"
    PROVE  /\ auth # None /\ gen = disk.manifest /\ pgen = SealedPgen(disk)
           /\ Content0 = Current(disk)
           /\ pc \notin OpeningSteps => disk.manifest \in DOMAIN disk.hots
BY DEF AuthorityInvariant, GenerationKnown, Working, Content0, Current

-----------------------------------------------------------------------------
(* What is enough to arrive at a step *)

LEMMA Closing ==
    ASSUME DirectoryTrue', crashes'.outages = 0 => Recoverable',
           pc' = "closed", poisoned' = FALSE
    PROVE  AuthorityInvariant'
BY DEF AuthorityInvariant, Placed, GenerationKnown, MemoryFollows, JobFits, PublicationFits,
       Published, BytesHeld, BeforeOutage, Working, CreatingSteps, ContentSteps, PreparingSteps

\* A step at which memory and recovered store agree on the arena.
LEMMA Arriving ==
    ASSUME DirectoryTrue', crashes'.outages = 0 => Recoverable',
           pc' \in RestingSteps \cup ContentSteps \cup {"frame"} \cup PreparingSteps,
           poisoned' = FALSE, auth' # None,
           MemoryFollows', mem'.arena = auth'.arena, Whole(mem'),
           gen' = disk'.manifest, pgen' = SealedPgen(disk'),
           pc' \notin OpeningSteps => disk'.manifest \in DOMAIN disk'.hots,
           FilesReady(disk'.content[pgen']), JobFits', PublicationFits',
           pc' \in PreparingSteps => (crashes'.outages = 0 =>
               PayloadWhole(disk'.content[job'.pgen], Len(job'.store.arena)))
    PROVE  AuthorityInvariant'
<1>1. Content0' = Current(disk')
  BY DEF Content0, Current
<1>2. pc' \notin CreatingSteps \cup {"closed", "syncManifest", "syncFrame"}
  BY DEF RestingSteps, ContentSteps, PreparingSteps, CreatingSteps
<1>3. pgen' \in Gens /\ Holds(mem', Content0')
  <2>1. /\ SealedPgen(disk') \in Gens
        /\ FilesReady(Current(disk')) => Holds(auth', Current(disk'))
    BY StoreFacts DEF DirectoryTrue
  <2>2. QED
    BY <1>1, <2>1 DEF Current, Holds
<1>4. Placed'
  BY DEF Placed, RestingSteps, ContentSteps, PreparingSteps, OpeningSteps, CommitSteps,
         PublishingSteps
<1>5. GenerationKnown'
  BY <1>2 DEF GenerationKnown
<1>6. BytesHeld'
  BY <1>2, <1>3 DEF BytesHeld, CreatingSteps
<1>7. BeforeOutage'
  BY <1>1, <1>2 DEF BeforeOutage, Recoverable, Frontier
<1>8. QED
  BY <1>4, <1>5, <1>6, <1>7 DEF AuthorityInvariant

LEMMA Resting ==
    ASSUME DirectoryTrue', crashes'.outages = 0 => Recoverable',
           pc' \in RestingSteps, poisoned' = FALSE, auth' # None, mem' = auth',
           gen' = disk'.manifest, pgen' = SealedPgen(disk'),
           pc' \notin OpeningSteps => disk'.manifest \in DOMAIN disk'.hots,
           FilesReady(disk'.content[pgen'])
    PROVE  AuthorityInvariant'
<1>1. Whole(mem')
  BY StoreFacts DEF DirectoryTrue
<1>2. pc' \notin ContentSteps \cup PreparingSteps \cup {"frame", "syncFrame", "syncManifest"}
  BY DEF RestingSteps, ContentSteps, PreparingSteps
<1>3. MemoryFollows' /\ JobFits' /\ PublicationFits'
  BY <1>2 DEF MemoryFollows, JobFits, PublicationFits, Published, PreparingSteps
<1>4. QED
  BY <1>1, <1>2, <1>3, Arriving

\* The content files are being created.
LEMMA Creating ==
    ASSUME DirectoryTrue', crashes'.outages = 0 => Recoverable',
           pc' \in CreatingSteps, poisoned' = FALSE, auth' # None, mem' = auth',
           gen' = disk'.manifest, pgen' = SealedPgen(disk'),
           disk'.manifest = 0, Len(auth'.arena) = 0,
           crashes'.outages = 0 => disk'.hots = EmptyMap,
           pc' = "nodesHeader" => disk'.content[pgen'].payload.state = "ready"
    PROVE  AuthorityInvariant'
<1>1. Placed' /\ GenerationKnown' /\ MemoryFollows'
  BY DEF Placed, GenerationKnown, MemoryFollows, Working, CreatingSteps, OpeningSteps
<1>2. JobFits' /\ PublicationFits'
  BY DEF JobFits, PublicationFits, Published, CreatingSteps, ContentSteps, PreparingSteps
<1>3. BytesHeld'
  BY DEF BytesHeld, CreatingSteps, Content0
<1>4. BeforeOutage'
  BY DEF BeforeOutage, CreatingSteps, PreparingSteps
<1>5. QED
  BY <1>1, <1>2, <1>3, <1>4 DEF AuthorityInvariant

-----------------------------------------------------------------------------
(* What a write does to the recovered store *)

LEMMA SyncedContent ==
    ASSUME IsSynced(synced), NEW g, NEW a \in Int, NEW b \in Int
    PROVE  IsSynced([synced EXCEPT !.content[g] = [payload |-> a, nodes |-> b]])
<1> DEFINE new == [payload |-> a, nodes |-> b]
           content == [synced.content EXCEPT ![g] = new]
           y == [synced EXCEPT !.content = content]
<1>1. [synced EXCEPT !.content[g] = new] = y
  BY DEF IsSynced
<1>2. new.payload \in Int /\ new.nodes \in Int
  OBVIOUS
<1> HIDE DEF new
<1>3. /\ DOMAIN content = Gens
      /\ \A h \in Gens : content[h].payload \in Int /\ content[h].nodes \in Int
  BY <1>2 DEF IsSynced
<1> HIDE DEF content
<1>4. IsSynced(y)
  BY <1>3 DEF IsSynced
<1>5. QED
  BY <1>1, <1>4 DEF new

LEMMA SyncedCut ==
    ASSUME IsSynced(synced), NEW g \in Gens, NEW n \in Int
    PROVE  IsSynced([synced EXCEPT !.content[g] = SyncedAtMost(g, n)])
<1>1. MinOf(synced.content[g].payload, n) \in Int /\ MinOf(synced.content[g].nodes, n) \in Int
  BY DEF IsSynced, MinOf
<1>2. QED
  BY <1>1, SyncedContent DEF SyncedAtMost

\* The same files, or files that keep what is committed.
LEMMA ContentStep ==
    ASSUME NoneIsNoFunction, AuthorityInvariant,
           pc # "closed", ~poisoned, pc # "syncManifest",
           NEW c, AreFiles(c), Writes([disk EXCEPT !.content[pgen] = c]),
           IsSynced(synced'), crashes' = crashes, acked' = acked,
           \/ /\ disk.manifest = 0 /\ Len(auth.arena) = 0
              /\ crashes.outages = 0 => disk.hots = EmptyMap
           \/ KeepsContent(Content0, c, Len(auth.arena))
    PROVE  /\ DirectoryTrue' /\ auth' = auth /\ auth # None
           /\ crashes'.outages = 0 => Recoverable'
           /\ disk'.manifest = disk.manifest /\ disk'.hots = disk.hots
           /\ SealedPgen(disk') = SealedPgen(disk)
           /\ pgen = SealedPgen(disk) /\ gen = disk.manifest
           /\ disk'.content[pgen] = c
<1>1. /\ auth # None /\ gen = disk.manifest /\ pgen = SealedPgen(disk)
      /\ Content0 = Current(disk)
  BY WorkingFacts
<1>2. IsDirectory(disk) /\ SealsInOrder(disk) /\ auth = Authoritative(disk)
  BY DEF AuthorityInvariant, DirectoryTrue
<1>3. /\ Whole(auth) /\ Len(auth.arena) \in Nat /\ pgen \in Gens
      /\ disk.manifest = 0 \/ disk.manifest \in DOMAIN disk.snaps
  BY <1>1, <1>2, StoreFacts
<1>4. disk' = [disk EXCEPT !.content[pgen] = c] /\ auth' = Authoritative(disk')
  BY DEF Writes
<1>5. /\ IsDirectory(disk')
      /\ disk'.manifest = disk.manifest /\ disk'.snaps = disk.snaps /\ disk'.hots = disk.hots
      /\ disk'.content[pgen] = c
  BY <1>2, <1>3, <1>4, ContentWritten
<1>6. SealedPgen(disk') = SealedPgen(disk) /\ Current(disk') = c
  BY <1>1, <1>5 DEF SealedPgen, Current
<1>7. SameSeal(disk, disk')
  BY <1>3, <1>5 DEF SameSeal
<1>8. HotFrames(disk', disk.manifest) = HotFrames(disk, disk.manifest)
  BY <1>5 DEF HotFrames
<1>9. \/ disk.manifest = 0 /\ Len(Authoritative(disk).arena) = 0
      \/ KeepsContent(Current(disk), disk'.content[SealedPgen(disk)],
                      Len(Authoritative(disk).arena))
  BY <1>1, <1>2, <1>5
<1>10. auth' = auth
  BY <1>1, <1>2, <1>4, <1>5, <1>7, <1>8, <1>9, AuthoritativeSame
<1>11. DirectoryTrue'
  BY <1>2, <1>4, <1>5 DEF DirectoryTrue, SealsInOrder, AuthorityInvariant
<1>12. ASSUME crashes.outages = 0 PROVE Recoverable'
  <2>1. Recoverable
    BY <1>12 DEF AuthorityInvariant, BeforeOutage
  <2>2. PayloadWhole(c, Len(auth.arena))
    BY <1>1, <1>3, <2>1 DEF Recoverable, PayloadWhole, KeepsContent
  <2>3. disk.hots # EmptyMap => FilesReady(c)
    BY <1>12 DEF KeepsContent
  <2>4. QED
    BY <1>5, <1>6, <1>10, <2>1, <2>2, <2>3 DEF Recoverable, Promise
<1>13. QED
  BY <1>1, <1>5, <1>6, <1>10, <1>11, <1>12

\* The sealed base and the frames stay as they are, and the current files keep
\* what is committed.
LEMMA KeepingStep ==
    ASSUME NoneIsNoFunction, AuthorityInvariant,
           pc # "closed", ~poisoned, pc # "syncManifest",
           IsDirectory(disk'), SealsInOrder(disk'), auth' = Authoritative(disk'),
           SameSeal(disk, disk'), HotFrames(disk', gen) = HotFrames(disk, gen),
           KeepsContent(Content0, disk'.content[pgen], Len(auth.arena)),
           IsSynced(synced'), crashes' = crashes, acked' = acked
    PROVE  /\ DirectoryTrue' /\ auth' = auth /\ auth # None
           /\ crashes'.outages = 0 => Recoverable'
           /\ disk'.manifest = disk.manifest /\ SealedPgen(disk') = SealedPgen(disk)
           /\ pgen = SealedPgen(disk) /\ gen = disk.manifest
<1>1. /\ auth # None /\ gen = disk.manifest /\ pgen = SealedPgen(disk)
      /\ Content0 = Current(disk)
  BY WorkingFacts
<1>2. IsDirectory(disk) /\ SealsInOrder(disk) /\ auth = Authoritative(disk)
  BY DEF AuthorityInvariant, DirectoryTrue
<1>3. Whole(auth) /\ Len(auth.arena) \in Nat
  BY <1>1, <1>2, StoreFacts
<1>4. SealedPgen(disk') = SealedPgen(disk) /\ Current(disk') = disk'.content[pgen]
  BY <1>1 DEF SealedPgen, SameSeal, Current
<1>5. auth' = auth
  <2>1. HotFrames(disk', disk.manifest) = HotFrames(disk, disk.manifest)
    BY <1>1
  <2>2. KeepsContent(Current(disk), disk'.content[SealedPgen(disk)],
                     Len(Authoritative(disk).arena))
    BY <1>1, <1>2
  <2>3. QED
    BY <1>1, <1>2, <2>1, <2>2, AuthoritativeSame
<1>6. DirectoryTrue'
  BY DEF DirectoryTrue, AuthorityInvariant
<1>7. ASSUME crashes.outages = 0 PROVE Recoverable'
  <2>1. Recoverable
    BY <1>7 DEF AuthorityInvariant, BeforeOutage
  <2>2. PayloadWhole(Current(disk'), Len(auth.arena)) /\ FilesReady(Current(disk'))
    BY <1>1, <1>3, <1>4, <2>1 DEF Recoverable, PayloadWhole, KeepsContent
  <2>3. QED
    BY <1>5, <2>1, <2>2 DEF Recoverable, Promise
<1>8. QED
  BY <1>1, <1>4, <1>5, <1>6, <1>7 DEF SameSeal

\* The current files stay as they are.
LEMMA KeepStep ==
    ASSUME NoneIsNoFunction, AuthorityInvariant,
           pc # "closed", ~poisoned, pc # "syncManifest", FilesReady(Content0),
           IsDirectory(disk'), SealsInOrder(disk'), auth' = Authoritative(disk'),
           SameSeal(disk, disk'), HotFrames(disk', gen) = HotFrames(disk, gen),
           disk'.content[pgen] = Content0,
           IsSynced(synced'), crashes' = crashes, acked' = acked
    PROVE  /\ DirectoryTrue' /\ auth' = auth /\ auth # None
           /\ crashes'.outages = 0 => Recoverable'
           /\ disk'.manifest = disk.manifest /\ SealedPgen(disk') = SealedPgen(disk)
           /\ pgen = SealedPgen(disk) /\ gen = disk.manifest
<1>1. auth # None /\ Content0 = Current(disk)
  BY WorkingFacts
<1>2. IsDirectory(disk) /\ SealsInOrder(disk) /\ auth = Authoritative(disk)
  BY DEF AuthorityInvariant, DirectoryTrue
<1>3. Holds(auth, Content0)
  BY <1>1, <1>2, StoreFacts
<1>4. KeepsContent(Content0, disk'.content[pgen], Len(auth.arena))
  BY <1>3 DEF KeepsContent, Holds
<1>5. QED
  BY <1>4, KeepingStep

\* The directory is not touched.
LEMMA SameStep ==
    ASSUME AuthorityInvariant, UNCHANGED directory, IsSynced(synced'),
           crashes' = crashes, acked' = acked
    PROVE  DirectoryTrue' /\ (crashes'.outages = 0 => Recoverable')
<1>1. disk' = disk /\ auth' = auth
  BY DEF directory
<1>2. QED
  BY <1>1 DEF AuthorityInvariant, DirectoryTrue, BeforeOutage, Recoverable, Promise

-----------------------------------------------------------------------------
(* Opening *)

LEMMA OpenKeeps ==
    ASSUME NoneIsNoFunction, AuthorityInvariant, Open
    PROVE  AuthorityInvariant' /\ auth' = auth
<1>1. /\ pc = "closed" /\ Recovered(disk) # None /\ mem' = Recovered(disk)
      /\ gen' = disk.manifest /\ pgen' = SealedPgen(disk)
      /\ pc' = IF FilesPresent(disk.content[pgen']) THEN "heal" ELSE "createPayload"
      /\ poisoned' = FALSE /\ disk' = disk /\ auth' = auth
      /\ UNCHANGED <<synced, acked, crashes>>
  BY DEF Open, directory
<1>2. IsDirectory(disk) /\ SealsInOrder(disk) /\ auth = Authoritative(disk)
        /\ IsSynced(synced)
  BY DEF AuthorityInvariant, DirectoryTrue
<1>3. auth # None /\ mem' = auth
  BY <1>1, <1>2 DEF Recovered
<1>4. DirectoryTrue' /\ (crashes'.outages = 0 => Recoverable')
  BY <1>1, <1>2, SameStep DEF directory
<1>5. /\ Holds(auth, Current(disk)) \/ (disk.manifest = 0 /\ Len(auth.arena) = 0)
      /\ Current(disk) = disk.content[pgen']
  BY <1>1, <1>2, <1>3, StoreFacts DEF Current
<1>6. CASE FilesPresent(Current(disk))
  <2>1. FilesReady(Current(disk))
    <3>1. CASE disk.manifest = 0
      BY <1>1, <1>5, <1>6, <3>1 DEF Recovered, GenesisHalfBuilt, SealedPgen
    <3>2. CASE disk.manifest # 0
      BY <1>5, <3>2 DEF Holds
    <3>3. QED
      BY <3>1, <3>2
  <2>2. QED
    BY <1>1, <1>3, <1>4, <1>5, <1>6, <2>1, Resting DEF RestingSteps, OpeningSteps
<1>7. CASE ~FilesPresent(Current(disk))
  <2>1. ~FilesReady(Current(disk))
    BY <1>7 DEF FilesReady, FilesPresent
  <2>2. disk.manifest = 0 /\ Len(auth.arena) = 0
    BY <1>5, <2>1 DEF Holds
  <2>3. crashes.outages = 0 => disk.hots = EmptyMap
    BY <2>1 DEF AuthorityInvariant, BeforeOutage, Recoverable
  <2>4. QED
    BY <1>1, <1>3, <1>4, <1>5, <1>7, <2>2, <2>3, Creating DEF CreatingSteps
<1>8. QED
  BY <1>1, <1>6, <1>7

LEMMA HealOnOpenKeeps ==
    ASSUME NoneIsNoFunction, AuthorityInvariant, HealOnOpen
    PROVE  AuthorityInvariant' /\ auth' = auth
<1> DEFINE c == TruncatedContent(Content0, Frontier)
<1>1. /\ pc = "heal" /\ Writes([disk EXCEPT !.content[pgen] = c])
      /\ synced' = [synced EXCEPT !.content[pgen] = SyncedAtMost(pgen, Frontier)]
      /\ pc' = "openHot" /\ UNCHANGED <<mem, gen, pgen, poisoned, job, acked, crashes>>
  BY DEF HealOnOpen, Step, Observed, Content0
<1>2. ~poisoned /\ poisoned' = FALSE /\ mem = auth
  BY <1>1 DEF AuthorityInvariant, Placed, MemoryFollows, Working
<1>3. pgen \in Gens /\ Holds(mem, Content0) /\ Whole(mem)
  BY <1>1 DEF AuthorityInvariant, BytesHeld, CreatingSteps
<1>4. Frontier \in Nat /\ Frontier = Len(auth.arena)
  BY <1>2, <1>3, IsSeqFacts DEF Frontier, Whole
<1>5. AreFiles(Content0)
  BY <1>3 DEF AuthorityInvariant, DirectoryTrue, IsDirectory, Content0
<1>6. AreFiles(c) /\ KeepsContent(Content0, c, Frontier)
  BY <1>3, <1>4, <1>5, TruncatedContentFacts DEF Holds, Frontier
<1>7. IsSynced(synced')
  BY <1>1, <1>3, <1>4, SyncedCut DEF AuthorityInvariant, DirectoryTrue
<1> HIDE DEF c
<1>8. /\ DirectoryTrue' /\ auth' = auth /\ auth # None
      /\ crashes'.outages = 0 => Recoverable'
      /\ disk'.manifest = disk.manifest /\ SealedPgen(disk') = SealedPgen(disk)
      /\ pgen = SealedPgen(disk) /\ gen = disk.manifest
      /\ disk'.content[pgen] = c
  BY <1>1, <1>2, <1>4, <1>6, <1>7, ContentStep
<1>9. FilesReady(c)
  BY <1>6 DEF KeepsContent
<1>10. QED
  BY <1>1, <1>2, <1>8, <1>9, Resting DEF RestingSteps, OpeningSteps

\* While the files are being created there is nothing to lose.
LEMMA CreatingFacts ==
    ASSUME AuthorityInvariant, pc \in CreatingSteps
    PROVE  /\ poisoned = FALSE /\ mem = auth /\ pc # "closed" /\ pc # "syncManifest"
           /\ gen = disk.manifest /\ pgen = SealedPgen(disk) /\ pgen \in Gens
           /\ disk.manifest = 0 /\ Len(auth.arena) = 0
           /\ crashes.outages = 0 => disk.hots = EmptyMap
           /\ AreFiles(Content0) /\ IsSynced(synced)
<1>1. /\ poisoned = FALSE /\ mem = auth /\ pc # "closed" /\ pc # "syncManifest"
  BY DEF AuthorityInvariant, Placed, MemoryFollows, Working, CreatingSteps
<1>2. gen = disk.manifest /\ pgen = SealedPgen(disk) /\ auth # None
  BY <1>1, WorkingFacts
<1>3. IsDirectory(disk) /\ SealsInOrder(disk) /\ auth = Authoritative(disk)
        /\ IsSynced(synced)
  BY DEF AuthorityInvariant, DirectoryTrue
<1>4. pgen \in Gens /\ AreFiles(Content0)
  BY <1>2, <1>3, StoreFacts DEF Content0, Current
<1>5. QED
  BY <1>1, <1>2, <1>3, <1>4 DEF AuthorityInvariant, BytesHeld

\* Writing one of the two files.
LEMMA OneFile ==
    ASSUME NEW file \in {"payload", "nodes"}, NEW x, IsFile(x), AreFiles(Content0)
    PROVE  LET c == [Content0 EXCEPT ![file] = x]
           IN  /\ [disk EXCEPT !.content[pgen][file] = x] = [disk EXCEPT !.content[pgen] = c]
               /\ AreFiles(c) /\ c[file] = x
               /\ \A other \in {"payload", "nodes"} : other # file => c[other] = Content0[other]
<1> DEFINE c == [Content0 EXCEPT ![file] = x]
<1>1. [disk EXCEPT !.content[pgen][file] = x] = [disk EXCEPT !.content[pgen] = c]
  BY Zenon DEF Content0
<1>2. /\ DOMAIN c = {"payload", "nodes"} /\ c[file] = x
      /\ \A other \in {"payload", "nodes"} : other # file => c[other] = Content0[other]
  BY DEF AreFiles
<1> HIDE DEF c
<1>3. AreFiles(c)
  BY <1>2 DEF AreFiles
<1>4. QED
  BY <1>1, <1>2, <1>3 DEF c

LEMMA CreateContentFileKeeps ==
    ASSUME NoneIsNoFunction, AuthorityInvariant, NEW at \in {"createPayload", "createNodes"},
           NEW file \in {"payload", "nodes"}, NEW next \in {"createNodes", "payloadHeader"},
           CreateContentFile(at, file, next)
    PROVE  AuthorityInvariant' /\ auth' = auth
<1>1. pc = at /\ UNCHANGED <<acked, crashes, synced>>
  BY DEF CreateContentFile, Observed
<1>2. /\ poisoned = FALSE /\ mem = auth /\ pc # "closed" /\ pc # "syncManifest"
      /\ gen = disk.manifest /\ pgen = SealedPgen(disk) /\ pgen \in Gens
      /\ disk.manifest = 0 /\ Len(auth.arena) = 0
      /\ crashes.outages = 0 => disk.hots = EmptyMap
      /\ AreFiles(Content0) /\ IsSynced(synced)
  BY <1>1, CreatingFacts DEF CreatingSteps
<1>3. CASE disk.content[pgen][file].state = "absent"
  <2> DEFINE c == [Content0 EXCEPT ![file] = BareFile]
  <2>1. IsFile(BareFile)
    BY EmptyIsSeq DEF BareFile, IsFile
  <2>2. [disk EXCEPT !.content[pgen][file] = BareFile] = [disk EXCEPT !.content[pgen] = c]
          /\ AreFiles(c)
    BY <1>2, <2>1, OneFile
  <2>3. Writes([disk EXCEPT !.content[pgen] = c])
          /\ pc' = next /\ UNCHANGED <<mem, gen, pgen, poisoned, job>>
    BY <1>3, <2>2 DEF CreateContentFile, Step
  <2> HIDE DEF c
  <2>4. /\ DirectoryTrue' /\ auth' = auth /\ auth # None
        /\ crashes'.outages = 0 => Recoverable'
        /\ disk'.manifest = disk.manifest /\ disk'.hots = disk.hots
        /\ SealedPgen(disk') = SealedPgen(disk)
    BY <1>1, <1>2, <2>2, <2>3, ContentStep
  <2>5. QED
    BY <1>1, <1>2, <2>3, <2>4, Creating DEF CreatingSteps
<1>4. CASE disk.content[pgen][file].state # "absent"
  <2>1. UNCHANGED directory /\ pc' = "closed" /\ poisoned' = FALSE
    BY <1>4 DEF CreateContentFile, Stop
  <2>2. DirectoryTrue' /\ (crashes'.outages = 0 => Recoverable')
    BY <1>1, <1>2, <2>1, SameStep
  <2>3. auth' = auth
    BY <2>1 DEF directory
  <2>4. QED
    BY <2>1, <2>2, <2>3, Closing
<1>5. QED
  BY <1>3, <1>4

LEMMA WriteHeaderKeeps ==
    ASSUME NoneIsNoFunction, AuthorityInvariant, PayloadHeader \/ NodesHeader
    PROVE  AuthorityInvariant' /\ auth' = auth
<1> DEFINE c(file) == [Content0 EXCEPT ![file] = ReadyFile(<<>>)]
<1>1. pc \in {"payloadHeader", "nodesHeader"} /\ UNCHANGED <<acked, crashes, synced>>
        /\ UNCHANGED <<mem, gen, pgen, poisoned, job>>
  BY DEF PayloadHeader, NodesHeader, WriteHeader, Observed, Step
<1>2. /\ poisoned = FALSE /\ mem = auth /\ pc # "closed" /\ pc # "syncManifest"
      /\ gen = disk.manifest /\ pgen = SealedPgen(disk) /\ pgen \in Gens
      /\ disk.manifest = 0 /\ Len(auth.arena) = 0
      /\ crashes.outages = 0 => disk.hots = EmptyMap
      /\ AreFiles(Content0) /\ IsSynced(synced)
  BY <1>1, CreatingFacts DEF CreatingSteps
<1>3. IsFile(ReadyFile(<<>>)) /\ ReadyFile(<<>>).state = "ready"
  BY EmptyIsSeq DEF ReadyFile, IsFile
<1>4. ASSUME NEW file \in {"payload", "nodes"},
             Writes([disk EXCEPT !.content[pgen][file] = ReadyFile(<<>>)])
      PROVE  /\ DirectoryTrue' /\ auth' = auth /\ auth # None
             /\ crashes'.outages = 0 => Recoverable'
             /\ disk'.manifest = disk.manifest /\ disk'.hots = disk.hots
             /\ SealedPgen(disk') = SealedPgen(disk)
             /\ disk'.content[pgen][file].state = "ready"
             /\ \A other \in {"payload", "nodes"} :
                    other # file => disk'.content[pgen][other] = Content0[other]
  <2>1. /\ Writes([disk EXCEPT !.content[pgen] = c(file)])
        /\ AreFiles(c(file)) /\ c(file)[file] = ReadyFile(<<>>)
        /\ \A other \in {"payload", "nodes"} : other # file => c(file)[other] = Content0[other]
    BY <1>2, <1>3, <1>4, OneFile
  <2> HIDE DEF c
  <2>2. /\ DirectoryTrue' /\ auth' = auth /\ auth # None
        /\ crashes'.outages = 0 => Recoverable'
        /\ disk'.manifest = disk.manifest /\ disk'.hots = disk.hots
        /\ SealedPgen(disk') = SealedPgen(disk)
        /\ disk'.content[pgen] = c(file)
    BY <1>1, <1>2, <2>1, ContentStep
  <2>3. QED
    BY <1>3, <2>1, <2>2
<1>5. CASE PayloadHeader
  <2>1. Writes([disk EXCEPT !.content[pgen]["payload"] = ReadyFile(<<>>)])
          /\ pc' = "nodesHeader"
    BY <1>5 DEF PayloadHeader, WriteHeader, Step
  <2>2. QED
    BY <1>1, <1>2, <1>4, <2>1, Creating DEF CreatingSteps
<1>6. CASE NodesHeader
  <2>1. Writes([disk EXCEPT !.content[pgen]["nodes"] = ReadyFile(<<>>)])
          /\ pc = "nodesHeader" /\ pc' = "syncHeaders"
    BY <1>6 DEF NodesHeader, WriteHeader, Step
  <2>2. Content0.payload.state = "ready"
    BY <2>1 DEF AuthorityInvariant, BytesHeld
  <2>3. FilesReady(disk'.content[pgen])
    BY <1>4, <2>1, <2>2 DEF FilesReady
  <2>4. QED
    BY <1>1, <1>2, <1>4, <2>1, <2>3, Resting DEF RestingSteps, OpeningSteps
<1>7. QED
  BY <1>5, <1>6

LEMMA SyncHeadersKeeps ==
    ASSUME NoneIsNoFunction, AuthorityInvariant, SyncHeaders
    PROVE  AuthorityInvariant' /\ auth' = auth
<1>1. /\ pc = "syncHeaders" /\ pc' = "openHot"
      /\ synced' = [synced EXCEPT !.content[pgen] = [payload |-> 0, nodes |-> 0]]
      /\ UNCHANGED <<mem, gen, pgen, poisoned, acked, crashes, disk, auth>>
  BY DEF SyncHeaders, Step, Observed, directory
<1>2. poisoned = FALSE /\ mem = auth
  BY <1>1 DEF AuthorityInvariant, Placed, MemoryFollows, Working
<1>3. auth # None /\ gen = disk.manifest /\ pgen = SealedPgen(disk)
  BY <1>1, <1>2, WorkingFacts
<1>4. FilesReady(Content0)
  BY <1>1 DEF AuthorityInvariant, BytesHeld, CreatingSteps, Holds
<1>5. IsSynced(synced')
  BY <1>1, SyncedContent DEF AuthorityInvariant, DirectoryTrue
<1>6. DirectoryTrue' /\ (crashes'.outages = 0 => Recoverable')
  BY <1>1, <1>5, SameStep DEF directory
<1>7. QED
  BY <1>1, <1>2, <1>3, <1>4, <1>6, Resting DEF RestingSteps, OpeningSteps, Content0

LEMMA OpenFailsKeeps ==
    ASSUME NoneIsNoFunction, AuthorityInvariant, OpenFails
    PROVE  AuthorityInvariant' /\ auth' = auth
<1>1. UNCHANGED <<disk, auth, synced, acked, crashes>> /\ pc' = "closed" /\ poisoned' = FALSE
  BY DEF OpenFails, Stop, Observed, directory
<1>2. DirectoryTrue' /\ (crashes'.outages = 0 => Recoverable')
  BY <1>1, SameStep DEF directory, AuthorityInvariant, DirectoryTrue
<1>3. QED
  BY <1>1, <1>2, Closing

LEMMA ProcessCrashKeeps ==
    ASSUME NoneIsNoFunction, AuthorityInvariant, ProcessCrash
    PROVE  AuthorityInvariant' /\ auth' = auth
<1>1. /\ UNCHANGED <<disk, auth, synced, acked>> /\ pc' = "closed" /\ poisoned' = FALSE
      /\ crashes' = [crashes EXCEPT !.kills = @ + 1]
  BY DEF ProcessCrash, Stop, directory
<1>2. DOMAIN crashes' = {"kills", "outages"} /\ crashes'.outages = crashes.outages
  BY <1>1 DEF AuthorityInvariant, DirectoryTrue
<1>3. DirectoryTrue' /\ (crashes'.outages = 0 => Recoverable')
  BY <1>1, <1>2 DEF AuthorityInvariant, DirectoryTrue, BeforeOutage, Recoverable, Promise
<1>4. QED
  BY <1>1, <1>3, Closing

LEMMA HotsWritten ==
    ASSUME NEW d, IsDirectory(d), SealsInOrder(d), NEW hots,
           \A g \in DOMAIN hots : /\ DOMAIN hots[g] = {"frames", "torn"}
                                  /\ Frames(hots[g].frames)
    PROVE  LET e == [d EXCEPT !.hots = hots]
           IN  /\ IsDirectory(e) /\ SealsInOrder(e) /\ e.manifest = d.manifest
               /\ e.snaps = d.snaps /\ e.hots = hots /\ e.content = d.content
<1> DEFINE e == [d EXCEPT !.hots = hots]
<1>1. /\ DOMAIN e = {"manifest", "snaps", "hots", "content"} /\ e.content = d.content
      /\ e.manifest = d.manifest /\ e.snaps = d.snaps /\ e.hots = hots
  BY DEF IsDirectory
<1> HIDE DEF e
<1>2. IsDirectory(e) /\ SealsInOrder(e)
  BY <1>1 DEF IsDirectory, SealsInOrder
<1>3. QED
  BY <1>1, <1>2 DEF e

LEMMA EmptyHotIs == DOMAIN EmptyHot = {"frames", "torn"} /\ Frames(EmptyHot.frames)
                      /\ EmptyHot.frames = <<>>
<1>1. \A i \in 1..0 : FALSE
  OBVIOUS
<1>2. QED
  BY <1>1, EmptyIsSeq DEF EmptyHot, Frames

\* A hot log is put under a name.
LEMMA HotPut ==
    ASSUME IsDirectory(disk), SealsInOrder(disk), NEW g,
           NEW e, e = [disk EXCEPT !.hots = Put(@, g, EmptyHot)]
    PROVE  /\ IsDirectory(e) /\ SealsInOrder(e) /\ e.manifest = disk.manifest
           /\ e.snaps = disk.snaps /\ e.content = disk.content
           /\ DOMAIN e.hots = DOMAIN disk.hots \cup {g} /\ e.hots[g] = EmptyHot
           /\ \A h \in DOMAIN disk.hots : h # g => e.hots[h] = disk.hots[h]
<1> DEFINE hots == Put(disk.hots, g, EmptyHot)
<1>1. e = [disk EXCEPT !.hots = hots]
  BY DEF IsDirectory
<1>2. /\ DOMAIN hots = DOMAIN disk.hots \cup {g} /\ hots[g] = EmptyHot
      /\ \A h \in DOMAIN disk.hots : h # g => hots[h] = disk.hots[h]
  BY DEF Put
<1> HIDE DEF hots
<1>3. \A h \in DOMAIN hots : DOMAIN hots[h] = {"frames", "torn"} /\ Frames(hots[h].frames)
  BY <1>2, EmptyHotIs DEF IsDirectory
<1> DEFINE w == [disk EXCEPT !.hots = hots]
<1>4. /\ IsDirectory(w) /\ SealsInOrder(w) /\ w.manifest = disk.manifest
      /\ w.snaps = disk.snaps /\ w.hots = hots /\ w.content = disk.content
  BY <1>3, HotsWritten
<1>5. e = w
  BY <1>1
<1> HIDE DEF w
<1>6. QED
  BY <1>2, <1>4, <1>5

\* The part of synced that names files.
LEMMA SyncedNames ==
    ASSUME IsSynced(synced), IsDirectory(disk), NEW S, NEW g
    PROVE  /\ IsSynced([synced EXCEPT !.hots = Put(@, g, 0)])
           /\ IsSynced(DirectorySynced)
           /\ IsSynced([DirectorySynced EXCEPT !.snaps = S])
           /\ IsSynced([DirectorySynced EXCEPT !.hots = Put(@, g, 0)])
<1> DEFINE hots == Put(synced.hots, g, 0)
<1>1. \A h \in DOMAIN hots : hots[h] \in Nat
  BY DEF IsSynced, Put
<1>2. DirectorySynced.hots = synced.hots
  BY DEF DirectorySynced, IsSynced
<1> HIDE DEF hots
<1>3. IsSynced([synced EXCEPT !.hots = hots])
  BY <1>1 DEF IsSynced
<1>4. IsSynced(DirectorySynced)
  BY DEF IsSynced, DirectorySynced, IsDirectory
<1>5. \A y : IsSynced(y) => IsSynced([y EXCEPT !.snaps = S]) /\ IsSynced([y EXCEPT !.hots = hots])
  BY <1>1 DEF IsSynced
<1>6. QED
  BY <1>2, <1>3, <1>4, <1>5 DEF hots

LEMMA OpenHotKeeps ==
    ASSUME NoneIsNoFunction, AuthorityInvariant, OpenHot
    PROVE  AuthorityInvariant' /\ auth' = auth
<1>1. /\ pc = "openHot" /\ pc' = "idle" /\ UNCHANGED <<mem, gen, pgen, poisoned, acked, crashes>>
      /\ synced' = IF gen \in DOMAIN synced.hots THEN synced
                   ELSE [synced EXCEPT !.hots = Put(@, gen, 0)]
  BY DEF OpenHot, Step, Observed
<1>2. poisoned = FALSE /\ mem = auth
  BY <1>1 DEF AuthorityInvariant, Placed, MemoryFollows, Working
<1>3. auth # None /\ gen = disk.manifest /\ pgen = SealedPgen(disk)
  BY <1>1, <1>2, WorkingFacts
<1>4. FilesReady(Content0)
  BY <1>1 DEF AuthorityInvariant, BytesHeld, CreatingSteps, Holds
<1>5. IsDirectory(disk) /\ SealsInOrder(disk) /\ auth = Authoritative(disk) /\ IsSynced(synced)
  BY DEF AuthorityInvariant, DirectoryTrue
<1>6. IsSynced(synced')
  BY <1>1, <1>5, SyncedNames
<1>7. CASE gen \in DOMAIN disk.hots
  <2>1. UNCHANGED directory /\ disk' = disk /\ auth' = auth
    BY <1>7 DEF OpenHot, directory
  <2>2. DirectoryTrue' /\ (crashes'.outages = 0 => Recoverable')
    BY <1>1, <1>6, <2>1, SameStep
  <2>3. QED
    BY <1>1, <1>2, <1>3, <1>4, <1>7, <2>1, <2>2, Resting DEF RestingSteps, Content0
<1>8. CASE gen \notin DOMAIN disk.hots
  <2>1. disk' = [disk EXCEPT !.hots = Put(@, gen, EmptyHot)] /\ auth' = Authoritative(disk')
    BY <1>8 DEF OpenHot, Writes
  <2>2. /\ IsDirectory(disk') /\ SealsInOrder(disk') /\ disk'.manifest = disk.manifest
        /\ disk'.snaps = disk.snaps /\ disk'.content = disk.content
        /\ gen \in DOMAIN disk'.hots /\ disk'.hots[gen] = EmptyHot
    BY <1>5, <2>1, HotPut
  <2>3. gen = 0
    BY <1>3, <1>5, <1>8, StoreFacts
  <2>4. HotFrames(disk', gen) = HotFrames(disk, gen)
    BY <1>8, <2>2, <2>3, EmptyHotIs DEF HotFrames
  <2>5. SameSeal(disk, disk')
    BY <1>3, <2>2, <2>3 DEF SameSeal
  <2>6. /\ DirectoryTrue' /\ auth' = auth
        /\ crashes'.outages = 0 => Recoverable'
        /\ SealedPgen(disk') = SealedPgen(disk)
    BY <1>1, <1>2, <1>4, <1>6, <2>1, <2>2, <2>4, <2>5, KeepStep DEF Content0
  <2>7. QED
    BY <1>1, <1>2, <1>3, <1>4, <2>2, <2>6, Resting DEF RestingSteps, Content0
<1>9. QED
  BY <1>7, <1>8

-----------------------------------------------------------------------------
(* Beginning an operation *)

\* A writer between two calls.
LEMMA ReadyFacts ==
    ASSUME AuthorityInvariant, Ready
    PROVE  /\ pc = "idle" /\ poisoned = FALSE /\ mem = auth /\ auth # None
           /\ gen = disk.manifest /\ pgen = SealedPgen(disk) /\ pgen \in Gens
           /\ disk.manifest \in DOMAIN disk.hots /\ FilesReady(Content0)
           /\ Whole(auth) /\ Holds(auth, Content0) /\ IsSynced(synced)
<1>1. pc = "idle" /\ poisoned = FALSE /\ mem = auth
  BY DEF Ready, AuthorityInvariant, Placed, MemoryFollows, Working
<1>2. auth # None /\ gen = disk.manifest /\ pgen = SealedPgen(disk)
        /\ disk.manifest \in DOMAIN disk.hots
  BY <1>1, WorkingFacts DEF OpeningSteps, CreatingSteps
<1>3. pgen \in Gens /\ Whole(mem) /\ Holds(mem, Content0)
  BY <1>1 DEF AuthorityInvariant, BytesHeld, CreatingSteps
<1>4. QED
  BY <1>1, <1>2, <1>3 DEF Holds, AuthorityInvariant, DirectoryTrue

\* A call that writes nothing takes the writer to its first step.
LEMMA Beginning ==
    ASSUME AuthorityInvariant, Ready, NEW frame, NEW next, NEW s, Begin(frame, next, s),
           next \in {"frame", "payload", "snapshot"}, s.arena = auth.arena, Whole(s),
           MemoryFollows', JobFits', PublicationFits',
           next = "snapshot" => frame.store = auth /\ frame.pgen = pgen
    PROVE  AuthorityInvariant' /\ auth' = auth
<1>1. /\ job' = frame /\ pc' = next /\ mem' = s /\ disk' = disk /\ auth' = auth
      /\ UNCHANGED <<synced, gen, pgen, poisoned, acked, crashes>>
  BY DEF Begin, Observed, directory
<1>2. /\ poisoned = FALSE /\ auth # None
      /\ gen = disk.manifest /\ pgen = SealedPgen(disk)
      /\ disk.manifest \in DOMAIN disk.hots /\ FilesReady(Content0) /\ IsSynced(synced)
  BY ReadyFacts
<1>3. DirectoryTrue' /\ (crashes'.outages = 0 => Recoverable')
  BY <1>1, <1>2, SameStep DEF directory
<1>4. ASSUME pc' \in PreparingSteps, crashes'.outages = 0
      PROVE  PayloadWhole(disk'.content[job'.pgen], Len(job'.store.arena))
  <2>1. next = "snapshot"
    BY <1>1, <1>4 DEF PreparingSteps
  <2>2. PayloadWhole(Current(disk), Len(auth.arena))
    BY <1>1, <1>4 DEF AuthorityInvariant, BeforeOutage, Recoverable
  <2>3. QED
    BY <1>1, <1>2, <2>1, <2>2 DEF Current
<1>5. QED
  BY <1>1, <1>2, <1>3, <1>4, Arriving DEF ContentSteps, PreparingSteps, Content0

LEMMA BeginCreateKeeps ==
    ASSUME NoneIsNoFunction, AuthorityInvariant,
           NEW b \in Bindings \cup {None}, BeginCreate(b)
    PROVE  AuthorityInvariant' /\ auth' = auth
<1> DEFINE f == CreateFrame(mem.nextHistory, b)
           s == [mem EXCEPT !.nextHistory = @ + 1]
<1>1. Ready /\ CreateFresh(mem, b) /\ Begin(f, "frame", s)
  BY DEF BeginCreate
<1>2. mem = auth /\ Whole(auth)
  BY <1>1, ReadyFacts
<1>3. s.arena = auth.arena /\ Whole(s)
  <2>1. /\ IsStore(s) /\ s.arena = auth.arena
        /\ s.expired = auth.expired /\ s.versions = auth.versions
        /\ s.nextVersion = auth.nextVersion
        /\ s.active = auth.active /\ s.retired = auth.retired
    BY <1>2, Fields DEF Whole, IsStore
  <2> HIDE DEF s
  <2>2. QED
    BY <1>2, <2>1 DEF Whole, LedgersDisjoint
<1>4. pc' = "frame" /\ job' = f /\ mem' = s /\ auth' = auth
  BY <1>1 DEF Begin, directory
<1>5. CreateJob(auth)'
  BY <1>1, <1>2, <1>4 DEF CreateJob
<1>6. MemoryFollows' /\ JobFits' /\ PublicationFits'
  BY <1>2, <1>4, <1>5
  DEF MemoryFollows, JobFits, PublicationFits, Published, ContentSteps, PreparingSteps
<1>7. QED
  <2> HIDE DEF f, s
  <2>1. QED
    BY <1>1, <1>3, <1>6, Beginning

LEMMA BeginSpliceKeeps ==
    ASSUME NoneIsNoFunction, AuthorityInvariant,
           NEW op \in SpliceOps, NEW r \in Requests \cup {None}, BeginSplice(op, r)
    PROVE  AuthorityInvariant' /\ auth' = auth
<1> DEFINE f == CommitFrame(mem.nextVersion, op, r,
                            Placement(pgen, Frontier + 1, op.insert, Spelled(mem, op)))
<1>1. Ready /\ PreviewFresh(mem, op, r) /\ Begin(f, "payload", mem)
  BY DEF BeginSplice
<1>2. mem = auth /\ Whole(auth)
  BY <1>1, ReadyFacts
<1>3. pc' = "payload" /\ job' = f /\ mem' = mem /\ auth' = auth /\ pgen' = pgen
  BY <1>1 DEF Begin, directory
<1>4. SpliceJob(auth)'
  BY <1>1, <1>2, <1>3 DEF SpliceJob, Frontier
<1>5. MemoryFollows' /\ PublicationFits' /\ DeltaWritten'
  BY <1>2, <1>3 DEF MemoryFollows, PublicationFits, Published, PreparingSteps, DeltaWritten
<1>6. JobFits'
  BY <1>3, <1>4, <1>5 DEF JobFits
<1>7. QED
  <2> HIDE DEF f
  <2>1. QED
    BY <1>1, <1>2, <1>5, <1>6, Beginning

\* The three calls whose frame is all there is to write.
LEMMA BeginOther ==
    ASSUME NoneIsNoFunction, AuthorityInvariant, Ready, NEW f, Begin(f, "frame", mem),
           OtherJob(auth)', f.type # "create"
    PROVE  AuthorityInvariant' /\ auth' = auth
<1>1. mem = auth /\ Whole(auth)
  BY ReadyFacts
<1>2. pc' = "frame" /\ job' = f /\ mem' = mem /\ auth' = auth
  BY DEF Begin, directory
<1>3. ~CreateJob(auth)'
  BY <1>2 DEF CreateJob, CreateFrame
<1>4. MemoryFollows' /\ JobFits' /\ PublicationFits'
  BY <1>1, <1>2, <1>3
  DEF MemoryFollows, JobFits, PublicationFits, Published, ContentSteps, PreparingSteps
<1>5. QED
  BY <1>1, <1>4, Beginning

LEMMA BeginForkKeeps ==
    ASSUME NoneIsNoFunction, AuthorityInvariant,
           NEW op \in ForkOps, NEW r \in Requests \cup {None}, BeginFork(op, r)
    PROVE  AuthorityInvariant' /\ auth' = auth
<1> DEFINE f == CommitFrame(mem.nextVersion, op, r, None)
<1>1. Ready /\ PreviewFresh(mem, op, r) /\ Begin(f, "frame", mem)
  BY DEF BeginFork
<1>2. mem = auth
  BY <1>1, ReadyFacts
<1>3. job' = f /\ auth' = auth
  BY <1>1 DEF Begin, directory
<1>4. OtherJob(auth)' /\ f.type # "create"
  BY <1>1, <1>2, <1>3 DEF OtherJob, CommitFrame
<1>5. QED
  <2> HIDE DEF f
  <2>1. QED
    BY <1>1, <1>4, BeginOther

LEMMA BeginExpireKeeps ==
    ASSUME NoneIsNoFunction, AuthorityInvariant, NEW v \in VersionIds, BeginExpire(v)
    PROVE  AuthorityInvariant' /\ auth' = auth
<1> DEFINE f == ExpireFrame(mem, v)
<1>1. Ready /\ ExpireFresh(mem, v) /\ Begin(f, "frame", mem)
  BY DEF BeginExpire
<1>2. mem = auth
  BY <1>1, ReadyFacts
<1>3. job' = f /\ auth' = auth
  BY <1>1 DEF Begin, directory
<1>4. OtherJob(auth)' /\ f.type # "create"
  BY <1>1, <1>2, <1>3 DEF OtherJob, ExpireFrame
<1>5. QED
  <2> HIDE DEF f
  <2>1. QED
    BY <1>1, <1>4, BeginOther

LEMMA BeginRetireKeeps ==
    ASSUME NoneIsNoFunction, AuthorityInvariant, NEW r \in Requests, BeginRetire(r)
    PROVE  AuthorityInvariant' /\ auth' = auth
<1> DEFINE f == RetireFrame(mem, r)
<1>1. Ready /\ r \in DOMAIN mem.active /\ Begin(f, "frame", mem)
  BY DEF BeginRetire
<1>2. mem = auth
  BY <1>1, ReadyFacts
<1>3. job' = f /\ auth' = auth
  BY <1>1 DEF Begin, directory
<1>4. OtherJob(auth)' /\ f.type # "create"
  BY <1>1, <1>2, <1>3 DEF OtherJob, RetireFrame
<1>5. QED
  <2> HIDE DEF f
  <2>1. QED
    BY <1>1, <1>4, BeginOther

LEMMA AnswerReplayedKeeps ==
    ASSUME NoneIsNoFunction, AuthorityInvariant, NEW op, NEW r, AnswerReplayed(op, r)
    PROVE  AuthorityInvariant' /\ auth' = auth
<1>1. /\ Ready /\ acked' = Promise(mem)
      /\ UNCHANGED <<disk, auth, synced, pc, mem, gen, pgen, poisoned, job, crashes>>
  BY DEF AnswerReplayed, directory, writerVars
<1>2. /\ pc = "idle" /\ poisoned = FALSE /\ mem = auth /\ auth # None
      /\ gen = disk.manifest /\ pgen = SealedPgen(disk)
      /\ disk.manifest \in DOMAIN disk.hots /\ FilesReady(Content0)
  BY <1>1, ReadyFacts
<1>3. DirectoryTrue'
  BY <1>1 DEF AuthorityInvariant, DirectoryTrue
<1>4. Keeps(Promise(auth), Promise(auth))
  BY DEF Keeps
<1>5. crashes'.outages = 0 => Recoverable'
  BY <1>1, <1>2, <1>4 DEF AuthorityInvariant, BeforeOutage, Recoverable
<1>6. QED
  BY <1>1, <1>2, <1>3, <1>5, Resting DEF RestingSteps, Content0

LEMMA BeginSealKeeps ==
    ASSUME NoneIsNoFunction, AuthorityInvariant, BeginSeal
    PROVE  AuthorityInvariant' /\ auth' = auth
<1> DEFINE f == [type |-> "seal", store |-> mem, pgen |-> pgen]
<1>1. Ready /\ NextGen <= MaxGen /\ Begin(f, "snapshot", mem)
  BY DEF BeginSeal
<1>2. mem = auth /\ Whole(auth) /\ Holds(auth, Content0) /\ auth # None
  BY <1>1, ReadyFacts
<1>3. BindingsUnique(auth)
  BY <1>2, StoreFacts DEF AuthorityInvariant, DirectoryTrue
<1>4. pc' = "snapshot" /\ job' = f /\ mem' = mem /\ disk' = disk /\ auth' = auth /\ pgen' = pgen
  BY <1>1 DEF Begin, directory
<1>5. MemoryFollows' /\ JobFits'
  BY <1>2, <1>4 DEF MemoryFollows, JobFits, ContentSteps
<1>6. PublicationFits'
  BY <1>1, <1>2, <1>3, <1>4 DEF PublicationFits, Published, PreparingSteps, Content0, NextGen
<1>7. f.store = auth /\ f.pgen = pgen
  BY <1>2
<1>8. QED
  <2> HIDE DEF f
  <2>1. QED
    BY <1>1, <1>2, <1>5, <1>6, <1>7, Beginning

-----------------------------------------------------------------------------
(* The physical half of a splice *)

LEMMA KeepsTransitive ==
    ASSUME NEW a, NEW b, NEW c, NEW n, KeepsContent(a, b, n), KeepsContent(b, c, n)
    PROVE  KeepsContent(a, c, n)
BY DEF KeepsContent

\* One more delta at the end of a file.
LEMMA Extended ==
    ASSUME NEW c, AreFiles(c), NEW n \in Nat, FilesReady(c), FilesCover(c, n),
           NEW file \in {"payload", "nodes"}, NEW x
    PROVE  LET d == [c EXCEPT ![file] = AppendTo(c[file], x)]
           IN  /\ AreFiles(d) /\ KeepsContent(c, d, n)
               /\ Len(d[file].data) = Len(c[file].data) + 1
               /\ d[file].data[Len(c[file].data) + 1] = x
               /\ \A i \in 1..Len(c[file].data) : d[file].data[i] = c[file].data[i]
               /\ \A other \in {"payload", "nodes"} : other # file => d[other] = c[other]
<1> DEFINE old == c[file]
           new == AppendTo(old, x)
           d == [c EXCEPT ![file] = new]
<1>1. IsFile(old) /\ IsSeq(old.data) /\ Len(old.data) \in Nat /\ old.state = "ready"
  BY IsSeqFacts DEF AreFiles, IsFile, FilesReady
<1> HIDE DEF old
<1>2. new.data = Append(old.data, x) /\ new.state = "ready" /\ DOMAIN new = {"state", "data"}
  BY <1>1 DEF AppendTo, IsFile
<1>3. /\ IsSeq(new.data) /\ Len(new.data) = Len(old.data) + 1
      /\ \A i \in 1..Len(old.data) : new.data[i] = old.data[i]
      /\ new.data[Len(old.data) + 1] = x
  BY <1>1, <1>2, IsSeqAppend
<1>4. IsFile(new)
  BY <1>2, <1>3 DEF IsFile
<1> HIDE DEF new
<1>5. /\ DOMAIN d = {"payload", "nodes"} /\ d[file] = new
      /\ \A other \in {"payload", "nodes"} : other # file => d[other] = c[other]
  BY DEF AreFiles
<1> HIDE DEF d
<1>6. AreFiles(d)
  BY <1>4, <1>5 DEF AreFiles
<1>7. KeepsContent(c, d, n)
  <2>1. Len(c.payload.data) \in Nat /\ Len(c.nodes.data) \in Nat
    BY IsSeqFacts DEF AreFiles, IsFile
  <2>2. /\ \A f \in {"payload", "nodes"} : /\ c[f].state = "ready" /\ Len(c[f].data) >= n
                                           /\ Len(c[f].data) \in Nat
        /\ old = c[file]
    BY <2>1 DEF FilesReady, FilesCover, old
  <2>3. \A f \in {"payload", "nodes"} : /\ d[f].state = "ready" /\ Len(d[f].data) >= n
                                        /\ \A i \in 1..n : d[f].data[i] = c[f].data[i]
    <3>1. Len(old.data) >= n /\ 1..n \subseteq 1..Len(old.data)
      BY <1>1, <2>2
    <3>2. /\ d[file].state = "ready" /\ Len(d[file].data) >= n
          /\ \A i \in 1..n : d[file].data[i] = c[file].data[i]
      BY <1>1, <1>2, <1>3, <1>5, <2>2, <3>1
    <3>3. QED
      BY <1>5, <2>2, <3>2
  <2>4. QED
    BY <2>3 DEF KeepsContent, FilesReady, FilesCover
<1>8. QED
  BY <1>3, <1>5, <1>6, <1>7 DEF old, new, d

\* What the steps of a splice start from.
LEMMA SplicingFacts ==
    ASSUME AuthorityInvariant, pc \in ContentSteps
    PROVE  /\ poisoned = FALSE /\ mem = auth /\ pc # "closed" /\ pc # "syncManifest"
           /\ auth # None /\ gen = disk.manifest /\ pgen = SealedPgen(disk) /\ pgen \in Gens
           /\ disk.manifest \in DOMAIN disk.hots
           /\ Frontier \in Nat /\ Frontier = Len(auth.arena) /\ AreFiles(Content0)
           /\ FilesReady(Content0) /\ FilesCover(Content0, Frontier)
           /\ KeepsContent(Content0, Content0, Frontier)
           /\ SpliceJob(auth) /\ DeltaWritten /\ IsSynced(synced)
<1>1. poisoned = FALSE /\ mem = auth /\ pc # "closed" /\ pc # "syncManifest"
  BY DEF AuthorityInvariant, Placed, MemoryFollows, Working, ContentSteps
<1>2. /\ auth # None /\ gen = disk.manifest /\ pgen = SealedPgen(disk)
      /\ disk.manifest \in DOMAIN disk.hots
  BY <1>1, WorkingFacts DEF ContentSteps, OpeningSteps, CreatingSteps
<1>3. pgen \in Gens /\ Holds(mem, Content0) /\ Whole(mem)
  BY DEF AuthorityInvariant, BytesHeld, ContentSteps, CreatingSteps
<1>4. Frontier \in Nat /\ Frontier = Len(auth.arena)
  BY <1>1, <1>3, IsSeqFacts DEF Frontier, Whole
<1>5. AreFiles(Content0) /\ IsSynced(synced)
  BY <1>3 DEF AuthorityInvariant, DirectoryTrue, IsDirectory, Content0
<1>6. FilesReady(Content0) /\ FilesCover(Content0, Frontier)
  BY <1>3 DEF Holds, Frontier
<1>7. KeepsContent(Content0, Content0, Frontier)
  BY <1>6 DEF KeepsContent
<1>8. QED
  BY <1>1, <1>2, <1>3, <1>4, <1>5, <1>6, <1>7 DEF AuthorityInvariant, JobFits

\* A step of the splice, on to the next one or back to the caller.
LEMMA SplicingStep ==
    ASSUME NoneIsNoFunction, AuthorityInvariant, pc \in ContentSteps,
           NEW c, AreFiles(c), KeepsContent(Content0, c, Frontier),
           Writes([disk EXCEPT !.content[pgen] = c]), IsSynced(synced'),
           UNCHANGED <<mem, gen, pgen, poisoned, acked, crashes>>,
           pc' = "idle" \/ (pc' \in ContentSteps /\ job' = job /\ DeltaWritten')
    PROVE  AuthorityInvariant' /\ auth' = auth
<1>1. /\ poisoned = FALSE /\ mem = auth /\ pc # "closed" /\ pc # "syncManifest"
      /\ auth # None /\ gen = disk.manifest /\ pgen = SealedPgen(disk)
      /\ disk.manifest \in DOMAIN disk.hots
      /\ Frontier = Len(auth.arena) /\ SpliceJob(auth)
  BY SplicingFacts
<1>2. /\ DirectoryTrue' /\ auth' = auth
      /\ crashes'.outages = 0 => Recoverable'
      /\ disk'.manifest = disk.manifest /\ disk'.hots = disk.hots
      /\ SealedPgen(disk') = SealedPgen(disk)
      /\ disk'.content[pgen] = c
  BY <1>1, ContentStep
<1>3. FilesReady(disk'.content[pgen'])
  BY <1>2 DEF KeepsContent
<1>4. CASE pc' = "idle"
  BY <1>1, <1>2, <1>3, <1>4, Resting DEF RestingSteps
<1>5. CASE pc' \in ContentSteps /\ job' = job /\ DeltaWritten'
  <2>1. SpliceJob(auth)'
    BY <1>1, <1>2, <1>5 DEF SpliceJob
  <2>2. MemoryFollows' /\ JobFits' /\ PublicationFits'
    BY <1>1, <1>2, <1>5, <2>1
    DEF MemoryFollows, JobFits, PublicationFits, Published, ContentSteps, PreparingSteps
  <2>3. Whole(mem')
    BY <1>1 DEF AuthorityInvariant, BytesHeld, ContentSteps, CreatingSteps
  <2>4. pc' \notin PreparingSteps
    BY <1>5 DEF ContentSteps, PreparingSteps
  <2>5. QED
    BY <1>1, <1>2, <1>3, <1>5, <2>2, <2>3, <2>4, Arriving
<1>6. QED
  BY <1>4, <1>5

\* The files after a heal.
LEMMA HealedFacts ==
    ASSUME AuthorityInvariant, pc \in ContentSteps
    PROVE  /\ AreFiles(Healed) /\ KeepsContent(Content0, Healed, Frontier)
           /\ Len(Healed.payload.data) = Frontier /\ Len(Healed.nodes.data) = Frontier
           /\ FilesReady(Healed) /\ FilesCover(Healed, Frontier)
<1>1. /\ Frontier \in Nat /\ AreFiles(Content0) /\ FilesReady(Content0)
      /\ FilesCover(Content0, Frontier)
  BY SplicingFacts
<1> DEFINE n == Frontier
           c == Content0
<1>2. n \in Nat /\ AreFiles(c) /\ FilesReady(c) /\ FilesCover(c, n)
  BY <1>1
<1>3. Healed = TruncatedContent(c, n)
  BY DEF Healed
<1> HIDE DEF n, c
<1>4. /\ AreFiles(Healed) /\ KeepsContent(c, Healed, n)
      /\ Len(Healed.payload.data) = n /\ Len(Healed.nodes.data) = n
  BY <1>2, <1>3, TruncatedContentFacts
<1>5. QED
  BY <1>4 DEF KeepsContent, n, c

LEMMA AppendPayloadKeeps ==
    ASSUME NoneIsNoFunction, AuthorityInvariant, AppendPayload
    PROVE  AuthorityInvariant' /\ auth' = auth
<1> DEFINE x == job.place.payload
           c == [Healed EXCEPT !["payload"] = AppendTo(Healed["payload"], x)]
<1>1. /\ pc = "payload" /\ Writes([disk EXCEPT !.content[pgen] = c])
      /\ synced' = [synced EXCEPT !.content[pgen] = SyncedAtMost(pgen, Frontier)]
      /\ pc' = "nodes" /\ UNCHANGED <<mem, gen, pgen, poisoned, job, acked, crashes>>
  BY DEF AppendPayload, Step, Observed
<1>2. pc \in ContentSteps
  BY <1>1 DEF ContentSteps
<1>3. pgen \in Gens /\ Frontier \in Nat /\ IsSynced(synced)
        /\ auth # None /\ pgen = SealedPgen(disk)
  BY <1>2, SplicingFacts
<1>4. /\ AreFiles(Healed) /\ KeepsContent(Content0, Healed, Frontier)
      /\ Len(Healed.payload.data) = Frontier /\ Len(Healed.nodes.data) = Frontier
      /\ FilesReady(Healed) /\ FilesCover(Healed, Frontier)
  BY <1>2, HealedFacts
<1>5. /\ AreFiles(c) /\ KeepsContent(Healed, c, Frontier)
      /\ Len(c["payload"].data) = Len(Healed["payload"].data) + 1
      /\ c["payload"].data[Len(Healed["payload"].data) + 1] = x
      /\ c["nodes"] = Healed["nodes"]
  BY <1>3, <1>4, Extended
<1>6. KeepsContent(Content0, c, Frontier)
  BY <1>4, <1>5, KeepsTransitive
<1>7. IsSynced(synced')
  BY <1>1, <1>3, SyncedCut
<1> HIDE DEF c
<1>8. disk'.content[pgen] = c
  BY <1>1, <1>3, <1>5, ContentWritten DEF Writes, AuthorityInvariant, DirectoryTrue
<1>9. DeltaWritten'
  BY <1>1, <1>4, <1>5, <1>8 DEF DeltaWritten, Content0, Frontier
<1>10. QED
  BY <1>1, <1>2, <1>5, <1>6, <1>7, <1>9, SplicingStep DEF ContentSteps

LEMMA AppendPayloadFailsKeeps ==
    ASSUME NoneIsNoFunction, AuthorityInvariant, AppendPayloadFails
    PROVE  AuthorityInvariant' /\ auth' = auth
<1> DEFINE torn == [Healed EXCEPT !["payload"] = AppendTo(Healed["payload"], None)]
<1>1. /\ pc = "payload"
      /\ \E c \in {Content0, Healed, torn} : Writes([disk EXCEPT !.content[pgen] = c])
      /\ synced' = [synced EXCEPT !.content[pgen] = SyncedAtMost(pgen, Frontier)]
      /\ pc' = "idle" /\ UNCHANGED <<mem, gen, pgen, poisoned, acked, crashes>>
  BY DEF AppendPayloadFails, Return, Observed
<1>2. pc \in ContentSteps
  BY <1>1 DEF ContentSteps
<1>3. /\ pgen \in Gens /\ Frontier \in Nat /\ IsSynced(synced) /\ AreFiles(Content0)
      /\ KeepsContent(Content0, Content0, Frontier)
  BY <1>2, SplicingFacts
<1>4. /\ AreFiles(Healed) /\ KeepsContent(Content0, Healed, Frontier)
      /\ FilesReady(Healed) /\ FilesCover(Healed, Frontier)
  BY <1>2, HealedFacts
<1>5. AreFiles(torn) /\ KeepsContent(Healed, torn, Frontier)
  BY <1>3, <1>4, Extended
<1>6. KeepsContent(Content0, torn, Frontier)
  BY <1>4, <1>5, KeepsTransitive
<1>7. IsSynced(synced')
  BY <1>1, <1>3, SyncedCut
<1> HIDE DEF torn
<1>8. PICK c \in {Content0, Healed, torn} : Writes([disk EXCEPT !.content[pgen] = c])
  BY <1>1
<1>9. AreFiles(c) /\ KeepsContent(Content0, c, Frontier)
  BY <1>3, <1>4, <1>5, <1>6, <1>8
<1>10. QED
  BY <1>1, <1>2, <1>7, <1>8, <1>9, SplicingStep

LEMMA AppendNodesKeeps ==
    ASSUME NoneIsNoFunction, AuthorityInvariant, AppendNodes
    PROVE  AuthorityInvariant' /\ auth' = auth
<1> DEFINE x == job.place.tree
           c == [Content0 EXCEPT !["nodes"] = AppendTo(Content0["nodes"], x)]
<1>1. /\ pc = "nodes" /\ Writes([disk EXCEPT !.content[pgen] = c])
      /\ pc' = "syncContent"
      /\ UNCHANGED <<mem, gen, pgen, poisoned, job, acked, crashes, synced>>
  BY DEF AppendNodes, Step, Observed, Content0
<1>2. pc \in ContentSteps
  BY <1>1 DEF ContentSteps
<1>3. /\ pgen \in Gens /\ Frontier \in Nat /\ IsSynced(synced) /\ AreFiles(Content0)
      /\ FilesReady(Content0) /\ FilesCover(Content0, Frontier) /\ DeltaWritten
  BY <1>2, SplicingFacts
<1>4. /\ Len(Content0.payload.data) = Frontier + 1
      /\ Content0.payload.data[Frontier + 1] = job.place.payload
      /\ Len(Content0.nodes.data) = Frontier
  BY <1>1, <1>3 DEF DeltaWritten
<1>5. /\ AreFiles(c) /\ KeepsContent(Content0, c, Frontier)
      /\ Len(c["nodes"].data) = Len(Content0["nodes"].data) + 1
      /\ c["nodes"].data[Len(Content0["nodes"].data) + 1] = x
      /\ c["payload"] = Content0["payload"]
  <2> DEFINE old == Content0
             n == Frontier
             file == "nodes"
             new == [old EXCEPT ![file] = AppendTo(old[file], x)]
  <2>1. n \in Nat /\ AreFiles(old) /\ FilesReady(old) /\ FilesCover(old, n)
    BY <1>3
  <2> HIDE DEF old, n, x
  <2>2. /\ AreFiles(new) /\ KeepsContent(old, new, n)
        /\ Len(new[file].data) = Len(old[file].data) + 1
        /\ new[file].data[Len(old[file].data) + 1] = x
        /\ new["payload"] = old["payload"]
    BY <2>1, Extended
  <2>3. QED
    BY <2>2 DEF old, n
<1> HIDE DEF c
<1>6. disk'.content[pgen] = c
  BY <1>1, <1>3, <1>5, ContentWritten DEF Writes, AuthorityInvariant, DirectoryTrue
<1>7. DeltaWritten'
  BY <1>1, <1>4, <1>5, <1>6 DEF DeltaWritten, Content0, Frontier
<1>8. QED
  BY <1>1, <1>2, <1>3, <1>5, <1>7, SplicingStep DEF ContentSteps

\* Any outcome of a rollback keeps what is committed.
LEMMA RolledBackFacts ==
    ASSUME NEW c, AreFiles(c), Frontier \in Nat, KeepsContent(Content0, c, Frontier),
           NEW r \in RolledBack(c)
    PROVE  AreFiles(r) /\ KeepsContent(Content0, r, Frontier)
<1> DEFINE n == Frontier
           t == TruncatedContent(c, n)
           half == [c EXCEPT !.payload = t.payload]
<1>1. FilesReady(c) /\ FilesCover(c, n) /\ n \in Nat /\ n = Frontier
  BY DEF KeepsContent
<1>2. r \in {t, half, c}
  BY DEF RolledBack, TruncatedContent
<1> HIDE DEF n
<1>3. AreFiles(t) /\ KeepsContent(c, t, n)
  BY <1>1, TruncatedContentFacts
<1> HIDE DEF t
<1>4. half.payload = t.payload /\ half.nodes = c.nodes /\ DOMAIN half = {"payload", "nodes"}
  BY DEF AreFiles
<1>5. AreFiles(half) /\ KeepsContent(c, half, n)
  BY <1>1, <1>3, <1>4 DEF AreFiles, KeepsContent, FilesReady, FilesCover
<1> HIDE DEF half
<1>6. KeepsContent(Content0, t, n) /\ KeepsContent(Content0, half, n)
  BY <1>1, <1>3, <1>5, KeepsTransitive
<1>7. QED
  BY <1>1, <1>2, <1>3, <1>5, <1>6

LEMMA AppendNodesFailsKeeps ==
    ASSUME NoneIsNoFunction, AuthorityInvariant, AppendNodesFails
    PROVE  AuthorityInvariant' /\ auth' = auth
<1> DEFINE torn == [Content0 EXCEPT !["nodes"] = AppendTo(Content0["nodes"], None)]
<1>1. /\ pc = "nodes"
      /\ \E c \in RolledBack(torn) : Writes([disk EXCEPT !.content[pgen] = c])
      /\ pc' = "idle" /\ UNCHANGED <<mem, gen, pgen, poisoned, acked, crashes, synced>>
  BY DEF AppendNodesFails, Return, Observed
<1>2. pc \in ContentSteps
  BY <1>1 DEF ContentSteps
<1>3. /\ Frontier \in Nat /\ IsSynced(synced) /\ AreFiles(Content0)
      /\ FilesReady(Content0) /\ FilesCover(Content0, Frontier)
  BY <1>2, SplicingFacts
<1>4. AreFiles(torn) /\ KeepsContent(Content0, torn, Frontier)
  BY <1>3, Extended
<1> HIDE DEF torn
<1>5. PICK c \in RolledBack(torn) : Writes([disk EXCEPT !.content[pgen] = c])
  BY <1>1
<1>6. AreFiles(c) /\ KeepsContent(Content0, c, Frontier)
  BY <1>3, <1>4, <1>5, RolledBackFacts
<1>7. QED
  BY <1>1, <1>2, <1>3, <1>5, <1>6, SplicingStep

LEMMA SyncContentKeeps ==
    ASSUME NoneIsNoFunction, AuthorityInvariant, SyncContent
    PROVE  AuthorityInvariant' /\ auth' = auth
<1>1. /\ pc = "syncContent" /\ pc' = "frame"
      /\ synced' = [synced EXCEPT !.content[pgen] = [payload |-> Len(Content0.payload.data),
                                                     nodes |-> Len(Content0.nodes.data)]]
      /\ UNCHANGED <<disk, auth, mem, gen, pgen, poisoned, job, acked, crashes>>
  BY DEF SyncContent, Step, Observed, directory
<1>2. pc \in ContentSteps
  BY <1>1 DEF ContentSteps
<1>3. /\ poisoned = FALSE /\ mem = auth
      /\ auth # None /\ gen = disk.manifest /\ pgen = SealedPgen(disk)
      /\ disk.manifest \in DOMAIN disk.hots /\ AreFiles(Content0)
      /\ FilesReady(Content0) /\ SpliceJob(auth) /\ DeltaWritten /\ IsSynced(synced)
  BY <1>2, SplicingFacts
<1>4. Len(Content0.payload.data) \in Int /\ Len(Content0.nodes.data) \in Int
  BY <1>3, IsSeqFacts DEF AreFiles, IsFile
<1>5. IsSynced(synced')
  BY <1>1, <1>3, <1>4, SyncedContent
<1>6. DirectoryTrue' /\ (crashes'.outages = 0 => Recoverable')
  BY <1>1, <1>5, SameStep DEF directory
<1>7. SpliceJob(auth)' /\ DeltaWritten' /\ ~CreateJob(auth)'
  <2>1. SpliceJob(auth)'
    BY <1>1, <1>3 DEF SpliceJob
  <2>2. DeltaWritten'
    BY <1>1, <1>3 DEF DeltaWritten, Content0, Frontier
  <2>3. job.type = "commit"
    BY <1>3 DEF SpliceJob, CommitFrame
  <2>4. ~CreateJob(auth)'
    BY <1>1, <2>3 DEF CreateJob, CreateFrame
  <2>5. QED
    BY <2>1, <2>2, <2>4
<1>8. MemoryFollows' /\ JobFits' /\ PublicationFits'
  BY <1>1, <1>3, <1>7
  DEF MemoryFollows, JobFits, PublicationFits, Published, ContentSteps, PreparingSteps
<1>9. Whole(mem')
  BY <1>1 DEF AuthorityInvariant, BytesHeld, CreatingSteps
<1>10. FilesReady(disk'.content[pgen'])
  BY <1>1, <1>3 DEF Content0
<1>11. QED
  BY <1>1, <1>3, <1>6, <1>8, <1>9, <1>10, Arriving DEF PreparingSteps

LEMMA SyncContentFailsKeeps ==
    ASSUME NoneIsNoFunction, AuthorityInvariant, SyncContentFails
    PROVE  AuthorityInvariant' /\ auth' = auth
<1>1. /\ pc = "syncContent"
      /\ \E c \in RolledBack(Content0) : Writes([disk EXCEPT !.content[pgen] = c])
      /\ pc' = "idle" /\ UNCHANGED <<mem, gen, pgen, poisoned, acked, crashes, synced>>
  BY DEF SyncContentFails, Return, Observed
<1>2. pc \in ContentSteps
  BY <1>1 DEF ContentSteps
<1>3. /\ Frontier \in Nat /\ IsSynced(synced) /\ AreFiles(Content0)
      /\ KeepsContent(Content0, Content0, Frontier)
  BY <1>2, SplicingFacts
<1>4. PICK c \in RolledBack(Content0) : Writes([disk EXCEPT !.content[pgen] = c])
  BY <1>1
<1>5. AreFiles(c) /\ KeepsContent(Content0, c, Frontier)
  BY <1>3, <1>4, RolledBackFacts
<1>6. QED
  BY <1>1, <1>2, <1>3, <1>4, <1>5, SplicingStep

-----------------------------------------------------------------------------
(* The metadata half *)

\* t is what one operation of the store makes of s.
StoreStep(s, t) ==
    \/ \E b \in Bindings \cup {None} : CreateFresh(s, b) /\ t = Create(s, b)
    \/ \E op \in SpliceOps, r \in Requests \cup {None} :
          PreviewFresh(s, op, r) /\ t = ApplySplice(s, op, r)
    \/ \E op \in ForkOps, r \in Requests \cup {None} :
          PreviewFresh(s, op, r) /\ t = ApplyFork(s, op, r)
    \/ \E v \in VersionIds : ExpireFresh(s, v) /\ t = ApplyExpire(s, v)
    \/ \E r \in Requests : RetireFresh(s, r) /\ t = ApplyRetire(s, r)
    \/ GcReady(s) /\ t = ApplyGc(s)

LEMMA KeepsMore ==
    ASSUME NEW s, NEW t, OnlyAdds(s, t), NEW q, Keeps(Promise(s), q)
    PROVE  Keeps(Promise(t), q)
BY DEF OnlyAdds, Keeps, Promise

\* The writer is about to append the frame of its operation.
LEMMA FramingFacts ==
    ASSUME AuthorityInvariant, pc = "frame"
    PROVE  /\ poisoned = FALSE /\ auth # None /\ gen = disk.manifest
           /\ pgen = SealedPgen(disk) /\ pgen \in Gens
           /\ disk.manifest \in DOMAIN disk.hots
           /\ Whole(mem) /\ Whole(auth) /\ BindingsUnique(auth)
           /\ mem.arena = auth.arena /\ Len(auth.arena) \in Nat
           /\ mem = IF CreateJob(auth) THEN [auth EXCEPT !.nextHistory = @ + 1] ELSE auth
           /\ AreFiles(Content0) /\ FilesReady(Content0)
           /\ CreateJob(auth) \/ OtherJob(auth) \/ (SpliceJob(auth) /\ DeltaWritten)
           /\ IsSynced(synced)
<1>1. /\ poisoned = FALSE
      /\ mem = IF CreateJob(auth) THEN [auth EXCEPT !.nextHistory = @ + 1] ELSE auth
  BY DEF AuthorityInvariant, Placed, MemoryFollows, Working
<1>2. /\ auth # None /\ gen = disk.manifest /\ pgen = SealedPgen(disk)
      /\ disk.manifest \in DOMAIN disk.hots
  BY <1>1, WorkingFacts DEF OpeningSteps, CreatingSteps
<1>3. pgen \in Gens /\ Holds(mem, Content0) /\ Whole(mem)
  BY DEF AuthorityInvariant, BytesHeld, CreatingSteps
<1>4. /\ Whole(auth) /\ BindingsUnique(auth) /\ Len(auth.arena) \in Nat
  BY <1>2, StoreFacts DEF AuthorityInvariant, DirectoryTrue
<1>5. mem.arena = auth.arena
  BY <1>1, <1>4, Fields DEF Whole, IsStore
<1>6. AreFiles(Content0) /\ IsSynced(synced)
  BY <1>3 DEF AuthorityInvariant, DirectoryTrue, IsDirectory, Content0
<1>7. QED
  BY <1>1, <1>2, <1>3, <1>4, <1>5, <1>6 DEF AuthorityInvariant, JobFits, Holds

\* The frame f leads recovery from the present store to t.
LeadsTo(f, t) ==
    /\ IsFrame(f)
    /\ ReplayAllowed(auth, f, pgen, Content0)
    /\ ReplayEffect(auth, f, Content0) = t
    /\ Adopt(mem, f) = t
    /\ StoreStep(auth, t)
    /\ BindingsUnique(t)
    /\ OnlyAdds(auth, t)
    /\ Sound(auth) => Sound(t)
    /\ \/ t.arena = auth.arena
       \/ \E x : /\ t.arena = Append(auth.arena, x)
                 /\ Content0.payload.data[Len(auth.arena) + 1] # None

LEMMA CreateLeads ==
    ASSUME AuthorityInvariant, pc = "frame", CreateJob(auth)
    PROVE  \E t : LeadsTo(job, t)
<1>1. Whole(auth) /\ BindingsUnique(auth) /\ mem = [auth EXCEPT !.nextHistory = @ + 1]
  BY FramingFacts
<1>2. PICK b \in Bindings \cup {None} :
          CreateFresh(auth, b) /\ job = CreateFrame(auth.nextHistory, b)
  BY DEF CreateJob
<1> DEFINE t == Create(auth, b)
<1>3. job.type = "create" /\ job.history = auth.nextHistory /\ job.binding = b
  BY <1>2 DEF CreateFrame
<1>4. IsFrame(job) /\ ReplayAllowed(auth, job, pgen, Content0)
        /\ ReplayEffect(auth, job, Content0) = t
  BY <1>2, <1>3 DEF IsFrame, ReplayAllowed, ReplayEffect, CreateFresh
<1>5. Adopt(mem, job) = t
  <2>1. Adopt(mem, job) =
          [mem EXCEPT !.histories = @ \cup {auth.nextHistory},
                      !.historyBindings = PutBinding(@, auth.nextHistory, b)]
    BY <1>3 DEF Adopt
  <2> DEFINE bound == PutBinding(auth.historyBindings, auth.nextHistory, b)
             m == [auth EXCEPT !.nextHistory = auth.nextHistory + 1]
             m2 == [m EXCEPT !.histories = auth.histories \cup {auth.nextHistory},
                             !.historyBindings = bound]
             t2 == [auth EXCEPT !.histories = auth.histories \cup {auth.nextHistory},
                                !.nextHistory = auth.nextHistory + 1,
                                !.historyBindings = bound]
  <2>2. mem.histories = auth.histories /\ mem.historyBindings = auth.historyBindings /\ mem = m
    BY <1>1, Fields DEF Whole, IsStore
  <2>3. Adopt(mem, job) = m2
    BY <1>1, <2>1, <2>2, Fields DEF Whole, IsStore
  <2>4. t = t2
    BY <1>1, Fields DEF Create, Whole, IsStore
  <2> HIDE DEF bound
  <2>5. m2 = t2
    BY <1>1, Fields DEF Whole, IsStore
  <2>6. QED
    BY <2>3, <2>4, <2>5
<1>6. t.arena = auth.arena /\ OnlyAdds(auth, t)
  BY <1>1, CreateWhole
<1>7. BindingsUnique(t)
  BY <1>1, <1>2, CreateUnique
<1>8. Sound(auth) => Sound(t)
  BY <1>2, CreateSound
<1>9. StoreStep(auth, t)
  BY <1>2 DEF StoreStep
<1> HIDE DEF t
<1>10. QED
  BY <1>4, <1>5, <1>6, <1>7, <1>8, <1>9 DEF LeadsTo

LEMMA SameBindingsUnique ==
    ASSUME NEW s, BindingsUnique(s), NEW t, t.historyBindings = s.historyBindings
    PROVE  BindingsUnique(t)
BY DEF BindingsUnique

LEMMA SpliceLeads ==
    ASSUME NoneIsNoFunction, AuthorityInvariant, pc = "frame", SpliceJob(auth), DeltaWritten
    PROVE  \E t : LeadsTo(job, t)
<1>1. PICK op \in SpliceOps, r \in Requests \cup {None} :
        /\ PreviewFresh(auth, op, r)
        /\ job = CommitFrame(auth.nextVersion, op, r,
                    Placement(pgen, Len(auth.arena) + 1, op.insert, Spelled(auth, op)))
  BY DEF SpliceJob
<1>2. /\ job.type = "commit" /\ job.version = auth.nextVersion /\ job.op = op /\ job.request = r
      /\ job.place.pgen = pgen /\ job.place.index = Len(auth.arena) + 1
      /\ job.place.payload = op.insert /\ job.place.tree = Spelled(auth, op)
      /\ op.kind = "splice" /\ op.insert \in Inserts
  BY <1>1 DEF CommitFrame, Placement, SpliceOps
<1>3. /\ Whole(auth) /\ BindingsUnique(auth) /\ mem.arena = auth.arena
      /\ Len(auth.arena) \in Nat /\ AreFiles(Content0) /\ FilesReady(Content0)
      /\ mem = IF CreateJob(auth) THEN [auth EXCEPT !.nextHistory = @ + 1] ELSE auth
  BY FramingFacts
<1>4. mem = auth
  BY <1>2, <1>3 DEF CreateJob, CreateFrame
<1> DEFINE n == Len(auth.arena)
           t == ApplySplice(auth, op, r)
<1>5. /\ Len(Content0.payload.data) = n + 1 /\ Len(Content0.nodes.data) = n + 1
      /\ Content0.payload.data[n + 1] = op.insert
      /\ Content0.nodes.data[n + 1] = Spelled(auth, op)
  BY <1>2, <1>4 DEF DeltaWritten, Frontier
<1>6. /\ Valid(auth, op) /\ Unrecorded(auth, r) /\ auth.nextVersion < MaxVersion
      /\ op.parent # None => /\ op.parent \notin auth.expired
                             /\ auth.versions[op.parent].root # None
  BY <1>1, <1>3 DEF PreviewFresh, Retained, Known, Whole
<1>7. PlacementHolds(auth, job.place, pgen, Content0)
  BY <1>2, <1>3, <1>5 DEF PlacementHolds, FilesCover
<1>8. IsFrame(job) /\ ReplayAllowed(auth, job, pgen, Content0)
  BY <1>2, <1>6, <1>7 DEF IsFrame, ReplayAllowed, ReplayCommitAllowed
<1>9. ReplayEffect(auth, job, Content0) = t
  BY <1>2, <1>5 DEF ReplayEffect, ApplySplice
<1>10. Adopt(mem, job) = t
  BY <1>2, <1>4 DEF Adopt, ApplySplice
<1>11. t.arena = Append(auth.arena, Spelled(auth, op)) /\ OnlyAdds(auth, t) /\ BindingsUnique(t)
  <2> DEFINE x == Spelled(auth, op)
  <2>1. t = AdoptTree(auth, op, r, x)
    BY DEF ApplySplice
  <2> HIDE DEF x, t
  <2>2. /\ OnlyAdds(auth, t) /\ t.arena = Append(auth.arena, x)
        /\ t.historyBindings = auth.historyBindings
    BY <1>3, <1>6, <2>1, AdoptTreeWhole
  <2>3. QED
    BY <1>3, <2>2, SameBindingsUnique DEF x
<1>12. Sound(auth) => Sound(t)
  BY <1>1, SpliceSound
<1>13. StoreStep(auth, t)
  BY <1>1 DEF StoreStep
<1>14. op.insert # None
  BY <1>2, StoreAssumption, SeqIsSeq, SeqIsSome
<1> HIDE DEF t
<1>15. QED
  BY <1>5, <1>8, <1>9, <1>10, <1>11, <1>12, <1>13, <1>14 DEF LeadsTo

LEMMA OtherLeads ==
    ASSUME AuthorityInvariant, pc = "frame", OtherJob(auth)
    PROVE  \E t : LeadsTo(job, t)
<1>1. /\ Whole(auth) /\ BindingsUnique(auth)
      /\ mem = IF CreateJob(auth) THEN [auth EXCEPT !.nextHistory = @ + 1] ELSE auth
  BY FramingFacts
<1>2. job.type \in {"commit", "expire", "retire"}
  BY DEF OtherJob, CommitFrame, ExpireFrame, RetireFrame
<1>3. mem = auth
  BY <1>1, <1>2 DEF CreateJob, CreateFrame
<1>4. ASSUME NEW op \in ForkOps, NEW r \in Requests \cup {None},
             PreviewFresh(auth, op, r), job = CommitFrame(auth.nextVersion, op, r, None)
      PROVE  \E t : LeadsTo(job, t)
  <2> DEFINE t == ApplyFork(auth, op, r)
  <2>1. /\ job.type = "commit" /\ job.version = auth.nextVersion /\ job.op = op
        /\ job.request = r /\ op.kind = "fork" /\ op.parent # None
    BY <1>4, StoreAssumption DEF CommitFrame, ForkOps, VersionIds
  <2>2. /\ Valid(auth, op) /\ Unrecorded(auth, r) /\ auth.nextVersion < MaxVersion
        /\ op.parent \notin auth.expired /\ auth.versions[op.parent].root # None
    BY <1>1, <1>4, <2>1 DEF PreviewFresh, Retained, Known, Whole
  <2>3. IsFrame(job) /\ ReplayAllowed(auth, job, pgen, Content0)
    BY <2>1, <2>2 DEF IsFrame, ReplayAllowed, ReplayCommitAllowed
  <2>4. ReplayEffect(auth, job, Content0) = t /\ Adopt(mem, job) = t
    BY <1>3, <2>1 DEF ReplayEffect, Adopt
  <2>5. /\ t.arena = auth.arena /\ OnlyAdds(auth, t)
        /\ t.historyBindings = auth.historyBindings
    BY <1>1, <2>2, ForkWhole
  <2>6. Sound(auth) => Sound(t)
    BY <1>4, ForkSound
  <2>7. StoreStep(auth, t)
    BY <1>4 DEF StoreStep
  <2> HIDE DEF t
  <2>8. QED
    BY <1>1, <2>3, <2>4, <2>5, <2>6, <2>7, SameBindingsUnique DEF LeadsTo
<1>5. ASSUME NEW v \in VersionIds, ExpireFresh(auth, v), job = ExpireFrame(auth, v)
      PROVE  \E t : LeadsTo(job, t)
  <2> DEFINE t == ApplyExpire(auth, v)
  <2>1. job.type = "expire" /\ job.version = v /\ job.history = auth.versions[v].history
    BY <1>5 DEF ExpireFrame
  <2>2. IsFrame(job) /\ ReplayAllowed(auth, job, pgen, Content0)
    BY <1>5, <2>1 DEF IsFrame, ReplayAllowed, ExpireFresh
  <2>3. ReplayEffect(auth, job, Content0) = t /\ Adopt(mem, job) = t
    BY <1>3, <1>5, <2>1 DEF ReplayEffect, Adopt, ExpireFresh
  <2>4. /\ t.arena = auth.arena /\ OnlyAdds(auth, t)
        /\ t.historyBindings = auth.historyBindings
    BY <1>1, ExpireWhole
  <2>5. Sound(auth) => Sound(t)
    BY <1>5, ExpireSound
  <2>6. StoreStep(auth, t)
    BY <1>5 DEF StoreStep
  <2> HIDE DEF t
  <2>7. QED
    BY <1>1, <2>2, <2>3, <2>4, <2>5, <2>6, SameBindingsUnique DEF LeadsTo
<1>6. ASSUME NEW r \in Requests, r \in DOMAIN auth.active, job = RetireFrame(auth, r)
      PROVE  \E t : LeadsTo(job, t)
  <2> DEFINE t == ApplyRetire(auth, r)
  <2>1. job.type = "retire" /\ job.request = r /\ job.digest = auth.active[r].digest
    BY <1>6 DEF RetireFrame
  <2>2. RetireFresh(auth, r)
    BY <1>1, <1>6 DEF RetireFresh, Whole, LedgersDisjoint
  <2>3. IsFrame(job) /\ ReplayAllowed(auth, job, pgen, Content0)
    BY <2>1, <2>2 DEF IsFrame, ReplayAllowed, RetireFresh, Replays
  <2>4. ReplayEffect(auth, job, Content0) = t /\ Adopt(mem, job) = t
    BY <1>3, <2>1 DEF ReplayEffect, Adopt
  <2>5. /\ t.arena = auth.arena /\ OnlyAdds(auth, t)
        /\ t.historyBindings = auth.historyBindings
    BY <1>1, RetireWhole
  <2>6. Sound(auth) => Sound(t)
    BY <2>2, RetireSound
  <2>7. StoreStep(auth, t)
    BY <2>2 DEF StoreStep
  <2> HIDE DEF t
  <2>8. QED
    BY <1>1, <2>3, <2>4, <2>5, <2>6, <2>7, SameBindingsUnique DEF LeadsTo
<1>7. QED
  BY <1>4, <1>5, <1>6 DEF OtherJob

\* Another hot log under the name of the current one.
LEMMA HotReplaced ==
    ASSUME IsDirectory(disk), SealsInOrder(disk), NEW g \in DOMAIN disk.hots,
           NEW hot, DOMAIN hot = {"frames", "torn"}, Frames(hot.frames),
           NEW e, e = [disk EXCEPT !.hots[g] = hot]
    PROVE  /\ IsDirectory(e) /\ SealsInOrder(e) /\ e.manifest = disk.manifest
           /\ e.snaps = disk.snaps /\ e.content = disk.content
           /\ DOMAIN e.hots = DOMAIN disk.hots /\ e.hots[g] = hot
<1> DEFINE hots == [disk.hots EXCEPT ![g] = hot]
           w == [disk EXCEPT !.hots = hots]
<1>1. e = w
  BY DEF IsDirectory
<1>2. /\ DOMAIN hots = DOMAIN disk.hots /\ hots[g] = hot
      /\ \A h \in DOMAIN disk.hots : h # g => hots[h] = disk.hots[h]
  OBVIOUS
<1> HIDE DEF hots
<1>3. \A h \in DOMAIN hots : DOMAIN hots[h] = {"frames", "torn"} /\ Frames(hots[h].frames)
  BY <1>2 DEF IsDirectory
<1>4. /\ IsDirectory(w) /\ SealsInOrder(w) /\ w.manifest = disk.manifest
      /\ w.snaps = disk.snaps /\ w.hots = hots /\ w.content = disk.content
  BY <1>3, HotsWritten
<1> HIDE DEF w
<1>5. QED
  BY <1>1, <1>2, <1>4

\* The frame of the operation is appended: the recovered store takes exactly
\* that operation.
LEMMA AppendFrameKeeps ==
    ASSUME NoneIsNoFunction, AuthorityInvariant, AppendFrame
    PROVE  AuthorityInvariant' /\ StoreStep(auth, auth')
<1> DEFINE frames == disk.hots[gen].frames
           hot == [frames |-> Append(frames, job), torn |-> FALSE]
<1>1. /\ pc = "frame" /\ disk' = [disk EXCEPT !.hots[gen] = hot] /\ auth' = Authoritative(disk')
      /\ pc' = "syncFrame"
      /\ UNCHANGED <<mem, gen, pgen, poisoned, job, acked, crashes, synced>>
  BY DEF AppendFrame, Step, Observed, Writes
<1>2. /\ poisoned = FALSE /\ auth # None /\ gen = disk.manifest
      /\ pgen = SealedPgen(disk) /\ pgen \in Gens
      /\ disk.manifest \in DOMAIN disk.hots
      /\ Whole(mem) /\ Whole(auth) /\ mem.arena = auth.arena /\ Len(auth.arena) \in Nat
      /\ AreFiles(Content0) /\ FilesReady(Content0) /\ IsSynced(synced)
  BY <1>1, FramingFacts
<1>3. IsDirectory(disk) /\ SealsInOrder(disk) /\ auth = Authoritative(disk)
        /\ Content0 = Current(disk)
  BY <1>2 DEF AuthorityInvariant, DirectoryTrue, Content0, Current
<1>4. PICK t : LeadsTo(job, t)
  BY <1>1, FramingFacts, CreateLeads, SpliceLeads, OtherLeads
<1>5. Frames(frames) /\ IsFrame(job)
  BY <1>2, <1>3, <1>4 DEF IsDirectory, LeadsTo
<1>6. DOMAIN hot = {"frames", "torn"} /\ Frames(hot.frames) /\ hot.frames = Append(frames, job)
  <2>1. /\ IsSeq(Append(frames, job)) /\ Len(Append(frames, job)) = Len(frames) + 1
        /\ \A i \in 1..Len(frames) : Append(frames, job)[i] = frames[i]
        /\ Append(frames, job)[Len(frames) + 1] = job /\ Len(frames) \in Nat
    BY <1>5, IsSeqAppend, IsSeqFacts DEF Frames
  <2> DEFINE q == Append(frames, job)
  <2>2. Frames(q)
    <3> HIDE DEF frames
    <3>1. \A i \in 1..Len(frames)+1 : i \in 1..Len(frames) \/ i = Len(frames) + 1
      BY <2>1
    <3> HIDE DEF q
    <3>2. QED
      BY <1>5, <2>1, <3>1 DEF Frames, q
  <2>3. QED
    BY <2>2
<1> HIDE DEF hot
<1>7. /\ IsDirectory(disk') /\ SealsInOrder(disk') /\ disk'.manifest = disk.manifest
      /\ disk'.snaps = disk.snaps /\ disk'.content = disk.content
      /\ DOMAIN disk'.hots = DOMAIN disk.hots /\ disk'.hots[gen] = hot
  <2>1. gen \in DOMAIN disk.hots /\ disk' = [disk EXCEPT !.hots[gen] = hot]
    BY <1>1, <1>2
  <2>2. IsDirectory(disk) /\ SealsInOrder(disk)
    BY <1>3
  <2>3. DOMAIN hot = {"frames", "torn"} /\ Frames(hot.frames)
    BY <1>6
  <2>4. QED
    BY <2>1, <2>2, <2>3, HotReplaced
<1>8. HotFrames(disk', disk.manifest) = Append(HotFrames(disk, disk.manifest), job)
  BY <1>2, <1>6, <1>7 DEF HotFrames
<1>9. SameSeal(disk, disk') /\ SealedPgen(disk') = pgen /\ Current(disk') = Content0
  <2>1. disk.manifest = 0 \/ disk.manifest \in DOMAIN disk.snaps
    BY <1>2, <1>3, StoreFacts
  <2>2. QED
    BY <1>2, <1>3, <1>7, <2>1 DEF SameSeal, SealedPgen, Current
<1>10. auth' = t
  <2>1. /\ disk'.content[SealedPgen(disk)] = Current(disk)
        /\ ReplayAllowed(Authoritative(disk), job, SealedPgen(disk), Current(disk))
        /\ BindingsUnique(ReplayEffect(Authoritative(disk), job, Current(disk)))
        /\ ReplayEffect(Authoritative(disk), job, Current(disk)) = t
        /\ Authoritative(disk) # None
    BY <1>2, <1>3, <1>4, <1>7 DEF LeadsTo, Current
  <2>2. Authoritative(disk') = ReplayEffect(Authoritative(disk), job, Current(disk))
    BY <1>3, <1>5, <1>7, <1>8, <1>9, <2>1, AuthoritativeAppend
  <2>3. QED
    BY <1>1, <2>1, <2>2
<1>11. StoreStep(auth, auth') /\ auth' = Adopt(mem, job) /\ auth' # None
  <2>1. Whole(t)
    BY <1>2, <1>4, ReplayEffectWhole DEF LeadsTo
  <2>2. t # None
    BY <2>1, WholeIsSome
  <2>3. QED
    BY <1>4, <1>10, <2>2 DEF LeadsTo
<1>12. DirectoryTrue'
  BY <1>1, <1>2, <1>7 DEF DirectoryTrue, AuthorityInvariant
<1>13. ASSUME crashes.outages = 0 PROVE Recoverable'
  <2>1. Recoverable
    BY <1>13 DEF AuthorityInvariant, BeforeOutage
  <2>2. Sound(auth') /\ Keeps(Promise(auth'), acked')
    BY <1>1, <1>4, <1>10, <2>1, KeepsMore DEF Recoverable, LeadsTo
  <2>3. PayloadWhole(Content0, Len(auth'.arena))
    <3>1. PayloadWhole(Content0, Len(auth.arena))
      BY <1>3, <2>1 DEF Recoverable
    <3>2. CASE t.arena = auth.arena
      BY <1>10, <3>1, <3>2
    <3>3. CASE \E x : /\ t.arena = Append(auth.arena, x)
                      /\ Content0.payload.data[Len(auth.arena) + 1] # None
      <4>1. IsSeq(auth.arena)
        BY <1>2 DEF Whole
      <4>2. Len(t.arena) = Len(auth.arena) + 1
        BY <3>3, <4>1, IsSeqAppend
      <4> DEFINE n == Len(auth.arena)
      <4>3. n \in Nat /\ Len(t.arena) = n + 1
        BY <1>2, <4>2
      <4>4. PayloadWhole(Content0, n) /\ Content0.payload.data[n + 1] # None
        BY <3>1, <3>3
      <4> HIDE DEF n
      <4>5. PayloadWhole(Content0, n + 1)
        <5>1. \A i \in 1..n+1 : i \in 1..n \/ i = n + 1
          BY <4>3
        <5>2. QED
          BY <4>4, <5>1 DEF PayloadWhole
      <4>6. QED
        BY <1>10, <4>3, <4>5
    <3>4. QED
      BY <1>4, <3>2, <3>3 DEF LeadsTo
  <2>4. QED
    BY <1>2, <1>9, <1>11, <2>2, <2>3 DEF Recoverable
<1>14. Content0' = Content0
  BY <1>1, <1>7 DEF Content0
<1>15. Placed' /\ GenerationKnown' /\ MemoryFollows'
  BY <1>1, <1>2, <1>7, <1>9, <1>11
  DEF Placed, GenerationKnown, MemoryFollows, CommitSteps
<1>16. JobFits' /\ PublicationFits'
  BY <1>1 DEF JobFits, PublicationFits, Published, ContentSteps, PreparingSteps
<1>17. BytesHeld'
  BY <1>1, <1>14 DEF AuthorityInvariant, BytesHeld, CreatingSteps
<1>18. BeforeOutage'
  BY <1>1, <1>13, <1>14 DEF AuthorityInvariant, BeforeOutage, CreatingSteps, PreparingSteps,
     Frontier
<1>19. QED
  BY <1>11, <1>12, <1>15, <1>16, <1>17, <1>18 DEF AuthorityInvariant

LEMMA AppendFrameFailsKeeps ==
    ASSUME NoneIsNoFunction, AuthorityInvariant, AppendFrameFails
    PROVE  AuthorityInvariant' /\ auth' = auth
<1>1. /\ pc = "frame" /\ pc' = "idle"
      /\ \E torn \in BOOLEAN : Writes([disk EXCEPT !.hots[gen].torn = torn])
      /\ mem' = IF job.type = "create" THEN [mem EXCEPT !.nextHistory = job.history] ELSE mem
      /\ UNCHANGED <<gen, pgen, poisoned, acked, crashes, synced>>
  BY DEF AppendFrameFails, Return, Observed
<1>2. /\ poisoned = FALSE /\ auth # None /\ gen = disk.manifest /\ pgen = SealedPgen(disk)
      /\ disk.manifest \in DOMAIN disk.hots /\ Whole(auth)
      /\ mem = IF CreateJob(auth) THEN [auth EXCEPT !.nextHistory = @ + 1] ELSE auth
      /\ FilesReady(Content0) /\ IsSynced(synced)
      /\ CreateJob(auth) \/ OtherJob(auth) \/ SpliceJob(auth)
  BY <1>1, FramingFacts
<1>3. IsDirectory(disk) /\ SealsInOrder(disk) /\ auth = Authoritative(disk)
  BY DEF AuthorityInvariant, DirectoryTrue
<1>4. mem' = auth
  <2>1. CASE CreateJob(auth)
    <3>1. job.type = "create" /\ job.history = auth.nextHistory
      BY <2>1 DEF CreateJob, CreateFrame
    <3>2. mem' = [[auth EXCEPT !.nextHistory = @ + 1] EXCEPT !.nextHistory = auth.nextHistory]
      BY <1>1, <1>2, <2>1, <3>1
    <3>3. QED
      BY <1>2, <3>2, Fields DEF Whole, IsStore
  <2>2. CASE ~CreateJob(auth)
    <3>1. job.type # "create"
      BY <1>2, <2>2 DEF OtherJob, SpliceJob, CommitFrame, ExpireFrame, RetireFrame
    <3>2. QED
      BY <1>1, <1>2, <2>2, <3>1
  <2>3. QED
    BY <2>1, <2>2
<1>5. PICK torn \in BOOLEAN : Writes([disk EXCEPT !.hots[gen].torn = torn])
  BY <1>1
<1> DEFINE hot == [disk.hots[gen] EXCEPT !.torn = torn]
<1>6. DOMAIN hot = {"frames", "torn"} /\ hot.frames = disk.hots[gen].frames
        /\ Frames(hot.frames)
  BY <1>2, <1>3 DEF IsDirectory
<1>7. disk' = [disk EXCEPT !.hots[gen] = hot] /\ auth' = Authoritative(disk')
  BY <1>5 DEF Writes
<1> HIDE DEF hot
<1>8. /\ IsDirectory(disk') /\ SealsInOrder(disk') /\ disk'.manifest = disk.manifest
      /\ disk'.snaps = disk.snaps /\ disk'.content = disk.content
      /\ DOMAIN disk'.hots = DOMAIN disk.hots /\ disk'.hots[gen] = hot
  BY <1>2, <1>3, <1>6, <1>7, HotReplaced
<1>9. HotFrames(disk', gen) = HotFrames(disk, gen)
  BY <1>2, <1>6, <1>8 DEF HotFrames
<1>10. SameSeal(disk, disk')
  BY <1>2, <1>3, <1>8, StoreFacts DEF SameSeal
<1>11. /\ DirectoryTrue' /\ auth' = auth
       /\ crashes'.outages = 0 => Recoverable'
       /\ SealedPgen(disk') = SealedPgen(disk)
  BY <1>1, <1>2, <1>7, <1>8, <1>9, <1>10, KeepStep DEF Content0
<1>12. QED
  BY <1>1, <1>2, <1>4, <1>8, <1>11, Resting DEF RestingSteps, Content0

LEMMA SyncFrameKeeps ==
    ASSUME NoneIsNoFunction, AuthorityInvariant, SyncFrame
    PROVE  AuthorityInvariant' /\ auth' = auth
<1> DEFINE n == Len(disk.hots[gen].frames)
<1>1. /\ pc = "syncFrame" /\ pc' = "idle" /\ mem' = Adopt(mem, job) /\ acked' = Promise(mem')
      /\ synced' = [synced EXCEPT !.hots[gen] = n]
      /\ UNCHANGED <<disk, auth, gen, pgen, poisoned, crashes>>
  BY DEF SyncFrame, Return, directory
<1>2. poisoned = FALSE /\ auth = Adopt(mem, job)
  BY <1>1 DEF AuthorityInvariant, Placed, MemoryFollows, Working
<1>3. /\ auth # None /\ gen = disk.manifest /\ pgen = SealedPgen(disk)
      /\ disk.manifest \in DOMAIN disk.hots
  BY <1>1, <1>2, WorkingFacts DEF OpeningSteps, CreatingSteps
<1>4. FilesReady(Content0)
  BY <1>1 DEF AuthorityInvariant, BytesHeld, CreatingSteps, Holds
<1>5. IsDirectory(disk) /\ IsSynced(synced)
  BY DEF AuthorityInvariant, DirectoryTrue
<1>6. n \in Nat
  BY <1>3, <1>5, IsSeqFacts DEF IsDirectory, Frames
<1> HIDE DEF n
<1>7. IsSynced(synced')
  <2> DEFINE hots == [synced.hots EXCEPT ![gen] = n]
  <2>1. synced' = [synced EXCEPT !.hots = hots]
    BY <1>1
  <2>2. \A g \in DOMAIN hots : hots[g] \in Nat
    BY <1>5, <1>6 DEF IsSynced
  <2> HIDE DEF hots
  <2>3. QED
    BY <1>5, <2>1, <2>2 DEF IsSynced
<1>8. DirectoryTrue'
  BY <1>1, <1>7 DEF AuthorityInvariant, DirectoryTrue
<1>9. Keeps(Promise(auth), Promise(auth))
  BY DEF Keeps
<1>10. crashes'.outages = 0 => Recoverable'
  BY <1>1, <1>2, <1>9 DEF AuthorityInvariant, BeforeOutage, Recoverable
<1>11. QED
  BY <1>1, <1>2, <1>3, <1>4, <1>8, <1>10, Resting DEF RestingSteps, Content0

\* The writer poisons itself: it keeps its memory and does nothing more.
LEMMA Poisoning ==
    ASSUME AuthorityInvariant, pc \in {"syncFrame", "syncManifest"}, Poison, Observed,
           UNCHANGED <<directory, synced, mem>>
    PROVE  AuthorityInvariant' /\ auth' = auth
<1>1. /\ pc' = "idle" /\ poisoned' = TRUE
      /\ UNCHANGED <<disk, auth, synced, mem, gen, pgen, acked, crashes>>
  BY DEF Poison, Observed, directory
<1>2. DirectoryTrue' /\ (crashes'.outages = 0 => Recoverable')
  BY <1>1, SameStep DEF directory, AuthorityInvariant, DirectoryTrue
<1>3. Placed' /\ GenerationKnown' /\ MemoryFollows'
  BY <1>1 DEF Placed, GenerationKnown, MemoryFollows, Working
<1>4. JobFits' /\ PublicationFits'
  BY <1>1 DEF JobFits, PublicationFits, Published, ContentSteps, PreparingSteps
<1>5. BytesHeld'
  BY <1>1 DEF AuthorityInvariant, BytesHeld, CreatingSteps, Content0
<1>6. BeforeOutage'
  BY <1>1, <1>2 DEF AuthorityInvariant, BeforeOutage, CreatingSteps, PreparingSteps,
     Frontier, Content0
<1>7. QED
  BY <1>1, <1>2, <1>3, <1>4, <1>5, <1>6 DEF AuthorityInvariant

-----------------------------------------------------------------------------
(* Publication *)

\* A collection that passes the snapshot gate leaves a whole store.
LEMMA GcWhole ==
    ASSUME NEW s, Whole(s), SnapshotReady(ApplyGc(s))
    PROVE  LET t == ApplyGc(s)
           IN  Whole(t) /\ BindingsUnique(t)
<1> DEFINE R == RetainedRoots(s)
           n == Cardinality(R)
           remap == Renumbering(R)
           packed == Repacked(s, R, remap)
           moved == Relocated(s, remap)
           t == ApplyGc(s)
<1>1. IsFiniteSet(R)
  <2>1. IsFiniteSet(DOMAIN s.versions)
    BY FS_Interval DEF Whole
  <2> DEFINE D == DOMAIN s.versions \ s.expired
             F == [v \in D |-> s.versions[v].root]
  <2>2. IsFiniteSet(D)
    BY <2>1, FS_Subset
  <2>3. R = {F[v] : v \in D}
    BY DEF RetainedRoots
  <2>4. F \in Surjection(D, R)
    BY <2>3 DEF Surjection
  <2> HIDE DEF D, F, R
  <2>5. QED
    BY <2>2, <2>4, FS_Surjection
<1>2. /\ IsStore(t) /\ t.arena = packed /\ t.versions = moved
      /\ t.nextVersion = s.nextVersion /\ t.histories = s.histories
      /\ t.active = s.active /\ t.retired = s.retired /\ t.expired = s.expired
  <2>1. t = [s EXCEPT !.arena = packed, !.versions = moved]
    BY Zenon DEF ApplyGc
  <2> HIDE DEF t, packed, moved
  <2>2. QED
    BY <2>1, Fields DEF Whole, IsStore
<1>3. n \in Nat
  BY <1>1, RenumberingFacts
<1>4. IsSeq(packed)
  <2> DEFINE T == {packed[i] : i \in DOMAIN packed}
  <2>1. packed \in [1..n -> T]
    BY DEF Repacked
  <2> HIDE DEF T, packed, n
  <2>2. packed \in Seq(T)
    BY <1>3, <2>1, IsASeq
  <2>3. QED
    BY <2>2, SeqIsSeq
<1>5. DOMAIN moved = DOMAIN s.versions
  BY DEF Relocated
<1> HIDE DEF t, packed, moved
<1>6. /\ \A v \in DOMAIN t.versions : t.versions[v].root = None => v \in t.expired
      /\ BindingsUnique(t)
  BY DEF SnapshotReady, CatalogueConsistent, t
<1>7. Whole(t)
  BY <1>2, <1>4, <1>5, <1>6 DEF Whole, LedgersDisjoint
<1>8. QED
  BY <1>6, <1>7 DEF t

\* A collection breaks no promise.
LEMMA GcPromise ==
    ASSUME NEW s, Whole(s)
    PROVE  Promise(ApplyGc(s)) = Promise(s)
<1> DEFINE remap == Renumbering(RetainedRoots(s))
           packed == Repacked(s, RetainedRoots(s), remap)
           moved == Relocated(s, remap)
           t == ApplyGc(s)
<1>1. t.versions = moved /\ t.histories = s.histories /\ t.expired = s.expired
  <2>1. t = [s EXCEPT !.arena = packed, !.versions = moved]
    BY Zenon DEF ApplyGc
  <2> HIDE DEF t, packed, moved
  <2>2. QED
    BY <2>1, Fields DEF Whole, IsStore
<1>2. /\ DOMAIN moved = DOMAIN s.versions
      /\ \A v \in DOMAIN s.versions :
            [moved[v] EXCEPT !.root = None] = [s.versions[v] EXCEPT !.root = None]
  BY DEF Relocated
<1> HIDE DEF t, moved
<1>3. QED
  BY <1>1, <1>2 DEF Promise, t

\* A directory whose next physical generation is rewritten stands for the
\* same store.
LEMMA NextContentStep ==
    ASSUME NoneIsNoFunction, AuthorityInvariant, Ready, NextGen <= MaxGen,
           NEW c, AreFiles(c), Writes([disk EXCEPT !.content[pgen + 1] = c]),
           IsSynced(synced'), crashes' = crashes, acked' = acked
    PROVE  /\ DirectoryTrue' /\ auth' = auth
           /\ crashes'.outages = 0 => Recoverable'
           /\ disk'.manifest = disk.manifest /\ disk'.snaps = disk.snaps
           /\ disk'.hots = disk.hots
           /\ SealedPgen(disk') = SealedPgen(disk)
           /\ disk'.content[pgen + 1] = c /\ disk'.content[pgen] = Content0
           /\ pgen + 1 \in Gens
<1>1. /\ pc = "idle" /\ poisoned = FALSE /\ auth # None
      /\ gen = disk.manifest /\ pgen = SealedPgen(disk) /\ pgen \in Gens
      /\ disk.manifest \in DOMAIN disk.hots /\ FilesReady(Content0)
  BY ReadyFacts
<1>2. IsDirectory(disk) /\ SealsInOrder(disk) /\ auth = Authoritative(disk)
  BY DEF AuthorityInvariant, DirectoryTrue
<1>3. /\ disk.manifest = 0 \/ disk.manifest \in DOMAIN disk.snaps
      /\ SealedPgen(disk) <= disk.manifest
  BY <1>1, <1>2, StoreFacts
<1>4. pgen + 1 \in Gens /\ pgen + 1 # pgen
  BY <1>1, <1>2, <1>3, GenAssumption DEF Gens, NextGen, IsDirectory
<1>5. disk' = [disk EXCEPT !.content[pgen + 1] = c] /\ auth' = Authoritative(disk')
  BY DEF Writes
<1>6. /\ IsDirectory(disk')
      /\ disk'.manifest = disk.manifest /\ disk'.snaps = disk.snaps /\ disk'.hots = disk.hots
      /\ disk'.content[pgen + 1] = c /\ disk'.content[pgen] = disk.content[pgen]
  <2> DEFINE g == pgen + 1
  <2>1. g \in Gens /\ disk' = [disk EXCEPT !.content[g] = c] /\ g # pgen
    BY <1>4, <1>5
  <2> HIDE DEF g
  <2>2. /\ IsDirectory(disk')
        /\ disk'.manifest = disk.manifest /\ disk'.snaps = disk.snaps /\ disk'.hots = disk.hots
        /\ disk'.content[g] = c /\ disk'.content[pgen] = disk.content[pgen]
    BY <1>1, <1>2, <2>1, ContentWritten
  <2>3. QED
    BY <2>2 DEF g
<1>7. SealsInOrder(disk') /\ SameSeal(disk, disk')
      /\ HotFrames(disk', gen) = HotFrames(disk, gen)
  BY <1>2, <1>3, <1>6 DEF SealsInOrder, SameSeal, HotFrames
<1>8. /\ DirectoryTrue' /\ auth' = auth
      /\ crashes'.outages = 0 => Recoverable'
      /\ SealedPgen(disk') = SealedPgen(disk)
  BY <1>1, <1>5, <1>6, <1>7, KeepStep DEF Content0
<1>9. QED
  BY <1>4, <1>6, <1>8 DEF Content0

LEMMA BuildGcKeeps ==
    ASSUME NoneIsNoFunction, AuthorityInvariant, BuildGc
    PROVE  AuthorityInvariant' /\ auth' = auth
<1> DEFINE compact == ApplyGc(mem)
           file == ReadyFile(compact.arena)
           c == [payload |-> file, nodes |-> file]
           n == Len(compact.arena)
<1>1. /\ Ready /\ NextGen <= MaxGen /\ GcReady(mem) /\ SnapshotReady(compact)
      /\ job' = [type |-> "gc", store |-> compact, pgen |-> pgen + 1]
      /\ Writes([disk EXCEPT !.content[pgen + 1] = c])
      /\ synced' = [synced EXCEPT !.content[pgen + 1] = [payload |-> n, nodes |-> n]]
      /\ pc' = "snapshot" /\ UNCHANGED <<mem, gen, pgen, poisoned, acked, crashes>>
  BY DEF BuildGc, Observed
<1>2. /\ pc = "idle" /\ poisoned = FALSE /\ mem = auth /\ auth # None
      /\ gen = disk.manifest /\ pgen = SealedPgen(disk)
      /\ disk.manifest \in DOMAIN disk.hots /\ FilesReady(Content0)
      /\ Whole(auth) /\ IsSynced(synced)
  BY <1>1, ReadyFacts
<1>3. Whole(compact) /\ BindingsUnique(compact)
  BY <1>1, <1>2, GcWhole
<1> HIDE DEF compact
<1>4. n \in Nat /\ IsSeq(compact.arena)
  BY <1>3, IsSeqFacts DEF Whole
<1>5. AreFiles(c) /\ Holds(compact, c) /\ c.payload.data = compact.arena
  BY <1>4 DEF AreFiles, IsFile, ReadyFile, Holds, FilesReady, FilesCover
<1>6. IsSynced(synced')
  <2> HIDE DEF n
  <2>1. QED
    BY <1>1, <1>2, <1>4, SyncedContent
<1> HIDE DEF c
<1>7. /\ DirectoryTrue' /\ auth' = auth
      /\ crashes'.outages = 0 => Recoverable'
      /\ disk'.manifest = disk.manifest /\ disk'.hots = disk.hots
      /\ SealedPgen(disk') = SealedPgen(disk)
      /\ disk'.content[pgen + 1] = c /\ disk'.content[pgen] = Content0
  BY <1>1, <1>5, <1>6, NextContentStep
<1>8. job'.type = "gc" /\ job'.store = compact /\ job'.pgen = pgen + 1
  BY <1>1
<1>9. MemoryFollows' /\ JobFits'
  BY <1>1, <1>2, <1>7 DEF MemoryFollows, JobFits, ContentSteps
<1>10. PublicationFits'
  BY <1>1, <1>2, <1>3, <1>5, <1>7, <1>8
  DEF PublicationFits, Published, PreparingSteps, NextGen, compact
<1>11. ASSUME crashes'.outages = 0
       PROVE  PayloadWhole(disk'.content[job'.pgen], Len(job'.store.arena))
  <2>1. Sound(auth)
    BY <1>1, <1>11 DEF AuthorityInvariant, BeforeOutage, Recoverable
  <2>2. Sound(compact)
    BY <1>1, <1>2, <2>1, GcSound DEF compact
  <2>3. compact.arena \in Seq(Seq(Bytes))
    BY <2>2 DEF Sound, CatalogueSound
  <2>4. \A i \in 1..n : compact.arena[i] # None
    <3>1. \A i \in 1..n : compact.arena[i] \in Seq(Bytes)
      BY <2>3
    <3>2. QED
      BY <3>1, SeqIsSeq, SeqIsSome
  <2>5. QED
    BY <1>5, <1>7, <1>8, <2>4 DEF PayloadWhole
<1>12. QED
  BY <1>1, <1>2, <1>7, <1>9, <1>10, <1>11, Arriving DEF PreparingSteps

LEMMA BuildGcFailsKeeps ==
    ASSUME NoneIsNoFunction, AuthorityInvariant, BuildGcFails
    PROVE  AuthorityInvariant' /\ auth' = auth
<1> DEFINE torn == [payload |-> ReadyFile(<<None>>), nodes |-> ReadyFile(<<>>)]
           bare == [disk.content[pgen + 1] EXCEPT !.payload = BareFile]
<1>1. /\ Ready /\ NextGen <= MaxGen
      /\ \/ Writes([disk EXCEPT !.content[pgen + 1] = bare])
         \/ Writes([disk EXCEPT !.content[pgen + 1] = torn])
      /\ synced' = [synced EXCEPT !.content[pgen + 1] = NotSynced]
      /\ UNCHANGED <<pc, mem, gen, pgen, poisoned, job, acked, crashes>>
  BY DEF BuildGcFails, Observed, writerVars
<1>2. /\ pc = "idle" /\ poisoned = FALSE /\ mem = auth /\ auth # None
      /\ gen = disk.manifest /\ pgen = SealedPgen(disk) /\ pgen \in Gens
      /\ disk.manifest \in DOMAIN disk.hots /\ FilesReady(Content0) /\ IsSynced(synced)
  BY <1>1, ReadyFacts
<1>3. IsDirectory(disk) /\ SealsInOrder(disk) /\ auth = Authoritative(disk)
  BY DEF AuthorityInvariant, DirectoryTrue
<1>4. pgen + 1 \in Gens
  <2>1. SealedPgen(disk) <= disk.manifest
    BY <1>2, <1>3, StoreFacts
  <2>2. QED
    BY <1>1, <1>2, <1>3, <2>1, GenAssumption DEF Gens, NextGen, IsDirectory
<1>5. AreFiles(torn)
  <2>1. <<None>> \in Seq({None})
    OBVIOUS
  <2>2. IsSeq(<<None>>) /\ IsSeq(<<>>)
    BY <2>1, SeqIsSeq, EmptyIsSeq
  <2>3. QED
    BY <2>2 DEF AreFiles, IsFile, ReadyFile
<1>6. AreFiles(bare)
  <2>1. AreFiles(disk.content[pgen + 1])
    BY <1>3, <1>4 DEF IsDirectory
  <2>2. IsFile(BareFile)
    BY EmptyIsSeq DEF BareFile, IsFile
  <2>3. QED
    BY <2>1, <2>2 DEF AreFiles
<1>7. IsSynced(synced')
  <2> DEFINE m == -1
  <2>1. m \in Int /\ synced' = [synced EXCEPT !.content[pgen + 1] = [payload |-> m, nodes |-> m]]
    BY <1>1 DEF NotSynced
  <2> HIDE DEF m
  <2>2. QED
    BY <1>2, <2>1, SyncedContent
<1> HIDE DEF torn, bare
<1>8. PICK c \in {bare, torn} : Writes([disk EXCEPT !.content[pgen + 1] = c])
  BY <1>1
<1>9. AreFiles(c)
  BY <1>5, <1>6, <1>8
<1>10. /\ DirectoryTrue' /\ auth' = auth
       /\ crashes'.outages = 0 => Recoverable'
       /\ disk'.manifest = disk.manifest /\ disk'.hots = disk.hots
       /\ SealedPgen(disk') = SealedPgen(disk) /\ disk'.content[pgen] = Content0
  BY <1>1, <1>7, <1>8, <1>9, NextContentStep
<1>11. QED
  BY <1>1, <1>2, <1>10, Resting DEF RestingSteps

\* What the steps of a publication start from.
LEMMA PreparingFacts ==
    ASSUME AuthorityInvariant, pc \in PreparingSteps
    PROVE  /\ poisoned = FALSE /\ mem = auth /\ pc # "closed" /\ pc # "syncManifest"
           /\ auth # None /\ gen = disk.manifest /\ pgen = SealedPgen(disk) /\ pgen \in Gens
           /\ disk.manifest \in DOMAIN disk.hots /\ FilesReady(Content0)
           /\ Whole(auth) /\ Whole(job.store) /\ BindingsUnique(job.store)
           /\ Holds(job.store, disk.content[job.pgen])
           /\ NextGen \in Nat /\ NextGen # gen /\ NextGen # 0
           /\ job.pgen \in Gens /\ job.pgen <= NextGen
           /\ disk.manifest = 0 \/ disk.manifest \in DOMAIN disk.snaps
           /\ IsDirectory(disk) /\ SealsInOrder(disk) /\ auth = Authoritative(disk)
           /\ IsSynced(synced)
<1>1. poisoned = FALSE /\ mem = auth /\ pc # "closed" /\ pc # "syncManifest"
  BY DEF AuthorityInvariant, Placed, MemoryFollows, Working, PreparingSteps
<1>2. /\ auth # None /\ gen = disk.manifest /\ pgen = SealedPgen(disk)
      /\ disk.manifest \in DOMAIN disk.hots
  BY <1>1, WorkingFacts DEF PreparingSteps, OpeningSteps, CreatingSteps
<1>3. pgen \in Gens /\ Holds(mem, Content0) /\ Whole(mem)
  BY DEF AuthorityInvariant, BytesHeld, PreparingSteps, CreatingSteps
<1>4. IsDirectory(disk) /\ SealsInOrder(disk) /\ auth = Authoritative(disk) /\ IsSynced(synced)
  BY DEF AuthorityInvariant, DirectoryTrue
<1>5. /\ disk.manifest = 0 \/ disk.manifest \in DOMAIN disk.snaps
      /\ SealedPgen(disk) <= disk.manifest
  BY <1>2, <1>4, StoreFacts
<1>6. /\ job.pgen = pgen \/ job.pgen = pgen + 1
      /\ Whole(job.store) /\ BindingsUnique(job.store) /\ NextGen <= MaxGen
      /\ Holds(job.store, disk.content[job.pgen])
  BY DEF AuthorityInvariant, PublicationFits, Published
<1>7. disk.manifest \in Nat
  BY <1>4 DEF IsDirectory
<1>8. NextGen \in Nat /\ NextGen # gen /\ NextGen # 0 /\ job.pgen \in Gens /\ job.pgen <= NextGen
  BY <1>2, <1>3, <1>5, <1>6, <1>7, GenAssumption DEF NextGen, Gens
<1>9. QED
  BY <1>1, <1>2, <1>3, <1>4, <1>5, <1>6, <1>8 DEF Holds

\* A step of the publication that leaves manifest, frames and files alone.
LEMMA PreparingStep ==
    ASSUME NoneIsNoFunction, AuthorityInvariant, pc \in PreparingSteps,
           IsDirectory(disk'), SealsInOrder(disk'), auth' = Authoritative(disk'),
           disk'.manifest = disk.manifest, disk'.content = disk.content,
           disk.manifest # 0 => /\ disk.manifest \in DOMAIN disk'.snaps
                                /\ disk'.snaps[disk.manifest] = disk.snaps[disk.manifest],
           disk.manifest \in DOMAIN disk'.hots,
           disk'.hots[disk.manifest] = disk.hots[disk.manifest],
           IsSynced(synced'), UNCHANGED <<mem, gen, pgen, poisoned, acked, crashes>>,
           \/ pc' = "idle"
           \/ pc' \in PreparingSteps /\ job' = job /\ Published'
    PROVE  AuthorityInvariant' /\ auth' = auth
<1>1. /\ poisoned = FALSE /\ mem = auth /\ pc # "closed" /\ pc # "syncManifest"
      /\ auth # None /\ gen = disk.manifest /\ pgen = SealedPgen(disk)
      /\ disk.manifest \in DOMAIN disk.hots /\ FilesReady(Content0) /\ Whole(auth)
  BY PreparingFacts
<1>2. SameSeal(disk, disk') /\ HotFrames(disk', gen) = HotFrames(disk, gen)
        /\ disk'.content[pgen] = Content0
  BY <1>1 DEF SameSeal, HotFrames, Content0
<1>3. /\ DirectoryTrue' /\ auth' = auth
      /\ crashes'.outages = 0 => Recoverable'
      /\ SealedPgen(disk') = SealedPgen(disk)
  BY <1>1, <1>2, KeepStep
<1>4. CASE pc' = "idle"
  BY <1>1, <1>2, <1>3, <1>4, Resting DEF RestingSteps
<1>5. CASE pc' \in PreparingSteps /\ job' = job /\ Published'
  <2>1. MemoryFollows' /\ JobFits'
    BY <1>1, <1>3, <1>5 DEF MemoryFollows, JobFits, PreparingSteps, ContentSteps
  <2>2. PublicationFits'
    BY <1>1, <1>3, <1>5 DEF AuthorityInvariant, PublicationFits, PreparingSteps, NextGen
  <2>3. crashes.outages = 0 => PayloadWhole(disk.content[job.pgen], Len(job.store.arena))
    BY DEF AuthorityInvariant, BeforeOutage
  <2>4. QED
    BY <1>1, <1>2, <1>3, <1>5, <2>1, <2>2, <2>3, Arriving
<1>6. QED
  BY <1>4, <1>5

LEMMA SnapshotWhole ==
    ASSUME NEW s, Whole(s), NEW p
    PROVE  LET snap == SnapshotOf(s, p)
           IN  Whole(snap.store) /\ snap.frontier \in Nat /\ snap.pgen = p
<1> DEFINE t == [s EXCEPT !.arena = <<>>]
<1>1. /\ IsStore(t) /\ t.arena = <<>> /\ t.expired = s.expired /\ t.versions = s.versions
      /\ t.nextVersion = s.nextVersion /\ t.active = s.active /\ t.retired = s.retired
  BY Fields DEF Whole, IsStore
<1> HIDE DEF t
<1>2. Whole(t)
  BY <1>1, EmptyIsSeq DEF Whole, LedgersDisjoint
<1>3. Len(s.arena) \in Nat
  BY IsSeqFacts DEF Whole
<1>4. QED
  BY <1>2, <1>3 DEF SnapshotOf, t

\* The snapshot of the next generation is there.
LEMMA SnapshotPut ==
    ASSUME AuthorityInvariant, pc \in PreparingSteps, NEW e,
           e = [disk EXCEPT !.snaps = Put(@, NextGen, SnapshotOf(job.store, job.pgen))]
    PROVE  /\ IsDirectory(e) /\ SealsInOrder(e) /\ e.manifest = disk.manifest
           /\ e.hots = disk.hots /\ e.content = disk.content
           /\ NextGen \in DOMAIN e.snaps
           /\ e.snaps[NextGen] = SnapshotOf(job.store, job.pgen)
           /\ \A h \in DOMAIN disk.snaps :
                 h # NextGen => h \in DOMAIN e.snaps /\ e.snaps[h] = disk.snaps[h]
<1> DEFINE snap == SnapshotOf(job.store, job.pgen)
           snaps == Put(disk.snaps, NextGen, snap)
           w == [disk EXCEPT !.snaps = snaps]
<1>1. /\ Whole(job.store) /\ NextGen \in Nat /\ job.pgen \in Gens /\ job.pgen <= NextGen
      /\ IsDirectory(disk) /\ SealsInOrder(disk)
  BY PreparingFacts
<1>2. Whole(snap.store) /\ snap.frontier \in Nat /\ snap.pgen = job.pgen
  BY <1>1, SnapshotWhole
<1> HIDE DEF snap
<1>3. e = w
  BY <1>1 DEF IsDirectory, snap
<1>4. /\ DOMAIN snaps = DOMAIN disk.snaps \cup {NextGen} /\ snaps[NextGen] = snap
      /\ \A h \in DOMAIN disk.snaps : h # NextGen => snaps[h] = disk.snaps[h]
  BY DEF Put
<1> HIDE DEF snaps
<1>5. /\ DOMAIN w = {"manifest", "snaps", "hots", "content"} /\ w.content = disk.content
      /\ w.manifest = disk.manifest /\ w.snaps = snaps /\ w.hots = disk.hots
  BY <1>1 DEF IsDirectory
<1> HIDE DEF w
<1>6. IsDirectory(w) /\ SealsInOrder(w)
  BY <1>1, <1>2, <1>4, <1>5 DEF IsDirectory, SealsInOrder
<1>7. QED
  BY <1>3, <1>4, <1>5, <1>6 DEF snap

LEMMA PublishSnapshotKeeps ==
    ASSUME NoneIsNoFunction, AuthorityInvariant, PublishSnapshot \/ PublishSnapshotFails
    PROVE  AuthorityInvariant' /\ auth' = auth
<1> DEFINE e == [disk EXCEPT !.snaps = Put(@, NextGen, SnapshotOf(job.store, job.pgen))]
<1>1. /\ pc = "snapshot" /\ UNCHANGED <<mem, gen, pgen, poisoned, acked, crashes>>
      /\ \/ /\ Writes(e) /\ pc' = "nextHot" /\ job' = job
            /\ synced' = [DirectorySynced EXCEPT !.snaps = @ \cup {NextGen}]
         \/ (Writes(e) \/ UNCHANGED directory) /\ pc' = "idle" /\ synced' = synced
  BY DEF PublishSnapshot, PublishSnapshotFails, Step, Return, Observed
<1>2. pc \in PreparingSteps
  BY <1>1 DEF PreparingSteps
<1>3. /\ gen = disk.manifest /\ disk.manifest \in DOMAIN disk.hots /\ NextGen # gen
      /\ disk.manifest = 0 \/ disk.manifest \in DOMAIN disk.snaps
      /\ IsDirectory(disk) /\ SealsInOrder(disk) /\ auth = Authoritative(disk)
      /\ IsSynced(synced)
  BY <1>2, PreparingFacts
<1>4. /\ IsDirectory(e) /\ SealsInOrder(e) /\ e.manifest = disk.manifest
      /\ e.hots = disk.hots /\ e.content = disk.content
      /\ NextGen \in DOMAIN e.snaps
      /\ e.snaps[NextGen] = SnapshotOf(job.store, job.pgen)
      /\ \A h \in DOMAIN disk.snaps :
            h # NextGen => h \in DOMAIN e.snaps /\ e.snaps[h] = disk.snaps[h]
  BY <1>2, SnapshotPut
<1> HIDE DEF e
<1>5. IsSynced(synced')
  <2> DEFINE S == DirectorySynced.snaps \cup {NextGen}
  <2>1. synced' = [DirectorySynced EXCEPT !.snaps = S] \/ synced' = synced
    BY <1>1
  <2> HIDE DEF S
  <2>2. QED
    BY <1>3, <2>1, SyncedNames
<1>6. CASE Writes(e)
  <2>1. disk' = e /\ auth' = Authoritative(disk')
    BY <1>6 DEF Writes
  <2>2. pc' = "nextHot" /\ job' = job => Published'
    BY <1>4, <2>1 DEF Published, NextGen
  <2>3. QED
    BY <1>1, <1>2, <1>3, <1>4, <1>5, <2>1, <2>2, PreparingStep DEF PreparingSteps
<1>7. CASE UNCHANGED directory
  <2>1. disk' = disk /\ auth' = auth
    BY <1>7 DEF directory
  <2>2. CASE pc' = "idle"
    BY <1>1, <1>2, <1>3, <1>5, <2>1, <2>2, PreparingStep
  <2>3. CASE pc' # "idle"
    BY <1>1, <1>6, <2>3
  <2>4. QED
    BY <2>2, <2>3
<1>8. QED
  BY <1>1, <1>6, <1>7

LEMMA PublishHotKeeps ==
    ASSUME NoneIsNoFunction, AuthorityInvariant, PublishHot \/ PublishHotFails
    PROVE  AuthorityInvariant' /\ auth' = auth
<1> DEFINE e == [disk EXCEPT !.hots = Put(@, NextGen, EmptyHot)]
<1>1. /\ pc = "nextHot" /\ UNCHANGED <<mem, gen, pgen, poisoned, acked, crashes>>
      /\ \/ /\ Writes(e) /\ pc' = "manifest" /\ job' = job
            /\ synced' = [DirectorySynced EXCEPT !.hots = Put(@, NextGen, 0)]
         \/ (Writes(e) \/ UNCHANGED directory) /\ pc' = "idle" /\ synced' = synced
  BY DEF PublishHot, PublishHotFails, Step, Return, Observed
<1>2. pc \in PreparingSteps
  BY <1>1 DEF PreparingSteps
<1>3. /\ gen = disk.manifest /\ disk.manifest \in DOMAIN disk.hots /\ NextGen # gen
      /\ disk.manifest = 0 \/ disk.manifest \in DOMAIN disk.snaps
      /\ IsDirectory(disk) /\ SealsInOrder(disk) /\ auth = Authoritative(disk)
      /\ IsSynced(synced)
  BY <1>2, PreparingFacts
<1>4. /\ IsDirectory(e) /\ SealsInOrder(e) /\ e.manifest = disk.manifest
      /\ e.snaps = disk.snaps /\ e.content = disk.content
      /\ DOMAIN e.hots = DOMAIN disk.hots \cup {NextGen} /\ e.hots[NextGen] = EmptyHot
      /\ e.hots[disk.manifest] = disk.hots[disk.manifest]
  <2>1. ASSUME NEW n, NEW w, w = [disk EXCEPT !.hots = Put(@, n, EmptyHot)], n # disk.manifest
        PROVE  /\ IsDirectory(w) /\ SealsInOrder(w) /\ w.manifest = disk.manifest
               /\ w.snaps = disk.snaps /\ w.content = disk.content
               /\ DOMAIN w.hots = DOMAIN disk.hots \cup {n} /\ w.hots[n] = EmptyHot
               /\ w.hots[disk.manifest] = disk.hots[disk.manifest]
    <3>1. /\ IsDirectory(w) /\ SealsInOrder(w) /\ w.manifest = disk.manifest
          /\ w.snaps = disk.snaps /\ w.content = disk.content
      BY <1>3, <2>1, HotPut
    <3>2. DOMAIN w.hots = DOMAIN disk.hots \cup {n}
      BY <1>3, <2>1, HotPut
    <3>3. w.hots[n] = EmptyHot
      BY <1>3, <2>1, HotPut
    <3>4. \A h \in DOMAIN disk.hots : h # n => w.hots[h] = disk.hots[h]
      BY <1>3, <2>1 DEF Put, IsDirectory
    <3> QED
      BY <1>3, <2>1, <3>1, <3>2, <3>3, <3>4
  <2>2. QED
    BY <1>3, <2>1, Zenon
<1> HIDE DEF e
<1>5. IsSynced(synced')
  <2> DEFINE n == NextGen
  <2>1. synced' = [DirectorySynced EXCEPT !.hots = Put(@, n, 0)] \/ synced' = synced
    BY <1>1
  <2> HIDE DEF n
  <2>2. QED
    BY <1>3, <2>1, SyncedNames
<1>6. CASE Writes(e)
  <2>1. disk' = e /\ auth' = Authoritative(disk')
    BY <1>6 DEF Writes
  <2>2. /\ NextGen \in DOMAIN disk.snaps
        /\ disk.snaps[NextGen] = SnapshotOf(job.store, job.pgen)
    BY <1>1 DEF AuthorityInvariant, PublicationFits, Published
  <2>3. pc' = "manifest" /\ job' = job => Published'
    BY <1>4, <2>1, <2>2 DEF Published, NextGen
  <2>4. QED
    BY <1>1, <1>2, <1>3, <1>4, <1>5, <2>1, <2>3, PreparingStep DEF PreparingSteps
<1>7. CASE UNCHANGED directory
  <2>1. disk' = disk /\ auth' = auth
    BY <1>7 DEF directory
  <2>2. CASE pc' = "idle"
    BY <1>1, <1>2, <1>3, <1>5, <2>1, <2>2, PreparingStep
  <2>3. CASE pc' # "idle"
    BY <1>1, <1>6, <2>3
  <2>4. QED
    BY <2>2, <2>3
<1>8. QED
  BY <1>1, <1>6, <1>7

\* The publication is given up before the manifest is renamed.
LEMMA AbandonKeeps ==
    ASSUME NoneIsNoFunction, AuthorityInvariant, PublishHotRefused \/ RenameManifestFails
    PROVE  AuthorityInvariant' /\ auth' = auth
<1>1. /\ pc \in PreparingSteps /\ pc' = "idle"
      /\ UNCHANGED <<disk, auth, synced, mem, gen, pgen, poisoned, acked, crashes>>
  BY DEF PublishHotRefused, RenameManifestFails, Return, Observed, directory, PreparingSteps
<1>2. /\ disk.manifest \in DOMAIN disk.hots /\ IsSynced(synced)
      /\ disk.manifest = 0 \/ disk.manifest \in DOMAIN disk.snaps
      /\ IsDirectory(disk) /\ SealsInOrder(disk) /\ auth = Authoritative(disk)
  BY <1>1, PreparingFacts
<1>3. QED
  BY <1>1, <1>2, PreparingStep

\* The rename makes the directory stand for the store of the publication.
LEMMA RenameManifestKeeps ==
    ASSUME NoneIsNoFunction, AuthorityInvariant, RenameManifest
    PROVE  AuthorityInvariant' /\ (auth' = auth \/ StoreStep(auth, auth'))
<1> DEFINE n == NextGen
           e == [disk EXCEPT !.manifest = n]
           t == job.store
           c == disk.content[job.pgen]
<1>1. /\ pc = "manifest" /\ pc' = "syncManifest" /\ disk' = e /\ auth' = Authoritative(disk')
      /\ UNCHANGED <<mem, gen, pgen, poisoned, job, synced, acked, crashes>>
  BY DEF RenameManifest, Step, Observed, Writes
<1>2. pc \in PreparingSteps
  BY <1>1 DEF PreparingSteps
<1>3. /\ poisoned = FALSE /\ mem = auth /\ auth # None
      /\ gen = disk.manifest /\ pgen \in Gens /\ Whole(auth)
      /\ Whole(t) /\ BindingsUnique(t) /\ Holds(t, c)
      /\ n \in Nat /\ n # 0 /\ job.pgen \in Gens
      /\ IsDirectory(disk) /\ SealsInOrder(disk) /\ IsSynced(synced)
  BY <1>2, PreparingFacts
<1>4. /\ n \in DOMAIN disk.snaps /\ disk.snaps[n] = SnapshotOf(t, job.pgen)
      /\ n \in DOMAIN disk.hots /\ disk.hots[n] = EmptyHot
      /\ \/ t = auth
         \/ GcReady(auth) /\ t = ApplyGc(auth)
  BY <1>1, <1>2 DEF AuthorityInvariant, PublicationFits, Published
<1>5. n = disk.manifest + 1
  BY DEF NextGen
<1> HIDE DEF n
<1>6. /\ DOMAIN e = {"manifest", "snaps", "hots", "content"} /\ e.manifest = n
      /\ e.snaps = disk.snaps /\ e.hots = disk.hots /\ e.content = disk.content
  BY <1>3 DEF IsDirectory
<1> HIDE DEF e
<1>7. IsDirectory(e) /\ SealsInOrder(e)
  BY <1>3, <1>6 DEF IsDirectory, SealsInOrder
<1>8. auth' = t
  <2>1. HotFrames(e, e.manifest) = <<>>
    BY <1>4, <1>6, EmptyHotIs DEF HotFrames
  <2>2. Holds(t, e.content[job.pgen])
    BY <1>3, <1>6
  <2> HIDE DEF t
  <2>3. QED
    BY <1>1, <1>3, <1>4, <1>6, <1>7, <2>1, <2>2, AuthoritativeSealed
<1>9. SealedPgen(disk') = job.pgen /\ Current(disk') = c
  BY <1>1, <1>3, <1>4, <1>6 DEF SealedPgen, SnapshotOf, Current
<1>10. DirectoryTrue'
  BY <1>1, <1>3, <1>7 DEF DirectoryTrue, AuthorityInvariant
<1>11. GenerationKnown'
  <2>1. t # None
    BY <1>3, WholeIsSome
  <2>2. QED
    BY <1>1, <1>3, <1>4, <1>5, <1>6, <1>8, <1>9, <2>1 DEF GenerationKnown
<1>12. Placed' /\ MemoryFollows' /\ JobFits'
  BY <1>1, <1>3, <1>8 DEF Placed, MemoryFollows, JobFits, ContentSteps, PublishingSteps
<1>13. PublicationFits'
  BY <1>1, <1>3, <1>6 DEF PublicationFits, Published, PreparingSteps
<1>14. BytesHeld'
  BY <1>1, <1>2, <1>6 DEF AuthorityInvariant, BytesHeld, CreatingSteps, PreparingSteps, Content0
<1>15. ASSUME crashes.outages = 0
       PROVE  /\ Recoverable' /\ PayloadWhole(Content0', Frontier')
              /\ PayloadWhole(disk'.content[job'.pgen], Len(job'.store.arena))
  <2>1. /\ Recoverable /\ PayloadWhole(c, Len(t.arena)) /\ PayloadWhole(Content0, Frontier)
    BY <1>1, <1>2, <1>15 DEF AuthorityInvariant, BeforeOutage, PreparingSteps, CreatingSteps
  <2>2. Sound(t)
    BY <1>3, <1>4, <2>1, GcSound DEF Recoverable
  <2>3. Promise(t) = Promise(auth)
    BY <1>3, <1>4, GcPromise
  <2>4. Keeps(Promise(auth'), acked')
    BY <1>1, <1>8, <2>1, <2>3 DEF Recoverable
  <2>5. auth' # None /\ FilesReady(c)
    BY <1>3, <1>8, WholeIsSome DEF Holds
  <2>6. Recoverable'
    BY <1>8, <1>9, <2>1, <2>2, <2>4, <2>5 DEF Recoverable
  <2>7. QED
    BY <1>1, <1>6, <2>1, <2>6 DEF Content0, Frontier
<1>16. BeforeOutage'
  BY <1>1, <1>15 DEF BeforeOutage
<1>17. auth' = auth \/ StoreStep(auth, auth')
  BY <1>4, <1>8 DEF StoreStep
<1>18. QED
  BY <1>10, <1>11, <1>12, <1>13, <1>14, <1>16, <1>17 DEF AuthorityInvariant

\* The writer adopts what the manifest names.
LEMMA SyncManifestKeeps ==
    ASSUME NoneIsNoFunction, AuthorityInvariant, SyncManifest
    PROVE  AuthorityInvariant' /\ auth' = auth
<1>1. /\ pc = "syncManifest" /\ pc' = "recycle" /\ synced' = DirectorySynced
      /\ mem' = job.store /\ gen' = disk.manifest /\ pgen' = job.pgen
      /\ UNCHANGED <<disk, auth, poisoned, job, acked, crashes>>
  BY DEF SyncManifest, Observed, directory
<1>2. poisoned = FALSE /\ auth = job.store
  BY <1>1 DEF AuthorityInvariant, Placed, MemoryFollows, Working
<1>3. auth # None /\ job.pgen = SealedPgen(disk) /\ disk.manifest \in DOMAIN disk.hots
  BY <1>1, <1>2 DEF AuthorityInvariant, GenerationKnown, Working, OpeningSteps, CreatingSteps
<1>4. FilesReady(disk.content[job.pgen])
  BY <1>1 DEF AuthorityInvariant, PublicationFits, Holds
<1>5. IsSynced(synced')
  BY <1>1, SyncedNames DEF AuthorityInvariant, DirectoryTrue
<1>6. DirectoryTrue' /\ (crashes'.outages = 0 => Recoverable')
  BY <1>1, <1>5, SameStep DEF directory
<1>7. QED
  BY <1>1, <1>2, <1>3, <1>4, <1>6, Resting DEF RestingSteps

\* The directory without these files.
Removed(H, S, C) ==
    [disk EXCEPT
        !.hots = Drop(@, H), !.snaps = Drop(@, S),
        !.content = [g \in Gens |-> [file \in {"payload", "nodes"} |->
                       IF <<file, g>> \in C THEN AbsentFile ELSE @[g][file]]]]

\* Removing files of other generations.
LEMMA RemovedFiles ==
    ASSUME IsDirectory(disk), SealsInOrder(disk), NEW H, NEW S, NEW C, NEW p \in Gens,
           \A x \in C : x[2] # p,
           NEW e, e = Removed(H, S, C)
    PROVE  /\ IsDirectory(e) /\ SealsInOrder(e) /\ e.manifest = disk.manifest
           /\ e.content[p].payload = disk.content[p].payload
           /\ e.content[p].nodes = disk.content[p].nodes
<1> DEFINE hots == Drop(disk.hots, H)
           snaps == Drop(disk.snaps, S)
           content == [h \in Gens |-> [file \in {"payload", "nodes"} |->
                          IF <<file, h>> \in C THEN AbsentFile ELSE disk.content[h][file]]]
           w == [disk EXCEPT !.hots = hots, !.snaps = snaps, !.content = content]
<1>1. e = w
  BY DEF IsDirectory, Removed
<1>2. /\ DOMAIN hots = DOMAIN disk.hots \ H /\ \A h \in DOMAIN hots : hots[h] = disk.hots[h]
      /\ DOMAIN snaps = DOMAIN disk.snaps \ S /\ \A h \in DOMAIN snaps : snaps[h] = disk.snaps[h]
  BY DEF Drop
<1>3. \A h \in Gens : AreFiles(content[h])
  <2>1. IsFile(AbsentFile)
    BY EmptyIsSeq DEF AbsentFile, IsFile
  <2>2. QED
    BY <2>1 DEF IsDirectory, AreFiles
<1>4. /\ DOMAIN content = Gens
      /\ content[p].payload = disk.content[p].payload /\ content[p].nodes = disk.content[p].nodes
  <2>1. \A file : <<file, p>>[2] = p
    OBVIOUS
  <2>2. \A file : <<file, p>> \notin C
    BY <2>1
  <2>3. QED
    BY <2>2
<1> HIDE DEF hots, snaps, content
<1>5. /\ DOMAIN w = {"manifest", "snaps", "hots", "content"} /\ w.manifest = disk.manifest
      /\ w.hots = hots /\ w.snaps = snaps /\ w.content = content
  BY DEF IsDirectory
<1> HIDE DEF w
<1>6. IsDirectory(w) /\ SealsInOrder(w)
  BY <1>2, <1>3, <1>4, <1>5 DEF IsDirectory, SealsInOrder
<1>7. QED
  BY <1>1, <1>4, <1>5, <1>6

LEMMA RecycleKeeps ==
    ASSUME NoneIsNoFunction, AuthorityInvariant, Recycle \/ RecycleFails
    PROVE  AuthorityInvariant' /\ auth' = auth
<1>1. /\ pc = "recycle" /\ pc' = "idle"
      /\ UNCHANGED <<synced, mem, gen, pgen, poisoned, acked, crashes>>
  BY DEF Recycle, RecycleFails, Return, Observed
<1>2. PICK H \in SUBSET SupersededHots, S \in SUBSET SupersededSnaps,
           C \in SUBSET SupersededContent : RemoveFiles(H, S, C)
  BY DEF Recycle, RecycleFails
<1>3. poisoned = FALSE /\ mem = auth
  BY <1>1 DEF AuthorityInvariant, Placed, MemoryFollows, Working
<1>4. /\ auth # None /\ gen = disk.manifest /\ pgen = SealedPgen(disk)
      /\ disk.manifest \in DOMAIN disk.hots
  BY <1>1, <1>3, WorkingFacts DEF OpeningSteps, CreatingSteps
<1>5. pgen \in Gens /\ Holds(auth, Content0)
  BY <1>1, <1>3 DEF AuthorityInvariant, BytesHeld, CreatingSteps
<1>6. IsDirectory(disk) /\ SealsInOrder(disk) /\ auth = Authoritative(disk) /\ IsSynced(synced)
  BY DEF AuthorityInvariant, DirectoryTrue
<1>7. gen \notin H /\ gen \notin S /\ \A x \in C : x[2] # pgen
  <2>1. gen \in Nat
    BY <1>4, <1>6 DEF IsDirectory
  <2>2. gen \notin H
    BY <1>2, <2>1 DEF SupersededHots
  <2>3. gen \notin S
    BY <1>2 DEF SupersededSnaps
  <2>4. \A x \in SupersededContent : x[2] # pgen
    BY DEF SupersededContent
  <2>5. QED
    BY <1>2, <2>2, <2>3, <2>4
<1>8. disk' = Removed(H, S, C) /\ auth' = Authoritative(disk')
  BY <1>2, Zenon DEF RemoveFiles, Writes, Removed
<1>9. /\ IsDirectory(disk') /\ SealsInOrder(disk') /\ disk'.manifest = disk.manifest
      /\ gen \in DOMAIN disk'.hots /\ disk'.hots[gen] = disk.hots[gen]
      /\ gen \in DOMAIN disk.snaps =>
            gen \in DOMAIN disk'.snaps /\ disk'.snaps[gen] = disk.snaps[gen]
      /\ disk'.content[pgen].payload = disk.content[pgen].payload
      /\ disk'.content[pgen].nodes = disk.content[pgen].nodes
  <2>1. /\ IsDirectory(disk') /\ SealsInOrder(disk') /\ disk'.manifest = disk.manifest
        /\ disk'.content[pgen].payload = disk.content[pgen].payload
        /\ disk'.content[pgen].nodes = disk.content[pgen].nodes
    BY <1>5, <1>6, <1>7, <1>8, RemovedFiles
  <2>2. disk'.hots = Drop(disk.hots, H) /\ disk'.snaps = Drop(disk.snaps, S)
    BY <1>6, <1>8 DEF IsDirectory, Removed
  <2>3. QED
    BY <1>4, <1>7, <2>1, <2>2 DEF Drop
<1>10. disk.manifest = 0 \/ disk.manifest \in DOMAIN disk.snaps
  BY <1>4, <1>6, StoreFacts
<1>11. SameSeal(disk, disk') /\ HotFrames(disk', gen) = HotFrames(disk, gen)
       /\ disk'.manifest \in DOMAIN disk'.hots
  BY <1>4, <1>7, <1>9, <1>10 DEF SameSeal, HotFrames
<1>12. /\ KeepsContent(Content0, disk'.content[pgen], Len(auth.arena))
       /\ FilesReady(disk'.content[pgen])
  BY <1>5, <1>9 DEF KeepsContent, Holds, Content0, FilesReady, FilesCover
<1>13. /\ DirectoryTrue' /\ auth' = auth
       /\ crashes'.outages = 0 => Recoverable'
       /\ SealedPgen(disk') = SealedPgen(disk)
  BY <1>1, <1>3, <1>6, <1>8, <1>9, <1>11, <1>12, KeepingStep
<1>14. QED
  BY <1>1, <1>3, <1>4, <1>9, <1>11, <1>12, <1>13, Resting DEF RestingSteps

-----------------------------------------------------------------------------
(* Stopping *)

\* What a power loss leaves of a file is a file.
LEMMA FileLeftIs ==
    ASSUME NEW file, IsFile(file), NEW n \in Int, NEW left \in FileLeft(file, n)
    PROVE  IsFile(left)
<1>1. IsFile(AbsentFile) /\ IsFile(BareFile)
  BY EmptyIsSeq DEF AbsentFile, BareFile, IsFile
<1>2. ASSUME NEW k \in (IF n < 0 THEN 0 ELSE n)..Len(file.data)
      PROVE  IsFile(Truncated(file, k))
  <2>1. Len(file.data) \in Nat
    BY IsSeqFacts DEF IsFile
  <2>2. k \in Nat
    BY <2>1
  <2>3. QED
    BY <2>2, TruncatedFacts
<1>3. QED
  BY <1>1, <1>2 DEF FileLeft

\* What a power loss leaves of a hot log is a hot log.
LEMMA HotLeftIs ==
    ASSUME IsDirectory(disk), IsSynced(synced), NEW g \in DOMAIN disk.hots,
           NEW left \in HotLeft(g), left # None
    PROVE  DOMAIN left = {"frames", "torn"} /\ Frames(left.frames)
<1> DEFINE hot == disk.hots[g]
           n == IF g \in DOMAIN synced.hots THEN synced.hots[g] ELSE 0
<1>1. Frames(hot.frames) /\ n \in Nat
  BY DEF IsDirectory, IsSynced
<1>2. PICK k \in n..Len(hot.frames), torn \in {FALSE, hot.torn \/ n < Len(hot.frames)} :
         left = [frames |-> SubSeq(hot.frames, 1, k), torn |-> torn]
  BY DEF HotLeft
<1> HIDE DEF n, hot
<1>3. IsSeq(hot.frames) /\ Len(hot.frames) \in Nat
  BY <1>1, IsSeqFacts DEF Frames
<1>4. k \in 0..Len(hot.frames)
  BY <1>1, <1>2, <1>3
<1>5. /\ IsSeq(SubSeq(hot.frames, 1, k)) /\ Len(SubSeq(hot.frames, 1, k)) = k
      /\ \A i \in 1..k : SubSeq(hot.frames, 1, k)[i] = hot.frames[i]
  BY <1>3, <1>4, IsSeqPrefix
<1>6. \A i \in 1..k : i \in 1..Len(hot.frames)
  BY <1>3, <1>4
<1>7. Frames(SubSeq(hot.frames, 1, k))
  BY <1>1, <1>5, <1>6 DEF Frames
<1>8. QED
  BY <1>2, <1>7

\* What a power loss leaves is a directory, nothing of it in doubt any more.
LEMMA PowerLossKeeps ==
    ASSUME AuthorityInvariant, PowerLoss
    PROVE  AuthorityInvariant'
<1>1. /\ IsDirectory(disk) /\ SealsInOrder(disk) /\ IsSynced(synced)
      /\ DOMAIN crashes = {"kills", "outages"}
  BY DEF AuthorityInvariant, DirectoryTrue
<1>2. /\ crashes' = [crashes EXCEPT !.outages = 1] /\ synced' = AllSynced(disk')
      /\ pc' = "closed" /\ poisoned' = FALSE
  BY DEF PowerLoss, Stop
<1>3. PICK m \in {synced.manifest, disk.manifest},
           S \in SUBSET (DOMAIN disk.snaps \ synced.snaps),
           hots \in EachOf(DOMAIN disk.hots, HotLeft),
           content \in EachOf(Gens, ContentLeft) :
         Writes([manifest |-> m, snaps |-> Drop(disk.snaps, S),
                 hots |-> Drop(hots, {g \in DOMAIN hots : hots[g] = None}),
                 content |-> content])
  BY DEF PowerLoss
<1> DEFINE snaps == Drop(disk.snaps, S)
           logs == Drop(hots, {g \in DOMAIN hots : hots[g] = None})
           e == [manifest |-> m, snaps |-> snaps, hots |-> logs, content |-> content]
<1>4. disk' = e /\ auth' = Authoritative(disk')
  BY <1>3 DEF Writes
<1>5. m \in Nat
  BY <1>1, <1>3 DEF IsSynced, IsDirectory
<1>6. DOMAIN snaps \subseteq DOMAIN disk.snaps /\ \A g \in DOMAIN snaps : snaps[g] = disk.snaps[g]
  BY DEF Drop
<1>7. \A g \in DOMAIN logs : DOMAIN logs[g] = {"frames", "torn"} /\ Frames(logs[g].frames)
  <2>1. DOMAIN hots = DOMAIN disk.hots /\ \A g \in DOMAIN disk.hots : hots[g] \in HotLeft(g)
    BY <1>3 DEF EachOf
  <2>2. \A g \in DOMAIN logs : g \in DOMAIN disk.hots /\ logs[g] = hots[g] /\ hots[g] # None
    BY <2>1 DEF Drop
  <2> HIDE DEF logs
  <2>3. QED
    BY <1>1, <2>1, <2>2, HotLeftIs
<1>8. DOMAIN content = Gens /\ \A g \in Gens : AreFiles(content[g])
  <2>1. DOMAIN content = Gens /\ \A g \in Gens : content[g] \in ContentLeft(g)
    BY <1>3 DEF EachOf
  <2>2. ASSUME NEW g \in Gens PROVE AreFiles(content[g])
    <3>1. /\ DOMAIN content[g] = {"payload", "nodes"}
          /\ content[g].payload \in FileLeft(disk.content[g].payload, synced.content[g].payload)
          /\ content[g].nodes \in FileLeft(disk.content[g].nodes, synced.content[g].nodes)
      BY <2>1 DEF ContentLeft
    <3>2. /\ IsFile(disk.content[g].payload) /\ IsFile(disk.content[g].nodes)
          /\ synced.content[g].payload \in Int /\ synced.content[g].nodes \in Int
      BY <1>1 DEF IsDirectory, AreFiles, IsSynced
    <3>3. QED
      BY <3>1, <3>2, FileLeftIs DEF AreFiles
  <2>3. QED
    BY <2>1, <2>2
<1> HIDE DEF snaps, logs
<1>9. /\ DOMAIN e = {"manifest", "snaps", "hots", "content"} /\ e.manifest = m
      /\ e.snaps = snaps /\ e.hots = logs /\ e.content = content
  OBVIOUS
<1> HIDE DEF e
<1>10. IsDirectory(e) /\ SealsInOrder(e)
  BY <1>1, <1>5, <1>6, <1>7, <1>8, <1>9 DEF IsDirectory, SealsInOrder
<1>11. IsSynced(AllSynced(e))
  <2>1. \A g \in DOMAIN e.hots : Len(e.hots[g].frames) \in Nat
    BY <1>10, IsSeqFacts DEF IsDirectory, Frames
  <2>2. ASSUME NEW g \in Gens
        PROVE  FileSynced(e.content[g].payload) \in Int /\ FileSynced(e.content[g].nodes) \in Int
    <3>1. IsSeq(e.content[g].payload.data) /\ IsSeq(e.content[g].nodes.data)
      BY <1>10 DEF IsDirectory, AreFiles, IsFile
    <3>2. Len(e.content[g].payload.data) \in Nat /\ Len(e.content[g].nodes.data) \in Nat
      BY <3>1, IsSeqFacts
    <3>3. QED
      BY <3>2 DEF FileSynced
  <2>3. QED
    BY <1>5, <1>9, <2>1, <2>2 DEF AllSynced, IsSynced
<1>12. crashes'.outages = 1 /\ DOMAIN crashes' = {"kills", "outages"}
  BY <1>1, <1>2
<1>13. DirectoryTrue'
  BY <1>2, <1>4, <1>10, <1>11, <1>12 DEF DirectoryTrue
<1>14. crashes'.outages = 0 => Recoverable'
  BY <1>12
<1>15. QED
  BY <1>2, <1>13, <1>14, Closing

-----------------------------------------------------------------------------
(* The invariant holds *)

LEMMA InitKeeps ==
    ASSUME NoneIsNoFunction, Init
    PROVE  AuthorityInvariant /\ auth = NewStore
<1>1. /\ disk = EmptyDisk /\ auth = Authoritative(EmptyDisk) /\ synced = AllSynced(EmptyDisk)
      /\ pc = "closed" /\ poisoned = FALSE
      /\ acked = Promise(NewStore)
      /\ crashes = [kills |-> 0, outages |-> 0]
  BY DEF Init
<1>2. /\ DOMAIN disk = {"manifest", "snaps", "hots", "content"} /\ disk.manifest = 0
      /\ DOMAIN disk.snaps = {} /\ DOMAIN disk.hots = {} /\ disk.hots = EmptyMap
      /\ DOMAIN disk.content = Gens /\ \A g \in Gens : disk.content[g] = AbsentContent
  BY <1>1 DEF EmptyDisk, EmptyMap
<1>3. AreFiles(AbsentContent)
  BY EmptyIsSeq DEF AreFiles, IsFile, AbsentContent, AbsentFile
<1>4. IsDirectory(disk) /\ SealsInOrder(disk)
  BY <1>2, <1>3 DEF IsDirectory, SealsInOrder
<1>5. IsSynced(synced)
  <2>1. FileSynced(AbsentFile) = -1
    BY DEF FileSynced, AbsentFile
  <2>2. QED
    BY <1>1, <1>2, <2>1 DEF IsSynced, AllSynced, AbsentContent
<1>6. auth = NewStore
  <2>1. Base(disk) = NewStore /\ HotFrames(disk, disk.manifest) = <<>>
    BY <1>2 DEF Base, HotFrames
  <2>2. Whole(NewStore) /\ BindingsUnique(NewStore) /\ NewStore # None /\ <<>> # None
    BY NewStoreWhole, WholeIsSome, EmptyIsSeq, SeqIsSome
  <2>3. auth = ReplaySuffix(NewStore, <<>>, SealedPgen(disk), Current(disk))
    BY <1>1, <1>2, <2>1, <2>2, AuthoritativeIs
  <2>4. QED
    BY <2>2, <2>3, ReplayNothing DEF ReplaySuffix
<1>7. Recoverable
  <2>1. NewStore # None /\ Sound(NewStore) /\ Len(NewStore.arena) = 0
    BY NewStoreWhole, WholeIsSome, NewStoreSound
  <2>2. PayloadWhole(Current(disk), Len(auth.arena))
    BY <1>6, <2>1 DEF PayloadWhole
  <2>3. Keeps(Promise(NewStore), Promise(NewStore))
    BY DEF Keeps
  <2>4. QED
    BY <1>1, <1>2, <1>6, <2>1, <2>2, <2>3 DEF Recoverable
<1>8. DirectoryTrue
  BY <1>1, <1>4, <1>5 DEF DirectoryTrue
<1>9. QED
  BY <1>1, <1>6, <1>7, <1>8
  DEF AuthorityInvariant, Placed, GenerationKnown, MemoryFollows, JobFits, PublicationFits,
      Published, BytesHeld, BeforeOutage, Working, CreatingSteps, ContentSteps, PreparingSteps

\* Every step keeps the invariant, and is a step of the store, a power loss or
\* no step of the recovered store at all.
LEMMA NextKeeps ==
    ASSUME NoneIsNoFunction, AuthorityInvariant, [Next]_vars
    PROVE  AuthorityInvariant' /\ (auth' = auth \/ StoreStep(auth, auth') \/ PowerLoss)
<1>1. CASE Opening
  <2>1. CASE CreatePayload \/ CreateNodes
    BY <2>1, CreateContentFileKeeps DEF CreatePayload, CreateNodes
  <2>2. CASE Open \/ HealOnOpen \/ SyncHeaders \/ OpenHot \/ OpenFails
    BY <2>2, OpenKeeps, HealOnOpenKeeps, SyncHeadersKeeps, OpenHotKeeps, OpenFailsKeeps
  <2>3. QED
    BY <1>1, <2>1, <2>2, WriteHeaderKeeps DEF Opening
<1>2. CASE Calls
  <2>1. CASE \E b \in Bindings \cup {None} : BeginCreate(b)
    BY <2>1, BeginCreateKeeps
  <2>2. CASE \E op \in SpliceOps, r \in Requests \cup {None} : BeginSplice(op, r)
    BY <2>2, BeginSpliceKeeps
  <2>3. CASE \E op \in ForkOps, r \in Requests \cup {None} : BeginFork(op, r)
    BY <2>3, BeginForkKeeps
  <2>4. CASE \E op \in Ops, r \in Requests : AnswerReplayed(op, r)
    BY <2>4, AnswerReplayedKeeps
  <2>5. CASE \E v \in VersionIds : BeginExpire(v)
    BY <2>5, BeginExpireKeeps
  <2>6. CASE \E r \in Requests : BeginRetire(r)
    BY <2>6, BeginRetireKeeps
  <2>7. CASE BeginSeal \/ BuildGc \/ BuildGcFails
    BY <2>7, BeginSealKeeps, BuildGcKeeps, BuildGcFailsKeeps
  <2>8. QED
    BY <1>2, <2>1, <2>2, <2>3, <2>4, <2>5, <2>6, <2>7 DEF Calls
<1>3. CASE Committing
  <2>1. CASE SyncFrameFails
    BY <2>1, Poisoning DEF SyncFrameFails
  <2>2. CASE AppendPayload \/ AppendPayloadFails \/ AppendNodes \/ AppendNodesFails
    BY <2>2, AppendPayloadKeeps, AppendPayloadFailsKeeps, AppendNodesKeeps,
       AppendNodesFailsKeeps
  <2>3. CASE SyncContent \/ SyncContentFails \/ AppendFrame \/ AppendFrameFails \/ SyncFrame
    BY <2>3, SyncContentKeeps, SyncContentFailsKeeps, AppendFrameKeeps,
       AppendFrameFailsKeeps, SyncFrameKeeps
  <2>4. QED
    BY <1>3, <2>1, <2>2, <2>3 DEF Committing
<1>4. CASE Publishing
  <2>1. CASE SyncManifestFails
    BY <2>1, Poisoning DEF SyncManifestFails
  <2>2. QED
    BY <1>4, <2>1, PublishSnapshotKeeps, PublishHotKeeps, AbandonKeeps, RenameManifestKeeps,
       SyncManifestKeeps, RecycleKeeps DEF Publishing
<1>5. CASE ProcessCrash
  BY <1>5, ProcessCrashKeeps
<1>6. CASE PowerLoss
  BY <1>6, PowerLossKeeps
<1>7. CASE UNCHANGED vars
  <2>1. UNCHANGED <<disk, auth, synced, pc, mem, gen, pgen, poisoned, job, acked, crashes>>
    BY <1>7 DEF vars, directory, writerVars
  <2>2. DirectoryTrue' /\ Placed' /\ GenerationKnown' /\ MemoryFollows'
    BY <2>1 DEF AuthorityInvariant, DirectoryTrue, Placed, GenerationKnown, MemoryFollows,
       Working, CreateJob
  <2>3. JobFits' /\ PublicationFits'
    BY <2>1 DEF AuthorityInvariant, JobFits, PublicationFits, Published, SpliceJob, OtherJob,
       CreateJob, DeltaWritten, Frontier, Content0, NextGen
  <2>4. BytesHeld' /\ BeforeOutage'
    BY <2>1 DEF AuthorityInvariant, BytesHeld, BeforeOutage, Recoverable, Frontier, Content0
  <2>5. QED
    BY <2>1, <2>2, <2>3, <2>4 DEF AuthorityInvariant
<1>8. QED
  BY <1>1, <1>2, <1>3, <1>4, <1>5, <1>6, <1>7 DEF Next

\* Whatever the interleaving of calls, failing I/O, kills, power loss and
\* reopens, the writer's memory, job and files stand to the recovered store as
\* AuthorityInvariant says.
THEOREM AuthorityInvariantHolds ==
    ASSUME NoneIsNoFunction
    PROVE  Spec => []AuthorityInvariant
<1>1. Init => AuthorityInvariant
  BY InitKeeps
<1>2. AuthorityInvariant /\ [Next]_vars => AuthorityInvariant'
  BY NextKeeps
<1>3. QED
  BY <1>1, <1>2, PTL DEF Spec

-----------------------------------------------------------------------------
(* What the writer promises *)

\* A writer that is not poisoned never serves or builds on a state that a
\* reopen would not give back, also after a power loss.
THEOREM MemoryTrue ==
    ASSUME NoneIsNoFunction
    PROVE  Spec => []MemoryIsAuthority
<1>1. AuthorityInvariant => MemoryIsAuthority
  BY ReadyFacts DEF MemoryIsAuthority
<1>2. QED
  BY <1>1, AuthorityInvariantHolds, PTL

\* Committed content is never touched by a failed append, a rollback, a heal
\* or a collection, however many calls fail and writers are killed.
THEOREM BytesStable ==
    ASSUME NoneIsNoFunction
    PROVE  Spec => [](crashes.outages = 0 => CommittedBytesStable)
<1>1. ASSUME AuthorityInvariant, crashes.outages = 0 PROVE CommittedBytesStable
  <2>1. SUFFICES ASSUME pc \notin CreatingSteps \cup {"closed"}
                 PROVE  /\ FilesReady(Content0)
                        /\ FilesCover(Content0, Frontier)
                        /\ SubSeq(Content0.nodes.data, 1, Frontier) = mem.arena
                        /\ None \notin {Content0.payload.data[i] : i \in 1..Frontier}
    BY DEF CommittedBytesStable, CreatingSteps
  <2>2. /\ pgen \in Gens /\ Whole(mem) /\ Holds(mem, Content0)
        /\ PayloadWhole(Content0, Frontier)
    BY <1>1, <2>1 DEF AuthorityInvariant, BytesHeld, BeforeOutage
  <2>3. IsSeq(mem.arena) /\ Len(mem.arena) \in Nat
    BY <2>2, IsSeqFacts DEF Whole
  <2> DEFINE q == Content0.nodes.data
  <2>4. IsSeq(q) /\ Len(q) \in Nat
    BY <1>1, <2>2, IsSeqFacts
    DEF AuthorityInvariant, DirectoryTrue, IsDirectory, AreFiles, IsFile, Content0
  <2> HIDE DEF q
  <2>5. Frontier \in 0..Len(q) /\ \A i \in 1..Frontier : q[i] = mem.arena[i]
    BY <2>2, <2>3, <2>4 DEF Frontier, Holds, FilesCover, q
  <2>6. /\ IsSeq(SubSeq(q, 1, Frontier)) /\ Len(SubSeq(q, 1, Frontier)) = Len(mem.arena)
        /\ \A i \in 1..Len(mem.arena) : SubSeq(q, 1, Frontier)[i] = mem.arena[i]
    BY <2>4, <2>5, IsSeqPrefix DEF Frontier
  <2>7. SubSeq(q, 1, Frontier) = mem.arena
    BY <2>3, <2>6, IsSeqEqual
  <2>8. QED
    BY <2>2, <2>7 DEF q, Holds, Frontier, PayloadWhole
<1>2. AuthorityInvariant => (crashes.outages = 0 => CommittedBytesStable)
  BY <1>1
<1>3. QED
  BY <1>2, AuthorityInvariantHolds, PTL

\* A directory that was opened once can be opened again wherever its writers
\* were killed, at any number of kills and failing calls.
THEOREM Reopenable ==
    ASSUME NoneIsNoFunction
    PROVE  Spec => []StaysOpenable
<1>1. ASSUME AuthorityInvariant, disk.hots # EmptyMap, crashes.outages = 0
      PROVE  Openable
  <2>1. auth # None /\ FilesReady(Current(disk)) /\ auth = Authoritative(disk)
    BY <1>1 DEF AuthorityInvariant, BeforeOutage, Recoverable, DirectoryTrue
  <2>2. FilesPresent(Current(disk))
    BY <2>1 DEF FilesReady, FilesPresent
  <2>3. disk.manifest = 0 => FilesReady(disk.content[0])
    BY <2>1 DEF Current, SealedPgen
  <2>4. Recovered(disk) # None
    BY <2>1, <2>3 DEF Recovered, GenesisHalfBuilt
  <2>5. QED
    BY <2>2, <2>4 DEF Openable, Current
<1>2. AuthorityInvariant => StaysOpenable
  BY <1>1 DEF StaysOpenable
<1>3. QED
  BY <1>2, AuthorityInvariantHolds, PTL

\* Every acknowledged effect is recovered.
AckedRecovered == auth # None /\ Keeps(Promise(auth), acked)

\* Until power is lost, whatever was acknowledged is recovered, at every cut of
\* every operation, seal and collection: AckedSurvives without its bound on the
\* number of kills.
THEOREM AckedSurvivesKills ==
    ASSUME NoneIsNoFunction
    PROVE  Spec => [](crashes.outages = 0 => AckedRecovered /\ AckedSurvives)
<1>1. AuthorityInvariant => (crashes.outages = 0 => AckedRecovered /\ AckedSurvives)
  BY DEF AuthorityInvariant, BeforeOutage, Recoverable, AckedRecovered, AckedSurvives
<1>2. QED
  BY <1>1, AuthorityInvariantHolds, PTL

-----------------------------------------------------------------------------
(* The directory implements the store *)

LEMMA SameValues ==
    /\ HS!NewStore = NewStore /\ HS!SpliceOps = SpliceOps /\ HS!ForkOps = ForkOps
    /\ HS!VersionIds = VersionIds
BY Zenon DEF HS!NewStore, NewStore, HS!EmptyMap, EmptyMap, HS!SpliceOps, SpliceOps,
   HS!ForkOps, ForkOps, HS!VersionIds, VersionIds, HS!HistoryIds, HistoryIds

LEMMA SameGuards ==
    ASSUME NEW s, NEW op, NEW r, NEW v, NEW b
    PROVE  /\ HS!CreateFresh(s, b) <=> CreateFresh(s, b)
           /\ HS!PreviewFresh(s, op, r) <=> PreviewFresh(s, op, r)
           /\ HS!ExpireFresh(s, v) <=> ExpireFresh(s, v)
           /\ HS!RetireFresh(s, r) <=> RetireFresh(s, r)
           /\ HS!GcReady(s) <=> GcReady(s)
<1>1. HS!CreateFresh(s, b) <=> CreateFresh(s, b)
  BY Zenon DEF HS!CreateFresh, CreateFresh
<1>2. HS!PreviewFresh(s, op, r) <=> PreviewFresh(s, op, r)
  <2>1. HS!Valid(s, op) <=> Valid(s, op)
    BY Zenon DEF HS!Valid, Valid, HS!ForkValid, ForkValid, HS!SpliceValid, SpliceValid,
       HS!ParentInHistory, ParentInHistory, HS!Known, Known, HS!ParentLen, ParentLen,
       HS!SpliceLen, SpliceLen
  <2>2. HS!Unrecorded(s, r) <=> Unrecorded(s, r)
    BY Zenon DEF HS!Unrecorded, Unrecorded, HS!Ledger, Ledger
  <2>3. HS!Retained(s, op.parent) <=> Retained(s, op.parent)
    BY Zenon DEF HS!Retained, Retained, HS!Known, Known
  <2>4. QED
    BY <2>1, <2>2, <2>3, Zenon DEF HS!PreviewFresh, PreviewFresh
<1>3. HS!ExpireFresh(s, v) <=> ExpireFresh(s, v)
  BY Zenon DEF HS!ExpireFresh, ExpireFresh, HS!Known, Known
<1>4. HS!RetireFresh(s, r) <=> RetireFresh(s, r)
  BY Zenon DEF HS!RetireFresh, RetireFresh
<1>5. HS!GcReady(s) <=> GcReady(s)
  BY Zenon DEF HS!GcReady, GcReady, HS!Content, Content
<1>6. QED
  BY <1>1, <1>2, <1>3, <1>4, <1>5

LEMMA SameEffects ==
    ASSUME NEW s, NEW op, NEW r, NEW v, NEW b
    PROVE  /\ HS!Create(s, b) = Create(s, b)
           /\ HS!ApplySplice(s, op, r) = ApplySplice(s, op, r)
           /\ HS!ApplyFork(s, op, r) = ApplyFork(s, op, r)
           /\ HS!ApplyExpire(s, v) = ApplyExpire(s, v)
           /\ HS!ApplyRetire(s, r) = ApplyRetire(s, r)
           /\ HS!ApplyGc(s) = ApplyGc(s)
<1>1. HS!Create(s, b) = Create(s, b)
  BY Zenon DEF HS!Create, Create, HS!PutBinding, PutBinding, HS!Put, Put
<1>2. ASSUME NEW t, NEW o, NEW q, NEW root, NEW len
      PROVE  HS!Publish(t, o, q, root, len) = Publish(t, o, q, root, len)
  <2>1. ASSUME NEW x PROVE HS!Evictions(x) = Evictions(x)
    BY Zenon DEF HS!Evictions, Evictions, HS!Overflowing, Overflowing, HS!Oldest, Oldest,
       HS!Cardinality, Cardinality
  <2>2. ASSUME NEW x PROVE HS!EnforceHorizon(x) = EnforceHorizon(x)
    BY <2>1, Zenon DEF HS!EnforceHorizon, EnforceHorizon, HS!Oldest, Oldest, HS!Drop, Drop
  <2>3. ASSUME NEW x, NEW n PROVE HS!PushReceipt(x, q, o, n) = PushReceipt(x, q, o, n)
    BY <2>2, Zenon DEF HS!PushReceipt, PushReceipt, HS!Put, Put
  <2>4. HS!Meaning(t, o) = Meaning(t, o)
    BY Zenon DEF HS!Meaning, Meaning, HS!Edit, Edit
  <2>5. QED
    BY <2>3, <2>4, Zenon DEF HS!Publish, Publish, HS!PutBinding, PutBinding, HS!Put, Put
<1>3. HS!ApplySplice(s, op, r) = ApplySplice(s, op, r)
  BY <1>2, Zenon DEF HS!ApplySplice, ApplySplice, HS!AdoptTree, AdoptTree, HS!Spelled, Spelled,
     HS!Content, Content, HS!Edit, Edit, HS!SpliceLen, SpliceLen, HS!ParentLen, ParentLen
<1>4. HS!ApplyFork(s, op, r) = ApplyFork(s, op, r)
  BY <1>2, Zenon DEF HS!ApplyFork, ApplyFork
<1>5. HS!ApplyExpire(s, v) = ApplyExpire(s, v) /\ HS!ApplyRetire(s, r) = ApplyRetire(s, r)
  BY Zenon DEF HS!ApplyExpire, ApplyExpire, HS!ApplyRetire, ApplyRetire,
     HS!MoveToRetired, MoveToRetired, HS!ReceiptOf, ReceiptOf, HS!Drop, Drop
<1>6. HS!ApplyGc(s) = ApplyGc(s)
  <2>1. ASSUME NEW R PROVE HS!Renumbering(R) = Renumbering(R)
    BY Zenon DEF HS!Renumbering, Renumbering, HS!Cardinality, Cardinality
  <2>2. ASSUME NEW R, NEW f PROVE HS!Repacked(s, R, f) = Repacked(s, R, f)
    BY Zenon DEF HS!Repacked, Repacked, HS!Cardinality, Cardinality
  <2>3. ASSUME NEW f PROVE HS!Relocated(s, f) = Relocated(s, f)
    BY Zenon DEF HS!Relocated, Relocated
  <2>4. HS!RetainedRoots(s) = RetainedRoots(s)
    BY Zenon DEF HS!RetainedRoots, RetainedRoots
  <2>5. QED
    BY <2>1, <2>2, <2>3, <2>4, Zenon DEF HS!ApplyGc, ApplyGc
<1>7. QED
  BY <1>1, <1>3, <1>4, <1>5, <1>6

LEMMA StoreStepIs ==
    ASSUME StoreStep(auth, auth')
    PROVE  HS!Next
<1>1. CASE \E b \in Bindings \cup {None} : CreateFresh(auth, b) /\ auth' = Create(auth, b)
  BY <1>1, SameGuards, SameEffects DEF HS!Next, HS!CreateHistory, HS!CreateHistoryWithBinding
<1>2. CASE \E op \in SpliceOps, r \in Requests \cup {None} :
              PreviewFresh(auth, op, r) /\ auth' = ApplySplice(auth, op, r)
  BY <1>2, SameValues, SameGuards, SameEffects DEF HS!Next, HS!Splice
<1>3. CASE \E op \in ForkOps, r \in Requests \cup {None} :
              PreviewFresh(auth, op, r) /\ auth' = ApplyFork(auth, op, r)
  BY <1>3, SameValues, SameGuards, SameEffects DEF HS!Next, HS!Fork
<1>4. CASE \E v \in VersionIds : ExpireFresh(auth, v) /\ auth' = ApplyExpire(auth, v)
  BY <1>4, SameValues, SameGuards, SameEffects DEF HS!Next, HS!Expire
<1>5. CASE \E r \in Requests : RetireFresh(auth, r) /\ auth' = ApplyRetire(auth, r)
  BY <1>5, SameGuards, SameEffects DEF HS!Next, HS!RetireRequest
<1>6. CASE GcReady(auth) /\ auth' = ApplyGc(auth)
  BY <1>6, SameGuards, SameEffects DEF HS!Next, HS!Gc
<1>7. QED
  BY <1>1, <1>2, <1>3, <1>4, <1>5, <1>6 DEF StoreStep

\* Read through recovery, the directory changes only by whole operations of
\* HistoryStore, or by a power loss: each crash cut recovers the store before
\* the operation in flight or the store after it.
THEOREM DirectoryImplementsStore ==
    ASSUME NoneIsNoFunction
    PROVE  Spec => ImplementsStore
<1>1. Init => HS!Init
  BY InitKeeps, SameValues DEF HS!Init
<1>2. AuthorityInvariant /\ [Next]_vars => [HS!Next \/ PowerLoss]_auth
  BY NextKeeps, StoreStepIs
<1>3. QED
  BY <1>1, <1>2, AuthorityInvariantHolds, PTL DEF Spec, ImplementsStore

-----------------------------------------------------------------------------
(* Power loss *)

(***************************************************************************)
(* A power loss may leave the directory as it is seen, or without the last *)
(* frame or the last manifest when that is not synced yet.  Both must be   *)
(* durable as far as their recovered store reaches.  This is kept for a    *)
(* writer nothing has disturbed: no failing call and no stop so far.       *)
(***************************************************************************)

StartingSteps == {"closed", "syncHeaders"} \cup CreatingSteps
UnsyncedSteps == {"syncFrame", "syncManifest"}

Undisturbed == Stops = 0 /\ faults = 0

CountsTrue ==
    /\ crashes.kills \in Nat /\ crashes.outages \in Nat
    /\ faults \in Nat

\* The directory without the effect that is not synced yet.
Previous ==
    CASE pc = "syncFrame" ->
            [disk EXCEPT !.hots[gen].frames = SubSeq(@, 1, Len(@) - 1)]
      [] pc = "syncManifest" -> [disk EXCEPT !.manifest = gen]
      [] OTHER -> disk

\* n deltas of the current content files of d are durable.
ContentDurable(p, n) == synced.content[p].payload >= n /\ synced.content[p].nodes >= n

\* d is there after a power loss, as far as its recovered store needs it, and
\* that store keeps what was acknowledged.
Durable(d) ==
    LET a == Authoritative(d)
        m == d.manifest
    IN  /\ a # None /\ Keeps(Promise(a), acked)
        /\ m # 0 => m \in synced.snaps
        /\ m \in DOMAIN d.hots <=> m \in DOMAIN synced.hots
        /\ IF pc \in StartingSteps THEN m = 0 /\ Len(a.arena) = 0
           ELSE ContentDurable(SealedPgen(d), Len(a.arena))

\* Every frame but the last of an operation in flight is synced.
FramesDurable(d) ==
    d.manifest \in DOMAIN d.hots => synced.hots[d.manifest] = Len(d.hots[d.manifest].frames)

\* The first writer creates its files; it finds none.
FirstOpen ==
    /\ pc = "closed" => disk = EmptyDisk
    /\ pc = "createPayload" => Content0.payload.state = "absent"
    /\ pc \in {"createPayload", "createNodes"} => Content0.nodes.state = "absent"
    /\ pc # "heal"

\* What is to become authoritative is synced before.
NextDurable ==
    /\ pc = "frame" /\ job.type = "commit" /\ job.op.kind = "splice" =>
          ContentDurable(pgen, Frontier + 1)
    /\ pc \in PreparingSteps => ContentDurable(job.pgen, Len(job.store.arena))
    /\ pc \in {"nextHot", "manifest"} => NextGen \in synced.snaps
    /\ pc = "manifest" => NextGen \in DOMAIN synced.hots /\ synced.hots[NextGen] = 0

DurableState ==
    /\ Durable(disk)
    /\ pc \in UnsyncedSteps => Durable(Previous)
    /\ FramesDurable(Previous)
    /\ pc = "syncManifest" => FramesDurable(disk)
    /\ pc = "syncFrame" => Len(disk.hots[gen].frames) >= 1
    /\ synced.manifest = Previous.manifest
    /\ FirstOpen
    /\ NextDurable

\* What was acknowledged is recovered, up to the first stop.
AckedKept == Stops <= 1 => AckedRecovered

DurableInvariant ==
    /\ CountsTrue
    /\ AckedKept
    /\ Undisturbed => DurableState

-----------------------------------------------------------------------------
(* What a step of the store keeps *)

LEMMA KeepsReflexive ==
    ASSUME NEW p
    PROVE  Keeps(p, p)
BY DEF Keeps

\* An operation of the store breaks no promise.
LEMMA StoreStepKeeps ==
    ASSUME NoneIsNoFunction, NEW s, Whole(s), NEW t, StoreStep(s, t)
    PROVE  t # None /\ Keeps(Promise(t), Promise(s))
<1>1. SUFFICES (Whole(t) /\ OnlyAdds(s, t)) \/ t = ApplyGc(s)
  <2>1. CASE Whole(t) /\ OnlyAdds(s, t)
    BY <2>1, WholeIsSome, KeepsMore, KeepsReflexive
  <2>2. CASE t = ApplyGc(s)
    <3>1. Keeps(Promise(t), Promise(s))
      BY <2>2, GcPromise, KeepsReflexive
    <3>2. t # None
      <4> DEFINE packed == Repacked(s, RetainedRoots(s), Renumbering(RetainedRoots(s)))
                 moved == Relocated(s, Renumbering(RetainedRoots(s)))
      <4>1. t = [s EXCEPT !.arena = packed, !.versions = moved]
        BY <2>2, Zenon DEF ApplyGc
      <4> HIDE DEF packed, moved
      <4>2. IsStore(t)
        BY <4>1, Fields DEF Whole, IsStore
      <4>3. QED
        BY <4>2 DEF IsStore, NoneIsNoFunction
    <3>3. QED
      BY <3>1, <3>2
  <2>3. QED
    BY <1>1, <2>1, <2>2
<1>2. CASE \E b \in Bindings \cup {None} : CreateFresh(s, b) /\ t = Create(s, b)
  BY <1>2, CreateWhole
<1>3. CASE \E op \in SpliceOps, r \in Requests \cup {None} :
              PreviewFresh(s, op, r) /\ t = ApplySplice(s, op, r)
  BY <1>3, AdoptTreeWhole DEF ApplySplice, PreviewFresh
<1>4. CASE \E op \in ForkOps, r \in Requests \cup {None} :
              PreviewFresh(s, op, r) /\ t = ApplyFork(s, op, r)
  <2>1. PICK op \in ForkOps, r \in Requests \cup {None} :
              PreviewFresh(s, op, r) /\ t = ApplyFork(s, op, r)
    BY <1>4
  <2>2. op.parent # None
    BY StoreAssumption DEF ForkOps, VersionIds
  <2>3. Unrecorded(s, r) /\ op.parent \in DOMAIN s.versions /\ op.parent \notin s.expired
    BY <2>1, <2>2 DEF PreviewFresh, Retained, Known
  <2>4. s.versions[op.parent].root # None
    BY <2>3 DEF Whole
  <2>5. QED
    BY <2>1, <2>3, <2>4, ForkWhole
<1>5. CASE \E v \in VersionIds : ExpireFresh(s, v) /\ t = ApplyExpire(s, v)
  BY <1>5, ExpireWhole
<1>6. CASE \E r \in Requests : RetireFresh(s, r) /\ t = ApplyRetire(s, r)
  BY <1>6, RetireWhole
<1>7. QED
  BY <1>2, <1>3, <1>4, <1>5, <1>6 DEF StoreStep

-----------------------------------------------------------------------------
(* Counters and acknowledgements *)

\* A step that does not stop the writer from outside.
LEMMA InnerStep ==
    ASSUME Opening \/ Calls \/ Committing \/ Publishing
    PROVE  /\ crashes' = crashes
           /\ faults' = faults \/ Fault
           /\ \/ acked' = acked
              \/ SyncFrame
              \/ \E op \in Ops, r \in Requests : AnswerReplayed(op, r)
<1>1. CASE Opening
  BY <1>1 DEF Opening, Open, HealOnOpen, CreatePayload, CreateNodes, CreateContentFile,
     PayloadHeader, NodesHeader, WriteHeader, SyncHeaders, OpenHot, OpenFails, Observed
<1>2. CASE Calls
  BY <1>2 DEF Calls, BeginCreate, BeginSplice, BeginFork, BeginExpire, BeginRetire, Begin,
     AnswerReplayed, BeginSeal, BuildGc, BuildGcFails, Observed
<1>3. CASE Committing
  BY <1>3 DEF Committing, AppendPayload, AppendPayloadFails, AppendNodes, AppendNodesFails,
     SyncContent, SyncContentFails, AppendFrame, AppendFrameFails, SyncFrame, SyncFrameFails,
     Observed
<1>4. CASE Publishing
  BY <1>4 DEF Publishing, PublishSnapshot, PublishSnapshotFails, PublishHot,
     PublishHotRefused, PublishHotFails, RenameManifest, RenameManifestFails, SyncManifest,
     SyncManifestFails, Recycle, RecycleFails, Observed
<1>5. QED
  BY <1>1, <1>2, <1>3, <1>4

LEMMA CountsKept ==
    ASSUME CountsTrue, DirectoryTrue, [Next]_vars
    PROVE  /\ CountsTrue'
           /\ Stops' <= 1 => Stops <= 1
           /\ ~PowerLoss /\ Undisturbed' => Undisturbed /\ ~Fault /\ ~ProcessCrash
           /\ PowerLoss /\ Stops' <= 1 => Undisturbed
           /\ PowerLoss => ~Undisturbed'
<1>1. DOMAIN crashes = {"kills", "outages"}
  BY DEF DirectoryTrue
<1>2. CASE Opening \/ Calls \/ Committing \/ Publishing
  <2>1. crashes' = crashes /\ (faults' = faults \/ Fault)
    BY <1>2, InnerStep
  <2>2. Fault => faults' = faults + 1
    BY DEF Fault
  <2>3. PowerLoss => crashes' # crashes
    BY <1>1 DEF PowerLoss
  <2>4. ProcessCrash => crashes' # crashes
    BY <1>1 DEF ProcessCrash, CountsTrue
  <2>5. QED
    BY <2>1, <2>2, <2>3, <2>4 DEF CountsTrue, Stops, Undisturbed
<1>3. CASE ProcessCrash
  <2>1. /\ crashes' = [crashes EXCEPT !.kills = @ + 1] /\ faults' = faults
    BY <1>3 DEF ProcessCrash
  <2>2. crashes'.kills = crashes.kills + 1 /\ crashes'.outages = crashes.outages
    BY <1>1, <2>1
  <2>3. PowerLoss => crashes'.kills = crashes.kills
    BY <1>1 DEF PowerLoss
  <2>4. QED
    BY <2>1, <2>2, <2>3 DEF CountsTrue, Stops, Undisturbed
<1>4. CASE PowerLoss
  <2>1. /\ crashes' = [crashes EXCEPT !.outages = 1] /\ faults' = faults
        /\ crashes.outages = 0 /\ faults = 0
    BY <1>4 DEF PowerLoss
  <2>2. crashes'.kills = crashes.kills /\ crashes'.outages = 1
    BY <1>1, <2>1
  <2>3. QED
    BY <1>4, <2>1, <2>2 DEF CountsTrue, Stops, Undisturbed
<1>5. CASE UNCHANGED vars
  <2>1. crashes' = crashes /\ faults' = faults
    BY <1>5 DEF vars
  <2>2. PowerLoss => crashes' # crashes
    BY <1>1 DEF PowerLoss
  <2>3. ProcessCrash => crashes' # crashes
    BY <1>1 DEF ProcessCrash, CountsTrue
  <2>4. Fault => faults' # faults
    BY DEF Fault, CountsTrue
  <2>5. QED
    BY <2>1, <2>2, <2>3, <2>4 DEF CountsTrue, Stops, Undisturbed
<1>6. QED
  BY <1>2, <1>3, <1>4, <1>5 DEF Next

\* What is acknowledged is what was acknowledged before or the recovered store.
LEMMA AckedStep ==
    ASSUME NoneIsNoFunction, AuthorityInvariant, [Next]_vars
    PROVE  acked' = acked \/ acked' = Promise(auth')
<1>1. CASE SyncFrame
  <2>1. AuthorityInvariant' /\ acked' = Promise(mem') /\ pc' = "idle" /\ poisoned' = poisoned
    BY <1>1, SyncFrameKeeps DEF SyncFrame, Return
  <2>2. poisoned = FALSE
    BY <1>1 DEF SyncFrame, AuthorityInvariant, Placed
  <2>3. mem' = auth'
    BY <2>1, <2>2 DEF AuthorityInvariant, MemoryFollows, Working
  <2>4. QED
    BY <2>1, <2>3
<1>2. CASE \E op \in Ops, r \in Requests : AnswerReplayed(op, r)
  <2>1. PICK op \in Ops, r \in Requests : AnswerReplayed(op, r)
    BY <1>2
  <2>2. acked' = Promise(mem) /\ auth' = auth /\ Ready
    BY <2>1 DEF AnswerReplayed, directory
  <2>3. mem = auth
    BY <2>2, ReadyFacts
  <2>4. QED
    BY <2>2, <2>3
<1>3. CASE ProcessCrash \/ PowerLoss
  BY <1>3 DEF ProcessCrash, PowerLoss
<1>4. CASE UNCHANGED vars
  BY <1>4 DEF vars
<1>5. QED
  BY <1>1, <1>2, <1>3, <1>4, InnerStep DEF Next

\* Every step but a power loss keeps what was acknowledged.
LEMMA AckedKeeps ==
    ASSUME NoneIsNoFunction, AuthorityInvariant, CountsTrue, AckedKept, [Next]_vars, ~PowerLoss
    PROVE  AckedKept'
<1>1. SUFFICES ASSUME auth # None, Keeps(Promise(auth), acked)
               PROVE  auth' # None /\ Keeps(Promise(auth'), acked')
  BY CountsKept DEF AckedKept, AckedRecovered, AuthorityInvariant
<1>2. auth' = auth \/ StoreStep(auth, auth')
  BY NextKeeps
<1>3. Whole(auth)
  BY <1>1, StoreFacts DEF AuthorityInvariant, DirectoryTrue
<1>4. auth' # None /\ Keeps(Promise(auth'), Promise(auth))
  BY <1>1, <1>2, <1>3, StoreStepKeeps, KeepsReflexive
<1>5. Keeps(Promise(auth'), acked)
  BY <1>1, <1>4 DEF Keeps
<1>6. acked' = acked \/ acked' = Promise(auth')
  BY AckedStep
<1>7. QED
  BY <1>4, <1>5, <1>6, KeepsReflexive

-----------------------------------------------------------------------------
(* A power loss *)

\* The directory without the last effect is a directory as well.
LEMMA PreviousFacts ==
    ASSUME AuthorityInvariant, DurableState
    PROVE  /\ IsDirectory(Previous) /\ SealsInOrder(Previous)
           /\ Previous.snaps = disk.snaps /\ Previous.content = disk.content
           /\ DOMAIN Previous.hots = DOMAIN disk.hots
           /\ Previous.manifest = IF pc = "syncManifest" THEN gen ELSE disk.manifest
           /\ pc # "syncFrame" => Previous.hots = disk.hots
           /\ pc = "syncFrame" =>
                 /\ disk.manifest \in DOMAIN disk.hots
                 /\ Previous.hots[disk.manifest].frames =
                       SubSeq(disk.hots[disk.manifest].frames, 1,
                              Len(disk.hots[disk.manifest].frames) - 1)
<1>1. IsDirectory(disk) /\ SealsInOrder(disk) /\ synced.manifest \in Nat
  BY DEF AuthorityInvariant, DirectoryTrue, IsSynced
<1>2. CASE pc = "syncFrame"
  <2> DEFINE frames == disk.hots[gen].frames
             hot == [disk.hots[gen] EXCEPT !.frames = SubSeq(frames, 1, Len(frames) - 1)]
  <2>1. gen = disk.manifest /\ disk.manifest \in DOMAIN disk.hots
    <3>1. poisoned = FALSE
      BY <1>2 DEF AuthorityInvariant, Placed
    <3>2. QED
      BY <1>2, <3>1, WorkingFacts DEF OpeningSteps, CreatingSteps
  <2>2. Frames(frames) /\ DOMAIN disk.hots[gen] = {"frames", "torn"}
    BY <1>1, <2>1 DEF IsDirectory
  <2>3. Len(frames) \in Nat /\ Len(frames) >= 1
    BY <1>2, <2>2, IsSeqFacts DEF DurableState, Frames
  <2>4. Frames(SubSeq(frames, 1, Len(frames) - 1))
    <3>1. Len(frames) - 1 \in 0..Len(frames) /\ \A i \in 1..Len(frames) - 1 : i \in 1..Len(frames)
      BY <2>3
    <3> HIDE DEF frames
    <3>2. QED
      BY <2>2, <3>1, IsSeqPrefix DEF Frames
  <2>5. DOMAIN hot = {"frames", "torn"} /\ hot.frames = SubSeq(frames, 1, Len(frames) - 1)
    BY <2>2
  <2>6. Previous = [disk EXCEPT !.hots[gen] = hot]
    BY <1>2 DEF Previous
  <2> HIDE DEF hot
  <2>7. Frames(hot.frames)
    BY <2>4, <2>5
  <2>8. /\ IsDirectory(Previous) /\ SealsInOrder(Previous)
        /\ Previous.manifest = disk.manifest
        /\ Previous.snaps = disk.snaps /\ Previous.content = disk.content
        /\ DOMAIN Previous.hots = DOMAIN disk.hots /\ Previous.hots[gen] = hot
    <3>1. gen \in DOMAIN disk.hots
      BY <2>1
    <3>2. DOMAIN hot = {"frames", "torn"}
      BY <2>5
    <3>3. IsDirectory(disk) /\ SealsInOrder(disk)
      BY <1>1
    <3> HIDE DEF frames
    <3>4. QED
      BY <2>6, <2>7, <3>1, <3>2, <3>3, HotReplaced
  <2>9. QED
    BY <1>2, <2>1, <2>5, <2>8
<1>3. CASE pc = "syncManifest"
  <2>1. Previous = [disk EXCEPT !.manifest = gen]
    BY <1>3 DEF Previous
  <2>2. /\ Previous.manifest = gen /\ Previous.hots = disk.hots
        /\ Previous.snaps = disk.snaps /\ Previous.content = disk.content
        /\ DOMAIN Previous = DOMAIN disk
    BY <1>1, <2>1 DEF IsDirectory
  <2>3. gen \in Nat
    BY <1>1, <2>2 DEF DurableState
  <2>4. QED
    BY <1>1, <1>3, <2>2, <2>3 DEF IsDirectory, SealsInOrder
<1>4. CASE pc \notin UnsyncedSteps
  <2>1. Previous = disk
    BY <1>4 DEF Previous, UnsyncedSteps
  <2>2. QED
    BY <1>1, <1>4, <2>1 DEF UnsyncedSteps
<1>5. QED
  BY <1>2, <1>3, <1>4 DEF UnsyncedSteps

\* What a power loss leaves of a file whose first n deltas are durable.
LEMMA FileLeftKeeps ==
    ASSUME NEW file, IsFile(file), file.state = "ready", NEW n \in Nat, Len(file.data) >= n,
           NEW k \in Int, k >= n, NEW left \in FileLeft(file, k)
    PROVE  /\ left.state = "ready" /\ Len(left.data) >= n
           /\ \A i \in 1..n : left.data[i] = file.data[i]
<1>1. Len(file.data) \in Nat
  BY IsSeqFacts DEF IsFile
<1>2. PICK j \in k..Len(file.data) : left = Truncated(file, j)
  BY DEF FileLeft
<1>3. j \in Nat /\ j >= n /\ j <= Len(file.data)
  BY <1>1, <1>2
<1>4. /\ left.state = file.state /\ Len(left.data) = j
      /\ \A i \in 1..j : left.data[i] = file.data[i]
  BY <1>1, <1>2, <1>3, TruncatedFacts
<1>5. QED
  BY <1>3, <1>4

\* A directory that is durable is recovered as it was.
LEMMA DurableSurvives ==
    ASSUME NoneIsNoFunction, IsSynced(synced),
           NEW d, IsDirectory(d), SealsInOrder(d), Durable(d), d.content = disk.content,
           NEW e, IsDirectory(e), e.manifest = d.manifest,
           d.manifest \in synced.snaps /\ d.manifest \in DOMAIN d.snaps =>
               d.manifest \in DOMAIN e.snaps /\ e.snaps[d.manifest] = d.snaps[d.manifest],
           \A g \in Gens : e.content[g] \in ContentLeft(g),
           HotFrames(e, d.manifest) = HotFrames(d, d.manifest)
    PROVE  Authoritative(e) = Authoritative(d)
<1> DEFINE a == Authoritative(d)
           n == Len(a.arena)
           p == SealedPgen(d)
<1>1. a # None /\ (d.manifest # 0 => d.manifest \in synced.snaps)
  BY DEF Durable
<1>2. /\ n \in Nat /\ p \in Gens /\ AreFiles(Current(d))
      /\ d.manifest = 0 \/ d.manifest \in DOMAIN d.snaps
      /\ Holds(a, Current(d)) \/ (d.manifest = 0 /\ n = 0)
  BY <1>1, StoreFacts
<1>3. SameSeal(d, e)
  BY <1>1, <1>2 DEF SameSeal
<1>4. CASE d.manifest = 0 /\ n = 0
  BY <1>1, <1>3, <1>4, AuthoritativeSame
<1>5. CASE ~(d.manifest = 0 /\ n = 0)
  <2>1. synced.content[p].payload >= n /\ synced.content[p].nodes >= n
    BY <1>5 DEF Durable, ContentDurable
  <2>2. synced.content[p].payload \in Int /\ synced.content[p].nodes \in Int
    BY <1>2 DEF IsSynced
  <2> DEFINE c == disk.content[p]
  <2>3. /\ e.content[p].payload \in FileLeft(c.payload, synced.content[p].payload)
        /\ e.content[p].nodes \in FileLeft(c.nodes, synced.content[p].nodes)
    BY <1>2 DEF ContentLeft
  <2>4. Current(d) = c
    BY DEF Current
  <2>5. /\ IsFile(c.payload) /\ IsFile(c.nodes)
        /\ c.payload.state = "ready" /\ c.nodes.state = "ready"
        /\ Len(c.payload.data) >= n /\ Len(c.nodes.data) >= n
    BY <1>2, <1>5, <2>4 DEF Holds, FilesReady, FilesCover, AreFiles
  <2> HIDE DEF c, n, p
  <2>6. /\ e.content[p].payload.state = "ready" /\ Len(e.content[p].payload.data) >= n
        /\ \A i \in 1..n : e.content[p].payload.data[i] = c.payload.data[i]
    BY <1>2, <2>1, <2>2, <2>3, <2>5, FileLeftKeeps
  <2>7. /\ e.content[p].nodes.state = "ready" /\ Len(e.content[p].nodes.data) >= n
        /\ \A i \in 1..n : e.content[p].nodes.data[i] = c.nodes.data[i]
    BY <1>2, <2>1, <2>2, <2>3, <2>5, FileLeftKeeps
  <2>8. KeepsContent(c, e.content[p], n)
    BY <2>6, <2>7 DEF KeepsContent, FilesReady, FilesCover
  <2>9. KeepsContent(Current(d), e.content[SealedPgen(d)], Len(Authoritative(d).arena))
    BY <2>4, <2>8 DEF n, p
  <2>10. QED
    BY <1>1, <1>3, <2>9, AuthoritativeSame
<1>6. QED
  BY <1>4, <1>5

\* What a power loss leaves of a hot log.
LEMMA HotLeftFrames ==
    ASSUME NoneIsNoFunction, IsDirectory(disk), IsSynced(synced), NEW g \in DOMAIN disk.hots,
           g \in DOMAIN synced.hots, NEW left \in HotLeft(g)
    PROVE  /\ left # None
           /\ \E k \in synced.hots[g]..Len(disk.hots[g].frames) :
                 left.frames = SubSeq(disk.hots[g].frames, 1, k)
<1>1. PICK k \in synced.hots[g]..Len(disk.hots[g].frames) : \E torn :
         left = [frames |-> SubSeq(disk.hots[g].frames, 1, k), torn |-> torn]
  BY DEF HotLeft
<1>2. left.frames = SubSeq(disk.hots[g].frames, 1, k)
  BY <1>1
<1>3. left # None
  BY <1>1 DEF NoneIsNoFunction
<1>4. QED
  BY <1>2, <1>3

\* Losing power in a writer nothing has disturbed keeps what was acknowledged.
LEMMA PowerLossDurable ==
    ASSUME NoneIsNoFunction, AuthorityInvariant, DurableState, PowerLoss
    PROVE  AckedRecovered'
<1>1. /\ IsDirectory(disk) /\ SealsInOrder(disk) /\ IsSynced(synced)
      /\ IsDirectory(disk') /\ acked' = acked
  BY PowerLossKeeps DEF AuthorityInvariant, DirectoryTrue, PowerLoss
<1>2. PICK m \in {synced.manifest, disk.manifest},
           S \in SUBSET (DOMAIN disk.snaps \ synced.snaps),
           hots \in EachOf(DOMAIN disk.hots, HotLeft),
           content \in EachOf(Gens, ContentLeft) :
         Writes([manifest |-> m, snaps |-> Drop(disk.snaps, S),
                 hots |-> Drop(hots, {g \in DOMAIN hots : hots[g] = None}),
                 content |-> content])
  BY DEF PowerLoss
<1> DEFINE snaps == Drop(disk.snaps, S)
           logs == Drop(hots, {g \in DOMAIN hots : hots[g] = None})
<1>3. /\ disk'.manifest = m /\ disk'.snaps = snaps /\ disk'.hots = logs
      /\ disk'.content = content /\ auth' = Authoritative(disk')
  BY <1>2 DEF Writes
<1>4. \A g \in DOMAIN disk.snaps \cap synced.snaps :
         g \in DOMAIN snaps /\ snaps[g] = disk.snaps[g]
  BY <1>2 DEF Drop
<1>5. \A g \in Gens : content[g] \in ContentLeft(g)
  BY <1>2 DEF EachOf
<1>6. /\ m \in DOMAIN logs => m \in DOMAIN disk.hots
      /\ m \in DOMAIN disk.hots =>
            hots[m] \in HotLeft(m) /\ (hots[m] # None => m \in DOMAIN logs /\ logs[m] = hots[m])
  BY <1>2 DEF EachOf, Drop
<1> HIDE DEF snaps, logs
<1>7. /\ IsDirectory(Previous) /\ SealsInOrder(Previous)
      /\ Previous.snaps = disk.snaps /\ Previous.content = disk.content
      /\ DOMAIN Previous.hots = DOMAIN disk.hots
      /\ Previous.manifest = IF pc = "syncManifest" THEN gen ELSE disk.manifest
      /\ pc # "syncFrame" => Previous.hots = disk.hots
      /\ pc = "syncFrame" =>
            /\ disk.manifest \in DOMAIN disk.hots
            /\ Previous.hots[disk.manifest].frames =
                  SubSeq(disk.hots[disk.manifest].frames, 1,
                         Len(disk.hots[disk.manifest].frames) - 1)
  BY PreviousFacts
<1>8. Durable(disk) /\ Durable(Previous)
  <2>1. pc \notin UnsyncedSteps => Previous = disk
    BY DEF Previous, UnsyncedSteps
  <2>2. QED
    BY <2>1 DEF DurableState
<1>9. SUFFICES ASSUME NEW d \in {disk, Previous}, d.manifest = m,
                      HotFrames(disk', m) = HotFrames(d, m)
               PROVE  AckedRecovered'
  <2>1. SUFFICES \E d \in {disk, Previous} :
                    d.manifest = m /\ HotFrames(disk', m) = HotFrames(d, m)
    BY <1>9, <2>1
  <2>2. m \in {Previous.manifest, disk.manifest}
    BY <1>2 DEF DurableState
  <2>3. CASE m \notin DOMAIN disk.hots
    BY <1>3, <1>6, <1>7, <2>2, <2>3 DEF HotFrames
  <2>4. CASE m \in DOMAIN disk.hots
    <3> DEFINE frames == disk.hots[m].frames
    <3>1. m \in DOMAIN synced.hots
      BY <1>7, <1>8, <2>2, <2>4 DEF Durable
    <3>2. Frames(frames) /\ Len(frames) \in Nat /\ synced.hots[m] \in Nat
      BY <1>1, <2>4, <3>1, IsSeqFacts DEF IsDirectory, IsSynced, Frames
    <3>3. PICK k \in synced.hots[m]..Len(frames) : logs[m].frames = SubSeq(frames, 1, k)
      BY <1>1, <1>6, <2>4, <3>1, HotLeftFrames
    <3>4. HotFrames(disk', m) = SubSeq(frames, 1, k)
      <4>1. m \in DOMAIN disk'.hots /\ disk'.hots[m].frames = SubSeq(frames, 1, k)
        BY <1>1, <1>3, <1>6, <2>4, <3>1, <3>3, HotLeftFrames
      <4>2. QED
        BY <4>1 DEF HotFrames
    <3>5. HotFrames(disk, m) = frames
      BY <2>4 DEF HotFrames
    <3> HIDE DEF frames
    <3>6. k = Len(frames) => SubSeq(frames, 1, k) = frames
      <4>1. IsSeq(frames)
        BY <3>2 DEF Frames
      <4>2. ASSUME k = Len(frames)
            PROVE  /\ IsSeq(SubSeq(frames, 1, k)) /\ Len(SubSeq(frames, 1, k)) = Len(frames)
                   /\ \A i \in 1..Len(frames) : SubSeq(frames, 1, k)[i] = frames[i]
        <5>1. k \in 0..Len(frames)
          BY <3>2, <4>2
        <5>2. QED
          BY <4>1, <4>2, <5>1, IsSeqPrefix
      <4> DEFINE q == SubSeq(frames, 1, k)
      <4>3. ASSUME k = Len(frames) PROVE q = frames
        <5>1. IsSeq(q) /\ Len(q) = Len(frames) /\ \A i \in 1..Len(q) : q[i] = frames[i]
          BY <4>2, <4>3
        <5> HIDE DEF q
        <5>2. QED
          BY <4>1, <5>1, IsSeqEqual
      <4>4. QED
        BY <4>3
    <3>7. CASE pc = "syncFrame"
      <4>1. m = disk.manifest /\ m = Previous.manifest
        BY <1>7, <2>2, <3>7
      <4>2. HotFrames(Previous, m) = SubSeq(frames, 1, Len(frames) - 1)
        BY <1>7, <2>4, <3>7, <4>1 DEF HotFrames, frames
      <4>3. synced.hots[m] = Len(SubSeq(frames, 1, Len(frames) - 1))
        BY <1>7, <2>4, <3>7, <4>1 DEF DurableState, FramesDurable, frames
      <4>4. Len(frames) >= 1
        <5>1. gen = disk.manifest
          BY <3>7, WorkingFacts DEF AuthorityInvariant, Placed
        <5>2. QED
          BY <3>7, <4>1, <5>1 DEF DurableState, frames
      <4>5. synced.hots[m] = Len(frames) - 1
        <5>1. Len(frames) - 1 \in 0..Len(frames) /\ IsSeq(frames)
          BY <3>2, <4>4 DEF Frames
        <5>2. Len(SubSeq(frames, 1, Len(frames) - 1)) = Len(frames) - 1
          BY <5>1, IsSeqPrefix
        <5>3. QED
          BY <4>3, <5>2
      <4>6. k = Len(frames) \/ k = Len(frames) - 1
        BY <3>2, <3>3, <4>5
      <4>7. QED
        BY <3>4, <3>5, <3>6, <4>1, <4>2, <4>6
    <3>8. CASE pc # "syncFrame"
      <4>1. PICK d \in {disk, Previous} : d.manifest = m
        BY <2>2
      <4>2. FramesDurable(d) /\ d.hots = disk.hots
        BY <1>7, <3>8, <4>1 DEF DurableState, Previous, UnsyncedSteps
      <4>3. synced.hots[m] = Len(frames)
        BY <2>4, <4>1, <4>2 DEF FramesDurable, frames
      <4>4. k = Len(frames)
        BY <3>2, <3>3, <4>3
      <4>5. HotFrames(d, m) = frames
        BY <3>5, <4>2 DEF HotFrames
      <4>6. QED
        BY <3>4, <3>6, <4>1, <4>4, <4>5
    <3>9. QED
      BY <3>7, <3>8
  <2>5. QED
    BY <2>3, <2>4
<1>10. /\ IsDirectory(d) /\ SealsInOrder(d) /\ Durable(d)
       /\ d.content = disk.content /\ d.snaps = disk.snaps
  BY <1>1, <1>7, <1>8, <1>9
<1>11. auth' = Authoritative(d)
  <2>1. d.manifest \in synced.snaps /\ d.manifest \in DOMAIN d.snaps =>
           d.manifest \in DOMAIN disk'.snaps /\ disk'.snaps[d.manifest] = d.snaps[d.manifest]
    BY <1>3, <1>4, <1>10
  <2>2. disk'.manifest = d.manifest /\ HotFrames(disk', d.manifest) = HotFrames(d, d.manifest)
    BY <1>3, <1>9
  <2>3. \A g \in Gens : disk'.content[g] \in ContentLeft(g)
    BY <1>3, <1>5
  <2>4. IsSynced(synced) /\ IsDirectory(disk')
    BY <1>1
  <2>5. Authoritative(disk') = Authoritative(d)
    BY <1>10, <2>1, <2>2, <2>3, <2>4, DurableSurvives
  <2>6. QED
    BY <1>3, <2>5
<1>12. QED
  BY <1>1, <1>10, <1>11 DEF AckedRecovered, Durable

-----------------------------------------------------------------------------
(* The writer keeps the directory durable *)

\* A step that changes neither the recovered store nor the generation.
LEMMA Settled ==
    ASSUME DurableState, auth = Authoritative(disk), auth' = Authoritative(disk'),
           auth' = auth, Keeps(Promise(auth), acked'),
           pc \notin UnsyncedSteps, pc' \notin UnsyncedSteps,
           disk'.manifest = disk.manifest, SealedPgen(disk') = SealedPgen(disk),
           synced'.manifest = synced.manifest,
           disk.manifest # 0 => disk.manifest \in synced'.snaps,
           disk.manifest \in DOMAIN disk'.hots <=> disk.manifest \in DOMAIN synced'.hots,
           disk.manifest \in DOMAIN disk'.hots =>
               synced'.hots[disk.manifest] = Len(disk'.hots[disk.manifest].frames),
           pc' \in StartingSteps => pc \in StartingSteps,
           pc' \notin StartingSteps => ContentDurable(SealedPgen(disk), Len(auth.arena))',
           FirstOpen', NextDurable'
    PROVE  DurableState'
<1>1. Previous = disk /\ Previous' = disk'
  BY DEF Previous, UnsyncedSteps
<1>2. Durable(disk) /\ synced.manifest = disk.manifest
  BY <1>1 DEF DurableState
<1>3. auth' # None
  BY <1>2 DEF Durable
<1>4. pc' \in StartingSteps => disk.manifest = 0 /\ Len(auth.arena) = 0
  BY <1>2 DEF Durable
<1>6. Durable(disk)'
  BY <1>3, <1>4 DEF Durable, ContentDurable
<1>7. FramesDurable(disk)'
  BY DEF FramesDurable
<1>8. pc' # "syncFrame" /\ pc' # "syncManifest"
  BY DEF UnsyncedSteps
<1>9. QED
  BY <1>1, <1>2, <1>6, <1>7, <1>8 DEF DurableState, FramesDurable

\* The usual case: the names and what is synced of them stay.
LEMMA SettledNames ==
    ASSUME AuthorityInvariant, DurableState, auth' = Authoritative(disk'),
           auth' = auth, Keeps(Promise(auth), acked'),
           pc \notin UnsyncedSteps, pc' \notin UnsyncedSteps,
           disk'.manifest = disk.manifest, SealedPgen(disk') = SealedPgen(disk),
           disk'.hots = disk.hots,
           synced'.manifest = synced.manifest, synced'.snaps = synced.snaps,
           synced'.hots = synced.hots,
           pc' \in StartingSteps => pc \in StartingSteps,
           pc' \notin StartingSteps => ContentDurable(SealedPgen(disk), Len(auth.arena))',
           FirstOpen', NextDurable'
    PROVE  DurableState'
<1>1. Previous = disk /\ Durable(disk) /\ FramesDurable(disk)
  BY DEF Previous, UnsyncedSteps, DurableState
<1>2. /\ disk.manifest # 0 => disk.manifest \in synced'.snaps
      /\ disk.manifest \in DOMAIN disk'.hots <=> disk.manifest \in DOMAIN synced'.hots
  BY <1>1 DEF Durable
<1>3. disk.manifest \in DOMAIN disk'.hots =>
         synced'.hots[disk.manifest] = Len(disk'.hots[disk.manifest].frames)
  BY <1>1 DEF FramesDurable
<1>4. auth = Authoritative(disk)
  BY DEF AuthorityInvariant, DirectoryTrue
<1>5. QED
  BY <1>2, <1>3, <1>4, Settled

\* Where the writer is past opening, the content it has is durable.
LEMMA ContentIsDurable ==
    ASSUME AuthorityInvariant, DurableState, pc \notin StartingSteps
    PROVE  ContentDurable(SealedPgen(disk), Len(auth.arena))
BY DEF AuthorityInvariant, DirectoryTrue, DurableState, Durable

LEMMA AckedBefore ==
    ASSUME AuthorityInvariant, DurableState
    PROVE  Keeps(Promise(auth), acked)
BY DEF AuthorityInvariant, DirectoryTrue, DurableState, Durable

\* Creating the files of the first generation.
LEMMA OpenDurable ==
    ASSUME NoneIsNoFunction, AuthorityInvariant, DurableState, Open
    PROVE  DurableState'
<1>1. /\ pc = "closed" /\ gen' = disk.manifest /\ pgen' = SealedPgen(disk)
      /\ pc' = IF FilesPresent(disk.content[pgen']) THEN "heal" ELSE "createPayload"
      /\ UNCHANGED <<directory, synced, acked>>
  BY DEF Open
<1>2. disk = EmptyDisk
  BY <1>1 DEF DurableState, FirstOpen
<1>3. pgen' = 0 /\ 0 \in Gens
  BY <1>1, <1>2, GenAssumption DEF SealedPgen, EmptyDisk, Gens
<1>4. disk.content[pgen'] = AbsentContent
  BY <1>2, <1>3 DEF EmptyDisk
<1>5. pc' = "createPayload"
  BY <1>1, <1>4 DEF FilesPresent, AbsentContent, AbsentFile
<1>6. disk' = disk /\ auth' = auth /\ auth = Authoritative(disk)
  BY <1>1 DEF directory, AuthorityInvariant, DirectoryTrue
<1>7. FirstOpen'
  BY <1>4, <1>5, <1>6 DEF FirstOpen, Content0, AbsentContent, AbsentFile
<1>8. NextDurable'
  BY <1>5 DEF NextDurable, PreparingSteps
<1>9. Keeps(Promise(auth), acked')
  BY <1>1, AckedBefore
<1>10. pc' \in StartingSteps /\ pc \in StartingSteps /\ {pc, pc'} \cap UnsyncedSteps = {}
  BY <1>1, <1>5 DEF StartingSteps, CreatingSteps, UnsyncedSteps
<1>11. QED
  BY <1>1, <1>6, <1>7, <1>8, <1>9, <1>10, SettledNames

\* A step that writes the current content files only.
LEMMA ContentWriteNames ==
    ASSUME AuthorityInvariant, NEW p \in Gens, NEW c, disk' = [disk EXCEPT !.content[p] = c]
    PROVE  /\ disk'.manifest = disk.manifest /\ disk'.hots = disk.hots
           /\ disk'.snaps = disk.snaps /\ SealedPgen(disk') = SealedPgen(disk)
           /\ disk'.content[p] = c
<1>1. IsDirectory(disk)
  BY DEF AuthorityInvariant, DirectoryTrue
<1>2. /\ disk'.manifest = disk.manifest /\ disk'.hots = disk.hots
      /\ disk'.snaps = disk.snaps /\ disk'.content[p] = c
  BY <1>1 DEF IsDirectory
<1>3. QED
  BY <1>2 DEF SealedPgen

\* Only the durable content of the current generation is rewritten.
LEMMA SyncedOnlyContent ==
    ASSUME AuthorityInvariant, NEW p \in Gens, NEW x,
           synced' = [synced EXCEPT !.content[p] = x]
    PROVE  /\ synced'.manifest = synced.manifest /\ synced'.snaps = synced.snaps
           /\ synced'.hots = synced.hots /\ synced'.content[p] = x
           /\ \A q \in Gens : q # p => synced'.content[q] = synced.content[q]
<1>1. IsSynced(synced)
  BY DEF AuthorityInvariant, DirectoryTrue
<1>2. QED
  BY <1>1 DEF IsSynced

LEMMA CreateContentFileDurable ==
    ASSUME NoneIsNoFunction, AuthorityInvariant, AuthorityInvariant', auth' = auth, DurableState,
           CreatePayload \/ CreateNodes
    PROVE  DurableState'
<1>1. PICK file \in {"payload", "nodes"} :
         /\ Content0[file].state = "absent"
         /\ disk' = [disk EXCEPT !.content[pgen][file] = BareFile]
         /\ UNCHANGED <<gen, pgen, acked, synced>>
         /\ \/ pc = "createPayload" /\ file = "payload" /\ pc' = "createNodes"
            \/ pc = "createNodes" /\ file = "nodes" /\ pc' = "payloadHeader"
  <2>1. CASE CreatePayload
    <3>1. pc = "createPayload" /\ Content0.payload.state = "absent"
      BY <2>1 DEF CreatePayload, CreateContentFile, DurableState, FirstOpen
    <3>2. disk.content[pgen]["payload"].state = "absent"
      BY <3>1 DEF Content0
    <3>3. /\ disk' = [disk EXCEPT !.content[pgen]["payload"] = BareFile]
          /\ UNCHANGED <<gen, pgen, acked, synced>> /\ pc' = "createNodes"
      BY <2>1, <3>2 DEF CreatePayload, CreateContentFile, Writes, Step, Observed
    <3>4. QED
      BY <3>1, <3>2, <3>3 DEF Content0
  <2>2. CASE CreateNodes
    <3>1. pc = "createNodes" /\ Content0.nodes.state = "absent"
      BY <2>2 DEF CreateNodes, CreateContentFile, DurableState, FirstOpen
    <3>2. disk.content[pgen]["nodes"].state = "absent"
      BY <3>1 DEF Content0
    <3>3. /\ disk' = [disk EXCEPT !.content[pgen]["nodes"] = BareFile]
          /\ UNCHANGED <<gen, pgen, acked, synced>> /\ pc' = "payloadHeader"
      BY <2>2, <3>2 DEF CreateNodes, CreateContentFile, Writes, Step, Observed
    <3>4. QED
      BY <3>1, <3>2, <3>3 DEF Content0
  <2>3. QED
    BY <2>1, <2>2
<1>2. pgen \in Gens /\ AreFiles(Content0)
  BY <1>1, CreatingFacts DEF CreatingSteps
<1> DEFINE c == [Content0 EXCEPT ![file] = BareFile]
<1>3. IsFile(BareFile)
  BY EmptyIsSeq DEF BareFile, IsFile
<1>4. /\ disk' = [disk EXCEPT !.content[pgen] = c]
      /\ \A other \in {"payload", "nodes"} : other # file => c[other] = Content0[other]
  BY <1>1, <1>2, <1>3, OneFile
<1> HIDE DEF c
<1>5. /\ disk'.manifest = disk.manifest /\ disk'.hots = disk.hots
      /\ SealedPgen(disk') = SealedPgen(disk) /\ disk'.content[pgen] = c
  BY <1>2, <1>4, ContentWriteNames
<1>6. FirstOpen'
  <2>1. pc' = "createNodes" => Content0'.nodes.state = "absent"
    <3>1. ASSUME pc' = "createNodes" PROVE Content0.nodes.state = "absent" /\ file = "payload"
      BY <1>1, <3>1 DEF DurableState, FirstOpen
    <3>2. ASSUME pc' = "createNodes" PROVE c["nodes"] = Content0["nodes"]
      BY <1>4, <3>1, <3>2
    <3>3. Content0' = c
      BY <1>1, <1>5 DEF Content0
    <3>4. QED
      BY <3>1, <3>2, <3>3
  <2>2. QED
    BY <1>1, <2>1 DEF FirstOpen
<1>7. NextDurable'
  BY <1>1 DEF NextDurable, PreparingSteps
<1>8. Keeps(Promise(auth), acked')
  BY <1>1, AckedBefore
<1>9. /\ pc' \in StartingSteps /\ pc \in StartingSteps
      /\ pc \notin UnsyncedSteps /\ pc' \notin UnsyncedSteps
  BY <1>1 DEF StartingSteps, CreatingSteps, UnsyncedSteps
<1>10. auth' = Authoritative(disk')
  BY DEF AuthorityInvariant, DirectoryTrue
<1>11. QED
  BY <1>1, <1>5, <1>6, <1>7, <1>8, <1>9, <1>10, SettledNames

LEMMA WriteHeaderDurable ==
    ASSUME NoneIsNoFunction, AuthorityInvariant, AuthorityInvariant', auth' = auth, DurableState,
           PayloadHeader \/ NodesHeader
    PROVE  DurableState'
<1>1. PICK file \in {"payload", "nodes"} :
         /\ disk' = [disk EXCEPT !.content[pgen][file] = ReadyFile(<<>>)]
         /\ UNCHANGED <<gen, pgen, acked, synced>>
         /\ \/ pc = "payloadHeader" /\ pc' = "nodesHeader"
            \/ pc = "nodesHeader" /\ pc' = "syncHeaders"
  BY DEF PayloadHeader, NodesHeader, WriteHeader, Writes, Step, Observed
<1>2. pgen \in Gens /\ AreFiles(Content0)
  BY <1>1, CreatingFacts DEF CreatingSteps
<1> DEFINE c == [Content0 EXCEPT ![file] = ReadyFile(<<>>)]
<1>3. IsFile(ReadyFile(<<>>))
  BY EmptyIsSeq DEF ReadyFile, IsFile
<1>4. disk' = [disk EXCEPT !.content[pgen] = c]
  BY <1>1, <1>2, <1>3, OneFile
<1> HIDE DEF c
<1>5. /\ disk'.manifest = disk.manifest /\ disk'.hots = disk.hots
      /\ SealedPgen(disk') = SealedPgen(disk)
  BY <1>2, <1>4, ContentWriteNames
<1>6. FirstOpen' /\ NextDurable'
  BY <1>1 DEF FirstOpen, NextDurable, PreparingSteps
<1>7. Keeps(Promise(auth), acked')
  BY <1>1, AckedBefore
<1>8. /\ pc' \in StartingSteps /\ pc \in StartingSteps
      /\ pc \notin UnsyncedSteps /\ pc' \notin UnsyncedSteps
  BY <1>1 DEF StartingSteps, CreatingSteps, UnsyncedSteps
<1>9. auth' = Authoritative(disk')
  BY DEF AuthorityInvariant, DirectoryTrue
<1>10. QED
  BY <1>1, <1>5, <1>6, <1>7, <1>8, <1>9, SettledNames

LEMMA SyncHeadersDurable ==
    ASSUME NoneIsNoFunction, AuthorityInvariant, AuthorityInvariant', auth' = auth, DurableState,
           SyncHeaders
    PROVE  DurableState'
<1>1. /\ pc = "syncHeaders" /\ pc' = "openHot"
      /\ synced' = [synced EXCEPT !.content[pgen] = [payload |-> 0, nodes |-> 0]]
      /\ disk' = disk /\ acked' = acked
  BY DEF SyncHeaders, Step, Observed, directory
<1>2. poisoned = FALSE /\ pgen \in Gens
  BY <1>1 DEF AuthorityInvariant, Placed, BytesHeld, CreatingSteps
<1>3. pgen = SealedPgen(disk) /\ auth = Authoritative(disk)
  BY <1>1, <1>2, WorkingFacts DEF AuthorityInvariant, DirectoryTrue
<1>4. Len(auth.arena) = 0
  BY <1>1, <1>3 DEF DurableState, Durable, StartingSteps
<1>5. /\ synced'.manifest = synced.manifest /\ synced'.snaps = synced.snaps
      /\ synced'.hots = synced.hots /\ synced'.content[pgen] = [payload |-> 0, nodes |-> 0]
  BY <1>1, <1>2, SyncedOnlyContent
<1>6. ContentDurable(SealedPgen(disk), Len(auth.arena))'
  BY <1>1, <1>3, <1>4, <1>5 DEF ContentDurable
<1>7. FirstOpen' /\ NextDurable'
  BY <1>1 DEF FirstOpen, NextDurable, PreparingSteps
<1>8. Keeps(Promise(auth), acked')
  BY <1>1, AckedBefore
<1>9. pc' \notin StartingSteps /\ pc \notin UnsyncedSteps /\ pc' \notin UnsyncedSteps
  BY <1>1 DEF StartingSteps, CreatingSteps, UnsyncedSteps
<1>10. QED
  BY <1>1, <1>3, <1>5, <1>6, <1>7, <1>8, <1>9, SettledNames

LEMMA OpenHotDurable ==
    ASSUME NoneIsNoFunction, AuthorityInvariant, AuthorityInvariant', auth' = auth, DurableState,
           OpenHot
    PROVE  DurableState'
<1>1. /\ pc = "openHot" /\ pc' = "idle" /\ acked' = acked
      /\ IF gen \in DOMAIN disk.hots THEN disk' = disk
         ELSE disk' = [disk EXCEPT !.hots = Put(@, gen, EmptyHot)]
      /\ synced' = IF gen \in DOMAIN synced.hots THEN synced
                   ELSE [synced EXCEPT !.hots = Put(@, gen, 0)]
  BY DEF OpenHot, Step, Observed, directory, Writes
<1>2. poisoned = FALSE
  BY <1>1 DEF AuthorityInvariant, Placed
<1>3. gen = disk.manifest
  BY <1>1, <1>2, WorkingFacts
<1>4. /\ IsDirectory(disk) /\ SealsInOrder(disk) /\ IsSynced(synced)
      /\ auth = Authoritative(disk) /\ auth' = Authoritative(disk')
  BY DEF AuthorityInvariant, DirectoryTrue
<1>5. Previous = disk /\ Durable(disk) /\ FramesDurable(disk)
  BY <1>1 DEF Previous, DurableState
<1>6. gen \in DOMAIN disk.hots <=> gen \in DOMAIN synced.hots
  BY <1>3, <1>5 DEF Durable
<1>7. /\ pc \notin UnsyncedSteps /\ pc' \notin UnsyncedSteps
      /\ pc \notin StartingSteps /\ pc' \notin StartingSteps
  BY <1>1 DEF StartingSteps, CreatingSteps, UnsyncedSteps
<1>8. ContentDurable(SealedPgen(disk), Len(auth.arena))
  BY <1>7, ContentIsDurable
<1>9. FirstOpen' /\ NextDurable'
  BY <1>1 DEF FirstOpen, NextDurable, PreparingSteps
<1>10. Keeps(Promise(auth), acked')
  BY <1>1, AckedBefore
<1>11. CASE gen \in DOMAIN disk.hots
  <2>1. disk' = disk /\ synced' = synced
    BY <1>1, <1>6, <1>11
  <2>2. ContentDurable(SealedPgen(disk), Len(auth.arena))'
    BY <1>8, <2>1 DEF ContentDurable
  <2>3. QED
    BY <1>4, <1>7, <1>9, <1>10, <2>1, <2>2, SettledNames
<1>12. CASE gen \notin DOMAIN disk.hots
  <2>1. /\ disk' = [disk EXCEPT !.hots = Put(@, gen, EmptyHot)]
        /\ synced' = [synced EXCEPT !.hots = Put(@, gen, 0)]
    BY <1>1, <1>6, <1>12
  <2>2. /\ disk'.manifest = disk.manifest /\ disk'.snaps = disk.snaps
        /\ gen \in DOMAIN disk'.hots /\ disk'.hots[gen] = EmptyHot
    BY <1>4, <2>1 DEF IsDirectory, Put
  <2>3. /\ synced'.manifest = synced.manifest /\ synced'.snaps = synced.snaps
        /\ synced'.content = synced.content
        /\ gen \in DOMAIN synced'.hots /\ synced'.hots[gen] = 0
    BY <1>4, <2>1 DEF IsSynced, Put
  <2>4. SealedPgen(disk') = SealedPgen(disk)
    BY <2>2 DEF SealedPgen
  <2>5. ContentDurable(SealedPgen(disk), Len(auth.arena))'
    BY <1>8, <2>3, <2>4 DEF ContentDurable
  <2>6. disk.manifest # 0 => disk.manifest \in synced'.snaps
    BY <1>5, <2>3 DEF Durable
  <2>7. Len(disk'.hots[disk.manifest].frames) = 0
    BY <1>3, <2>2, EmptyIsSeq DEF EmptyHot
  <2>8. QED
    BY <1>3, <1>4, <1>7, <1>9, <1>10, <2>2, <2>3, <2>4, <2>5, <2>6, <2>7, Settled
<1>13. QED
  BY <1>11, <1>12

\* Beginning a call writes nothing.
LEMMA BeginDurable ==
    ASSUME AuthorityInvariant, AuthorityInvariant', DurableState, Ready,
           NEW frame, NEW next, NEW s, Begin(frame, next, s),
           next \in {"frame", "payload", "snapshot"}, NextDurable'
    PROVE  DurableState'
<1>1. /\ pc = "idle" /\ pc' = next /\ disk' = disk /\ auth' = auth /\ synced' = synced
      /\ acked' = acked
  BY DEF Ready, Begin, directory, Observed
<1>2. auth' = Authoritative(disk')
  BY DEF AuthorityInvariant, DirectoryTrue
<1>3. /\ pc \notin StartingSteps /\ pc' \notin StartingSteps
      /\ pc \notin UnsyncedSteps /\ pc' \notin UnsyncedSteps
  BY <1>1 DEF StartingSteps, CreatingSteps, UnsyncedSteps
<1>4. ContentDurable(SealedPgen(disk), Len(auth.arena))'
  BY <1>1, <1>3, ContentIsDurable DEF ContentDurable
<1>5. FirstOpen'
  BY <1>1 DEF FirstOpen
<1>6. Keeps(Promise(auth), acked')
  BY <1>1, AckedBefore
<1>7. QED
  BY <1>1, <1>2, <1>3, <1>4, <1>5, <1>6, SettledNames

\* A frame that places no content waits for none.
LEMMA BeginFrameDurable ==
    ASSUME AuthorityInvariant, AuthorityInvariant', DurableState, Ready,
           NEW frame, NEW s, Begin(frame, "frame", s),
           frame.type = "commit" => frame.op.kind # "splice"
    PROVE  DurableState'
<1>1. NextDurable'
  BY DEF NextDurable, Begin, PreparingSteps
<1>2. QED
  BY <1>1, BeginDurable

LEMMA CallsDurable ==
    ASSUME NoneIsNoFunction, AuthorityInvariant, AuthorityInvariant', DurableState, Calls,
           ~Fault
    PROVE  DurableState' \/ BuildGc
<1>1. ASSUME NEW b, BeginCreate(b) PROVE DurableState'
  BY <1>1, BeginFrameDurable DEF BeginCreate, CreateFrame
<1>2. ASSUME NEW op, NEW r, BeginSplice(op, r) PROVE DurableState'
  <2>1. PICK f : Begin(f, "payload", mem) /\ Ready
    BY <1>2 DEF BeginSplice
  <2>2. NextDurable'
    BY <2>1 DEF NextDurable, Begin, PreparingSteps
  <2>3. QED
    BY <2>1, <2>2, BeginDurable
<1>3. ASSUME NEW op \in ForkOps, NEW r, BeginFork(op, r) PROVE DurableState'
  <2> DEFINE f == CommitFrame(mem.nextVersion, op, r, None)
  <2>1. Ready /\ Begin(f, "frame", mem)
    BY <1>3 DEF BeginFork
  <2>2. f.op.kind # "splice"
    BY DEF ForkOps, CommitFrame
  <2>3. QED
    BY <2>1, <2>2, BeginFrameDurable
<1>4. ASSUME NEW v, BeginExpire(v) PROVE DurableState'
  BY <1>4, BeginFrameDurable DEF BeginExpire, ExpireFrame
<1>5. ASSUME NEW r, BeginRetire(r) PROVE DurableState'
  BY <1>5, BeginFrameDurable DEF BeginRetire, RetireFrame
<1>6. CASE BeginSeal
  <2> DEFINE f == [type |-> "seal", store |-> mem, pgen |-> pgen]
  <2>1. Ready /\ Begin(f, "snapshot", mem)
    BY <1>6 DEF BeginSeal
  <2>2. mem = auth /\ pgen = SealedPgen(disk) /\ pc = "idle"
    BY <2>1, ReadyFacts
  <2>3. ContentDurable(pgen, Len(mem.arena))
    BY <2>2, ContentIsDurable DEF StartingSteps, CreatingSteps
  <2>4. job' = f /\ pc' = "snapshot" /\ synced' = synced
    BY <2>1 DEF Begin
  <2>5. NextDurable'
    BY <2>3, <2>4 DEF NextDurable, ContentDurable
  <2>6. QED
    BY <2>1, <2>5, BeginDurable
<1>7. ASSUME NEW op, NEW r, AnswerReplayed(op, r) PROVE DurableState'
  <2>1. /\ Ready /\ acked' = Promise(mem) /\ disk' = disk /\ auth' = auth /\ synced' = synced
        /\ pc' = pc
    BY <1>7 DEF AnswerReplayed, directory, writerVars
  <2>2. mem = auth /\ pc = "idle"
    BY <2>1, ReadyFacts
  <2>3. /\ pc \notin StartingSteps /\ pc' \notin StartingSteps
        /\ pc \notin UnsyncedSteps /\ pc' \notin UnsyncedSteps
    BY <2>1, <2>2 DEF StartingSteps, CreatingSteps, UnsyncedSteps
  <2>4. ContentDurable(SealedPgen(disk), Len(auth.arena))'
    BY <2>1, <2>3, ContentIsDurable DEF ContentDurable
  <2>5. FirstOpen' /\ NextDurable'
    BY <2>1, <2>2 DEF FirstOpen, NextDurable, PreparingSteps
  <2>6. Keeps(Promise(auth), acked') /\ auth' = Authoritative(disk')
    BY <2>1, <2>2, KeepsReflexive DEF AuthorityInvariant, DirectoryTrue
  <2>7. QED
    BY <2>1, <2>3, <2>4, <2>5, <2>6, SettledNames
<1>8. ~BuildGcFails
  BY DEF BuildGcFails
<1>9. QED
  BY <1>1, <1>2, <1>3, <1>4, <1>5, <1>6, <1>7, <1>8 DEF Calls

\* The files of the next physical generation are synced as they are built.
LEMMA BuildGcDurable ==
    ASSUME NoneIsNoFunction, AuthorityInvariant, AuthorityInvariant', auth' = auth, DurableState,
           BuildGc
    PROVE  DurableState'
<1> DEFINE n == Len(ApplyGc(mem).arena)
           c == [payload |-> ReadyFile(ApplyGc(mem).arena),
                 nodes |-> ReadyFile(ApplyGc(mem).arena)]
           x == [payload |-> n, nodes |-> n]
<1>1. /\ Ready /\ pc' = "snapshot" /\ acked' = acked /\ NextGen <= MaxGen
      /\ Writes([disk EXCEPT !.content[pgen + 1] = c])
      /\ synced' = [synced EXCEPT !.content[pgen + 1] = x]
      /\ job' = [type |-> "gc", store |-> ApplyGc(mem), pgen |-> pgen + 1]
      /\ crashes' = crashes
  BY DEF BuildGc, Observed
<1>2. /\ mem = auth /\ pgen = SealedPgen(disk) /\ pc = "idle" /\ pgen \in Gens
      /\ gen = disk.manifest /\ auth # None /\ IsDirectory(disk) /\ SealsInOrder(disk)
      /\ auth = Authoritative(disk)
  BY <1>1, ReadyFacts DEF AuthorityInvariant, DirectoryTrue
<1>3. pgen + 1 \in Gens /\ pgen + 1 # pgen
  <2>1. SealedPgen(disk) <= disk.manifest /\ disk.manifest \in Nat
    BY <1>2, StoreFacts DEF IsDirectory
  <2>2. QED
    BY <1>1, <1>2, <2>1, GenAssumption DEF NextGen, Gens
<1>4. disk' = [disk EXCEPT !.content[pgen + 1] = c] /\ auth' = Authoritative(disk')
  BY <1>1 DEF Writes
<1>5. x.payload = n /\ x.nodes = n /\ n >= n
  <2>1. Whole(job'.store)
    BY <1>1 DEF AuthorityInvariant, PublicationFits, PreparingSteps
  <2>2. n \in Nat
    BY <1>1, <2>1, IsSeqFacts DEF Whole
  <2>3. QED
    BY <2>2
<1> HIDE DEF n, c, x
<1>6. /\ disk'.manifest = disk.manifest /\ disk'.hots = disk.hots
      /\ SealedPgen(disk') = SealedPgen(disk)
  BY <1>3, <1>4, ContentWriteNames
<1>7. /\ synced'.manifest = synced.manifest /\ synced'.snaps = synced.snaps
      /\ synced'.hots = synced.hots /\ synced'.content[pgen + 1] = x
      /\ \A q \in Gens : q # pgen + 1 => synced'.content[q] = synced.content[q]
  BY <1>1, <1>3, SyncedOnlyContent
<1>8. /\ pc \notin StartingSteps /\ pc' \notin StartingSteps
      /\ pc \notin UnsyncedSteps /\ pc' \notin UnsyncedSteps
  BY <1>1, <1>2 DEF StartingSteps, CreatingSteps, UnsyncedSteps
<1>9. ContentDurable(SealedPgen(disk), Len(auth.arena))'
  <2>1. ContentDurable(pgen, Len(auth.arena))
    BY <1>2, <1>8, ContentIsDurable
  <2>2. synced'.content[pgen] = synced.content[pgen] /\ SealedPgen(disk') = pgen
    BY <1>2, <1>3, <1>6, <1>7
  <2>3. QED
    BY <2>1, <2>2 DEF ContentDurable
<1>10. NextDurable'
  <2>1. job'.pgen = pgen + 1 /\ Len(job'.store.arena) = n
    BY <1>1 DEF n
  <2>2. ContentDurable(job.pgen, Len(job.store.arena))'
    BY <1>5, <1>7, <2>1 DEF ContentDurable
  <2>3. QED
    BY <1>1, <2>2 DEF NextDurable
<1>11. FirstOpen'
  BY <1>1 DEF FirstOpen
<1>12. Keeps(Promise(auth), acked')
  BY <1>1, AckedBefore
<1>13. QED
  BY <1>4, <1>6, <1>7, <1>8, <1>9, <1>10, <1>11, <1>12, SettledNames

-----------------------------------------------------------------------------
(* Committing *)

\* Writing and syncing the delta of a splice.
LEMMA ContentDurableStep ==
    ASSUME NoneIsNoFunction, AuthorityInvariant, AuthorityInvariant', auth' = auth, DurableState,
           AppendPayload \/ AppendNodes \/ SyncContent
    PROVE  DurableState'
<1>1. /\ pc \in ContentSteps /\ acked' = acked
      /\ UNCHANGED <<mem, gen, pgen, poisoned, job>>
      /\ pc' = IF pc = "payload" THEN "nodes" ELSE IF pc = "nodes" THEN "syncContent" ELSE "frame"
  BY DEF AppendPayload, AppendNodes, SyncContent, ContentSteps, Step, Observed
<1>2. /\ mem = auth /\ pgen = SealedPgen(disk) /\ pgen \in Gens
      /\ Frontier \in Nat /\ Frontier = Len(auth.arena) /\ IsSynced(synced)
      /\ DeltaWritten
  BY <1>1, SplicingFacts
<1>3. /\ pc \notin StartingSteps /\ pc' \notin StartingSteps
      /\ pc \notin UnsyncedSteps /\ pc' \notin UnsyncedSteps
  BY <1>1 DEF StartingSteps, CreatingSteps, UnsyncedSteps, ContentSteps
<1>4. ContentDurable(pgen, Frontier)
  BY <1>2, <1>3, ContentIsDurable
<1>5. /\ disk'.manifest = disk.manifest /\ disk'.hots = disk.hots
      /\ SealedPgen(disk') = SealedPgen(disk)
  <2>1. CASE AppendPayload
    <3>1. PICK c : disk' = [disk EXCEPT !.content[pgen] = c]
      BY <2>1 DEF AppendPayload, Writes
    <3>2. QED
      BY <1>2, <3>1, ContentWriteNames
  <2>2. CASE AppendNodes
    <3>1. disk' = [disk EXCEPT !.content[pgen].nodes = AppendTo(@, job.place.tree)]
      BY <2>2 DEF AppendNodes, Writes
    <3>2. PICK c : disk' = [disk EXCEPT !.content[pgen] = c]
      BY <3>1, Zenon
    <3>3. QED
      BY <1>2, <3>2, ContentWriteNames
  <2>3. CASE SyncContent
    BY <2>3 DEF SyncContent, directory
  <2>4. QED
    BY <2>1, <2>2, <2>3
<1>6. /\ synced'.manifest = synced.manifest /\ synced'.snaps = synced.snaps
      /\ synced'.hots = synced.hots
      /\ synced'.content[pgen].payload >= Frontier /\ synced'.content[pgen].nodes >= Frontier
      /\ pc' = "frame" => /\ synced'.content[pgen].payload >= Frontier + 1
                          /\ synced'.content[pgen].nodes >= Frontier + 1
  <2>1. CASE AppendPayload
    <3>1. synced' = [synced EXCEPT !.content[pgen] = SyncedAtMost(pgen, Frontier)]
            /\ pc' # "frame"
      BY <2>1 DEF AppendPayload, Step
    <3>2. /\ synced'.manifest = synced.manifest /\ synced'.snaps = synced.snaps
          /\ synced'.hots = synced.hots
          /\ synced'.content[pgen] = SyncedAtMost(pgen, Frontier)
      BY <1>2, <3>1, SyncedOnlyContent
    <3>3. /\ SyncedAtMost(pgen, Frontier).payload >= Frontier
          /\ SyncedAtMost(pgen, Frontier).nodes >= Frontier
      <4>1. synced.content[pgen].payload \in Int /\ synced.content[pgen].nodes \in Int
        BY <1>2 DEF IsSynced
      <4>2. QED
        BY <1>2, <1>4, <4>1 DEF SyncedAtMost, MinOf, ContentDurable
    <3>4. QED
      BY <3>1, <3>2, <3>3
  <2>2. CASE AppendNodes
    BY <1>4, <2>2 DEF AppendNodes, Step, ContentDurable
  <2>3. CASE SyncContent
    <3>1. /\ pc = "syncContent"
          /\ synced' = [synced EXCEPT !.content[pgen] = [payload |-> Len(Content0.payload.data),
                                                         nodes |-> Len(Content0.nodes.data)]]
      BY <2>3 DEF SyncContent
    <3>2. Len(Content0.payload.data) = Frontier + 1 /\ Len(Content0.nodes.data) = Frontier + 1
      BY <1>2, <3>1 DEF DeltaWritten
    <3>3. /\ synced'.manifest = synced.manifest /\ synced'.snaps = synced.snaps
          /\ synced'.hots = synced.hots
          /\ synced'.content[pgen] = [payload |-> Frontier + 1, nodes |-> Frontier + 1]
      BY <1>2, <3>1, <3>2, SyncedOnlyContent
    <3>4. QED
      BY <1>2, <3>3
  <2>4. QED
    BY <2>1, <2>2, <2>3
<1>7. ContentDurable(SealedPgen(disk), Len(auth.arena))'
  BY <1>2, <1>5, <1>6 DEF ContentDurable
<1>8. NextDurable'
  <2>1. Frontier' = Frontier /\ pgen' = pgen
    BY <1>1 DEF Frontier
  <2>2. pc' = "frame" => ContentDurable(pgen, Frontier + 1)'
    BY <1>6, <2>1 DEF ContentDurable
  <2>3. pc' \notin PreparingSteps /\ pc' \notin {"nextHot", "manifest"}
    BY <1>1 DEF PreparingSteps, ContentSteps
  <2>4. QED
    BY <2>2, <2>3 DEF NextDurable
<1>9. FirstOpen'
  BY <1>1 DEF FirstOpen, ContentSteps
<1>10. Keeps(Promise(auth), acked') /\ auth' = Authoritative(disk')
  BY <1>1, AckedBefore DEF AuthorityInvariant, DirectoryTrue
<1>11. QED
  BY <1>3, <1>5, <1>6, <1>7, <1>8, <1>9, <1>10, SettledNames

\* The frame is written: with it the directory stands for the new store,
\* without it for the old one, and the content of both is durable.
LEMMA AppendFrameDurable ==
    ASSUME NoneIsNoFunction, AuthorityInvariant, DurableState, AppendFrame
    PROVE  DurableState'
<1> DEFINE frames == disk.hots[gen].frames
           hot == [frames |-> Append(frames, job), torn |-> FALSE]
           old == [frames |-> frames, torn |-> FALSE]
           before == [disk EXCEPT !.hots[gen] = old]
<1>1. /\ pc = "frame" /\ disk' = [disk EXCEPT !.hots[gen] = hot] /\ auth' = Authoritative(disk')
      /\ pc' = "syncFrame"
      /\ UNCHANGED <<mem, gen, pgen, poisoned, job, acked, crashes, synced>>
  BY DEF AppendFrame, Step, Observed, Writes
<1>2. /\ poisoned = FALSE /\ auth # None /\ gen = disk.manifest
      /\ pgen = SealedPgen(disk) /\ pgen \in Gens
      /\ disk.manifest \in DOMAIN disk.hots
      /\ Whole(auth) /\ mem.arena = auth.arena /\ Len(auth.arena) \in Nat
      /\ IsSynced(synced)
  BY <1>1, FramingFacts
<1>3. IsDirectory(disk) /\ SealsInOrder(disk) /\ auth = Authoritative(disk)
  BY DEF AuthorityInvariant, DirectoryTrue
<1>4. Previous = disk /\ Durable(disk) /\ FramesDurable(disk) /\ synced.manifest = disk.manifest
  BY <1>1 DEF DurableState, Previous
<1>5. pc \notin StartingSteps /\ pc' \notin StartingSteps
  BY <1>1 DEF StartingSteps, CreatingSteps
<1>6. Frames(frames) /\ IsSeq(frames) /\ Len(frames) \in Nat
  BY <1>2, <1>3, IsSeqFacts DEF IsDirectory, Frames
<1>7. /\ disk'.manifest = disk.manifest /\ disk'.snaps = disk.snaps
      /\ DOMAIN disk'.hots = DOMAIN disk.hots /\ disk'.hots[gen].frames = Append(frames, job)
      /\ disk'.content = disk.content
  BY <1>1, <1>2, <1>3 DEF IsDirectory
<1>8. SealedPgen(disk') = SealedPgen(disk)
  BY <1>7 DEF SealedPgen
<1>9. /\ auth' # None /\ Keeps(Promise(auth'), acked')
      /\ ContentDurable(SealedPgen(disk), Len(auth.arena))'
  <2>1. StoreStep(auth, auth')
    BY AppendFrameKeeps
  <2>2. auth' # None /\ Keeps(Promise(auth'), Promise(auth))
    BY <1>2, <2>1, StoreStepKeeps
  <2>3. Keeps(Promise(auth), acked)
    BY AckedBefore
  <2>4. Keeps(Promise(auth'), acked')
    BY <1>1, <2>2, <2>3 DEF Keeps
  <2>5. ContentDurable(SealedPgen(disk), Len(auth.arena))
    BY <1>5, ContentIsDurable
  <2>6. PICK t : LeadsTo(job, t)
    BY <1>1, FramingFacts, CreateLeads, SpliceLeads, OtherLeads
  <2>7. auth' = t
    <3>1. auth' = Adopt(mem', job')
      <4>1. AuthorityInvariant'
        BY AppendFrameKeeps
      <4>2. QED
        BY <1>1, <1>2, <4>1 DEF AuthorityInvariant, MemoryFollows, Working
    <3>2. QED
      BY <1>1, <2>6, <3>1 DEF LeadsTo
  <2>8. CASE t.arena = auth.arena
    BY <1>1, <1>8, <2>2, <2>4, <2>5, <2>7, <2>8 DEF ContentDurable
  <2>9. CASE t.arena # auth.arena
    <3>1. PICK x : t.arena = Append(auth.arena, x)
      BY <2>6, <2>9 DEF LeadsTo
    <3>2. Len(t.arena) = Len(auth.arena) + 1
      BY <1>2, <3>1, IsSeqAppend DEF Whole
    <3>3. job.type = "commit" /\ job.op.kind = "splice"
      <4>1. /\ t = ReplayEffect(auth, job, Content0) /\ IsFrame(job)
            /\ ReplayAllowed(auth, job, pgen, Content0)
        BY <2>6 DEF LeadsTo
      <4>2. QED
        BY <1>2, <2>9, <4>1, ReplayEffectWhole
    <3>4. ContentDurable(pgen, Frontier + 1)
      BY <1>1, <3>3 DEF DurableState, NextDurable
    <3>5. ContentDurable(SealedPgen(disk), Len(t.arena))
      BY <1>2, <3>2, <3>4 DEF Frontier
    <3>6. QED
      BY <1>1, <1>8, <2>2, <2>4, <2>7, <3>5 DEF ContentDurable
  <2>10. QED
    BY <2>8, <2>9
<1>10. Durable(disk)'
  <2>1. /\ disk'.manifest # 0 => disk'.manifest \in synced'.snaps
        /\ disk'.manifest \in DOMAIN disk'.hots <=> disk'.manifest \in DOMAIN synced'.hots
    BY <1>1, <1>4, <1>7 DEF Durable
  <2>2. QED
    BY <1>1, <1>5, <1>9, <2>1 DEF Durable, ContentDurable
<1>11. Previous' = before
  <2>1. Previous' = [disk' EXCEPT !.hots[gen].frames = SubSeq(@, 1, Len(@) - 1)]
    BY <1>1 DEF Previous
  <2>2. SubSeq(Append(frames, job), 1, Len(Append(frames, job)) - 1) = frames
    <3> DEFINE q == Append(frames, job)
               r == SubSeq(q, 1, Len(frames))
    <3> HIDE DEF frames
    <3>1. /\ IsSeq(q) /\ Len(q) = Len(frames) + 1
          /\ \A i \in 1..Len(frames) : q[i] = frames[i]
      BY <1>6, IsSeqAppend
    <3>2. Len(frames) \in 0..Len(q) /\ Len(q) - 1 = Len(frames)
      BY <1>6, <3>1
    <3> HIDE DEF q
    <3>3. IsSeq(r) /\ Len(r) = Len(frames) /\ \A i \in 1..Len(frames) : r[i] = q[i]
      BY <3>1, <3>2, IsSeqPrefix
    <3> HIDE DEF r
    <3>4. r = frames
      <4>1. \A i \in 1..Len(r) : r[i] = frames[i]
        BY <3>1, <3>3
      <4>2. IsSeq(r) /\ IsSeq(frames) /\ Len(r) = Len(frames)
        BY <1>6, <3>3
      <4>3. QED
        BY <4>1, <4>2, IsSeqEqual
    <3>5. QED
      BY <3>2, <3>4 DEF q, r
  <2>3. [hot EXCEPT !.frames = frames] = old
    <3>1. ASSUME NEW a, NEW b, NEW t
          PROVE  [[frames |-> a, torn |-> t] EXCEPT !.frames = b] = [frames |-> b, torn |-> t]
      OBVIOUS
    <3>2. QED
      BY <3>1, Zenon
  <2>4. Previous' = [disk' EXCEPT !.hots[gen] = [@ EXCEPT !.frames = frames]]
    <3>1. disk'.hots[gen].frames = Append(frames, job)
      BY <1>7
    <3> DEFINE short == SubSeq(disk'.hots[gen].frames, 1, Len(disk'.hots[gen].frames) - 1)
    <3>2. Previous' = [disk' EXCEPT !.hots[gen] = [@ EXCEPT !.frames = short]]
      BY <2>1, Zenon
    <3>3. short = frames
      BY <2>2, <3>1
    <3>4. QED
      BY <3>2, <3>3
  <2>5. gen \in DOMAIN disk.hots /\ "hots" \in DOMAIN disk
    BY <1>2, <1>3 DEF IsDirectory
  <2> HIDE DEF frames
  <2>6. QED
    BY <1>1, <2>3, <2>4, <2>5
<1>12. /\ IsDirectory(before) /\ SealsInOrder(before) /\ before.manifest = disk.manifest
       /\ before.snaps = disk.snaps /\ before.content = disk.content
       /\ DOMAIN before.hots = DOMAIN disk.hots /\ before.hots[gen].frames = frames
  <2>1. DOMAIN old = {"frames", "torn"} /\ Frames(old.frames) /\ old.frames = frames
    BY <1>6
  <2>2. gen \in DOMAIN disk.hots
    BY <1>2
  <2>3. IsDirectory(disk) /\ SealsInOrder(disk) /\ before = [disk EXCEPT !.hots[gen] = old]
    BY <1>3
  <2> HIDE DEF old, before, frames
  <2>4. QED
    BY <2>1, <2>2, <2>3, HotReplaced
<1> HIDE DEF before, old, hot
<1>13. Authoritative(before) = auth /\ SealedPgen(before) = SealedPgen(disk)
  <2>1. HotFrames(before, disk.manifest) = HotFrames(disk, disk.manifest)
    BY <1>2, <1>12 DEF HotFrames
  <2>2. SealedPgen(before) = SealedPgen(disk)
    BY <1>12 DEF SealedPgen
  <2>3. QED
    BY <1>3, <1>12, <2>1, <2>2 DEF Authoritative, HotFrames
<1>14. Durable(Previous)'
  <2>1. /\ Previous'.manifest = disk.manifest /\ DOMAIN Previous'.hots = DOMAIN disk.hots
        /\ Authoritative(Previous)' = auth /\ SealedPgen(Previous)' = SealedPgen(disk)
    BY <1>11, <1>12, <1>13
  <2>2. QED
    BY <1>1, <1>3, <1>4, <1>5, <2>1 DEF Durable, ContentDurable
<1>15. FramesDurable(Previous)' /\ synced'.manifest = Previous'.manifest
  <2>1. synced.hots[gen] = Len(frames)
    BY <1>2, <1>4 DEF FramesDurable
  <2>2. QED
    BY <1>1, <1>2, <1>4, <1>11, <1>12, <2>1 DEF FramesDurable
<1>16. Len(disk'.hots[gen'].frames) >= 1
  <2>1. Len(Append(frames, job)) = Len(frames) + 1
    BY <1>6, IsSeqAppend
  <2>2. QED
    BY <1>1, <1>6, <1>7, <2>1
<1>17. FirstOpen' /\ NextDurable'
  BY <1>1 DEF FirstOpen, NextDurable, PreparingSteps
<1>18. QED
  BY <1>1, <1>10, <1>14, <1>15, <1>16, <1>17 DEF DurableState

\* The frame is synced before the caller is told.
LEMMA SyncFrameDurable ==
    ASSUME NoneIsNoFunction, AuthorityInvariant, AuthorityInvariant', auth' = auth, DurableState,
           SyncFrame
    PROVE  DurableState'
<1>1. /\ pc = "syncFrame" /\ pc' = "idle" /\ disk' = disk
      /\ synced' = [synced EXCEPT !.hots[gen] = Len(disk.hots[gen].frames)]
      /\ acked' = Promise(mem') /\ poisoned' = poisoned
  BY DEF SyncFrame, Return, directory
<1>2. poisoned = FALSE
  BY <1>1 DEF AuthorityInvariant, Placed
<1>3. gen = disk.manifest /\ disk.manifest \in DOMAIN disk.hots
  BY <1>1, <1>2, WorkingFacts DEF OpeningSteps, CreatingSteps
<1>4. /\ mem' = auth' /\ auth' = Authoritative(disk')
      /\ IsSynced(synced) /\ auth = Authoritative(disk)
  BY <1>1, <1>2 DEF AuthorityInvariant, MemoryFollows, Working, DirectoryTrue
<1>5. Durable(disk) /\ synced.manifest = Previous.manifest /\ Previous.manifest = disk.manifest
  BY <1>1, PreviousFacts DEF DurableState
<1>6. gen \in DOMAIN synced.hots
  BY <1>3, <1>5 DEF Durable
<1>7. /\ synced'.manifest = synced.manifest /\ synced'.snaps = synced.snaps
      /\ DOMAIN synced'.hots = DOMAIN synced.hots
      /\ synced'.hots[gen] = Len(disk.hots[gen].frames) /\ synced'.content = synced.content
  BY <1>1, <1>4, <1>6 DEF IsSynced
<1>8. Keeps(Promise(auth'), acked')
  BY <1>1, <1>4, KeepsReflexive
<1>9. pc \notin StartingSteps /\ pc' \notin StartingSteps
  BY <1>1 DEF StartingSteps, CreatingSteps
<1>10. Durable(disk)'
  BY <1>1, <1>4, <1>5, <1>7, <1>8, <1>9 DEF Durable, ContentDurable
<1>11. FramesDurable(disk)' /\ Previous' = disk'
  BY <1>1, <1>3, <1>7 DEF FramesDurable, Previous
<1>12. FirstOpen' /\ NextDurable'
  BY <1>1 DEF FirstOpen, NextDurable, PreparingSteps
<1>13. QED
  BY <1>1, <1>5, <1>7, <1>10, <1>11, <1>12 DEF DurableState, UnsyncedSteps, FramesDurable

-----------------------------------------------------------------------------
(* Publishing *)

\* The snapshot and the hot log of the next generation are durable before the
\* manifest names them.
LEMMA PublishSnapshotDurable ==
    ASSUME NoneIsNoFunction, AuthorityInvariant, AuthorityInvariant', auth' = auth, DurableState,
           PublishSnapshot
    PROVE  DurableState'
<1>1. /\ pc = "snapshot" /\ pc' = "nextHot" /\ acked' = acked /\ job' = job
      /\ disk' = [disk EXCEPT !.snaps = Put(@, NextGen, SnapshotOf(job.store, job.pgen))]
      /\ synced' = [DirectorySynced EXCEPT !.snaps = @ \cup {NextGen}]
  BY DEF PublishSnapshot, Step, Observed, Writes
<1>2. /\ disk.manifest \in DOMAIN disk.hots /\ NextGen # disk.manifest
      /\ disk.manifest = 0 \/ disk.manifest \in DOMAIN disk.snaps
      /\ IsDirectory(disk) /\ SealsInOrder(disk) /\ auth = Authoritative(disk)
      /\ IsSynced(synced)
  BY <1>1, PreparingFacts DEF PreparingSteps
<1>3. Previous = disk /\ Durable(disk) /\ FramesDurable(disk) /\ synced.manifest = disk.manifest
  BY <1>1 DEF DurableState, Previous
<1>4. /\ disk'.manifest = disk.manifest /\ disk'.hots = disk.hots
      /\ disk.manifest \in DOMAIN disk.snaps =>
            disk'.snaps[disk.manifest] = disk.snaps[disk.manifest]
  <2>1. disk'.manifest = disk.manifest /\ disk'.hots = disk.hots
          /\ disk'.snaps = Put(disk.snaps, NextGen, SnapshotOf(job.store, job.pgen))
    BY <1>1, <1>2 DEF IsDirectory
  <2>2. QED
    BY <1>2, <2>1 DEF Put
<1>5. SealedPgen(disk') = SealedPgen(disk)
  BY <1>2, <1>4 DEF SealedPgen
<1>6. /\ synced'.manifest = disk.manifest /\ synced'.snaps = DOMAIN disk.snaps \cup {NextGen}
      /\ synced'.hots = synced.hots /\ synced'.content = synced.content
  BY <1>1, <1>2 DEF IsSynced, DirectorySynced
<1>7. /\ disk.manifest # 0 => disk.manifest \in synced'.snaps
      /\ disk.manifest \in DOMAIN disk'.hots <=> disk.manifest \in DOMAIN synced'.hots
      /\ disk.manifest \in DOMAIN disk'.hots =>
            synced'.hots[disk.manifest] = Len(disk'.hots[disk.manifest].frames)
  BY <1>2, <1>3, <1>4, <1>6 DEF Durable, FramesDurable
<1>8. /\ pc \notin StartingSteps /\ pc' \notin StartingSteps
      /\ pc \notin UnsyncedSteps /\ pc' \notin UnsyncedSteps
  BY <1>1 DEF StartingSteps, CreatingSteps, UnsyncedSteps
<1>9. ContentDurable(SealedPgen(disk), Len(auth.arena))'
  BY <1>5, <1>6, <1>8, ContentIsDurable DEF ContentDurable
<1>10. NextDurable'
  <2>1. ContentDurable(job.pgen, Len(job.store.arena))
    BY <1>1 DEF DurableState, NextDurable, PreparingSteps
  <2>2. NextGen' = NextGen
    BY <1>4 DEF NextGen
  <2>3. QED
    BY <1>1, <1>6, <2>1, <2>2 DEF NextDurable, ContentDurable
<1>11. FirstOpen'
  BY <1>1 DEF FirstOpen
<1>12. Keeps(Promise(auth), acked') /\ auth' = Authoritative(disk')
  BY <1>1, AckedBefore DEF AuthorityInvariant, DirectoryTrue
<1>13. QED
  BY <1>2, <1>3, <1>4, <1>5, <1>6, <1>7, <1>8, <1>9, <1>10, <1>11, <1>12, Settled

LEMMA PublishHotDurable ==
    ASSUME NoneIsNoFunction, AuthorityInvariant, AuthorityInvariant', auth' = auth, DurableState,
           PublishHot
    PROVE  DurableState'
<1>1. /\ pc = "nextHot" /\ pc' = "manifest" /\ acked' = acked /\ job' = job
      /\ disk' = [disk EXCEPT !.hots = Put(@, NextGen, EmptyHot)]
      /\ synced' = [DirectorySynced EXCEPT !.hots = Put(@, NextGen, 0)]
  BY DEF PublishHot, Step, Observed, Writes
<1>2. /\ disk.manifest \in DOMAIN disk.hots /\ NextGen # disk.manifest
      /\ disk.manifest = 0 \/ disk.manifest \in DOMAIN disk.snaps
      /\ IsDirectory(disk) /\ SealsInOrder(disk) /\ auth = Authoritative(disk)
      /\ IsSynced(synced)
  BY <1>1, PreparingFacts DEF PreparingSteps
<1>3. Previous = disk /\ Durable(disk) /\ FramesDurable(disk) /\ synced.manifest = disk.manifest
  BY <1>1 DEF DurableState, Previous
<1>4. /\ disk'.manifest = disk.manifest /\ disk'.snaps = disk.snaps
      /\ disk.manifest \in DOMAIN disk'.hots
      /\ disk'.hots[disk.manifest] = disk.hots[disk.manifest]
  <2>1. disk'.manifest = disk.manifest /\ disk'.snaps = disk.snaps
          /\ disk'.hots = Put(disk.hots, NextGen, EmptyHot)
    BY <1>1, <1>2 DEF IsDirectory
  <2>2. QED
    BY <1>2, <2>1 DEF Put
<1>5. SealedPgen(disk') = SealedPgen(disk)
  BY <1>4 DEF SealedPgen
<1>6. /\ synced'.manifest = disk.manifest /\ synced'.snaps = DOMAIN disk.snaps
      /\ synced'.hots = Put(synced.hots, NextGen, 0) /\ synced'.content = synced.content
  BY <1>1, <1>2 DEF IsSynced, DirectorySynced
<1>7. disk.manifest \in DOMAIN synced.hots
        /\ synced.hots[disk.manifest] = Len(disk.hots[disk.manifest].frames)
  BY <1>2, <1>3 DEF Durable, FramesDurable
<1>8. /\ disk.manifest \in DOMAIN synced'.hots
      /\ synced'.hots[disk.manifest] = synced.hots[disk.manifest]
      /\ NextGen \in DOMAIN synced'.hots /\ synced'.hots[NextGen] = 0
  BY <1>2, <1>6, <1>7 DEF Put
<1>9. /\ disk.manifest # 0 => disk.manifest \in synced'.snaps
      /\ disk.manifest \in DOMAIN disk'.hots <=> disk.manifest \in DOMAIN synced'.hots
      /\ disk.manifest \in DOMAIN disk'.hots =>
            synced'.hots[disk.manifest] = Len(disk'.hots[disk.manifest].frames)
  BY <1>2, <1>4, <1>6, <1>7, <1>8
<1>10. /\ pc \notin StartingSteps /\ pc' \notin StartingSteps
       /\ pc \notin UnsyncedSteps /\ pc' \notin UnsyncedSteps
  BY <1>1 DEF StartingSteps, CreatingSteps, UnsyncedSteps
<1>11. ContentDurable(SealedPgen(disk), Len(auth.arena))'
  BY <1>5, <1>6, <1>10, ContentIsDurable DEF ContentDurable
<1>12. NextDurable'
  <2>1. ContentDurable(job.pgen, Len(job.store.arena))
    BY <1>1 DEF DurableState, NextDurable, PreparingSteps
  <2>2. NextGen' = NextGen
    BY <1>4 DEF NextGen
  <2>3. NextGen \in synced'.snaps
    BY <1>1, <1>6 DEF AuthorityInvariant, PublicationFits, Published
  <2>4. QED
    BY <1>1, <1>6, <1>8, <2>1, <2>2, <2>3 DEF NextDurable, ContentDurable
<1>13. FirstOpen'
  BY <1>1 DEF FirstOpen
<1>14. Keeps(Promise(auth), acked') /\ auth' = Authoritative(disk')
  BY <1>1, AckedBefore DEF AuthorityInvariant, DirectoryTrue
<1>15. QED
  BY <1>2, <1>3, <1>4, <1>5, <1>6, <1>9, <1>10, <1>11, <1>12, <1>13, <1>14, Settled

LEMMA PublishHotRefusedDurable ==
    ASSUME AuthorityInvariant, AuthorityInvariant', DurableState, PublishHotRefused
    PROVE  DurableState'
<1>1. /\ pc = "nextHot" /\ pc' = "idle" /\ disk' = disk /\ auth' = auth /\ synced' = synced
      /\ acked' = acked
  BY DEF PublishHotRefused, Return, Observed, directory
<1>2. auth' = Authoritative(disk')
  BY DEF AuthorityInvariant, DirectoryTrue
<1>3. /\ pc \notin StartingSteps /\ pc' \notin StartingSteps
      /\ pc \notin UnsyncedSteps /\ pc' \notin UnsyncedSteps
  BY <1>1 DEF StartingSteps, CreatingSteps, UnsyncedSteps
<1>4. ContentDurable(SealedPgen(disk), Len(auth.arena))'
  BY <1>1, <1>3, ContentIsDurable DEF ContentDurable
<1>5. FirstOpen' /\ NextDurable'
  BY <1>1 DEF FirstOpen, NextDurable, PreparingSteps
<1>6. Keeps(Promise(auth), acked')
  BY <1>1, AckedBefore
<1>7. QED
  BY <1>1, <1>2, <1>3, <1>4, <1>5, <1>6, SettledNames

\* The manifest names the next generation.  Until the directory is synced a
\* power loss may fall back to the one before.
LEMMA RenameManifestDurable ==
    ASSUME NoneIsNoFunction, AuthorityInvariant, DurableState, RenameManifest
    PROVE  DurableState'
<1>1. /\ pc = "manifest" /\ pc' = "syncManifest" /\ disk' = [disk EXCEPT !.manifest = NextGen]
      /\ UNCHANGED <<mem, gen, pgen, poisoned, job, acked, synced>>
  BY DEF RenameManifest, Step, Observed, Writes
<1>2. /\ gen = disk.manifest /\ auth # None /\ NextGen # 0 /\ Whole(auth)
      /\ IsDirectory(disk) /\ SealsInOrder(disk) /\ auth = Authoritative(disk)
      /\ IsSynced(synced)
  BY <1>1, PreparingFacts DEF PreparingSteps
<1>3. /\ Previous = disk /\ Durable(disk) /\ FramesDurable(disk)
      /\ synced.manifest = disk.manifest
  BY <1>1 DEF DurableState, Previous
<1>4. /\ ContentDurable(job.pgen, Len(job.store.arena)) /\ NextGen \in synced.snaps
      /\ NextGen \in DOMAIN synced.hots /\ synced.hots[NextGen] = 0
  BY <1>1 DEF DurableState, NextDurable, PreparingSteps
<1>5. NextGen \in DOMAIN disk.hots /\ disk.hots[NextGen] = EmptyHot
  BY <1>1 DEF AuthorityInvariant, PublicationFits, Published
<1>6. /\ disk'.manifest = NextGen /\ disk'.hots = disk.hots /\ disk'.snaps = disk.snaps
      /\ disk'.content = disk.content /\ DOMAIN disk' = DOMAIN disk
  BY <1>1, <1>2 DEF IsDirectory
<1>7. /\ auth' = job.store /\ SealedPgen(disk') = job.pgen /\ auth' = Authoritative(disk')
      /\ auth' # None
  <2>1. AuthorityInvariant'
    BY RenameManifestKeeps
  <2>2. poisoned' = FALSE
    BY <1>1, <2>1 DEF AuthorityInvariant, Placed
  <2>3. QED
    BY <1>1, <2>1, <2>2
    DEF AuthorityInvariant, MemoryFollows, GenerationKnown, Working, DirectoryTrue
<1>8. Keeps(Promise(auth'), acked')
  <2>1. auth' = auth \/ StoreStep(auth, auth')
    BY RenameManifestKeeps
  <2>2. Keeps(Promise(auth'), Promise(auth))
    BY <1>2, <2>1, StoreStepKeeps, KeepsReflexive
  <2>3. Keeps(Promise(auth), acked)
    BY AckedBefore
  <2>4. QED
    BY <1>1, <2>2, <2>3 DEF Keeps
<1>9. pc \notin StartingSteps /\ pc' \notin StartingSteps
  BY <1>1 DEF StartingSteps, CreatingSteps
<1>10. Durable(disk)'
  BY <1>1, <1>4, <1>5, <1>6, <1>7, <1>8, <1>9 DEF Durable, ContentDurable
<1>11. FramesDurable(disk)'
  BY <1>1, <1>4, <1>5, <1>6, EmptyIsSeq DEF FramesDurable, EmptyHot
<1>12. /\ Previous'.manifest = disk.manifest /\ Previous'.hots = disk.hots
       /\ Previous'.snaps = disk.snaps /\ Previous'.content = disk.content
  <2>1. Previous' = [disk' EXCEPT !.manifest = gen]
    BY <1>1 DEF Previous
  <2>2. QED
    BY <1>2, <1>6, <2>1 DEF IsDirectory
<1>13. Authoritative(Previous)' = auth /\ SealedPgen(Previous)' = SealedPgen(disk)
  <2>1. SealedPgen(Previous)' = SealedPgen(disk)
    BY <1>12 DEF SealedPgen
  <2>2. QED
    BY <1>2, <1>12, <2>1 DEF Authoritative, HotFrames
<1>14. Durable(Previous)'
  BY <1>1, <1>2, <1>3, <1>9, <1>12, <1>13 DEF Durable, ContentDurable
<1>15. FramesDurable(Previous)' /\ synced'.manifest = Previous'.manifest
  BY <1>1, <1>3, <1>12 DEF FramesDurable
<1>16. FirstOpen' /\ NextDurable'
  BY <1>1 DEF FirstOpen, NextDurable, PreparingSteps
<1>17. QED
  BY <1>1, <1>10, <1>11, <1>14, <1>15, <1>16 DEF DurableState

LEMMA SyncManifestDurable ==
    ASSUME NoneIsNoFunction, AuthorityInvariant, AuthorityInvariant', auth' = auth, DurableState,
           SyncManifest
    PROVE  DurableState'
<1>1. /\ pc = "syncManifest" /\ pc' = "recycle" /\ disk' = disk /\ acked' = acked
      /\ synced' = DirectorySynced
  BY DEF SyncManifest, Observed, directory
<1>2. IsDirectory(disk) /\ SealsInOrder(disk) /\ auth = Authoritative(disk) /\ IsSynced(synced)
  BY DEF AuthorityInvariant, DirectoryTrue
<1>3. Durable(disk) /\ FramesDurable(disk)
  BY <1>1 DEF DurableState
<1>4. disk.manifest = 0 \/ disk.manifest \in DOMAIN disk.snaps
  BY <1>2, <1>3, StoreFacts DEF Durable
<1>5. /\ synced'.manifest = disk.manifest /\ synced'.snaps = DOMAIN disk.snaps
      /\ synced'.hots = synced.hots /\ synced'.content = synced.content
  BY <1>1, <1>2 DEF IsSynced, DirectorySynced
<1>6. pc \notin StartingSteps /\ pc' \notin StartingSteps
  BY <1>1 DEF StartingSteps, CreatingSteps
<1>7. Durable(disk)' /\ FramesDurable(disk)' /\ Previous' = disk'
  BY <1>1, <1>3, <1>4, <1>5, <1>6 DEF Durable, ContentDurable, FramesDurable, Previous
<1>8. FirstOpen' /\ NextDurable'
  BY <1>1 DEF FirstOpen, NextDurable, PreparingSteps
<1>9. QED
  BY <1>1, <1>5, <1>7, <1>8 DEF DurableState, UnsyncedSteps, FramesDurable

\* Only what the durable manifest does not name is removed.
LEMMA RecycleDurable ==
    ASSUME NoneIsNoFunction, AuthorityInvariant, AuthorityInvariant', auth' = auth, DurableState,
           Recycle
    PROVE  DurableState'
<1>1. /\ pc = "recycle" /\ pc' = "idle" /\ acked' = acked /\ synced' = synced
      /\ RemoveFiles(SupersededHots, SupersededSnaps, SupersededContent)
  BY DEF Recycle, Return, Observed
<1>2. disk' = Removed(SupersededHots, SupersededSnaps, SupersededContent)
  BY <1>1, Zenon DEF RemoveFiles, Writes, Removed
<1>3. poisoned = FALSE
  BY <1>1 DEF AuthorityInvariant, Placed
<1>4. gen = disk.manifest /\ disk.manifest \in DOMAIN disk.hots /\ disk.manifest \in Nat
  BY <1>1, <1>3, WorkingFacts
  DEF OpeningSteps, CreatingSteps, AuthorityInvariant, DirectoryTrue, IsDirectory
<1>5. gen \notin SupersededHots /\ gen \notin SupersededSnaps
  BY <1>4 DEF SupersededHots, SupersededSnaps
<1>6. IsDirectory(disk)
  BY DEF AuthorityInvariant, DirectoryTrue
<1>7. /\ disk'.manifest = disk.manifest /\ disk'.hots = Drop(disk.hots, SupersededHots)
      /\ disk'.snaps = Drop(disk.snaps, SupersededSnaps)
  BY <1>2, <1>6 DEF Removed, IsDirectory
<1>8. /\ gen \in DOMAIN disk'.hots /\ disk'.hots[gen] = disk.hots[gen]
      /\ gen \in DOMAIN disk.snaps => disk'.snaps[gen] = disk.snaps[gen]
  BY <1>4, <1>5, <1>7 DEF Drop
<1>9. Previous = disk /\ Durable(disk) /\ FramesDurable(disk)
  BY <1>1 DEF DurableState, Previous
<1>10. auth = Authoritative(disk) /\ auth' = Authoritative(disk')
  BY DEF AuthorityInvariant, DirectoryTrue
<1>11. SealedPgen(disk') = SealedPgen(disk)
  <2>1. disk.manifest = 0 \/ disk.manifest \in DOMAIN disk.snaps
    BY <1>6, <1>9, <1>10, StoreFacts DEF Durable, AuthorityInvariant, DirectoryTrue
  <2>2. QED
    BY <1>4, <1>7, <1>8, <2>1 DEF SealedPgen
<1>12. /\ disk.manifest # 0 => disk.manifest \in synced'.snaps
       /\ disk.manifest \in DOMAIN disk'.hots <=> disk.manifest \in DOMAIN synced'.hots
       /\ disk.manifest \in DOMAIN disk'.hots =>
             synced'.hots[disk.manifest] = Len(disk'.hots[disk.manifest].frames)
  BY <1>1, <1>4, <1>8, <1>9 DEF Durable, FramesDurable
<1>13. /\ pc \notin StartingSteps /\ pc' \notin StartingSteps
       /\ pc \notin UnsyncedSteps /\ pc' \notin UnsyncedSteps
  BY <1>1 DEF StartingSteps, CreatingSteps, UnsyncedSteps
<1>14. ContentDurable(SealedPgen(disk), Len(auth.arena))'
  BY <1>1, <1>11, <1>13, ContentIsDurable DEF ContentDurable
<1>15. FirstOpen' /\ NextDurable'
  BY <1>1 DEF FirstOpen, NextDurable, PreparingSteps
<1>16. Keeps(Promise(auth), acked')
  BY <1>1, AckedBefore
<1>17. QED
  BY <1>1, <1>7, <1>10, <1>11, <1>12, <1>13, <1>14, <1>15, <1>16, Settled

-----------------------------------------------------------------------------
(* Durability at every step *)

LEMMA InitDurable ==
    ASSUME NoneIsNoFunction, Init
    PROVE  DurableInvariant
<1>1. /\ disk = EmptyDisk /\ synced = AllSynced(EmptyDisk) /\ pc = "closed"
      /\ acked = Promise(NewStore) /\ crashes = [kills |-> 0, outages |-> 0] /\ faults = 0
  BY DEF Init
<1>2. AuthorityInvariant /\ auth = NewStore
  BY InitKeeps
<1>3. CountsTrue
  BY <1>1 DEF CountsTrue
<1>4. auth # None /\ Keeps(Promise(auth), acked)
  BY <1>1, <1>2, NewStoreWhole, WholeIsSome, KeepsReflexive
<1>5. Previous = disk /\ disk.manifest = 0 /\ DOMAIN disk.hots = {}
  BY <1>1 DEF Previous, EmptyDisk, EmptyMap
<1>6. synced.manifest = 0 /\ DOMAIN synced.hots = {}
  BY <1>1 DEF AllSynced, EmptyDisk, EmptyMap
<1>7. Durable(disk)
  <2>1. auth = Authoritative(disk)
    BY <1>2 DEF AuthorityInvariant, DirectoryTrue
  <2>2. Len(auth.arena) = 0
    BY <1>2, NewStoreWhole
  <2>3. pc \in StartingSteps
    BY <1>1 DEF StartingSteps
  <2>4. QED
    BY <1>4, <1>5, <1>6, <2>1, <2>2, <2>3 DEF Durable
<1>8. DurableState
  BY <1>1, <1>5, <1>6, <1>7
  DEF DurableState, UnsyncedSteps, FramesDurable, FirstOpen, NextDurable, PreparingSteps
<1>9. QED
  BY <1>3, <1>4, <1>8 DEF DurableInvariant, AckedKept, AckedRecovered

LEMMA NextDurableState ==
    ASSUME NoneIsNoFunction, AuthorityInvariant, DurableState, [Next]_vars,
           ~Fault, ~ProcessCrash, ~PowerLoss
    PROVE  DurableState'
<1>1. AuthorityInvariant'
  BY NextKeeps
<1>2. CASE Opening
  <2>1. ~HealOnOpen
    BY DEF HealOnOpen, DurableState, FirstOpen
  <2>2. ~OpenFails
    BY DEF OpenFails
  <2>3. CASE CreatePayload \/ CreateNodes
    <3>1. auth' = auth
      BY <2>3, CreateContentFileKeeps DEF CreatePayload, CreateNodes
    <3>2. QED
      BY <1>1, <2>3, <3>1, CreateContentFileDurable
  <2>4. CASE PayloadHeader \/ NodesHeader
    BY <1>1, <2>4, WriteHeaderKeeps, WriteHeaderDurable
  <2>5. CASE SyncHeaders
    BY <1>1, <2>5, SyncHeadersKeeps, SyncHeadersDurable
  <2>6. CASE OpenHot
    BY <1>1, <2>6, OpenHotKeeps, OpenHotDurable
  <2>7. CASE Open
    BY <2>7, OpenDurable
  <2>8. QED
    BY <1>2, <2>1, <2>2, <2>3, <2>4, <2>5, <2>6, <2>7 DEF Opening
<1>3. CASE Calls
  BY <1>1, <1>3, CallsDurable, BuildGcKeeps, BuildGcDurable
<1>4. CASE Committing
  <2>1. ~(AppendPayloadFails \/ AppendNodesFails \/ SyncContentFails \/ AppendFrameFails
          \/ SyncFrameFails)
    BY DEF AppendPayloadFails, AppendNodesFails, SyncContentFails, AppendFrameFails,
       SyncFrameFails
  <2>2. CASE AppendPayload \/ AppendNodes \/ SyncContent
    BY <1>1, <2>2, AppendPayloadKeeps, AppendNodesKeeps, SyncContentKeeps, ContentDurableStep
  <2>3. CASE AppendFrame
    BY <2>3, AppendFrameDurable
  <2>4. CASE SyncFrame
    BY <1>1, <2>4, SyncFrameKeeps, SyncFrameDurable
  <2>5. QED
    BY <1>4, <2>1, <2>2, <2>3, <2>4 DEF Committing
<1>5. CASE Publishing
  <2>1. ~(PublishSnapshotFails \/ PublishHotFails \/ RenameManifestFails \/ SyncManifestFails
          \/ RecycleFails)
    BY DEF PublishSnapshotFails, PublishHotFails, RenameManifestFails, SyncManifestFails,
       RecycleFails
  <2>2. CASE PublishSnapshot
    BY <1>1, <2>2, PublishSnapshotKeeps, PublishSnapshotDurable
  <2>3. CASE PublishHot
    BY <1>1, <2>3, PublishHotKeeps, PublishHotDurable
  <2>4. CASE PublishHotRefused
    BY <1>1, <2>4, PublishHotRefusedDurable
  <2>5. CASE RenameManifest
    BY <2>5, RenameManifestDurable
  <2>6. CASE SyncManifest
    BY <1>1, <2>6, SyncManifestKeeps, SyncManifestDurable
  <2>7. CASE Recycle
    BY <1>1, <2>7, RecycleKeeps, RecycleDurable
  <2>8. QED
    BY <1>5, <2>1, <2>2, <2>3, <2>4, <2>5, <2>6, <2>7 DEF Publishing
<1>6. CASE UNCHANGED vars
  BY <1>6 DEF vars, directory, writerVars, DurableState, Durable, FramesDurable, ContentDurable,
     Previous, FirstOpen, NextDurable, NextGen, Frontier, Content0
<1>7. QED
  BY <1>2, <1>3, <1>4, <1>5, <1>6 DEF Next

LEMMA NextDurableInvariant ==
    ASSUME NoneIsNoFunction, AuthorityInvariant, DurableInvariant, [Next]_vars
    PROVE  DurableInvariant'
<1>1. CountsTrue /\ AckedKept /\ (Undisturbed => DurableState) /\ DirectoryTrue
  BY DEF DurableInvariant, AuthorityInvariant
<1>2. /\ CountsTrue'
      /\ ~PowerLoss /\ Undisturbed' => Undisturbed /\ ~Fault /\ ~ProcessCrash
      /\ PowerLoss /\ Stops' <= 1 => Undisturbed
      /\ PowerLoss => ~Undisturbed'
  BY <1>1, CountsKept
<1>3. AckedKept'
  <2>1. CASE PowerLoss
    BY <1>1, <1>2, <2>1, PowerLossDurable DEF AckedKept
  <2>2. CASE ~PowerLoss
    BY <1>1, <2>2, AckedKeeps
  <2>3. QED
    BY <2>1, <2>2
<1>4. Undisturbed' => DurableState'
  BY <1>1, <1>2, NextDurableState
<1>5. QED
  BY <1>2, <1>3, <1>4 DEF DurableInvariant

-----------------------------------------------------------------------------
(* The theorems *)

\* The directory is durable, as far as the recovered store reaches, at every
\* step of a writer nothing has disturbed (splice_durable .. gc_with_sync).
THEOREM DurableInvariantHolds ==
    ASSUME NoneIsNoFunction
    PROVE  Spec => []DurableInvariant
<1>1. Init => DurableInvariant
  BY InitDurable
<1>2. AuthorityInvariant /\ DurableInvariant /\ [Next]_vars => DurableInvariant'
  BY NextDurableInvariant
<1>3. QED
  BY <1>1, <1>2, AuthorityInvariantHolds, PTL DEF Spec

\* Whatever was acknowledged is recovered after any stop, a loss of power
\* included, wherever it cut an operation, a seal or a collection.
THEOREM AckedSurvivesPowerLoss ==
    ASSUME NoneIsNoFunction
    PROVE  Spec => []AckedSurvives
<1>1. DurableInvariant => AckedSurvives
  BY DEF DurableInvariant, AckedKept, AckedRecovered, AckedSurvives
<1>2. QED
  BY <1>1, DurableInvariantHolds, PTL

\* A generation that is durable is complete.
LEMMA DurableComplete ==
    ASSUME IsSynced(synced), NEW d, IsDirectory(d), SealsInOrder(d), Durable(d), d.manifest # 0
    PROVE  /\ d.manifest \in DOMAIN d.snaps /\ d.manifest \in DOMAIN d.hots
           /\ d.manifest \in synced.snaps /\ d.manifest \in DOMAIN synced.hots
           /\ FilesReady(d.content[d.snaps[d.manifest].pgen])
           /\ FilesCover(d.content[d.snaps[d.manifest].pgen], d.snaps[d.manifest].frontier)
           /\ ContentDurable(d.snaps[d.manifest].pgen, d.snaps[d.manifest].frontier)
<1> DEFINE a == Authoritative(d)
           snap == d.snaps[d.manifest]
<1>1. a # None /\ SealedPgen(d) = snap.pgen /\ Current(d) = d.content[snap.pgen]
  BY DEF Durable, SealedPgen, Current
<1>2. /\ Whole(a) /\ d.manifest \in DOMAIN d.snaps /\ d.manifest \in DOMAIN d.hots
      /\ SealedPgen(d) \in Gens /\ IsContent(Current(d))
      /\ FilesReady(Current(d)) /\ FilesCover(Current(d), snap.frontier)
      /\ Continues(Base(d), a, Current(d))
  BY <1>1, AuthoritativeFacts
<1>3. ContentDurable(SealedPgen(d), Len(a.arena)) /\ d.manifest \in synced.snaps
        /\ d.manifest \in DOMAIN synced.hots
  BY <1>2 DEF Durable
<1>4. Len(Base(d).arena) = snap.frontier
  <2>1. Whole(snap.store) /\ snap.frontier \in Nat
    BY <1>2 DEF IsDirectory
  <2>2. Base(d) = ImportSnapshot(snap, Current(d))
    BY DEF Base
  <2> HIDE DEF snap
  <2>3. QED
    BY <1>2, <2>1, <2>2, ImportWhole
<1>5. snap.frontier <= Len(a.arena) /\ snap.frontier \in Nat /\ Len(a.arena) \in Nat
  BY <1>2, <1>4, IsSeqFacts DEF Continues, IsDirectory, Whole
<1>6. ContentDurable(snap.pgen, snap.frontier)
  <2>1. synced.content[snap.pgen].payload \in Int /\ synced.content[snap.pgen].nodes \in Int
    BY <1>1, <1>2 DEF IsSynced
  <2>2. QED
    BY <1>1, <1>3, <1>5, <2>1 DEF ContentDurable
<1>7. QED
  BY <1>1, <1>2, <1>3, <1>6

\* Nothing of a generation is removed before the manifest that supersedes it
\* is durable (recycle_superseded_hot, cleanup_superseded_generations): the one
\* a power loss falls back to is complete.
THEOREM FallbackIsComplete ==
    ASSUME NoneIsNoFunction
    PROVE  Spec => []FallbackComplete
<1>1. ASSUME AuthorityInvariant, DurableInvariant
      PROVE  FallbackComplete
  <2>1. SUFFICES ASSUME Stops + faults = 0, NEW m \in {synced.manifest, disk.manifest} \ {0}
                 PROVE  /\ m \in DOMAIN disk.snaps /\ m \in DOMAIN disk.hots
                        /\ m \in synced.snaps /\ m \in DOMAIN synced.hots
                        /\ FilesReady(disk.content[disk.snaps[m].pgen])
                        /\ FilesCover(disk.content[disk.snaps[m].pgen], disk.snaps[m].frontier)
                        /\ ContentDurable(disk.snaps[m].pgen, disk.snaps[m].frontier)
    BY DEF FallbackComplete, ContentDurable
  <2>2. Undisturbed
    BY <1>1, <2>1 DEF DurableInvariant, CountsTrue, Stops, Undisturbed
  <2>3. DurableState
    BY <1>1, <2>2 DEF DurableInvariant
  <2>4. IsDirectory(disk) /\ SealsInOrder(disk) /\ IsSynced(synced) /\ AuthorityInvariant
    BY <1>1 DEF AuthorityInvariant, DirectoryTrue
  <2>5. /\ IsDirectory(Previous) /\ SealsInOrder(Previous)
        /\ Previous.snaps = disk.snaps /\ Previous.content = disk.content
        /\ DOMAIN Previous.hots = DOMAIN disk.hots
    BY <2>3, <2>4, PreviousFacts
  <2>6. Durable(disk) /\ Durable(Previous)
    <3>1. pc \notin UnsyncedSteps => Previous = disk
      BY DEF Previous, UnsyncedSteps
    <3>2. QED
      BY <2>3, <3>1 DEF DurableState
  <2>7. PICK d \in {disk, Previous} : d.manifest = m
    BY <2>1, <2>3 DEF DurableState
  <2>8. /\ IsDirectory(d) /\ SealsInOrder(d) /\ Durable(d) /\ d.manifest # 0
        /\ d.snaps = disk.snaps /\ d.content = disk.content /\ DOMAIN d.hots = DOMAIN disk.hots
    BY <2>1, <2>4, <2>5, <2>6, <2>7
  <2>9. QED
    BY <2>4, <2>7, <2>8, DurableComplete
<1>2. AuthorityInvariant /\ DurableInvariant => FallbackComplete
  BY <1>1
<1>3. QED
  BY <1>2, AuthorityInvariantHolds, DurableInvariantHolds, PTL
=============================================================================
