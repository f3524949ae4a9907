------------------------ MODULE CheckpointStoreProofs ------------------------
(***************************************************************************)
(* CheckpointStore keeps what it acknowledged, agrees with its directory   *)
(* between calls and implements CheckpointLog, for every set of keys and   *)
(* values and every bound.                                                 *)
(*                                                                         *)
(* The invariant says which state t a manifest and a log stand for         *)
(* (Stands): the sealed checkpoints are a prefix of t, the log spells a    *)
(* run of t from a base that is the manifest's count, or the count before  *)
(* its last segment while a log is not recycled yet.  Recovery then gives  *)
(* t, so a step is shown right by what it does to manifest and log, and    *)
(* replay is looked at once.                                               *)
(***************************************************************************)
EXTENDS CheckpointStore, FiniteSetTheorems, SequenceTheorems, NaturalsInduction,
        WellFoundedInduction, TLAPS

\* None is not a function, so it is no state, manifest, log or transaction.
\* (TLC takes None for a model value, which differs from all of them.)
NoneIsNoFunction == None # [x \in DOMAIN None |-> None[x]]

-----------------------------------------------------------------------------
(* Types *)

States == [cps: Seq(Checkpoints), deleted: SUBSET Keys]
Entries == [gen: Nat, cps: Seq(Checkpoints)]
Manifests == [gen: Nat, count: Nat, segments: Seq(Entries), deleted: SUBSET Keys, id: Nat]
Transactions == [start: Nat, cp: Checkpoints]
Logs == [txs: Seq(Transactions), torn: BOOLEAN]

-----------------------------------------------------------------------------
(* What a directory stands for *)

\* The count of a manifest is that of its segments, and no segment is newer
\* than the manifest.
GoodManifest(m) ==
    /\ m \in Manifests
    /\ m.count = Len(SealedState(m).cps)
    /\ \A i \in 1..Len(m.segments) : m.segments[i].gen <= m.gen

\* After position n, every checkpoint could be appended to the ones before it.
InOrder(t, n) ==
    \A i \in n+1..Len(t.cps) :
        Appendable({t.cps[j] : j \in 1..i-1}, t.deleted, t.cps[i])

\* The log spells t from position b on.
Spells(hot, t, b) == \A i \in 1..Len(hot.txs) : hot.txs[i] = Tx(b + i - 1, t.cps[b + i])

\* How far manifest and log reach together.
Reach(m, hot, b) ==
    IF hot = None THEN m.count
    ELSE IF b + Len(hot.txs) > m.count THEN b + Len(hot.txs) ELSE m.count

\* Manifest m and a log that begins after b checkpoints stand for state t.
Stands(m, hot, t, b) ==
    /\ GoodManifest(m)
    /\ t \in States /\ t.deleted = m.deleted
    /\ b \in Nat /\ b <= m.count
    /\ b # m.count => m.segments # <<>> /\ b = PreviousCount(m)
    /\ Len(t.cps) = Reach(m, hot, b)
    /\ SealedState(m).cps = SubSeq(t.cps, 1, m.count)
    /\ InOrder(t, m.count)
    /\ hot # None => hot \in Logs /\ Spells(hot, t, b)

DirectoryTrue ==
    /\ auth = Recovered(dir)
    /\ ManifestHolds(dir, Loaded(dir))
    /\ \E b \in 0..Loaded(dir).count : Stands(Loaded(dir), dir.hot, auth, b)
    /\ Len(auth.cps) <= MaxCount

-----------------------------------------------------------------------------
(* The writer *)

\* Manifest, state and tail of the writer are those of the directory.
Agrees ==
    /\ dir.manifest = man
    /\ auth = mem
    /\ dir.hot # None
    /\ tail = Len(dir.hot.txs)
    /\ Stands(man, dir.hot, mem, man.count)

\* An open has taken manifest and sealed state over from the directory.
Opened == dir.manifest = man /\ man # None /\ mem = SealedState(man)

\* The transaction the call is about continues the writer's state.
TxTrue == \E c \in Checkpoints : Prepared(c) /\ job.tx = Tx(Len(mem.cps), c)

Staging == {"stageSegment", "publishSegment", "stageRoute", "publishRoute",
            "stageManifest", "publishManifest"}

\* A deletion, as CheckpointLog has it.
Deletes(s, t) ==
    \E K \in SUBSET Keys :
        /\ Prunable(LiveOf(s), K) \/ \E k \in Keys \cap KeysOf(LiveOf(s)) : K = Subtree(LiveOf(s), k)
        /\ LiveOf(t) = Surviving(LiveOf(s), K)
        /\ t.deleted = s.deleted \cup K

\* The generation being published: with the log as it is it stands for the
\* state the call will end in.
JobTrue ==
    /\ job.kind \in {"seal", "prune", "reidentify"}
    /\ job.drop \in Nat
    /\ Stands(job.manifest, dir.hot, job.state, job.manifest.count - job.drop)
    /\ Len(job.state.cps) <= MaxCount
    /\ job.kind = "seal" =>
          /\ job.drop \in 1..tail
          /\ job.state = mem
          /\ job.tx = None \/ TxTrue
    /\ job.kind = "prune" => job.drop = 0 /\ Deletes(mem, job.state)
    /\ job.kind = "reidentify" => job.drop = 0 /\ job.state = mem

\* Every entry of manifest n is one of m or e.
OldOrNew(n, m, e) ==
    \A i \in 1..Len(n.segments) :
        n.segments[i] = e \/ \E j \in 1..Len(m.segments) : n.segments[i] = m.segments[j]

NewFiles ==
    /\ job.entry \in Entries /\ job.entry.gen = man.gen + 1
    /\ OldOrNew(job.manifest, man, job.entry)

FileThere(d, a, cps) == a \in DOMAIN d.files /\ d.files[a] = cps

\* The record is written and not yet synced.
Written ==
    /\ dir.manifest = man /\ dir.hot # None
    /\ mem \in States /\ TxTrue
    /\ auth = Applied(mem, <<job.tx>>)
    /\ tail \in Nat /\ tail + 1 = Len(dir.hot.txs)
    /\ Stands(man, dir.hot, auth, man.count)

\* The manifest is renamed; the writer still has the one before.
Renamed ==
    /\ JobTrue
    /\ dir.manifest = job.manifest /\ auth = job.state
    /\ dir.hot # None /\ tail = Len(dir.hot.txs)
    /\ Stands(man, dir.hot, mem, man.count) /\ Len(mem.cps) <= MaxCount
    /\ ManifestHolds(dir, man)

\* The new manifest is the writer's and the log still has its prefix.
Sealed ==
    /\ dir.manifest = man /\ auth = mem
    /\ dir.hot # None /\ tail = Len(dir.hot.txs)
    /\ job.drop \in 1..tail
    /\ Stands(man, dir.hot, mem, man.count - job.drop)
    /\ job.tx = None \/ TxTrue

RecycledLog ==
    /\ dir.manifest = man /\ auth = mem
    /\ dir.hot # None /\ tail - job.drop = Len(dir.hot.txs)
    /\ Stands(man, dir.hot, mem, man.count)
    /\ job.tx = None \/ TxTrue

IsJob(j) ==
    j = [kind |-> j.kind, manifest |-> j.manifest, entry |-> j.entry, state |-> j.state,
         drop |-> j.drop, tx |-> j.tx, removed |-> j.removed]

WriterTrue ==
    /\ pc = "initManifest" => dir.manifest = None /\ man = DefaultManifest
    /\ pc \in {"initSync", "materialize"} => dir.manifest = man /\ man # None
    /\ pc \in {"openHot", "openLog", "openRecycled"} => Opened
    /\ pc \in {"openLog", "openRecycled"} => dir.hot # None
    /\ pc = "idle" /\ ~poisoned => Agrees
    /\ pc \in {"initManifest", "initSync", "materialize"} => job.kind = "open" /\ IsJob(job)
    /\ pc \in {"reclaim", "delete"} =>
          /\ IsJob(job)
          /\ job.kind \in {"open", "reclaim", "prune"}
          /\ job.kind = "open" => Opened
          /\ job.kind # "open" => Agrees
    /\ pc = "write" => Agrees /\ TxTrue
    /\ pc = "sync" => Written
    /\ pc \in Staging => IsJob(job) /\ Agrees /\ JobTrue
    /\ pc \in Staging /\ job.kind # "reidentify" => NewFiles
    /\ pc \in Staging /\ job.kind = "reidentify" => pc \in {"stageManifest", "publishManifest"}
    /\ pc \in {"stageRoute", "publishRoute"} =>
          FileThere(dir, <<"segment", job.entry.gen>>, job.entry.cps)
    /\ pc \in {"stageManifest", "publishManifest"} => ManifestHolds(dir, job.manifest)
    /\ pc = "syncManifest" => IsJob(job) /\ Renamed
    /\ pc = "recycle" => Sealed
    /\ pc = "recycled" => RecycledLog
    /\ poisoned => pc = "idle"
    /\ poisoned \in BOOLEAN

-----------------------------------------------------------------------------
(* What a power loss may leave *)

\* As long as nothing failed: the device lacks only the renames and the
\* records of the call in flight.
Undisturbed == crashes = 0 /\ faults = 0

AsLoaded(m) == IF m = None THEN DefaultManifest ELSE m

LogSynced(hot, n) == IF hot = None THEN n = 0 ELSE n \in 0..Len(hot.txs)

\* While a recycled log waits for its directory sync the device may have the
\* older one.
OlderTrue ==
    /\ safe.older.hot # None
    /\ LogSynced(safe.older.hot, safe.older.synced)
    /\ Stands(man, safe.older.hot, mem, man.count - job.drop)

DeviceTrue ==
    /\ ~poisoned
    /\ pc # "openRecycled"
    /\ LogSynced(dir.hot, safe.synced)
    /\ pc \notin {"initSync", "syncManifest"} => safe.manifest = dir.manifest
    /\ pc = "initSync" => safe.manifest = None /\ Stands(DefaultManifest, dir.hot, auth, 0)
    /\ pc = "syncManifest" => safe.manifest = man
    /\ pc # "recycled" => safe.older = None
    /\ safe.older # None => OlderTrue
    /\ ManifestHolds(safe, AsLoaded(safe.manifest))
    /\ ManifestHolds(safe, AsLoaded(dir.manifest))
    /\ pc \in {"stageRoute", "publishRoute"} =>
          FileThere(safe, <<"segment", job.entry.gen>>, job.entry.cps)
    /\ pc \in {"stageManifest", "publishManifest"} => ManifestHolds(safe, job.manifest)
    /\ pc \notin {"syncManifest", "recycle"} =>
          Stands(Loaded(dir), dir.hot, auth, Loaded(dir).count)

IsDirectory(d) == d = [manifest |-> d.manifest, files |-> d.files, tmps |-> d.tmps, hot |-> d.hot]

IsDevice(s) == s = [manifest |-> s.manifest, files |-> s.files, synced |-> s.synced, older |-> s.older]

Shapes == IsDirectory(dir) /\ IsDevice(safe) /\ crashes \in Nat /\ faults \in Nat

StoreInvariant ==
    /\ Shapes
    /\ DirectoryTrue
    /\ WriterTrue
    /\ Undisturbed => DeviceTrue

-----------------------------------------------------------------------------
(* What was acknowledged *)

\* A recycled log never fills its reserve to the last byte, so that a barrier
\* follows the copy of its suffix.
LogReserved == \A n \in 1..MaxCount - 1 : RoundCapacity(n) > n

\* The state the call in flight began in and the one it will end in hold what
\* was acknowledged too.
AckedTrue ==
    /\ acked = [live |-> acked.live, deleted |-> acked.deleted]
    /\ acked.live \subseteq LiveOf(auth) /\ acked.deleted \subseteq auth.deleted
    /\ pc \in {"sync", "syncManifest"} =>
          acked.live \subseteq LiveOf(mem) /\ acked.deleted \subseteq mem.deleted
    /\ pc \in Staging => acked.live \subseteq LiveOf(job.state)

\* Every record but the one being written is on the device.
RecordsSynced ==
    Undisturbed =>
        /\ dir.hot # None => safe.synced = IF pc = "sync" THEN tail ELSE Len(dir.hot.txs)
        /\ safe.older # None => safe.older.synced = Len(safe.older.hot.txs)

-----------------------------------------------------------------------------
(* Naturals *)

\* A set of naturals has a least member.
LEMMA LeastNatural ==
    ASSUME NEW T, T \subseteq Nat, T # {}
    PROVE  \E k \in T : \A j \in T : k <= j
<1> DEFINE R == {ss \in Nat \X Nat : ss[1] < ss[2]}
<1>1. IsWellFoundedOn(R, Nat)
  BY NatLessThanWellFounded, Zenon DEF OpToRel
<1> HIDE DEF R
<1>2. \E k \in T : \A j \in T : ~(<<j, k>> \in R)
  BY <1>1, WFMin
<1>3. \A j, k \in Nat : ~(<<j, k>> \in R) => k <= j
  BY DEF R
<1>4. QED
  BY <1>2, <1>3

\* Induction over the naturals, on a set.
LEMMA SetInduction ==
    ASSUME NEW T, 0 \in T, \A n \in Nat : n \in T => n + 1 \in T
    PROVE  \A n \in Nat : n \in T
<1> DEFINE Missed == Nat \ T
<1>1. SUFFICES ASSUME Missed # {} PROVE FALSE
  OBVIOUS
<1>2. PICK k \in Missed : \A j \in Missed : k <= j
  <2>1. Missed \subseteq Nat
    OBVIOUS
  <2> HIDE DEF Missed
  <2>2. QED
    BY <1>1, <2>1, LeastNatural
<1>3. k \in Nat /\ k # 0
  BY <1>2
<1>4. k - 1 \in Nat /\ k - 1 \notin Missed
  BY <1>2, <1>3
<1>5. QED
  BY <1>2, <1>3, <1>4

-----------------------------------------------------------------------------
(* Joining sequences *)

\* f builds the joined sequence one piece at a time.
Joins(f, seqs) ==
    /\ f[0] = <<>>
    /\ \A n \in 1..Len(seqs) : f[n] = f[n - 1] \o seqs[n]

\* Joined is the last value of the function its definition says.
LEMMA JoinedUnfolds ==
    ASSUME NEW seqs, Len(seqs) \in Nat
    PROVE  \E f : Joins(f, seqs) /\ Joined(seqs) = f[Len(seqs)]
<1> DEFINE Body(g, N) == [n \in 0..N |-> IF n = 0 THEN <<>> ELSE g[n - 1] \o seqs[n]]
           T == {N \in Nat : \E g : g = Body(g, N)}
<1>1. 0 \in T
  <2> DEFINE g == [n \in 0..0 |-> <<>>]
  <2>1. g = Body(g, 0)
    OBVIOUS
  <2>2. QED
    BY <2>1
<1>2. ASSUME NEW N \in Nat, N \in T PROVE N + 1 \in T
  <2>1. PICK g : g = Body(g, N)
    BY <1>2
  <2> DEFINE h == [n \in 0..N + 1 |-> IF n = 0 THEN <<>> ELSE g[n - 1] \o seqs[n]]
  <2>2. \A n \in 0..N : h[n] = g[n]
    <3>1. \A n \in 0..N : Body(g, N)[n] = h[n]
      OBVIOUS
    <3>2. QED
      BY <2>1, <3>1, Zenon
  <2>3. \A n \in 0..N + 1 : n # 0 => h[n - 1] = g[n - 1]
    <3> HIDE DEF h
    <3>1. \A n \in 0..N + 1 : n # 0 => n - 1 \in 0..N
      OBVIOUS
    <3>2. QED
      BY <2>2, <3>1, Zenon
  <2>4. h = Body(h, N + 1)
    <3> HIDE DEF h
    <3>1. \A n \in 0..N + 1 : (IF n = 0 THEN <<>> ELSE h[n - 1] \o seqs[n])
                                = (IF n = 0 THEN <<>> ELSE g[n - 1] \o seqs[n])
      BY <2>3, Zenon
    <3>2. Body(h, N + 1) = [n \in 0..N + 1 |-> IF n = 0 THEN <<>> ELSE g[n - 1] \o seqs[n]]
      BY <3>1
    <3>3. QED
      BY <3>2, Zenon DEF h
  <2>5. \E f : f = Body(f, N + 1)
    <3> HIDE DEF h, Body
    <3>1. QED
      BY <2>4, Zenon
  <2>6. QED
    <3> HIDE DEF Body
    <3>1. QED
      BY <2>5
<1>3. Len(seqs) \in T
  <2> HIDE DEF T
  <2>1. QED
    BY <1>1, <1>2, SetInduction
<1>4. PICK g : g = Body(g, Len(seqs))
  BY <1>3
<1> DEFINE r == CHOOSE f : f = Body(f, Len(seqs))
<1>5. Joined(seqs) = r[Len(seqs)]
  BY Zenon DEF Joined
<1>6. r = Body(r, Len(seqs))
  <2> HIDE DEF Body
  <2>1. QED
    BY <1>4, Zenon
<1> HIDE DEF r
<1>7. \A n \in 0..Len(seqs) : r[n] = IF n = 0 THEN <<>> ELSE r[n - 1] \o seqs[n]
  <2>1. \A n \in 0..Len(seqs) :
           Body(r, Len(seqs))[n] = IF n = 0 THEN <<>> ELSE r[n - 1] \o seqs[n]
    OBVIOUS
  <2>2. QED
    BY <1>6, <2>1, Zenon
<1>8. Joins(r, seqs)
  <2>1. 0 \in 0..Len(seqs)
    OBVIOUS
  <2>2. r[0] = <<>>
    BY <1>7, <2>1, Zenon
  <2>3. \A n \in 1..Len(seqs) : n \in 0..Len(seqs) /\ n # 0
    OBVIOUS
  <2>4. \A n \in 1..Len(seqs) : r[n] = r[n - 1] \o seqs[n]
    BY <1>7, <2>3, Zenon
  <2>5. QED
    BY <2>2, <2>4 DEF Joins
<1>9. QED
  BY <1>5, <1>8

\* Two ways to build it agree on what they have in common.
LEMMA JoinsAgree ==
    ASSUME NEW f, NEW g, NEW p, NEW q, Joins(f, p), Joins(g, q),
           Len(p) \in Nat, Len(q) \in Nat, Len(p) <= Len(q),
           \A n \in 1..Len(p) : p[n] = q[n]
    PROVE  \A n \in 0..Len(p) : f[n] = g[n]
<1> DEFINE T == {n \in Nat : n <= Len(p) => f[n] = g[n]}
<1>1. 0 \in T
  BY DEF Joins
<1>2. ASSUME NEW n \in Nat, n \in T PROVE n + 1 \in T
  <2>1. SUFFICES ASSUME n + 1 <= Len(p) PROVE f[n + 1] = g[n + 1]
    OBVIOUS
  <2>2. f[n] = g[n] /\ n + 1 \in 1..Len(p) /\ n + 1 \in 1..Len(q) /\ (n + 1) - 1 = n
    BY <1>2, <2>1
  <2>3. f[n + 1] = f[n] \o p[n + 1] /\ g[n + 1] = g[n] \o q[n + 1]
    BY <2>2 DEF Joins
  <2>4. QED
    BY <2>2, <2>3
<1>3. \A n \in Nat : n \in T
  <2> HIDE DEF T
  <2>1. QED
    BY <1>1, <1>2, SetInduction
<1>4. QED
  BY <1>3

\* Joining one piece more appends it.
LEMMA JoinedAppend ==
    ASSUME NEW S, NEW seqs \in Seq(S), NEW p \in S
    PROVE  Joined(Append(seqs, p)) = Joined(seqs) \o p
<1> DEFINE more == Append(seqs, p)
<1>1. /\ Len(seqs) \in Nat /\ Len(more) = Len(seqs) + 1 /\ more[Len(seqs) + 1] = p
      /\ \A n \in 1..Len(seqs) : seqs[n] = more[n]
  BY AppendProperties, LenProperties
<1> HIDE DEF more
<1>2. PICK f : Joins(f, seqs) /\ Joined(seqs) = f[Len(seqs)]
  BY <1>1, JoinedUnfolds
<1>3. PICK g : Joins(g, more) /\ Joined(more) = g[Len(more)]
  BY <1>1, JoinedUnfolds
<1>4. \A n \in 0..Len(seqs) : f[n] = g[n]
  BY <1>1, <1>2, <1>3, JoinsAgree
<1>5. g[Len(seqs) + 1] = g[Len(seqs)] \o p
  <2>1. Len(seqs) + 1 \in 1..Len(more) /\ (Len(seqs) + 1) - 1 = Len(seqs)
    BY <1>1
  <2>2. QED
    BY <1>1, <1>3, <2>1 DEF Joins
<1>6. f[Len(seqs)] = g[Len(seqs)]
  BY <1>1, <1>4
<1>7. Joined(more) = Joined(seqs) \o p
  BY <1>1, <1>2, <1>3, <1>5, <1>6, Zenon
<1>8. QED
  BY <1>7 DEF more

LEMMA JoinedEmpty ==
    ASSUME NEW seqs, Len(seqs) = 0
    PROVE  Joined(seqs) = <<>>
<1>1. PICK f : Joins(f, seqs) /\ Joined(seqs) = f[Len(seqs)]
  BY JoinedUnfolds
<1>2. f[0] = <<>>
  BY <1>1 DEF Joins
<1>3. QED
  BY <1>1, <1>2, Zenon

Elements(q) == {q[i] : i \in 1..Len(q)}

LEMMA ElementsConcat ==
    ASSUME NEW S, NEW p \in Seq(S), NEW q \in Seq(S)
    PROVE  Elements(p \o q) = Elements(p) \cup Elements(q)
<1>1. /\ Len(p \o q) = Len(p) + Len(q) /\ Len(p) \in Nat /\ Len(q) \in Nat
      /\ \A i \in 1..Len(p) + Len(q) :
            (p \o q)[i] = IF i <= Len(p) THEN p[i] ELSE q[i - Len(p)]
  BY ConcatProperties, LenProperties
<1> DEFINE r == p \o q
<1> HIDE DEF r
<1>2. ASSUME NEW i \in 1..Len(p) PROVE p[i] \in Elements(r)
  BY <1>1 DEF Elements, r
<1>3. ASSUME NEW i \in 1..Len(q) PROVE q[i] \in Elements(r)
  <2>1. Len(p) + i \in 1..Len(r) /\ r[Len(p) + i] = q[i]
    BY <1>1 DEF r
  <2>2. QED
    BY <2>1 DEF Elements
<1>4. ASSUME NEW i \in 1..Len(r) PROVE r[i] \in Elements(p) \cup Elements(q)
  <2>1. CASE i <= Len(p)
    BY <1>1, <2>1 DEF Elements, r
  <2>2. CASE i > Len(p)
    <3>1. i - Len(p) \in 1..Len(q) /\ r[i] = q[i - Len(p)]
      BY <1>1, <2>2 DEF r
    <3>2. QED
      BY <3>1 DEF Elements
  <2>3. QED
    BY <1>1, <2>1, <2>2
<1>5. QED
  BY <1>2, <1>3, <1>4 DEF Elements, r

\* What was joined holds the elements of its pieces and nothing else.
LEMMA JoinedElements ==
    ASSUME NEW S, NEW seqs \in Seq(Seq(S))
    PROVE  /\ Joined(seqs) \in Seq(S)
           /\ Elements(Joined(seqs)) = UNION {Elements(seqs[n]) : n \in 1..Len(seqs)}
<1>1. Len(seqs) \in Nat /\ \A n \in 1..Len(seqs) : seqs[n] \in Seq(S)
  BY LenProperties, ElementOfSeq
<1>2. PICK f : Joins(f, seqs) /\ Joined(seqs) = f[Len(seqs)]
  BY <1>1, JoinedUnfolds
<1> DEFINE Upto(n) == UNION {Elements(seqs[k]) : k \in 1..n}
           T == {n \in Nat : n <= Len(seqs) => f[n] \in Seq(S) /\ Elements(f[n]) = Upto(n)}
<1>3. 0 \in T
  <2>1. f[0] = <<>>
    BY <1>2 DEF Joins
  <2>2. f[0] \in Seq(S) /\ Elements(<<>>) = {} /\ Upto(0) = {}
    BY <2>1, EmptySeq DEF Elements
  <2>3. QED
    BY <2>1, <2>2
<1>4. ASSUME NEW n \in Nat, n \in T PROVE n + 1 \in T
  <2>1. SUFFICES ASSUME n + 1 <= Len(seqs)
                 PROVE  f[n + 1] \in Seq(S) /\ Elements(f[n + 1]) = Upto(n + 1)
    OBVIOUS
  <2>2. f[n] \in Seq(S) /\ Elements(f[n]) = Upto(n)
    BY <1>1, <1>4, <2>1
  <2>3. n + 1 \in 1..Len(seqs) /\ (n + 1) - 1 = n
    BY <1>1, <2>1
  <2>4. f[n + 1] = f[n] \o seqs[n + 1]
    BY <1>2, <2>3 DEF Joins
  <2>5. f[n + 1] \in Seq(S) /\ Elements(f[n + 1]) = Elements(f[n]) \cup Elements(seqs[n + 1])
    BY <1>1, <2>2, <2>3, <2>4, ConcatProperties, ElementsConcat
  <2>6. Upto(n + 1) = Upto(n) \cup Elements(seqs[n + 1])
    <3>1. 1..n + 1 = (1..n) \cup {n + 1}
      OBVIOUS
    <3>2. QED
      BY <3>1
  <2>7. QED
    BY <2>2, <2>5, <2>6
<1>5. \A n \in Nat : n \in T
  <2> HIDE DEF T
  <2>1. QED
    BY <1>3, <1>4, SetInduction
<1>6. f[Len(seqs)] \in Seq(S) /\ Elements(f[Len(seqs)]) = Upto(Len(seqs))
  <2>1. Len(seqs) \in T
    BY <1>1, <1>5, Zenon
  <2>2. QED
    BY <1>1, <2>1
<1>7. QED
  BY <1>2, <1>6

-----------------------------------------------------------------------------
(* Sealed states *)

Pieces(m) == [i \in 1..Len(m.segments) |-> m.segments[i].cps]

LEMMA PiecesTyped ==
    ASSUME NEW m, m.segments \in Seq(Entries)
    PROVE  /\ Len(m.segments) \in Nat
           /\ Pieces(m) \in Seq(Seq(Checkpoints))
           /\ Len(Pieces(m)) = Len(m.segments)
           /\ \A i \in 1..Len(m.segments) : Pieces(m)[i] = m.segments[i].cps
<1>1. Len(m.segments) \in Nat /\ \A i \in 1..Len(m.segments) : m.segments[i] \in Entries
  BY LenProperties, ElementOfSeq
<1>2. \A i \in 1..Len(m.segments) : m.segments[i].cps \in Seq(Checkpoints)
  BY <1>1 DEF Entries
<1>3. QED
  BY <1>1, <1>2, IsASeq DEF Pieces

LEMMA SealedTyped ==
    ASSUME NEW m \in Manifests
    PROVE  SealedState(m) \in States
<1>1. Joined(Pieces(m)) \in Seq(Checkpoints)
  BY PiecesTyped, JoinedElements DEF Manifests
<1>2. QED
  BY <1>1 DEF SealedState, States, Manifests, Pieces

\* A manifest with one segment more seals the checkpoints of that segment too.
LEMMA SealedAppend ==
    ASSUME NEW m \in Manifests, NEW n, NEW e \in Entries, n.segments = Append(m.segments, e)
    PROVE  SealedState(n).cps = SealedState(m).cps \o e.cps
<1>1. /\ m.segments \in Seq(Entries) /\ n.segments \in Seq(Entries) /\ Len(m.segments) \in Nat
      /\ Len(n.segments) = Len(m.segments) + 1
      /\ \A i \in 1..Len(m.segments) : n.segments[i] = m.segments[i]
      /\ n.segments[Len(m.segments) + 1] = e
      /\ e.cps \in Seq(Checkpoints)
  BY AppendProperties, LenProperties DEF Manifests, Entries
<1>2. Pieces(n) = Append(Pieces(m), e.cps)
  <2>1. /\ Pieces(m) \in Seq(Seq(Checkpoints)) /\ Len(Pieces(m)) = Len(m.segments)
        /\ \A i \in 1..Len(m.segments) : Pieces(m)[i] = m.segments[i].cps
    BY <1>1, PiecesTyped
  <2>2. /\ Pieces(n) \in Seq(Seq(Checkpoints)) /\ Len(Pieces(n)) = Len(m.segments) + 1
        /\ \A i \in 1..Len(m.segments) + 1 : Pieces(n)[i] = n.segments[i].cps
    BY <1>1, PiecesTyped
  <2> DEFINE q == Append(Pieces(m), e.cps)
  <2>3. /\ q \in Seq(Seq(Checkpoints)) /\ Len(q) = Len(m.segments) + 1
        /\ \A i \in 1..Len(m.segments) : q[i] = m.segments[i].cps
        /\ q[Len(m.segments) + 1] = e.cps
    BY <1>1, <2>1, AppendProperties
  <2> HIDE DEF q
  <2>4. ASSUME NEW i \in 1..Len(m.segments) + 1 PROVE q[i] = Pieces(n)[i]
    <3>1. CASE i \in 1..Len(m.segments)
      BY <1>1, <2>2, <2>3, <3>1
    <3>2. CASE i = Len(m.segments) + 1
      BY <1>1, <2>2, <2>3, <3>2
    <3>3. QED
      BY <1>1, <3>1, <3>2
  <2>5. Pieces(n) = q
    BY <2>2, <2>3, <2>4, SeqEqual
  <2>6. QED
    BY <2>5 DEF q
<1>3. Joined(Append(Pieces(m), e.cps)) = Joined(Pieces(m)) \o e.cps
  BY <1>1, PiecesTyped, JoinedAppend
<1>4. QED
  BY <1>2, <1>3 DEF SealedState, Pieces

\* A manifest with one segment seals just that.
LEMMA SealedOne ==
    ASSUME NEW n, NEW e \in Entries, n.segments = <<e>>
    PROVE  SealedState(n).cps = e.cps
<1> DEFINE none == <<>>
<1>1. e.cps \in Seq(Checkpoints) /\ Len(none) = 0 /\ none \in Seq(Seq(Checkpoints))
  BY EmptySeq DEF Entries
<1>2. Pieces(n) = Append(none, e.cps)
  <2>1. Len(n.segments) = 1 /\ n.segments[1] = e
    OBVIOUS
  <2>2. Append(none, e.cps) = <<e.cps>>
    <3>1. Append(none, e.cps) = none \o <<e.cps>>
      BY <1>1, AppendIsConcat
    <3>2. <<e.cps>> \in Seq(Seq(Checkpoints))
      BY <1>1
    <3>3. QED
      BY <3>1, <3>2, ConcatEmptySeq
  <2>3. [i \in 1..1 |-> e.cps] = <<e.cps>>
    OBVIOUS
  <2>4. Pieces(n) = [i \in 1..1 |-> e.cps]
    BY <2>1 DEF Pieces
  <2>5. QED
    BY <2>2, <2>3, <2>4
<1>3. Joined(Append(none, e.cps)) = Joined(none) \o e.cps
  BY <1>1, JoinedAppend
<1>4. Joined(none) = <<>>
  BY <1>1, JoinedEmpty
<1>5. <<>> \o e.cps = e.cps
  BY <1>1, ConcatEmptySeq
<1>6. QED
  BY <1>2, <1>3, <1>4, <1>5 DEF SealedState, Pieces

\* What compact_live_state leaves: the survivors and the tombstones.
LEMMA CompactedLive ==
    ASSUME NEW s \in States, NEW K \in SUBSET Keys
    PROVE  /\ Compacted(s, K) \in States
           /\ LiveOf(Compacted(s, K)) = Surviving(LiveOf(s), K)
           /\ Compacted(s, K).deleted = s.deleted \cup K
           /\ Len(Compacted(s, K).cps) \in Nat
<1> DEFINE n == Len(s.cps)
           kept == [i \in 1..n |-> IF s.cps[i].key \in K THEN <<>> ELSE <<s.cps[i]>>]
           t == Compacted(s, K)
<1>1. s.cps \in Seq(Checkpoints) /\ s.deleted \in SUBSET Keys
  BY DEF States
<1>2. n \in Nat /\ \A i \in 1..n : s.cps[i] \in Checkpoints
  BY <1>1, LenProperties, ElementOfSeq
<1>3. \A i \in 1..n : (IF s.cps[i].key \in K THEN <<>> ELSE <<s.cps[i]>>) \in Seq(Checkpoints)
  BY <1>2
<1>4. kept \in Seq(Seq(Checkpoints)) /\ Len(kept) = n
  BY <1>2, <1>3, IsASeq
<1>5. t = [cps |-> Joined(kept), deleted |-> s.deleted \cup K]
  BY DEF Compacted
<1>6. /\ Joined(kept) \in Seq(Checkpoints)
      /\ Elements(Joined(kept)) = UNION {Elements(kept[i]) : i \in 1..n}
  <2> HIDE DEF kept
  <2>1. QED
    BY <1>4, JoinedElements
<1>7. \A i \in 1..n : Elements(kept[i]) = IF s.cps[i].key \in K THEN {} ELSE {s.cps[i]}
  <2>1. Elements(<<>>) = {}
    BY EmptySeq DEF Elements
  <2>2. \A c : Elements(<<c>>) = {c}
    BY DEF Elements
  <2>3. QED
    BY <2>1, <2>2
<1> HIDE DEF kept
<1>8. UNION {Elements(kept[i]) : i \in 1..n} = Surviving(LiveOf(s), K)
  <2> DEFINE E(i) == Elements(kept[i])
  <2>1. \A i \in 1..n : \A c : c \in E(i) <=> c = s.cps[i] /\ c.key \notin K
    BY <1>7
  <2> HIDE DEF E
  <2>2. \A c : c \in UNION {E(i) : i \in 1..n} <=> \E i \in 1..n : c = s.cps[i] /\ c.key \notin K
    BY <2>1
  <2>3. \A c : c \in Surviving(LiveOf(s), K) <=> \E i \in 1..n : c = s.cps[i] /\ c.key \notin K
    BY DEF Surviving, LiveOf
  <2>4. UNION {E(i) : i \in 1..n} = Surviving(LiveOf(s), K)
    BY <2>2, <2>3
  <2>5. QED
    BY <2>4 DEF E
<1>9. LiveOf(t) = Elements(Joined(kept))
  BY <1>5 DEF LiveOf, Elements
<1>10. t \in States /\ t.deleted = s.deleted \cup K /\ Len(t.cps) \in Nat
  BY <1>1, <1>5, <1>6, LenProperties DEF States
<1>11. QED
  BY <1>6, <1>8, <1>9, <1>10

-----------------------------------------------------------------------------
(* The hot log *)

LEMMA LogTyped ==
    ASSUME NEW hot \in Logs
    PROVE  /\ hot.txs \in Seq(Transactions) /\ Len(hot.txs) \in Nat
           /\ \A i \in 1..Len(hot.txs) : hot.txs[i] \in Transactions
  BY LenProperties, ElementOfSeq DEF Logs

\* A log that continues the watermark is parsed to its end.
LEMMA ParsedWhole ==
    ASSUME NEW hot \in Logs, NEW b \in Nat,
           \A i \in 1..Len(hot.txs) : hot.txs[i].start = b + i - 1
    PROVE  ParsedFrom(hot, b) = hot.txs
<1> DEFINE N == Len(hot.txs)
           fits == {n \in 0..N : \A i \in 1..n : hot.txs[i].start = b + i - 1}
           longest == CHOOSE n \in fits : \A k \in fits : k <= n
<1>1. hot.txs \in Seq(Transactions) /\ N \in Nat
  BY LogTyped
<1>2. N \in fits /\ \A k \in fits : k <= N
  BY <1>1
<1> HIDE DEF fits
<1>3. longest \in fits /\ \A k \in fits : k <= longest
  BY <1>2, Zenon
<1>4. fits \subseteq 0..N
  BY DEF fits
<1> HIDE DEF longest
<1>5. longest = N
  <2>1. longest \in 0..N /\ N <= longest
    BY <1>2, <1>3, <1>4
  <2>2. QED
    BY <1>1, <2>1
<1>6. ParsedFrom(hot, b) = SubSeq(hot.txs, 1, longest)
  BY Zenon DEF ParsedFrom, fits, longest
<1>7. QED
  BY <1>1, <1>5, <1>6, SubSeqFull

\* A log that starts elsewhere gives nothing.
LEMMA ParsedNothing ==
    ASSUME NEW hot \in Logs, NEW b,
           Len(hot.txs) > 0 => b \in Nat /\ hot.txs[1].start # b
    PROVE  ParsedFrom(hot, b) = <<>>
<1> DEFINE N == Len(hot.txs)
           fits == {n \in 0..N : \A i \in 1..n : hot.txs[i].start = b + i - 1}
           longest == CHOOSE n \in fits : \A k \in fits : k <= n
<1>1. hot.txs \in Seq(Transactions) /\ N \in Nat
  BY LogTyped
<1>2. 0 \in fits
  <2>1. 0 \in 0..N /\ 1..0 = {}
    BY <1>1
  <2>2. QED
    BY <2>1
<1>3. \A n \in fits : n = 0
  <2>1. SUFFICES ASSUME NEW n \in fits, n # 0 PROVE FALSE
    OBVIOUS
  <2>2. n \in 1..N /\ 1 \in 1..n /\ N > 0
    BY <1>1, <2>1
  <2>3. hot.txs[1].start = b + 1 - 1
    BY <2>1, <2>2
  <2>4. QED
    BY <2>2, <2>3
<1> HIDE DEF fits
<1>4. \A k \in fits : k <= 0
  BY <1>3
<1>5. longest \in fits
  BY <1>2, <1>4, Zenon
<1> HIDE DEF longest
<1>6. longest = 0
  BY <1>3, <1>5
<1>7. ParsedFrom(hot, b) = SubSeq(hot.txs, 1, longest)
  BY Zenon DEF ParsedFrom, fits, longest
<1>8. QED
  BY <1>6, <1>7, SubSeqEmpty

\* What the log of a standing directory parses to, where it overlaps the
\* manifest and what an open replays.
LEMMA StandsLog ==
    ASSUME NEW m, NEW hot, NEW t, NEW b, Stands(m, hot, t, b), hot # None
    PROVE  /\ Suffix(hot, m) = SubSeq(hot.txs, m.count - b + 1, Len(hot.txs))
           /\ b = m.count => Overlap(hot, m) = 0 /\ ParsedFrom(hot, m.count) = hot.txs
           /\ Overlap(hot, m) > 0 =>
                 /\ b < m.count
                 /\ ParsedFrom(hot, PreviousCount(m)) = hot.txs
                 /\ Overlap(hot, m) \in 1..Len(hot.txs)
                 /\ Overlap(hot, m) =
                       IF m.count - b <= Len(hot.txs) THEN m.count - b ELSE Len(hot.txs)
           /\ Overlap(hot, m) \in Nat
           /\ Overlap(hot, m) = 0 => Suffix(hot, m) = ParsedFrom(hot, m.count)
           /\ Overlap(hot, m) = 0 => b = m.count \/ Len(hot.txs) = 0
<1> DEFINE N == Len(hot.txs)
<1>1. /\ hot \in Logs /\ b \in Nat /\ m.count \in Nat /\ b <= m.count
      /\ \A i \in 1..N : hot.txs[i].start = b + i - 1
      /\ b # m.count => m.segments # <<>> /\ b = PreviousCount(m)
  <2>1. /\ hot \in Logs /\ b \in Nat /\ m \in Manifests /\ b <= m.count
        /\ Spells(hot, t, b)
        /\ b # m.count => m.segments # <<>> /\ b = PreviousCount(m)
    BY Zenon DEF Stands, GoodManifest
  <2>2. ASSUME NEW i \in 1..N PROVE hot.txs[i].start = b + i - 1
    <3>1. hot.txs[i] = Tx(b + i - 1, t.cps[b + i])
      BY <2>1, Zenon DEF Spells
    <3>2. QED
      BY <3>1 DEF Tx
  <2>3. QED
    BY <2>1, <2>2 DEF Manifests
<1>2. hot.txs \in Seq(Transactions) /\ N \in Nat
  BY <1>1, LogTyped
<1>3. ParsedFrom(hot, b) = hot.txs
  BY <1>1, ParsedWhole
<1>4. Overlap(hot, m) = 0 => Suffix(hot, m) = ParsedFrom(hot, m.count)
  BY DEF Suffix
<1>5. CASE N = 0
  <2>1. \A c : ParsedFrom(hot, c) = <<>>
    BY <1>1, <1>5, ParsedNothing
  <2>2. hot.txs = <<>>
    BY <1>2, <1>5, EmptySeq
  <2>3. {i \in 1..Len(<<>>) : <<>>[i].start + 1 <= m.count} = {}
    OBVIOUS
  <2>4. Overlap(hot, m) = 0
    BY <2>1, <2>3, FS_EmptySet DEF Overlap
  <2>5. SubSeq(hot.txs, m.count - b + 1, N) = <<>>
    BY <1>1, <1>5, SubSeqEmpty
  <2>6. Overlap(hot, m) \in Nat /\ ~(Overlap(hot, m) > 0)
    BY <2>4
  <2>7. Suffix(hot, m) = <<>>
    BY <1>4, <2>1, <2>4, Zenon
  <2>8. QED
    BY <1>4, <1>5, <2>1, <2>2, <2>4, <2>5, <2>6, <2>7, Zenon
<1>6. CASE N > 0 /\ b = m.count
  <2>1. ParsedFrom(hot, m.count) # <<>>
    BY <1>2, <1>3, <1>6
  <2>2. Overlap(hot, m) = 0
    BY <2>1 DEF Overlap
  <2>3. SubSeq(hot.txs, m.count - b + 1, N) = hot.txs
    BY <1>1, <1>2, <1>6, SubSeqFull
  <2>4. Overlap(hot, m) \in Nat /\ ~(Overlap(hot, m) > 0)
    BY <2>2
  <2>5. QED
    BY <1>3, <1>4, <1>6, <2>2, <2>3, <2>4, Zenon
<1>7. CASE N > 0 /\ b # m.count
  <2>1. m.segments # <<>> /\ b = PreviousCount(m) /\ b < m.count
    BY <1>1, <1>7
  <2>2. hot.txs # <<>> /\ hot.txs[1].start = b
    BY <1>1, <1>2, <1>7
  <2>3. ParsedFrom(hot, m.count) = <<>>
    BY <1>1, <2>1, <2>2, ParsedNothing
  <2> DEFINE k == IF m.count - b <= N THEN m.count - b ELSE N
  <2>4. k \in 1..N
    BY <1>1, <1>2, <1>7, <2>1
  <2>5. {i \in 1..N : hot.txs[i].start + 1 <= m.count} = 1..k
    <3>1. ASSUME NEW i \in 1..N PROVE hot.txs[i].start + 1 <= m.count <=> i <= k
      <4>1. hot.txs[i].start = b + i - 1
        BY <1>1
      <4>2. QED
        BY <1>1, <1>2, <4>1
    <3>2. QED
      BY <2>4, <3>1
  <2>6. Overlap(hot, m) = Cardinality(1..k)
    <3>1. StartsWithMagic(hot)
      BY <2>2 DEF StartsWithMagic
    <3>2. Overlap(hot, m) =
             Cardinality({i \in 1..Len(ParsedFrom(hot, b)) :
                            ParsedFrom(hot, b)[i].start + 1 <= m.count})
      BY <2>1, <2>3, <3>1 DEF Overlap
    <3> HIDE DEF k
    <3>3. QED
      BY <1>3, <2>5, <3>2
  <2>7. Cardinality(1..k) = k
    <3>1. 1 \in Int /\ k \in Int /\ 1 <= k
      BY <2>4
    <3> HIDE DEF k
    <3>2. Cardinality(1..k) = k - 1 + 1
      BY <3>1, FS_Interval
    <3>3. QED
      BY <3>1, <3>2
  <2>8. Suffix(hot, m) = SubSeq(hot.txs, k + 1, N)
    <3>1. Overlap(hot, m) = k /\ k # 0
      BY <2>4, <2>6, <2>7
    <3> HIDE DEF k
    <3>2. Suffix(hot, m) = Recycled(ParsedFrom(hot, PreviousCount(m)), k).txs
      BY <3>1, Zenon DEF Suffix
    <3>3. QED
      BY <1>3, <2>1, <3>2 DEF Recycled
  <2>9. SubSeq(hot.txs, k + 1, N) = SubSeq(hot.txs, m.count - b + 1, N)
    <3>1. CASE m.count - b <= N
      BY <3>1
    <3>2. CASE ~(m.count - b <= N)
      <4>1. k + 1 > N /\ m.count - b + 1 > N
        BY <1>1, <1>2, <3>2
      <4>2. QED
        BY <1>1, <1>2, <2>4, <4>1, SubSeqEmpty
    <3>3. QED
      BY <3>1, <3>2
  <2>10. Overlap(hot, m) = k /\ k \in Nat /\ k # 0
    BY <2>4, <2>6, <2>7
  <2>11. QED
    BY <1>3, <1>7, <2>1, <2>4, <2>8, <2>9, <2>10, Zenon
<1>8. QED
  BY <1>2, <1>5, <1>6, <1>7

-----------------------------------------------------------------------------
(* Recovery *)

LEMMA TxFields ==
    ASSUME NEW n, NEW c
    PROVE  Tx(n, c).start = n /\ Tx(n, c).cp = c
BY DEF Tx

\* Replaying the part of t that follows a prefix of it gives t.
LEMMA ReplayGives ==
    ASSUME NoneIsNoFunction, NEW t \in States, NEW n \in 0..Len(t.cps), InOrder(t, n),
           NEW s \in States, s.deleted = t.deleted, s.cps = SubSeq(t.cps, 1, n),
           NEW txs \in Seq(Transactions), Len(txs) = Len(t.cps) - n,
           \A i \in 1..Len(txs) : txs[i] = Tx(n + i - 1, t.cps[n + i])
    PROVE  Replayed(s, txs) = t
<1>1. /\ t.cps \in Seq(Checkpoints) /\ Len(t.cps) \in Nat /\ Len(s.cps) = n
      /\ s.cps \in Seq(Checkpoints)
      /\ \A i \in 1..n : s.cps[i] = t.cps[i]
      /\ \A i \in 1..Len(t.cps) : t.cps[i] \in Checkpoints
  <2>1. t.cps \in Seq(Checkpoints)
    BY DEF States
  <2>2. Len(t.cps) \in Nat /\ \A i \in 1..Len(t.cps) : t.cps[i] \in Checkpoints
    BY <2>1, LenProperties, ElementOfSeq
  <2>3. \A i \in 1..n : t.cps[i] \in Checkpoints
    BY <2>2
  <2>4. QED
    BY <2>1, <2>2, <2>3, SubSeqProperties
<1>2. ASSUME NEW k \in 0..Len(txs), NEW q, q = SubSeq(txs, 1, k)
      PROVE  Applied(s, q) = [t EXCEPT !.cps = SubSeq(t.cps, 1, n + k)]
  <2>1. /\ Len(txs) \in Nat
        /\ Len(q) = k /\ \A i \in 1..k : q[i] = txs[i]
    <3>1. Len(txs) \in Nat /\ \A i \in 1..k : txs[i] \in Transactions
      BY LenProperties, ElementOfSeq
    <3>2. QED
      BY <1>2, <3>1, SubSeqProperties
  <2> DEFINE more == [i \in 1..Len(q) |-> q[i].cp]
             long == SubSeq(t.cps, 1, n + k)
  <2>2. ASSUME NEW i \in 1..k PROVE n + i \in 1..Len(t.cps) /\ q[i].cp = t.cps[n + i]
    <3>1. i \in 1..Len(txs) /\ n + i \in 1..Len(t.cps)
      BY <1>1, <2>1
    <3>2. q[i] = Tx(n + i - 1, t.cps[n + i])
      BY <2>1, <3>1
    <3>3. QED
      BY <3>1, <3>2, TxFields
  <2>3. more \in Seq(Checkpoints) /\ Len(more) = k /\ \A i \in 1..k : more[i] = t.cps[n + i]
    <3>1. \A i \in 1..k : q[i].cp \in Checkpoints
      BY <1>1, <2>2
    <3>2. QED
      <4>1. k \in Nat
        BY <2>1
      <4>2. more = [i \in 1..k |-> q[i].cp]
        BY <2>1
      <4> HIDE DEF more
      <4>3. more \in Seq(Checkpoints) /\ Len(more) = k
        BY <3>1, <4>1, <4>2, IsASeq
      <4>4. QED
        BY <2>2, <4>2, <4>3
  <2> HIDE DEF more
  <2>4. /\ s.cps \o more \in Seq(Checkpoints) /\ Len(s.cps \o more) = n + k
        /\ \A i \in 1..n + k : (s.cps \o more)[i] = IF i <= n THEN s.cps[i] ELSE more[i - n]
    BY <1>1, <2>3, ConcatProperties
  <2>5. n + k \in 0..Len(t.cps)
    BY <1>1, <2>1
  <2>6. /\ long \in Seq(Checkpoints) /\ Len(long) = n + k
        /\ \A i \in 1..n + k : long[i] = t.cps[i]
    <3>1. \A i \in 1..n + k : t.cps[i] \in Checkpoints
      BY <1>1, <2>5
    <3>2. QED
      BY <2>5, <3>1, SubSeqProperties
  <2> HIDE DEF long
  <2>7. ASSUME NEW i \in 1..n + k PROVE (s.cps \o more)[i] = long[i]
    <3>1. CASE i <= n
      BY <1>1, <2>4, <2>6, <3>1
    <3>2. CASE i > n
      <4>1. i - n \in 1..k /\ n + (i - n) = i /\ ~(i <= n)
        BY <2>1, <2>5, <3>2
      <4>2. more[i - n] = t.cps[n + (i - n)]
        BY <2>3, <4>1, Zenon
      <4>3. (s.cps \o more)[i] = more[i - n]
        BY <2>4, <4>1
      <4>4. QED
        BY <2>6, <4>1, <4>2, <4>3
    <3>3. i <= n \/ i > n
      <4>1. n \in Int /\ k \in Int
        BY <1>1, <2>1
      <4>2. QED
        BY <4>1
    <3>4. QED
      BY <3>1, <3>2, <3>3, Zenon
  <2>8. s.cps \o more = long
    BY <2>4, <2>6, <2>7, SeqEqual
  <2>9. Applied(s, q) = [s EXCEPT !.cps = long]
    BY <2>8 DEF Applied, more
  <2>10. QED
    BY <2>9 DEF States, long
<1>3. ASSUME NEW i \in 1..Len(txs)
      PROVE  Fits(Applied(s, SubSeq(txs, 1, i - 1)), txs[i])
  <2>1. Len(txs) \in Nat /\ i - 1 \in 0..Len(txs)
    BY LenProperties
  <2> DEFINE u == [t EXCEPT !.cps = SubSeq(t.cps, 1, n + (i - 1))]
  <2>2. Applied(s, SubSeq(txs, 1, i - 1)) = u
    BY <1>2, <2>1
  <2>3. n + (i - 1) \in 0..Len(t.cps) /\ n + i \in n+1..Len(t.cps)
    BY <1>1, <2>1
  <2>4. /\ u.cps = SubSeq(t.cps, 1, n + (i - 1)) /\ u.deleted = t.deleted
    BY DEF States
  <2>5. /\ Len(u.cps) = n + i - 1
        /\ \A j \in 1..n + i - 1 : u.cps[j] = t.cps[j]
    <3>1. \A j \in 1..n + (i - 1) : t.cps[j] \in Checkpoints
      BY <1>1, <2>3
    <3>2. QED
      BY <2>3, <2>4, <3>1, SubSeqProperties
  <2> HIDE DEF u
  <2>6. LiveOf(u) = {t.cps[j] : j \in 1..(n + i) - 1}
    <3>1. (n + i) - 1 = n + i - 1
      OBVIOUS
    <3>2. QED
      BY <2>5, <3>1, Zenon DEF LiveOf
  <2>7. Appendable({t.cps[j] : j \in 1..(n + i) - 1}, t.deleted, t.cps[n + i])
    BY <2>3 DEF InOrder
  <2>8. txs[i].start = n + i - 1 /\ txs[i].cp = t.cps[n + i]
    <3>1. txs[i] = Tx(n + i - 1, t.cps[n + i])
      OBVIOUS
    <3>2. QED
      BY <3>1, TxFields
  <2>9. Fits(u, txs[i])
    BY <2>4, <2>5, <2>6, <2>7, <2>8 DEF Fits
  <2>10. QED
    BY <2>2, <2>9
<1>4. Applied(s, txs) = t
  <2>1. Len(txs) \in 0..Len(txs) /\ txs = SubSeq(txs, 1, Len(txs)) /\ n + Len(txs) = Len(t.cps)
    BY <1>1, LenProperties, SubSeqFull
  <2>2. Applied(s, txs) = [t EXCEPT !.cps = SubSeq(t.cps, 1, Len(t.cps))]
    BY <1>2, <2>1
  <2>3. SubSeq(t.cps, 1, Len(t.cps)) = t.cps
    BY <1>1, SubSeqFull
  <2>4. QED
    BY <2>2, <2>3 DEF States
<1>5. QED
  BY <1>3, <1>4 DEF Replayed

\* A directory recovers what its manifest and its log stand for.
LEMMA StandsRecovered ==
    ASSUME NoneIsNoFunction, NEW d, NEW t, NEW b,
           ManifestHolds(d, Loaded(d)), Stands(Loaded(d), d.hot, t, b)
    PROVE  Recovered(d) = t
<1> DEFINE m == Loaded(d)
           txs == IF d.hot = None THEN <<>> ELSE Suffix(d.hot, m)
<1>1. /\ m \in Manifests /\ t \in States /\ t.deleted = m.deleted
      /\ b \in Nat /\ b <= m.count /\ m.count \in Nat
      /\ Len(t.cps) = Reach(m, d.hot, b) /\ SealedState(m).cps = SubSeq(t.cps, 1, m.count)
      /\ InOrder(t, m.count)
      /\ d.hot # None => d.hot \in Logs /\ Spells(d.hot, t, b)
  <2>1. GoodManifest(m) /\ m.count \in Nat
    BY DEF Stands, GoodManifest, Manifests
  <2>2. QED
    BY <2>1, Zenon DEF Stands, GoodManifest
<1>2. SealedState(m) \in States /\ SealedState(m).deleted = t.deleted
  BY <1>1, SealedTyped DEF SealedState
<1>3. Recovered(d) = Replayed(SealedState(m), txs)
  BY DEF Recovered
<1> HIDE DEF m
<1>4. /\ txs \in Seq(Transactions) /\ Len(txs) = Len(t.cps) - m.count
      /\ m.count \in 0..Len(t.cps)
      /\ \A i \in 1..Len(txs) : txs[i] = Tx(m.count + i - 1, t.cps[m.count + i])
  <2>1. CASE d.hot = None
    BY <1>1, <2>1, EmptySeq DEF Reach
  <2>2. CASE d.hot # None
    <3> DEFINE hot == d.hot
               N == Len(hot.txs)
               k == m.count - b
    <3>1. hot.txs \in Seq(Transactions) /\ N \in Nat /\ k \in Nat /\ b + k = m.count
      BY <1>1, <2>2, LogTyped
    <3>2. txs = SubSeq(hot.txs, k + 1, N)
      BY <2>2, StandsLog DEF m
    <3>3. /\ txs \in Seq(Transactions)
          /\ Len(txs) = IF k + 1 <= N THEN N - (k + 1) + 1 ELSE 0
          /\ \A i \in 1..N - (k + 1) + 1 : txs[i] = hot.txs[(k + 1) + i - 1]
      <4>1. \A i \in k + 1..N : hot.txs[i] \in Transactions
        BY <1>1, <2>2, <3>1, LogTyped
      <4> HIDE DEF txs, k
      <4>2. QED
        BY <3>1, <3>2, <4>1, SubSeqProperties
    <3>4. Len(t.cps) = IF b + N > m.count THEN b + N ELSE m.count
      BY <1>1, <2>2 DEF Reach
    <3>5. \A i \in 1..N : hot.txs[i] = Tx(b + i - 1, t.cps[b + i])
      BY <1>1, <2>2 DEF Spells
    <3> HIDE DEF txs, k, N, hot
    <3>6. Len(txs) = Len(t.cps) - m.count /\ m.count \in 0..Len(t.cps)
      BY <1>1, <3>1, <3>3, <3>4
    <3>8. ASSUME NEW i \in 1..Len(txs) PROVE txs[i] = Tx(m.count + i - 1, t.cps[m.count + i])
      <4>1. Len(txs) = IF k + 1 <= N THEN N - (k + 1) + 1 ELSE 0
        BY <3>3
      <4>2. /\ i \in 1..N - (k + 1) + 1 /\ k + i \in 1..N /\ (k + 1) + i - 1 = k + i
            /\ b + (k + i) = m.count + i /\ b + (k + i) - 1 = m.count + i - 1
        BY <1>1, <3>1, <4>1
      <4>3. txs[i] = hot.txs[k + i]
        BY <3>3, <4>2
      <4>4. hot.txs[k + i] = Tx(b + (k + i) - 1, t.cps[b + (k + i)])
        BY <3>5, <4>2
      <4>5. QED
        BY <4>2, <4>3, <4>4, Zenon
    <3>7. QED
      BY <3>3, <3>6, <3>8
  <2>3. QED
    BY <2>1, <2>2
<1> HIDE DEF txs
<1>5. Replayed(SealedState(m), txs) = t
  BY <1>1, <1>2, <1>4, ReplayGives
<1>6. QED
  BY <1>3, <1>5

\* Not more checkpoints than before.
LEMMA JoinedShort ==
    ASSUME NEW S, NEW seqs \in Seq(Seq(S)), \A n \in 1..Len(seqs) : Len(seqs[n]) <= 1
    PROVE  Len(Joined(seqs)) <= Len(seqs)
<1>1. Len(seqs) \in Nat /\ \A n \in 1..Len(seqs) : seqs[n] \in Seq(S)
  BY LenProperties, ElementOfSeq
<1>2. PICK f : Joins(f, seqs) /\ Joined(seqs) = f[Len(seqs)]
  BY <1>1, JoinedUnfolds
<1> DEFINE T == {n \in Nat : n <= Len(seqs) => f[n] \in Seq(S) /\ Len(f[n]) <= n}
<1>3. 0 \in T
  <2>1. f[0] = <<>>
    BY <1>2 DEF Joins
  <2>2. f[0] \in Seq(S) /\ Len(f[0]) = 0
    BY <2>1, EmptySeq
  <2>3. QED
    BY <2>2
<1>4. ASSUME NEW n \in Nat, n \in T PROVE n + 1 \in T
  <2>1. SUFFICES ASSUME n + 1 <= Len(seqs) PROVE f[n + 1] \in Seq(S) /\ Len(f[n + 1]) <= n + 1
    OBVIOUS
  <2>2. f[n] \in Seq(S) /\ Len(f[n]) <= n /\ n + 1 \in 1..Len(seqs) /\ (n + 1) - 1 = n
    BY <1>1, <1>4, <2>1
  <2>3. f[n + 1] = f[n] \o seqs[n + 1]
    BY <1>2, <2>2 DEF Joins
  <2>4. seqs[n + 1] \in Seq(S) /\ Len(seqs[n + 1]) <= 1
    BY <1>1, <2>2
  <2>5. Len(f[n]) \in Nat /\ Len(seqs[n + 1]) \in Nat
    BY <2>2, <2>4, LenProperties
  <2>6. f[n] \o seqs[n + 1] \in Seq(S) /\ Len(f[n] \o seqs[n + 1]) = Len(f[n]) + Len(seqs[n + 1])
    BY <2>2, <2>4, ConcatProperties
  <2>7. f[n + 1] \in Seq(S) /\ Len(f[n + 1]) = Len(f[n]) + Len(seqs[n + 1])
    BY <2>3, <2>6
  <2>8. \A x, y \in Nat : x <= n /\ y <= 1 => x + y <= n + 1
    OBVIOUS
  <2>9. QED
    BY <2>2, <2>4, <2>5, <2>7, <2>8, Zenon
<1> HIDE DEF T
<1>5. Len(seqs) \in T
  BY <1>1, <1>3, <1>4, SetInduction
<1>6. QED
  BY <1>1, <1>2, <1>5 DEF T

LEMMA CompactedShort ==
    ASSUME NEW s \in States, NEW K
    PROVE  Len(Compacted(s, K).cps) <= Len(s.cps)
<1> DEFINE n == Len(s.cps)
           kept == [i \in 1..n |-> IF s.cps[i].key \in K THEN <<>> ELSE <<s.cps[i]>>]
<1>1. n \in Nat /\ \A i \in 1..n : s.cps[i] \in Checkpoints
  BY LenProperties, ElementOfSeq DEF States
<1>2. \A i \in 1..n : (IF s.cps[i].key \in K THEN <<>> ELSE <<s.cps[i]>>) \in Seq(Checkpoints)
  BY <1>1
<1>3. kept \in Seq(Seq(Checkpoints)) /\ Len(kept) = n
  BY <1>1, <1>2, IsASeq
<1>4. \A i \in 1..n : Len(kept[i]) <= 1
  BY <1>1
<1>5. Compacted(s, K).cps = Joined(kept)
  BY DEF Compacted
<1> HIDE DEF kept
<1>6. QED
  BY <1>3, <1>4, <1>5, JoinedShort

-----------------------------------------------------------------------------
(* What manifest and log stand for after a change of one of them *)

\* The parts of Stands, with the numbers in it.
LEMMA StandsParts ==
    ASSUME NEW m, NEW hot, NEW t, NEW b, Stands(m, hot, t, b)
    PROVE  /\ GoodManifest(m) /\ m \in Manifests /\ m.gen \in Nat /\ m.count \in Nat
           /\ t \in States /\ t.cps \in Seq(Checkpoints) /\ t.deleted = m.deleted
           /\ Len(t.cps) \in Nat /\ Len(t.cps) = Reach(m, hot, b) /\ m.count <= Len(t.cps)
           /\ SealedState(m).cps = SubSeq(t.cps, 1, m.count)
           /\ InOrder(t, m.count)
           /\ b \in Nat /\ b <= m.count
           /\ hot # None =>
                 /\ hot \in Logs /\ hot.txs \in Seq(Transactions) /\ Len(hot.txs) \in Nat
                 /\ Spells(hot, t, b)
                 /\ b + Len(hot.txs) <= Len(t.cps)
<1>1. GoodManifest(m) /\ m \in Manifests /\ m.count \in Nat /\ m.gen \in Nat /\ t \in States
  BY DEF Stands, GoodManifest, Manifests
<1>2. /\ t.deleted = m.deleted
      /\ b \in Nat /\ b <= m.count /\ Len(t.cps) = Reach(m, hot, b)
      /\ SealedState(m).cps = SubSeq(t.cps, 1, m.count)
      /\ InOrder(t, m.count) /\ (hot # None => hot \in Logs /\ Spells(hot, t, b))
  BY Zenon DEF Stands
<1>3. t.cps \in Seq(Checkpoints) /\ Len(t.cps) \in Nat
  BY <1>1, LenProperties DEF States
<1>4. hot # None => hot.txs \in Seq(Transactions) /\ Len(hot.txs) \in Nat
  BY <1>2, LogTyped
<1> DEFINE N == Len(hot.txs)
<1>5. Len(t.cps) = IF hot = None THEN m.count ELSE IF b + N > m.count THEN b + N ELSE m.count
  BY <1>2 DEF Reach
<1> HIDE DEF N
<1>6. m.count <= Len(t.cps) /\ (hot # None /\ N \in Nat => b + N <= Len(t.cps))
  BY <1>1, <1>2, <1>5
<1>7. QED
  BY <1>1, <1>2, <1>3, <1>4, <1>6, Zenon DEF N

\* Another identity is another manifest for the same state.
LEMMA StandsIdentity ==
    ASSUME NEW m, NEW hot, NEW t, NEW b, Stands(m, hot, t, b), NEW id \in Nat
    PROVE  Stands([m EXCEPT !.id = id], hot, t, b)
<1> DEFINE n == [m EXCEPT !.id = id]
<1>1. m \in Manifests
  BY StandsParts
<1>2. /\ n \in Manifests /\ n.gen = m.gen /\ n.count = m.count /\ n.segments = m.segments
      /\ n.deleted = m.deleted
  BY <1>1 DEF Manifests
<1> HIDE DEF n
<1>3. SealedState(n) = SealedState(m)
  BY <1>2 DEF SealedState
<1>4. GoodManifest(n)
  BY <1>2, <1>3 DEF Stands, GoodManifest
<1>5. PreviousCount(n) = PreviousCount(m) /\ Reach(n, hot, b) = Reach(m, hot, b)
  BY <1>2 DEF PreviousCount, Reach
<1>6. Stands(n, hot, t, b)
  BY <1>2, <1>3, <1>4, <1>5 DEF Stands
<1>7. QED
  BY <1>6 DEF n

\* A manifest alone stands for the same state as with an empty log.
LEMMA StandsEmpty ==
    ASSUME NEW m, NEW t, NEW b, Stands(m, None, t, b)
    PROVE  Stands(m, EmptyLog, t, m.count) /\ Stands(m, None, t, m.count) 
<1>1. m.count \in Nat /\ Len(t.cps) = m.count
  BY StandsParts DEF Reach
<1>2. EmptyLog \in Logs /\ Len(EmptyLog.txs) = 0
  BY EmptySeq DEF EmptyLog, Logs
<1>3. Spells(EmptyLog, t, m.count)
  BY <1>2 DEF Spells
<1>4. /\ Reach(m, EmptyLog, m.count) = m.count /\ Reach(m, None, m.count) = m.count
      /\ m.count <= m.count
  BY <1>1, <1>2 DEF Reach
<1>5. QED
  BY <1>1, <1>2, <1>3, <1>4, Zenon DEF Stands

\* A torn record is no transaction.
LEMMA StandsTorn ==
    ASSUME NEW m, NEW hot, NEW t, NEW b, Stands(m, hot, t, b), hot # None, NoneIsNoFunction
    PROVE  [hot EXCEPT !.torn = TRUE] # None /\ Stands(m, [hot EXCEPT !.torn = TRUE], t, b)
<1> DEFINE h == [hot EXCEPT !.torn = TRUE]
<1>1. hot \in Logs
  BY StandsParts
<1>2. h \in Logs /\ h.txs = hot.txs
  BY <1>1 DEF Logs
<1>3. h # None
  BY DEF NoneIsNoFunction
<1> HIDE DEF h
<1>4. Reach(m, h, b) = Reach(m, hot, b) /\ (Spells(h, t, b) <=> Spells(hot, t, b))
  BY <1>2, <1>3 DEF Reach, Spells
<1>5. Stands(m, h, t, b)
  BY <1>2, <1>3, <1>4, Zenon DEF Stands
<1>6. QED
  BY <1>3, <1>5 DEF h

\* What one more transaction makes of a state.
LEMMA AppliedOne ==
    ASSUME NEW t \in States, NEW c \in Checkpoints, NEW x, x.cp = c
    PROVE  /\ Applied(t, <<x>>) = [cps |-> Append(t.cps, c), deleted |-> t.deleted]
           /\ Applied(t, <<x>>) \in States
           /\ LiveOf(Applied(t, <<x>>)) = LiveOf(t) \cup {c}
           /\ Len(Applied(t, <<x>>).cps) = Len(t.cps) + 1
<1> DEFINE u == [cps |-> Append(t.cps, c), deleted |-> t.deleted]
<1>1. t = [cps |-> t.cps, deleted |-> t.deleted] /\ t.cps \in Seq(Checkpoints) /\ t.deleted \subseteq Keys
  BY DEF States
<1>2. Len(<<x>>) = 1 /\ <<x>>[1] = x /\ 1 \in 1..1
  OBVIOUS
<1>3. [i \in 1..Len(<<x>>) |-> <<x>>[i].cp] = [i \in 1..1 |-> c]
  BY <1>2
<1>4. [i \in 1..1 |-> c] = <<c>>
  OBVIOUS
<1>5. Append(t.cps, c) = t.cps \o <<c>>
  BY <1>1, AppendIsConcat
<1>6. Applied(t, <<x>>) = u
  <2>1. Applied(t, <<x>>) = [t EXCEPT !.cps = t.cps \o [i \in 1..Len(<<x>>) |-> <<x>>[i].cp]]
    BY DEF Applied
  <2>2. Applied(t, <<x>>) = [t EXCEPT !.cps = Append(t.cps, c)]
    BY <1>3, <1>4, <1>5, <2>1, Zenon
  <2>3. QED
    BY <1>1, <2>2
<1>7. /\ u.cps \in Seq(Checkpoints) /\ Len(u.cps) = Len(t.cps) + 1 /\ Len(t.cps) \in Nat
      /\ \A i \in 1..Len(t.cps) : u.cps[i] = t.cps[i]
      /\ u.cps[Len(t.cps) + 1] = c
  BY <1>1, AppendProperties, LenProperties
<1>8. u \in States
  BY <1>1, <1>7 DEF States
<1> HIDE DEF u
<1>9. LiveOf(u) = LiveOf(t) \cup {c}
  <2>1. LiveOf(u) \subseteq LiveOf(t) \cup {c}
    <3>1. SUFFICES ASSUME NEW i \in 1..Len(u.cps) PROVE u.cps[i] \in LiveOf(t) \cup {c}
      BY DEF LiveOf
    <3>2. i \in 1..Len(t.cps) \/ i = Len(t.cps) + 1
      BY <1>7
    <3>3. QED
      BY <1>7, <3>2 DEF LiveOf
  <2>2. LiveOf(t) \subseteq LiveOf(u)
    <3>1. SUFFICES ASSUME NEW i \in 1..Len(t.cps) PROVE t.cps[i] \in LiveOf(u)
      BY DEF LiveOf
    <3>2. i \in 1..Len(u.cps) /\ u.cps[i] = t.cps[i]
      BY <1>7
    <3>3. QED
      BY <3>2 DEF LiveOf
  <2>3. c \in LiveOf(u)
    <3>1. Len(t.cps) + 1 \in 1..Len(u.cps)
      BY <1>7
    <3>2. QED
      BY <1>7, <3>1 DEF LiveOf
  <2>4. QED
    BY <2>1, <2>2, <2>3
<1>10. QED
  BY <1>6, <1>7, <1>8, <1>9 DEF u

\* A record that continues the state is appended to state and log alike.
LEMMA StandsAppend ==
    ASSUME NEW m, NEW hot, NEW t, Stands(m, hot, t, m.count), hot # None, NoneIsNoFunction,
           NEW c \in Checkpoints, Appendable(LiveOf(t), t.deleted, c)
    PROVE  LET x == Tx(Len(t.cps), c)
               h == [txs |-> Append(hot.txs, x), torn |-> FALSE]
           IN  /\ h # None
               /\ Len(h.txs) = Len(hot.txs) + 1
               /\ Stands(m, h, Applied(t, <<x>>), m.count)
<1> DEFINE x == Tx(Len(t.cps), c)
           h == [txs |-> Append(hot.txs, x), torn |-> FALSE]
           u == Applied(t, <<x>>)
           N == Len(hot.txs)
           b == m.count
<1>1. /\ t \in States /\ t.cps \in Seq(Checkpoints) /\ Len(t.cps) \in Nat
      /\ b \in Nat /\ hot.txs \in Seq(Transactions) /\ N \in Nat /\ Spells(hot, t, b)
      /\ b <= Len(t.cps) /\ Len(t.cps) = Reach(m, hot, b)
      /\ SealedState(m).cps = SubSeq(t.cps, 1, b) /\ InOrder(t, b) /\ t.deleted = m.deleted
  BY StandsParts
<1>2. Len(t.cps) = b + N
  <2>1. Len(t.cps) = IF b + N > b THEN b + N ELSE b
    BY <1>1 DEF Reach
  <2> HIDE DEF N
  <2>2. QED
    BY <1>1, <2>1
<1>3. x.start = Len(t.cps) /\ x.cp = c
  BY TxFields
<1>4. x \in Transactions
  BY <1>1 DEF Tx, Transactions
<1>5. u = [cps |-> Append(t.cps, c), deleted |-> t.deleted] /\ u \in States
  BY <1>1, <1>3, AppliedOne
<1>6. /\ h.txs \in Seq(Transactions) /\ Len(h.txs) = N + 1
      /\ \A i \in 1..N : h.txs[i] = hot.txs[i]
      /\ h.txs[N + 1] = x
  BY <1>1, <1>4, AppendProperties
<1>7. h \in Logs
  BY <1>6 DEF Logs
<1>8. h # None
  BY DEF NoneIsNoFunction
<1>9. /\ u.cps \in Seq(Checkpoints) /\ Len(u.cps) = Len(t.cps) + 1
      /\ \A i \in 1..Len(t.cps) : u.cps[i] = t.cps[i]
      /\ u.cps[Len(t.cps) + 1] = c /\ u.deleted = t.deleted
  <2>1. u.cps = Append(t.cps, c) /\ u.deleted = t.deleted
    BY <1>5
  <2> HIDE DEF u
  <2>2. QED
    BY <1>1, <2>1, AppendProperties
<1> HIDE DEF u, h, b, N
<1>10. Spells(h, u, b)
  <2>1. SUFFICES ASSUME NEW i \in 1..N + 1 PROVE h.txs[i] = Tx(b + i - 1, u.cps[b + i])
    BY <1>6 DEF Spells
  <2>2. CASE i \in 1..N
    <3>1. hot.txs[i] = Tx(b + i - 1, t.cps[b + i])
      BY <1>1, <2>2 DEF Spells, N
    <3>2. b + i \in 1..Len(t.cps)
      BY <1>1, <1>2, <2>2
    <3>3. QED
      BY <1>6, <1>9, <2>2, <3>1, <3>2
  <2>3. CASE i = N + 1
    <3>1. b + i - 1 = Len(t.cps) /\ b + i = Len(t.cps) + 1
      BY <1>1, <1>2, <2>3
    <3>2. QED
      BY <1>6, <1>9, <2>3, <3>1, Zenon DEF x
  <2>4. QED
    BY <1>1, <2>2, <2>3
<1>11. Reach(m, h, b) = Len(u.cps)
  <2>1. Reach(m, h, b) = IF b + (N + 1) > b THEN b + (N + 1) ELSE b
    BY <1>6, <1>8 DEF Reach, b
  <2>2. QED
    BY <1>1, <1>2, <1>9, <2>1
<1>12. SealedState(m).cps = SubSeq(u.cps, 1, b)
  <2>1. \A i \in 1..b : i \in 1..Len(t.cps)
    BY <1>1
  <2>2. SubSeq(u.cps, 1, b) = SubSeq(t.cps, 1, b)
    <3>1. /\ SubSeq(t.cps, 1, b) \in Seq(Checkpoints) /\ SubSeq(u.cps, 1, b) \in Seq(Checkpoints)
          /\ Len(SubSeq(t.cps, 1, b)) = Len(SubSeq(u.cps, 1, b))
          /\ Len(SubSeq(t.cps, 1, b)) = b
          /\ \A i \in 1..b : SubSeq(t.cps, 1, b)[i] = t.cps[i] /\ SubSeq(u.cps, 1, b)[i] = u.cps[i]
      BY <1>1, <1>9, <2>1, SubSeqProperties, ElementOfSeq
    <3>2. QED
      BY <1>9, <2>1, <3>1, SeqEqual
  <2>3. QED
    BY <1>1, <2>2
<1>13. InOrder(u, b)
  <2>1. SUFFICES ASSUME NEW i \in b+1..Len(u.cps)
                 PROVE  Appendable({u.cps[j] : j \in 1..i-1}, u.deleted, u.cps[i])
    BY DEF InOrder
  <2>2. i \in 1..Len(t.cps) + 1
    BY <1>1, <1>9
  <2>3. {u.cps[j] : j \in 1..i-1} = {t.cps[j] : j \in 1..i-1}
    <3>1. \A j \in 1..i-1 : u.cps[j] = t.cps[j]
      BY <1>1, <1>9, <2>2
    <3>2. QED
      BY <3>1
  <2>4. CASE i <= Len(t.cps)
    <3>1. i \in b+1..Len(t.cps) /\ u.cps[i] = t.cps[i]
      BY <1>1, <1>9, <2>2, <2>4
    <3>2. Appendable({t.cps[j] : j \in 1..i-1}, t.deleted, t.cps[i])
      BY <1>1, <3>1 DEF InOrder
    <3>3. QED
      BY <1>9, <2>3, <3>1, <3>2
  <2>5. CASE i = Len(t.cps) + 1
    <3>1. i - 1 = Len(t.cps)
      BY <1>1, <2>5
    <3>2. {t.cps[j] : j \in 1..i-1} = LiveOf(t)
      BY <3>1 DEF LiveOf
    <3>3. u.cps[i] = c
      BY <1>9, <2>5
    <3>4. QED
      BY <1>9, <2>3, <3>2, <3>3, Zenon
  <2>6. i <= Len(t.cps) \/ i = Len(t.cps) + 1
    BY <1>1, <2>2
  <2>7. QED
    BY <2>4, <2>5, <2>6, Zenon
<1>14. Stands(m, h, u, b)
  BY <1>1, <1>5, <1>7, <1>8, <1>9, <1>10, <1>11, <1>12, <1>13 DEF Stands, b
<1>15. QED
  BY <1>6, <1>8, <1>14 DEF u, h, b, N

SealManifest(m, c, e) == [m EXCEPT !.gen = @ + 1, !.count = c, !.segments = Append(@, e)]

SealEntry(m, hot, drop) == Entry(m.gen + 1, [i \in 1..drop |-> hot.txs[i].cp])

PruneManifest(m, c, e, D) ==
    [m EXCEPT !.gen = @ + 1, !.count = c, !.segments = <<e>>, !.deleted = D]

LEMMA SealManifestFields ==
    ASSUME NEW m \in Manifests, NEW c \in Nat, NEW e, Append(m.segments, e) \in Seq(Entries)
    PROVE  LET n == SealManifest(m, c, e)
           IN  /\ n \in Manifests /\ n.gen = m.gen + 1 /\ n.count = c
               /\ n.segments = Append(m.segments, e) /\ n.deleted = m.deleted
<1> DEFINE n == SealManifest(m, c, e)
<1>1. m.gen + 1 \in Nat
  BY DEF Manifests
<1>2. n = [m EXCEPT !.gen = m.gen + 1, !.count = c, !.segments = Append(m.segments, e)]
  BY Zenon DEF SealManifest
<1> HIDE DEF n
<1>3. n \in Manifests
  BY <1>1, <1>2 DEF Manifests
<1>4. n.gen = m.gen + 1 /\ n.count = c /\ n.segments = Append(m.segments, e) /\ n.deleted = m.deleted
  BY <1>2 DEF Manifests
<1>5. QED
  BY <1>3, <1>4 DEF n

LEMMA PruneManifestFields ==
    ASSUME NEW m \in Manifests, NEW c \in Nat, NEW e, <<e>> \in Seq(Entries), NEW D \in SUBSET Keys
    PROVE  LET n == PruneManifest(m, c, e, D)
           IN  /\ n \in Manifests /\ n.gen = m.gen + 1 /\ n.count = c
               /\ n.segments = <<e>> /\ n.deleted = D
<1> DEFINE n == PruneManifest(m, c, e, D)
<1>1. m.gen + 1 \in Nat
  BY DEF Manifests
<1>2. n = [m EXCEPT !.gen = m.gen + 1, !.count = c, !.segments = <<e>>, !.deleted = D]
  BY Zenon DEF PruneManifest
<1> HIDE DEF n
<1>3. n \in Manifests
  BY <1>1, <1>2 DEF Manifests
<1>4. n.gen = m.gen + 1 /\ n.count = c /\ n.segments = <<e>> /\ n.deleted = D
  BY <1>2 DEF Manifests
<1>5. QED
  BY <1>3, <1>4 DEF n

\* A seal of the first transactions of the log: the manifest with the new
\* segment stands, with the log as it is, for the same state.
LEMMA StandsSeal ==
    ASSUME NEW m, NEW hot, NEW t, Stands(m, hot, t, m.count), hot # None,
           NEW drop \in 1..Len(hot.txs)
    PROVE  LET e == SealEntry(m, hot, drop)
               n == SealManifest(m, m.count + drop, e)
           IN  /\ e \in Entries /\ e.gen = m.gen + 1
               /\ Stands(n, hot, t, m.count) /\ n.count = m.count + drop
               /\ OldOrNew(n, m, e)
<1> DEFINE cps == [i \in 1..drop |-> hot.txs[i].cp]
           e == SealEntry(m, hot, drop)
           n == SealManifest(m, m.count + drop, e)
           N == Len(hot.txs)
           b == m.count
           S == Len(m.segments)
<1>1. /\ GoodManifest(m) /\ m \in Manifests /\ b \in Nat /\ m.gen \in Nat
      /\ t \in States /\ t.cps \in Seq(Checkpoints) /\ t.deleted = m.deleted
      /\ Len(t.cps) \in Nat /\ Len(t.cps) = Reach(m, hot, b) /\ b <= Len(t.cps)
      /\ SealedState(m).cps = SubSeq(t.cps, 1, b) /\ InOrder(t, b)
      /\ hot \in Logs /\ hot.txs \in Seq(Transactions) /\ N \in Nat /\ Spells(hot, t, b)
      /\ b + N <= Len(t.cps)
  BY StandsParts
<1>2. drop \in Nat /\ drop <= N /\ drop >= 1 /\ \A i \in 1..drop : b + i \in 1..Len(t.cps) /\ i \in 1..N
  BY <1>1
<1>3. \A i \in 1..drop : hot.txs[i].cp = t.cps[b + i] /\ hot.txs[i].cp \in Checkpoints
  <2>1. SUFFICES ASSUME NEW i \in 1..drop
                 PROVE  hot.txs[i].cp = t.cps[b + i] /\ hot.txs[i].cp \in Checkpoints
    OBVIOUS
  <2>2. hot.txs[i] = Tx(b + i - 1, t.cps[b + i])
    BY <1>1, <1>2 DEF Spells
  <2>3. t.cps[b + i] \in Checkpoints
    BY <1>1, <1>2, ElementOfSeq
  <2>4. QED
    BY <2>2, <2>3, TxFields
<1>4. cps \in Seq(Checkpoints) /\ Len(cps) = drop /\ \A i \in 1..drop : cps[i] = t.cps[b + i]
  <2>1. cps \in Seq(Checkpoints) /\ Len(cps) = drop
    BY <1>2, <1>3, IsASeq
  <2>2. QED
    BY <1>3, <2>1
<1>0. e = Entry(m.gen + 1, cps)
  BY DEF SealEntry
<1> HIDE DEF cps, e
<1>5. e \in Entries /\ e.gen = m.gen + 1 /\ e.cps = cps
  BY <1>0, <1>1, <1>4 DEF Entry, Entries
<1>6. m.segments \in Seq(Entries) /\ S \in Nat
  BY <1>1, LenProperties DEF Manifests
<1>7. /\ Append(m.segments, e) \in Seq(Entries) /\ Len(Append(m.segments, e)) = S + 1
      /\ Append(m.segments, e) # <<>>
      /\ \A i \in 1..S : Append(m.segments, e)[i] = m.segments[i]
      /\ Append(m.segments, e)[S + 1] = e
  BY <1>5, <1>6, AppendProperties
<1>8. /\ n \in Manifests /\ n.gen = m.gen + 1 /\ n.count = b + drop
      /\ n.segments = Append(m.segments, e) /\ n.deleted = m.deleted
  <2>1. b + drop \in Nat /\ m \in Manifests /\ Append(m.segments, e) \in Seq(Entries)
    BY <1>1, <1>2, <1>7
  <2>2. n = SealManifest(m, b + drop, e)
    OBVIOUS
  <2> HIDE DEF n
  <2>3. QED
    BY <2>1, <2>2, SealManifestFields
<1> HIDE DEF n
<1>9. SealedState(n).cps = SubSeq(t.cps, 1, b + drop)
  <2>1. SealedState(n).cps = SubSeq(t.cps, 1, b) \o cps
    BY <1>1, <1>5, <1>8, SealedAppend
  <2>2. cps = SubSeq(t.cps, b + 1, b + drop)
    <3> DEFINE q == SubSeq(t.cps, b + 1, b + drop)
    <3>1. \A i \in b + 1..b + drop : t.cps[i] \in Checkpoints
      BY <1>1, <1>2, ElementOfSeq
    <3>2. /\ q \in Seq(Checkpoints)
          /\ Len(q) = IF b + 1 <= b + drop THEN (b + drop) - (b + 1) + 1 ELSE 0
          /\ \A i \in 1..(b + drop) - (b + 1) + 1 : q[i] = t.cps[(b + 1) + i - 1]
      <4> HIDE DEF b
      <4>1. b + 1 \in Int /\ b + drop \in Int
        BY <1>1, <1>2
      <4>2. QED
        BY <3>1, <4>1, SubSeqProperties
    <3> HIDE DEF q, b
    <3>3. Len(q) = drop /\ (b + drop) - (b + 1) + 1 = drop
      BY <1>1, <1>2, <3>2
    <3>4. ASSUME NEW i \in 1..drop PROVE q[i] = cps[i]
      <4>1. (b + 1) + i - 1 = b + i /\ i \in 1..(b + drop) - (b + 1) + 1
        BY <1>1, <1>2, <3>3
      <4>2. q[i] = t.cps[b + i]
        BY <3>2, <4>1
      <4>3. QED
        BY <1>4, <4>2
    <3>5. cps = q
      BY <1>4, <3>2, <3>3, <3>4, SeqEqual
    <3>6. QED
      BY <3>5 DEF q
  <2>3. SubSeq(t.cps, 1, b) \o SubSeq(t.cps, b + 1, b + drop) = SubSeq(t.cps, 1, b + drop)
    <3>1. 1 \in 1..Len(t.cps) + 1 /\ b \in 1-1..Len(t.cps) /\ b + drop \in b..Len(t.cps)
      BY <1>1, <1>2
    <3>2. QED
      BY <1>1, <3>1, ConcatAdjacentSubSeq
  <2>4. QED
    BY <2>1, <2>2, <2>3, Zenon
<1>10. Len(SealedState(n).cps) = b + drop
  <2>1. b + drop \in Nat /\ b + drop <= Len(t.cps) /\ 1 <= b + drop /\ (b + drop) - 1 + 1 = b + drop
    BY <1>1, <1>2
  <2>2. \A i \in 1..b + drop : t.cps[i] \in Checkpoints
    BY <1>1, <2>1, ElementOfSeq
  <2> DEFINE z == b + drop
  <2>3. Len(SubSeq(t.cps, 1, z)) = IF 1 <= z THEN z - 1 + 1 ELSE 0
    <3>1. 1 \in Int /\ z \in Int
      BY <2>1
    <3> HIDE DEF z
    <3>2. \A i \in 1..z : t.cps[i] \in Checkpoints
      BY <2>2 DEF z
    <3>3. QED
      BY <3>1, <3>2, SubSeqProperties
  <2>4. QED
    BY <1>9, <2>1, <2>3
<1>11. GoodManifest(n)
  <2>1. ASSUME NEW i \in 1..Len(n.segments) PROVE n.segments[i].gen <= n.gen
    <3>1. i \in 1..S \/ i = S + 1
      BY <1>6, <1>7, <1>8
    <3>2. CASE i \in 1..S
      <4>1. m.segments[i].gen <= m.gen /\ m.segments[i] \in Entries
        BY <1>1, <1>6, <3>2, ElementOfSeq DEF GoodManifest
      <4>2. n.segments[i] = m.segments[i] /\ m.segments[i].gen \in Nat
        BY <1>7, <1>8, <3>2, <4>1 DEF Entries
      <4>3. QED
        BY <1>1, <1>8, <4>1, <4>2
    <3>3. CASE i = S + 1
      BY <1>1, <1>5, <1>7, <1>8, <3>3
    <3>4. QED
      BY <3>1, <3>2, <3>3
  <2>2. QED
    BY <1>8, <1>10, <2>1 DEF GoodManifest
<1>12. n.segments # <<>> /\ PreviousCount(n) = b
  <2>1. n.segments[Len(n.segments)] = e
    BY <1>7, <1>8
  <2>2. PreviousCount(n) = (b + drop) - drop
    BY <1>4, <1>5, <1>8, <2>1 DEF PreviousCount
  <2>3. QED
    BY <1>1, <1>2, <1>7, <1>8, <2>2
<1>13. Reach(n, hot, b) = Len(t.cps)
  <2>1. Len(t.cps) = IF b + N > b THEN b + N ELSE b
    BY <1>1 DEF Reach
  <2>2. Reach(n, hot, b) = IF b + N > b + drop THEN b + N ELSE b + drop
    BY <1>8 DEF Reach
  <2> HIDE DEF b, N
  <2>3. QED
    BY <1>1, <1>2, <2>1, <2>2
<1>14. InOrder(t, b + drop)
  <2>1. \A i \in (b + drop) + 1..Len(t.cps) : i \in b + 1..Len(t.cps)
    BY <1>1, <1>2
  <2>2. QED
    BY <1>1, <2>1, Zenon DEF InOrder
<1>15. b <= b + drop
  BY <1>1, <1>2
<1>16. Stands(n, hot, t, b)
  BY <1>1, <1>8, <1>9, <1>11, <1>12, <1>13, <1>14, <1>15 DEF Stands
<1>17. OldOrNew(n, m, e)
  BY <1>6, <1>7, <1>8 DEF OldOrNew
<1>18. QED
  BY <1>5, <1>8, <1>16, <1>17 DEF n, e

\* A deletion on an empty log: the single new segment stands for what is left.
LEMMA StandsPrune ==
    ASSUME NEW m, NEW hot, NEW s, Stands(m, hot, s, m.count), hot # None, Len(hot.txs) = 0,
           NEW t \in States
    PROVE  LET e == Entry(m.gen + 1, t.cps)
               n == [m EXCEPT !.gen = @ + 1, !.count = Len(t.cps), !.segments = <<e>>,
                              !.deleted = t.deleted]
           IN  /\ e \in Entries /\ e.gen = m.gen + 1
               /\ Stands(n, hot, t, n.count)
               /\ n.segments = <<e>>
<1> DEFINE e == Entry(m.gen + 1, t.cps)
           n == [m EXCEPT !.gen = @ + 1, !.count = Len(t.cps), !.segments = <<e>>,
                          !.deleted = t.deleted]
<1>1. m \in Manifests /\ m.gen \in Nat /\ hot \in Logs
  BY StandsParts
<1>2. t.cps \in Seq(Checkpoints) /\ t.deleted \subseteq Keys /\ Len(t.cps) \in Nat
  BY LenProperties DEF States
<1>3. e \in Entries /\ e.gen = m.gen + 1 /\ e.cps = t.cps
  BY <1>1, <1>2 DEF Entry, Entries
<1> HIDE DEF e
<1>4. /\ n \in Manifests /\ n.gen = m.gen + 1 /\ n.count = Len(t.cps)
      /\ n.segments = <<e>> /\ n.deleted = t.deleted
  <2>1. <<e>> \in Seq(Entries) /\ m \in Manifests /\ Len(t.cps) \in Nat /\ t.deleted \in SUBSET Keys
    BY <1>1, <1>2, <1>3
  <2>2. n = PruneManifest(m, Len(t.cps), e, t.deleted)
    BY DEF PruneManifest
  <2> HIDE DEF n
  <2>3. QED
    BY <2>1, <2>2, PruneManifestFields
<1> HIDE DEF n
<1>5. SealedState(n).cps = t.cps
  BY <1>3, <1>4, SealedOne
<1>6. GoodManifest(n)
  <2>1. Len(n.segments) = 1 /\ n.segments[1] = e
    BY <1>4
  <2>2. \A i \in 1..Len(n.segments) : n.segments[i].gen <= n.gen
    BY <1>1, <1>3, <1>4, <2>1
  <2>3. QED
    BY <1>4, <1>5, <2>2 DEF GoodManifest
<1>7. Reach(n, hot, n.count) = n.count /\ n.count <= n.count
  BY <1>2, <1>4 DEF Reach
<1>8. SubSeq(t.cps, 1, n.count) = t.cps
  BY <1>2, <1>4, SubSeqFull
<1>9. InOrder(t, n.count)
  BY <1>2, <1>4 DEF InOrder
<1>10. Spells(hot, t, n.count)
  BY DEF Spells
<1>11. Stands(n, hot, t, n.count)
  BY <1>1, <1>2, <1>4, <1>5, <1>6, <1>7, <1>8, <1>9, <1>10 DEF Stands
<1>12. QED
  BY <1>3, <1>4, <1>11 DEF n, e

\* The log without the transactions the manifest covers.
LEMMA StandsRecycle ==
    ASSUME NEW m, NEW hot, NEW t, NEW b, Stands(m, hot, t, b), hot # None, NoneIsNoFunction,
           NEW k \in Nat, k <= Len(hot.txs),
           k = m.count - b \/ (k = Len(hot.txs) /\ k <= m.count - b)
    PROVE  LET h == Recycled(hot.txs, k)
           IN  /\ h # None
               /\ Len(h.txs) = Len(hot.txs) - k
               /\ Stands(m, h, t, m.count)
<1> DEFINE h == Recycled(hot.txs, k)
           N == Len(hot.txs)
           c == m.count
           q == SubSeq(hot.txs, k + 1, N)
<1>1. /\ GoodManifest(m) /\ m \in Manifests /\ c \in Nat
      /\ t \in States /\ t.deleted = m.deleted
      /\ Len(t.cps) \in Nat /\ Len(t.cps) = Reach(m, hot, b)
      /\ SealedState(m).cps = SubSeq(t.cps, 1, c) /\ InOrder(t, c)
      /\ b \in Nat /\ b <= c
      /\ hot \in Logs /\ hot.txs \in Seq(Transactions) /\ N \in Nat /\ Spells(hot, t, b)
  BY StandsParts
<1>2. Len(t.cps) = IF b + N > c THEN b + N ELSE c
  BY <1>1 DEF Reach
<1>3. \A i \in 1..N : hot.txs[i] \in Transactions /\ hot.txs[i] = Tx(b + i - 1, t.cps[b + i])
  BY <1>1, LogTyped DEF Spells
<1> HIDE DEF N, c
<1>4. k \in Nat /\ k <= N /\ k + 1 \in Int /\ N \in Int /\ (k = c - b \/ (k = N /\ k <= c - b))
  BY <1>1 DEF N, c
<1>5. /\ q \in Seq(Transactions)
      /\ Len(q) = IF k + 1 <= N THEN N - (k + 1) + 1 ELSE 0
      /\ \A i \in 1..N - (k + 1) + 1 : q[i] = hot.txs[(k + 1) + i - 1]
  <2>1. \A i \in k + 1..N : hot.txs[i] \in Transactions
    BY <1>3, <1>4
  <2>2. q = SubSeq(hot.txs, k + 1, N)
    OBVIOUS
  <2> HIDE DEF q
  <2>3. QED
    BY <1>4, <2>1, <2>2, SubSeqProperties
<1>6. h = [txs |-> q, torn |-> FALSE]
  BY <1>1, LenProperties DEF Recycled, N
<1> HIDE DEF q
<1>7. Len(q) = N - k
  BY <1>4, <1>5
<1>8. h \in Logs /\ h.txs = q
  BY <1>5, <1>6 DEF Logs
<1>9. h # None
  BY <1>6 DEF NoneIsNoFunction
<1> HIDE DEF h
<1>10. Spells(h, t, c)
  <2>1. SUFFICES ASSUME NEW i \in 1..Len(q) PROVE q[i] = Tx(c + i - 1, t.cps[c + i])
    BY <1>8 DEF Spells
  <2>2. /\ i \in 1..N - (k + 1) + 1 /\ (k + 1) + i - 1 = k + i /\ k + i \in 1..N /\ k = c - b
    BY <1>1, <1>4, <1>7
  <2>3. b + (k + i) = c + i /\ b + (k + i) - 1 = c + i - 1
    BY <1>1, <1>4, <2>2
  <2>4. q[i] = hot.txs[k + i]
    BY <1>5, <2>2
  <2>5. hot.txs[k + i] = Tx(b + (k + i) - 1, t.cps[b + (k + i)])
    BY <1>3, <2>2
  <2>6. QED
    BY <2>3, <2>4, <2>5, Zenon
<1>11. Reach(m, h, c) = Len(t.cps)
  <2>1. Reach(m, h, c) = IF c + Len(q) > c THEN c + Len(q) ELSE c
    BY <1>8, <1>9 DEF Reach, c
  <2>2. QED
    BY <1>1, <1>2, <1>4, <1>7, <2>1
<1>12. c <= c
  BY <1>1
<1>13. Stands(m, h, t, c)
  BY <1>1, <1>8, <1>9, <1>10, <1>11, <1>12, Zenon DEF Stands, c
<1>14. QED
  BY <1>7, <1>8, <1>9, <1>13, Zenon DEF h, N, c

\* A log that lost its last transactions stands for a prefix of the state.
\* How far a log of j records reaches, and the state up to there.
UpTo(b, j, c) == IF b + j > c THEN b + j ELSE c
Prefix(t, n) == [cps |-> SubSeq(t.cps, 1, n), deleted |-> t.deleted]

LEMMA StandsLost ==
    ASSUME NEW m, NEW hot, NEW t, NEW b, Stands(m, hot, t, b), hot # None, NoneIsNoFunction,
           NEW j \in 0..Len(hot.txs), NEW h \in Logs, h.txs = SubSeq(hot.txs, 1, j)
    PROVE  LET n == UpTo(b, j, m.count)
               u == Prefix(t, n)
           IN  /\ h # None /\ Len(h.txs) = j
               /\ n \in 0..Len(t.cps) /\ u \in States /\ Len(u.cps) = n
               /\ Stands(m, h, u, b)
<1> DEFINE c == m.count
           n == UpTo(b, j, c)
           u == Prefix(t, n)
           N == Len(hot.txs)
<1>1. /\ GoodManifest(m) /\ m \in Manifests /\ c \in Nat
      /\ t \in States /\ t.cps \in Seq(Checkpoints) /\ t.deleted = m.deleted
      /\ Len(t.cps) \in Nat /\ Len(t.cps) = Reach(m, hot, b) /\ c <= Len(t.cps)
      /\ SealedState(m).cps = SubSeq(t.cps, 1, c) /\ InOrder(t, c)
      /\ b \in Nat /\ b <= c
      /\ hot \in Logs /\ hot.txs \in Seq(Transactions) /\ N \in Nat /\ Spells(hot, t, b)
      /\ b + N <= Len(t.cps)
  BY StandsParts
<1>2. \A i \in 1..N : hot.txs[i] \in Transactions /\ hot.txs[i] = Tx(b + i - 1, t.cps[b + i])
  BY <1>1, LogTyped DEF Spells
<1>3. b # c => m.segments # <<>> /\ b = PreviousCount(m)
  BY DEF Stands
<1>0. n = IF b + j > c THEN b + j ELSE c
  BY DEF UpTo
<1> HIDE DEF N, c, n
<1>4. j \in Nat /\ j <= N
  BY <1>1 DEF N
<1>5. n \in Nat /\ n <= Len(t.cps) /\ c <= n /\ b + j <= n /\ n = IF b + j > c THEN b + j ELSE c
  <2>1. b \in Nat /\ c \in Nat /\ N \in Nat /\ j \in Nat /\ j <= N /\ b + N <= Len(t.cps) /\ c <= Len(t.cps)
    BY <1>1, <1>4
  <2>2. QED
    BY <1>0, <1>1, <2>1
<1>6. /\ h.txs \in Seq(Transactions) /\ Len(h.txs) = j /\ \A i \in 1..j : h.txs[i] = hot.txs[i]
  <2>0. N \in Nat /\ \A i \in 1..j : i \in 1..N
    BY <1>1, <1>4
  <2>1. \A i \in 1..j : hot.txs[i] \in Transactions
    BY <1>2, <2>0
  <2> DEFINE q == SubSeq(hot.txs, 1, j)
  <2>2. /\ q \in Seq(Transactions) /\ Len(q) = IF 1 <= j THEN j - 1 + 1 ELSE 0
        /\ \A i \in 1..j - 1 + 1 : q[i] = hot.txs[1 + i - 1]
    BY <1>4, <2>1, SubSeqProperties
  <2>3. h.txs = q
    OBVIOUS
  <2> HIDE DEF q
  <2>4. Len(q) = j /\ \A i \in 1..j : i \in 1..j - 1 + 1 /\ 1 + i - 1 = i
    BY <1>4, <2>2
  <2>5. QED
    BY <2>2, <2>3, <2>4
<1>7. /\ u.cps \in Seq(Checkpoints) /\ Len(u.cps) = n /\ \A i \in 1..n : u.cps[i] = t.cps[i]
  <2>1. \A i \in 1..n : t.cps[i] \in Checkpoints
    BY <1>1, <1>5, ElementOfSeq
  <2> DEFINE q == SubSeq(t.cps, 1, n)
  <2>2. /\ q \in Seq(Checkpoints) /\ Len(q) = IF 1 <= n THEN n - 1 + 1 ELSE 0
        /\ \A i \in 1..n - 1 + 1 : q[i] = t.cps[1 + i - 1]
    BY <1>5, <2>1, SubSeqProperties
  <2>3. u.cps = q
    BY DEF Prefix
  <2> HIDE DEF q, u
  <2>4. QED
    BY <1>5, <2>2, <2>3
<1>8. h # None
  BY DEF NoneIsNoFunction, Logs
<1>10. u \in States /\ u.deleted = t.deleted
  BY <1>1, <1>7 DEF States, Prefix
<1> HIDE DEF u
<1>11. Spells(h, u, b)
  <2>1. SUFFICES ASSUME NEW i \in 1..j PROVE h.txs[i] = Tx(b + i - 1, u.cps[b + i])
    BY <1>6 DEF Spells
  <2>2. i \in 1..N /\ b + i \in 1..n
    BY <1>1, <1>4, <1>5
  <2>3. QED
    BY <1>2, <1>6, <1>7, <2>2
<1>12. Reach(m, h, b) = n
  BY <1>5, <1>6, <1>8 DEF Reach, c
<1>13. SealedState(m).cps = SubSeq(u.cps, 1, c)
  <2>1. \A i \in 1..c : i \in 1..n /\ i \in 1..Len(t.cps)
    BY <1>1, <1>5
  <2>2. /\ SubSeq(t.cps, 1, c) \in Seq(Checkpoints) /\ SubSeq(u.cps, 1, c) \in Seq(Checkpoints)
        /\ Len(SubSeq(t.cps, 1, c)) = c /\ Len(SubSeq(u.cps, 1, c)) = c
        /\ \A i \in 1..c : SubSeq(t.cps, 1, c)[i] = t.cps[i] /\ SubSeq(u.cps, 1, c)[i] = u.cps[i]
    BY <1>1, <1>7, <2>1, SubSeqProperties, ElementOfSeq
  <2>3. SubSeq(u.cps, 1, c) = SubSeq(t.cps, 1, c)
    BY <1>7, <2>1, <2>2, SeqEqual
  <2>4. QED
    BY <1>1, <2>3
<1>14. InOrder(u, c)
  <2>1. SUFFICES ASSUME NEW i \in c+1..n
                 PROVE  Appendable({u.cps[x] : x \in 1..i-1}, u.deleted, u.cps[i])
    BY <1>7 DEF InOrder
  <2>2. i \in c+1..Len(t.cps) /\ i \in 1..n /\ \A x \in 1..i-1 : x \in 1..n
    BY <1>1, <1>5
  <2>3. {u.cps[x] : x \in 1..i-1} = {t.cps[x] : x \in 1..i-1}
    BY <1>7, <2>2
  <2>4. Appendable({t.cps[x] : x \in 1..i-1}, t.deleted, t.cps[i])
    BY <1>1, <2>2 DEF InOrder
  <2>5. u.cps[i] = t.cps[i]
    BY <1>7, <2>2
  <2>6. QED
    BY <1>10, <2>3, <2>4, <2>5, Zenon
<1>15. Stands(m, h, u, b)
  BY <1>1, <1>3, <1>7, <1>8, <1>10, <1>11, <1>12, <1>13, <1>14, Zenon DEF Stands, c
<1>16. n \in 0..Len(t.cps)
  BY <1>1, <1>5
<1>17. QED
  BY <1>6, <1>7, <1>8, <1>10, <1>15, <1>16, Zenon DEF u, n, c

-----------------------------------------------------------------------------
(* The files of a manifest *)

LEMMA HoldsSame ==
    ASSUME NEW d, NEW e, NEW m, d.files = e.files, ManifestHolds(d, m)
    PROVE  ManifestHolds(e, m)
BY DEF ManifestHolds

LEMMA HoldsDefault ==
    ASSUME NEW d
    PROVE  ManifestHolds(d, DefaultManifest)
<1>1. Len(DefaultManifest.segments) = 0
  BY DEF DefaultManifest
<1>2. QED
  BY <1>1 DEF ManifestHolds

\* The file of a newer generation takes no file of the manifest away.
LEMMA HoldsAdded ==
    ASSUME NEW d, NEW e, NEW m, NEW name, NEW gen \in Nat, NEW cps, GoodManifest(m), m.gen < gen,
           ManifestHolds(d, m),
           e.files = [a \in DOMAIN d.files \cup {<<name, gen>>} |->
                        IF a = <<name, gen>> THEN cps ELSE d.files[a]]
    PROVE  ManifestHolds(e, m)
<1>1. SUFFICES ASSUME NEW i \in 1..Len(m.segments), NEW kind \in {"segment", "route"}
               PROVE  /\ <<kind, m.segments[i].gen>> \in DOMAIN e.files
                      /\ e.files[<<kind, m.segments[i].gen>>] = m.segments[i].cps
  BY DEF ManifestHolds
<1> DEFINE a == <<kind, m.segments[i].gen>>
<1>2. a \in DOMAIN d.files /\ d.files[a] = m.segments[i].cps
  BY DEF ManifestHolds
<1>3. m.segments[i] \in Entries /\ m.segments[i].gen <= m.gen /\ m.gen \in Nat
  BY ElementOfSeq DEF GoodManifest, Manifests
<1>4. m.segments[i].gen # gen
  BY <1>3 DEF Entries
<1>5. a # <<name, gen>>
  BY <1>4
<1>6. QED
  BY <1>2, <1>5

\* So does the removal of a file it does not refer to.
LEMMA HoldsRemoved ==
    ASSUME NEW d, NEW e, NEW m, NEW a, a \notin Referenced(m), ManifestHolds(d, m),
           e.files = [x \in DOMAIN d.files \ {a} |-> d.files[x]]
    PROVE  ManifestHolds(e, m)
<1>1. SUFFICES ASSUME NEW i \in 1..Len(m.segments), NEW kind \in {"segment", "route"}
               PROVE  /\ <<kind, m.segments[i].gen>> \in DOMAIN e.files
                      /\ e.files[<<kind, m.segments[i].gen>>] = m.segments[i].cps
  BY DEF ManifestHolds
<1>2. /\ <<kind, m.segments[i].gen>> \in DOMAIN d.files
      /\ d.files[<<kind, m.segments[i].gen>>] = m.segments[i].cps
  BY DEF ManifestHolds
<1>3. <<kind, m.segments[i].gen>> \in Referenced(m)
  BY DEF Referenced
<1>4. QED
  BY <1>2, <1>3

\* Old files and the two new ones are all the new manifest needs.
LEMMA HoldsNew ==
    ASSUME NEW d, NEW m, NEW n, NEW e, ManifestHolds(d, m),
           FileThere(d, <<"segment", e.gen>>, e.cps), FileThere(d, <<"route", e.gen>>, e.cps),
           OldOrNew(n, m, e)
    PROVE  ManifestHolds(d, n)
<1>1. SUFFICES ASSUME NEW i \in 1..Len(n.segments), NEW kind \in {"segment", "route"}
               PROVE  /\ <<kind, n.segments[i].gen>> \in DOMAIN d.files
                      /\ d.files[<<kind, n.segments[i].gen>>] = n.segments[i].cps
  BY DEF ManifestHolds
<1>2. CASE n.segments[i] = e
  BY <1>2 DEF FileThere
<1>3. CASE \E j \in 1..Len(m.segments) : n.segments[i] = m.segments[j]
  BY <1>3 DEF ManifestHolds
<1>4. QED
  BY <1>2, <1>3 DEF OldOrNew

\* A power loss may undo renames and removals, not what directory and device
\* agree on.
LEMMA HoldsLeft ==
    ASSUME NEW m, NEW files \in FilesLeft, NEW d, d.files = files,
           ManifestHolds(dir, m), ManifestHolds(safe, m)
    PROVE  ManifestHolds(d, m)
<1> DEFINE changed == {a \in DOMAIN dir.files \cup DOMAIN safe.files :
                         ~(/\ a \in DOMAIN dir.files /\ a \in DOMAIN safe.files
                           /\ dir.files[a] = safe.files[a])}
           Mixed(S) == [a \in (DOMAIN dir.files \ (changed \ S)) \cup (DOMAIN safe.files \ S) |->
                           IF a \in DOMAIN dir.files /\ (a \in S \/ a \notin changed)
                           THEN dir.files[a] ELSE safe.files[a]]
<1>1. PICK S \in SUBSET changed : files = Mixed(S)
  BY DEF FilesLeft
<1>2. SUFFICES ASSUME NEW i \in 1..Len(m.segments), NEW kind \in {"segment", "route"}
               PROVE  /\ <<kind, m.segments[i].gen>> \in DOMAIN d.files
                      /\ d.files[<<kind, m.segments[i].gen>>] = m.segments[i].cps
  BY DEF ManifestHolds
<1> DEFINE a == <<kind, m.segments[i].gen>>
<1>3. /\ a \in DOMAIN dir.files /\ dir.files[a] = m.segments[i].cps
      /\ a \in DOMAIN safe.files /\ safe.files[a] = m.segments[i].cps
  BY DEF ManifestHolds
<1> HIDE DEF a
<1>4. a \notin changed
  BY <1>3
<1> HIDE DEF changed
<1>5. a \in DOMAIN Mixed(S) /\ Mixed(S)[a] = m.segments[i].cps
  BY <1>3, <1>4
<1>6. QED
  BY <1>1, <1>5 DEF a

-----------------------------------------------------------------------------
(* The invariant after a step, by where the step leaves the writer *)

LEMMA StateIsSome ==
    ASSUME NoneIsNoFunction, NEW t \in States
    PROVE  t # None
BY DEF NoneIsNoFunction, States

LEMMA ManifestIsSome ==
    ASSUME NoneIsNoFunction, NEW m \in Manifests
    PROVE  m # None
BY DEF NoneIsNoFunction, Manifests

\* What is written is recovered.
LEMMA WrittenRecovered ==
    ASSUME NoneIsNoFunction, NEW d, Writes(d), NEW t, NEW b,
           ManifestHolds(d, Loaded(d)), Stands(Loaded(d), d.hot, t, b), Len(t.cps) <= MaxCount
    PROVE  DirectoryTrue' /\ auth' = t /\ dir' = d
<1>1. auth' = Recovered(d) /\ dir' = d
  BY DEF Writes
<1>2. Recovered(d) = t
  BY StandsRecovered
<1>3. b \in 0..Loaded(d).count
  BY StandsParts
<1>4. QED
  BY <1>1, <1>2, <1>3 DEF DirectoryTrue

LEMMA DirectoryKept ==
    ASSUME DirectoryTrue, UNCHANGED directory
    PROVE  DirectoryTrue' /\ dir' = dir /\ auth' = auth
BY DEF directory, DirectoryTrue

LEMMA AtClosed ==
    ASSUME pc' = "closed", poisoned' = FALSE
    PROVE  WriterTrue'
BY DEF WriterTrue, Staging

LEMMA AtIdle ==
    ASSUME pc' = "idle", poisoned' \in BOOLEAN, ~poisoned' => Agrees'
    PROVE  WriterTrue'
BY DEF WriterTrue, Staging

LEMMA AtInitManifest ==
    ASSUME pc' = "initManifest", poisoned' = FALSE, dir'.manifest = None, man' = DefaultManifest,
           job'.kind = "open", IsJob(job')
    PROVE  WriterTrue'
BY DEF WriterTrue, Staging

LEMMA AtLoading ==
    ASSUME pc' \in {"initSync", "materialize"}, poisoned' = FALSE, dir'.manifest = man', man' # None,
           job'.kind = "open", IsJob(job')
    PROVE  WriterTrue'
BY DEF WriterTrue, Staging

LEMMA AtOpening ==
    ASSUME pc' \in {"openHot", "openLog", "openRecycled"}, poisoned' = FALSE, Opened',
           pc' # "openHot" => dir'.hot # None
    PROVE  WriterTrue'
BY DEF WriterTrue, Staging

LEMMA AtReclaim ==
    ASSUME pc' \in {"reclaim", "delete"}, poisoned' = FALSE, IsJob(job'),
           job'.kind \in {"open", "reclaim", "prune"},
           job'.kind = "open" => Opened', job'.kind # "open" => Agrees'
    PROVE  WriterTrue'
BY DEF WriterTrue, Staging

LEMMA AtWrite ==
    ASSUME pc' = "write", poisoned' = FALSE, Agrees', TxTrue'
    PROVE  WriterTrue'
BY DEF WriterTrue, Staging

LEMMA AtSync ==
    ASSUME pc' = "sync", poisoned' = FALSE, Written'
    PROVE  WriterTrue'
BY DEF WriterTrue, Staging

LEMMA AtStaging ==
    ASSUME pc' \in Staging, poisoned' = FALSE, IsJob(job'), Agrees', JobTrue',
           job'.kind # "reidentify" => NewFiles',
           job'.kind = "reidentify" => pc' \in {"stageManifest", "publishManifest"},
           pc' \in {"stageRoute", "publishRoute"} =>
              FileThere(dir', <<"segment", job'.entry.gen>>, job'.entry.cps),
           pc' \in {"stageManifest", "publishManifest"} => ManifestHolds(dir', job'.manifest)
    PROVE  WriterTrue'
BY DEF WriterTrue, Staging

LEMMA AtPublished ==
    ASSUME poisoned' = FALSE,
           \/ pc' = "syncManifest" /\ IsJob(job') /\ Renamed'
           \/ pc' = "recycle" /\ Sealed'
           \/ pc' = "recycled" /\ RecycledLog'
    PROVE  WriterTrue'
BY DEF WriterTrue, Staging

\* A log that overlaps nothing is the one its manifest goes on with.
LEMMA StandsNoOverlap ==
    ASSUME NEW m, NEW hot, NEW t, NEW b, Stands(m, hot, t, b), hot # None, Overlap(hot, m) = 0
    PROVE  Stands(m, hot, t, m.count) /\ ParsedFrom(hot, m.count) = hot.txs
<1>1. b = m.count \/ Len(hot.txs) = 0
  BY StandsLog
<1>2. CASE Len(hot.txs) = 0
  <2>1. /\ hot \in Logs /\ b \in Nat /\ b <= m.count /\ m.count \in Nat
        /\ Len(t.cps) = Reach(m, hot, b)
    BY StandsParts
  <2>2. Reach(m, hot, b) = m.count /\ Reach(m, hot, m.count) = m.count /\ m.count <= m.count
    BY <1>2, <2>1 DEF Reach
  <2>3. Spells(hot, t, m.count)
    BY <1>2 DEF Spells
  <2>4. Stands(m, hot, t, m.count)
    BY <2>1, <2>2, <2>3, Zenon DEF Stands
  <2>5. ParsedFrom(hot, m.count) = hot.txs
    BY <2>4, StandsLog
  <2>6. QED
    BY <2>4, <2>5
<1>3. CASE b = m.count
  BY <1>3, StandsLog
<1>4. QED
  BY <1>1, <1>2, <1>3

-----------------------------------------------------------------------------
(* Steps that write nothing *)

\* A step that leaves directory and device alone.
LEMMA KeptInvariant ==
    ASSUME StoreInvariant, UNCHANGED <<directory, safe>>, crashes' \in Nat, faults' \in Nat,
           WriterTrue', Undisturbed' => DeviceTrue'
    PROVE  StoreInvariant' /\ auth' = auth
BY DirectoryKept DEF StoreInvariant, Shapes, IsDirectory, IsDevice, directory

\* Steps at which the device lacks something.
Unsettled == {"initSync", "stageRoute", "publishRoute", "stageManifest", "publishManifest",
              "syncManifest", "recycle", "recycled", "openRecycled"}

LEMMA DeviceKept ==
    ASSUME DeviceTrue, UNCHANGED <<directory, safe>>, ~poisoned',
           pc \notin Unsettled, pc' \notin Unsettled
    PROVE  DeviceTrue'
BY DEF DeviceTrue, directory, Unsettled

LEMMA QuietBudget ==
    ASSUME StoreInvariant, UNCHANGED budget
    PROVE  crashes' \in Nat /\ faults' \in Nat /\ (Undisturbed' => Undisturbed)
BY DEF budget, StoreInvariant, Shapes, Undisturbed

LEMMA FaultBudget ==
    ASSUME StoreInvariant, Fault
    PROVE  crashes' \in Nat /\ faults' \in Nat /\ ~Undisturbed'
BY DEF Fault, StoreInvariant, Shapes, Undisturbed

LEMMA WriterFlags ==
    ASSUME StoreInvariant, pc # "idle"
    PROVE  poisoned = FALSE
BY DEF StoreInvariant, WriterTrue

LEMMA OpenLoadKeeps ==
    ASSUME NoneIsNoFunction, StoreInvariant, OpenLoad
    PROVE  StoreInvariant' /\ auth' = auth
<1>1. /\ pc = "closed" /\ man' = Loaded(dir) /\ UNCHANGED <<directory, safe, poisoned>>
      /\ pc' = IF dir.manifest = None THEN "initManifest" ELSE "materialize"
      /\ job' = [Job("open") EXCEPT !.manifest = man'] /\ UNCHANGED budget
  BY DEF OpenLoad, Quiet
<1>2. IsJob(job') /\ job'.kind = "open"
  BY <1>1 DEF Job, IsJob
<1>3. poisoned' = FALSE /\ dir' = dir
  BY <1>1, WriterFlags DEF directory
<1>4. WriterTrue'
  <2>1. CASE dir.manifest = None
    BY <1>1, <1>2, <1>3, <2>1, AtInitManifest DEF Loaded
  <2>2. CASE dir.manifest # None
    BY <1>1, <1>2, <1>3, <2>2, AtLoading DEF Loaded
  <2>3. QED
    BY <2>1, <2>2
<1>5. Undisturbed' => DeviceTrue'
  BY <1>1, <1>3, QuietBudget, DeviceKept DEF StoreInvariant, Unsettled
<1>6. QED
  BY <1>1, <1>4, <1>5, QuietBudget, KeptInvariant

LEMMA MaterializeKeeps ==
    ASSUME NoneIsNoFunction, StoreInvariant, Materialize
    PROVE  StoreInvariant' /\ auth' = auth
<1>1. /\ pc = "materialize" /\ pc' = "reclaim" /\ mem' = SealedState(man)
      /\ UNCHANGED <<directory, safe, man, poisoned, job, budget>> /\ dir' = dir
  BY DEF Materialize, Quiet, directory
<1>2. poisoned' = FALSE
  BY <1>1, WriterFlags
<1>3. IsJob(job) /\ job.kind = "open" /\ dir.manifest = man /\ man # None
  BY <1>1 DEF StoreInvariant, WriterTrue
<1>4. WriterTrue'
  BY <1>1, <1>2, <1>3, AtReclaim DEF Opened
<1>5. Undisturbed' => DeviceTrue'
  BY <1>1, <1>2, QuietBudget, DeviceKept DEF StoreInvariant, Unsettled
<1>6. QED
  BY <1>1, <1>4, <1>5, QuietBudget, KeptInvariant

LEMMA OpenReplayKeeps ==
    ASSUME NoneIsNoFunction, StoreInvariant, OpenReplay
    PROVE  StoreInvariant' /\ auth' = auth
<1>1. /\ pc = "openLog" /\ pc' = "idle" /\ Overlap(dir.hot, man) = 0
      /\ mem' = Replayed(mem, ParsedFrom(dir.hot, man.count))
      /\ tail' = Len(ParsedFrom(dir.hot, man.count))
      /\ UNCHANGED <<directory, safe, man, poisoned, budget>> /\ dir' = dir /\ auth' = auth
  BY DEF OpenReplay, Quiet, directory
<1>2. poisoned' = FALSE
  BY <1>1, WriterFlags
<1>3. Opened /\ dir.hot # None
  BY <1>1 DEF StoreInvariant, WriterTrue
<1>4. PICK b \in 0..Loaded(dir).count : Stands(Loaded(dir), dir.hot, auth, b)
  BY DEF StoreInvariant, DirectoryTrue
<1>5. Loaded(dir) = man
  BY <1>3 DEF Opened, Loaded
<1>6. Stands(man, dir.hot, auth, man.count) /\ ParsedFrom(dir.hot, man.count) = dir.hot.txs
  BY <1>1, <1>3, <1>4, <1>5, StandsNoOverlap
<1>7. mem' = auth
  <2>1. Suffix(dir.hot, man) = ParsedFrom(dir.hot, man.count)
    BY <1>1, <1>3, <1>4, <1>5, StandsLog
  <2>2. ManifestHolds(dir, man) /\ auth = Recovered(dir)
    BY <1>5 DEF StoreInvariant, DirectoryTrue
  <2>3. Recovered(dir) = Replayed(SealedState(man), Suffix(dir.hot, man))
    BY <1>3, <1>5, <2>2 DEF Recovered
  <2>4. QED
    BY <1>1, <1>3, <2>1, <2>2, <2>3 DEF Opened
<1>8. Agrees'
  BY <1>1, <1>3, <1>6, <1>7 DEF Agrees, Opened
<1>9. WriterTrue'
  BY <1>1, <1>2, <1>8, AtIdle
<1>10. Undisturbed' => DeviceTrue'
  BY <1>1, <1>2, QuietBudget, DeviceKept DEF StoreInvariant, Unsettled
<1>11. QED
  BY <1>1, <1>9, <1>10, QuietBudget, KeptInvariant

LEMMA AgreesKept ==
    ASSUME Agrees, UNCHANGED <<directory, mem, man, tail>>
    PROVE  Agrees'
BY DEF Agrees, directory

\* A call that fails and writes nothing.
LEMMA FaultKeeps ==
    ASSUME StoreInvariant, Fault, UNCHANGED <<directory, safe>>, pc # "idle",
           Stop \/ Poison \/ (Return /\ Agrees)
    PROVE  StoreInvariant' /\ auth' = auth
<1>1. crashes' \in Nat /\ faults' \in Nat /\ ~Undisturbed'
  BY FaultBudget
<1>2. CASE Stop
  <2>1. WriterTrue'
    BY <1>2, AtClosed DEF Stop
  <2>2. QED
    BY <1>1, <2>1, KeptInvariant
<1>3. CASE Poison
  <2>1. WriterTrue'
    BY <1>3, AtIdle DEF Poison
  <2>2. QED
    BY <1>1, <2>1, KeptInvariant
<1>4. CASE Return /\ Agrees
  <2>1. poisoned = FALSE
    BY WriterFlags
  <2>2. Agrees'
    BY <1>4, AgreesKept DEF Return
  <2>3. WriterTrue'
    BY <1>4, <2>1, <2>2, AtIdle DEF Return
  <2>4. QED
    BY <1>1, <2>3, KeptInvariant
<1>5. QED
  BY <1>2, <1>3, <1>4

LEMMA FailuresKeep ==
    ASSUME StoreInvariant,
           \/ OpenFails \/ ReclaimFails \/ SyncRecordFails \/ RenameManifestFails
           \/ SyncManifestFails \/ RecycleFails
    PROVE  StoreInvariant' /\ auth' = auth
<1>1. CASE OpenFails
  BY <1>1, FaultKeeps DEF OpenFails
<1>2. CASE ReclaimFails
  <2>1. Fault /\ UNCHANGED <<directory, safe>> /\ pc = "delete"
    BY <1>2 DEF ReclaimFails
  <2>2. job.kind # "open" => Agrees
    BY <2>1 DEF StoreInvariant, WriterTrue
  <2>3. Stop \/ Poison \/ (Return /\ Agrees)
    BY <1>2, <2>2 DEF ReclaimFails
  <2>4. QED
    BY <2>1, <2>3, FaultKeeps
<1>3. CASE SyncRecordFails
  BY <1>3, FaultKeeps DEF SyncRecordFails
<1>4. CASE RenameManifestFails
  <2>1. Agrees
    BY <1>4 DEF RenameManifestFails, StoreInvariant, WriterTrue, Staging
  <2>2. QED
    BY <1>4, <2>1, FaultKeeps DEF RenameManifestFails
<1>5. CASE SyncManifestFails
  BY <1>5, FaultKeeps DEF SyncManifestFails
<1>6. CASE RecycleFails
  BY <1>6, FaultKeeps DEF RecycleFails
<1>7. QED
  BY <1>1, <1>2, <1>3, <1>4, <1>5, <1>6

LEMMA StoppingKeeps ==
    ASSUME StoreInvariant, Close \/ ProcessCrash
    PROVE  StoreInvariant' /\ auth' = auth
<1>1. Stop /\ UNCHANGED <<directory, safe>>
  BY DEF Close, ProcessCrash
<1>2. WriterTrue' /\ poisoned' = FALSE
  BY <1>1, AtClosed DEF Stop
<1>3. CASE Close
  <2>1. Undisturbed' => DeviceTrue'
    BY <1>1, <1>2, <1>3, QuietBudget, DeviceKept DEF StoreInvariant, Unsettled, Close, Stop
  <2>2. QED
    BY <1>1, <1>2, <1>3, <2>1, QuietBudget, KeptInvariant DEF Close
<1>4. CASE ProcessCrash
  <2>1. crashes' \in Nat /\ faults' \in Nat /\ ~Undisturbed'
    BY <1>4 DEF ProcessCrash, StoreInvariant, Shapes, Undisturbed
  <2>2. QED
    BY <1>1, <1>2, <2>1, KeptInvariant
<1>5. QED
  BY <1>3, <1>4

LEMMA BeginReclaimKeeps ==
    ASSUME StoreInvariant, BeginReclaim
    PROVE  StoreInvariant' /\ auth' = auth
<1>1. /\ pc = "idle" /\ poisoned' = FALSE /\ pc' = "reclaim" /\ job' = Job("reclaim")
      /\ UNCHANGED <<directory, safe, mem, man, tail, budget>> /\ ~poisoned
  BY DEF BeginReclaim, Ready, Quiet, StoreInvariant, WriterTrue
<1>2. Agrees'
  BY <1>1, AgreesKept DEF StoreInvariant, WriterTrue
<1>3. IsJob(job') /\ job'.kind = "reclaim"
  BY <1>1 DEF Job, IsJob
<1>4. WriterTrue'
  BY <1>1, <1>2, <1>3, AtReclaim
<1>5. Undisturbed' => DeviceTrue'
  BY <1>1, QuietBudget, DeviceKept DEF StoreInvariant, Unsettled
<1>6. QED
  BY <1>1, <1>4, <1>5, QuietBudget, KeptInvariant

LEMMA ReclaimGateKeeps ==
    ASSUME StoreInvariant, ReclaimGate
    PROVE  StoreInvariant' /\ auth' = auth
<1>1. /\ pc = "reclaim" /\ pc' = "delete"
      /\ UNCHANGED <<directory, safe, mem, man, tail, poisoned, job, budget>> /\ dir' = dir
  BY DEF ReclaimGate, Step, directory
<1>2. poisoned' = FALSE
  BY <1>1, WriterFlags
<1>3. /\ IsJob(job) /\ job.kind \in {"open", "reclaim", "prune"}
      /\ job.kind = "open" => Opened
      /\ job.kind # "open" => Agrees
  BY <1>1 DEF StoreInvariant, WriterTrue
<1>4. job.kind = "open" => Opened'
  BY <1>1, <1>3 DEF Opened
<1>5. job.kind # "open" => Agrees'
  BY <1>1, <1>3, AgreesKept
<1>6. WriterTrue'
  BY <1>1, <1>2, <1>3, <1>4, <1>5, AtReclaim
<1>7. Undisturbed' => DeviceTrue'
  BY <1>1, <1>2, QuietBudget, DeviceKept DEF StoreInvariant, Unsettled
<1>8. QED
  BY <1>1, <1>6, <1>7, QuietBudget, KeptInvariant

LEMMA BeginAppendKeeps ==
    ASSUME StoreInvariant, NEW c \in Checkpoints, BeginAppend(c)
    PROVE  StoreInvariant' /\ auth' = auth
<1>1. /\ pc = "idle" /\ poisoned' = FALSE /\ pc' = "write" /\ job' = AppendJob(c) /\ Prepared(c)
      /\ UNCHANGED <<directory, safe, mem, man, tail, budget>> /\ ~poisoned
  BY DEF BeginAppend, Ready, Quiet, StoreInvariant, WriterTrue
<1>2. Agrees'
  BY <1>1, AgreesKept DEF StoreInvariant, WriterTrue
<1>3. job'.tx = Tx(Len(mem.cps), c)
  BY <1>1 DEF Job, AppendJob
<1>4. TxTrue'
  BY <1>1, <1>3 DEF TxTrue, Prepared
<1>5. WriterTrue'
  BY <1>1, <1>2, <1>4, AtWrite
<1>6. Undisturbed' => DeviceTrue'
  BY <1>1, QuietBudget, DeviceKept DEF StoreInvariant, Unsettled
<1>7. QED
  BY <1>1, <1>5, <1>6, QuietBudget, KeptInvariant

\* A call that begins to publish a generation from the idle state.
LEMMA StagingKeeps ==
    ASSUME StoreInvariant, pc = "idle", ~poisoned, poisoned' = FALSE,
           UNCHANGED <<directory, safe, mem, man, tail, budget>>, pc' = "stageSegment",
           IsJob(job'), JobTrue', NewFiles', job'.kind # "reidentify"
    PROVE  StoreInvariant' /\ auth' = auth
<1>1. Agrees'
  BY AgreesKept DEF StoreInvariant, WriterTrue
<1>2. WriterTrue'
  BY <1>1, AtStaging DEF Staging
<1>3. Undisturbed' => DeviceTrue'
  BY QuietBudget, DeviceKept DEF StoreInvariant, Unsettled
<1>4. QED
  BY <1>2, <1>3, QuietBudget, KeptInvariant

LEMMA SealingKeeps ==
    ASSUME NoneIsNoFunction, StoreInvariant, Ready, NEW n \in Nat, NEW tx, Sealing(n, tx),
           tx = None \/ \E c \in Checkpoints : Prepared(c) /\ tx = Tx(Len(mem.cps), c)
    PROVE  StoreInvariant' /\ auth' = auth
<1> DEFINE drop == n - man.count
           parsed == ParsedFrom(dir.hot, man.count)
           cps == [i \in 1..drop |-> parsed[i].cp]
           e == Entry(man.gen + 1, cps)
           new == [man EXCEPT !.gen = @ + 1, !.count = n, !.segments = Append(@, e)]
<1>1. /\ pc = "idle" /\ ~poisoned /\ poisoned' = FALSE /\ Agrees
      /\ UNCHANGED <<directory, safe, mem, man, tail, budget>> /\ pc' = "stageSegment"
      /\ dir' = dir
  BY DEF Ready, Sealing, Quiet, StoreInvariant, WriterTrue, directory
<1>2. /\ n > man.count /\ n <= Len(mem.cps) /\ drop <= Len(parsed)
      /\ job' = [Job("seal") EXCEPT !.entry = e, !.drop = drop, !.tx = tx, !.manifest = new]
  BY DEF Sealing
<1>3. /\ Stands(man, dir.hot, mem, man.count) /\ dir.hot # None /\ tail = Len(dir.hot.txs)
      /\ auth = mem
  BY <1>1 DEF Agrees
<1>4. parsed = dir.hot.txs /\ man.count \in Nat /\ Len(dir.hot.txs) \in Nat
  BY <1>3, StandsLog, StandsParts
<1>5. drop \in 1..Len(dir.hot.txs) /\ n = man.count + drop /\ n - drop = man.count /\ drop \in Nat
  BY <1>2, <1>4
<1>6. /\ IsJob(job') /\ job'.kind = "seal" /\ job'.manifest = new /\ job'.entry = e
      /\ job'.drop = drop /\ job'.tx = tx /\ job'.state = mem
  <2> HIDE DEF drop, e, new
  <2>1. QED
    BY <1>2 DEF Job, IsJob
<1>7. /\ e \in Entries /\ e.gen = man.gen + 1
      /\ Stands(new, dir.hot, mem, man.count) /\ new.count = man.count + drop
      /\ OldOrNew(new, man, e)
  <2> DEFINE e2 == SealEntry(man, dir.hot, drop)
             n2 == SealManifest(man, man.count + drop, e2)
  <2>1. e = e2
    BY <1>4 DEF SealEntry
  <2>2. new = n2
    <3> HIDE DEF drop, e, e2
    <3>1. new = SealManifest(man, n, e)
      BY DEF SealManifest
    <3>2. QED
      BY <1>5, <2>1, <3>1, Zenon
  <2> HIDE DEF drop
  <2>3. /\ e2 \in Entries /\ e2.gen = man.gen + 1
        /\ Stands(n2, dir.hot, mem, man.count) /\ n2.count = man.count + drop
        /\ OldOrNew(n2, man, e2)
    <3>1. Stands(man, dir.hot, mem, man.count) /\ dir.hot # None /\ drop \in 1..Len(dir.hot.txs)
      BY <1>3, <1>5
    <3>2. Stands(n2, dir.hot, mem, man.count)
      BY <3>1, StandsSeal
    <3>3. e2 \in Entries /\ e2.gen = man.gen + 1
      BY <3>1, StandsSeal
    <3>4. n2.count = man.count + drop
      BY <1>4, <3>1, StandsSeal
    <3>5. OldOrNew(n2, man, e2)
      BY <1>4, <3>1, StandsSeal
    <3>6. QED
      BY <3>2, <3>3, <3>4, <3>5, Zenon
  <2> HIDE DEF e2, n2, e, new
  <2>4. QED
    BY <2>1, <2>2, <2>3
<1> HIDE DEF drop, e, new
<1>8. new.count - drop = man.count
  BY <1>4, <1>5, <1>7
<1>9. Len(mem.cps) <= MaxCount
  BY <1>3 DEF StoreInvariant, DirectoryTrue
<1>10. tx = None \/ TxTrue'
  BY <1>1, <1>6 DEF TxTrue, Prepared
<1>11. JobTrue'
  BY <1>1, <1>3, <1>5, <1>6, <1>7, <1>8, <1>9, <1>10 DEF JobTrue
<1>12. NewFiles'
  BY <1>1, <1>6, <1>7 DEF NewFiles
<1>13. QED
  BY <1>1, <1>6, <1>11, <1>12, StagingKeeps

LEMMA PruningKeeps ==
    ASSUME NoneIsNoFunction, StoreInvariant, Ready, NEW K \in SUBSET Keys, Pruning(K),
           Prunable(LiveOf(mem), K) \/ \E k \in Keys \cap KeysOf(LiveOf(mem)) : K = Subtree(LiveOf(mem), k)
    PROVE  StoreInvariant' /\ auth' = auth
<1> DEFINE rest == Compacted(mem, K)
           e == Entry(man.gen + 1, rest.cps)
           new == [man EXCEPT !.gen = @ + 1, !.count = Len(rest.cps), !.segments = <<e>>,
                              !.deleted = rest.deleted]
<1>1. /\ pc = "idle" /\ ~poisoned /\ poisoned' = FALSE /\ Agrees /\ tail = 0
      /\ UNCHANGED <<directory, safe, mem, man, tail, budget>> /\ pc' = "stageSegment"
      /\ dir' = dir
  BY DEF Ready, Pruning, StoreInvariant, WriterTrue, directory
<1>2. job' = [Job("prune") EXCEPT !.state = rest, !.entry = e, !.manifest = new]
  BY DEF Pruning
<1>3. /\ Stands(man, dir.hot, mem, man.count) /\ dir.hot # None /\ Len(dir.hot.txs) = 0
      /\ auth = mem /\ mem \in States
  BY <1>1, StandsParts DEF Agrees
<1>4. /\ rest \in States /\ LiveOf(rest) = Surviving(LiveOf(mem), K)
      /\ rest.deleted = mem.deleted \cup K /\ Len(rest.cps) \in Nat
      /\ Len(rest.cps) <= Len(mem.cps)
  BY <1>3, CompactedLive, CompactedShort
<1> HIDE DEF rest
<1>5. /\ IsJob(job') /\ job'.kind = "prune" /\ job'.manifest = new /\ job'.entry = e
      /\ job'.drop = 0 /\ job'.state = rest
  <2> HIDE DEF e, new
  <2>1. QED
    BY <1>2 DEF Job, IsJob
<1>6. e \in Entries /\ e.gen = man.gen + 1 /\ Stands(new, dir.hot, rest, new.count) /\ new.segments = <<e>>
  BY <1>3, <1>4, StandsPrune
<1> HIDE DEF e, new
<1>7. new.count \in Nat /\ new.count - 0 = new.count
  <2>1. new.count \in Nat
    BY <1>6, StandsParts
  <2>2. QED
    BY <2>1
<1>8. Len(rest.cps) <= MaxCount
  <2>1. Len(mem.cps) <= MaxCount /\ Len(mem.cps) \in Nat /\ MaxCount \in Nat
    BY <1>3, StandsParts, StoreAssumption DEF StoreInvariant, DirectoryTrue
  <2>2. QED
    BY <1>4, <2>1
<1>9. Deletes(mem, rest)
  BY <1>4 DEF Deletes
<1>10. JobTrue'
  BY <1>1, <1>5, <1>6, <1>7, <1>8, <1>9 DEF JobTrue
<1>11. NewFiles'
  <2>1. \A i \in 1..Len(new.segments) : new.segments[i] = e
    BY <1>6
  <2>2. QED
    BY <1>1, <1>5, <1>6, <2>1 DEF NewFiles, OldOrNew
<1>12. QED
  BY <1>1, <1>5, <1>10, <1>11, StagingKeeps

LEMMA ReidentifyKeeps ==
    ASSUME NoneIsNoFunction, StoreInvariant, BeginReidentify
    PROVE  StoreInvariant' /\ auth' = auth
<1> DEFINE new == [man EXCEPT !.id = man.id + 1]
<1>1. /\ pc = "idle" /\ ~poisoned /\ poisoned' = FALSE /\ Agrees
      /\ UNCHANGED <<directory, safe, mem, man, tail, budget>> /\ pc' = "stageManifest"
      /\ dir' = dir /\ job' = [Job("reidentify") EXCEPT !.manifest.id = @ + 1]
  BY DEF Ready, BeginReidentify, Quiet, StoreInvariant, WriterTrue, directory
<1>2. /\ IsJob(job') /\ job'.kind = "reidentify" /\ job'.manifest = new
      /\ job'.drop = 0 /\ job'.state = mem
  BY <1>1 DEF Job, IsJob
<1>3. Stands(man, dir.hot, mem, man.count) /\ auth = mem /\ dir.manifest = man
  BY <1>1 DEF Agrees
<1>4. man \in Manifests /\ man.id + 1 \in Nat /\ man.count \in Nat
  BY <1>3, StandsParts DEF Manifests
<1>5. Stands(new, dir.hot, mem, man.count)
  BY <1>3, <1>4, StandsIdentity
<1>6. new.count = man.count /\ new.count - 0 = new.count /\ new.segments = man.segments
  BY <1>4 DEF Manifests
<1> HIDE DEF new
<1>7. JobTrue'
  BY <1>1, <1>2, <1>3, <1>5, <1>6 DEF JobTrue, StoreInvariant, DirectoryTrue
<1>8. Loaded(dir) = man /\ AsLoaded(dir.manifest) = man
  BY <1>3, <1>4, ManifestIsSome DEF Loaded, AsLoaded
<1>9. ManifestHolds(dir, new)
  BY <1>6, <1>8 DEF ManifestHolds, StoreInvariant, DirectoryTrue
<1>10. Agrees'
  BY <1>1, AgreesKept
<1>11. WriterTrue'
  BY <1>1, <1>2, <1>7, <1>9, <1>10, AtStaging DEF Staging
<1>12. Undisturbed' => DeviceTrue'
  <2>1. SUFFICES ASSUME Undisturbed' PROVE DeviceTrue'
    OBVIOUS
  <2>2. DeviceTrue
    BY <1>1, <2>1, QuietBudget DEF StoreInvariant
  <2>3. ManifestHolds(safe, new)
    <3>1. ManifestHolds(safe, man)
      BY <1>8, <2>2 DEF DeviceTrue
    <3>2. QED
      BY <1>6, <3>1 DEF ManifestHolds
  <2>4. QED
    BY <1>1, <1>2, <2>2, <2>3 DEF DeviceTrue, directory
<1>13. QED
  BY <1>1, <1>11, <1>12, QuietBudget, KeptInvariant

-----------------------------------------------------------------------------
(* Steps that write files and leave manifest and log alone *)

LEMMA SomeBase ==
    ASSUME DirectoryTrue
    PROVE  /\ \E b : Stands(Loaded(dir), dir.hot, auth, b)
           /\ ManifestHolds(dir, Loaded(dir)) /\ Len(auth.cps) <= MaxCount
BY DEF DirectoryTrue

LEMMA FilesWritten ==
    ASSUME NoneIsNoFunction, DirectoryTrue, NEW d, Writes(d), d.manifest = dir.manifest,
           d.hot = dir.hot, ManifestHolds(d, Loaded(dir))
    PROVE  /\ DirectoryTrue' /\ auth' = auth /\ dir' = d
           /\ dir'.manifest = dir.manifest /\ dir'.hot = dir.hot /\ Loaded(dir') = Loaded(dir)
<1>1. PICK b : Stands(Loaded(dir), dir.hot, auth, b)
  BY SomeBase
<1>2. Loaded(d) = Loaded(dir) /\ Len(auth.cps) <= MaxCount
  BY SomeBase DEF Loaded
<1>3. DirectoryTrue' /\ auth' = auth /\ dir' = d
  BY <1>1, <1>2, WrittenRecovered
<1>4. QED
  BY <1>2, <1>3

LEMMA TmpsWritten ==
    ASSUME NoneIsNoFunction, DirectoryTrue, IsDirectory(dir), NEW x, Writes([dir EXCEPT !.tmps = x])
    PROVE  /\ DirectoryTrue' /\ auth' = auth /\ IsDirectory(dir')
           /\ dir'.manifest = dir.manifest /\ dir'.hot = dir.hot /\ dir'.files = dir.files
<1> DEFINE d == [dir EXCEPT !.tmps = x]
<1>1. d.manifest = dir.manifest /\ d.hot = dir.hot /\ d.files = dir.files /\ IsDirectory(d)
  BY DEF IsDirectory
<1> HIDE DEF d
<1>2. ManifestHolds(d, Loaded(dir))
  BY <1>1, SomeBase, HoldsSame
<1>3. Writes(d)
  BY DEF d
<1>4. QED
  BY <1>1, <1>2, <1>3, FilesWritten

\* The writer's view does not depend on the files.
LEMMA AgreesSame ==
    ASSUME Agrees, dir'.manifest = dir.manifest, dir'.hot = dir.hot, auth' = auth,
           UNCHANGED <<mem, man, tail>>
    PROVE  Agrees'
BY DEF Agrees

LEMMA JobSame ==
    ASSUME JobTrue, dir'.hot = dir.hot, UNCHANGED <<mem, tail, job>>
    PROVE  JobTrue'
<1>1. TxTrue => TxTrue'
  BY DEF TxTrue, Prepared
<1>2. QED
  BY <1>1 DEF JobTrue

\* Facts about the writer while it publishes.
LEMMA StagingFacts ==
    ASSUME StoreInvariant, pc \in Staging
    PROVE  /\ IsJob(job) /\ Agrees /\ JobTrue /\ poisoned = FALSE
           /\ job.kind # "reidentify" => NewFiles
           /\ job.kind = "reidentify" => pc \in {"stageManifest", "publishManifest"}
<1>1. pc # "idle"
  BY DEF Staging
<1>2. QED
  BY <1>1 DEF StoreInvariant, WriterTrue

\* The manifest the writer has is that of the directory.
LEMMA AgreesLoaded ==
    ASSUME NoneIsNoFunction, Agrees
    PROVE  /\ Loaded(dir) = man /\ AsLoaded(dir.manifest) = man /\ GoodManifest(man)
           /\ man \in Manifests /\ mem \in States /\ man # None
<1>1. Stands(man, dir.hot, mem, man.count) /\ dir.manifest = man
  BY DEF Agrees
<1>2. GoodManifest(man) /\ man \in Manifests /\ mem \in States
  BY <1>1, StandsParts
<1>3. man # None
  BY <1>2, ManifestIsSome
<1>4. QED
  BY <1>1, <1>2, <1>3 DEF Loaded, AsLoaded

LEMMA StageKeeps ==
    ASSUME NoneIsNoFunction, StoreInvariant, StageSegment \/ StageRoute \/ StageManifest
    PROVE  StoreInvariant' /\ auth' = auth
<1>1. /\ \/ pc = "stageSegment" /\ pc' = "publishSegment"
         \/ pc = "stageRoute" /\ pc' = "publishRoute"
         \/ pc = "stageManifest" /\ pc' = "publishManifest"
      /\ \E name : Writes([dir EXCEPT !.tmps = @ \cup {name}])
      /\ UNCHANGED <<mem, man, tail, poisoned, job, safe, budget>>
  BY DEF StageSegment, StageRoute, StageManifest, Stage, Step, Quiet
<1>2. PICK name : Writes([dir EXCEPT !.tmps = dir.tmps \cup {name}])
  BY <1>1
<1>3. /\ DirectoryTrue' /\ auth' = auth /\ IsDirectory(dir')
      /\ dir'.manifest = dir.manifest /\ dir'.hot = dir.hot /\ dir'.files = dir.files
  BY <1>2, TmpsWritten DEF StoreInvariant, Shapes
<1>4. /\ pc \in Staging /\ pc' \in Staging /\ IsJob(job) /\ Agrees /\ JobTrue /\ poisoned = FALSE
      /\ job.kind # "reidentify" => NewFiles
      /\ job.kind = "reidentify" => pc \in {"stageManifest", "publishManifest"}
  BY <1>1, StagingFacts DEF Staging
<1>5. /\ pc \in {"stageRoute", "publishRoute"} =>
            FileThere(dir, <<"segment", job.entry.gen>>, job.entry.cps)
      /\ pc \in {"stageManifest", "publishManifest"} => ManifestHolds(dir, job.manifest)
  BY DEF StoreInvariant, WriterTrue
<1>6. Agrees' /\ JobTrue'
  BY <1>1, <1>3, <1>4, AgreesSame, JobSame
<1>7. job'.kind # "reidentify" => NewFiles'
  BY <1>1, <1>4 DEF NewFiles
<1>8. WriterTrue'
  <2>1. ManifestHolds(dir, job.manifest) => ManifestHolds(dir', job'.manifest)
    BY <1>1, <1>3, HoldsSame
  <2>2. QED
    BY <1>1, <1>3, <1>4, <1>5, <1>6, <1>7, <2>1, AtStaging DEF FileThere
<1>9. Undisturbed' => DeviceTrue'
  <2>1. SUFFICES ASSUME DeviceTrue PROVE DeviceTrue'
    BY <1>1, QuietBudget DEF StoreInvariant
  <2>2. Loaded(dir') = Loaded(dir)
    BY <1>3 DEF Loaded
  <2>3. QED
    BY <1>1, <1>3, <1>4, <2>1, <2>2 DEF DeviceTrue
<1>10. QED
  BY <1>1, <1>3, <1>8, <1>9, QuietBudget DEF StoreInvariant, Shapes

LEMMA StageFailsKeeps ==
    ASSUME NoneIsNoFunction, StoreInvariant, StageFails
    PROVE  StoreInvariant' /\ auth' = auth
<1>1. /\ pc \in {"stageSegment", "stageRoute", "stageManifest"} /\ Fault /\ safe' = safe
      /\ Return \/ Poison
  BY DEF StageFails
<1>2. Agrees /\ poisoned = FALSE
  BY <1>1, StagingFacts DEF Staging
<1>3. CASE UNCHANGED directory
  BY <1>1, <1>2, <1>3, FaultKeeps
<1>4. CASE Writes([dir EXCEPT !.tmps = dir.tmps \cup {Temporary}])
  <2>1. /\ DirectoryTrue' /\ auth' = auth /\ IsDirectory(dir')
        /\ dir'.manifest = dir.manifest /\ dir'.hot = dir.hot
    BY <1>4, TmpsWritten DEF StoreInvariant, Shapes
  <2>2. WriterTrue'
    <3>1. Agrees'
      BY <1>1, <1>2, <2>1, AgreesSame DEF Return, Poison
    <3>2. QED
      BY <1>1, <1>2, <3>1, AtIdle DEF Return, Poison
  <2>3. QED
    BY <1>1, <2>1, <2>2, FaultBudget DEF StoreInvariant, Shapes
<1>5. QED
  BY <1>3, <1>4 DEF StageFails

\* A published file of the new generation.
LEMMA ArtifactWritten ==
    ASSUME NoneIsNoFunction, StoreInvariant, NEW name, pc \in Staging, job.kind # "reidentify",
           Writes(WithArtifact(name))
    PROVE  /\ DirectoryTrue' /\ auth' = auth /\ IsDirectory(dir')
           /\ dir'.manifest = dir.manifest /\ dir'.hot = dir.hot
           /\ FileThere(dir', <<name, job.entry.gen>>, job.entry.cps)
           /\ ManifestHolds(dir', man)
           /\ \A a, cps : FileThere(dir, a, cps) /\ a # <<name, job.entry.gen>> => FileThere(dir', a, cps)
<1> DEFINE d == WithArtifact(name)
           x == <<name, job.entry.gen>>
           files == [a \in DOMAIN dir.files \cup {x} |->
                        IF a = x THEN job.entry.cps ELSE dir.files[a]]
<1>1. IsDirectory(dir) /\ DirectoryTrue
  BY DEF StoreInvariant, Shapes
<1>2. /\ d.manifest = dir.manifest /\ d.hot = dir.hot /\ IsDirectory(d) /\ d.files = files
  <2>1. d = [dir EXCEPT !.tmps = dir.tmps \ {name}, !.files = files]
    BY <1>1 DEF WithArtifact, IsDirectory
  <2> HIDE DEF d, files
  <2>2. QED
    BY <1>1, <2>1 DEF IsDirectory
<1>3. Loaded(dir) = man /\ GoodManifest(man) /\ man \in Manifests
  BY StagingFacts, AgreesLoaded
<1>4. job.entry \in Entries /\ job.entry.gen = man.gen + 1
  BY StagingFacts DEF NewFiles
<1>5. man.gen \in Nat /\ job.entry.gen \in Nat /\ man.gen < job.entry.gen
  BY <1>3, <1>4 DEF Manifests
<1>6. ManifestHolds(dir, man)
  BY <1>1, <1>3, SomeBase
<1> HIDE DEF d
<1>7. ManifestHolds(d, man)
  BY <1>2, <1>3, <1>5, <1>6, HoldsAdded
<1>8. Writes(d)
  BY DEF d
<1>9. DirectoryTrue' /\ auth' = auth /\ dir' = d
  BY <1>1, <1>2, <1>3, <1>7, <1>8, FilesWritten
<1>10. FileThere(d, x, job.entry.cps)
  BY <1>2 DEF FileThere
<1>11. \A a, cps : FileThere(dir, a, cps) /\ a # x => FileThere(d, a, cps)
  BY <1>2 DEF FileThere
<1>12. QED
  BY <1>2, <1>7, <1>9, <1>10, <1>11, Zenon

LEMMA PublishSegmentKeeps ==
    ASSUME NoneIsNoFunction, StoreInvariant, PublishSegment
    PROVE  StoreInvariant' /\ auth' = auth
<1>1. /\ pc = "publishSegment" /\ pc' = "stageRoute" /\ Writes(WithArtifact("segment"))
      /\ safe' = [safe EXCEPT !.manifest = dir.manifest, !.files = dir'.files, !.older = None]
      /\ UNCHANGED <<mem, man, tail, poisoned, job, budget>>
  BY DEF PublishSegment, PublishArtifact, Step, Quiet
<1>2. /\ IsJob(job) /\ Agrees /\ JobTrue /\ poisoned = FALSE /\ job.kind # "reidentify" /\ NewFiles
      /\ pc \in Staging
  BY <1>1, StagingFacts DEF Staging
<1>3. /\ DirectoryTrue' /\ auth' = auth /\ IsDirectory(dir')
      /\ dir'.manifest = dir.manifest /\ dir'.hot = dir.hot
      /\ FileThere(dir', <<"segment", job.entry.gen>>, job.entry.cps)
      /\ ManifestHolds(dir', man)
  BY <1>1, <1>2, ArtifactWritten
<1>4. /\ IsDevice(safe') /\ safe'.manifest = dir.manifest /\ safe'.files = dir'.files
      /\ safe'.older = None /\ safe'.synced = safe.synced
  BY <1>1 DEF IsDevice, StoreInvariant, Shapes
<1>5. Agrees' /\ JobTrue'
  BY <1>1, <1>2, <1>3, AgreesSame, JobSame
<1>6. NewFiles'
  BY <1>1, <1>2 DEF NewFiles
<1>7. WriterTrue'
  BY <1>1, <1>2, <1>3, <1>5, <1>6, AtStaging DEF Staging
<1>8. Undisturbed' => DeviceTrue'
  <2>1. SUFFICES ASSUME DeviceTrue PROVE DeviceTrue'
    BY <1>1, QuietBudget DEF StoreInvariant
  <2>2. Loaded(dir') = Loaded(dir) /\ AsLoaded(dir'.manifest) = man
    BY <1>2, <1>3, AgreesLoaded DEF Loaded
  <2>3. ManifestHolds(safe', man)
    BY <1>3, <1>4, HoldsSame
  <2>4. FileThere(safe', <<"segment", job'.entry.gen>>, job'.entry.cps)
    BY <1>1, <1>3, <1>4 DEF FileThere
  <2>5. QED
    BY <1>1, <1>2, <1>3, <1>4, <2>1, <2>2, <2>3, <2>4 DEF DeviceTrue
<1>9. QED
  BY <1>1, <1>3, <1>4, <1>7, <1>8, QuietBudget DEF StoreInvariant, Shapes

LEMMA PublishRouteKeeps ==
    ASSUME NoneIsNoFunction, StoreInvariant, PublishRoute
    PROVE  StoreInvariant' /\ auth' = auth
<1>1. /\ pc = "publishRoute" /\ pc' = "stageManifest" /\ Writes(WithArtifact("route"))
      /\ safe' = [safe EXCEPT !.manifest = dir.manifest, !.files = dir'.files, !.older = None]
      /\ UNCHANGED <<mem, man, tail, poisoned, job, budget>>
  BY DEF PublishRoute, PublishArtifact, Step, Quiet
<1>2. /\ IsJob(job) /\ Agrees /\ JobTrue /\ poisoned = FALSE /\ job.kind # "reidentify" /\ NewFiles
      /\ pc \in Staging
  BY <1>1, StagingFacts DEF Staging
<1>3. /\ DirectoryTrue' /\ auth' = auth /\ IsDirectory(dir')
      /\ dir'.manifest = dir.manifest /\ dir'.hot = dir.hot
      /\ FileThere(dir', <<"route", job.entry.gen>>, job.entry.cps)
      /\ ManifestHolds(dir', man)
      /\ \A a, cps : FileThere(dir, a, cps) /\ a # <<"route", job.entry.gen>> => FileThere(dir', a, cps)
  BY <1>1, <1>2, ArtifactWritten
<1>4. /\ IsDevice(safe') /\ safe'.manifest = dir.manifest /\ safe'.files = dir'.files
      /\ safe'.older = None /\ safe'.synced = safe.synced
  BY <1>1 DEF IsDevice, StoreInvariant, Shapes
<1>5. Agrees' /\ JobTrue'
  BY <1>1, <1>2, <1>3, AgreesSame, JobSame
<1>6. NewFiles'
  BY <1>1, <1>2 DEF NewFiles
<1>7. FileThere(dir', <<"segment", job.entry.gen>>, job.entry.cps)
  <2>1. FileThere(dir, <<"segment", job.entry.gen>>, job.entry.cps)
    BY <1>1 DEF StoreInvariant, WriterTrue
  <2>2. <<"segment", job.entry.gen>> # <<"route", job.entry.gen>>
    OBVIOUS
  <2>3. QED
    BY <1>3, <2>1, <2>2
<1>8. ManifestHolds(dir', job.manifest)
  BY <1>2, <1>3, <1>7, HoldsNew DEF NewFiles
<1>9. WriterTrue'
  BY <1>1, <1>2, <1>3, <1>5, <1>6, <1>8, AtStaging DEF Staging
<1>10. Undisturbed' => DeviceTrue'
  <2>1. SUFFICES ASSUME DeviceTrue PROVE DeviceTrue'
    BY <1>1, QuietBudget DEF StoreInvariant
  <2>2. Loaded(dir') = Loaded(dir) /\ AsLoaded(dir'.manifest) = man
    BY <1>2, <1>3, AgreesLoaded DEF Loaded
  <2>3. ManifestHolds(safe', man) /\ ManifestHolds(safe', job'.manifest)
    BY <1>1, <1>3, <1>4, <1>8, HoldsSame
  <2>4. QED
    BY <1>1, <1>2, <1>3, <1>4, <2>1, <2>2, <2>3 DEF DeviceTrue
<1>11. QED
  BY <1>1, <1>3, <1>4, <1>9, <1>10, QuietBudget DEF StoreInvariant, Shapes

LEMMA PublishArtifactFailsKeeps ==
    ASSUME NoneIsNoFunction, StoreInvariant, PublishArtifactFails
    PROVE  StoreInvariant' /\ auth' = auth
<1>1. pc \in {"publishSegment", "publishRoute"} /\ Fault /\ Poison /\ safe' = safe
  BY DEF PublishArtifactFails
<1>2. pc \in Staging /\ job.kind # "reidentify" /\ poisoned = FALSE
  BY <1>1, StagingFacts DEF Staging
<1>3. CASE UNCHANGED directory
  BY <1>1, <1>3, FaultKeeps
<1>4. CASE Writes(WithArtifact(Temporary))
  <2>1. DirectoryTrue' /\ auth' = auth /\ IsDirectory(dir')
    BY <1>2, <1>4, ArtifactWritten
  <2>2. WriterTrue'
    BY <1>1, AtIdle DEF Poison
  <2>3. QED
    BY <1>1, <2>1, <2>2, FaultBudget DEF StoreInvariant, Shapes
<1>5. QED
  BY <1>3, <1>4 DEF PublishArtifactFails

-----------------------------------------------------------------------------
(* Reclaiming *)

LEMMA ReclaimFacts ==
    ASSUME NoneIsNoFunction, StoreInvariant, pc \in {"reclaim", "delete"}
    PROVE  /\ IsJob(job) /\ job.kind \in {"open", "reclaim", "prune"} /\ poisoned = FALSE
           /\ job.kind = "open" => Opened
           /\ job.kind # "open" => Agrees
           /\ Loaded(dir) = man /\ AsLoaded(dir.manifest) = man /\ dir.manifest = man
<1>1. /\ IsJob(job) /\ job.kind \in {"open", "reclaim", "prune"} /\ poisoned = FALSE
      /\ job.kind = "open" => Opened
      /\ job.kind # "open" => Agrees
  BY WriterFlags DEF StoreInvariant, WriterTrue
<1>2. Loaded(dir) = man /\ AsLoaded(dir.manifest) = man /\ dir.manifest = man
  <2>1. CASE job.kind = "open"
    BY <1>1, <2>1 DEF Opened, Loaded, AsLoaded
  <2>2. CASE job.kind # "open"
    BY <1>1, <2>2, AgreesLoaded DEF Agrees
  <2>3. QED
    BY <2>1, <2>2
<1>3. QED
  BY <1>1, <1>2

LEMMA ReclaimDeleteKeeps ==
    ASSUME NoneIsNoFunction, StoreInvariant, ReclaimDelete
    PROVE  StoreInvariant' /\ auth' = auth
<1>1. /\ pc = "delete" /\ pc' = "delete" /\ job' = [job EXCEPT !.removed = TRUE]
      /\ UNCHANGED <<safe, mem, man, tail, poisoned, budget>>
  BY DEF ReclaimDelete, Quiet
<1>2. /\ IsJob(job) /\ job.kind \in {"open", "reclaim", "prune"} /\ poisoned = FALSE
      /\ job.kind = "open" => Opened
      /\ job.kind # "open" => Agrees
      /\ Loaded(dir) = man /\ AsLoaded(dir.manifest) = man /\ dir.manifest = man
  BY <1>1, ReclaimFacts
<1>3. IsJob(job') /\ job'.kind = job.kind
  BY <1>1, <1>2 DEF IsJob
<1>4. IsDirectory(dir) /\ DirectoryTrue
  BY DEF StoreInvariant, Shapes
<1>5. /\ DirectoryTrue' /\ auth' = auth /\ IsDirectory(dir')
      /\ dir'.manifest = dir.manifest /\ dir'.hot = dir.hot
  <2>1. ASSUME NEW a \in Unreferenced(dir, man),
               Writes([dir EXCEPT !.files = [x \in DOMAIN @ \ {a} |-> @[x]]])
        PROVE  /\ DirectoryTrue' /\ auth' = auth /\ IsDirectory(dir')
               /\ dir'.manifest = dir.manifest /\ dir'.hot = dir.hot
    <3> DEFINE d == [dir EXCEPT !.files = [x \in DOMAIN @ \ {a} |-> @[x]]]
    <3>1. /\ d.manifest = dir.manifest /\ d.hot = dir.hot /\ IsDirectory(d)
          /\ d.files = [x \in DOMAIN dir.files \ {a} |-> dir.files[x]]
      BY <1>4 DEF IsDirectory
    <3> HIDE DEF d
    <3>2. a \notin Referenced(man)
      BY DEF Unreferenced
    <3>3. ManifestHolds(dir, man)
      BY <1>2, <1>4, SomeBase
    <3>4. ManifestHolds(d, man)
      BY <3>1, <3>2, <3>3, HoldsRemoved
    <3>5. Writes(d)
      BY <2>1 DEF d
    <3>6. QED
      BY <1>2, <1>4, <3>1, <3>4, <3>5, FilesWritten
  <2>2. ASSUME NEW t \in dir.tmps, Writes([dir EXCEPT !.tmps = @ \ {t}])
        PROVE  /\ DirectoryTrue' /\ auth' = auth /\ IsDirectory(dir')
               /\ dir'.manifest = dir.manifest /\ dir'.hot = dir.hot
    BY <1>4, <2>2, TmpsWritten
  <2>3. QED
    BY <2>1, <2>2 DEF ReclaimDelete
<1>6. job.kind = "open" => Opened'
  BY <1>1, <1>2, <1>5 DEF Opened
<1>7. job.kind # "open" => Agrees'
  BY <1>1, <1>2, <1>5, AgreesSame
<1>8. WriterTrue'
  BY <1>1, <1>2, <1>3, <1>6, <1>7, AtReclaim
<1>9. Undisturbed' => DeviceTrue'
  <2>1. SUFFICES ASSUME DeviceTrue PROVE DeviceTrue'
    BY <1>1, QuietBudget DEF StoreInvariant
  <2>2. Loaded(dir') = Loaded(dir)
    BY <1>5 DEF Loaded
  <2>3. QED
    BY <1>1, <1>5, <2>1, <2>2 DEF DeviceTrue
<1>10. QED
  BY <1>1, <1>5, <1>8, <1>9, QuietBudget DEF StoreInvariant, Shapes

LEMMA ReclaimDoneKeeps ==
    ASSUME NoneIsNoFunction, StoreInvariant, ReclaimDone
    PROVE  StoreInvariant' /\ auth' = auth
<1>1. /\ pc = "delete" /\ safe' = (IF job.removed THEN DirSync ELSE safe) /\ Reclaimed
      /\ UNCHANGED <<directory, budget>> /\ dir' = dir /\ auth' = auth
  BY DEF ReclaimDone, directory
<1>2. /\ IsJob(job) /\ poisoned = FALSE
      /\ job.kind = "open" => Opened
      /\ job.kind # "open" => Agrees
      /\ Loaded(dir) = man /\ AsLoaded(dir.manifest) = man /\ dir.manifest = man
  BY <1>1, ReclaimFacts
<1>3. /\ pc' = (IF job.kind = "open" THEN "openHot" ELSE "idle")
      /\ UNCHANGED <<mem, man, tail, poisoned>>
  BY <1>1 DEF Reclaimed, Step, Return
<1>4. WriterTrue'
  <2>1. CASE job.kind = "open"
    <3>1. Opened'
      BY <1>1, <1>2, <1>3, <2>1 DEF Opened
    <3>2. QED
      BY <1>2, <1>3, <2>1, <3>1, AtOpening
  <2>2. CASE job.kind # "open"
    <3>1. Agrees'
      BY <1>1, <1>2, <1>3, <2>2, AgreesSame
    <3>2. QED
      BY <1>2, <1>3, <2>2, <3>1, AtIdle
  <2>3. QED
    BY <2>1, <2>2
<1>5. IsDevice(safe')
  BY <1>1 DEF DirSync, IsDevice, StoreInvariant, Shapes
<1>6. Undisturbed' => DeviceTrue'
  <2>1. SUFFICES ASSUME DeviceTrue PROVE DeviceTrue'
    BY <1>1, QuietBudget DEF StoreInvariant
  <2>2. ManifestHolds(dir, man)
    BY <1>2, SomeBase DEF StoreInvariant
  <2>3. /\ safe'.manifest = dir.manifest /\ safe'.older = None /\ safe'.synced = safe.synced
        /\ safe'.files = safe.files \/ safe'.files = dir.files
    BY <1>1, <2>1 DEF DirSync, IsDevice, StoreInvariant, Shapes, DeviceTrue
  <2>4. ManifestHolds(safe', man)
    BY <1>2, <2>1, <2>2, <2>3, HoldsSame DEF DeviceTrue
  <2>5. QED
    BY <1>1, <1>2, <1>3, <2>1, <2>3, <2>4 DEF DeviceTrue
<1>7. QED
  BY <1>1, <1>4, <1>5, <1>6, QuietBudget, DirectoryKept DEF StoreInvariant, Shapes

-----------------------------------------------------------------------------
(* Opening *)

LEMMA DefaultFields ==
    /\ DefaultManifest \in Manifests /\ DefaultManifest.count = 0
    /\ DefaultManifest.segments = <<>> /\ Len(DefaultManifest.segments) = 0
BY EmptySeq DEF DefaultManifest, Manifests

LEMMA InitManifestKeeps ==
    ASSUME NoneIsNoFunction, StoreInvariant, InitManifest
    PROVE  StoreInvariant' /\ auth' = auth
<1> DEFINE new == [DefaultManifest EXCEPT !.id = 1]
           d == [dir EXCEPT !.manifest = new]
<1>1. /\ pc = "initManifest" /\ pc' = "initSync" /\ dir.manifest = None /\ man = DefaultManifest
      /\ job.kind = "open" /\ IsJob(job)
  BY DEF InitManifest, StoreInvariant, WriterTrue
<1>2. /\ man' = new /\ Writes(d) /\ UNCHANGED <<safe, mem, tail, poisoned, job, budget>>
  BY <1>1 DEF InitManifest, Quiet
<1>3. poisoned' = FALSE
  BY <1>1, <1>2, WriterFlags
<1>4. /\ new \in Manifests /\ new.count = 0 /\ Len(new.segments) = 0 /\ new # None
  BY DefaultFields, EmptySeq DEF Manifests, NoneIsNoFunction
<1>5. IsDirectory(dir) /\ DirectoryTrue
  BY DEF StoreInvariant, Shapes
<1>6. IsDirectory(d) /\ d.manifest = new /\ d.hot = dir.hot /\ d.files = dir.files
  BY <1>5 DEF IsDirectory
<1>7. \A b : Stands(DefaultManifest, dir.hot, auth, b) => Stands(new, dir.hot, auth, b)
  BY StandsIdentity
<1>8. \A x : ManifestHolds(x, new)
  BY <1>4 DEF ManifestHolds
<1> HIDE DEF new, d
<1>9. Loaded(d) = new /\ Loaded(dir) = DefaultManifest
  BY <1>1, <1>4, <1>6 DEF Loaded
<1>10. PICK b : Stands(DefaultManifest, dir.hot, auth, b) /\ Len(auth.cps) <= MaxCount
  BY <1>5, <1>9, SomeBase
<1>11. DirectoryTrue' /\ auth' = auth /\ dir' = d
  BY <1>2, <1>6, <1>7, <1>8, <1>9, <1>10, WrittenRecovered
<1>12. WriterTrue'
  BY <1>1, <1>2, <1>3, <1>4, <1>6, <1>11, AtLoading
<1>13. Undisturbed' => DeviceTrue'
  <2>1. SUFFICES ASSUME DeviceTrue PROVE DeviceTrue'
    BY <1>2, QuietBudget DEF StoreInvariant
  <2>2. Stands(DefaultManifest, dir.hot, auth, 0) /\ safe.manifest = None /\ safe.older = None
    BY <1>1, <1>9, <2>1, DefaultFields DEF DeviceTrue
  <2>3. ManifestHolds(safe', AsLoaded(safe'.manifest)) /\ ManifestHolds(safe', AsLoaded(dir'.manifest))
    BY <1>2, <1>4, <1>6, <1>8, <1>11, <2>2, HoldsDefault DEF AsLoaded
  <2>4. Stands(Loaded(dir'), dir'.hot, auth', Loaded(dir').count)
    BY <1>4, <1>6, <1>7, <1>9, <1>11, <2>2
  <2>5. QED
    BY <1>1, <1>2, <1>3, <1>6, <1>11, <2>1, <2>2, <2>3, <2>4 DEF DeviceTrue
<1>14. QED
  BY <1>2, <1>6, <1>11, <1>12, <1>13, QuietBudget DEF StoreInvariant, Shapes

LEMMA InitSyncKeeps ==
    ASSUME NoneIsNoFunction, StoreInvariant, InitSync
    PROVE  StoreInvariant' /\ auth' = auth
<1>1. /\ pc = "initSync" /\ pc' = "materialize" /\ safe' = DirSync
      /\ UNCHANGED <<directory, mem, man, tail, poisoned, job, budget>> /\ dir' = dir /\ auth' = auth
  BY DEF InitSync, Step, Quiet, directory
<1>2. dir.manifest = man /\ man # None /\ job.kind = "open" /\ IsJob(job) /\ poisoned = FALSE
  BY <1>1, WriterFlags DEF StoreInvariant, WriterTrue
<1>3. WriterTrue'
  BY <1>1, <1>2, AtLoading
<1>4. /\ IsDevice(safe') /\ safe'.manifest = dir.manifest /\ safe'.files = dir.files
      /\ safe'.older = None /\ safe'.synced = safe.synced
  BY <1>1 DEF DirSync, IsDevice, StoreInvariant, Shapes
<1>5. Undisturbed' => DeviceTrue'
  <2>1. SUFFICES ASSUME DeviceTrue PROVE DeviceTrue'
    BY <1>1, QuietBudget DEF StoreInvariant
  <2>2. AsLoaded(dir.manifest) = man /\ Loaded(dir) = man
    BY <1>2 DEF AsLoaded, Loaded
  <2>3. ManifestHolds(safe', man)
    BY <1>4, <2>2, SomeBase, HoldsSame DEF StoreInvariant
  <2>4. QED
    BY <1>1, <1>2, <1>4, <2>1, <2>2, <2>3 DEF DeviceTrue
<1>6. QED
  BY <1>1, <1>3, <1>4, <1>5, QuietBudget, DirectoryKept DEF StoreInvariant, Shapes

LEMMA OpenHotKeeps ==
    ASSUME NoneIsNoFunction, StoreInvariant, OpenHot
    PROVE  StoreInvariant' /\ auth' = auth
<1>1. /\ pc = "openHot" /\ pc' = "openLog" /\ UNCHANGED <<mem, man, tail, poisoned, job, budget>>
  BY DEF OpenHot, Step, Quiet
<1>2. Opened /\ poisoned = FALSE
  BY <1>1, WriterFlags DEF StoreInvariant, WriterTrue
<1>3. CASE dir.hot # None
  <2>1. UNCHANGED <<directory, safe>> /\ dir' = dir
    BY <1>3 DEF OpenHot, directory
  <2>2. WriterTrue'
    <3>1. Opened'
      BY <1>1, <1>2, <2>1 DEF Opened
    <3>2. QED
      BY <1>1, <1>2, <1>3, <2>1, <3>1, AtOpening
  <2>3. Undisturbed' => DeviceTrue'
    BY <1>1, <1>2, <2>1, QuietBudget, DeviceKept DEF StoreInvariant, Unsettled
  <2>4. QED
    BY <1>1, <2>1, <2>2, <2>3, QuietBudget, KeptInvariant
<1>4. CASE dir.hot = None
  <2> DEFINE d == [dir EXCEPT !.hot = EmptyLog]
  <2>1. Writes(d) /\ safe' = DirSync
    BY <1>4 DEF OpenHot
  <2>2. EmptyLog # None /\ Len(EmptyLog.txs) = 0
    BY DEF EmptyLog, NoneIsNoFunction
  <2>3. /\ IsDirectory(d) /\ d.hot = EmptyLog /\ d.manifest = dir.manifest /\ d.files = dir.files
    BY DEF StoreInvariant, Shapes, IsDirectory
  <2> HIDE DEF d
  <2>4. Loaded(d) = man /\ Loaded(dir) = man /\ dir.manifest = man /\ AsLoaded(dir.manifest) = man
    BY <1>2, <2>3 DEF Opened, Loaded, AsLoaded
  <2>5. /\ Stands(man, EmptyLog, auth, man.count) /\ ManifestHolds(d, man)
        /\ Len(auth.cps) <= MaxCount /\ ManifestHolds(dir, man)
    <3>1. PICK b : Stands(man, None, auth, b)
      BY <1>4, <2>4, SomeBase DEF StoreInvariant
    <3>2. Stands(man, EmptyLog, auth, man.count)
      BY <3>1, StandsEmpty
    <3>3. ManifestHolds(dir, man) /\ Len(auth.cps) <= MaxCount
      BY <2>4, SomeBase DEF StoreInvariant
    <3>4. QED
      BY <2>3, <3>2, <3>3, HoldsSame
  <2>6. DirectoryTrue' /\ auth' = auth /\ dir' = d
    BY <2>1, <2>3, <2>4, <2>5, WrittenRecovered
  <2>7. WriterTrue'
    <3>1. Opened'
      BY <1>1, <1>2, <2>3, <2>6 DEF Opened
    <3>2. QED
      BY <1>1, <1>2, <2>2, <2>3, <2>6, <3>1, AtOpening
  <2>8. /\ IsDevice(safe') /\ safe'.manifest = dir.manifest /\ safe'.files = dir.files
        /\ safe'.older = None /\ safe'.synced = safe.synced
    BY <2>1 DEF DirSync, IsDevice, StoreInvariant, Shapes
  <2>9. Undisturbed' => DeviceTrue'
    <3>1. SUFFICES ASSUME DeviceTrue PROVE DeviceTrue'
      BY <1>1, QuietBudget DEF StoreInvariant
    <3>2. LogSynced(dir'.hot, safe'.synced)
      BY <1>4, <2>2, <2>3, <2>6, <2>8, <3>1 DEF DeviceTrue, LogSynced
    <3>3. ManifestHolds(safe', man)
      BY <2>5, <2>8, HoldsSame
    <3>4. QED
      BY <1>1, <1>2, <2>3, <2>4, <2>5, <2>6, <2>8, <3>2, <3>3 DEF DeviceTrue
  <2>10. QED
    BY <1>1, <2>3, <2>6, <2>7, <2>8, <2>9, QuietBudget DEF StoreInvariant, Shapes
<1>5. QED
  BY <1>3, <1>4

\* The log is replaced.
LEMMA LogReplaced ==
    ASSUME NoneIsNoFunction, StoreInvariant, NEW h, ReplaceLog(h), dir.manifest = man, man # None,
           Stands(man, h, auth, man.count)
    PROVE  /\ DirectoryTrue' /\ auth' = auth /\ IsDirectory(dir') /\ IsDevice(safe')
           /\ dir'.manifest = dir.manifest /\ dir'.hot = h /\ dir'.files = dir.files
           /\ safe'.manifest = safe.manifest /\ safe'.files = safe.files
           /\ safe'.synced = SyncedByRecycle(Len(h.txs))
           /\ safe.older = None => safe'.older = [hot |-> dir.hot, synced |-> safe.synced]
<1> DEFINE d == [dir EXCEPT !.hot = h]
<1>1. IsDirectory(d) /\ d.manifest = dir.manifest /\ d.hot = h /\ d.files = dir.files
  BY DEF StoreInvariant, Shapes, IsDirectory
<1>2. Writes(d)
  BY DEF ReplaceLog
<1> HIDE DEF d
<1>3. Loaded(d) = man /\ Loaded(dir) = man
  BY <1>1 DEF Loaded
<1>4. ManifestHolds(d, man) /\ Len(auth.cps) <= MaxCount
  BY <1>1, <1>3, SomeBase, HoldsSame DEF StoreInvariant
<1>5. DirectoryTrue' /\ auth' = auth /\ dir' = d
  BY <1>1, <1>2, <1>3, <1>4, WrittenRecovered
<1>6. /\ IsDevice(safe') /\ safe'.manifest = safe.manifest /\ safe'.files = safe.files
      /\ safe'.synced = SyncedByRecycle(Len(h.txs))
      /\ safe.older = None => safe'.older = [hot |-> dir.hot, synced |-> safe.synced]
  <2> DEFINE older == IF safe.older = None THEN [hot |-> dir.hot, synced |-> safe.synced] ELSE safe.older
  <2>1. safe' = [safe EXCEPT !.synced = SyncedByRecycle(Len(h.txs)), !.older = older]
    BY DEF ReplaceLog, StoreInvariant, Shapes, IsDevice
  <2>2. safe.older = None => older = [hot |-> dir.hot, synced |-> safe.synced]
    OBVIOUS
  <2> HIDE DEF older
  <2>3. QED
    BY <2>1, <2>2 DEF StoreInvariant, Shapes, IsDevice
<1>7. QED
  BY <1>1, <1>5, <1>6

LEMMA OpenRecycleKeeps ==
    ASSUME NoneIsNoFunction, StoreInvariant, OpenRecycle
    PROVE  StoreInvariant' /\ auth' = auth /\ ~Undisturbed'
<1> DEFINE k == Overlap(dir.hot, man)
           h == Recycled(dir.hot.txs, k)
<1>1. /\ pc = "openLog" /\ pc' = "openRecycled" /\ k > 0
      /\ ReplaceLog(Recycled(ParsedFrom(dir.hot, PreviousCount(man)), k))
      /\ UNCHANGED <<mem, man, tail, poisoned, job, budget>>
  BY DEF OpenRecycle, Step, Quiet
<1>2. Opened /\ poisoned = FALSE /\ dir.hot # None
  BY <1>1, WriterFlags DEF StoreInvariant, WriterTrue
<1>3. Loaded(dir) = man /\ dir.manifest = man /\ man # None
  BY <1>2 DEF Opened, Loaded
<1>4. PICK b : Stands(man, dir.hot, auth, b)
  BY <1>3, SomeBase DEF StoreInvariant
<1>5. /\ ParsedFrom(dir.hot, PreviousCount(man)) = dir.hot.txs
      /\ k \in 1..Len(dir.hot.txs)
      /\ k = IF man.count - b <= Len(dir.hot.txs) THEN man.count - b ELSE Len(dir.hot.txs)
  BY <1>1, <1>2, <1>4, StandsLog
<1> HIDE DEF k
<1>6. man.count \in Nat /\ b \in Nat /\ Len(dir.hot.txs) \in Nat
  BY <1>2, <1>4, StandsParts
<1>7. k \in Nat /\ k <= Len(dir.hot.txs) /\ (k = man.count - b \/ (k = Len(dir.hot.txs) /\ k <= man.count - b))
  BY <1>5, <1>6
<1>8. h # None /\ Stands(man, h, auth, man.count)
  BY <1>2, <1>4, <1>7, StandsRecycle
<1>9. ReplaceLog(h)
  BY <1>1, <1>5
<1> HIDE DEF h
<1>10. /\ DirectoryTrue' /\ auth' = auth /\ IsDirectory(dir') /\ IsDevice(safe')
       /\ dir'.manifest = dir.manifest /\ dir'.hot = h
  BY <1>3, <1>8, <1>9, LogReplaced
<1>11. WriterTrue'
  <2>1. Opened'
    BY <1>1, <1>2, <1>10 DEF Opened
  <2>2. QED
    BY <1>1, <1>2, <1>8, <1>10, <2>1, AtOpening
<1>12. ~Undisturbed'
  <2>1. SUFFICES ASSUME Undisturbed' PROVE FALSE
    OBVIOUS
  <2>2. Stands(man, dir.hot, auth, man.count)
    BY <1>1, <1>3, <2>1, QuietBudget DEF StoreInvariant, DeviceTrue
  <2>3. k = 0
    BY <1>2, <2>2, StandsLog DEF k
  <2>4. QED
    BY <1>1, <2>3
<1>13. QED
  BY <1>1, <1>10, <1>11, <1>12, QuietBudget DEF StoreInvariant, Shapes

LEMMA OpenRecycleSyncKeeps ==
    ASSUME NoneIsNoFunction, StoreInvariant, OpenRecycleSync
    PROVE  StoreInvariant' /\ auth' = auth /\ ~Undisturbed'
<1>1. /\ pc = "openRecycled" /\ pc' = "openLog" /\ safe' = DirSync
      /\ UNCHANGED <<directory, mem, man, tail, poisoned, job, budget>> /\ dir' = dir /\ auth' = auth
  BY DEF OpenRecycleSync, Step, Quiet, directory
<1>2. Opened /\ poisoned = FALSE /\ dir.hot # None
  BY <1>1, WriterFlags DEF StoreInvariant, WriterTrue
<1>3. WriterTrue'
  <2>1. Opened'
    BY <1>1, <1>2 DEF Opened
  <2>2. QED
    BY <1>1, <1>2, <2>1, AtOpening
<1>4. IsDevice(safe')
  BY <1>1 DEF DirSync, IsDevice, StoreInvariant, Shapes
<1>5. ~Undisturbed'
  BY <1>1, QuietBudget DEF StoreInvariant, DeviceTrue
<1>6. QED
  BY <1>1, <1>3, <1>4, <1>5, QuietBudget, DirectoryKept DEF StoreInvariant, Shapes

-----------------------------------------------------------------------------
(* Records *)

LEMMA WriteRecordKeeps ==
    ASSUME NoneIsNoFunction, StoreInvariant, WriteRecord
    PROVE  /\ StoreInvariant'
           /\ auth = mem /\ mem \in States /\ mem' = mem /\ tail' = tail /\ tail = Len(dir.hot.txs)
           /\ dir.hot # None /\ safe' = safe
           /\ \E c \in Checkpoints :
                 /\ Prepared(c) /\ job.tx = Tx(Len(mem.cps), c)
                 /\ auth' = Applied(mem, <<job.tx>>)
<1> DEFINE x == job.tx
           h == [txs |-> Append(dir.hot.txs, x), torn |-> FALSE]
           d == [dir EXCEPT !.hot = h]
           t == Applied(mem, <<x>>)
<1>1. /\ pc = "write" /\ pc' = "sync"
      /\ Writes([dir EXCEPT !.hot = [txs |-> Append(SubSeq(dir.hot.txs, 1, tail), x), torn |-> FALSE]])
      /\ UNCHANGED <<mem, man, tail, poisoned, job, safe, budget>>
  BY DEF WriteRecord, Step, Quiet
<1>2. Agrees /\ TxTrue /\ poisoned = FALSE
  BY <1>1, WriterFlags DEF StoreInvariant, WriterTrue
<1>3. /\ auth = mem /\ dir.manifest = man /\ dir.hot # None /\ tail = Len(dir.hot.txs)
      /\ Stands(man, dir.hot, mem, man.count)
  BY <1>2 DEF Agrees
<1>4. PICK c \in Checkpoints : Prepared(c) /\ x = Tx(Len(mem.cps), c)
  BY <1>2 DEF TxTrue
<1>5. dir.hot.txs \in Seq(Transactions) /\ mem \in States /\ Len(mem.cps) \in Nat /\ tail \in Nat
  BY <1>3, StandsParts
<1>6. SubSeq(dir.hot.txs, 1, tail) = dir.hot.txs
  BY <1>3, <1>5, SubSeqFull
<1>7. h # None /\ Len(h.txs) = Len(dir.hot.txs) + 1 /\ Stands(man, h, t, man.count)
  <2> DEFINE y == Tx(Len(mem.cps), c)
             g == [txs |-> Append(dir.hot.txs, y), torn |-> FALSE]
  <2>1. Appendable(LiveOf(mem), mem.deleted, c)
    BY <1>4 DEF Prepared
  <2>2. g # None /\ Len(g.txs) = Len(dir.hot.txs) + 1 /\ Stands(man, g, Applied(mem, <<y>>), man.count)
    BY <1>3, <2>1, StandsAppend
  <2>3. x = y
    BY <1>4
  <2> HIDE DEF x, y
  <2>4. QED
    BY <2>2, <2>3
<1>8. Len(t.cps) = Len(mem.cps) + 1 /\ Len(mem.cps) + 1 <= MaxCount
  <2>1. x.cp = c
    BY <1>4 DEF Tx
  <2>2. Len(mem.cps) < MaxCount /\ MaxCount \in Nat
    BY <1>4, StoreAssumption DEF Prepared
  <2> HIDE DEF x
  <2>3. Len(t.cps) = Len(mem.cps) + 1
    BY <1>5, <2>1, AppliedOne
  <2> HIDE DEF t
  <2>4. QED
    BY <1>5, <2>2, <2>3
<1>9. Writes(d)
  BY <1>1, <1>6
<1> HIDE DEF h, t
<1>10. d.manifest = man /\ d.hot = h /\ d.files = dir.files /\ IsDirectory(d)
  BY <1>3 DEF IsDirectory, StoreInvariant, Shapes
<1> HIDE DEF d
<1>11. Loaded(d) = man /\ Loaded(dir) = man /\ AsLoaded(dir.manifest) = man
  BY <1>2, <1>3, <1>10, AgreesLoaded DEF Loaded
<1>12. ManifestHolds(d, man)
  BY <1>10, <1>11, HoldsSame DEF StoreInvariant, DirectoryTrue
<1>13. DirectoryTrue' /\ auth' = t /\ dir' = d
  BY <1>7, <1>8, <1>9, <1>10, <1>11, <1>12, WrittenRecovered
<1>14. Written'
  <2>1. TxTrue'
    BY <1>1, <1>2 DEF TxTrue, Prepared
  <2>2. dir'.manifest = man' /\ dir'.hot = h /\ dir'.hot # None /\ mem' \in States
    BY <1>1, <1>5, <1>7, <1>10, <1>13
  <2>3. auth' = Applied(mem', <<job'.tx>>)
    BY <1>1, <1>13 DEF t
  <2>4. tail' \in Nat /\ tail' + 1 = Len(dir'.hot.txs)
    BY <1>1, <1>3, <1>5, <1>7, <2>2
  <2>5. Stands(man', dir'.hot, auth', man'.count)
    BY <1>1, <1>7, <1>13, <2>2
  <2>6. QED
    BY <2>1, <2>2, <2>3, <2>4, <2>5 DEF Written
<1>15. WriterTrue'
  BY <1>1, <1>2, <1>14, AtSync
<1>16. Undisturbed' => DeviceTrue'
  <2>1. SUFFICES ASSUME Undisturbed' PROVE DeviceTrue'
    OBVIOUS
  <2>2. DeviceTrue
    BY <1>1, <2>1, QuietBudget DEF StoreInvariant
  <2>3. LogSynced(dir'.hot, safe'.synced)
    <3>1. safe.synced \in 0..Len(dir.hot.txs) /\ Len(dir.hot.txs) \in Nat
      BY <1>3, <1>5, <2>2 DEF DeviceTrue, LogSynced
    <3>2. safe.synced \in 0..Len(h.txs)
      BY <1>7, <3>1
    <3>3. QED
      BY <1>1, <1>7, <1>10, <1>13, <3>2 DEF LogSynced
  <2>4. Stands(Loaded(dir'), dir'.hot, auth', Loaded(dir').count)
    BY <1>7, <1>10, <1>11, <1>13
  <2>5. QED
    BY <1>1, <1>2, <1>3, <1>10, <1>13, <2>2, <2>3, <2>4 DEF DeviceTrue
<1>17. IsDirectory(dir') /\ crashes' \in Nat /\ faults' \in Nat
  BY <1>1, <1>10, <1>13, QuietBudget
<1>18. StoreInvariant'
  BY <1>1, <1>13, <1>15, <1>16, <1>17 DEF StoreInvariant, Shapes, IsDevice
<1>19. QED
  BY <1>1, <1>3, <1>4, <1>5, <1>13, <1>18 DEF t

LEMMA WriteRecordFailsKeeps ==
    ASSUME NoneIsNoFunction, StoreInvariant, WriteRecordFails
    PROVE  StoreInvariant' /\ auth' = auth
<1>1. pc = "write" /\ Fault /\ safe' = safe /\ Agrees /\ pc # "idle"
  BY DEF WriteRecordFails, StoreInvariant, WriterTrue
<1>2. CASE UNCHANGED directory /\ (Return \/ Poison)
  BY <1>1, <1>2, FaultKeeps
<1>3. CASE Writes([dir EXCEPT !.hot.torn = TRUE]) /\ Poison
  <2> DEFINE h == [dir.hot EXCEPT !.torn = TRUE]
             d == [dir EXCEPT !.hot = h]
  <2>1. dir.manifest = man /\ dir.hot # None /\ Stands(man, dir.hot, mem, man.count) /\ auth = mem
    BY <1>1 DEF Agrees
  <2>2. h # None /\ Stands(man, h, auth, man.count)
    BY <2>1, StandsTorn
  <2>3. Writes(d)
    BY <1>3
  <2> HIDE DEF h
  <2>4. d.manifest = man /\ d.hot = h /\ d.files = dir.files /\ IsDirectory(d)
    BY <2>1 DEF IsDirectory, StoreInvariant, Shapes
  <2> HIDE DEF d
  <2>5. Loaded(d) = man /\ Loaded(dir) = man
    BY <1>1, <2>1, <2>4, AgreesLoaded DEF Loaded
  <2>6. ManifestHolds(d, man) /\ Len(auth.cps) <= MaxCount
    BY <2>4, <2>5, HoldsSame DEF StoreInvariant, DirectoryTrue
  <2>7. DirectoryTrue' /\ auth' = auth /\ dir' = d
    BY <2>2, <2>3, <2>4, <2>5, <2>6, WrittenRecovered
  <2>8. WriterTrue'
    BY <1>3, AtIdle DEF Poison
  <2>9. QED
    BY <1>1, <2>4, <2>7, <2>8, FaultBudget DEF StoreInvariant, Shapes
<1>4. QED
  BY <1>2, <1>3 DEF WriteRecordFails

LEMMA SyncRecordKeeps ==
    ASSUME NoneIsNoFunction, StoreInvariant, SyncRecord
    PROVE  StoreInvariant' /\ auth' = auth /\ mem' = auth /\ dir' = dir
<1>1. /\ pc = "sync" /\ pc' = "idle" /\ safe' = [safe EXCEPT !.synced = Len(dir.hot.txs)]
      /\ mem' = Applied(mem, <<job.tx>>) /\ tail' = tail + 1
      /\ UNCHANGED <<directory, man, poisoned, budget>> /\ dir' = dir /\ auth' = auth
  BY DEF SyncRecord, directory
<1>2. Written /\ poisoned = FALSE
  BY <1>1, WriterFlags DEF StoreInvariant, WriterTrue
<1>3. Agrees'
  BY <1>1, <1>2 DEF Agrees, Written
<1>4. WriterTrue'
  BY <1>1, <1>2, <1>3, AtIdle
<1>5. IsDevice(safe') /\ safe'.manifest = safe.manifest /\ safe'.files = safe.files
      /\ safe'.synced = Len(dir.hot.txs) /\ safe'.older = safe.older
  BY <1>1 DEF IsDevice, StoreInvariant, Shapes
<1>6. Undisturbed' => DeviceTrue'
  <2>1. SUFFICES ASSUME Undisturbed' PROVE DeviceTrue'
    OBVIOUS
  <2>2. DeviceTrue
    BY <1>1, <2>1, QuietBudget DEF StoreInvariant
  <2>3. dir.hot # None /\ Stands(man, dir.hot, auth, man.count)
    BY <1>2 DEF Written
  <2>4. Len(dir.hot.txs) \in Nat
    BY <2>3, StandsParts
  <2>5. LogSynced(dir'.hot, safe'.synced)
    BY <1>1, <1>5, <2>3, <2>4 DEF LogSynced
  <2>6. ManifestHolds(safe', AsLoaded(safe'.manifest)) /\ ManifestHolds(safe', AsLoaded(dir'.manifest))
    BY <1>1, <1>5, <2>2, HoldsSame DEF DeviceTrue
  <2>7. QED
    BY <1>1, <1>2, <1>5, <2>2, <2>5, <2>6 DEF DeviceTrue
<1>7. QED
  BY <1>1, <1>2, <1>4, <1>5, <1>6, QuietBudget, DirectoryKept DEF StoreInvariant, Shapes, Written

-----------------------------------------------------------------------------
(* The manifest and the recycled log *)

LEMMA ManifestReplaced ==
    ASSUME NEW d, IsDirectory(d), NEW m, NEW x
    PROVE  LET e == [d EXCEPT !.manifest = m, !.tmps = x]
           IN  e.manifest = m /\ e.hot = d.hot /\ e.files = d.files /\ IsDirectory(e)
<1> DEFINE g == [d EXCEPT !.manifest = m]
           e == [g EXCEPT !.tmps = x]
<1>1. IsDirectory(g) /\ g.manifest = m /\ g.files = d.files /\ g.hot = d.hot
  BY DEF IsDirectory
<1>2. e = [d EXCEPT !.manifest = m, !.tmps = x]
  OBVIOUS
<1> HIDE DEF g
<1>3. IsDirectory(e) /\ e.manifest = g.manifest /\ e.files = g.files /\ e.hot = g.hot
  BY <1>1 DEF IsDirectory
<1> HIDE DEF e
<1>4. QED
  BY <1>1, <1>2, <1>3

LEMMA RenameManifestKeeps ==
    ASSUME NoneIsNoFunction, StoreInvariant, RenameManifest
    PROVE  /\ StoreInvariant'
           /\ auth = mem /\ mem' = mem /\ mem \in States /\ job.state \in States /\ auth' = job.state
           /\ dir'.hot = dir.hot /\ safe' = safe
           /\ Deletes(mem, job.state) \/ job.state = mem
<1> DEFINE d == [dir EXCEPT !.manifest = job.manifest, !.tmps = dir.tmps \ {"manifest"}]
<1>1. /\ pc = "publishManifest" /\ pc' = "syncManifest" /\ Writes(d)
      /\ UNCHANGED <<mem, man, tail, poisoned, job, safe, budget>>
  BY DEF RenameManifest, Step, Quiet
<1>2. IsJob(job) /\ Agrees /\ JobTrue /\ poisoned = FALSE /\ ManifestHolds(dir, job.manifest)
  BY <1>1, StagingFacts DEF StoreInvariant, WriterTrue, Staging
<1>3. /\ auth = mem /\ dir.manifest = man /\ dir.hot # None /\ tail = Len(dir.hot.txs)
      /\ Stands(man, dir.hot, mem, man.count)
  BY <1>2 DEF Agrees
<1>4. /\ Stands(job.manifest, dir.hot, job.state, job.manifest.count - job.drop)
      /\ Len(job.state.cps) <= MaxCount
  BY <1>2 DEF JobTrue
<1>5. job.manifest \in Manifests /\ job.manifest # None /\ job.state \in States /\ mem \in States
  BY <1>3, <1>4, StandsParts, ManifestIsSome
<1>6. d.manifest = job.manifest /\ d.hot = dir.hot /\ d.files = dir.files /\ IsDirectory(d)
  BY ManifestReplaced DEF StoreInvariant, Shapes
<1> HIDE DEF d
<1>7. Loaded(d) = job.manifest /\ AsLoaded(d.manifest) = job.manifest
  BY <1>5, <1>6 DEF Loaded, AsLoaded
<1>8. ManifestHolds(d, job.manifest)
  BY <1>2, <1>6, HoldsSame
<1>9. DirectoryTrue' /\ auth' = job.state /\ dir' = d
  BY <1>1, <1>4, <1>6, <1>7, <1>8, WrittenRecovered
<1>10. Loaded(dir) = man /\ AsLoaded(dir.manifest) = man
  BY <1>2, AgreesLoaded
<1>11. Renamed'
  <2>1. JobTrue'
    BY <1>1, <1>2, <1>6, <1>9, JobSame
  <2>2. dir'.manifest = job'.manifest /\ auth' = job'.state /\ dir'.hot = dir.hot /\ dir'.hot # None
    BY <1>1, <1>3, <1>6, <1>9
  <2>3. Len(mem.cps) <= MaxCount /\ ManifestHolds(dir, man)
    BY <1>3, <1>10, SomeBase DEF StoreInvariant
  <2>4. ManifestHolds(dir', man)
    BY <1>6, <1>9, <2>3, HoldsSame
  <2>5. QED
    BY <1>1, <1>3, <2>1, <2>2, <2>3, <2>4 DEF Renamed
<1>12. WriterTrue'
  BY <1>1, <1>2, <1>11, AtPublished
<1>13. Undisturbed' => DeviceTrue'
  <2>1. SUFFICES ASSUME Undisturbed' PROVE DeviceTrue'
    OBVIOUS
  <2>2. DeviceTrue
    BY <1>1, <2>1, QuietBudget DEF StoreInvariant
  <2>3. safe'.manifest = man' /\ safe'.older = None
    BY <1>1, <1>3, <2>2 DEF DeviceTrue
  <2>4. ManifestHolds(safe', AsLoaded(safe'.manifest)) /\ ManifestHolds(safe', AsLoaded(dir'.manifest))
    BY <1>1, <1>6, <1>7, <1>9, <2>2 DEF DeviceTrue
  <2>5. LogSynced(dir'.hot, safe'.synced)
    BY <1>1, <1>6, <1>9, <2>2 DEF DeviceTrue
  <2>6. QED
    BY <1>1, <1>2, <2>3, <2>4, <2>5 DEF DeviceTrue
<1>14. IsDirectory(dir') /\ crashes' \in Nat /\ faults' \in Nat
  BY <1>1, <1>6, <1>9, QuietBudget
<1>15. StoreInvariant'
  BY <1>1, <1>9, <1>12, <1>13, <1>14 DEF StoreInvariant, Shapes, IsDevice
<1>16. Deletes(mem, job.state) \/ job.state = mem
  BY <1>2 DEF JobTrue
<1>17. QED
  BY <1>1, <1>3, <1>5, <1>6, <1>9, <1>15, <1>16

\* A directory sync leaves only unsynced records to lose.
LEMMA DirSynced ==
    ASSUME NoneIsNoFunction, StoreInvariant, safe' = DirSync, dir' = dir
    PROVE  /\ IsDevice(safe') /\ safe'.manifest = dir.manifest /\ safe'.files = dir.files
           /\ safe'.synced = safe.synced /\ safe'.older = None
           /\ ManifestHolds(safe', AsLoaded(safe'.manifest))
           /\ ManifestHolds(safe', AsLoaded(dir'.manifest))
<1>1. /\ IsDevice(safe') /\ safe'.manifest = dir.manifest /\ safe'.files = dir.files
      /\ safe'.synced = safe.synced /\ safe'.older = None
  BY DEF DirSync, IsDevice, StoreInvariant, Shapes
<1>2. ManifestHolds(dir, AsLoaded(dir.manifest))
  BY DEF StoreInvariant, DirectoryTrue, Loaded, AsLoaded
<1>3. ManifestHolds(safe', AsLoaded(dir.manifest))
  BY <1>1, <1>2, HoldsSame
<1>4. QED
  BY <1>1, <1>3

LEMMA SyncManifestKeeps ==
    ASSUME NoneIsNoFunction, StoreInvariant, SyncManifest
    PROVE  StoreInvariant' /\ auth' = auth
<1>1. /\ pc = "syncManifest" /\ safe' = DirSync /\ man' = job.manifest /\ mem' = job.state
      /\ UNCHANGED <<directory, tail, poisoned, budget>> /\ dir' = dir /\ auth' = auth
  BY DEF SyncManifest, Quiet, directory
<1>2. IsJob(job) /\ Renamed /\ poisoned = FALSE
  BY <1>1, WriterFlags DEF StoreInvariant, WriterTrue
<1>3. /\ JobTrue /\ dir.manifest = job.manifest /\ auth = job.state
      /\ dir.hot # None /\ tail = Len(dir.hot.txs)
  BY <1>2 DEF Renamed
<1>4. /\ Stands(job.manifest, dir.hot, job.state, job.manifest.count - job.drop)
      /\ job.kind \in {"seal", "prune", "reidentify"}
  BY <1>3 DEF JobTrue
<1>5. job.manifest \in Manifests /\ job.manifest.count \in Nat /\ job.manifest # None
  BY <1>4, StandsParts, ManifestIsSome
<1>6. job.drop = 0 => Agrees'
  <2>1. ASSUME job.drop = 0 PROVE Agrees'
    <3>1. job.manifest.count - job.drop = job.manifest.count
      BY <1>5, <2>1
    <3>2. QED
      BY <1>1, <1>3, <1>4, <3>1 DEF Agrees
  <2>2. QED
    BY <2>1
<1>7. Loaded(dir) = man'
  BY <1>1, <1>3, <1>5 DEF Loaded
<1>8. ASSUME Undisturbed', pc' \in {"recycle", "reclaim", "idle"}, pc' # "recycle" => Agrees'
      PROVE  DeviceTrue'
  <2>1. DeviceTrue
    BY <1>1, <1>8, QuietBudget DEF StoreInvariant
  <2>2. LogSynced(dir'.hot, safe'.synced)
    BY <1>1, <2>1, DirSynced DEF DeviceTrue
  <2>3. pc' # "recycle" => Stands(Loaded(dir'), dir'.hot, auth', Loaded(dir').count)
    BY <1>1, <1>7, <1>8 DEF Agrees
  <2>4. QED
    BY <1>1, <1>2, <1>8, <2>2, <2>3, DirSynced DEF DeviceTrue
<1>9. CASE job.kind = "seal"
  <2>1. pc' = "recycle" /\ job' = job
    BY <1>9 DEF SyncManifest
  <2>2. job.drop \in 1..tail /\ job.state = mem /\ (job.tx = None \/ TxTrue)
    BY <1>3, <1>9 DEF JobTrue
  <2>3. job'.tx = None \/ TxTrue'
    BY <1>1, <2>1, <2>2 DEF TxTrue, Prepared
  <2>4. Sealed'
    BY <1>1, <1>3, <1>4, <2>1, <2>2, <2>3 DEF Sealed
  <2>5. WriterTrue'
    BY <1>1, <1>2, <2>1, <2>4, AtPublished
  <2>6. Undisturbed' => DeviceTrue'
    BY <1>8, <2>1
  <2>7. QED
    BY <1>1, <2>5, <2>6, DirSynced, DirectoryKept, QuietBudget DEF StoreInvariant, Shapes
<1>10. CASE job.kind = "prune"
  <2>1. pc' = "reclaim" /\ job' = job
    BY <1>10 DEF SyncManifest
  <2>2. Agrees'
    BY <1>3, <1>6, <1>10 DEF JobTrue
  <2>3. WriterTrue'
    BY <1>1, <1>2, <1>10, <2>1, <2>2, AtReclaim
  <2>4. Undisturbed' => DeviceTrue'
    BY <1>8, <2>1, <2>2
  <2>5. QED
    BY <1>1, <2>3, <2>4, DirSynced, DirectoryKept, QuietBudget DEF StoreInvariant, Shapes
<1>11. CASE job.kind = "reidentify"
  <2>1. pc' = "idle"
    BY <1>11 DEF SyncManifest
  <2>2. Agrees'
    BY <1>3, <1>6, <1>11 DEF JobTrue
  <2>3. WriterTrue'
    BY <1>1, <1>2, <2>1, <2>2, AtIdle
  <2>4. Undisturbed' => DeviceTrue'
    BY <1>8, <2>1, <2>2
  <2>5. QED
    BY <1>1, <2>3, <2>4, DirSynced, DirectoryKept, QuietBudget DEF StoreInvariant, Shapes
<1>12. QED
  BY <1>4, <1>9, <1>10, <1>11

LEMMA RecycleKeeps ==
    ASSUME NoneIsNoFunction, StoreInvariant, Recycle
    PROVE  /\ StoreInvariant' /\ auth' = auth
           /\ dir'.hot # None /\ Len(dir'.hot.txs) \in 0..MaxCount - 1
           /\ safe'.synced = SyncedByRecycle(Len(dir'.hot.txs))
           /\ safe.older = None => safe'.older = [hot |-> dir.hot, synced |-> safe.synced]
<1> DEFINE k == job.drop
           h == Recycled(dir.hot.txs, k)
<1>1. /\ pc = "recycle" /\ pc' = "recycled"
      /\ ReplaceLog(Recycled(SubSeq(dir.hot.txs, 1, tail), k))
      /\ UNCHANGED <<mem, man, tail, poisoned, job, budget>>
  BY DEF Recycle, Step, Quiet
<1>2. Sealed /\ poisoned = FALSE
  BY <1>1, WriterFlags DEF StoreInvariant, WriterTrue
<1>3. /\ dir.manifest = man /\ auth = mem /\ dir.hot # None /\ tail = Len(dir.hot.txs)
      /\ k \in 1..tail /\ Stands(man, dir.hot, mem, man.count - k) /\ (job.tx = None \/ TxTrue)
  BY <1>2 DEF Sealed
<1>4. /\ dir.hot.txs \in Seq(Transactions) /\ man \in Manifests /\ man.count \in Nat /\ tail \in Nat
      /\ man.count - k \in Nat /\ man.count - k + tail <= Len(mem.cps) /\ Len(mem.cps) \in Nat
  BY <1>3, StandsParts
<1>5. SubSeq(dir.hot.txs, 1, tail) = dir.hot.txs /\ man # None
  BY <1>3, <1>4, SubSeqFull, ManifestIsSome
<1>6. k \in Nat /\ k <= Len(dir.hot.txs) /\ k = man.count - (man.count - k)
  BY <1>3, <1>4
<1>7. h # None /\ Len(h.txs) = tail - k /\ Stands(man, h, auth, man.count)
  BY <1>3, <1>6, StandsRecycle
<1>8. ReplaceLog(h)
  BY <1>1, <1>5
<1> HIDE DEF h
<1>9. /\ DirectoryTrue' /\ auth' = auth /\ IsDirectory(dir') /\ IsDevice(safe')
      /\ dir'.manifest = dir.manifest /\ dir'.hot = h /\ dir'.files = dir.files
      /\ safe'.manifest = safe.manifest /\ safe'.files = safe.files
      /\ safe'.synced = SyncedByRecycle(Len(h.txs))
      /\ safe.older = None => safe'.older = [hot |-> dir.hot, synced |-> safe.synced]
  BY <1>3, <1>5, <1>7, <1>8, LogReplaced
<1>10. RecycledLog'
  <2>1. job'.tx = None \/ TxTrue'
    BY <1>1, <1>3 DEF TxTrue, Prepared
  <2>2. QED
    BY <1>1, <1>3, <1>7, <1>9, <2>1 DEF RecycledLog
<1>11. WriterTrue'
  BY <1>1, <1>2, <1>10, AtPublished
<1>12. Undisturbed' => DeviceTrue'
  <2>1. SUFFICES ASSUME Undisturbed' PROVE DeviceTrue'
    OBVIOUS
  <2>2. DeviceTrue
    BY <1>1, <2>1, QuietBudget DEF StoreInvariant
  <2>3. LogSynced(dir'.hot, safe'.synced)
    <3>1. Len(h.txs) \in Nat
      BY <1>7, <1>3, <1>4
    <3>2. SyncedByRecycle(Len(h.txs)) \in 0..Len(h.txs)
      BY <3>1 DEF SyncedByRecycle
    <3>3. QED
      BY <1>7, <1>9, <3>2 DEF LogSynced
  <2>4. safe'.older = [hot |-> dir.hot, synced |-> safe.synced]
    BY <1>1, <1>9, <2>2 DEF DeviceTrue
  <2>5. OlderTrue'
    <3>1. safe'.older.hot = dir.hot /\ safe'.older.synced = safe.synced
      BY <2>4
    <3>2. LogSynced(dir.hot, safe.synced)
      BY <2>2 DEF DeviceTrue
    <3>3. QED
      BY <1>1, <1>3, <3>1, <3>2 DEF OlderTrue
  <2>6. Loaded(dir') = man
    BY <1>3, <1>5, <1>9 DEF Loaded
  <2>7. Stands(Loaded(dir'), dir'.hot, auth', Loaded(dir').count)
    BY <1>7, <1>9, <2>6
  <2>8. ManifestHolds(safe', AsLoaded(safe'.manifest)) /\ ManifestHolds(safe', AsLoaded(dir'.manifest))
    BY <1>9, <2>2, HoldsSame DEF DeviceTrue
  <2>9. safe'.manifest = dir'.manifest
    BY <1>1, <1>9, <2>2 DEF DeviceTrue
  <2>10. QED
    BY <1>1, <1>2, <2>3, <2>5, <2>7, <2>8, <2>9 DEF DeviceTrue
<1>13. StoreInvariant'
  BY <1>1, <1>9, <1>11, <1>12, QuietBudget DEF StoreInvariant, Shapes
<1>14. Len(h.txs) \in 0..MaxCount - 1
  <2>1. Len(mem.cps) <= MaxCount /\ MaxCount \in Nat
    BY <1>3, SomeBase, StoreAssumption DEF StoreInvariant
  <2>2. /\ k \in Nat /\ 1 <= k /\ k <= tail /\ tail \in Nat
        /\ man.count - k \in Nat /\ man.count - k + tail <= MaxCount /\ man.count \in Nat
    BY <1>3, <1>4, <2>1
  <2>3. tail - k \in Nat /\ tail - k <= MaxCount - 1
    <3> HIDE DEF k
    <3>1. QED
      BY <2>1, <2>2
  <2>4. QED
    BY <1>7, <2>1, <2>3
<1>15. QED
  BY <1>7, <1>9, <1>13, <1>14

LEMMA RecycleSyncKeeps ==
    ASSUME NoneIsNoFunction, StoreInvariant, RecycleSync
    PROVE  StoreInvariant' /\ auth' = auth
<1>1. /\ pc = "recycled" /\ safe' = DirSync /\ tail' = tail - job.drop
      /\ UNCHANGED <<directory, mem, man, poisoned, budget>> /\ dir' = dir /\ auth' = auth
  BY DEF RecycleSync, Quiet, directory
<1>2. RecycledLog /\ poisoned = FALSE
  BY <1>1, WriterFlags DEF StoreInvariant, WriterTrue
<1>3. Agrees'
  BY <1>1, <1>2 DEF RecycledLog, Agrees
<1>4. pc' \in {"idle", "write"}
  BY DEF RecycleSync
<1>5. WriterTrue'
  <2>1. CASE job.tx = None
    <3>1. pc' = "idle"
      BY <2>1 DEF RecycleSync
    <3>2. QED
      BY <1>1, <1>2, <1>3, <3>1, AtIdle
  <2>2. CASE job.tx # None
    <3>1. pc' = "write" /\ job' = [Job("append") EXCEPT !.tx = job.tx]
      BY <2>2 DEF RecycleSync
    <3>2. job'.tx = job.tx
      BY <3>1 DEF Job
    <3>3. TxTrue
      BY <1>2, <2>2 DEF RecycledLog
    <3>4. TxTrue'
      BY <1>1, <3>2, <3>3 DEF TxTrue, Prepared
    <3>5. QED
      BY <1>1, <1>2, <1>3, <3>1, <3>4, AtWrite
  <2>3. QED
    BY <2>1, <2>2
<1>6. Undisturbed' => DeviceTrue'
  <2>1. SUFFICES ASSUME Undisturbed' PROVE DeviceTrue'
    OBVIOUS
  <2>2. DeviceTrue
    BY <1>1, <2>1, QuietBudget DEF StoreInvariant
  <2>3. LogSynced(dir'.hot, safe'.synced)
    BY <1>1, <2>2, DirSynced DEF DeviceTrue
  <2>4. Stands(Loaded(dir'), dir'.hot, auth', Loaded(dir').count)
    BY <1>1, <2>2 DEF DeviceTrue
  <2>5. QED
    BY <1>1, <1>2, <1>4, <2>3, <2>4, DirSynced DEF DeviceTrue
<1>7. QED
  BY <1>1, <1>5, <1>6, DirSynced, DirectoryKept, QuietBudget DEF StoreInvariant, Shapes

-----------------------------------------------------------------------------
(* Power loss *)

\* u is what is left of s when n records of the log hot, which begins after b
\* checkpoints, are on the device.
Cut(u, s, hot, b, n) ==
    \E k \in 0..Len(s.cps) :
        /\ u = Prefix(s, k)
        /\ hot = None => k = Len(s.cps)
        /\ hot # None => k >= b + n
        /\ hot # None /\ n = Len(hot.txs) => k = Len(s.cps)

\* Manifest m, log hot and its n synced records may be what the device has;
\* together they are about state s.
OnDevice(m, s, hot, b, n) ==
    /\ Stands(AsLoaded(m), hot, s, b) /\ Len(s.cps) <= MaxCount /\ LogSynced(hot, n)
    /\ s = auth \/ (s = mem /\ pc = "syncManifest")
    /\ \/ hot = dir.hot /\ n = safe.synced
       \/ safe.older # None /\ hot = safe.older.hot /\ n = safe.older.synced /\ pc = "recycled"
    /\ pc = "sync" => b = man.count

LEMMA CutStands ==
    ASSUME NoneIsNoFunction, NEW m, NEW hot, NEW s, NEW b, NEW n, NEW h \in LogLeft(hot, n),
           Stands(m, hot, s, b), LogSynced(hot, n)
    PROVE  \E u : Stands(m, h, u, b) /\ Cut(u, s, hot, b, n) /\ Len(u.cps) <= Len(s.cps)
<1>1. s \in States /\ s.cps \in Seq(Checkpoints) /\ Len(s.cps) \in Nat
  BY StandsParts
<1>2. CASE hot = None
  <2>1. h = None
    BY <1>2 DEF LogLeft
  <2>2. s = Prefix(s, Len(s.cps))
    <3>1. SubSeq(s.cps, 1, Len(s.cps)) = s.cps
      BY <1>1, SubSeqFull
    <3>2. QED
      BY <1>1, <3>1 DEF States, Prefix
  <2>3. Len(s.cps) \in 0..Len(s.cps) /\ Len(s.cps) <= Len(s.cps)
    BY <1>1
  <2>4. Cut(s, s, hot, b, n)
    BY <1>2, <2>2, <2>3 DEF Cut
  <2>5. QED
    BY <1>2, <2>1, <2>3, <2>4
<1>3. CASE hot # None
  <2>1. hot \in Logs /\ Len(hot.txs) \in Nat /\ b \in Nat /\ m.count \in Nat /\ m.count <= Len(s.cps)
        /\ Len(s.cps) = Reach(m, hot, b)
    BY <1>3, StandsParts
  <2>2. n \in 0..Len(hot.txs) /\ hot.torn \in BOOLEAN
    BY <1>3, <2>1 DEF LogSynced, Logs
  <2>3. PICK j \in 0..Len(hot.txs), torn \in BOOLEAN :
           n <= j /\ h = [txs |-> SubSeq(hot.txs, 1, j), torn |-> torn]
    <3>1. {FALSE, hot.torn \/ n < Len(hot.txs)} \subseteq BOOLEAN
      BY <2>2, Zenon
    <3>2. \A j \in n..Len(hot.txs) : j \in 0..Len(hot.txs) /\ n <= j
      BY <2>1, <2>2
    <3>3. \E j \in n..Len(hot.txs), torn \in {FALSE, hot.torn \/ n < Len(hot.txs)} :
             h = [txs |-> SubSeq(hot.txs, 1, j), torn |-> torn]
      BY <1>3 DEF LogLeft
    <3>4. QED
      BY <3>1, <3>2, <3>3, Zenon
  <2>4. j \in 0..Len(hot.txs) /\ torn \in BOOLEAN
    BY <2>3
  <2> DEFINE k == UpTo(b, j, m.count)
             u == Prefix(s, k)
  <2>5. k \in 0..Len(s.cps) /\ Len(u.cps) = k /\ Stands(m, h, u, b)
    <3>1. SubSeq(hot.txs, 1, j) \in Seq(Transactions)
      <4>1. hot.txs \in Seq(Transactions) /\ j \in Nat /\ \A i \in 1..j : i \in 1..Len(hot.txs)
        BY <1>3, <2>1, <2>4, StandsParts
      <4>2. \A i \in 1..j : hot.txs[i] \in Transactions
        BY <4>1, ElementOfSeq
      <4>3. QED
        BY <4>1, <4>2, SubSeqProperties
    <3>2. h \in Logs /\ h.txs = SubSeq(hot.txs, 1, j)
      <4> DEFINE q == SubSeq(hot.txs, 1, j)
      <4>1. h = [txs |-> q, torn |-> torn]
        BY <2>3
      <4> HIDE DEF q
      <4>2. h.txs = q
        BY <4>1
      <4>3. h \in Logs
        BY <2>4, <3>1, <4>1 DEF Logs, q
      <4>4. QED
        BY <4>2, <4>3 DEF q
    <3>3. QED
      BY <1>3, <2>4, <3>2, StandsLost
  <2>6. k >= b + n
    BY <2>1, <2>2, <2>3 DEF UpTo
  <2>7. n = Len(hot.txs) => k = Len(s.cps)
    <3>1. Len(s.cps) = IF b + Len(hot.txs) > m.count THEN b + Len(hot.txs) ELSE m.count
      BY <1>3, <2>1 DEF Reach
    <3>2. n = Len(hot.txs) => j = Len(hot.txs)
      BY <2>1, <2>3
    <3>3. QED
      BY <3>1, <3>2 DEF UpTo
  <2> HIDE DEF k
  <2>8. Cut(u, s, hot, b, n)
    BY <1>3, <2>5, <2>6, <2>7 DEF Cut
  <2> HIDE DEF u
  <2>9. Len(u.cps) <= Len(s.cps)
    BY <1>1, <2>5
  <2>10. QED
    BY <2>5, <2>8, <2>9
<1>4. QED
  BY <1>2, <1>3

\* Whatever manifest and log the device may have belong together.
LEMMA DeviceCandidates ==
    ASSUME NoneIsNoFunction, StoreInvariant, Undisturbed, NEW m \in {safe.manifest, dir.manifest},
           NEW h \in LogLeft(dir.hot, safe.synced)
                       \cup (IF safe.older = None THEN {}
                             ELSE LogLeft(safe.older.hot, safe.older.synced))
    PROVE  /\ ManifestHolds(dir, AsLoaded(m)) /\ ManifestHolds(safe, AsLoaded(m))
           /\ \E s, hot, b, n : OnDevice(m, s, hot, b, n) /\ h \in LogLeft(hot, n)
<1>1. DeviceTrue /\ DirectoryTrue /\ WriterTrue
  BY DEF StoreInvariant
<1>2. Loaded(dir) = AsLoaded(dir.manifest)
  BY DEF Loaded, AsLoaded
<1>3. PICK b0 : Stands(AsLoaded(dir.manifest), dir.hot, auth, b0) /\ (pc = "sync" => b0 = man.count)
  <2>1. CASE pc = "sync"
    <3>1. Written
      BY <1>1, <2>1 DEF WriterTrue
    <3>2. Stands(man, dir.hot, auth, man.count) /\ dir.manifest = man
      BY <3>1 DEF Written
    <3>3. AsLoaded(man) = man
      BY <3>2, StandsParts, ManifestIsSome DEF AsLoaded
    <3>4. QED
      BY <2>1, <3>2, <3>3
  <2>2. CASE pc # "sync"
    BY <1>1, <1>2, <2>2, SomeBase
  <2>3. QED
    BY <2>1, <2>2
<1>4. /\ ManifestHolds(dir, AsLoaded(dir.manifest)) /\ ManifestHolds(safe, AsLoaded(dir.manifest))
      /\ ManifestHolds(safe, AsLoaded(safe.manifest)) /\ Len(auth.cps) <= MaxCount
      /\ LogSynced(dir.hot, safe.synced)
  BY <1>1, <1>2 DEF DeviceTrue, DirectoryTrue
<1>5. CASE m = dir.manifest /\ h \in LogLeft(dir.hot, safe.synced)
  <2>1. OnDevice(m, auth, dir.hot, b0, safe.synced)
    BY <1>3, <1>4, <1>5 DEF OnDevice
  <2>2. QED
    BY <1>4, <1>5, <2>1
<1>6. CASE m = dir.manifest /\ h \notin LogLeft(dir.hot, safe.synced)
  <2>1. safe.older # None /\ h \in LogLeft(safe.older.hot, safe.older.synced)
    BY <1>6
  <2>2. pc = "recycled" /\ OlderTrue
    BY <1>1, <2>1 DEF DeviceTrue
  <2>3. RecycledLog
    BY <1>1, <2>2 DEF WriterTrue
  <2>4. /\ Stands(man, safe.older.hot, mem, man.count - job.drop) /\ dir.manifest = man /\ auth = mem
        /\ LogSynced(safe.older.hot, safe.older.synced)
    BY <2>2, <2>3 DEF OlderTrue, RecycledLog
  <2>5. AsLoaded(m) = man
    BY <1>6, <2>4, StandsParts, ManifestIsSome DEF AsLoaded
  <2>6. OnDevice(m, auth, safe.older.hot, man.count - job.drop, safe.older.synced)
    BY <1>4, <2>1, <2>2, <2>4, <2>5 DEF OnDevice
  <2>7. QED
    BY <1>4, <1>6, <2>1, <2>6
<1>7. CASE m # dir.manifest
  <2>1. m = safe.manifest /\ pc \in {"initSync", "syncManifest"}
    BY <1>1, <1>7 DEF DeviceTrue
  <2>2. h \in LogLeft(dir.hot, safe.synced)
    BY <1>1, <2>1 DEF DeviceTrue
  <2>3. CASE pc = "initSync"
    <3>1. m = None /\ Stands(DefaultManifest, dir.hot, auth, 0)
      BY <1>1, <2>1, <2>3 DEF DeviceTrue
    <3>2. AsLoaded(m) = DefaultManifest
      BY <3>1 DEF AsLoaded
    <3>3. OnDevice(m, auth, dir.hot, 0, safe.synced)
      BY <1>4, <2>3, <3>1, <3>2 DEF OnDevice
    <3>4. ManifestHolds(dir, AsLoaded(m))
      BY <3>2, HoldsDefault
    <3>5. QED
      BY <1>4, <2>1, <2>2, <3>3, <3>4
  <2>4. CASE pc = "syncManifest"
    <3>1. Renamed /\ m = man
      BY <1>1, <2>1, <2>4 DEF DeviceTrue, WriterTrue
    <3>2. Stands(man, dir.hot, mem, man.count) /\ Len(mem.cps) <= MaxCount /\ ManifestHolds(dir, man)
      BY <3>1 DEF Renamed
    <3>3. AsLoaded(m) = man
      BY <3>1, <3>2, StandsParts, ManifestIsSome DEF AsLoaded
    <3>4. OnDevice(m, mem, dir.hot, man.count, safe.synced)
      BY <1>4, <2>4, <3>2, <3>3 DEF OnDevice
    <3>5. QED
      BY <1>4, <2>1, <2>2, <3>2, <3>3, <3>4
  <2>5. QED
    BY <2>1, <2>3, <2>4
<1>8. QED
  BY <1>5, <1>6, <1>7

LEMMA DirectoryReplaced ==
    ASSUME NEW d, IsDirectory(d), NEW m, NEW f, NEW h
    PROVE  LET e == [d EXCEPT !.manifest = m, !.files = f, !.hot = h]
           IN  e.manifest = m /\ e.hot = h /\ e.files = f /\ IsDirectory(e)
<1> DEFINE g1 == [d EXCEPT !.manifest = m]
           g2 == [g1 EXCEPT !.files = f]
           e == [g2 EXCEPT !.hot = h]
<1>1. e = [d EXCEPT !.manifest = m, !.files = f, !.hot = h]
  OBVIOUS
<1>2. IsDirectory(g1) /\ g1.manifest = m
  BY DEF IsDirectory
<1> HIDE DEF g1
<1>3. IsDirectory(g2) /\ g2.manifest = g1.manifest /\ g2.files = f
  BY <1>2 DEF IsDirectory
<1> HIDE DEF g2
<1>4. IsDirectory(e) /\ e.manifest = g2.manifest /\ e.files = g2.files /\ e.hot = h
  BY <1>3 DEF IsDirectory
<1> HIDE DEF e
<1>5. QED
  BY <1>1, <1>2, <1>3, <1>4

LEMMA PowerLossKeeps ==
    ASSUME NoneIsNoFunction, StoreInvariant, PowerLoss
    PROVE  /\ StoreInvariant' /\ Undisturbed
           /\ \E m, s, hot, b, n : OnDevice(m, s, hot, b, n) /\ Cut(auth', s, hot, b, n)
<1>1. Undisturbed /\ crashes' \in Nat /\ faults' \in Nat /\ ~Undisturbed'
  <2>1. crashes = 0 /\ faults = 0 /\ crashes < MaxCrashes /\ crashes' = MaxCrashes /\ faults' = MaxFaults
    BY DEF PowerLoss
  <2>2. QED
    BY <2>1, StoreAssumption DEF Undisturbed
<1>2. PICK m \in {safe.manifest, dir.manifest}, files \in FilesLeft,
           h \in LogLeft(dir.hot, safe.synced)
                    \cup (IF safe.older = None THEN {}
                          ELSE LogLeft(safe.older.hot, safe.older.synced)) :
           Writes([dir EXCEPT !.manifest = m, !.files = files, !.hot = h])
  BY DEF PowerLoss
<1> DEFINE d == [dir EXCEPT !.manifest = m, !.files = files, !.hot = h]
<1>3. d.manifest = m /\ d.hot = h /\ d.files = files /\ IsDirectory(d)
  BY DirectoryReplaced DEF StoreInvariant, Shapes
<1>4. Writes(d)
  BY <1>2
<1> HIDE DEF d
<1>5. ManifestHolds(dir, AsLoaded(m)) /\ ManifestHolds(safe, AsLoaded(m))
  BY <1>1, <1>2, DeviceCandidates
<1>6. PICK s, hot, b, n : OnDevice(m, s, hot, b, n) /\ h \in LogLeft(hot, n)
  BY <1>1, <1>2, DeviceCandidates
<1>7. /\ Stands(AsLoaded(m), hot, s, b) /\ LogSynced(hot, n) /\ Len(s.cps) <= MaxCount
      /\ Len(s.cps) \in Nat /\ MaxCount \in Nat
  BY <1>6, StandsParts, StoreAssumption DEF OnDevice
<1>8. PICK u : Stands(AsLoaded(m), h, u, b) /\ Cut(u, s, hot, b, n) /\ Len(u.cps) <= Len(s.cps)
  BY <1>6, <1>7, CutStands
<1>9. Len(u.cps) <= MaxCount
  <2>1. Len(u.cps) \in Nat
    BY <1>8, StandsParts
  <2>2. QED
    BY <1>7, <1>8, <2>1
<1>10. Loaded(d) = AsLoaded(m)
  BY <1>3 DEF Loaded, AsLoaded
<1>11. ManifestHolds(d, AsLoaded(m))
  BY <1>2, <1>3, <1>5, HoldsLeft
<1>12. DirectoryTrue' /\ auth' = u /\ dir' = d
  BY <1>3, <1>4, <1>8, <1>9, <1>10, <1>11, WrittenRecovered
<1>13. WriterTrue'
  BY AtClosed DEF PowerLoss, Stop
<1>14. IsDevice(safe')
  BY DEF PowerLoss, IsDevice
<1>15. StoreInvariant'
  BY <1>1, <1>3, <1>12, <1>13, <1>14 DEF StoreInvariant, Shapes
<1>16. QED
  BY <1>1, <1>6, <1>8, <1>12, <1>15

-----------------------------------------------------------------------------
(* Keys of a state *)

LEMMA LiveTyped ==
    ASSUME NEW s \in States
    PROVE  LiveOf(s) \subseteq Checkpoints /\ KeysOf(LiveOf(s)) \subseteq Keys
<1>1. s.cps \in Seq(Checkpoints)
  BY DEF States
<1>2. \A i \in 1..Len(s.cps) : s.cps[i] \in Checkpoints
  BY <1>1, ElementOfSeq
<1>3. LiveOf(s) \subseteq Checkpoints
  BY <1>2 DEF LiveOf
<1>4. QED
  BY <1>3 DEF KeysOf, Checkpoints

LEMMA SubtreeOfKeys ==
    ASSUME NEW s \in States, NEW k
    PROVE  Subtree(LiveOf(s), k) \in SUBSET Keys
BY LiveTyped DEF Subtree

-----------------------------------------------------------------------------
(* The invariant *)

LEMMA InitStands ==
    ASSUME NoneIsNoFunction
    PROVE  Stands(DefaultManifest, None, EmptyState, 0)
<1>1. /\ DefaultManifest \in Manifests /\ DefaultManifest.count = 0 /\ DefaultManifest.deleted = {}
      /\ DefaultManifest.segments = <<>> /\ Len(DefaultManifest.segments) = 0
  BY DefaultFields DEF DefaultManifest
<1>2. [i \in 1..Len(DefaultManifest.segments) |-> DefaultManifest.segments[i].cps] = <<>>
  BY <1>1
<1>3. SealedState(DefaultManifest).cps = <<>>
  BY <1>2, JoinedEmpty DEF SealedState
<1>4. GoodManifest(DefaultManifest)
  BY <1>1, <1>3, EmptySeq DEF GoodManifest
<1>5. EmptyState \in States /\ EmptyState.cps = <<>> /\ EmptyState.deleted = {} /\ Len(EmptyState.cps) = 0
  BY EmptySeq DEF EmptyState, States
<1>6. SubSeq(EmptyState.cps, 1, 0) = <<>>
  BY <1>5
<1>7. InOrder(EmptyState, 0)
  BY <1>5 DEF InOrder
<1>8. Reach(DefaultManifest, None, 0) = 0
  BY <1>1 DEF Reach
<1>9. QED
  BY <1>1, <1>3, <1>4, <1>5, <1>6, <1>7, <1>8 DEF Stands

LEMMA InitKeeps ==
    ASSUME NoneIsNoFunction, Init
    PROVE  StoreInvariant /\ auth = EmptyState
<1>1. /\ dir.manifest = None /\ dir.hot = None /\ IsDirectory(dir)
  BY DEF Init, EmptyDirectory, IsDirectory
<1>2. /\ safe.manifest = None /\ safe.files = dir.files /\ safe.synced = 0 /\ safe.older = None
      /\ IsDevice(safe)
  BY DEF Init, IsDevice
<1>3. Loaded(dir) = DefaultManifest /\ AsLoaded(None) = DefaultManifest
  BY <1>1 DEF Loaded, AsLoaded
<1>4. ManifestHolds(dir, Loaded(dir)) /\ ManifestHolds(safe, DefaultManifest)
  BY <1>3, HoldsDefault
<1>5. Stands(Loaded(dir), dir.hot, EmptyState, 0)
  BY <1>1, <1>3, InitStands
<1>6. auth = EmptyState /\ auth = Recovered(dir)
  BY <1>4, <1>5, StandsRecovered DEF Init
<1>7. Loaded(dir).count = 0 /\ Len(EmptyState.cps) = 0 /\ MaxCount \in Nat
  BY <1>3, DefaultFields, StoreAssumption DEF EmptyState
<1>8. DirectoryTrue
  BY <1>4, <1>5, <1>6, <1>7 DEF DirectoryTrue
<1>9. WriterTrue
  BY DEF Init, WriterTrue, Staging
<1>10. DeviceTrue
  <2>1. LogSynced(dir.hot, safe.synced)
    BY <1>1, <1>2 DEF LogSynced
  <2>2. Stands(Loaded(dir), dir.hot, auth, Loaded(dir).count)
    BY <1>5, <1>6, <1>7
  <2>3. pc = "closed" /\ ~poisoned
    BY DEF Init
  <2>4. QED
    BY <1>1, <1>2, <1>3, <1>4, <2>1, <2>2, <2>3 DEF DeviceTrue
<1>11. QED
  BY <1>1, <1>2, <1>6, <1>8, <1>9, <1>10 DEF StoreInvariant, Shapes, Init

LEMMA OpeningKeeps ==
    ASSUME NoneIsNoFunction, StoreInvariant, Opening
    PROVE  StoreInvariant' /\ auth' = auth
BY OpenLoadKeeps, InitManifestKeeps, InitSyncKeeps, MaterializeKeeps, OpenHotKeeps, OpenRecycleKeeps,
   OpenRecycleSyncKeeps, OpenReplayKeeps, FailuresKeep, Zenon DEF Opening

LEMMA ReclaimingKeeps ==
    ASSUME NoneIsNoFunction, StoreInvariant, Reclaiming
    PROVE  StoreInvariant' /\ auth' = auth
BY BeginReclaimKeeps, ReclaimGateKeeps, ReclaimDeleteKeeps, ReclaimDoneKeeps, FailuresKeep, Zenon
DEF Reclaiming

LEMMA BeginBoundedAppendKeeps ==
    ASSUME NoneIsNoFunction, StoreInvariant, NEW c \in Checkpoints, BeginBoundedAppend(c)
    PROVE  StoreInvariant' /\ auth' = auth
<1>1. Ready /\ Prepared(c) /\ Sealing(Len(mem.cps), Tx(Len(mem.cps), c))
  BY DEF BeginBoundedAppend
<1>2. Stands(man, dir.hot, mem, man.count)
  BY <1>1 DEF Ready, StoreInvariant, WriterTrue, Agrees
<1>3. Len(mem.cps) \in Nat
  BY <1>2, StandsParts
<1>4. QED
  BY <1>1, <1>3, SealingKeeps

LEMMA AppendingKeeps ==
    ASSUME NoneIsNoFunction, StoreInvariant, Appending
    PROVE  StoreInvariant' /\ (auth' = auth \/ WriteRecord)
<1>1. ASSUME NEW c \in Checkpoints, BeginAppend(c) \/ BeginBoundedAppend(c)
      PROVE  StoreInvariant' /\ auth' = auth
  BY <1>1, BeginAppendKeeps, BeginBoundedAppendKeeps, Zenon
<1>2. QED
  BY <1>1, WriteRecordKeeps, WriteRecordFailsKeeps, SyncRecordKeeps, FailuresKeep, Zenon DEF Appending

LEMMA BeginningKeeps ==
    ASSUME NoneIsNoFunction, StoreInvariant,
           \/ \E n \in 1..MaxCount : BeginSeal(n)
           \/ \E K \in SUBSET Keys : BeginPruneSet(K)
           \/ \E k \in Keys : BeginPruneSubtree(k)
    PROVE  StoreInvariant' /\ auth' = auth
<1>1. ASSUME NEW n \in 1..MaxCount, BeginSeal(n)
      PROVE  StoreInvariant' /\ auth' = auth
  <2>1. n \in Nat /\ Ready /\ Sealing(n, None)
    BY <1>1, StoreAssumption DEF BeginSeal
  <2>2. QED
    BY <2>1, SealingKeeps
<1>2. ASSUME NEW K \in SUBSET Keys, BeginPruneSet(K)
      PROVE  StoreInvariant' /\ auth' = auth
  BY <1>2, PruningKeeps DEF BeginPruneSet
<1>3. ASSUME NEW k \in Keys, BeginPruneSubtree(k)
      PROVE  StoreInvariant' /\ auth' = auth
  <2>1. Ready /\ k \in KeysOf(LiveOf(mem)) /\ Pruning(Subtree(LiveOf(mem), k))
    BY <1>3 DEF BeginPruneSubtree
  <2>2. Subtree(LiveOf(mem), k) \in SUBSET Keys
    <3>1. Stands(man, dir.hot, mem, man.count)
      BY <2>1 DEF Ready, StoreInvariant, WriterTrue, Agrees
    <3>2. QED
      BY <3>1, StandsParts, SubtreeOfKeys
  <2>3. QED
    BY <2>1, <2>2, PruningKeeps
<1>4. QED
  BY <1>1, <1>2, <1>3, Zenon

LEMMA GenerationsKeep ==
    ASSUME NoneIsNoFunction, StoreInvariant, Generations
    PROVE  StoreInvariant' /\ (auth' = auth \/ RenameManifest)
BY BeginningKeeps, ReidentifyKeeps, StageKeeps, StageFailsKeeps, PublishSegmentKeeps, PublishRouteKeeps,
   PublishArtifactFailsKeeps, RenameManifestKeeps, SyncManifestKeeps, RecycleKeeps, RecycleSyncKeeps,
   FailuresKeep, Zenon DEF Generations

\* Only three steps change what the directory stands for.
LEMMA NextKeeps ==
    ASSUME NoneIsNoFunction, StoreInvariant, Next
    PROVE  StoreInvariant' /\ (auth' = auth \/ WriteRecord \/ RenameManifest \/ PowerLoss)
BY OpeningKeeps, ReclaimingKeeps, AppendingKeeps, GenerationsKeep, StoppingKeeps, PowerLossKeeps, Zenon
DEF Next

LEMMA StutterKeeps ==
    ASSUME StoreInvariant, UNCHANGED vars
    PROVE  StoreInvariant'
<1>1. /\ dir' = dir /\ auth' = auth /\ safe' = safe /\ pc' = pc /\ mem' = mem /\ man' = man
      /\ tail' = tail /\ poisoned' = poisoned /\ job' = job /\ crashes' = crashes /\ faults' = faults
  BY DEF vars, directory, writerVars, budget
<1>2. DirectoryTrue'
  BY <1>1 DEF StoreInvariant, DirectoryTrue
<1>3. WriterTrue'
  <2>1. Opened' = Opened /\ Agrees' = Agrees /\ NewFiles' = NewFiles
    BY <1>1 DEF Opened, Agrees, NewFiles
  <2>2. TxTrue' = TxTrue
    BY <1>1 DEF TxTrue, Prepared
  <2>3. Written' = Written /\ JobTrue' = JobTrue /\ Sealed' = Sealed /\ RecycledLog' = RecycledLog
    BY <1>1, <2>2 DEF Written, JobTrue, Sealed, RecycledLog
  <2>4. Renamed' = Renamed
    BY <1>1, <2>3 DEF Renamed
  <2>5. QED
    BY <1>1, <2>1, <2>2, <2>3, <2>4 DEF StoreInvariant, WriterTrue
<1>4. (Undisturbed => DeviceTrue)'
  BY <1>1, Zenon DEF StoreInvariant, Undisturbed, DeviceTrue, OlderTrue
<1>5. QED
  BY <1>1, <1>2, <1>3, <1>4 DEF StoreInvariant, Shapes

-----------------------------------------------------------------------------
(* Theorems *)

\* Every reachable directory is one that recovers, to the state the writer's
\* step says, and as long as nothing failed the device has all of it but the
\* call in flight.
THEOREM StoreInvariantHolds ==
    ASSUME NoneIsNoFunction
    PROVE  Spec => []StoreInvariant
<1>1. Init => StoreInvariant
  BY InitKeeps
<1>2. StoreInvariant /\ [Next]_vars => StoreInvariant'
  BY NextKeeps, StutterKeeps
<1>3. QED
  BY <1>1, <1>2, PTL DEF Spec

\* Between calls a handle that is not poisoned serves exactly what a reopen of
\* its directory would recover, and its next record continues the log, after
\* every sequence of appends, seals, deletions, failures and crashes.
THEOREM MemoryTrue ==
    ASSUME NoneIsNoFunction
    PROVE  Spec => []MemoryIsAuthority
<1>1. ASSUME StoreInvariant, Ready
      PROVE  /\ mem = auth /\ man = dir.manifest
             /\ tail = Len(ParsedFrom(dir.hot, man.count))
             /\ Len(mem.cps) = man.count + tail
  <2>1. /\ dir.manifest = man /\ auth = mem /\ dir.hot # None /\ tail = Len(dir.hot.txs)
        /\ Stands(man, dir.hot, mem, man.count)
    BY <1>1 DEF Ready, StoreInvariant, WriterTrue, Agrees
  <2>2. ParsedFrom(dir.hot, man.count) = dir.hot.txs
    BY <2>1, StandsLog
  <2>3. man.count \in Nat /\ tail \in Nat /\ Len(mem.cps) = Reach(man, dir.hot, man.count)
    BY <2>1, StandsParts
  <2>4. Len(mem.cps) = IF man.count + tail > man.count THEN man.count + tail ELSE man.count
    BY <2>1, <2>3 DEF Reach
  <2>5. Len(mem.cps) = man.count + tail
    BY <2>3, <2>4
  <2>6. QED
    BY <2>1, <2>2, <2>5
<1>2. StoreInvariant => MemoryIsAuthority
  BY <1>1 DEF MemoryIsAuthority
<1>3. QED
  BY <1>2, StoreInvariantHolds, PTL

-----------------------------------------------------------------------------
(* The log the directory implements *)

LEMMA AuthorityIsState ==
    ASSUME NoneIsNoFunction, StoreInvariant
    PROVE  auth \in States /\ auth # None
<1>1. auth \in States
  BY SomeBase, StandsParts DEF StoreInvariant
<1>2. QED
  BY <1>1, StateIsSome

\* CheckpointLog's own names for the operations.
LEMMA SameOperations ==
    /\ CL!Checkpoints = Checkpoints
    /\ \A C, D, c : CL!Appendable(C, D, c) <=> Appendable(C, D, c)
    /\ \A C, K : CL!Prunable(C, K) <=> Prunable(C, K)
    /\ \A C, K : CL!Surviving(C, K) = Surviving(C, K)
    /\ \A C, k : CL!Subtree(C, k) = Subtree(C, k)
    /\ \A C : CL!KeysOf(C) = KeysOf(C)
BY Zenon DEF CL!Checkpoints, Checkpoints, CL!Appendable, Appendable, CL!Prunable, Prunable,
   CL!Surviving, Surviving, CL!Subtree, Subtree, CL!KeysOf, KeysOf,
   CL!ClosedUnderChildren, ClosedUnderChildren

LEMMA AppendIs ==
    ASSUME auth # None, auth' # None, NEW c \in Checkpoints, Appendable(LiveOf(auth), auth.deleted, c),
           LiveOf(auth)' = LiveOf(auth) \cup {c}, auth'.deleted = auth.deleted
    PROVE  CL!Next
<1>1. CL!AppendCheckpoint(c)
  BY SameOperations DEF CL!AppendCheckpoint
<1>2. QED
  BY <1>1, SameOperations DEF CL!Next

LEMMA DeletionIs ==
    ASSUME auth # None, auth' # None, Deletes(auth, auth')
    PROVE  CL!Next
<1>1. PICK K \in SUBSET Keys :
        /\ Prunable(LiveOf(auth), K)
              \/ \E k \in Keys \cap KeysOf(LiveOf(auth)) : K = Subtree(LiveOf(auth), k)
        /\ LiveOf(auth') = Surviving(LiveOf(auth), K)
        /\ auth'.deleted = auth.deleted \cup K
  BY DEF Deletes
<1>2. CASE Prunable(LiveOf(auth), K)
  <2>1. CL!DeleteSet(K)
    BY <1>1, <1>2, SameOperations DEF CL!DeleteSet
  <2>2. QED
    BY <2>1 DEF CL!Next
<1>3. ASSUME NEW k \in Keys, k \in KeysOf(LiveOf(auth)), K = Subtree(LiveOf(auth), k)
      PROVE  CL!Next
  <2>1. CL!DeleteSubtree(k)
    BY <1>1, <1>3, SameOperations DEF CL!DeleteSubtree
  <2>2. QED
    BY <2>1 DEF CL!Next
<1>4. QED
  BY <1>1, <1>2, <1>3

LEMMA WriteRecordIs ==
    ASSUME NoneIsNoFunction, StoreInvariant, WriteRecord
    PROVE  CL!Next
<1>1. StoreInvariant' /\ auth = mem /\ mem \in States
  BY WriteRecordKeeps
<1>2. PICK c \in Checkpoints :
        Prepared(c) /\ job.tx = Tx(Len(mem.cps), c) /\ auth' = Applied(mem, <<job.tx>>)
  BY WriteRecordKeeps
<1>3. job.tx.cp = c
  BY <1>2 DEF Tx
<1>4. /\ auth' = [cps |-> Append(mem.cps, c), deleted |-> mem.deleted]
      /\ LiveOf(auth') = LiveOf(mem) \cup {c}
  BY <1>1, <1>2, <1>3, AppliedOne
<1>5. auth'.deleted = auth.deleted
  BY <1>1, <1>4
<1>6. auth # None /\ auth' # None
  BY <1>1, <1>2, <1>3, AuthorityIsState, AppliedOne, StateIsSome
<1>7. QED
  BY <1>1, <1>2, <1>4, <1>5, <1>6, AppendIs DEF Prepared

LEMMA RenameManifestIs ==
    ASSUME NoneIsNoFunction, StoreInvariant, RenameManifest
    PROVE  CL!Next \/ auth' = auth
<1>1. /\ StoreInvariant' /\ auth = mem /\ auth' = job.state /\ job.state \in States /\ mem \in States
      /\ Deletes(mem, job.state) \/ job.state = mem
  BY RenameManifestKeeps
<1>2. auth # None /\ auth' # None
  BY <1>1, StateIsSome
<1>3. CASE Deletes(mem, job.state)
  BY <1>1, <1>2, <1>3, DeletionIs
<1>4. QED
  BY <1>1, <1>3

\* Read through recovery, the directory changes only by one whole append or
\* one whole deletion of CheckpointLog, or by a power loss: seals, recycles,
\* reclaims, new identities, failures and process crashes leave it as it is.
THEOREM DirectoryImplementsLog ==
    ASSUME NoneIsNoFunction
    PROVE  Spec => ImplementsLog
<1>1. Init => CL!Init
  <2>1. SUFFICES ASSUME Init PROVE CL!Init
    OBVIOUS
  <2>2. auth = EmptyState /\ auth # None
    BY <2>1, InitKeeps, AuthorityIsState
  <2>3. LiveOf(auth) = {} /\ auth.deleted = {}
    BY <2>2 DEF EmptyState, LiveOf
  <2>4. QED
    BY <2>2, <2>3 DEF CL!Init
<1>2. StoreInvariant /\ [Next]_vars => [CL!Next \/ PowerLoss]_(CL!logVars)
  <2>1. SUFFICES ASSUME StoreInvariant, [Next]_vars PROVE [CL!Next \/ PowerLoss]_(CL!logVars)
    OBVIOUS
  <2>2. CL!Next \/ PowerLoss \/ auth' = auth
    BY <2>1, NextKeeps, WriteRecordIs, RenameManifestIs DEF vars, directory
  <2>3. auth' = auth => UNCHANGED CL!logVars
    BY DEF CL!logVars
  <2>4. QED
    BY <2>2, <2>3
<1>3. QED
  BY <1>1, <1>2, StoreInvariantHolds, PTL DEF Spec, ImplementsLog

-----------------------------------------------------------------------------
(* What was acknowledged *)

\* Steps that begin a seal or a new identity, or change neither what is
\* acknowledged nor what the directory stands for.
LEMMA AckedSame ==
    ASSUME AckedTrue, auth' = auth, acked' = acked, pc' \notin {"sync", "syncManifest"},
           pc' \in Staging => ((pc \in Staging /\ job' = job) \/ job'.state = auth)
    PROVE  AckedTrue'
BY DEF AckedTrue

LEMMA AckedOpening ==
    ASSUME NoneIsNoFunction, StoreInvariant, AckedTrue, Opening
    PROVE  AckedTrue'
<1>1. acked' = acked /\ pc' \notin {"sync", "syncManifest"} \cup Staging
  BY DEF Opening, OpenLoad, InitManifest, InitSync, Materialize, OpenHot, OpenRecycle, OpenRecycleSync,
     OpenReplay, OpenFails, Quiet, Step, Stop, Staging
<1>2. QED
  BY <1>1, OpeningKeeps, AckedSame

LEMMA AckedReclaiming ==
    ASSUME NoneIsNoFunction, StoreInvariant, AckedTrue, Reclaiming
    PROVE  AckedTrue'
<1>1. CASE BeginReclaim \/ ReclaimGate \/ ReclaimDelete \/ ReclaimFails
  <2>1. acked' = acked /\ pc' \notin {"sync", "syncManifest"} \cup Staging
    BY <1>1 DEF BeginReclaim, ReclaimGate, ReclaimDelete, ReclaimFails, Quiet, Step, Stop, Poison, Return,
       Staging
  <2>2. QED
    BY <2>1, ReclaimingKeeps, AckedSame
<1>2. CASE ReclaimDone
  <2>1. auth' = auth
    BY <1>2, ReclaimDoneKeeps
  <2>2. CASE acked' = acked
    <3>1. pc' \notin {"sync", "syncManifest"} \cup Staging
      BY <1>2 DEF ReclaimDone, Reclaimed, Step, Return, Staging
    <3>2. QED
      BY <2>1, <2>2, <3>1, AckedSame
  <2>3. CASE acked' # acked
    <3>1. pc = "delete" /\ job.kind = "prune" /\ acked' = [acked EXCEPT !.deleted = mem.deleted] /\ pc' = "idle"
      BY <1>2, <2>3 DEF ReclaimDone, Reclaimed, Return
    <3>2. Agrees
      BY <3>1, ReclaimFacts
    <3>3. auth = mem
      BY <3>2 DEF Agrees
    <3>4. QED
      BY <2>1, <3>1, <3>3 DEF AckedTrue, Staging
  <2>4. QED
    BY <2>2, <2>3
<1>3. QED
  BY <1>1, <1>2 DEF Reclaiming

LEMMA AckedSealing ==
    ASSUME NoneIsNoFunction, StoreInvariant, AckedTrue, Ready, NEW n, NEW tx, Sealing(n, tx), auth' = auth
    PROVE  AckedTrue'
<1>1. acked' = acked /\ pc' = "stageSegment" /\ job'.state = mem
  BY DEF Sealing, Job, Quiet
<1>2. auth = mem
  BY DEF Ready, StoreInvariant, WriterTrue, Agrees
<1>3. QED
  BY <1>1, <1>2, AckedSame

LEMMA AckedAppending ==
    ASSUME NoneIsNoFunction, StoreInvariant, AckedTrue, Appending
    PROVE  AckedTrue'
<1>1. ASSUME NEW c \in Checkpoints, BeginAppend(c) PROVE AckedTrue'
  <2>1. acked' = acked /\ pc' = "write"
    BY <1>1 DEF BeginAppend, Quiet
  <2>2. QED
    BY <1>1, <2>1, BeginAppendKeeps, AckedSame DEF Staging
<1>2. ASSUME NEW c \in Checkpoints, BeginBoundedAppend(c) PROVE AckedTrue'
  BY <1>2, BeginBoundedAppendKeeps, AckedSealing DEF BeginBoundedAppend
<1>3. CASE WriteRecordFails \/ SyncRecordFails
  <2>1. acked' = acked /\ pc' = "idle"
    BY <1>3 DEF WriteRecordFails, SyncRecordFails, Return, Poison
  <2>2. QED
    BY <1>3, <2>1, WriteRecordFailsKeeps, FailuresKeep, AckedSame DEF Staging
<1>4. CASE WriteRecord
  <2>1. auth = mem /\ mem' = mem /\ mem \in States /\ acked' = acked /\ pc' = "sync"
    BY <1>4, WriteRecordKeeps DEF WriteRecord, Quiet, Step
  <2>2. PICK c \in Checkpoints :
          Prepared(c) /\ job.tx = Tx(Len(mem.cps), c) /\ auth' = Applied(mem, <<job.tx>>)
    BY <1>4, WriteRecordKeeps
  <2>3. job.tx.cp = c
    BY <2>2 DEF Tx
  <2>4. /\ auth' = [cps |-> Append(mem.cps, c), deleted |-> mem.deleted]
        /\ LiveOf(auth') = LiveOf(mem) \cup {c}
    BY <2>1, <2>2, <2>3, AppliedOne
  <2>5. auth'.deleted = mem.deleted
    BY <2>4
  <2>6. QED
    BY <2>1, <2>4, <2>5 DEF AckedTrue, Staging
<1>5. CASE SyncRecord
  <2>1. auth' = auth /\ mem' = auth /\ acked' = [acked EXCEPT !.live = LiveOf(mem')] /\ pc' = "idle"
    BY <1>5, SyncRecordKeeps DEF SyncRecord
  <2>2. QED
    BY <2>1 DEF AckedTrue, Staging
<1>6. QED
  BY <1>1, <1>2, <1>3, <1>4, <1>5 DEF Appending

LEMMA AckedPruning ==
    ASSUME NoneIsNoFunction, StoreInvariant, AckedTrue, Ready, NEW K \in SUBSET Keys, Pruning(K),
           auth' = auth
    PROVE  AckedTrue'
<1>1. /\ acked' = [acked EXCEPT !.live = Surviving(acked.live, K)] /\ pc' = "stageSegment"
      /\ job'.state = Compacted(mem, K)
  BY DEF Pruning, Job
<1>2. auth = mem /\ Stands(man, dir.hot, mem, man.count)
  BY DEF Ready, StoreInvariant, WriterTrue, Agrees
<1>3. LiveOf(Compacted(mem, K)) = Surviving(LiveOf(mem), K)
  BY <1>2, StandsParts, CompactedLive
<1>4. acked'.live = Surviving(acked.live, K) /\ acked'.deleted = acked.deleted
  BY <1>1 DEF AckedTrue
<1>5. Surviving(acked.live, K) \subseteq Surviving(LiveOf(auth), K)
  BY DEF AckedTrue, Surviving
<1>6. acked'.live \subseteq LiveOf(auth) /\ acked'.live \subseteq LiveOf(job'.state)
  BY <1>1, <1>2, <1>3, <1>4, <1>5 DEF Surviving
<1>7. acked' = [live |-> acked'.live, deleted |-> acked'.deleted]
  BY <1>1 DEF AckedTrue
<1>8. QED
  BY <1>1, <1>4, <1>6, <1>7 DEF AckedTrue

LEMMA AckedGenerations ==
    ASSUME NoneIsNoFunction, StoreInvariant, AckedTrue, Generations
    PROVE  AckedTrue'
<1>1. ASSUME NEW n \in 1..MaxCount, BeginSeal(n) PROVE AckedTrue'
  BY <1>1, BeginningKeeps, AckedSealing DEF BeginSeal
<1>2. ASSUME NEW K \in SUBSET Keys, BeginPruneSet(K) PROVE AckedTrue'
  BY <1>2, BeginningKeeps, AckedPruning DEF BeginPruneSet
<1>3. ASSUME NEW k \in Keys, BeginPruneSubtree(k) PROVE AckedTrue'
  <2>1. Ready /\ Pruning(Subtree(LiveOf(mem), k)) /\ auth' = auth
    BY <1>3, BeginningKeeps DEF BeginPruneSubtree
  <2>2. Stands(man, dir.hot, mem, man.count)
    BY <2>1 DEF Ready, StoreInvariant, WriterTrue, Agrees
  <2>3. Subtree(LiveOf(mem), k) \in SUBSET Keys
    BY <2>2, StandsParts, SubtreeOfKeys
  <2>4. QED
    BY <2>1, <2>3, AckedPruning
<1>4. CASE BeginReidentify
  <2>1. acked' = acked /\ pc' = "stageManifest" /\ job'.state = mem
    BY <1>4 DEF BeginReidentify, Job, Quiet
  <2>2. auth = mem
    BY <1>4 DEF BeginReidentify, Ready, StoreInvariant, WriterTrue, Agrees
  <2>3. QED
    BY <1>4, <2>1, <2>2, ReidentifyKeeps, AckedSame
<1>5. CASE StageSegment \/ StageRoute \/ StageManifest \/ PublishSegment \/ PublishRoute
  <2>1. acked' = acked /\ pc \in Staging /\ job' = job /\ pc' \in Staging
    BY <1>5 DEF StageSegment, StageRoute, StageManifest, Stage, PublishSegment, PublishRoute,
       PublishArtifact, Step, Quiet, Staging
  <2>2. pc' \notin {"sync", "syncManifest"}
    BY <2>1 DEF Staging
  <2>3. QED
    BY <1>5, <2>1, <2>2, StageKeeps, PublishSegmentKeeps, PublishRouteKeeps, AckedSame
<1>6. CASE \/ StageFails \/ PublishArtifactFails \/ RenameManifestFails \/ SyncManifestFails \/ RecycleFails
           \/ SyncManifest \/ Recycle \/ RecycleSync
  <2>1. acked' = acked
    BY <1>6 DEF StageFails, PublishArtifactFails, RenameManifestFails, SyncManifestFails, RecycleFails,
       SyncManifest, Recycle, RecycleSync, Quiet
  <2>2. pc' \in {"idle", "recycle", "reclaim", "recycled", "write"}
    BY <1>6 DEF StageFails, PublishArtifactFails, RenameManifestFails, SyncManifestFails, RecycleFails,
       SyncManifest, Recycle, RecycleSync, Step, Poison, Return
  <2>3. auth' = auth
    BY <1>6, StageFailsKeeps, PublishArtifactFailsKeeps, FailuresKeep, SyncManifestKeeps, RecycleKeeps,
       RecycleSyncKeeps
  <2>4. QED
    BY <2>1, <2>2, <2>3, AckedSame DEF Staging
<1>7. CASE RenameManifest
  <2>1. /\ auth = mem /\ mem' = mem /\ auth' = job.state
        /\ Deletes(mem, job.state) \/ job.state = mem
    BY <1>7, RenameManifestKeeps
  <2>2. acked' = acked /\ pc \in Staging /\ pc' = "syncManifest"
    BY <1>7 DEF RenameManifest, Step, Quiet, Staging
  <2>3. mem.deleted \subseteq job.state.deleted
    BY <2>1 DEF Deletes
  <2>4. acked.live \subseteq LiveOf(job.state)
    BY <2>2 DEF AckedTrue
  <2>5. QED
    BY <2>1, <2>2, <2>3, <2>4 DEF AckedTrue, Staging
<1>8. QED
  BY <1>1, <1>2, <1>3, <1>4, <1>5, <1>6, <1>7 DEF Generations

-----------------------------------------------------------------------------
(* Which records are on the device *)

LEMMA SyncedSame ==
    ASSUME RecordsSynced, Undisturbed' => Undisturbed, dir'.hot = dir.hot,
           safe'.synced = safe.synced, safe'.older \in {safe.older, None},
           pc # "sync", pc' # "sync"
    PROVE  RecordsSynced'
BY DEF RecordsSynced

LEMMA SyncedDisturbed ==
    ASSUME ~Undisturbed'
    PROVE  RecordsSynced'
BY DEF RecordsSynced

LEMMA DirSyncFields ==
    ASSUME StoreInvariant, safe' = DirSync
    PROVE  safe'.synced = safe.synced /\ safe'.older = None
BY DEF DirSync, StoreInvariant, Shapes, IsDevice

LEMMA SyncedOpening ==
    ASSUME NoneIsNoFunction, StoreInvariant, RecordsSynced, Opening
    PROVE  RecordsSynced'
<1>1. CASE OpenFails \/ OpenRecycle \/ OpenRecycleSync
  BY <1>1, FaultBudget, OpenRecycleKeeps, OpenRecycleSyncKeeps, SyncedDisturbed DEF OpenFails
<1>2. CASE OpenLoad \/ Materialize \/ OpenReplay
  <2>1. dir' = dir /\ safe' = safe /\ pc # "sync" /\ pc' # "sync" /\ UNCHANGED budget
    BY <1>2 DEF OpenLoad, Materialize, OpenReplay, Quiet, directory
  <2>2. QED
    BY <2>1, QuietBudget, SyncedSame
<1>3. CASE InitManifest
  <2>1. safe' = safe /\ pc # "sync" /\ pc' # "sync" /\ UNCHANGED budget /\ dir'.hot = dir.hot
    BY <1>3 DEF InitManifest, Quiet, Writes, StoreInvariant, Shapes, IsDirectory
  <2>2. QED
    BY <2>1, QuietBudget, SyncedSame
<1>4. CASE InitSync
  <2>1. safe' = DirSync /\ dir' = dir /\ pc # "sync" /\ pc' # "sync" /\ UNCHANGED budget
    BY <1>4 DEF InitSync, Step, Quiet, directory
  <2>2. QED
    BY <2>1, DirSyncFields, QuietBudget, SyncedSame
<1>5. CASE OpenHot
  <2>1. pc # "sync" /\ pc' # "sync" /\ UNCHANGED budget
    BY <1>5 DEF OpenHot, Step, Quiet
  <2>2. CASE dir.hot # None
    <3>1. dir' = dir /\ safe' = safe
      BY <1>5, <2>2 DEF OpenHot, directory
    <3>2. QED
      BY <2>1, <3>1, QuietBudget, SyncedSame
  <2>3. CASE dir.hot = None
    <3>1. SUFFICES ASSUME Undisturbed' PROVE RecordsSynced'
      BY SyncedDisturbed
    <3>2. safe' = DirSync /\ dir' = [dir EXCEPT !.hot = EmptyLog]
      BY <1>5, <2>3 DEF OpenHot, Writes
    <3>3. dir'.hot = EmptyLog /\ Len(EmptyLog.txs) = 0
      BY <3>2 DEF StoreInvariant, Shapes, IsDirectory, EmptyLog
    <3>4. safe.synced = 0
      BY <2>1, <2>3, <3>1, QuietBudget DEF StoreInvariant, DeviceTrue, LogSynced
    <3>5. safe'.synced = 0 /\ safe'.older = None
      BY <3>2, <3>4, DirSyncFields
    <3>6. QED
      BY <2>1, <3>3, <3>5 DEF RecordsSynced
  <2>4. QED
    BY <2>2, <2>3
<1>6. QED
  BY <1>1, <1>2, <1>3, <1>4, <1>5 DEF Opening

LEMMA SyncedReclaiming ==
    ASSUME NoneIsNoFunction, StoreInvariant, RecordsSynced, Reclaiming
    PROVE  RecordsSynced'
<1>1. CASE ReclaimFails
  BY <1>1, FaultBudget, SyncedDisturbed DEF ReclaimFails
<1>2. CASE BeginReclaim \/ ReclaimGate
  <2>1. dir' = dir /\ safe' = safe /\ pc # "sync" /\ pc' # "sync" /\ UNCHANGED budget
    BY <1>2 DEF BeginReclaim, Ready, ReclaimGate, Step, Quiet, directory
  <2>2. QED
    BY <2>1, QuietBudget, SyncedSame
<1>3. CASE ReclaimDelete
  <2>1. safe' = safe /\ pc # "sync" /\ pc' # "sync" /\ UNCHANGED budget
    BY <1>3 DEF ReclaimDelete, Quiet
  <2>2. \/ \E f : dir' = [dir EXCEPT !.files = f]
        \/ \E t : dir' = [dir EXCEPT !.tmps = t]
    BY <1>3 DEF ReclaimDelete, Writes
  <2>3. dir'.hot = dir.hot
    BY <2>2 DEF StoreInvariant, Shapes, IsDirectory
  <2>4. QED
    BY <2>1, <2>3, QuietBudget, SyncedSame
<1>4. CASE ReclaimDone
  <2>1. /\ dir' = dir /\ pc # "sync" /\ pc' # "sync" /\ UNCHANGED budget
        /\ safe' = IF job.removed THEN DirSync ELSE safe
    BY <1>4 DEF ReclaimDone, Reclaimed, Step, Return, directory
  <2>2. safe'.synced = safe.synced /\ safe'.older \in {safe.older, None}
    BY <2>1, DirSyncFields
  <2>3. QED
    BY <2>1, <2>2, QuietBudget, SyncedSame
<1>5. QED
  BY <1>1, <1>2, <1>3, <1>4 DEF Reclaiming

LEMMA SyncedAppending ==
    ASSUME NoneIsNoFunction, StoreInvariant, RecordsSynced, Appending
    PROVE  RecordsSynced'
<1>1. CASE WriteRecordFails \/ SyncRecordFails
  BY <1>1, FaultBudget, SyncedDisturbed DEF WriteRecordFails, SyncRecordFails
<1>2. ASSUME NEW c \in Checkpoints, BeginAppend(c) \/ BeginBoundedAppend(c) PROVE RecordsSynced'
  <2>1. dir' = dir /\ safe' = safe /\ pc # "sync" /\ pc' # "sync" /\ UNCHANGED budget
    BY <1>2 DEF BeginAppend, BeginBoundedAppend, Sealing, Ready, Quiet, directory
  <2>2. QED
    BY <2>1, QuietBudget, SyncedSame
<1>3. CASE WriteRecord
  <2>1. /\ safe' = safe /\ pc = "write" /\ pc' = "sync" /\ UNCHANGED budget /\ tail' = tail
        /\ tail = Len(dir.hot.txs) /\ dir.hot # None
    BY <1>3, WriteRecordKeeps DEF WriteRecord, Step, Quiet
  <2>2. QED
    BY <2>1, QuietBudget DEF RecordsSynced
<1>4. CASE SyncRecord
  <2>1. SUFFICES ASSUME Undisturbed' PROVE RecordsSynced'
    BY SyncedDisturbed
  <2>2. /\ pc = "sync" /\ pc' = "idle" /\ safe' = [safe EXCEPT !.synced = Len(dir.hot.txs)]
        /\ dir' = dir /\ UNCHANGED budget
    BY <1>4 DEF SyncRecord, directory
  <2>3. safe'.synced = Len(dir.hot.txs) /\ safe'.older = safe.older
    BY <2>2 DEF StoreInvariant, Shapes, IsDevice
  <2>4. Undisturbed
    BY <2>1, <2>2, QuietBudget
  <2>5. QED
    BY <2>2, <2>3, <2>4 DEF RecordsSynced
<1>5. QED
  BY <1>1, <1>2, <1>3, <1>4 DEF Appending

LEMMA SyncedGenerations ==
    ASSUME NoneIsNoFunction, LogReserved, StoreInvariant, RecordsSynced, Generations
    PROVE  RecordsSynced'
<1>1. CASE StageFails \/ PublishArtifactFails \/ RenameManifestFails \/ SyncManifestFails \/ RecycleFails
  BY <1>1, FaultBudget, SyncedDisturbed
  DEF StageFails, PublishArtifactFails, RenameManifestFails, SyncManifestFails, RecycleFails
<1>2. CASE \/ \E n \in 1..MaxCount : BeginSeal(n)
           \/ \E K \in SUBSET Keys : BeginPruneSet(K)
           \/ \E k \in Keys : BeginPruneSubtree(k)
           \/ BeginReidentify
  <2>1. dir' = dir /\ safe' = safe /\ pc # "sync" /\ pc' # "sync" /\ UNCHANGED budget
    BY <1>2 DEF BeginSeal, BeginPruneSet, BeginPruneSubtree, BeginReidentify, Sealing, Pruning, Ready,
       Quiet, directory
  <2>2. QED
    BY <2>1, QuietBudget, SyncedSame
<1>3. CASE StageSegment \/ StageRoute \/ StageManifest
  <2>1. safe' = safe /\ pc # "sync" /\ pc' # "sync" /\ UNCHANGED budget
    BY <1>3 DEF StageSegment, StageRoute, StageManifest, Stage, Step, Quiet
  <2>2. \E t : dir' = [dir EXCEPT !.tmps = t]
    BY <1>3 DEF StageSegment, StageRoute, StageManifest, Stage, Writes
  <2>3. dir'.hot = dir.hot
    BY <2>2 DEF StoreInvariant, Shapes, IsDirectory
  <2>4. QED
    BY <2>1, <2>3, QuietBudget, SyncedSame
<1>4. CASE PublishSegment \/ PublishRoute
  <2>1. /\ pc # "sync" /\ pc' # "sync" /\ UNCHANGED budget
        /\ safe' = [safe EXCEPT !.manifest = dir.manifest, !.files = dir'.files, !.older = None]
        /\ \E name : dir' = WithArtifact(name)
    BY <1>4 DEF PublishSegment, PublishRoute, PublishArtifact, Step, Quiet, Writes
  <2>2. \E t, f : dir' = [dir EXCEPT !.tmps = t, !.files = f]
    BY <2>1 DEF WithArtifact
  <2>3. dir'.hot = dir.hot
    BY <2>2 DEF StoreInvariant, Shapes, IsDirectory
  <2>4. safe'.synced = safe.synced /\ safe'.older = None
    BY <2>1 DEF StoreInvariant, Shapes, IsDevice
  <2>5. QED
    BY <2>1, <2>3, <2>4, QuietBudget, SyncedSame
<1>5. CASE RenameManifest
  <2>1. safe' = safe /\ dir'.hot = dir.hot /\ pc # "sync" /\ pc' # "sync" /\ UNCHANGED budget
    BY <1>5, RenameManifestKeeps DEF RenameManifest, Step, Quiet
  <2>2. QED
    BY <2>1, QuietBudget, SyncedSame
<1>6. CASE SyncManifest \/ RecycleSync
  <2>1. safe' = DirSync /\ dir' = dir /\ pc # "sync" /\ UNCHANGED budget
    BY <1>6 DEF SyncManifest, RecycleSync, Quiet, directory
  <2>2. pc' # "sync"
    BY <1>6 DEF SyncManifest, RecycleSync
  <2>3. QED
    BY <2>1, <2>2, DirSyncFields, QuietBudget, SyncedSame
<1>7. CASE Recycle
  <2>1. SUFFICES ASSUME Undisturbed' PROVE RecordsSynced'
    BY SyncedDisturbed
  <2>2. pc = "recycle" /\ pc' = "recycled" /\ UNCHANGED budget
    BY <1>7 DEF Recycle, Step, Quiet
  <2>3. Undisturbed /\ DeviceTrue
    BY <2>1, <2>2, QuietBudget DEF StoreInvariant
  <2>4. safe.older = None
    BY <2>2, <2>3 DEF DeviceTrue
  <2>5. dir.hot # None
    BY <2>2 DEF StoreInvariant, WriterTrue, Sealed
  <2>6. safe.synced = Len(dir.hot.txs)
    BY <2>2, <2>3, <2>5 DEF RecordsSynced
  <2>7. /\ dir'.hot # None /\ Len(dir'.hot.txs) \in 0..MaxCount - 1
        /\ safe'.synced = SyncedByRecycle(Len(dir'.hot.txs))
        /\ safe'.older = [hot |-> dir.hot, synced |-> safe.synced]
    BY <1>7, <2>4, RecycleKeeps
  <2>8. SyncedByRecycle(Len(dir'.hot.txs)) = Len(dir'.hot.txs)
    <3>1. ASSUME NEW n \in 0..MaxCount - 1 PROVE SyncedByRecycle(n) = n
      <4>1. n = 0 \/ n \in 1..MaxCount - 1
        OBVIOUS
      <4>2. n = 0 \/ RoundCapacity(n) > n
        BY <4>1 DEF LogReserved
      <4>3. QED
        BY <4>2 DEF SyncedByRecycle
    <3>2. QED
      BY <2>7, <3>1
  <2>9. safe'.older.hot = dir.hot /\ safe'.older.synced = safe.synced
    BY <2>7
  <2>10. QED
    BY <2>2, <2>6, <2>7, <2>8, <2>9 DEF RecordsSynced
<1>8. QED
  BY <1>1, <1>2, <1>3, <1>4, <1>5, <1>6, <1>7 DEF Generations

LEMMA SyncedKeeps ==
    ASSUME NoneIsNoFunction, LogReserved, StoreInvariant, RecordsSynced, Next
    PROVE  RecordsSynced'
<1>1. CASE Close
  <2>1. dir' = dir /\ safe' = safe /\ pc # "sync" /\ pc' # "sync" /\ UNCHANGED budget
    BY <1>1 DEF Close, Stop, directory
  <2>2. QED
    BY <2>1, QuietBudget, SyncedSame
<1>2. CASE ProcessCrash \/ PowerLoss
  <2>1. ~Undisturbed'
    <3>1. crashes \in Nat /\ MaxCrashes \in Nat
      BY StoreAssumption DEF StoreInvariant, Shapes
    <3>2. crashes < MaxCrashes /\ crashes' \in {crashes + 1, MaxCrashes}
      BY <1>2 DEF ProcessCrash, PowerLoss
    <3>3. crashes' # 0
      BY <3>1, <3>2
    <3>4. QED
      BY <3>3 DEF Undisturbed
  <2>2. QED
    BY <2>1, SyncedDisturbed
<1>3. QED
  BY <1>1, <1>2, SyncedOpening, SyncedReclaiming, SyncedAppending, SyncedGenerations DEF Next

-----------------------------------------------------------------------------
(* Acknowledged checkpoints survive *)

LEMMA WholePrefix ==
    ASSUME NEW s \in States
    PROVE  Prefix(s, Len(s.cps)) = s
<1>1. SubSeq(s.cps, 1, Len(s.cps)) = s.cps
  BY SubSeqFull DEF States
<1>2. QED
  BY <1>1 DEF States, Prefix

\* A prefix that reaches the end of mem holds what mem holds.
LEMMA PrefixHolds ==
    ASSUME NEW s \in States, NEW c \in Checkpoints, NEW t, t.cps = Append(s.cps, c), t \in States,
           NEW k \in 0..Len(t.cps), k >= Len(s.cps)
    PROVE  LiveOf(s) \subseteq LiveOf(Prefix(t, k))
<1>1. s.cps \in Seq(Checkpoints) /\ t.cps \in Seq(Checkpoints) /\ Len(s.cps) \in Nat /\ Len(t.cps) \in Nat
  BY DEF States
<1>2. \A i \in 1..Len(s.cps) : t.cps[i] = s.cps[i]
  BY <1>1, AppendProperties
<1> DEFINE q == SubSeq(t.cps, 1, k)
<1>3. Len(q) = k /\ \A i \in 1..k : q[i] = t.cps[i]
  <2>1. k \in Nat /\ \A i \in 1..k : i \in 1..Len(t.cps)
    BY <1>1
  <2>2. \A i \in 1..k : t.cps[i] \in Checkpoints
    BY <1>1, <2>1, ElementOfSeq
  <2>3. Len(q) = (IF 1 <= k THEN k - 1 + 1 ELSE 0) /\ \A i \in 1..k - 1 + 1 : q[i] = t.cps[1 + i - 1]
    BY <2>1, <2>2, SubSeqProperties
  <2> HIDE DEF q
  <2>4. \A i \in 1..k : i \in 1..k - 1 + 1 /\ 1 + i - 1 = i
    BY <2>1
  <2>5. QED
    BY <2>1, <2>3, <2>4
<1>4. Prefix(t, k).cps = q
  BY DEF Prefix
<1> HIDE DEF q
<1>5. \A i \in 1..Len(s.cps) : i \in 1..k
  BY <1>1
<1>6. ASSUME NEW i \in 1..Len(s.cps) PROVE s.cps[i] \in LiveOf(Prefix(t, k))
  <2>1. i \in 1..k /\ q[i] = s.cps[i]
    BY <1>2, <1>3, <1>5
  <2>2. QED
    BY <1>3, <1>4, <2>1 DEF LiveOf
<1>7. QED
  BY <1>6 DEF LiveOf

LEMMA AckedPowerLoss ==
    ASSUME NoneIsNoFunction, StoreInvariant, AckedTrue, RecordsSynced, PowerLoss
    PROVE  AckedTrue'
<1>1. Undisturbed /\ acked' = acked /\ pc' = "closed"
  BY PowerLossKeeps DEF PowerLoss, Stop
<1>2. PICK m, s, hot, b, n : OnDevice(m, s, hot, b, n) /\ Cut(auth', s, hot, b, n)
  BY PowerLossKeeps
<1>3. PICK k \in 0..Len(s.cps) :
        /\ auth' = Prefix(s, k)
        /\ hot = None => k = Len(s.cps)
        /\ hot # None => k >= b + n
        /\ hot # None /\ n = Len(hot.txs) => k = Len(s.cps)
  BY <1>2 DEF Cut
<1>4. /\ Stands(AsLoaded(m), hot, s, b)
      /\ s = auth \/ (s = mem /\ pc = "syncManifest")
      /\ pc = "sync" => b = man.count
      /\ \/ hot = dir.hot /\ n = safe.synced
         \/ safe.older # None /\ hot = safe.older.hot /\ n = safe.older.synced /\ pc = "recycled"
  BY <1>2 DEF OnDevice
<1>5. s \in States
  BY <1>4, StandsParts
<1>6. acked.live \subseteq LiveOf(s) /\ acked.deleted \subseteq s.deleted
  BY <1>4 DEF AckedTrue
<1>7. auth'.deleted = s.deleted
  BY <1>3 DEF Prefix
<1>8. acked.live \subseteq LiveOf(auth')
  <2>1. CASE k = Len(s.cps)
    BY <1>3, <1>5, <1>6, <2>1, WholePrefix
  <2>2. CASE k # Len(s.cps)
    <3>1. hot # None /\ n # Len(hot.txs) /\ k >= b + n
      BY <1>3, <2>2
    <3>2. pc = "sync" /\ hot = dir.hot /\ n = tail /\ s = auth /\ b = man.count
      BY <1>1, <1>4, <3>1 DEF RecordsSynced
    <3>3. Written
      BY <3>2 DEF StoreInvariant, WriterTrue
    <3>4. /\ mem \in States /\ auth = Applied(mem, <<job.tx>>) /\ Stands(man, dir.hot, auth, man.count)
          /\ tail \in Nat /\ tail + 1 = Len(dir.hot.txs) /\ dir.hot # None /\ TxTrue
      BY <3>3 DEF Written
    <3>5. PICK c \in Checkpoints : job.tx = Tx(Len(mem.cps), c)
      BY <3>4 DEF TxTrue
    <3>6. job.tx.cp = c
      BY <3>5 DEF Tx
    <3>7. /\ auth = [cps |-> Append(mem.cps, c), deleted |-> mem.deleted]
          /\ Len(auth.cps) = Len(mem.cps) + 1 /\ auth \in States
      BY <3>4, <3>6, AppliedOne
    <3>8. man.count \in Nat /\ Len(auth.cps) = man.count + (tail + 1) /\ Len(mem.cps) \in Nat
      <4>1. man.count \in Nat /\ Len(auth.cps) = Reach(man, dir.hot, man.count) /\ Len(auth.cps) \in Nat
        BY <3>4, StandsParts
      <4>2. Len(auth.cps) = IF man.count + (tail + 1) > man.count THEN man.count + (tail + 1) ELSE man.count
        BY <3>4, <4>1 DEF Reach
      <4>3. mem.cps \in Seq(Checkpoints)
        BY <3>4 DEF States
      <4>4. Len(auth.cps) = man.count + (tail + 1)
        BY <3>4, <4>1, <4>2
      <4>5. QED
        BY <4>1, <4>3, <4>4
    <3>9. k >= Len(mem.cps)
      <4>1. k \in Nat /\ k >= man.count + tail
        <5>1. k \in Nat
          BY <1>3, <1>5 DEF States
        <5>2. b + n = man.count + tail
          BY <3>2
        <5>3. QED
          BY <3>1, <5>1, <5>2
      <4>2. Len(mem.cps) = man.count + tail
        <5>1. Len(mem.cps) + 1 = man.count + (tail + 1)
          BY <3>7, <3>8, Zenon
        <5>2. Len(mem.cps) \in Nat /\ man.count \in Nat /\ tail \in Nat
          BY <3>4, <3>8
        <5>3. QED
          BY <5>1, <5>2
      <4>3. QED
        BY <4>1, <4>2
    <3>10. auth.cps = Append(mem.cps, c)
      BY <3>7
    <3>11. LiveOf(mem) \subseteq LiveOf(Prefix(auth, k))
      BY <3>2, <3>4, <3>7, <3>9, <3>10, PrefixHolds
    <3>12. acked.live \subseteq LiveOf(mem)
      BY <3>2 DEF AckedTrue
    <3>13. QED
      BY <1>3, <3>2, <3>11, <3>12
  <2>3. QED
    BY <2>1, <2>2
<1>9. QED
  BY <1>1, <1>6, <1>7, <1>8 DEF AckedTrue, Staging

LEMMA AckedKeeps ==
    ASSUME NoneIsNoFunction, StoreInvariant, AckedTrue, Next, "power" \in CrashKinds => RecordsSynced
    PROVE  AckedTrue'
<1>1. CASE Close \/ ProcessCrash
  <2>1. acked' = acked /\ pc' = "closed"
    BY <1>1 DEF Close, ProcessCrash, Stop
  <2>2. QED
    BY <1>1, <2>1, StoppingKeeps, AckedSame DEF Staging
<1>2. CASE PowerLoss
  BY <1>2, AckedPowerLoss DEF PowerLoss
<1>3. QED
  BY <1>1, <1>2, AckedOpening, AckedReclaiming, AckedAppending, AckedGenerations DEF Next

\* What is acknowledged, with the records that are on the device when a power
\* loss is possible.
AckedInvariant == StoreInvariant /\ AckedTrue /\ ("power" \in CrashKinds => RecordsSynced)

\* A checkpoint or a tombstone a caller was told of is recovered from every
\* directory a kill leaves, and from every one a power loss leaves provided no
\* recycled log fills its reserve to the last byte.  (Without the proviso the
\* suffix recycle_hot_file copied may never be synced.)
THEOREM AckedSurvivesStops ==
    ASSUME NoneIsNoFunction, "power" \in CrashKinds => LogReserved
    PROVE  Spec => []AckedSurvives
<1>1. Init => AckedInvariant
  <2>1. SUFFICES ASSUME Init PROVE AckedInvariant
    OBVIOUS
  <2>2. AckedTrue
    BY <2>1 DEF Init, AckedTrue, Staging
  <2>3. RecordsSynced
    BY <2>1 DEF Init, RecordsSynced, EmptyDirectory
  <2>4. QED
    BY <2>1, <2>2, <2>3, InitKeeps DEF AckedInvariant
<1>2. AckedInvariant /\ [Next]_vars => AckedInvariant'
  <2>1. SUFFICES ASSUME AckedInvariant, [Next]_vars PROVE AckedInvariant'
    OBVIOUS
  <2>2. CASE Next
    BY <2>1, <2>2, NextKeeps, AckedKeeps, SyncedKeeps DEF AckedInvariant
  <2>3. CASE UNCHANGED vars
    <3>1. StoreInvariant'
      BY <2>1, <2>3, StutterKeeps DEF AckedInvariant
    <3>2. AckedTrue'
      BY <2>1, <2>3 DEF AckedInvariant, AckedTrue, vars, directory, writerVars
    <3>3. RecordsSynced => RecordsSynced'
      BY <2>3 DEF RecordsSynced, Undisturbed, vars, directory, writerVars, budget
    <3>4. QED
      BY <2>1, <3>1, <3>2, <3>3 DEF AckedInvariant
  <2>4. QED
    BY <2>1, <2>2, <2>3
<1>3. AckedInvariant => AckedSurvives
  BY AuthorityIsState DEF AckedInvariant, AckedTrue, AckedSurvives
<1>4. QED
  BY <1>1, <1>2, <1>3, PTL DEF Spec
=============================================================================
