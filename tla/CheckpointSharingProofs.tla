----------------------- MODULE CheckpointSharingProofs -----------------------
(***************************************************************************)
(* A reader that holds the lease keeps its files and sees nothing that was *)
(* deleted before it began, beside a writer that seals and deletes and a   *)
(* worker that reclaims, for every set of keys and values and every bound. *)
(*                                                                         *)
(* The worker may take files away that the manifest refers to, so that the *)
(* invariant of CheckpointStoreProofs does not hold here.  What is left of *)
(* it speaks of the manifest and the log alone: they stand for a state     *)
(* none of whose checkpoints is deleted, whether its files are there or    *)
(* not.                                                                    *)
(***************************************************************************)
EXTENDS CheckpointSharing, CheckpointStoreProofs

-----------------------------------------------------------------------------
(* The invariant *)

\* No checkpoint of the state is deleted.
Clean(s) == \A i \in 1..Len(s.cps) : s.cps[i].key \notin s.deleted

SharedDirectory ==
    /\ IsDirectory(dir)
    /\ \E t, b : Stands(Loaded(dir), dir.hot, t, b) /\ Clean(t)

\* The writer has the manifest and the log of the directory.
InStep ==
    /\ dir.manifest = man /\ dir.hot # None /\ tail = Len(dir.hot.txs)
    /\ Stands(man, dir.hot, mem, man.count) /\ Clean(mem)

\* The record is in the log and not yet in memory.
RecordWritten ==
    /\ dir.manifest = man /\ dir.hot # None
    /\ tail \in Nat /\ tail + 1 = Len(dir.hot.txs)
    /\ Stands(man, dir.hot, Applied(mem, <<job.tx>>), man.count)
    /\ Clean(Applied(mem, <<job.tx>>))

\* The generation being published follows the one there is.
Generation ==
    /\ job.kind \in {"seal", "prune", "reidentify"} /\ job.drop \in Nat
    /\ Stands(job.manifest, dir.hot, job.state, job.manifest.count - job.drop)
    /\ Clean(job.state)
    /\ man.gen <= job.manifest.gen /\ man.deleted \subseteq job.manifest.deleted
    /\ job.kind # "reidentify" => job.entry.gen = man.gen + 1
    /\ job.kind = "seal" => /\ job.drop \in 1..tail /\ job.state = mem
                            /\ job.tx = None \/ TxTrue
    /\ job.kind # "seal" => job.drop = 0

\* The log still has the prefix that was sealed.
LongLog ==
    /\ dir.manifest = man /\ dir.hot # None /\ tail = Len(dir.hot.txs)
    /\ job.drop \in 1..tail
    /\ Stands(man, dir.hot, mem, man.count - job.drop) /\ Clean(mem)
    /\ job.tx = None \/ TxTrue

ShortLog ==
    /\ dir.manifest = man /\ dir.hot # None /\ tail - job.drop = Len(dir.hot.txs)
    /\ Stands(man, dir.hot, mem, man.count) /\ Clean(mem)
    /\ job.tx = None \/ TxTrue

SharedWriter ==
    /\ pc = "initManifest" => dir.manifest = None /\ man = DefaultManifest
    /\ pc \in {"initSync", "materialize"} => dir.manifest = man /\ man # None
    /\ pc \in {"initManifest", "initSync", "materialize"} => job.kind = "open" /\ IsJob(job)
    /\ pc \in {"openHot", "openLog", "openRecycled"} => Opened
    /\ pc \in {"openLog", "openRecycled"} => dir.hot # None
    /\ pc = "idle" /\ ~poisoned => InStep
    /\ pc \in {"reclaim", "delete"} =>
          /\ IsJob(job) /\ job.kind \in {"open", "reclaim", "prune"}
          /\ job.kind = "open" => Opened
          /\ job.kind # "open" => InStep
    /\ pc = "write" => InStep /\ TxTrue
    /\ pc = "sync" => RecordWritten
    /\ pc \in Staging => IsJob(job) /\ InStep /\ Generation
    /\ pc \in Staging /\ job.kind = "reidentify" => pc \in {"stageManifest", "publishManifest"}
    /\ pc = "syncManifest" =>
          /\ IsJob(job) /\ Generation
          /\ dir.manifest = job.manifest /\ dir.hot # None /\ tail = Len(dir.hot.txs)
    /\ pc = "recycle" => LongLog
    /\ pc = "recycled" => ShortLog
    /\ poisoned => pc = "idle"
    /\ poisoned \in BOOLEAN

\* Acknowledged deletions are in the manifest.
SharedAcks ==
    /\ acked = [live |-> acked.live, deleted |-> acked.deleted]
    /\ acked.deleted \subseteq Loaded(dir).deleted

SharedStore == SharedDirectory /\ SharedWriter /\ SharedAcks

Reading == {"loaded", "segments", "open"}

\* Who holds the gate.
Gates ==
    /\ gate = "writer" <=> pc = "delete"
    /\ gate = "worker" <=> wkr.at = "delete"
    /\ gate = "shared" <=> rdr.at \in Reading \cup {"leased"}

SharedReader ==
    /\ rdr = [at |-> rdr.at, man |-> rdr.man, since |-> rdr.since]
    /\ rdr.at = "leased" => rdr.since.deleted \subseteq Loaded(dir).deleted
    /\ rdr.at \in Reading =>
          /\ GoodManifest(rdr.man) /\ rdr.man.gen <= Loaded(dir).gen
          /\ ManifestHolds(dir, rdr.man)
          /\ Clean(SealedState(rdr.man)) /\ rdr.since.deleted \subseteq rdr.man.deleted

SharingInvariant ==
    /\ SharedStore
    /\ Gates
    /\ SharedReader
    /\ wkr = [at |-> wkr.at, man |-> wkr.man, removed |-> wkr.removed]

-----------------------------------------------------------------------------
(* What the writer does to the directory under a reader *)

Adds(name, gen, cps) ==
    /\ gen \in Nat /\ Loaded(dir).gen < gen
    /\ dir'.files = [a \in DOMAIN dir.files \cup {<<name, gen>>} |->
                       IF a = <<name, gen>> THEN cps ELSE dir.files[a]]

\* Only under its own gate does it take a file away; a file it adds belongs to
\* a generation to come.
FilesMove ==
    \/ dir'.files = dir.files
    \/ pc = "delete"
    \/ \E name, gen, cps : Adds(name, gen, cps)

Forward ==
    /\ Loaded(dir).gen <= Loaded(dir').gen
    /\ Loaded(dir).deleted \subseteq Loaded(dir').deleted
    /\ FilesMove

-----------------------------------------------------------------------------
(* Clean states *)

LEMMA CleanApplied ==
    ASSUME NEW t \in States, NEW c \in Checkpoints, NEW x, x.cp = c, Clean(t),
           c.key \notin t.deleted
    PROVE  Clean(Applied(t, <<x>>))
<1> DEFINE u == Applied(t, <<x>>)
<1>1. u.cps = Append(t.cps, c) /\ u.deleted = t.deleted
  <2>1. u = [cps |-> Append(t.cps, c), deleted |-> t.deleted]
    BY AppliedOne
  <2> HIDE DEF u
  <2>2. QED
    BY <2>1
<1>2. t.cps \in Seq(Checkpoints)
  BY DEF States
<1> HIDE DEF u
<1>3. ASSUME NEW i \in 1..Len(u.cps) PROVE u.cps[i].key \notin u.deleted
  <2>1. CASE i = Len(t.cps) + 1
    BY <1>1, <1>2, <2>1
  <2>2. CASE i # Len(t.cps) + 1
    <3>1. i \in 1..Len(t.cps) /\ u.cps[i] = t.cps[i]
      BY <1>1, <1>2, <2>2
    <3>2. QED
      BY <1>1, <3>1 DEF Clean
  <2>3. QED
    BY <2>1, <2>2
<1>4. QED
  BY <1>3 DEF Clean, u

LEMMA CleanLive ==
    ASSUME NEW s
    PROVE  Clean(s) <=> \A c \in LiveOf(s) : c.key \notin s.deleted
BY DEF Clean, LiveOf

LEMMA CleanPruned ==
    ASSUME NEW s \in States, NEW K \in SUBSET Keys, Clean(s)
    PROVE  Clean(Compacted(s, K))
<1> DEFINE u == Compacted(s, K)
<1>1. LiveOf(u) = Surviving(LiveOf(s), K) /\ u.deleted = s.deleted \cup K
  BY CompactedLive
<1> HIDE DEF u
<1>2. \A c \in LiveOf(s) : c.key \notin s.deleted
  BY CleanLive
<1>3. \A c \in LiveOf(u) : c.key \notin u.deleted
  BY <1>1, <1>2 DEF Surviving
<1>4. Clean(u)
  BY <1>3, CleanLive
<1>5. QED
  BY <1>4 DEF u

LEMMA CleanSealed ==
    ASSUME NEW m, NEW hot, NEW t, NEW b, Stands(m, hot, t, b), Clean(t)
    PROVE  Clean(SealedState(m)) /\ SealedState(m).deleted = m.deleted
<1>1. /\ t.cps \in Seq(Checkpoints) /\ t.deleted = m.deleted /\ m.count \in Nat
      /\ m.count <= Len(t.cps) /\ SealedState(m).cps = SubSeq(t.cps, 1, m.count)
  BY StandsParts
<1>2. SealedState(m).deleted = m.deleted
  BY DEF SealedState
<1> DEFINE s == SealedState(m)
<1> HIDE DEF s
<1>3. /\ Len(SubSeq(t.cps, 1, m.count)) = m.count
      /\ \A i \in 1..m.count : SubSeq(t.cps, 1, m.count)[i] = t.cps[i] /\ i \in 1..Len(t.cps)
  BY <1>1
<1>4. QED
  BY <1>1, <1>2, <1>3 DEF Clean

-----------------------------------------------------------------------------
(* The writer at each of its steps *)

LEMMA HereClosed ==
    ASSUME pc' = "closed", poisoned' = FALSE
    PROVE  SharedWriter'
BY DEF SharedWriter, Staging

LEMMA HereIdle ==
    ASSUME pc' = "idle", poisoned' \in BOOLEAN, ~poisoned' => InStep'
    PROVE  SharedWriter'
BY DEF SharedWriter, Staging

LEMMA HereInitManifest ==
    ASSUME pc' = "initManifest", poisoned' = FALSE, dir'.manifest = None, man' = DefaultManifest,
           job'.kind = "open", IsJob(job')
    PROVE  SharedWriter'
BY DEF SharedWriter, Staging

LEMMA HereLoading ==
    ASSUME pc' \in {"initSync", "materialize"}, poisoned' = FALSE, dir'.manifest = man', man' # None,
           job'.kind = "open", IsJob(job')
    PROVE  SharedWriter'
BY DEF SharedWriter, Staging

LEMMA HereOpening ==
    ASSUME pc' \in {"openHot", "openLog", "openRecycled"}, poisoned' = FALSE, Opened',
           pc' # "openHot" => dir'.hot # None
    PROVE  SharedWriter'
BY DEF SharedWriter, Staging

LEMMA HereReclaim ==
    ASSUME pc' \in {"reclaim", "delete"}, poisoned' = FALSE, IsJob(job'),
           job'.kind \in {"open", "reclaim", "prune"},
           job'.kind = "open" => Opened', job'.kind # "open" => InStep'
    PROVE  SharedWriter'
BY DEF SharedWriter, Staging

LEMMA HereWrite ==
    ASSUME pc' = "write", poisoned' = FALSE, InStep', TxTrue'
    PROVE  SharedWriter'
BY DEF SharedWriter, Staging

LEMMA HereSync ==
    ASSUME pc' = "sync", poisoned' = FALSE, RecordWritten'
    PROVE  SharedWriter'
BY DEF SharedWriter, Staging

LEMMA HereStaging ==
    ASSUME pc' \in Staging, poisoned' = FALSE, IsJob(job'), InStep', Generation',
           job'.kind = "reidentify" => pc' \in {"stageManifest", "publishManifest"}
    PROVE  SharedWriter'
BY DEF SharedWriter, Staging

LEMMA HerePublished ==
    ASSUME poisoned' = FALSE,
           \/ /\ pc' = "syncManifest" /\ IsJob(job') /\ Generation'
              /\ dir'.manifest = job'.manifest /\ dir'.hot # None /\ tail' = Len(dir'.hot.txs)
           \/ pc' = "recycle" /\ LongLog'
           \/ pc' = "recycled" /\ ShortLog'
    PROVE  SharedWriter'
BY DEF SharedWriter, Staging

LEMMA Unpoisoned ==
    ASSUME SharedStore, pc # "idle"
    PROVE  poisoned = FALSE
BY DEF SharedStore, SharedWriter

-----------------------------------------------------------------------------
(* Steps by what they do to manifest and log *)

LEMMA LoadedTyped ==
    ASSUME SharedDirectory
    PROVE  /\ GoodManifest(Loaded(dir)) /\ Loaded(dir) \in Manifests /\ Loaded(dir).gen \in Nat
           /\ Clean(SealedState(Loaded(dir)))
<1>1. PICK t, b : Stands(Loaded(dir), dir.hot, t, b) /\ Clean(t)
  BY DEF SharedDirectory
<1>2. QED
  BY <1>1, StandsParts, CleanSealed

\* A new manifest or a new log.
LEMMA MovedDirectory ==
    ASSUME SharedStore, IsDirectory(dir'), NEW t, NEW b, Stands(Loaded(dir'), dir'.hot, t, b),
           Clean(t), Forward, SharedWriter', acked' = acked
    PROVE  SharedStore'
<1>1. SharedDirectory'
  BY DEF SharedDirectory
<1>2. SharedAcks'
  BY DEF SharedStore, SharedAcks, Forward
<1>3. QED
  BY <1>1, <1>2 DEF SharedStore

\* Only files change.
LEMMA MovedFiles ==
    ASSUME SharedStore, IsDirectory(dir'), dir'.manifest = dir.manifest, dir'.hot = dir.hot,
           FilesMove, SharedWriter', acked' = acked
    PROVE  SharedStore' /\ Forward
<1>1. Loaded(dir') = Loaded(dir)
  BY DEF Loaded
<1>2. Forward
  BY <1>1, LoadedTyped DEF Forward, SharedStore
<1>3. PICK t, b : Stands(Loaded(dir), dir.hot, t, b) /\ Clean(t)
  BY DEF SharedStore, SharedDirectory
<1>4. Stands(Loaded(dir'), dir'.hot, t, b)
  BY <1>1, <1>3
<1>5. QED
  BY <1>2, <1>3, <1>4, MovedDirectory

LEMMA MovedNothing ==
    ASSUME SharedStore, dir' = dir, SharedWriter', acked' = acked
    PROVE  SharedStore' /\ Forward
BY MovedFiles DEF SharedStore, SharedDirectory, FilesMove

LEMMA InStepSame ==
    ASSUME InStep, dir'.manifest = dir.manifest, dir'.hot = dir.hot, UNCHANGED <<mem, man, tail>>
    PROVE  InStep'
BY DEF InStep

LEMMA GenerationSame ==
    ASSUME Generation, dir'.hot = dir.hot, UNCHANGED <<mem, man, tail, job>>
    PROVE  Generation'
<1>1. TxTrue' = TxTrue
  BY DEF TxTrue, Prepared
<1>2. QED
  BY <1>1 DEF Generation

LEMMA InStepLoaded ==
    ASSUME NoneIsNoFunction, InStep
    PROVE  /\ Loaded(dir) = man /\ man \in Manifests /\ man # None
           /\ man.gen \in Nat /\ man.count \in Nat /\ mem \in States
<1>1. dir.manifest = man /\ Stands(man, dir.hot, mem, man.count)
  BY DEF InStep
<1>2. man \in Manifests /\ man.gen \in Nat /\ man.count \in Nat /\ mem \in States
  BY <1>1, StandsParts
<1>3. QED
  BY <1>1, <1>2, ManifestIsSome DEF Loaded

\* The call returns, or the handle is poisoned or dropped.
LEMMA EndsHere ==
    ASSUME SharedStore, pc # "idle", dir'.manifest = dir.manifest, dir'.hot = dir.hot,
           Stop \/ Poison \/ (Return /\ InStep)
    PROVE  SharedWriter'
<1>1. CASE Stop
  BY <1>1, HereClosed DEF Stop
<1>2. CASE Poison
  BY <1>2, HereIdle DEF Poison
<1>3. CASE Return /\ InStep
  BY <1>3, Unpoisoned, InStepSame, HereIdle DEF Return
<1>4. QED
  BY <1>1, <1>2, <1>3

-----------------------------------------------------------------------------
(* Opening *)

LEMMA OpenLoadShared ==
    ASSUME NoneIsNoFunction, SharedStore, OpenLoad
    PROVE  SharedStore' /\ Forward
<1>1. /\ pc = "closed" /\ man' = Loaded(dir) /\ poisoned' = poisoned /\ dir' = dir /\ acked' = acked
      /\ pc' = IF dir.manifest = None THEN "initManifest" ELSE "materialize"
      /\ job' = [Job("open") EXCEPT !.manifest = man']
  BY DEF OpenLoad, Quiet, directory
<1>2. IsJob(job') /\ job'.kind = "open"
  BY <1>1 DEF Job, IsJob
<1>3. poisoned' = FALSE
  BY <1>1, Unpoisoned
<1>4. CASE dir.manifest = None
  <2>1. SharedWriter'
    BY <1>1, <1>2, <1>3, <1>4, HereInitManifest DEF Loaded
  <2>2. QED
    BY <1>1, <2>1, MovedNothing
<1>5. CASE dir.manifest # None
  <2>1. SharedWriter'
    BY <1>1, <1>2, <1>3, <1>5, HereLoading DEF Loaded
  <2>2. QED
    BY <1>1, <2>1, MovedNothing
<1>6. QED
  BY <1>4, <1>5

LEMMA InitManifestShared ==
    ASSUME NoneIsNoFunction, SharedStore, InitManifest
    PROVE  SharedStore' /\ Forward
<1> DEFINE m == [DefaultManifest EXCEPT !.id = 1]
           d == [dir EXCEPT !.manifest = m]
<1>1. pc = "initManifest" /\ pc' = "initSync" /\ acked' = acked /\ UNCHANGED <<poisoned, job>>
  BY DEF InitManifest, Quiet
<1>2. /\ dir.manifest = None /\ man = DefaultManifest /\ job.kind = "open" /\ IsJob(job)
      /\ poisoned = FALSE
  BY <1>1, Unpoisoned DEF SharedStore, SharedWriter
<1>3. man' = m /\ dir' = d
  BY <1>2 DEF InitManifest, Writes
<1>4. m # None /\ m.gen = 0 /\ m.deleted = {} /\ m.count = 0
  BY DEF DefaultManifest, NoneIsNoFunction
<1>5. PICK t, b : Stands(DefaultManifest, dir.hot, t, b) /\ Clean(t)
  BY <1>2 DEF SharedStore, SharedDirectory, Loaded
<1>6. Stands(m, dir.hot, t, b)
  BY <1>5, StandsIdentity
<1> HIDE DEF m
<1>7. IsDirectory(d) /\ d.manifest = m /\ d.hot = dir.hot /\ d.files = dir.files
  BY DEF SharedStore, SharedDirectory, IsDirectory
<1> HIDE DEF d
<1>8. Loaded(dir) = DefaultManifest /\ Loaded(dir') = m
  BY <1>2, <1>3, <1>4, <1>7 DEF Loaded
<1>9. Forward
  BY <1>3, <1>4, <1>7, <1>8 DEF Forward, FilesMove, DefaultManifest
<1>10. SharedWriter'
  BY <1>1, <1>2, <1>3, <1>4, <1>7, HereLoading
<1>11. QED
  BY <1>1, <1>3, <1>5, <1>6, <1>7, <1>8, <1>9, <1>10, MovedDirectory

LEMMA InitSyncShared ==
    ASSUME SharedStore, InitSync
    PROVE  SharedStore' /\ Forward
<1>1. /\ pc = "initSync" /\ pc' = "materialize" /\ dir' = dir /\ acked' = acked
      /\ UNCHANGED <<man, poisoned, job>>
  BY DEF InitSync, Step, Quiet, directory
<1>2. dir.manifest = man /\ man # None /\ job.kind = "open" /\ IsJob(job) /\ poisoned = FALSE
  BY <1>1, Unpoisoned DEF SharedStore, SharedWriter
<1>3. QED
  BY <1>1, <1>2, HereLoading, MovedNothing

LEMMA MaterializeShared ==
    ASSUME SharedStore, Materialize
    PROVE  SharedStore' /\ Forward
<1>1. /\ pc = "materialize" /\ pc' = "reclaim" /\ dir' = dir /\ acked' = acked
      /\ mem' = SealedState(man) /\ UNCHANGED <<man, poisoned, job>>
  BY DEF Materialize, Quiet, directory
<1>2. dir.manifest = man /\ man # None /\ job.kind = "open" /\ IsJob(job) /\ poisoned = FALSE
  BY <1>1, Unpoisoned DEF SharedStore, SharedWriter
<1>3. Opened'
  BY <1>1, <1>2 DEF Opened
<1>4. SharedWriter'
  BY <1>1, <1>2, <1>3, HereReclaim
<1>5. QED
  BY <1>1, <1>4, MovedNothing

\* The log is replaced by one that stands for the same state.
LEMMA MovedLog ==
    ASSUME SharedStore, NEW h, Writes([dir EXCEPT !.hot = h]), NEW t, NEW b,
           Stands(Loaded(dir), h, t, b), Clean(t)
    PROVE  /\ Forward /\ IsDirectory(dir') /\ dir'.manifest = dir.manifest /\ dir'.hot = h
           /\ SharedWriter' /\ acked' = acked => SharedStore'
<1> DEFINE d == [dir EXCEPT !.hot = h]
<1>1. dir' = d
  BY DEF Writes
<1>2. IsDirectory(d) /\ d.manifest = dir.manifest /\ d.hot = h /\ d.files = dir.files
  BY DEF SharedStore, SharedDirectory, IsDirectory
<1> HIDE DEF d
<1>3. Loaded(dir') = Loaded(dir)
  BY <1>1, <1>2 DEF Loaded
<1>4. Forward
  BY <1>1, <1>2, <1>3, LoadedTyped DEF Forward, FilesMove, SharedStore
<1>5. QED
  BY <1>1, <1>2, <1>3, <1>4, MovedDirectory

LEMMA OpenedLoaded ==
    ASSUME SharedStore, Opened
    PROVE  Loaded(dir) = man /\ \E t, b : Stands(man, dir.hot, t, b) /\ Clean(t)
<1>1. Loaded(dir) = man
  BY DEF Opened, Loaded
<1>2. QED
  BY <1>1 DEF SharedStore, SharedDirectory

LEMMA OpenHotShared ==
    ASSUME NoneIsNoFunction, SharedStore, OpenHot
    PROVE  SharedStore' /\ Forward
<1>1. /\ pc = "openHot" /\ pc' = "openLog" /\ UNCHANGED <<mem, man, poisoned, acked>>
  BY DEF OpenHot, Step, Quiet
<1>2. Opened /\ poisoned = FALSE
  BY <1>1, Unpoisoned DEF SharedStore, SharedWriter
<1>3. CASE dir.hot # None
  <2>1. dir' = dir
    BY <1>3 DEF OpenHot, directory
  <2>2. Opened'
    BY <1>1, <1>2, <2>1 DEF Opened
  <2>3. QED
    BY <1>1, <1>2, <1>3, <2>1, <2>2, HereOpening, MovedNothing
<1>4. CASE dir.hot = None
  <2>1. Writes([dir EXCEPT !.hot = EmptyLog])
    BY <1>4 DEF OpenHot
  <2>2. EmptyLog # None
    BY DEF EmptyLog, NoneIsNoFunction
  <2>3. PICK t, b : Stands(man, None, t, b) /\ Clean(t)
    BY <1>2, <1>4, OpenedLoaded
  <2>4. Stands(Loaded(dir), EmptyLog, t, man.count)
    BY <1>2, <2>3, StandsEmpty, OpenedLoaded
  <2>5. /\ Forward /\ dir'.manifest = dir.manifest /\ dir'.hot = EmptyLog
        /\ SharedWriter' /\ acked' = acked => SharedStore'
    BY <2>1, <2>3, <2>4, MovedLog
  <2>6. Opened'
    BY <1>1, <1>2, <2>5 DEF Opened
  <2>7. SharedWriter'
    BY <1>1, <1>2, <2>2, <2>5, <2>6, HereOpening
  <2>8. QED
    BY <1>1, <2>5, <2>7
<1>5. QED
  BY <1>3, <1>4

LEMMA OpenRecycleShared ==
    ASSUME NoneIsNoFunction, SharedStore, OpenRecycle
    PROVE  SharedStore' /\ Forward
<1> DEFINE k == Overlap(dir.hot, man)
           h == Recycled(dir.hot.txs, k)
<1>1. /\ pc = "openLog" /\ pc' = "openRecycled" /\ k > 0
      /\ Writes([dir EXCEPT !.hot = Recycled(ParsedFrom(dir.hot, PreviousCount(man)), k)])
      /\ UNCHANGED <<mem, man, poisoned, acked>>
  BY DEF OpenRecycle, ReplaceLog, Step, Quiet
<1>2. Opened /\ poisoned = FALSE /\ dir.hot # None
  BY <1>1, Unpoisoned DEF SharedStore, SharedWriter
<1>3. Loaded(dir) = man
  BY <1>2, OpenedLoaded
<1>4. PICK t, b : Stands(man, dir.hot, t, b) /\ Clean(t)
  BY <1>2, OpenedLoaded
<1>5. /\ ParsedFrom(dir.hot, PreviousCount(man)) = dir.hot.txs
      /\ k \in 1..Len(dir.hot.txs)
      /\ k = IF man.count - b <= Len(dir.hot.txs) THEN man.count - b ELSE Len(dir.hot.txs)
  BY <1>1, <1>2, <1>4, StandsLog
<1> HIDE DEF k
<1>6. man.count \in Nat /\ b \in Nat /\ Len(dir.hot.txs) \in Nat
  BY <1>2, <1>4, StandsParts
<1>7. k \in Nat /\ k <= Len(dir.hot.txs) /\ (k = man.count - b \/ (k = Len(dir.hot.txs) /\ k <= man.count - b))
  BY <1>5, <1>6
<1>8. h # None /\ Stands(man, h, t, man.count)
  BY <1>2, <1>4, <1>7, StandsRecycle
<1>9. Writes([dir EXCEPT !.hot = h])
  BY <1>1, <1>5
<1> HIDE DEF h
<1>10. /\ Forward /\ dir'.manifest = dir.manifest /\ dir'.hot = h
       /\ SharedWriter' /\ acked' = acked => SharedStore'
  BY <1>3, <1>4, <1>8, <1>9, MovedLog
<1>11. Opened'
  BY <1>1, <1>2, <1>10 DEF Opened
<1>12. SharedWriter'
  BY <1>1, <1>2, <1>8, <1>10, <1>11, HereOpening
<1>13. QED
  BY <1>1, <1>10, <1>12

LEMMA OpenRecycleSyncShared ==
    ASSUME SharedStore, OpenRecycleSync
    PROVE  SharedStore' /\ Forward
<1>1. /\ pc = "openRecycled" /\ pc' = "openLog" /\ dir' = dir
      /\ UNCHANGED <<mem, man, poisoned, acked>>
  BY DEF OpenRecycleSync, Step, Quiet, directory
<1>2. Opened /\ poisoned = FALSE /\ dir.hot # None
  BY <1>1, Unpoisoned DEF SharedStore, SharedWriter
<1>3. Opened'
  BY <1>1, <1>2 DEF Opened
<1>4. QED
  BY <1>1, <1>2, <1>3, HereOpening, MovedNothing

LEMMA OpenReplayShared ==
    ASSUME NoneIsNoFunction, SharedStore, OpenReplay
    PROVE  SharedStore' /\ Forward
<1>1. /\ pc = "openLog" /\ pc' = "idle" /\ Overlap(dir.hot, man) = 0
      /\ mem' = Replayed(mem, ParsedFrom(dir.hot, man.count))
      /\ tail' = Len(ParsedFrom(dir.hot, man.count))
      /\ dir' = dir /\ UNCHANGED <<man, poisoned, acked>>
  BY DEF OpenReplay, Quiet, directory
<1>2. Opened /\ poisoned = FALSE /\ dir.hot # None
  BY <1>1, Unpoisoned DEF SharedStore, SharedWriter
<1>3. PICK t, b : Stands(man, dir.hot, t, b) /\ Clean(t)
  BY <1>2, OpenedLoaded
<1>4. Stands(man, dir.hot, t, man.count) /\ ParsedFrom(dir.hot, man.count) = dir.hot.txs
  BY <1>1, <1>2, <1>3, StandsNoOverlap
<1>5. mem' = t
  <2>1. /\ t \in States /\ man \in Manifests /\ man.count \in Nat /\ t.deleted = man.deleted
        /\ Len(t.cps) \in Nat /\ man.count <= Len(t.cps) /\ InOrder(t, man.count)
        /\ SealedState(man).cps = SubSeq(t.cps, 1, man.count)
        /\ dir.hot.txs \in Seq(Transactions) /\ Len(dir.hot.txs) \in Nat
        /\ Spells(dir.hot, t, man.count) /\ Len(t.cps) = Reach(man, dir.hot, man.count)
    BY <1>2, <1>4, StandsParts
  <2>2. SealedState(man) \in States
    BY <2>1, SealedTyped
  <2>3. SealedState(man).deleted = t.deleted
    BY <2>1 DEF SealedState
  <2>4. Len(dir.hot.txs) = Len(t.cps) - man.count
    BY <1>2, <2>1 DEF Reach
  <2>5. \A i \in 1..Len(dir.hot.txs) : dir.hot.txs[i] = Tx(man.count + i - 1, t.cps[man.count + i])
    BY <2>1 DEF Spells
  <2>6. man.count \in 0..Len(t.cps)
    BY <2>1
  <2>7. Replayed(SealedState(man), dir.hot.txs) = t
    BY <2>1, <2>2, <2>3, <2>4, <2>5, <2>6, ReplayGives
  <2>8. QED
    BY <1>1, <1>2, <1>4, <2>7 DEF Opened
<1>6. InStep'
  BY <1>1, <1>2, <1>3, <1>4, <1>5 DEF InStep, Opened
<1>7. SharedWriter'
  BY <1>1, <1>2, <1>6, HereIdle
<1>8. QED
  BY <1>1, <1>7, MovedNothing

LEMMA OpeningShared ==
    ASSUME NoneIsNoFunction, SharedStore, Opening
    PROVE  SharedStore' /\ Forward
<1>1. CASE OpenFails
  <2>1. pc # "idle" /\ Stop /\ dir' = dir /\ acked' = acked
    BY <1>1 DEF OpenFails, directory
  <2>2. QED
    BY <2>1, EndsHere, MovedNothing
<1>2. QED
  BY <1>1, OpenLoadShared, InitManifestShared, InitSyncShared, MaterializeShared, OpenHotShared,
     OpenRecycleShared, OpenRecycleSyncShared, OpenReplayShared, Zenon DEF Opening

-----------------------------------------------------------------------------
(* Reclaiming *)

LEMMA BeginReclaimShared ==
    ASSUME SharedStore, BeginReclaim
    PROVE  SharedStore' /\ Forward
<1>1. /\ pc = "idle" /\ ~poisoned /\ poisoned' = FALSE /\ pc' = "reclaim" /\ job' = Job("reclaim")
      /\ dir' = dir /\ UNCHANGED <<mem, man, tail, acked>>
  BY DEF BeginReclaim, Ready, Quiet, SharedStore, SharedWriter, directory
<1>2. InStep'
  BY <1>1, InStepSame DEF SharedStore, SharedWriter
<1>3. IsJob(job') /\ job'.kind = "reclaim"
  BY <1>1 DEF Job, IsJob
<1>4. QED
  BY <1>1, <1>2, <1>3, HereReclaim, MovedNothing

LEMMA ReclaimHas ==
    ASSUME SharedStore, pc \in {"reclaim", "delete"}
    PROVE  /\ IsJob(job) /\ job.kind \in {"open", "reclaim", "prune"} /\ poisoned = FALSE
           /\ job.kind = "open" => Opened
           /\ job.kind # "open" => InStep
BY Unpoisoned DEF SharedStore, SharedWriter

LEMMA ReclaimGateShared ==
    ASSUME SharedStore, ReclaimGate
    PROVE  SharedStore' /\ Forward
<1>1. /\ pc = "reclaim" /\ pc' = "delete" /\ dir' = dir
      /\ UNCHANGED <<mem, man, tail, poisoned, job, acked>>
  BY DEF ReclaimGate, Step, directory
<1>2. /\ IsJob(job) /\ job.kind \in {"open", "reclaim", "prune"} /\ poisoned = FALSE
      /\ job.kind = "open" => Opened
      /\ job.kind # "open" => InStep
  BY <1>1, ReclaimHas
<1>3. job.kind = "open" => Opened'
  BY <1>1, <1>2 DEF Opened
<1>4. job.kind # "open" => InStep'
  BY <1>1, <1>2, InStepSame
<1>5. QED
  BY <1>1, <1>2, <1>3, <1>4, HereReclaim, MovedNothing

\* Removing a file leaves manifest and log.
LEMMA Removed ==
    ASSUME SharedStore, NEW m,
           \/ \E a \in Unreferenced(dir, m) :
                Writes([dir EXCEPT !.files = [x \in DOMAIN @ \ {a} |-> @[x]]])
           \/ \E t \in dir.tmps : Writes([dir EXCEPT !.tmps = @ \ {t}])
    PROVE  IsDirectory(dir') /\ dir'.manifest = dir.manifest /\ dir'.hot = dir.hot
<1>1. IsDirectory(dir)
  BY DEF SharedStore, SharedDirectory
<1>2. ASSUME NEW x, dir' = [dir EXCEPT !.files = x]
      PROVE  IsDirectory(dir') /\ dir'.manifest = dir.manifest /\ dir'.hot = dir.hot
  BY <1>1, <1>2 DEF IsDirectory
<1>3. ASSUME NEW x, dir' = [dir EXCEPT !.tmps = x]
      PROVE  IsDirectory(dir') /\ dir'.manifest = dir.manifest /\ dir'.hot = dir.hot
  BY <1>1, <1>3 DEF IsDirectory
<1>4. ASSUME NEW a, dir' = [dir EXCEPT !.files = [x \in DOMAIN @ \ {a} |-> @[x]]]
      PROVE  IsDirectory(dir') /\ dir'.manifest = dir.manifest /\ dir'.hot = dir.hot
  <2> DEFINE f == [x \in DOMAIN dir.files \ {a} |-> dir.files[x]]
  <2>1. dir' = [dir EXCEPT !.files = f]
    BY <1>4
  <2> HIDE DEF f
  <2>2. QED
    BY <1>2, <2>1
<1>5. QED
  BY <1>3, <1>4 DEF Writes

LEMMA ReclaimDeleteShared ==
    ASSUME SharedStore, ReclaimDelete
    PROVE  SharedStore' /\ Forward
<1>1. /\ pc = "delete" /\ pc' = "delete" /\ job' = [job EXCEPT !.removed = TRUE]
      /\ UNCHANGED <<mem, man, tail, poisoned, acked>>
  BY DEF ReclaimDelete, Quiet
<1>2. /\ IsJob(job) /\ job.kind \in {"open", "reclaim", "prune"} /\ poisoned = FALSE
      /\ job.kind = "open" => Opened
      /\ job.kind # "open" => InStep
  BY <1>1, ReclaimHas
<1>3. IsJob(job') /\ job'.kind = job.kind
  BY <1>1, <1>2 DEF IsJob
<1>4. IsDirectory(dir') /\ dir'.manifest = dir.manifest /\ dir'.hot = dir.hot
  BY Removed DEF ReclaimDelete
<1>5. job.kind = "open" => Opened'
  BY <1>1, <1>2, <1>4 DEF Opened
<1>6. job.kind # "open" => InStep'
  BY <1>1, <1>2, <1>4, InStepSame
<1>7. SharedWriter'
  BY <1>1, <1>2, <1>3, <1>5, <1>6, HereReclaim
<1>8. QED
  BY <1>1, <1>4, <1>7, MovedFiles DEF FilesMove

\* The call the reclaim belongs to goes on, and a deletion is acknowledged.
LEMMA ReclaimedShared ==
    ASSUME NoneIsNoFunction, SharedStore, pc \in {"reclaim", "delete"}, dir' = dir, Reclaimed
    PROVE  SharedStore' /\ Forward
<1>1. /\ IsJob(job) /\ job.kind \in {"open", "reclaim", "prune"} /\ poisoned = FALSE
      /\ job.kind = "open" => Opened
      /\ job.kind # "open" => InStep
  BY ReclaimHas
<1>2. CASE job.kind = "open"
  <2>1. pc' = "openHot" /\ UNCHANGED <<mem, man, poisoned, acked>>
    BY <1>2 DEF Reclaimed, Step
  <2>2. Opened'
    BY <1>1, <1>2, <2>1 DEF Opened
  <2>3. QED
    BY <1>1, <2>1, <2>2, HereOpening, MovedNothing
<1>3. CASE job.kind # "open"
  <2>1. /\ Return
        /\ acked' = IF job.kind = "prune" THEN [acked EXCEPT !.deleted = mem.deleted] ELSE acked
    BY <1>3 DEF Reclaimed
  <2>2. SharedWriter'
    BY <1>1, <1>3, <2>1, EndsHere
  <2>3. Forward /\ SharedDirectory'
    <3>1. Loaded(dir') = Loaded(dir)
      OBVIOUS
    <3>2. QED
      BY <3>1, LoadedTyped DEF Forward, FilesMove, SharedStore, SharedDirectory
  <2>4. mem.deleted = Loaded(dir).deleted
    BY <1>1, <1>3, InStepLoaded, StandsParts DEF InStep
  <2>5. SharedAcks'
    <3>1. acked = [live |-> acked.live, deleted |-> acked.deleted]
      BY DEF SharedStore, SharedAcks
    <3>2. CASE acked' = acked
      BY <3>2 DEF SharedStore, SharedAcks
    <3>3. CASE acked' = [acked EXCEPT !.deleted = mem.deleted]
      <4>1. acked' = [live |-> acked.live, deleted |-> mem.deleted]
        BY <3>1, <3>3
      <4>2. acked'.deleted = mem.deleted /\ acked'.live = acked.live
        BY <4>1
      <4>3. QED
        BY <2>4, <4>1, <4>2 DEF SharedAcks
    <3>4. QED
      BY <2>1, <3>2, <3>3
  <2>6. QED
    BY <2>2, <2>3, <2>5 DEF SharedStore
<1>4. QED
  BY <1>2, <1>3

LEMMA ReclaimFailsShared ==
    ASSUME SharedStore, ReclaimFails
    PROVE  SharedStore' /\ Forward
<1>1. pc = "delete" /\ dir' = dir /\ acked' = acked
  BY DEF ReclaimFails, directory
<1>2. job.kind # "open" => InStep
  BY <1>1, ReclaimHas
<1>3. Stop \/ Poison \/ (Return /\ InStep)
  BY <1>2 DEF ReclaimFails
<1>4. QED
  BY <1>1, <1>3, EndsHere, MovedNothing

LEMMA ReclaimingShared ==
    ASSUME NoneIsNoFunction, SharedStore, Reclaiming
    PROVE  SharedStore' /\ Forward
<1>1. CASE ReclaimDone
  BY <1>1, ReclaimedShared DEF ReclaimDone, directory
<1>2. QED
  BY <1>1, BeginReclaimShared, ReclaimGateShared, ReclaimDeleteShared, ReclaimFailsShared, Zenon
  DEF Reclaiming

-----------------------------------------------------------------------------
(* Appending *)

LEMMA BeginAppendShared ==
    ASSUME SharedStore, NEW c \in Checkpoints, BeginAppend(c)
    PROVE  SharedStore' /\ Forward
<1>1. /\ pc = "idle" /\ ~poisoned /\ poisoned' = FALSE /\ pc' = "write" /\ job' = AppendJob(c)
      /\ Prepared(c) /\ dir' = dir /\ UNCHANGED <<mem, man, tail, acked>>
  BY DEF BeginAppend, Ready, Quiet, SharedStore, SharedWriter, directory
<1>2. InStep'
  BY <1>1, InStepSame DEF SharedStore, SharedWriter
<1>3. job'.tx = Tx(Len(mem.cps), c)
  BY <1>1 DEF Job, AppendJob
<1>4. TxTrue'
  BY <1>1, <1>3 DEF TxTrue, Prepared
<1>5. QED
  BY <1>1, <1>2, <1>4, HereWrite, MovedNothing

LEMMA WriteRecordShared ==
    ASSUME NoneIsNoFunction, SharedStore, WriteRecord
    PROVE  SharedStore' /\ Forward
<1> DEFINE x == job.tx
           h == [txs |-> Append(dir.hot.txs, x), torn |-> FALSE]
           t == Applied(mem, <<x>>)
<1>1. /\ pc = "write" /\ pc' = "sync"
      /\ Writes([dir EXCEPT !.hot = [txs |-> Append(SubSeq(dir.hot.txs, 1, tail), x), torn |-> FALSE]])
      /\ UNCHANGED <<mem, man, tail, poisoned, job, acked>>
  BY DEF WriteRecord, Step, Quiet
<1>2. InStep /\ TxTrue /\ poisoned = FALSE
  BY <1>1, Unpoisoned DEF SharedStore, SharedWriter
<1>3. /\ dir.manifest = man /\ dir.hot # None /\ tail = Len(dir.hot.txs)
      /\ Stands(man, dir.hot, mem, man.count) /\ Clean(mem)
  BY <1>2 DEF InStep
<1>4. PICK c \in Checkpoints : Prepared(c) /\ x = Tx(Len(mem.cps), c)
  BY <1>2 DEF TxTrue
<1>5. dir.hot.txs \in Seq(Transactions) /\ mem \in States /\ tail \in Nat
  BY <1>3, StandsParts
<1>6. SubSeq(dir.hot.txs, 1, tail) = dir.hot.txs
  BY <1>3, <1>5, SubSeqFull
<1>7. Appendable(LiveOf(mem), mem.deleted, c)
  BY <1>4 DEF Prepared
<1>8. h # None /\ Len(h.txs) = Len(dir.hot.txs) + 1 /\ Stands(man, h, t, man.count)
  <2> DEFINE y == Tx(Len(mem.cps), c)
             g == [txs |-> Append(dir.hot.txs, y), torn |-> FALSE]
  <2>1. g # None /\ Len(g.txs) = Len(dir.hot.txs) + 1 /\ Stands(man, g, Applied(mem, <<y>>), man.count)
    BY <1>3, <1>7, StandsAppend
  <2>2. x = y
    BY <1>4
  <2> HIDE DEF x, y
  <2>3. QED
    BY <2>1, <2>2
<1>9. Clean(t)
  <2>1. x.cp = c /\ c.key \notin mem.deleted
    BY <1>4, <1>7, TxFields DEF Appendable
  <2> HIDE DEF x
  <2>2. QED
    BY <1>3, <1>5, <2>1, CleanApplied
<1>10. Writes([dir EXCEPT !.hot = h])
  BY <1>1, <1>6
<1> HIDE DEF h, t
<1>11. Loaded(dir) = man
  BY <1>2, InStepLoaded
<1>12. /\ Forward /\ dir'.manifest = dir.manifest /\ dir'.hot = h
       /\ SharedWriter' /\ acked' = acked => SharedStore'
  BY <1>8, <1>9, <1>10, <1>11, MovedLog
<1>13. RecordWritten'
  <2>1. Applied(mem', <<job'.tx>>) = t
    BY <1>1 DEF t
  <2>2. dir'.manifest = man' /\ dir'.hot # None /\ tail' \in Nat /\ tail' + 1 = Len(dir'.hot.txs)
    BY <1>1, <1>3, <1>5, <1>8, <1>12
  <2>3. Stands(man', dir'.hot, Applied(mem', <<job'.tx>>), man'.count)
    BY <1>1, <1>8, <1>12, <2>1
  <2>4. Clean(Applied(mem', <<job'.tx>>))
    BY <1>9, <2>1
  <2>5. QED
    BY <2>2, <2>3, <2>4 DEF RecordWritten
<1>14. SharedWriter'
  BY <1>1, <1>2, <1>13, HereSync
<1>15. QED
  BY <1>1, <1>12, <1>14

LEMMA WriteRecordFailsShared ==
    ASSUME NoneIsNoFunction, SharedStore, WriteRecordFails
    PROVE  SharedStore' /\ Forward
<1>1. pc = "write" /\ acked' = acked /\ InStep
  BY DEF WriteRecordFails, SharedStore, SharedWriter
<1>2. CASE UNCHANGED directory /\ (Return \/ Poison)
  <2>1. dir' = dir
    BY <1>2 DEF directory
  <2>2. SharedWriter'
    BY <1>1, <1>2, <2>1, EndsHere
  <2>3. QED
    BY <1>1, <2>1, <2>2, MovedNothing
<1>3. CASE Writes([dir EXCEPT !.hot.torn = TRUE]) /\ Poison
  <2> DEFINE h == [dir.hot EXCEPT !.torn = TRUE]
  <2>1. dir.hot # None /\ Stands(man, dir.hot, mem, man.count) /\ Clean(mem) /\ Loaded(dir) = man
    BY <1>1, InStepLoaded DEF InStep
  <2>2. Stands(man, h, mem, man.count)
    BY <2>1, StandsTorn
  <2>3. Writes([dir EXCEPT !.hot = h])
    BY <1>3
  <2> HIDE DEF h
  <2>4. Forward /\ (SharedWriter' /\ acked' = acked => SharedStore')
    BY <2>1, <2>2, <2>3, MovedLog
  <2>5. SharedWriter'
    BY <1>3, HereIdle DEF Poison
  <2>6. QED
    BY <1>1, <2>4, <2>5
<1>4. QED
  BY <1>2, <1>3 DEF WriteRecordFails

LEMMA SyncRecordShared ==
    ASSUME SharedStore, SyncRecord
    PROVE  SharedStore' /\ Forward
<1>1. /\ pc = "sync" /\ pc' = "idle" /\ mem' = Applied(mem, <<job.tx>>) /\ tail' = tail + 1
      /\ dir' = dir /\ UNCHANGED <<man, poisoned>>
      /\ acked' = [acked EXCEPT !.live = LiveOf(mem')]
  BY DEF SyncRecord, directory
<1>2. RecordWritten /\ poisoned = FALSE
  BY <1>1, Unpoisoned DEF SharedStore, SharedWriter
<1>3. InStep'
  BY <1>1, <1>2 DEF InStep, RecordWritten
<1>4. SharedWriter'
  BY <1>1, <1>2, <1>3, HereIdle
<1>5. SharedAcks'
  <2>1. acked' = [live |-> LiveOf(mem'), deleted |-> acked.deleted]
    BY <1>1 DEF SharedStore, SharedAcks
  <2>2. acked'.deleted = acked.deleted /\ acked'.live = LiveOf(mem')
    BY <2>1
  <2>3. QED
    BY <1>1, <2>1, <2>2 DEF SharedStore, SharedAcks
<1>6. SharedDirectory' /\ Forward
  BY <1>1, LoadedTyped DEF SharedStore, SharedDirectory, Forward, FilesMove
<1>7. QED
  BY <1>4, <1>5, <1>6 DEF SharedStore

LEMMA SyncRecordFailsShared ==
    ASSUME SharedStore, SyncRecordFails
    PROVE  SharedStore' /\ Forward
<1>1. pc = "sync" /\ Poison /\ dir' = dir /\ acked' = acked
  BY DEF SyncRecordFails, directory
<1>2. QED
  BY <1>1, EndsHere, MovedNothing

-----------------------------------------------------------------------------
(* Beginning a generation *)

LEMMA ReadyInStep ==
    ASSUME NoneIsNoFunction, SharedStore, Ready
    PROVE  /\ pc = "idle" /\ poisoned = FALSE /\ InStep /\ Loaded(dir) = man /\ man \in Manifests
           /\ man.gen \in Nat /\ man.count \in Nat /\ mem \in States /\ mem.deleted = man.deleted
<1>1. pc = "idle" /\ poisoned = FALSE /\ InStep
  BY DEF Ready, SharedStore, SharedWriter
<1>2. mem.deleted = man.deleted
  BY <1>1, StandsParts DEF InStep
<1>3. QED
  BY <1>1, <1>2, InStepLoaded

LEMMA StagingShared ==
    ASSUME SharedStore, InStep, poisoned' = FALSE, pc' \in Staging, IsJob(job'), Generation',
           job'.kind = "reidentify" => pc' = "stageManifest",
           dir' = dir, UNCHANGED <<mem, man, tail>>, acked' = acked
    PROVE  SharedStore' /\ Forward
<1>1. InStep'
  BY InStepSame
<1>2. SharedWriter'
  BY <1>1, HereStaging
<1>3. QED
  BY <1>2, MovedNothing

LEMMA SealingShared ==
    ASSUME NoneIsNoFunction, SharedStore, Ready, NEW n \in Nat, NEW tx, Sealing(n, tx),
           tx = None \/ \E c \in Checkpoints : Prepared(c) /\ tx = Tx(Len(mem.cps), c)
    PROVE  SharedStore' /\ Forward
<1> DEFINE drop == n - man.count
           parsed == ParsedFrom(dir.hot, man.count)
           cps == [i \in 1..drop |-> parsed[i].cp]
           e == Entry(man.gen + 1, cps)
           new == [man EXCEPT !.gen = @ + 1, !.count = n, !.segments = Append(@, e)]
<1>1. /\ poisoned' = FALSE /\ UNCHANGED <<mem, man, tail, acked>> /\ pc' = "stageSegment"
      /\ dir' = dir /\ InStep /\ man \in Manifests /\ man.gen \in Nat /\ man.count \in Nat
  BY ReadyInStep DEF Sealing, Quiet, directory
<1>2. /\ n > man.count /\ n <= Len(mem.cps) /\ drop <= Len(parsed)
      /\ job' = [Job("seal") EXCEPT !.entry = e, !.drop = drop, !.tx = tx, !.manifest = new]
  BY DEF Sealing
<1>3. /\ Stands(man, dir.hot, mem, man.count) /\ dir.hot # None /\ tail = Len(dir.hot.txs)
      /\ Clean(mem)
  BY <1>1 DEF InStep
<1>4. parsed = dir.hot.txs /\ Len(dir.hot.txs) \in Nat
  BY <1>3, StandsLog, StandsParts
<1>5. drop \in 1..Len(dir.hot.txs) /\ n = man.count + drop /\ drop \in Nat
  BY <1>1, <1>2, <1>4
<1>6. /\ IsJob(job') /\ job'.kind = "seal" /\ job'.manifest = new /\ job'.entry = e
      /\ job'.drop = drop /\ job'.tx = tx /\ job'.state = mem
  <2> HIDE DEF drop, e, new
  <2>1. QED
    BY <1>2 DEF Job, IsJob
<1>7. /\ e.gen = man.gen + 1 /\ Stands(new, dir.hot, mem, man.count)
      /\ new.count = man.count + drop /\ new.gen = man.gen + 1
  <2> DEFINE e2 == SealEntry(man, dir.hot, drop)
             n2 == SealManifest(man, man.count + drop, e2)
  <2>1. e = e2
    BY <1>4 DEF SealEntry
  <2>2. new = n2
    <3> HIDE DEF drop, e, e2
    <3>1. new = SealManifest(man, n, e)
      BY DEF SealManifest
    <3>2. QED
      BY <1>5, <2>1, <3>1, Zenon
  <2> HIDE DEF drop
  <2>3. Stands(man, dir.hot, mem, man.count) /\ dir.hot # None /\ drop \in 1..Len(dir.hot.txs)
    BY <1>3, <1>5
  <2>4. Stands(n2, dir.hot, mem, man.count)
    BY <2>3, StandsSeal
  <2>5. e2.gen = man.gen + 1 /\ e2 \in Entries
    BY <2>3, StandsSeal
  <2>6. n2.count = man.count + drop
    BY <1>4, <2>3, StandsSeal
  <2>7. n2.gen = man.gen + 1
    <3>1. man.segments \in Seq(Entries) /\ man.count + drop \in Nat
      BY <1>1, <1>5 DEF Manifests
    <3> HIDE DEF e2
    <3>2. Append(man.segments, e2) \in Seq(Entries)
      BY <2>5, <3>1
    <3>3. QED
      BY <1>1, <3>1, <3>2, SealManifestFields
  <2> HIDE DEF e2, n2, e, new
  <2>8. QED
    BY <2>1, <2>2, <2>4, <2>5, <2>6, <2>7
<1> HIDE DEF drop, e, new
<1>8. new.count - drop = man.count /\ man.gen <= new.gen
  BY <1>1, <1>5, <1>7
<1>9. man.deleted \subseteq new.deleted
  BY <1>3, <1>7, StandsParts
<1>10. tx = None \/ TxTrue'
  BY <1>1, <1>6 DEF TxTrue, Prepared
<1>11. Generation'
  BY <1>1, <1>3, <1>5, <1>6, <1>7, <1>8, <1>9, <1>10 DEF Generation
<1>12. QED
  BY <1>1, <1>6, <1>11, StagingShared DEF Staging

LEMMA BoundedAppendShared ==
    ASSUME NoneIsNoFunction, SharedStore, NEW c \in Checkpoints, BeginBoundedAppend(c)
    PROVE  SharedStore' /\ Forward
<1>1. Ready /\ Prepared(c) /\ Sealing(Len(mem.cps), Tx(Len(mem.cps), c))
  BY DEF BeginBoundedAppend
<1>2. Len(mem.cps) \in Nat
  BY <1>1, ReadyInStep DEF States
<1>3. QED
  BY <1>1, <1>2, SealingShared

LEMMA AppendingShared ==
    ASSUME NoneIsNoFunction, SharedStore, Appending
    PROVE  SharedStore' /\ Forward
<1>1. ASSUME NEW c \in Checkpoints, BeginAppend(c) \/ BeginBoundedAppend(c)
      PROVE  SharedStore' /\ Forward
  BY <1>1, BeginAppendShared, BoundedAppendShared, Zenon
<1>2. QED
  BY <1>1, WriteRecordShared, WriteRecordFailsShared, SyncRecordShared, SyncRecordFailsShared, Zenon
  DEF Appending

\* A deletion first takes its subjects from what is owed to callers.
LEMMA PruningShared ==
    ASSUME NoneIsNoFunction, SharedStore, Ready, NEW K \in SUBSET Keys, Pruning(K)
    PROVE  SharedStore' /\ Forward
<1> DEFINE rest == Compacted(mem, K)
           e == Entry(man.gen + 1, rest.cps)
           new == [man EXCEPT !.gen = @ + 1, !.count = Len(rest.cps), !.segments = <<e>>,
                              !.deleted = rest.deleted]
<1>1. /\ poisoned' = FALSE /\ UNCHANGED <<mem, man, tail>> /\ pc' = "stageSegment" /\ tail = 0
      /\ dir' = dir /\ InStep /\ man \in Manifests /\ man.gen \in Nat /\ mem \in States
      /\ mem.deleted = man.deleted /\ acked' = [acked EXCEPT !.live = Surviving(@, K)]
  BY ReadyInStep DEF Pruning, directory
<1>2. job' = [Job("prune") EXCEPT !.state = rest, !.entry = e, !.manifest = new]
  BY DEF Pruning
<1>3. Stands(man, dir.hot, mem, man.count) /\ dir.hot # None /\ Len(dir.hot.txs) = 0 /\ Clean(mem)
  BY <1>1 DEF InStep
<1>4. rest \in States /\ rest.deleted = mem.deleted \cup K /\ Len(rest.cps) \in Nat /\ Clean(rest)
  BY <1>1, <1>3, CompactedLive, CleanPruned
<1> HIDE DEF rest
<1>5. /\ IsJob(job') /\ job'.kind = "prune" /\ job'.manifest = new /\ job'.entry = e
      /\ job'.drop = 0 /\ job'.state = rest
  <2> HIDE DEF e, new
  <2>1. QED
    BY <1>2 DEF Job, IsJob
<1>6. e \in Entries /\ e.gen = man.gen + 1 /\ Stands(new, dir.hot, rest, new.count)
  BY <1>3, <1>4, StandsPrune
<1>7. new.gen = man.gen + 1
  <2> HIDE DEF e
  <2>1. <<e>> \in Seq(Entries) /\ rest.deleted \in SUBSET Keys
    BY <1>4, <1>6 DEF States
  <2>2. PruneManifest(man, Len(rest.cps), e, rest.deleted).gen = man.gen + 1
    BY <1>1, <1>4, <2>1, PruneManifestFields
  <2>3. new = PruneManifest(man, Len(rest.cps), e, rest.deleted)
    BY DEF PruneManifest
  <2> HIDE DEF new
  <2>4. QED
    BY <2>2, <2>3
<1> HIDE DEF e, new
<1>8. new.count - 0 = new.count /\ man.gen <= new.gen
  <2>1. new.count \in Nat
    BY <1>6, StandsParts
  <2>2. QED
    BY <1>1, <1>7, <2>1
<1>9. man.deleted \subseteq new.deleted
  BY <1>1, <1>4, <1>6, StandsParts
<1>10. Generation'
  BY <1>1, <1>4, <1>5, <1>6, <1>8, <1>9 DEF Generation
<1>11. InStep'
  BY <1>1, InStepSame
<1>12. SharedWriter'
  BY <1>1, <1>5, <1>10, <1>11, HereStaging DEF Staging
<1>13. SharedAcks'
  <2>1. acked' = [live |-> Surviving(acked.live, K), deleted |-> acked.deleted]
    BY <1>1 DEF SharedStore, SharedAcks
  <2>2. acked'.deleted = acked.deleted /\ acked'.live = Surviving(acked.live, K)
    BY <2>1
  <2>3. QED
    BY <1>1, <2>1, <2>2 DEF SharedStore, SharedAcks
<1>14. SharedDirectory' /\ Forward
  BY <1>1, LoadedTyped DEF SharedStore, SharedDirectory, Forward, FilesMove
<1>15. QED
  BY <1>12, <1>13, <1>14 DEF SharedStore

LEMMA ReidentifyShared ==
    ASSUME NoneIsNoFunction, SharedStore, BeginReidentify
    PROVE  SharedStore' /\ Forward
<1> DEFINE new == [man EXCEPT !.id = man.id + 1]
<1>1. /\ poisoned' = FALSE /\ UNCHANGED <<mem, man, tail, acked>> /\ pc' = "stageManifest"
      /\ dir' = dir /\ InStep /\ man \in Manifests /\ man.gen \in Nat /\ man.count \in Nat
      /\ job' = [Job("reidentify") EXCEPT !.manifest.id = @ + 1]
  BY ReadyInStep DEF BeginReidentify, Quiet, directory
<1>2. /\ IsJob(job') /\ job'.kind = "reidentify" /\ job'.manifest = new
      /\ job'.drop = 0 /\ job'.state = mem
  BY <1>1 DEF Job, IsJob
<1>3. Stands(man, dir.hot, mem, man.count) /\ Clean(mem)
  BY <1>1 DEF InStep
<1>4. man.id + 1 \in Nat
  BY <1>1 DEF Manifests
<1>5. Stands(new, dir.hot, mem, man.count)
  BY <1>3, <1>4, StandsIdentity
<1>6. new.count = man.count /\ new.gen = man.gen /\ new.deleted = man.deleted
  BY <1>1 DEF Manifests
<1> HIDE DEF new
<1>7. new.count - 0 = man.count /\ man.gen <= new.gen
  BY <1>1, <1>6
<1>8. Generation'
  BY <1>1, <1>2, <1>3, <1>5, <1>6, <1>7 DEF Generation
<1>9. QED
  BY <1>1, <1>2, <1>8, StagingShared DEF Staging

LEMMA BeginningShared ==
    ASSUME NoneIsNoFunction, SharedStore,
           \/ \E n \in 1..MaxCount : BeginSeal(n)
           \/ \E K \in SUBSET Keys : BeginPruneSet(K)
           \/ \E k \in Keys : BeginPruneSubtree(k)
    PROVE  SharedStore' /\ Forward
<1>1. ASSUME NEW n \in 1..MaxCount, BeginSeal(n)
      PROVE  SharedStore' /\ Forward
  <2>1. n \in Nat /\ Ready /\ Sealing(n, None)
    BY <1>1, StoreAssumption DEF BeginSeal
  <2>2. QED
    BY <2>1, SealingShared
<1>2. ASSUME NEW K \in SUBSET Keys, BeginPruneSet(K)
      PROVE  SharedStore' /\ Forward
  BY <1>2, PruningShared DEF BeginPruneSet
<1>3. ASSUME NEW k \in Keys, BeginPruneSubtree(k)
      PROVE  SharedStore' /\ Forward
  <2>1. Ready /\ Pruning(Subtree(LiveOf(mem), k))
    BY <1>3 DEF BeginPruneSubtree
  <2>2. Subtree(LiveOf(mem), k) \in SUBSET Keys
    BY <2>1, ReadyInStep, SubtreeOfKeys
  <2>3. QED
    BY <2>1, <2>2, PruningShared
<1>4. QED
  BY <1>1, <1>2, <1>3, Zenon

-----------------------------------------------------------------------------
(* Publishing a generation *)

LEMMA StagingHas ==
    ASSUME SharedStore, pc \in Staging
    PROVE  /\ IsJob(job) /\ InStep /\ Generation /\ poisoned = FALSE /\ pc # "idle"
           /\ job.kind = "reidentify" => pc \in {"stageManifest", "publishManifest"}
BY Unpoisoned DEF SharedStore, SharedWriter, Staging

\* A temporary file comes or goes.
LEMMA MovedTmps ==
    ASSUME SharedStore, NEW x, dir' = [dir EXCEPT !.tmps = x]
    PROVE  /\ IsDirectory(dir') /\ dir'.manifest = dir.manifest /\ dir'.hot = dir.hot
           /\ dir'.files = dir.files
BY DEF SharedStore, SharedDirectory, IsDirectory

LEMMA StageShared ==
    ASSUME SharedStore, StageSegment \/ StageRoute \/ StageManifest
    PROVE  SharedStore' /\ Forward
<1>1. /\ pc \in Staging /\ pc' \in Staging /\ UNCHANGED <<mem, man, tail, poisoned, job, acked>>
      /\ pc' = "publishManifest" \/ pc \notin {"stageManifest", "publishManifest"}
  BY DEF StageSegment, StageRoute, StageManifest, Stage, Step, Quiet, Staging
<1>2. \E x : dir' = [dir EXCEPT !.tmps = x]
  BY DEF StageSegment, StageRoute, StageManifest, Stage, Writes
<1>3. /\ IsDirectory(dir') /\ dir'.manifest = dir.manifest /\ dir'.hot = dir.hot
      /\ dir'.files = dir.files
  BY <1>2, MovedTmps
<1>4. /\ IsJob(job) /\ InStep /\ Generation /\ poisoned = FALSE
      /\ job.kind = "reidentify" => pc \in {"stageManifest", "publishManifest"}
  BY <1>1, StagingHas
<1>5. InStep' /\ Generation'
  BY <1>1, <1>3, <1>4, InStepSame, GenerationSame
<1>6. SharedWriter'
  BY <1>1, <1>4, <1>5, HereStaging
<1>7. QED
  BY <1>1, <1>3, <1>6, MovedFiles DEF FilesMove

LEMMA StageFailsShared ==
    ASSUME SharedStore, StageFails
    PROVE  SharedStore' /\ Forward
<1>1. pc \in Staging /\ acked' = acked /\ (Return \/ Poison)
  BY DEF StageFails, Staging
<1>2. InStep /\ pc # "idle"
  BY <1>1, StagingHas
<1>3. /\ IsDirectory(dir') /\ dir'.manifest = dir.manifest /\ dir'.hot = dir.hot
      /\ dir'.files = dir.files
  <2>1. CASE UNCHANGED directory
    BY <2>1 DEF directory, SharedStore, SharedDirectory
  <2>2. CASE Writes([dir EXCEPT !.tmps = @ \cup {Temporary}])
    <3>1. \E x : dir' = [dir EXCEPT !.tmps = x]
      BY <2>2 DEF Writes
    <3>2. QED
      BY <3>1, MovedTmps
  <2>3. QED
    BY <2>1, <2>2 DEF StageFails
<1>4. SharedWriter'
  BY <1>1, <1>2, <1>3, EndsHere
<1>5. QED
  BY <1>1, <1>3, <1>4, MovedFiles DEF FilesMove

\* A published file is of the generation to come.
LEMMA ArtifactMoves ==
    ASSUME NoneIsNoFunction, SharedStore, NEW name, pc \in {"publishSegment", "publishRoute"},
           Writes(WithArtifact(name))
    PROVE  /\ FilesMove /\ IsDirectory(dir')
           /\ dir'.manifest = dir.manifest /\ dir'.hot = dir.hot
<1> DEFINE d == WithArtifact(name)
           gen == job.entry.gen
           files == [a \in DOMAIN dir.files \cup {<<name, gen>>} |->
                        IF a = <<name, gen>> THEN job.entry.cps ELSE dir.files[a]]
<1>1. IsDirectory(dir)
  BY DEF SharedStore, SharedDirectory
<1>2. d.manifest = dir.manifest /\ d.hot = dir.hot /\ IsDirectory(d) /\ d.files = files
  <2>1. d = [dir EXCEPT !.tmps = dir.tmps \ {name}, !.files = files]
    BY <1>1 DEF WithArtifact, IsDirectory
  <2> HIDE DEF d, files
  <2>2. QED
    BY <1>1, <2>1 DEF IsDirectory
<1>3. dir' = d
  BY DEF Writes
<1>4. InStep /\ Generation /\ job.kind # "reidentify"
  BY StagingHas DEF Staging
<1>5. Loaded(dir) = man /\ man.gen \in Nat /\ gen = man.gen + 1
  BY <1>4, InStepLoaded DEF Generation
<1> HIDE DEF d
<1>6. gen \in Nat /\ Loaded(dir).gen < gen /\ dir'.files = files
  BY <1>2, <1>3, <1>5
<1>7. FilesMove
  <2>1. Adds(name, gen, job.entry.cps)
    BY <1>6 DEF Adds
  <2>2. QED
    BY <2>1, Zenon DEF FilesMove
<1>8. QED
  BY <1>2, <1>3, <1>7

LEMMA PublishArtifactShared ==
    ASSUME NoneIsNoFunction, SharedStore, PublishSegment \/ PublishRoute
    PROVE  SharedStore' /\ Forward
<1>1. /\ pc \in {"publishSegment", "publishRoute"} /\ pc' \in {"stageRoute", "stageManifest"}
      /\ \E name : Writes(WithArtifact(name))
      /\ UNCHANGED <<mem, man, tail, poisoned, job, acked>>
  BY DEF PublishSegment, PublishRoute, PublishArtifact, Step, Quiet
<1>2. FilesMove /\ IsDirectory(dir') /\ dir'.manifest = dir.manifest /\ dir'.hot = dir.hot
  BY <1>1, ArtifactMoves
<1>3. IsJob(job) /\ InStep /\ Generation /\ poisoned = FALSE /\ job.kind # "reidentify"
  BY <1>1, StagingHas DEF Staging
<1>4. InStep' /\ Generation'
  BY <1>1, <1>2, <1>3, InStepSame, GenerationSame
<1>5. SharedWriter'
  BY <1>1, <1>3, <1>4, HereStaging DEF Staging
<1>6. QED
  BY <1>1, <1>2, <1>5, MovedFiles

LEMMA PublishArtifactFailsShared ==
    ASSUME NoneIsNoFunction, SharedStore, PublishArtifactFails
    PROVE  SharedStore' /\ Forward
<1>1. pc \in {"publishSegment", "publishRoute"} /\ acked' = acked /\ Poison
  BY DEF PublishArtifactFails
<1>2. FilesMove /\ IsDirectory(dir') /\ dir'.manifest = dir.manifest /\ dir'.hot = dir.hot
  <2>1. CASE UNCHANGED directory
    BY <2>1 DEF directory, SharedStore, SharedDirectory, FilesMove
  <2>2. CASE Writes(WithArtifact(Temporary))
    BY <1>1, <2>2, ArtifactMoves
  <2>3. QED
    BY <2>1, <2>2 DEF PublishArtifactFails
<1>3. SharedWriter'
  BY <1>1, <1>2, EndsHere
<1>4. QED
  BY <1>1, <1>2, <1>3, MovedFiles

LEMMA RenameManifestShared ==
    ASSUME NoneIsNoFunction, SharedStore, RenameManifest
    PROVE  SharedStore' /\ Forward
<1> DEFINE d == [dir EXCEPT !.manifest = job.manifest, !.tmps = dir.tmps \ {"manifest"}]
<1>1. /\ pc = "publishManifest" /\ pc' = "syncManifest" /\ dir' = d
      /\ UNCHANGED <<mem, man, tail, poisoned, job, acked>>
  BY DEF RenameManifest, Step, Quiet, Writes
<1>2. IsJob(job) /\ InStep /\ Generation /\ poisoned = FALSE
  BY <1>1, StagingHas DEF Staging
<1>3. dir.hot # None /\ tail = Len(dir.hot.txs) /\ Loaded(dir) = man
  BY <1>2, InStepLoaded DEF InStep
<1>4. /\ Stands(job.manifest, dir.hot, job.state, job.manifest.count - job.drop) /\ Clean(job.state)
      /\ man.gen <= job.manifest.gen /\ man.deleted \subseteq job.manifest.deleted
  BY <1>2 DEF Generation
<1>5. job.manifest # None
  BY <1>4, StandsParts, ManifestIsSome
<1>6. d.manifest = job.manifest /\ d.hot = dir.hot /\ d.files = dir.files /\ IsDirectory(d)
  BY ManifestReplaced DEF SharedStore, SharedDirectory
<1> HIDE DEF d
<1>7. Loaded(dir') = job.manifest
  BY <1>1, <1>5, <1>6 DEF Loaded
<1>8. Forward
  BY <1>1, <1>3, <1>4, <1>6, <1>7 DEF Forward, FilesMove
<1>9. Generation'
  BY <1>1, <1>2, <1>6, GenerationSame
<1>10. SharedWriter'
  BY <1>1, <1>2, <1>3, <1>6, <1>9, HerePublished
<1>11. QED
  BY <1>1, <1>4, <1>6, <1>7, <1>8, <1>10, MovedDirectory

\* The temporary manifest is not there, or its rename fails.
LEMMA RenameManifestFailsShared ==
    ASSUME SharedStore, RenameManifestFails
    PROVE  SharedStore' /\ Forward
<1>1. pc \in Staging /\ dir' = dir /\ acked' = acked /\ (Poison \/ Return)
  BY DEF RenameManifestFails, directory, Staging
<1>2. InStep /\ pc # "idle"
  BY <1>1, StagingHas
<1>3. QED
  BY <1>1, <1>2, EndsHere, MovedNothing

LEMMA SyncManifestShared ==
    ASSUME SharedStore, SyncManifest
    PROVE  SharedStore' /\ Forward
<1>1. /\ pc = "syncManifest" /\ man' = job.manifest /\ mem' = job.state
      /\ UNCHANGED <<tail, poisoned, acked>> /\ dir' = dir
  BY DEF SyncManifest, Quiet, directory
<1>2. /\ IsJob(job) /\ Generation /\ dir.manifest = job.manifest /\ dir.hot # None
      /\ tail = Len(dir.hot.txs) /\ poisoned = FALSE
  BY <1>1, Unpoisoned DEF SharedStore, SharedWriter
<1>3. /\ Stands(job.manifest, dir.hot, job.state, job.manifest.count - job.drop) /\ Clean(job.state)
      /\ job.kind \in {"seal", "prune", "reidentify"} /\ (job.kind # "seal" => job.drop = 0)
  BY <1>2 DEF Generation
<1>4. job.kind # "seal" => InStep'
  <2>1. ASSUME job.kind # "seal" PROVE InStep'
    <3>1. job.manifest.count \in Nat
      BY <1>3, StandsParts
    <3>2. job.manifest.count - job.drop = job.manifest.count
      BY <1>3, <2>1, <3>1
    <3>3. QED
      BY <1>1, <1>2, <1>3, <3>2 DEF InStep
  <2>2. QED
    BY <2>1
<1>5. CASE job.kind = "seal"
  <2>1. pc' = "recycle" /\ job' = job
    BY <1>5 DEF SyncManifest
  <2>2. job.drop \in 1..tail /\ job.state = mem /\ (job.tx = None \/ TxTrue)
    BY <1>2, <1>5 DEF Generation
  <2>3. job'.tx = None \/ TxTrue'
    BY <1>1, <2>1, <2>2 DEF TxTrue, Prepared
  <2>4. LongLog'
    BY <1>1, <1>2, <1>3, <2>1, <2>2, <2>3 DEF LongLog
  <2>5. SharedWriter'
    BY <1>1, <1>2, <2>1, <2>4, HerePublished
  <2>6. QED
    BY <1>1, <2>5, MovedNothing
<1>6. CASE job.kind = "prune"
  <2>1. pc' = "reclaim" /\ job' = job
    BY <1>6 DEF SyncManifest
  <2>2. SharedWriter'
    BY <1>1, <1>2, <1>4, <1>6, <2>1, HereReclaim
  <2>3. QED
    BY <1>1, <2>2, MovedNothing
<1>7. CASE job.kind = "reidentify"
  <2>1. pc' = "idle"
    BY <1>7 DEF SyncManifest
  <2>2. SharedWriter'
    BY <1>1, <1>2, <1>4, <1>7, <2>1, HereIdle
  <2>3. QED
    BY <1>1, <2>2, MovedNothing
<1>8. QED
  BY <1>3, <1>5, <1>6, <1>7

LEMMA RecycleShared ==
    ASSUME NoneIsNoFunction, SharedStore, Recycle
    PROVE  SharedStore' /\ Forward
<1> DEFINE k == job.drop
           h == Recycled(dir.hot.txs, k)
<1>1. /\ pc = "recycle" /\ pc' = "recycled"
      /\ Writes([dir EXCEPT !.hot = Recycled(SubSeq(dir.hot.txs, 1, tail), k)])
      /\ UNCHANGED <<mem, man, tail, poisoned, job, acked>>
  BY DEF Recycle, ReplaceLog, Step, Quiet
<1>2. LongLog /\ poisoned = FALSE
  BY <1>1, Unpoisoned DEF SharedStore, SharedWriter
<1>3. /\ dir.manifest = man /\ dir.hot # None /\ tail = Len(dir.hot.txs) /\ Clean(mem)
      /\ k \in 1..tail /\ Stands(man, dir.hot, mem, man.count - k) /\ (job.tx = None \/ TxTrue)
  BY <1>2 DEF LongLog
<1>4. dir.hot.txs \in Seq(Transactions) /\ man \in Manifests /\ man.count \in Nat /\ tail \in Nat
  BY <1>3, StandsParts
<1>5. SubSeq(dir.hot.txs, 1, tail) = dir.hot.txs /\ Loaded(dir) = man
  BY <1>3, <1>4, SubSeqFull, ManifestIsSome DEF Loaded
<1>6. k \in Nat /\ k <= Len(dir.hot.txs) /\ k = man.count - (man.count - k)
  BY <1>3, <1>4
<1>7. h # None /\ Len(h.txs) = tail - k /\ Stands(man, h, mem, man.count)
  BY <1>3, <1>6, StandsRecycle
<1>8. Writes([dir EXCEPT !.hot = h])
  BY <1>1, <1>5
<1> HIDE DEF h
<1>9. /\ Forward /\ dir'.manifest = dir.manifest /\ dir'.hot = h
      /\ SharedWriter' /\ acked' = acked => SharedStore'
  BY <1>3, <1>5, <1>7, <1>8, MovedLog
<1>10. ShortLog'
  <2>1. job'.tx = None \/ TxTrue'
    BY <1>1, <1>3 DEF TxTrue, Prepared
  <2>2. QED
    BY <1>1, <1>3, <1>7, <1>9, <2>1 DEF ShortLog
<1>11. SharedWriter'
  BY <1>1, <1>2, <1>10, HerePublished
<1>12. QED
  BY <1>1, <1>9, <1>11

LEMMA RecycleSyncShared ==
    ASSUME SharedStore, RecycleSync
    PROVE  SharedStore' /\ Forward
<1>1. /\ pc = "recycled" /\ tail' = tail - job.drop
      /\ UNCHANGED <<mem, man, poisoned, acked>> /\ dir' = dir
  BY DEF RecycleSync, Quiet, directory
<1>2. ShortLog /\ poisoned = FALSE
  BY <1>1, Unpoisoned DEF SharedStore, SharedWriter
<1>3. InStep'
  BY <1>1, <1>2 DEF ShortLog, InStep
<1>4. SharedWriter'
  <2>1. CASE job.tx = None
    <3>1. pc' = "idle"
      BY <2>1 DEF RecycleSync
    <3>2. QED
      BY <1>1, <1>2, <1>3, <3>1, HereIdle
  <2>2. CASE job.tx # None
    <3>1. pc' = "write" /\ job' = [Job("append") EXCEPT !.tx = job.tx]
      BY <2>2 DEF RecycleSync
    <3>2. job'.tx = job.tx
      BY <3>1 DEF Job
    <3>3. TxTrue
      BY <1>2, <2>2 DEF ShortLog
    <3>4. TxTrue'
      BY <1>1, <3>2, <3>3 DEF TxTrue, Prepared
    <3>5. QED
      BY <1>1, <1>2, <1>3, <3>1, <3>4, HereWrite
  <2>3. QED
    BY <2>1, <2>2
<1>5. QED
  BY <1>1, <1>4, MovedNothing

LEMMA PoisonedShared ==
    ASSUME SharedStore, SyncManifestFails \/ RecycleFails
    PROVE  SharedStore' /\ Forward
<1>1. pc # "idle" /\ Poison /\ dir' = dir /\ acked' = acked
  BY DEF SyncManifestFails, RecycleFails, directory
<1>2. QED
  BY <1>1, EndsHere, MovedNothing

LEMMA GenerationsShared ==
    ASSUME NoneIsNoFunction, SharedStore, Generations
    PROVE  SharedStore' /\ Forward
BY BeginningShared, ReidentifyShared, StageShared, StageFailsShared, PublishArtifactShared,
   PublishArtifactFailsShared, RenameManifestShared, RenameManifestFailsShared, SyncManifestShared,
   RecycleShared, RecycleSyncShared, PoisonedShared, Zenon DEF Generations

LEMMA StopShared ==
    ASSUME SharedStore, Stop, dir' = dir, acked' = acked
    PROVE  SharedStore' /\ Forward
<1>1. SharedWriter'
  BY HereClosed DEF Stop
<1>2. QED
  BY <1>1, MovedNothing

LEMMA NextShared ==
    ASSUME NoneIsNoFunction, "power" \notin CrashKinds, SharedStore, Next
    PROVE  SharedStore' /\ Forward
<1>1. ~PowerLoss
  BY DEF PowerLoss
<1>2. CASE Close \/ ProcessCrash
  BY <1>2, StopShared DEF Close, ProcessCrash, directory
<1>3. QED
  BY <1>1, <1>2, OpeningShared, ReclaimingShared, AppendingShared, GenerationsShared, Zenon DEF Next

\* What the writer meets beside the others.
LEMMA BesideShared ==
    ASSUME NoneIsNoFunction, SharedStore, MaterializeFails \/ ReclaimDeferred \/ PublishMissing
    PROVE  SharedStore' /\ Forward
<1>1. CASE MaterializeFails
  BY <1>1, StopShared DEF MaterializeFails, directory
<1>2. CASE ReclaimDeferred
  BY <1>2, ReclaimedShared DEF ReclaimDeferred, directory
<1>3. CASE PublishMissing
  <2>1. pc \in Staging /\ dir' = dir /\ acked' = acked /\ (Return \/ Poison)
    BY <1>3 DEF PublishMissing, Quiet, directory, Staging
  <2>2. InStep /\ pc # "idle"
    BY <2>1, StagingHas
  <2>3. QED
    BY <2>1, <2>2, EndsHere, MovedNothing
<1>4. QED
  BY <1>1, <1>2, <1>3

-----------------------------------------------------------------------------
(* The gate *)

\* Who may take the gate, and who gives it back.
LEMMA GateMoves ==
    ASSUME Next \/ MaterializeFails \/ ReclaimDeferred \/ PublishMissing, ~PowerLoss
    PROVE  \/ gate' = gate /\ (pc' = "delete" <=> pc = "delete")
           \/ gate = "free" /\ gate' = "writer" /\ pc' = "delete"
           \/ pc = "delete" /\ gate' = "free" /\ pc' # "delete"
           \/ pc' # "delete" /\ gate' = IF gate = "writer" THEN "free" ELSE gate
<1> DEFINE Moves ==
             \/ gate' = gate /\ (pc' = "delete" <=> pc = "delete")
             \/ gate = "free" /\ gate' = "writer" /\ pc' = "delete"
             \/ pc = "delete" /\ gate' = "free" /\ pc' # "delete"
             \/ pc' # "delete" /\ gate' = IF gate = "writer" THEN "free" ELSE gate
<1>1. CASE Stop
  BY <1>1 DEF Stop
<1>2. ASSUME Opening, ~Stop PROVE Moves
  <2>1. gate' = gate /\ pc # "delete" /\ pc' # "delete"
    BY <1>2 DEF Opening, OpenLoad, InitManifest, InitSync, Materialize, OpenHot, OpenRecycle,
                OpenRecycleSync, OpenReplay, OpenFails, Step, Quiet
  <2>2. QED
    BY <2>1
<1>3. ASSUME Reclaiming, ~Stop PROVE Moves
  BY <1>3 DEF Reclaiming, BeginReclaim, ReclaimGate, ReclaimDelete, ReclaimDone, ReclaimFails, Ready,
              Reclaimed, Step, Return, Poison, Quiet
<1>4. ASSUME Appending PROVE Moves
  <2>1. gate' = gate /\ pc # "delete" /\ pc' # "delete"
    BY <1>4 DEF Appending, BeginAppend, BeginBoundedAppend, Sealing, WriteRecord, WriteRecordFails,
                SyncRecord, SyncRecordFails, Ready, Step, Return, Poison, Quiet
  <2>2. QED
    BY <2>1
<1>5. ASSUME Generations PROVE Moves
  <2>1. ASSUME \/ \E n \in 1..MaxCount : BeginSeal(n)
               \/ \E K \in SUBSET Keys : BeginPruneSet(K)
               \/ \E k \in Keys : BeginPruneSubtree(k)
               \/ BeginReidentify
        PROVE  gate' = gate /\ pc # "delete" /\ pc' # "delete"
    BY <2>1 DEF BeginSeal, BeginPruneSet, BeginPruneSubtree, BeginReidentify, Sealing, Pruning, Ready,
                Quiet
  <2>2. ASSUME \/ StageSegment \/ StageRoute \/ StageManifest \/ StageFails
               \/ PublishSegment \/ PublishRoute \/ PublishArtifactFails
        PROVE  gate' = gate /\ pc # "delete" /\ pc' # "delete"
    BY <2>2 DEF StageSegment, StageRoute, StageManifest, Stage, StageFails, PublishSegment, PublishRoute,
                PublishArtifact, PublishArtifactFails, Step, Return, Poison, Quiet
  <2>3. ASSUME \/ RenameManifest \/ RenameManifestFails \/ SyncManifest \/ SyncManifestFails
               \/ Recycle \/ RecycleSync \/ RecycleFails
        PROVE  gate' = gate /\ pc # "delete" /\ pc' # "delete"
    BY <2>3 DEF RenameManifest, RenameManifestFails, SyncManifest, SyncManifestFails, Recycle,
                RecycleSync, RecycleFails, Step, Return, Poison, Quiet
  <2>4. QED
    BY <1>5, <2>1, <2>2, <2>3, Zenon DEF Generations
<1>6. ASSUME ReclaimDeferred \/ PublishMissing PROVE Moves
  BY <1>6 DEF ReclaimDeferred, PublishMissing, Reclaimed, Step, Return, Poison, Quiet
<1>7. ASSUME Close \/ ProcessCrash \/ MaterializeFails PROVE Stop
  BY <1>7 DEF Close, ProcessCrash, MaterializeFails
<1>8. QED
  BY <1>1, <1>2, <1>3, <1>4, <1>5, <1>6, <1>7, Zenon DEF Next

LEMMA WriterGates ==
    ASSUME Gates, UNCHANGED <<rdr, wkr>>,
           Next \/ MaterializeFails \/ ReclaimDeferred \/ PublishMissing, ~PowerLoss
    PROVE  Gates'
BY GateMoves DEF Gates

-----------------------------------------------------------------------------
(* The reader under the writer's steps *)

LEMMA ReaderKept ==
    ASSUME SharedStore, SharedStore', Gates, SharedReader, Forward, rdr' = rdr
    PROVE  SharedReader'
<1>1. Loaded(dir).gen \in Nat /\ Loaded(dir').gen \in Nat
  <2>1. Loaded(dir).gen \in Nat
    BY LoadedTyped DEF SharedStore
  <2>2. Loaded(dir)'.gen \in Nat
    <3>1. SharedDirectory'
      BY DEF SharedStore
    <3>2. PICK t, b : Stands(Loaded(dir'), dir'.hot, t, b)
      BY <3>1 DEF SharedDirectory
    <3>3. QED
      BY <3>2, StandsParts
  <2>3. QED
    BY <2>1, <2>2
<1>2. /\ Loaded(dir).gen <= Loaded(dir').gen /\ Loaded(dir).deleted \subseteq Loaded(dir').deleted
      /\ FilesMove
  BY DEF Forward
<1>3. ASSUME rdr.at \in Reading
      PROVE  /\ GoodManifest(rdr.man) /\ rdr.man.gen <= Loaded(dir').gen
             /\ ManifestHolds(dir', rdr.man)
             /\ Clean(SealedState(rdr.man)) /\ rdr.since.deleted \subseteq rdr.man.deleted
  <2>1. /\ GoodManifest(rdr.man) /\ rdr.man.gen <= Loaded(dir).gen /\ ManifestHolds(dir, rdr.man)
        /\ Clean(SealedState(rdr.man)) /\ rdr.since.deleted \subseteq rdr.man.deleted
    BY <1>3 DEF SharedReader
  <2>2. rdr.man.gen \in Nat
    BY <2>1 DEF GoodManifest, Manifests
  <2>3. pc # "delete"
    BY <1>3 DEF Gates, Reading
  <2>4. CASE dir'.files = dir.files
    BY <1>1, <1>2, <2>1, <2>2, <2>4, HoldsSame
  <2>5. CASE \E name, gen, cps : Adds(name, gen, cps)
    <3>1. PICK name, gen, cps : Adds(name, gen, cps)
      BY <2>5
    <3>2. gen \in Nat /\ Loaded(dir).gen < gen
      BY <3>1 DEF Adds
    <3>3. rdr.man.gen < gen
      BY <1>1, <2>1, <2>2, <3>2
    <3>4. ManifestHolds(dir', rdr.man)
      BY <2>1, <3>1, <3>2, <3>3, HoldsAdded DEF Adds
    <3>5. QED
      BY <1>1, <1>2, <2>1, <2>2, <3>4
  <2>6. QED
    BY <1>2, <2>3, <2>4, <2>5 DEF FilesMove
<1>4. rdr.at = "leased" => rdr.since.deleted \subseteq Loaded(dir').deleted
  BY <1>2 DEF SharedReader
<1>5. QED
  BY <1>3, <1>4 DEF SharedReader

LEMMA WriterKeepsSharing ==
    ASSUME NoneIsNoFunction, "power" \notin CrashKinds, SharingInvariant,
           WriterStep \/ ((MaterializeFails \/ ReclaimDeferred \/ PublishMissing) /\ UNCHANGED <<rdr, wkr>>)
    PROVE  SharingInvariant'
<1>1. ~PowerLoss
  BY DEF PowerLoss
<1>2. SharedStore' /\ Forward
  BY NextShared, BesideShared DEF SharingInvariant, WriterStep
<1>3. rdr' = rdr /\ wkr' = wkr
  BY DEF WriterStep
<1>4. Gates'
  BY <1>1, <1>3, WriterGates DEF SharingInvariant, WriterStep
<1>5. SharedReader'
  BY <1>2, <1>3, ReaderKept DEF SharingInvariant
<1>6. QED
  BY <1>2, <1>3, <1>4, <1>5 DEF SharingInvariant

-----------------------------------------------------------------------------
(* The steps of reader and worker *)

\* The writer does not notice a step that leaves manifest and log alone.
LEMMA WriterUnaware ==
    ASSUME SharedStore, IsDirectory(dir'), dir'.manifest = dir.manifest, dir'.hot = dir.hot,
           UNCHANGED writerVars, acked' = acked
    PROVE  SharedStore' /\ Loaded(dir') = Loaded(dir)
<1>1. UNCHANGED <<pc, mem, man, tail, poisoned, job>>
  BY DEF writerVars
<1>2. Loaded(dir') = Loaded(dir)
  BY DEF Loaded
<1>3. TxTrue' = TxTrue
  BY <1>1 DEF TxTrue, Prepared
<1>4. /\ Opened' = Opened /\ InStep' = InStep /\ RecordWritten' = RecordWritten
      /\ Generation' = Generation /\ LongLog' = LongLog /\ ShortLog' = ShortLog
  BY <1>1, <1>3 DEF Opened, InStep, RecordWritten, Generation, LongLog, ShortLog
<1>5. SharedWriter'
  BY <1>1, <1>3, <1>4 DEF SharedStore, SharedWriter
<1>6. SharedDirectory' /\ SharedAcks'
  BY <1>2 DEF SharedStore, SharedDirectory, SharedAcks
<1>7. QED
  BY <1>2, <1>5, <1>6 DEF SharedStore

LEMMA StoreUnmoved ==
    ASSUME SharedStore, UNCHANGED <<directory, writerVars, acked>>
    PROVE  SharedStore' /\ dir' = dir /\ pc' = pc
<1>1. dir' = dir /\ pc' = pc
  BY DEF directory, writerVars
<1>2. QED
  BY <1>1, WriterUnaware DEF SharedStore, SharedDirectory

LEMMA ReaderLeaves ==
    ASSUME SharingInvariant, Refused \/ ReaderClose, rdr.at \in Reading \cup {"leased"}, gate' = "free",
           UNCHANGED <<directory, writerVars, acked, wkr>>
    PROVE  SharingInvariant'
<1>1. SharedStore' /\ dir' = dir /\ pc' = pc /\ wkr' = wkr
  BY StoreUnmoved DEF SharingInvariant
<1>2. rdr' = [at |-> rdr'.at, man |-> rdr'.man, since |-> rdr'.since] /\ rdr'.at \in {"refused", "closed"}
  BY DEF SharingInvariant, SharedReader, Refused, ReaderClose
<1>3. SharedReader'
  BY <1>2 DEF SharedReader, Reading
<1>4. Gates'
  BY <1>1, <1>2 DEF SharingInvariant, Gates, Reading
<1>5. QED
  BY <1>1, <1>3, <1>4 DEF SharingInvariant

LEMMA ReaderLeaseKeeps ==
    ASSUME SharingInvariant, ReaderLease
    PROVE  SharingInvariant'
<1>1. SharedStore' /\ dir' = dir /\ pc' = pc /\ wkr' = wkr /\ gate = "free" /\ gate' = "shared"
  BY StoreUnmoved DEF SharingInvariant, ReaderLease
<1>2. rdr' = [at |-> "leased", man |-> rdr.man, since |-> acked]
  BY DEF ReaderLease, SharingInvariant, SharedReader
<1>3. rdr'.at = "leased" /\ rdr'.since = acked /\ rdr'.man = rdr.man
  BY <1>2
<1>4. acked.deleted \subseteq Loaded(dir').deleted
  BY <1>1 DEF SharingInvariant, SharedStore, SharedAcks
<1>5. SharedReader'
  BY <1>2, <1>3, <1>4 DEF SharedReader, Reading
<1>6. Gates'
  BY <1>1, <1>3 DEF SharingInvariant, Gates, Reading
<1>7. QED
  BY <1>1, <1>5, <1>6 DEF SharingInvariant

LEMMA ReaderLoadKeeps ==
    ASSUME SharingInvariant, ReaderLoad
    PROVE  SharingInvariant'
<1>1. SharedStore' /\ dir' = dir /\ pc' = pc /\ wkr' = wkr /\ rdr.at = "leased"
  BY StoreUnmoved DEF SharingInvariant, ReaderLoad
<1>2. CASE ~ManifestHolds(dir, Loaded(dir))
  BY <1>1, <1>2, ReaderLeaves DEF ReaderLoad, Refused
<1>3. CASE ManifestHolds(dir, Loaded(dir))
  <2> DEFINE m == Loaded(dir)
             at == IF m.gen = 0 THEN "open" ELSE "loaded"
  <2>1. rdr' = [rdr EXCEPT !.at = at, !.man = m] /\ gate' = gate
    BY <1>3 DEF ReaderLoad
  <2>2. GoodManifest(m) /\ m.gen \in Nat /\ Clean(SealedState(m))
    BY LoadedTyped DEF SharingInvariant, SharedStore
  <2>3. at \in {"open", "loaded"}
    OBVIOUS
  <2>4. rdr.since.deleted \subseteq m.deleted
    BY <1>1 DEF SharingInvariant, SharedReader
  <2>5. Loaded(dir') = m /\ ManifestHolds(dir', m)
    BY <1>1, <1>3
  <2> HIDE DEF at, m
  <2>6. rdr' = [at |-> at, man |-> m, since |-> rdr.since]
    BY <2>1 DEF SharingInvariant, SharedReader
  <2>7. rdr'.at = at /\ rdr'.man = m /\ rdr'.since = rdr.since
    BY <2>6
  <2>8. m.gen <= m.gen
    BY <2>2
  <2>9. SharedReader'
    BY <2>2, <2>3, <2>4, <2>5, <2>6, <2>7, <2>8 DEF SharedReader
  <2>10. Gates'
    BY <1>1, <2>1, <2>3, <2>7 DEF SharingInvariant, Gates, Reading
  <2>11. QED
    BY <1>1, <2>9, <2>10 DEF SharingInvariant
<1>4. QED
  BY <1>2, <1>3

LEMMA ReaderGoesOn ==
    ASSUME SharingInvariant, ReaderSegments \/ ReaderHot
    PROVE  SharingInvariant'
<1>1. SharedStore' /\ dir' = dir /\ pc' = pc /\ wkr' = wkr /\ rdr.at \in {"loaded", "segments"}
  BY StoreUnmoved DEF SharingInvariant, ReaderSegments, ReaderHot
<1>2. CASE Refused
  BY <1>1, <1>2, ReaderLeaves DEF ReaderSegments, ReaderHot, Refused, Reading
<1>3. CASE ~Refused
  <2>1. PICK at \in {"segments", "open"} : rdr' = [rdr EXCEPT !.at = at] /\ gate' = gate
    BY <1>3 DEF ReaderSegments, ReaderHot
  <2>2. rdr' = [at |-> at, man |-> rdr.man, since |-> rdr.since]
    BY <2>1 DEF SharingInvariant, SharedReader
  <2>3. rdr'.at = at /\ rdr'.man = rdr.man /\ rdr'.since = rdr.since
    BY <2>2
  <2>4. SharedReader'
    BY <1>1, <2>1, <2>2, <2>3 DEF SharingInvariant, SharedReader, Reading
  <2>5. Gates'
    BY <1>1, <2>1, <2>3 DEF SharingInvariant, Gates, Reading
  <2>6. QED
    BY <1>1, <2>4, <2>5 DEF SharingInvariant
<1>4. QED
  BY <1>2, <1>3

\* The worker takes the gate only when it is free.
LEMMA WorkerMoves ==
    ASSUME SharingInvariant, UNCHANGED <<directory, writerVars, acked, rdr>>,
           wkr' = [at |-> wkr'.at, man |-> wkr'.man, removed |-> wkr'.removed],
           \/ gate' = gate /\ wkr.at # "delete" /\ wkr'.at # "delete"
           \/ gate = "free" /\ gate' = "worker" /\ wkr'.at = "delete"
           \/ wkr.at = "delete" /\ gate' = "free" /\ wkr'.at # "delete"
    PROVE  SharingInvariant'
<1>1. SharedStore' /\ dir' = dir /\ pc' = pc /\ rdr' = rdr
  BY StoreUnmoved DEF SharingInvariant
<1>2. SharedReader'
  BY <1>1 DEF SharingInvariant, SharedReader
<1>3. Gates'
  BY <1>1 DEF SharingInvariant, Gates, Reading
<1>4. QED
  BY <1>1, <1>2, <1>3 DEF SharingInvariant

\* It removes under the exclusive gate, where no reader holds the lease.
LEMMA WorkerDeleteKeeps ==
    ASSUME SharingInvariant, WorkerDelete
    PROVE  SharingInvariant'
<1>1. /\ wkr.at = "delete" /\ wkr' = [wkr EXCEPT !.removed = TRUE] /\ UNCHANGED <<gate, writerVars, acked, rdr>>
      /\ pc' = pc
  BY DEF WorkerDelete, writerVars
<1>2. IsDirectory(dir') /\ dir'.manifest = dir.manifest /\ dir'.hot = dir.hot
  BY Removed DEF WorkerDelete, SharingInvariant
<1>3. SharedStore'
  BY <1>1, <1>2, WriterUnaware DEF SharingInvariant
<1>4. wkr' = [at |-> wkr.at, man |-> wkr.man, removed |-> TRUE]
  BY <1>1 DEF SharingInvariant
<1>5. /\ wkr'.at = wkr.at /\ wkr'.man = wkr.man /\ wkr'.removed = TRUE
      /\ wkr' = [at |-> wkr'.at, man |-> wkr'.man, removed |-> wkr'.removed]
  BY <1>4
<1>6. rdr.at \notin Reading \cup {"leased"}
  BY <1>1 DEF SharingInvariant, Gates
<1>7. SharedReader'
  BY <1>1, <1>6 DEF SharingInvariant, SharedReader
<1>8. Gates'
  BY <1>1, <1>5 DEF SharingInvariant, Gates
<1>9. QED
  BY <1>3, <1>5, <1>7, <1>8 DEF SharingInvariant

LEMMA WorkerKeeps ==
    ASSUME SharingInvariant,
           WorkerLoad \/ WorkerDeferred \/ WorkerGate \/ WorkerDelete \/ WorkerDone \/ WorkerStops
    PROVE  SharingInvariant'
<1>1. wkr = [at |-> wkr.at, man |-> wkr.man, removed |-> wkr.removed]
  BY DEF SharingInvariant
<1>2. CASE WorkerLoad
  <2>1. /\ UNCHANGED <<directory, writerVars, acked, rdr>> /\ gate' = gate
        /\ wkr.at = "idle" /\ wkr'.at \in {"loaded", "stopped"}
        /\ wkr' = [at |-> wkr'.at, man |-> wkr'.man, removed |-> wkr'.removed]
    BY <1>2 DEF WorkerLoad, vars
  <2>2. QED
    BY <2>1, WorkerMoves
<1>3. ASSUME NEW x, wkr' = [wkr EXCEPT !.at = x]
      PROVE  wkr'.at = x /\ wkr' = [at |-> wkr'.at, man |-> wkr'.man, removed |-> wkr'.removed]
  <2>1. wkr' = [at |-> x, man |-> wkr.man, removed |-> wkr.removed]
    BY <1>1, <1>3
  <2>2. QED
    BY <2>1
<1>4. CASE WorkerDeferred
  BY <1>3, <1>4, WorkerMoves DEF WorkerDeferred, vars
<1>5. CASE WorkerGate
  BY <1>3, <1>5, WorkerMoves DEF WorkerGate
<1>6. CASE WorkerDone
  BY <1>3, <1>6, WorkerMoves DEF WorkerDone
<1>7. CASE WorkerStops
  BY <1>3, <1>7, WorkerMoves DEF WorkerStops
<1>8. QED
  BY <1>2, <1>4, <1>5, <1>6, <1>7, WorkerDeleteKeeps

LEMMA SharingNextKeeps ==
    ASSUME NoneIsNoFunction, "power" \notin CrashKinds, SharingInvariant, SharingNext
    PROVE  SharingInvariant'
<1>1. CASE ReaderClose
  BY <1>1, ReaderLeaves DEF ReaderClose, Reading
<1>2. CASE MaterializeFails \/ ReclaimDeferred \/ PublishMissing
  <2>1. UNCHANGED <<rdr, wkr>>
    BY <1>2 DEF MaterializeFails, ReclaimDeferred, PublishMissing
  <2>2. QED
    BY <1>2, <2>1, WriterKeepsSharing
<1>3. QED
  BY <1>1, <1>2, WriterKeepsSharing, ReaderLeaseKeeps, ReaderLoadKeeps, ReaderGoesOn, WorkerKeeps, Zenon
  DEF SharingNext

LEMMA SharingStutters ==
    ASSUME SharingInvariant, UNCHANGED sharingVars
    PROVE  SharingInvariant'
<1>1. UNCHANGED <<directory, writerVars, acked>> /\ gate' = gate /\ rdr' = rdr /\ wkr' = wkr
  BY DEF sharingVars, vars
<1>2. SharedStore' /\ dir' = dir /\ pc' = pc
  BY <1>1, StoreUnmoved DEF SharingInvariant
<1>3. QED
  BY <1>1, <1>2 DEF SharingInvariant, SharedReader, Gates

LEMMA SharingInitKeeps ==
    ASSUME NoneIsNoFunction, SharingInit
    PROVE  SharingInvariant
<1>1. dir.manifest = None /\ dir.hot = None /\ IsDirectory(dir)
  BY DEF SharingInit, Init, EmptyDirectory, IsDirectory
<1>2. Loaded(dir) = DefaultManifest
  BY <1>1 DEF Loaded
<1>3. Clean(EmptyState)
  BY DEF Clean, EmptyState
<1>4. SharedDirectory
  BY <1>1, <1>2, <1>3, InitStands DEF SharedDirectory
<1>5. SharedWriter
  BY DEF SharingInit, Init, SharedWriter, Staging
<1>6. acked = [live |-> {}, deleted |-> {}]
  BY DEF SharingInit, Init
<1>7. SharedAcks
  BY <1>6 DEF SharedAcks
<1>8. /\ rdr = [at |-> "idle", man |-> DefaultManifest, since |-> acked]
      /\ wkr = [at |-> "idle", man |-> DefaultManifest, removed |-> FALSE]
      /\ gate = "free" /\ pc = "closed"
  BY DEF SharingInit, Init
<1>9. SharedReader /\ Gates
  BY <1>8 DEF SharedReader, Gates, Reading
<1>10. QED
  BY <1>4, <1>5, <1>7, <1>8, <1>9 DEF SharingInvariant, SharedStore

-----------------------------------------------------------------------------
(* Theorems *)

\* Beside a reader and a worker that may take referenced files away, manifest
\* and log of every reachable directory stand for a state with no deleted
\* checkpoint, and the gate belongs to at most one of writer, worker and
\* readers.  No process outlives a power loss, so none is considered.
THEOREM SharingInvariantHolds ==
    ASSUME NoneIsNoFunction, "power" \notin CrashKinds
    PROVE  SharingSpec => []SharingInvariant
<1>1. SharingInit => SharingInvariant
  BY SharingInitKeeps
<1>2. SharingInvariant /\ [SharingNext]_sharingVars => SharingInvariant'
  BY SharingNextKeeps, SharingStutters
<1>3. QED
  BY <1>1, <1>2, PTL DEF SharingSpec

\* A reader under the lease keeps every file its manifest refers to, however
\* many generations the writer publishes and whatever writer and worker
\* reclaim meanwhile.
THEOREM LeaseKeepsFiles ==
    ASSUME NoneIsNoFunction, "power" \notin CrashKinds
    PROVE  SharingSpec => []LeasedFilesStay
<1>1. SharingInvariant => LeasedFilesStay
  BY DEF SharingInvariant, SharedReader, Reading, LeasedFilesStay
<1>2. QED
  BY <1>1, SharingInvariantHolds, PTL

\* A checkpoint whose deletion was acknowledged before a reader took the lease
\* is not among what that reader shows.
THEOREM DeletedHidden ==
    ASSUME NoneIsNoFunction, "power" \notin CrashKinds
    PROVE  SharingSpec => []DeletedStaysHidden
<1>1. ASSUME SharingInvariant, rdr.at = "open"
      PROVE  KeysOf(Seen) \cap rdr.since.deleted = {}
  <2>1. Clean(SealedState(rdr.man)) /\ rdr.since.deleted \subseteq rdr.man.deleted
    BY <1>1 DEF SharingInvariant, SharedReader, Reading
  <2>2. SealedState(rdr.man).deleted = rdr.man.deleted
    BY DEF SealedState
  <2>3. \A c \in Seen : c.key \notin SealedState(rdr.man).deleted
    BY <2>1, CleanLive DEF Seen
  <2>4. QED
    BY <2>1, <2>2, <2>3 DEF KeysOf
<1>2. SharingInvariant => DeletedStaysHidden
  BY <1>1 DEF DeletedStaysHidden
<1>3. QED
  BY <1>2, SharingInvariantHolds, PTL
=============================================================================
