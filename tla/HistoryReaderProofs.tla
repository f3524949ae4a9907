------------------------ MODULE HistoryReaderProofs -------------------------
(***************************************************************************)
(* Proofs about HistoryReader: until power is lost, a read-only open beside *)
(* a running writer invents nothing, misses nothing once a generation is   *)
(* sealed, and reads through files that keep their bytes.                  *)
(*                                                                         *)
(* The reader binds to one generation and the writer moves on.  At(d, g)   *)
(* is the directory d as a reader of generation g sees it; the invariant   *)
(* says what the writer leaves of it.                                      *)
(***************************************************************************)
EXTENDS HistoryReader, HistoryAuthorityProofs

-----------------------------------------------------------------------------
(* The invariant *)

\* The directory with the manifest of generation g.
At(d, g) == [d EXCEPT !.manifest = g]

\* A publication knows what it publishes.
JobThere == pc \in PublishingSteps => job # None

IsReader ==
    /\ DOMAIN rdr = {"at", "gen", "pgen", "since", "store"}
    /\ rdr.at \in {"idle", "bind", "replay", "open", "failed", "closed"}

\* The store a goes on from s.
Inside(s, a) ==
    Whole(s) /\ Len(s.arena) <= Len(a.arena) /\ Keeps(Promise(a), Promise(s))

\* The reader's generation is sealed over the current content files, whatever
\* the writer has sealed since.
ReaderBound ==
    Reading =>
        /\ ~Collecting(job)
        /\ rdr.gen \in Nat /\ rdr.gen <= disk.manifest
        /\ rdr.gen = 0 \/ rdr.gen \in DOMAIN disk.snaps
        /\ SealedPgen(At(disk, rdr.gen)) = SealedPgen(disk)
        /\ Keeps(Promise(auth), rdr.since)

\* The log of the reader's generation is the current one or not recycled yet.
LogThere == rdr.gen = disk.manifest \/ rdr.gen \in DOMAIN disk.hots

\* With its log the reader's generation still stands for a store.
GenerationReadable ==
    rdr.at \in {"bind", "replay"} /\ LogThere =>
        LET s == Authoritative(At(disk, rdr.gen))
        IN  s # None /\ Inside(s, auth) /\ Keeps(Promise(s), rdr.since)

\* The base the reader bound to is the one its generation has now.
BaseCurrent ==
    rdr.at = "replay" =>
        /\ rdr.pgen = SealedPgen(disk)
        /\ rdr.gen = 0 => rdr.store = NewStore
        /\ LogThere => rdr.store = Base(At(disk, rdr.gen))

\* The store of an open reader.
ReaderOpen ==
    rdr.at = "open" =>
        /\ rdr.pgen = SealedPgen(disk)
        /\ Inside(rdr.store, auth)
        /\ rdr.gen > 0 => Keeps(Promise(rdr.store), rdr.since)
        /\ Len(rdr.store.arena) > 0 => Holds(rdr.store, Current(disk))

ReaderTrue == ReaderBound /\ GenerationReadable /\ BaseCurrent /\ ReaderOpen

ReaderInvariant ==
    /\ AuthorityInvariant
    /\ JobThere
    /\ IsReader
    /\ crashes.outages = 0 => ReaderTrue

-----------------------------------------------------------------------------
(* A directory seen from another generation *)

LEMMA AtFacts ==
    ASSUME NEW d, IsDirectory(d), NEW g \in Nat
    PROVE  /\ IsDirectory(At(d, g)) /\ At(d, g).manifest = g
           /\ At(d, g).snaps = d.snaps /\ At(d, g).hots = d.hots
           /\ At(d, g).content = d.content
<1> DEFINE e == At(d, g)
<1>1. /\ DOMAIN e = {"manifest", "snaps", "hots", "content"} /\ e.manifest = g
      /\ e.snaps = d.snaps /\ e.hots = d.hots /\ e.content = d.content
  BY DEF At, IsDirectory
<1> HIDE DEF e
<1>2. IsDirectory(e)
  BY <1>1 DEF IsDirectory
<1>3. QED
  BY <1>1, <1>2 DEF e

\* What a directory stands for hangs on its four parts.
LEMMA SameParts ==
    ASSUME NEW d, NEW e, e.manifest = d.manifest, e.snaps = d.snaps, e.hots = d.hots,
           e.content = d.content
    PROVE  Authoritative(e) = Authoritative(d) /\ Base(e) = Base(d)
             /\ SealedPgen(e) = SealedPgen(d) /\ Current(e) = Current(d)
  BY DEF Authoritative, Base, SealedPgen, Current, HotFrames

\* A reader of the current generation sees the directory as it is.
LEMMA AtCurrent ==
    ASSUME NEW d, IsDirectory(d)
    PROVE  /\ Authoritative(At(d, d.manifest)) = Authoritative(d)
           /\ Base(At(d, d.manifest)) = Base(d)
           /\ SealedPgen(At(d, d.manifest)) = SealedPgen(d)
  BY AtFacts, SameParts DEF IsDirectory

LEMMA KeepsFewer ==
    ASSUME NEW c, NEW c2, NEW n \in Nat, NEW m \in Nat, m <= n, KeepsContent(c, c2, n),
           AreFiles(c2)
    PROVE  KeepsContent(c, c2, m)
<1>1. Len(c2.payload.data) \in Nat /\ Len(c2.nodes.data) \in Nat
  BY IsSeqFacts DEF AreFiles, IsFile
<1>2. \A i \in 1..m : i \in 1..n
  OBVIOUS
<1>3. QED
  BY <1>1, <1>2 DEF KeepsContent, FilesCover

LEMMA PromisesKeptOn ==
    ASSUME NEW p, NEW q, NEW r, Keeps(p, q), Keeps(q, r)
    PROVE  Keeps(p, r)
  BY DEF Keeps

-----------------------------------------------------------------------------
(* What a step of the writer leaves beside a reader *)

\* The directory d standing for a becomes e standing for b.  The recovered
\* store grows, the content files below it keep their bytes, the seals up to
\* the current one stay, and the log of an older generation stays or goes.
Beside(d, a, e, b) ==
    /\ b # None /\ Len(a.arena) <= Len(b.arena) /\ Keeps(Promise(b), Promise(a))
    /\ SealedPgen(e) = SealedPgen(d)
    /\ \/ e.manifest = d.manifest
       \/ /\ e.manifest = d.manifest + 1
          /\ e.snaps = d.snaps /\ e.hots = d.hots /\ e.content = d.content
    /\ \A g \in DOMAIN d.snaps :
          g <= d.manifest => g \in DOMAIN e.snaps /\ e.snaps[g] = d.snaps[g]
    /\ \A g \in Nat : g \in DOMAIN e.hots /\ g < d.manifest =>
          g \in DOMAIN d.hots /\ e.hots[g].frames = d.hots[g].frames
    /\ \/ d.manifest = 0 /\ Len(a.arena) = 0
       \/ KeepsContent(Current(d), e.content[SealedPgen(d)], Len(a.arena))

\* What an older generation stands for, as long as its log is there.
LEMMA OlderSame ==
    ASSUME NoneIsNoFunction, NEW d, IsDirectory(d), SealsInOrder(d), NEW a,
           a = Authoritative(d), a # None, NEW e, IsDirectory(e), NEW b, Beside(d, a, e, b),
           NEW g \in Nat, g <= d.manifest, g # e.manifest, g \in DOMAIN e.hots,
           g = 0 \/ g \in DOMAIN d.snaps,
           SealedPgen(At(d, g)) = SealedPgen(d),
           Authoritative(At(d, g)) # None,
           Len(Authoritative(At(d, g)).arena) <= Len(a.arena)
    PROVE  Authoritative(At(e, g)) = Authoritative(At(d, g)) /\ Base(At(e, g)) = Base(At(d, g))
<1> DEFINE x == At(d, g)
           y == At(e, g)
<1>1. /\ IsDirectory(x) /\ x.manifest = g /\ x.snaps = d.snaps /\ x.hots = d.hots
      /\ x.content = d.content
  BY AtFacts
<1>2. /\ IsDirectory(y) /\ y.manifest = g /\ y.snaps = e.snaps /\ y.hots = e.hots
      /\ y.content = e.content
  BY AtFacts
<1>3. SealedPgen(x) = SealedPgen(d) /\ Authoritative(x) # None
        /\ Len(Authoritative(x).arena) <= Len(a.arena)
  OBVIOUS
<1> HIDE DEF x, y
<1>4. CASE e.snaps = d.snaps /\ e.hots = d.hots /\ e.content = d.content
  <2>1. Authoritative(y) = Authoritative(x) /\ Base(y) = Base(x)
    BY <1>1, <1>2, <1>4, SameParts
  <2>2. QED
    BY <2>1 DEF x, y
<1>5. CASE e.manifest = d.manifest
  <2>1. g < d.manifest /\ d.manifest # 0
    BY <1>5 DEF IsDirectory
  <2>2. SameSeal(x, y)
    BY <1>1, <1>2 DEF SameSeal, Beside
  <2>3. HotFrames(y, g) = HotFrames(x, g)
    BY <1>1, <1>2, <2>1 DEF HotFrames, Beside
  <2>4. KeepsContent(Current(d), e.content[SealedPgen(d)], Len(a.arena))
    BY <2>1 DEF Beside
  <2>5. SealedPgen(d) \in Gens /\ Len(a.arena) \in Nat
    BY StoreFacts
  <2>6. Whole(Authoritative(x))
    BY <1>1, <1>3, AuthoritativeFacts
  <2>7. Len(Authoritative(x).arena) \in Nat
    BY <2>6, IsSeqFacts DEF Whole
  <2>8. AreFiles(e.content[SealedPgen(d)])
    BY <2>5 DEF IsDirectory
  <2>9. KeepsContent(Current(d), e.content[SealedPgen(d)], Len(Authoritative(x).arena))
    BY <1>3, <2>4, <2>5, <2>7, <2>8, KeepsFewer
  <2>10. Current(x) = Current(d) /\ y.content[SealedPgen(x)] = e.content[SealedPgen(d)]
    BY <1>1, <1>2, <1>3 DEF Current
  <2>11. KeepsContent(Current(x), y.content[SealedPgen(x)], Len(Authoritative(x).arena))
    BY <2>9, <2>10
  <2>12. HotFrames(y, x.manifest) = HotFrames(x, x.manifest)
    BY <1>1, <2>3
  <2>13. Base(y) = Base(x)
    BY <1>1, <1>2, <1>3, <2>2, <2>11, BaseSame
  <2>14. Authoritative(y) = Authoritative(x)
    BY <1>1, <1>2, <1>3, <2>2, <2>11, <2>12, AuthoritativeSame
  <2>15. QED
    BY <2>13, <2>14 DEF x, y
<1>6. QED
  BY <1>4, <1>5 DEF Beside

\* The current base, while the manifest stays.
LEMMA CurrentBaseSame ==
    ASSUME NEW d, IsDirectory(d), SealsInOrder(d), NEW a,
           a = Authoritative(d), a # None, NEW e, IsDirectory(e), NEW b, Beside(d, a, e, b),
           e.manifest = d.manifest
    PROVE  Base(e) = Base(d)
<1>1. d.manifest = 0 \/ d.manifest \in DOMAIN d.snaps
  BY StoreFacts
<1>2. d.manifest <= d.manifest
  BY DEF IsDirectory
<1>3. SameSeal(d, e)
  BY <1>1, <1>2 DEF SameSeal, Beside
<1>4. QED
  BY <1>3, BaseSame DEF Beside

-----------------------------------------------------------------------------
(* The reader beside a step of the writer *)

LEMMA InsideGrows ==
    ASSUME NEW s, NEW a, NEW b, Inside(s, a), Whole(a), Whole(b),
           Len(a.arena) <= Len(b.arena), Keeps(Promise(b), Promise(a))
    PROVE  Inside(s, b)
<1>1. Len(s.arena) \in Nat /\ Len(a.arena) \in Nat /\ Len(b.arena) \in Nat
  BY IsSeqFacts DEF Inside, Whole
<1>2. Len(s.arena) <= Len(b.arena)
  BY <1>1 DEF Inside
<1>3. Keeps(Promise(b), Promise(s))
  BY PromisesKeptOn DEF Inside
<1>4. QED
  BY <1>2, <1>3 DEF Inside

LEMMA WriterKeepsReader ==
    ASSUME NoneIsNoFunction, AuthorityInvariant, AuthorityInvariant', auth # None,
           Beside(disk, auth, disk', auth'), IsReader, ReaderTrue, rdr' = rdr,
           Reading => ~Collecting(job')
    PROVE  ReaderTrue'
<1> DEFINE g == rdr.gen
<1>1. /\ IsDirectory(disk) /\ SealsInOrder(disk) /\ auth = Authoritative(disk)
      /\ IsDirectory(disk') /\ SealsInOrder(disk') /\ auth' = Authoritative(disk')
  BY DEF AuthorityInvariant, DirectoryTrue
<1>2. /\ auth' # None /\ Len(auth.arena) <= Len(auth'.arena)
      /\ Keeps(Promise(auth'), Promise(auth)) /\ SealedPgen(disk') = SealedPgen(disk)
  BY DEF Beside
<1>3. Whole(auth) /\ Whole(auth')
  BY <1>1, <1>2, StoreFacts
<1>4. Reading' <=> Reading
  BY DEF Reading
<1>5. ASSUME Reading
      PROVE  /\ g \in Nat /\ g <= disk.manifest /\ g <= disk'.manifest
             /\ g = 0 \/ g \in DOMAIN disk.snaps
             /\ g = 0 \/ g \in DOMAIN disk'.snaps
             /\ SealedPgen(At(disk, g)) = SealedPgen(disk)
             /\ SealedPgen(At(disk', g)) = SealedPgen(disk')
             /\ Keeps(Promise(auth'), rdr.since)
  <2>1. /\ g \in Nat /\ g <= disk.manifest /\ (g = 0 \/ g \in DOMAIN disk.snaps)
        /\ SealedPgen(At(disk, g)) = SealedPgen(disk) /\ Keeps(Promise(auth), rdr.since)
    BY <1>5 DEF ReaderTrue, ReaderBound
  <2>2. disk.manifest \in Nat
    BY <1>1 DEF IsDirectory
  <2> HIDE DEF g
  <2>3. g <= disk'.manifest
    BY <2>1, <2>2 DEF Beside
  <2>4. g = 0 \/ (g \in DOMAIN disk'.snaps /\ disk'.snaps[g] = disk.snaps[g])
    BY <2>1 DEF Beside
  <2>5. /\ At(disk, g).manifest = g /\ At(disk', g).manifest = g
        /\ At(disk, g).snaps = disk.snaps /\ At(disk', g).snaps = disk'.snaps
    BY <1>1, <2>1, AtFacts
  <2>6. SealedPgen(At(disk', g)) = SealedPgen(At(disk, g))
    BY <2>4, <2>5 DEF SealedPgen
  <2>7. Keeps(Promise(auth'), rdr.since)
    BY <1>2, <2>1, PromisesKeptOn
  <2>8. QED
    BY <1>2, <2>1, <2>3, <2>4, <2>6, <2>7
<1>6. ReaderBound'
  BY <1>4, <1>5 DEF ReaderBound
<1>7. ASSUME rdr.at \in {"bind", "replay"}, LogThere', g # disk'.manifest
      PROVE  /\ LogThere
             /\ Authoritative(At(disk', g)) = Authoritative(At(disk, g))
             /\ Base(At(disk', g)) = Base(At(disk, g))
  <2>1. Reading /\ g \in DOMAIN disk'.hots
    BY <1>7 DEF Reading, LogThere
  <2>2. LogThere
    <3>1. disk.manifest \in Nat /\ g \in Nat /\ g <= disk.manifest
      BY <1>1, <1>5, <2>1 DEF IsDirectory
    <3>2. CASE g = disk.manifest
      BY <3>2 DEF LogThere
    <3>3. CASE g # disk.manifest
      <4>1. g < disk.manifest
        BY <3>1, <3>3
      <4>2. QED
        BY <2>1, <3>1, <4>1 DEF LogThere, Beside
    <3>4. QED
      BY <3>2, <3>3
  <2>3. /\ Authoritative(At(disk, g)) # None
        /\ Len(Authoritative(At(disk, g)).arena) <= Len(auth.arena)
    BY <1>7, <2>2 DEF ReaderTrue, GenerationReadable, Inside
  <2>4. /\ g \in Nat /\ g <= disk.manifest /\ (g = 0 \/ g \in DOMAIN disk.snaps)
        /\ SealedPgen(At(disk, g)) = SealedPgen(disk)
    BY <1>5, <2>1
  <2> HIDE DEF g
  <2>5. QED
    BY <1>1, <1>7, <2>1, <2>2, <2>3, <2>4, OlderSame
<1>8. GenerationReadable'
  <2> DEFINE t == Authoritative(At(disk', g))
  <2>1. SUFFICES ASSUME rdr.at \in {"bind", "replay"}, LogThere'
                 PROVE  t # None /\ Inside(t, auth') /\ Keeps(Promise(t), rdr.since)
    BY DEF GenerationReadable
  <2>2. CASE g = disk'.manifest
    <3>1. t = auth'
      BY <1>1, <2>2, AtCurrent
    <3>2. Inside(auth', auth')
      <4>1. Len(auth'.arena) <= Len(auth'.arena)
        BY <1>3, IsSeqFacts DEF Whole
      <4>2. QED
        BY <1>3, <4>1, KeepsReflexive DEF Inside
    <3>3. Keeps(Promise(auth'), rdr.since)
      BY <1>5, <2>1 DEF Reading
    <3>4. QED
      BY <1>2, <3>1, <3>2, <3>3
  <2>3. CASE g # disk'.manifest
    <3>1. LogThere /\ t = Authoritative(At(disk, g))
      BY <1>7, <2>1, <2>3
    <3>2. t # None /\ Inside(t, auth) /\ Keeps(Promise(t), rdr.since)
      BY <2>1, <3>1 DEF ReaderTrue, GenerationReadable
    <3> HIDE DEF t
    <3>3. Inside(t, auth')
      BY <1>2, <1>3, <3>2, InsideGrows
    <3>4. QED
      BY <3>2, <3>3
  <2>4. QED
    BY <2>2, <2>3
<1>9. BaseCurrent'
  <2>1. SUFFICES ASSUME rdr.at = "replay"
                 PROVE  /\ rdr.pgen = SealedPgen(disk')
                        /\ rdr.gen = 0 => rdr.store = NewStore
                        /\ LogThere' => rdr.store = Base(At(disk', g))
    BY DEF BaseCurrent, LogThere
  <2>2. /\ rdr.pgen = SealedPgen(disk)
        /\ rdr.gen = 0 => rdr.store = NewStore
        /\ LogThere => rdr.store = Base(At(disk, g))
    BY <2>1 DEF ReaderTrue, BaseCurrent
  <2>3. ASSUME LogThere' PROVE rdr.store = Base(At(disk', g))
    <3>1. CASE g = disk'.manifest
      <4>1. disk.manifest \in Nat /\ g <= disk.manifest
        BY <1>1, <1>5, <2>1 DEF IsDirectory, Reading
      <4>2. disk'.manifest = disk.manifest
        BY <3>1, <4>1 DEF Beside
      <4>3. LogThere
        BY <3>1, <4>2 DEF LogThere
      <4>4. Base(disk') = Base(disk)
        BY <1>1, <4>2, CurrentBaseSame
      <4>5. QED
        BY <1>1, <2>2, <3>1, <4>2, <4>3, <4>4, AtCurrent
    <3>2. CASE g # disk'.manifest
      BY <1>7, <2>1, <2>2, <2>3, <3>2
    <3>3. QED
      BY <3>1, <3>2
  <2>4. QED
    BY <1>2, <2>2, <2>3
<1>10. ReaderOpen'
  <2> DEFINE s == rdr.store
  <2>1. SUFFICES ASSUME rdr.at = "open"
                 PROVE  /\ rdr.pgen = SealedPgen(disk')
                        /\ Inside(s, auth')
                        /\ rdr.gen > 0 => Keeps(Promise(s), rdr.since)
                        /\ Len(s.arena) > 0 => Holds(s, Current(disk'))
    BY DEF ReaderOpen
  <2>2. /\ rdr.pgen = SealedPgen(disk) /\ Inside(s, auth)
        /\ rdr.gen > 0 => Keeps(Promise(s), rdr.since)
        /\ Len(s.arena) > 0 => Holds(s, Current(disk))
    BY <2>1 DEF ReaderTrue, ReaderOpen
  <2>3. Whole(s) /\ Len(s.arena) <= Len(auth.arena) /\ Keeps(Promise(auth), Promise(s))
    BY <2>2 DEF Inside
  <2>4. Len(s.arena) \in Nat /\ Len(auth.arena) \in Nat /\ Len(auth'.arena) \in Nat
    BY <1>3, <2>3, IsSeqFacts DEF Whole
  <2> HIDE DEF s
  <2>5. Inside(s, auth')
    BY <1>2, <1>3, <2>2, InsideGrows
  <2>7. ASSUME Len(s.arena) > 0 PROVE Holds(s, Current(disk'))
    <3>1. Len(auth.arena) # 0
      BY <2>3, <2>4, <2>7
    <3>2. KeepsContent(Current(disk), disk'.content[SealedPgen(disk)], Len(auth.arena))
      BY <3>1 DEF Beside
    <3>3. Current(disk') = disk'.content[SealedPgen(disk)] /\ AreFiles(Current(disk'))
      <4>1. AreFiles(Current(disk'))
        BY <1>1, <1>2, StoreFacts
      <4>2. QED
        BY <1>2, <4>1 DEF Current
    <3>4. KeepsContent(Current(disk), Current(disk'), Len(s.arena))
      BY <2>3, <2>4, <3>2, <3>3, KeepsFewer
    <3>5. QED
      BY <2>2, <2>7, <3>4 DEF Holds, KeepsContent
  <2>8. QED
    BY <1>2, <2>2, <2>5, <2>7 DEF s
<1>11. QED
  BY <1>6, <1>8, <1>9, <1>10 DEF ReaderTrue

-----------------------------------------------------------------------------
(* Every step of the writer is such a step *)

LEMMA KeepsItself ==
    ASSUME AuthorityInvariant, auth # None
    PROVE  \/ disk.manifest = 0 /\ Len(auth.arena) = 0
           \/ KeepsContent(Current(disk), Current(disk), Len(auth.arena))
  BY StoreFacts DEF AuthorityInvariant, DirectoryTrue, Holds, KeepsContent

\* The recovered store and the manifest stay.
LEMMA BesideSame ==
    ASSUME AuthorityInvariant, auth # None, auth' = auth,
           disk'.manifest = disk.manifest,
           \A g \in DOMAIN disk.snaps : g <= disk.manifest =>
              g \in DOMAIN disk'.snaps /\ disk'.snaps[g] = disk.snaps[g],
           \A g \in Nat : g \in DOMAIN disk'.hots /\ g < disk.manifest =>
              g \in DOMAIN disk.hots /\ disk'.hots[g].frames = disk.hots[g].frames,
           \/ disk.manifest = 0 /\ Len(auth.arena) = 0
           \/ KeepsContent(Current(disk), disk'.content[SealedPgen(disk)], Len(auth.arena))
    PROVE  Beside(disk, auth, disk', auth')
<1>1. IsDirectory(disk) /\ SealsInOrder(disk) /\ auth = Authoritative(disk)
  BY DEF AuthorityInvariant, DirectoryTrue
<1>2. Len(auth.arena) \in Nat /\ (disk.manifest = 0 \/ disk.manifest \in DOMAIN disk.snaps)
  BY <1>1, StoreFacts
<1>3. SealedPgen(disk') = SealedPgen(disk)
  <2>1. disk.manifest <= disk.manifest
    BY <1>1 DEF IsDirectory
  <2>2. QED
    BY <1>2, <2>1 DEF SealedPgen
<1>4. Len(auth.arena) <= Len(auth'.arena)
  BY <1>2
<1>5. QED
  BY <1>3, <1>4, KeepsReflexive DEF Beside

\* Steps that leave every name alone.
LEMMA BesideContent ==
    ASSUME AuthorityInvariant, auth # None, auth' = auth,
           disk'.manifest = disk.manifest, disk'.snaps = disk.snaps, disk'.hots = disk.hots,
           \/ disk.manifest = 0 /\ Len(auth.arena) = 0
           \/ KeepsContent(Current(disk), disk'.content[SealedPgen(disk)], Len(auth.arena))
    PROVE  Beside(disk, auth, disk', auth')
  BY BesideSame

LEMMA BesideStill ==
    ASSUME AuthorityInvariant, auth # None, UNCHANGED directory
    PROVE  Beside(disk, auth, disk', auth')
<1>1. disk' = disk /\ auth' = auth
  BY DEF directory
<1>2. QED
  BY <1>1, KeepsItself, BesideContent DEF Current

\* Steps that write the current content files.
LEMMA BesideWritten ==
    ASSUME AuthorityInvariant, auth # None, auth' = auth,
           pgen = SealedPgen(disk), pgen \in Gens,
           NEW c, Writes([disk EXCEPT !.content[pgen] = c]),
           \/ disk.manifest = 0 /\ Len(auth.arena) = 0
           \/ KeepsContent(Content0, c, Len(auth.arena))
    PROVE  Beside(disk, auth, disk', auth')
<1>1. disk' = [disk EXCEPT !.content[pgen] = c]
  BY DEF Writes
<1>2. /\ disk'.manifest = disk.manifest /\ disk'.hots = disk.hots
      /\ disk'.snaps = disk.snaps /\ disk'.content[pgen] = c
  BY <1>1, ContentWriteNames
<1>3. Content0 = Current(disk)
  BY DEF Content0, Current
<1>4. QED
  BY <1>2, <1>3, BesideContent

LEMMA BesideOpening ==
    ASSUME NoneIsNoFunction, AuthorityInvariant, auth # None, Opening
    PROVE  Beside(disk, auth, disk', auth')
<1>1. CASE Open \/ SyncHeaders \/ OpenFails
  <2>1. UNCHANGED directory
    BY <1>1 DEF Open, SyncHeaders, OpenFails
  <2>2. QED
    BY <2>1, BesideStill
<1>2. CASE HealOnOpen
  <2> DEFINE c == TruncatedContent(Content0, Frontier)
  <2>1. pc = "heal" /\ Writes([disk EXCEPT !.content[pgen] = c])
    BY <1>2 DEF HealOnOpen, Content0
  <2>2. ~poisoned /\ mem = auth
    BY <2>1 DEF AuthorityInvariant, Placed, MemoryFollows, Working
  <2>3. pgen \in Gens /\ Holds(mem, Content0) /\ Whole(mem)
    BY <2>1 DEF AuthorityInvariant, BytesHeld, CreatingSteps
  <2>4. Frontier \in Nat /\ Frontier = Len(auth.arena)
    BY <2>2, <2>3, IsSeqFacts DEF Frontier, Whole
  <2>5. AreFiles(Content0)
    BY <2>3 DEF AuthorityInvariant, DirectoryTrue, IsDirectory, Content0
  <2>6. KeepsContent(Content0, c, Frontier)
    BY <2>3, <2>4, <2>5, TruncatedContentFacts DEF Holds, Frontier
  <2>7. pgen = SealedPgen(disk)
    BY <2>1, <2>2, WorkingFacts
  <2>8. auth' = auth
    BY <1>2, HealOnOpenKeeps
  <2> HIDE DEF c
  <2>9. QED
    BY <2>1, <2>3, <2>4, <2>6, <2>7, <2>8, BesideWritten
<1>3. CASE CreatePayload \/ CreateNodes \/ PayloadHeader \/ NodesHeader
  <2>1. pc \in CreatingSteps
    BY <1>3 DEF CreatePayload, CreateNodes, CreateContentFile, PayloadHeader, NodesHeader,
       WriteHeader, CreatingSteps
  <2>2. disk.manifest = 0 /\ Len(auth.arena) = 0
    BY <2>1, CreatingFacts
  <2>3. auth' = auth
    BY <1>3, CreateContentFileKeeps, WriteHeaderKeeps DEF CreatePayload, CreateNodes
  <2>4. \/ UNCHANGED directory
        \/ \E file \in {"payload", "nodes"}, x \in {BareFile, ReadyFile(<<>>)} :
              disk' = [disk EXCEPT !.content[pgen][file] = x]
    <3>1. CASE CreatePayload \/ CreateNodes
      BY <3>1 DEF CreatePayload, CreateNodes, CreateContentFile, Writes
    <3>2. CASE PayloadHeader \/ NodesHeader
      BY <3>2 DEF PayloadHeader, NodesHeader, WriteHeader, Writes
    <3>3. QED
      BY <1>3, <3>1, <3>2
  <2>5. CASE UNCHANGED directory
    BY <2>5, BesideStill
  <2>6. ASSUME NEW file, NEW x, disk' = [disk EXCEPT !.content[pgen][file] = x]
        PROVE  Beside(disk, auth, disk', auth')
    <3>1. /\ disk'.manifest = disk.manifest /\ disk'.hots = disk.hots
          /\ disk'.snaps = disk.snaps
      BY <2>6 DEF AuthorityInvariant, DirectoryTrue, IsDirectory
    <3>2. QED
      BY <2>2, <2>3, <3>1, BesideContent
  <2>7. QED
    BY <2>4, <2>5, <2>6
<1>4. CASE OpenHot
  <2>1. pc = "openHot" /\ auth' = auth
    BY <1>4, OpenHotKeeps DEF OpenHot
  <2>2. ~poisoned
    BY <2>1 DEF AuthorityInvariant, Placed
  <2>3. gen = disk.manifest
    BY <2>1, <2>2, WorkingFacts
  <2>4. CASE gen \in DOMAIN disk.hots
    BY <1>4, <2>4, BesideStill DEF OpenHot
  <2>5. CASE gen \notin DOMAIN disk.hots
    <3>1. disk' = [disk EXCEPT !.hots = Put(@, gen, EmptyHot)]
      BY <1>4, <2>5 DEF OpenHot, Writes
    <3>2. IsDirectory(disk) /\ SealsInOrder(disk)
      BY DEF AuthorityInvariant, DirectoryTrue
    <3>3. /\ disk'.manifest = disk.manifest
          /\ disk'.snaps = disk.snaps /\ disk'.content = disk.content
          /\ DOMAIN disk'.hots = DOMAIN disk.hots \cup {gen}
          /\ \A h \in DOMAIN disk.hots : h # gen => disk'.hots[h] = disk.hots[h]
      <4>1. /\ disk'.manifest = disk.manifest /\ disk'.snaps = disk.snaps
            /\ disk'.content = disk.content /\ disk'.hots = Put(disk.hots, gen, EmptyHot)
        BY <3>1, <3>2 DEF IsDirectory
      <4>2. QED
        BY <4>1 DEF Put
    <3>4. ASSUME NEW g \in Nat, g \in DOMAIN disk'.hots, g < disk.manifest
          PROVE  g \in DOMAIN disk.hots /\ disk'.hots[g].frames = disk.hots[g].frames
      <4>1. g # gen
        BY <2>3, <3>2, <3>4 DEF IsDirectory
      <4>2. QED
        BY <3>3, <3>4, <4>1
    <3>5. \A g \in Nat : g \in DOMAIN disk'.hots /\ g < disk.manifest =>
             g \in DOMAIN disk.hots /\ disk'.hots[g].frames = disk.hots[g].frames
      BY <3>4
    <3>6. disk'.content[SealedPgen(disk)] = Current(disk)
      BY <3>3 DEF Current
    <3>7. QED
      BY <2>1, <3>3, <3>5, <3>6, KeepsItself, BesideSame
  <2>6. QED
    BY <2>4, <2>5
<1>5. QED
  BY <1>1, <1>2, <1>3, <1>4 DEF Opening

LEMMA BesideCalls ==
    ASSUME NoneIsNoFunction, AuthorityInvariant, auth # None, Calls, ~Collecting(job')
    PROVE  Beside(disk, auth, disk', auth')
<1>1. CASE BuildGc
  <2> DEFINE s == ApplyGc(mem)
             p == pgen + 1
  <2>1. job' = [type |-> "gc", store |-> s, pgen |-> p]
    BY <1>1 DEF BuildGc
  <2> HIDE DEF s, p
  <2>2. job' = [x \in DOMAIN job' |-> job'[x]] /\ job'.type = "gc"
    BY <2>1
  <2>3. job' # None
    BY <2>2 DEF NoneIsNoFunction
  <2>4. QED
    BY <2>2, <2>3 DEF Collecting
<1>2. CASE BuildGcFails
  <2>1. /\ Ready
        /\ \/ disk' = [disk EXCEPT !.content[pgen + 1].payload = BareFile]
           \/ \E c : disk' = [disk EXCEPT !.content[pgen + 1] = c]
    BY <1>2 DEF BuildGcFails, Writes
  <2>2. pgen = SealedPgen(disk) /\ pgen \in Gens
    BY <2>1, ReadyFacts
  <2>3. pgen + 1 # pgen
    BY <2>2, GenAssumption DEF Gens
  <2>4. auth' = auth
    BY <1>2, BuildGcFailsKeeps
  <2>5. /\ disk'.manifest = disk.manifest /\ disk'.hots = disk.hots
        /\ disk'.snaps = disk.snaps /\ disk'.content[pgen] = disk.content[pgen]
    <3> DEFINE p == pgen + 1
    <3>1. p # pgen
      BY <2>3
    <3>2. \/ disk' = [disk EXCEPT !.content[p].payload = BareFile]
          \/ \E c : disk' = [disk EXCEPT !.content[p] = c]
      BY <2>1
    <3> HIDE DEF p
    <3>3. DOMAIN disk = {"manifest", "snaps", "hots", "content"} /\ pgen \in DOMAIN disk.content
      BY <2>2 DEF AuthorityInvariant, DirectoryTrue, IsDirectory
    <3>4. QED
      BY <3>1, <3>2, <3>3
  <2>6. QED
    BY <2>2, <2>4, <2>5, KeepsItself, BesideContent DEF Current
<1>3. CASE UNCHANGED directory
  BY <1>3, BesideStill
<1>4. QED
  BY <1>1, <1>2, <1>3
  DEF Calls, BeginCreate, BeginSplice, BeginFork, BeginExpire, BeginRetire, AnswerReplayed,
      BeginSeal, Begin

\* Steps between a splice and its frame.
LEMMA BesideSplicing ==
    ASSUME AuthorityInvariant, auth # None, auth' = auth, pc \in ContentSteps,
           NEW c, KeepsContent(Content0, c, Frontier), Writes([disk EXCEPT !.content[pgen] = c])
    PROVE  Beside(disk, auth, disk', auth')
<1>1. Frontier = Len(auth.arena) /\ pgen = SealedPgen(disk) /\ pgen \in Gens
  BY SplicingFacts
<1>2. QED
  BY <1>1, BesideWritten

LEMMA BesidePayload ==
    ASSUME NoneIsNoFunction, AuthorityInvariant, auth # None, AppendPayload \/ AppendPayloadFails
    PROVE  Beside(disk, auth, disk', auth')
<1> DEFINE f(x) == [Healed EXCEPT !["payload"] = AppendTo(Healed["payload"], x)]
<1>1. /\ pc = "payload"
      /\ \/ \E c \in {Content0, Healed} : Writes([disk EXCEPT !.content[pgen] = c])
         \/ \E x : Writes([disk EXCEPT !.content[pgen] = f(x)])
  BY DEF AppendPayload, AppendPayloadFails
<1>2. pc \in ContentSteps /\ auth' = auth
  BY <1>1, AppendPayloadKeeps, AppendPayloadFailsKeeps DEF ContentSteps
<1>3. Frontier \in Nat /\ KeepsContent(Content0, Content0, Frontier)
  BY <1>2, SplicingFacts
<1>4. /\ AreFiles(Healed) /\ KeepsContent(Content0, Healed, Frontier)
      /\ FilesReady(Healed) /\ FilesCover(Healed, Frontier)
  BY <1>2, HealedFacts
<1>5. ASSUME NEW x PROVE KeepsContent(Content0, f(x), Frontier)
  <2>1. KeepsContent(Healed, f(x), Frontier)
    BY <1>3, <1>4, Extended
  <2> HIDE DEF f
  <2>2. QED
    BY <1>4, <2>1, KeepsTransitive
<1> HIDE DEF f
<1>6. QED
  BY <1>1, <1>2, <1>3, <1>4, <1>5, BesideSplicing

LEMMA BesideNodes ==
    ASSUME NoneIsNoFunction, AuthorityInvariant, auth # None, AppendNodes \/ AppendNodesFails
    PROVE  Beside(disk, auth, disk', auth')
<1> DEFINE f(x) == [Content0 EXCEPT !["nodes"] = AppendTo(Content0["nodes"], x)]
<1>1. /\ pc = "nodes"
      /\ \/ \E x : Writes([disk EXCEPT !.content[pgen] = f(x)])
         \/ \E c \in RolledBack(f(None)) : Writes([disk EXCEPT !.content[pgen] = c])
  BY DEF AppendNodes, AppendNodesFails, Content0
<1>2. pc \in ContentSteps /\ auth' = auth
  BY <1>1, AppendNodesKeeps, AppendNodesFailsKeeps DEF ContentSteps
<1>3. /\ Frontier \in Nat /\ AreFiles(Content0)
      /\ FilesReady(Content0) /\ FilesCover(Content0, Frontier)
  BY <1>2, SplicingFacts
<1>4. ASSUME NEW x PROVE AreFiles(f(x)) /\ KeepsContent(Content0, f(x), Frontier)
  <2> DEFINE old == Content0
             n == Frontier
             new == [old EXCEPT !["nodes"] = AppendTo(old["nodes"], x)]
  <2>1. n \in Nat /\ AreFiles(old) /\ FilesReady(old) /\ FilesCover(old, n)
    BY <1>3
  <2> HIDE DEF old, n
  <2>2. AreFiles(new) /\ KeepsContent(old, new, n)
    BY <2>1, Extended
  <2>3. QED
    BY <2>2 DEF old, n
<1> HIDE DEF f
<1>5. \A c \in RolledBack(f(None)) : KeepsContent(Content0, c, Frontier)
  BY <1>3, <1>4, RolledBackFacts
<1>6. QED
  BY <1>1, <1>2, <1>4, <1>5, BesideSplicing

LEMMA BesideSyncContentFails ==
    ASSUME NoneIsNoFunction, AuthorityInvariant, auth # None, SyncContentFails
    PROVE  Beside(disk, auth, disk', auth')
<1>1. /\ pc = "syncContent"
      /\ \E c \in RolledBack(Content0) : Writes([disk EXCEPT !.content[pgen] = c])
  BY DEF SyncContentFails
<1>2. pc \in ContentSteps /\ auth' = auth
  BY <1>1, SyncContentFailsKeeps DEF ContentSteps
<1>3. /\ Frontier \in Nat /\ AreFiles(Content0) /\ KeepsContent(Content0, Content0, Frontier)
  BY <1>2, SplicingFacts
<1>4. \A c \in RolledBack(Content0) : KeepsContent(Content0, c, Frontier)
  BY <1>3, RolledBackFacts
<1>5. QED
  BY <1>1, <1>2, <1>4, BesideSplicing

LEMMA BesideFrame ==
    ASSUME NoneIsNoFunction, AuthorityInvariant, auth # None, AppendFrame
    PROVE  Beside(disk, auth, disk', auth')
<1> DEFINE hot == [frames |-> Append(disk.hots[gen].frames, job), torn |-> FALSE]
<1>1. /\ pc = "frame" /\ disk' = [disk EXCEPT !.hots[gen] = hot]
      /\ pc' = "syncFrame" /\ UNCHANGED <<mem, poisoned, job>>
  BY DEF AppendFrame, Step, Writes
<1>2. AuthorityInvariant' /\ StoreStep(auth, auth')
  BY AppendFrameKeeps
<1>3. /\ poisoned = FALSE /\ gen = disk.manifest /\ disk.manifest \in DOMAIN disk.hots
      /\ Whole(auth) /\ Len(auth.arena) \in Nat
  BY <1>1, FramingFacts
<1>4. PICK t : LeadsTo(job, t)
  BY <1>1, FramingFacts, CreateLeads, SpliceLeads, OtherLeads
<1>5. auth' = t
  BY <1>1, <1>2, <1>3, <1>4 DEF AuthorityInvariant, MemoryFollows, Working, LeadsTo
<1>6. auth' # None /\ Keeps(Promise(auth'), Promise(auth))
  BY <1>2, <1>3, StoreStepKeeps
<1>7. Len(auth.arena) <= Len(auth'.arena)
  <2>1. CASE t.arena = auth.arena
    BY <1>3, <1>5, <2>1
  <2>2. CASE \E x : t.arena = Append(auth.arena, x)
    <3>1. Len(t.arena) = Len(auth.arena) + 1
      BY <1>3, <2>2, IsSeqAppend DEF Whole
    <3>2. QED
      BY <1>3, <1>5, <3>1
  <2>3. QED
    BY <1>4, <2>1, <2>2 DEF LeadsTo
<1> HIDE DEF hot
<1>8. IsDirectory(disk) /\ SealsInOrder(disk) /\ auth = Authoritative(disk)
  BY DEF AuthorityInvariant, DirectoryTrue
<1>9. /\ disk'.manifest = disk.manifest /\ disk'.snaps = disk.snaps
      /\ disk'.content = disk.content /\ DOMAIN disk'.hots = DOMAIN disk.hots
      /\ \A g \in DOMAIN disk.hots : g # gen => disk'.hots[g] = disk.hots[g]
  BY <1>1, <1>8 DEF IsDirectory
<1>10. SealedPgen(disk') = SealedPgen(disk)
         /\ disk'.content[SealedPgen(disk)] = Current(disk)
  BY <1>9 DEF SealedPgen, Current
<1>11. ASSUME NEW g \in Nat, g \in DOMAIN disk'.hots, g < disk.manifest
       PROVE  g \in DOMAIN disk.hots /\ disk'.hots[g].frames = disk.hots[g].frames
  <2>1. g # gen
    BY <1>3, <1>8, <1>11 DEF IsDirectory
  <2>2. QED
    BY <1>9, <1>11, <2>1
<1>12. QED
  BY <1>6, <1>7, <1>9, <1>10, <1>11, KeepsItself DEF Beside

LEMMA BesideFrameFails ==
    ASSUME NoneIsNoFunction, AuthorityInvariant, auth # None, AppendFrameFails
    PROVE  Beside(disk, auth, disk', auth')
<1>1. pc = "frame" /\ auth' = auth
  BY AppendFrameFailsKeeps DEF AppendFrameFails
<1>2. gen = disk.manifest /\ IsDirectory(disk)
  BY <1>1, FramingFacts DEF AuthorityInvariant, DirectoryTrue
<1>3. PICK torn \in BOOLEAN : disk' = [disk EXCEPT !.hots[gen].torn = torn]
  BY DEF AppendFrameFails, Writes
<1> DEFINE hot == [disk.hots[gen] EXCEPT !.torn = torn]
<1>4. disk' = [disk EXCEPT !.hots[gen] = hot]
  BY <1>3
<1> HIDE DEF hot
<1>5. /\ disk'.manifest = disk.manifest /\ disk'.snaps = disk.snaps
      /\ disk'.content = disk.content /\ DOMAIN disk'.hots = DOMAIN disk.hots
      /\ \A g \in DOMAIN disk.hots : g # gen => disk'.hots[g] = disk.hots[g]
  BY <1>2, <1>4 DEF IsDirectory
<1>6. ASSUME NEW g \in Nat, g \in DOMAIN disk'.hots, g < disk.manifest
      PROVE  g \in DOMAIN disk.hots /\ disk'.hots[g].frames = disk.hots[g].frames
  <2>1. g # gen
    BY <1>2, <1>6 DEF IsDirectory
  <2>2. QED
    BY <1>5, <1>6, <2>1
<1>7. disk'.content[SealedPgen(disk)] = Current(disk)
  BY <1>5 DEF Current
<1>8. \A g \in Nat : g \in DOMAIN disk'.hots /\ g < disk.manifest =>
             g \in DOMAIN disk.hots /\ disk'.hots[g].frames = disk.hots[g].frames
  BY <1>6
<1>9. QED
  BY <1>1, <1>5, <1>7, <1>8, KeepsItself, BesideSame

LEMMA BesideCommitting ==
    ASSUME NoneIsNoFunction, AuthorityInvariant, auth # None, Committing
    PROVE  Beside(disk, auth, disk', auth')
<1>1. CASE SyncContent \/ SyncFrame \/ SyncFrameFails
  <2>1. UNCHANGED directory
    BY <1>1 DEF SyncContent, SyncFrame, SyncFrameFails
  <2>2. QED
    BY <2>1, BesideStill
<1>2. QED
  BY <1>1, BesidePayload, BesideNodes, BesideSyncContentFails, BesideFrame, BesideFrameFails
  DEF Committing

\* A snapshot and a log are put in place for the next generation.
LEMMA BesidePrepared ==
    ASSUME NoneIsNoFunction, AuthorityInvariant, auth # None,
           PublishSnapshot \/ PublishSnapshotFails \/ PublishHot \/ PublishHotFails
    PROVE  Beside(disk, auth, disk', auth')
<1> DEFINE snap == [disk EXCEPT !.snaps = Put(@, NextGen, SnapshotOf(job.store, job.pgen))]
           hot == [disk EXCEPT !.hots = Put(@, NextGen, EmptyHot)]
<1>1. pc \in PreparingSteps /\ auth' = auth
  BY PublishSnapshotKeeps, PublishHotKeeps
  DEF PublishSnapshot, PublishSnapshotFails, PublishHot, PublishHotFails, PreparingSteps
<1>2. UNCHANGED directory \/ disk' = snap \/ disk' = hot
  BY DEF PublishSnapshot, PublishSnapshotFails, PublishHot, PublishHotFails, Writes
<1>3. IsDirectory(disk) /\ SealsInOrder(disk) /\ auth = Authoritative(disk)
  BY DEF AuthorityInvariant, DirectoryTrue
<1>4. disk.manifest \in Nat /\ \A g \in DOMAIN disk.snaps : g \in Nat
  BY <1>3 DEF IsDirectory, SealsInOrder
<1>5. \A g \in Nat : g <= disk.manifest => g # NextGen
  BY <1>4 DEF NextGen
<1>6. CASE disk' = snap
  <2>1. /\ disk'.manifest = disk.manifest
        /\ disk'.hots = disk.hots /\ disk'.content = disk.content
        /\ \A h \in DOMAIN disk.snaps :
              h # NextGen => h \in DOMAIN disk'.snaps /\ disk'.snaps[h] = disk.snaps[h]
    BY <1>1, <1>6, SnapshotPut, Zenon
  <2>2. \A g \in DOMAIN disk.snaps : g <= disk.manifest =>
           g \in DOMAIN disk'.snaps /\ disk'.snaps[g] = disk.snaps[g]
    BY <1>4, <1>5, <2>1
  <2>3. disk'.content[SealedPgen(disk)] = Current(disk)
    BY <2>1 DEF Current
  <2> HIDE DEF snap
  <2>4. QED
    BY <1>1, <2>1, <2>2, <2>3, KeepsItself, BesideSame
<1>7. CASE disk' = hot
  <2>1. /\ disk'.manifest = disk.manifest
        /\ disk'.snaps = disk.snaps /\ disk'.content = disk.content
        /\ DOMAIN disk'.hots = DOMAIN disk.hots \cup {NextGen}
        /\ \A h \in DOMAIN disk.hots : h # NextGen => disk'.hots[h] = disk.hots[h]
    <3>1. /\ disk'.manifest = disk.manifest /\ disk'.snaps = disk.snaps
          /\ disk'.content = disk.content /\ disk'.hots = Put(disk.hots, NextGen, EmptyHot)
      BY <1>3, <1>7 DEF IsDirectory
    <3>2. QED
      BY <3>1 DEF Put
  <2>2. ASSUME NEW g \in Nat, g \in DOMAIN disk'.hots, g < disk.manifest
        PROVE  g \in DOMAIN disk.hots /\ disk'.hots[g].frames = disk.hots[g].frames
    <3>1. g # NextGen
      BY <1>4, <1>5, <2>2
    <3>2. QED
      BY <2>1, <2>2, <3>1
  <2>3. \A g \in Nat : g \in DOMAIN disk'.hots /\ g < disk.manifest =>
           g \in DOMAIN disk.hots /\ disk'.hots[g].frames = disk.hots[g].frames
    BY <2>2
  <2>4. disk'.content[SealedPgen(disk)] = Current(disk)
    BY <2>1 DEF Current
  <2> HIDE DEF hot
  <2>5. QED
    BY <1>1, <2>1, <2>3, <2>4, KeepsItself, BesideSame
<1>8. QED
  BY <1>2, <1>6, <1>7, BesideStill

\* The manifest of a seal names the store and the content it had.
LEMMA BesideRename ==
    ASSUME NoneIsNoFunction, AuthorityInvariant, auth # None, RenameManifest,
           JobThere, ~Collecting(job)
    PROVE  Beside(disk, auth, disk', auth')
<1>1. /\ pc = "manifest" /\ pc' = "syncManifest" /\ disk' = [disk EXCEPT !.manifest = NextGen]
      /\ UNCHANGED <<mem, gen, pgen, poisoned, job>>
  BY DEF RenameManifest, Step, Writes
<1>2. pc \in PreparingSteps
  BY <1>1 DEF PreparingSteps
<1>3. job.type # "gc"
  BY <1>1 DEF JobThere, Collecting, PublishingSteps, PreparingSteps
<1>4. job.store = auth /\ job.pgen = pgen
  BY <1>2, <1>3 DEF AuthorityInvariant, PublicationFits
<1>5. AuthorityInvariant'
  BY RenameManifestKeeps
<1>6. poisoned = FALSE /\ pgen = SealedPgen(disk) /\ IsDirectory(disk) /\ Whole(auth)
  BY <1>2, PreparingFacts
<1>7. auth' = auth /\ job.pgen = SealedPgen(disk')
  BY <1>1, <1>4, <1>5, <1>6
  DEF AuthorityInvariant, MemoryFollows, GenerationKnown, Working
<1>8. /\ disk'.manifest = disk.manifest + 1 /\ disk'.snaps = disk.snaps
      /\ disk'.hots = disk.hots /\ disk'.content = disk.content
  BY <1>1, <1>6 DEF IsDirectory, NextGen
<1>9. Len(auth.arena) <= Len(auth'.arena)
  BY <1>6, <1>7, IsSeqFacts DEF Whole
<1>10. \/ disk.manifest = 0 /\ Len(auth.arena) = 0
       \/ KeepsContent(Current(disk), disk'.content[SealedPgen(disk)], Len(auth.arena))
  BY <1>8, KeepsItself DEF Current
<1>11. QED
  BY <1>4, <1>6, <1>7, <1>8, <1>9, <1>10, KeepsReflexive DEF Beside

\* A seal removes at most the log of the generation before.
LEMMA BesideRecycle ==
    ASSUME NoneIsNoFunction, AuthorityInvariant, auth # None, Recycle \/ RecycleFails,
           JobThere, ~Collecting(job)
    PROVE  Beside(disk, auth, disk', auth')
<1>1. pc = "recycle" /\ auth' = auth
  BY RecycleKeeps DEF Recycle, RecycleFails
<1>2. PICK H \in SUBSET SupersededHots, S \in SUBSET SupersededSnaps,
           C \in SUBSET SupersededContent : RemoveFiles(H, S, C)
  BY DEF Recycle, RecycleFails
<1>3. job.type # "gc"
  BY <1>1 DEF JobThere, Collecting, PublishingSteps
<1>4. S = {} /\ \A x \in C : x[2] # pgen
  BY <1>2, <1>3 DEF SupersededSnaps, SupersededContent
<1>5. ~poisoned /\ mem = auth
  BY <1>1 DEF AuthorityInvariant, Placed, MemoryFollows, Working
<1>6. pgen = SealedPgen(disk)
  BY <1>1, <1>5, WorkingFacts
<1>7. pgen \in Gens /\ Holds(auth, Content0)
  BY <1>1, <1>5 DEF AuthorityInvariant, BytesHeld, CreatingSteps
<1>8. IsDirectory(disk) /\ SealsInOrder(disk)
  BY DEF AuthorityInvariant, DirectoryTrue
<1>9. disk' = Removed(H, S, C)
  BY <1>2, Zenon DEF RemoveFiles, Writes, Removed
<1>10. /\ disk'.manifest = disk.manifest
       /\ disk'.content[pgen].payload = disk.content[pgen].payload
       /\ disk'.content[pgen].nodes = disk.content[pgen].nodes
  BY <1>4, <1>7, <1>8, <1>9, RemovedFiles
<1>11. disk'.hots = Drop(disk.hots, H) /\ disk'.snaps = Drop(disk.snaps, S)
  BY <1>8, <1>9 DEF IsDirectory, Removed
<1>12. \A g \in DOMAIN disk.snaps : g \in DOMAIN disk'.snaps /\ disk'.snaps[g] = disk.snaps[g]
  BY <1>4, <1>11 DEF Drop
<1>13. \A g \in DOMAIN disk'.hots : g \in DOMAIN disk.hots /\ disk'.hots[g] = disk.hots[g]
  BY <1>11 DEF Drop
<1>14. KeepsContent(Current(disk), disk'.content[SealedPgen(disk)], Len(auth.arena))
  BY <1>6, <1>7, <1>10
  DEF KeepsContent, Holds, Content0, Current, FilesReady, FilesCover
<1>15. QED
  BY <1>1, <1>10, <1>12, <1>13, <1>14, BesideSame

LEMMA BesidePublishing ==
    ASSUME NoneIsNoFunction, AuthorityInvariant, auth # None, Publishing,
           JobThere, ~Collecting(job)
    PROVE  Beside(disk, auth, disk', auth')
<1>1. CASE PublishHotRefused \/ RenameManifestFails \/ SyncManifest \/ SyncManifestFails
  <2>1. UNCHANGED directory
    BY <1>1 DEF PublishHotRefused, RenameManifestFails, SyncManifest, SyncManifestFails
  <2>2. QED
    BY <2>1, BesideStill
<1>2. QED
  BY <1>1, BesidePrepared, BesideRename, BesideRecycle DEF Publishing

\* Every step of the writer beside a reader, but a power loss.
LEMMA WriterBeside ==
    ASSUME NoneIsNoFunction, AuthorityInvariant, auth # None, JobThere, ~Collecting(job),
           ~Collecting(job'), [Next]_vars, ~PowerLoss
    PROVE  Beside(disk, auth, disk', auth')
<1>1. CASE ProcessCrash \/ UNCHANGED vars
  <2>1. UNCHANGED directory
    BY <1>1 DEF ProcessCrash, vars
  <2>2. QED
    BY <2>1, BesideStill
<1>2. QED
  BY <1>1, BesideOpening, BesideCalls, BesideCommitting, BesidePublishing DEF Next

\* A publication begins with its job and carries it along.
LEMMA JobStaysThere ==
    ASSUME NoneIsNoFunction, Placed, JobThere, [Next]_vars
    PROVE  JobThere'
<1>1. CASE BeginSeal
  <2>1. job' = [type |-> "seal", store |-> mem, pgen |-> pgen]
    BY <1>1 DEF BeginSeal, Begin
  <2>2. job' = [x \in DOMAIN job' |-> job'[x]]
    BY <2>1
  <2>3. QED
    BY <2>2 DEF NoneIsNoFunction, JobThere
<1>2. CASE BuildGc
  <2> DEFINE s == ApplyGc(mem)
             p == pgen + 1
  <2>1. job' = [type |-> "gc", store |-> s, pgen |-> p]
    BY <1>2 DEF BuildGc
  <2> HIDE DEF s, p
  <2>2. job' = [x \in DOMAIN job' |-> job'[x]]
    BY <2>1
  <2>3. QED
    BY <2>2 DEF NoneIsNoFunction, JobThere
<1>3. CASE pc' \notin PublishingSteps
  BY <1>3 DEF JobThere
<1>4. CASE pc \in PublishingSteps /\ job' = job
  BY <1>4 DEF JobThere
<1>5. BeginSeal \/ BuildGc \/ pc' \notin PublishingSteps \/ (pc \in PublishingSteps /\ job' = job)
  <2> USE DEF PublishingSteps, PreparingSteps
  <2>1. CASE Opening
    BY <2>1
    DEF Opening, Open, HealOnOpen, CreatePayload, CreateNodes, CreateContentFile,
        PayloadHeader, NodesHeader, WriteHeader, SyncHeaders, OpenHot, OpenFails, Step, Stop
  <2>2. CASE Calls
    BY <2>2
    DEF Calls, BeginCreate, BeginSplice, BeginFork, BeginExpire, BeginRetire,
        AnswerReplayed, BuildGcFails, Begin, Ready, writerVars
  <2>3. CASE Committing
    BY <2>3
    DEF Committing, AppendPayload, AppendPayloadFails, AppendNodes, AppendNodesFails,
        SyncContent, SyncContentFails, AppendFrame, AppendFrameFails, SyncFrame,
        SyncFrameFails, Step, Return, Poison
  <2>4. CASE Publishing
    BY <2>4
    DEF Publishing, PublishSnapshot, PublishSnapshotFails, PublishHot, PublishHotRefused,
        PublishHotFails, RenameManifest, RenameManifestFails, SyncManifest,
        SyncManifestFails, Recycle, RecycleFails, Step, Return, Poison
  <2>5. CASE ProcessCrash \/ PowerLoss
    BY <2>5 DEF ProcessCrash, PowerLoss, Stop
  <2>6. CASE UNCHANGED vars
    BY <2>6 DEF vars, writerVars
  <2>7. QED
    BY <2>1, <2>2, <2>3, <2>4, <2>5, <2>6 DEF Next
<1>6. QED
  BY <1>1, <1>2, <1>3, <1>4, <1>5

-----------------------------------------------------------------------------
(* The steps of the reader *)

\* What the invariant says before a power loss.
LEMMA BeforeOutageFacts ==
    ASSUME AuthorityInvariant, crashes.outages = 0
    PROVE  /\ IsDirectory(disk) /\ SealsInOrder(disk) /\ auth = Authoritative(disk)
           /\ auth # None /\ Whole(auth) /\ Inside(auth, auth) /\ Keeps(Promise(auth), acked)
           /\ disk.manifest \in Nat
           /\ disk.manifest = 0 \/ disk.manifest \in DOMAIN disk.snaps
<1>1. IsDirectory(disk) /\ SealsInOrder(disk) /\ auth = Authoritative(disk)
  BY DEF AuthorityInvariant, DirectoryTrue
<1>2. auth # None /\ Keeps(Promise(auth), acked)
  BY DEF AuthorityInvariant, BeforeOutage, Recoverable
<1>3. Whole(auth) /\ Len(auth.arena) \in Nat
        /\ (disk.manifest = 0 \/ disk.manifest \in DOMAIN disk.snaps)
  BY <1>1, <1>2, StoreFacts
<1>4. Inside(auth, auth)
  BY <1>3, KeepsReflexive DEF Inside
<1>5. QED
  BY <1>1, <1>2, <1>3, <1>4 DEF IsDirectory

\* Nobody is reading.
LEMMA NotReading ==
    ASSUME ~Reading
    PROVE  ReaderTrue
  BY DEF Reading, ReaderTrue, ReaderBound, GenerationReadable, BaseCurrent, ReaderOpen

LEMMA ReadManifestTrue ==
    ASSUME AuthorityInvariant, IsReader, crashes.outages = 0, ReadManifest
    PROVE  ReaderTrue'
<1>1. /\ rdr'.at = "bind" /\ rdr'.gen = disk.manifest /\ rdr'.since = acked
      /\ ~Collecting(job) /\ UNCHANGED <<disk, auth, job>>
  BY DEF ReadManifest, IsReader, vars, directory, writerVars
<1>2. /\ IsDirectory(disk) /\ SealsInOrder(disk) /\ auth = Authoritative(disk)
      /\ auth # None /\ Inside(auth, auth) /\ Keeps(Promise(auth), acked)
      /\ disk.manifest \in Nat
      /\ disk.manifest = 0 \/ disk.manifest \in DOMAIN disk.snaps
  BY BeforeOutageFacts
<1>3. /\ Authoritative(At(disk, disk.manifest)) = auth
      /\ SealedPgen(At(disk, disk.manifest)) = SealedPgen(disk)
  BY <1>2, AtCurrent
<1>4. ReaderBound'
  <2>1. disk.manifest <= disk.manifest
    BY <1>2
  <2>2. ~Collecting(job')
    BY <1>1
  <2>3. QED
    BY <1>1, <1>2, <1>3, <2>1, <2>2 DEF ReaderBound
<1>5. GenerationReadable'
  BY <1>1, <1>2, <1>3 DEF GenerationReadable
<1>6. QED
  BY <1>1, <1>4, <1>5 DEF ReaderTrue, BaseCurrent, ReaderOpen

LEMMA ReadSnapshotTrue ==
    ASSUME AuthorityInvariant, IsReader, ReaderTrue, crashes.outages = 0, ReadSnapshot
    PROVE  ReaderTrue'
<1> DEFINE g == rdr.gen
<1>1. /\ rdr.at = "bind" /\ rdr'.at = IF SealedBase = None THEN "failed" ELSE "replay"
      /\ rdr'.gen = g /\ rdr'.since = rdr.since /\ rdr'.store = SealedBase
      /\ rdr'.pgen = IF SealedBase = None \/ g = 0 THEN 0 ELSE disk.snaps[g].pgen
      /\ UNCHANGED <<disk, auth, job>>
  BY DEF ReadSnapshot, IsReader, vars, directory, writerVars
<1>2. CASE SealedBase = None
  <2>1. ~Reading'
    BY <1>1, <1>2 DEF Reading
  <2>2. QED
    BY <2>1, NotReading DEF Reading, ReaderTrue, ReaderBound, GenerationReadable, BaseCurrent,
       ReaderOpen
<1>3. CASE SealedBase # None
  <2>1. /\ ~Collecting(job) /\ g \in Nat /\ g <= disk.manifest
        /\ g = 0 \/ g \in DOMAIN disk.snaps
        /\ SealedPgen(At(disk, g)) = SealedPgen(disk)
        /\ Keeps(Promise(auth), rdr.since)
    BY <1>1 DEF ReaderTrue, ReaderBound, Reading
  <2>2. rdr'.at = "replay" /\ rdr'.pgen = IF g = 0 THEN 0 ELSE disk.snaps[g].pgen
    BY <1>1, <1>3
  <2>3. IsDirectory(disk)
    BY BeforeOutageFacts
  <2>4. /\ At(disk, g).manifest = g /\ At(disk, g).snaps = disk.snaps
        /\ At(disk, g).content = disk.content
    BY <2>1, <2>3, AtFacts
  <2>5. rdr'.pgen = SealedPgen(At(disk, g))
    BY <2>2, <2>4 DEF SealedPgen
  <2>6. SealedBase = Base(At(disk, g)) /\ (g = 0 => SealedBase = NewStore)
    BY <1>3, <2>1, <2>4 DEF SealedBase, Base, Current, SealedPgen
  <2>7. ReaderBound'
    <3>1. ~Collecting(job')
      BY <1>1, <2>1
    <3>2. QED
      BY <1>1, <2>1, <3>1 DEF ReaderBound
  <2>8. GenerationReadable'
    BY <1>1, <2>2 DEF ReaderTrue, GenerationReadable, LogThere
  <2>9. BaseCurrent'
    BY <1>1, <2>1, <2>2, <2>5, <2>6 DEF BaseCurrent
  <2>10. QED
    BY <2>2, <2>7, <2>8, <2>9 DEF ReaderTrue, ReaderOpen
<1>4. QED
  BY <1>2, <1>3

\* A reader bound to generation zero whose log was recycled meanwhile opens the
\* empty store.  That invents nothing, and is why completeness is claimed of a
\* sealed generation only.
LEMMA NewStoreInside ==
    ASSUME NEW a, Whole(a)
    PROVE  Inside(NewStore, a)
<1>1. Len(a.arena) \in Nat
  BY IsSeqFacts DEF Whole
<1>2. Whole(NewStore) /\ Len(NewStore.arena) = 0
  BY NewStoreWhole
<1>3. /\ Promise(NewStore).histories = {} /\ Promise(NewStore).expired = {}
      /\ DOMAIN Promise(NewStore).versions = {}
  BY DEF Promise, NewStore, EmptyMap
<1>4. Keeps(Promise(a), Promise(NewStore))
  BY <1>3 DEF Keeps
<1>5. QED
  BY <1>1, <1>2, <1>4 DEF Inside

\* What the reader's replay gives, with its log and without.
LEMMA ReplayedIs ==
    ASSUME NoneIsNoFunction, AuthorityInvariant, IsReader, ReaderTrue, crashes.outages = 0,
           rdr.at = "replay", Replayed # None
    PROVE  /\ Inside(Replayed, auth)
           /\ rdr.gen > 0 => Keeps(Promise(Replayed), rdr.since)
           /\ Len(Replayed.arena) > 0 => Holds(Replayed, Current(disk))
<1> DEFINE g == rdr.gen
           x == At(disk, g)
           c == disk.content[rdr.pgen]
<1>1. /\ g \in Nat /\ SealedPgen(x) = SealedPgen(disk)
      /\ rdr.pgen = SealedPgen(disk) /\ (g = 0 => rdr.store = NewStore)
      /\ LogThere => rdr.store = Base(x)
  BY DEF ReaderTrue, ReaderBound, BaseCurrent, Reading
<1>2. IsDirectory(disk) /\ auth # None /\ Whole(auth)
  BY BeforeOutageFacts
<1>3. /\ IsDirectory(x) /\ x.manifest = g /\ x.snaps = disk.snaps /\ x.hots = disk.hots
      /\ x.content = disk.content
  BY <1>1, <1>2, AtFacts
<1>4. Current(x) = Current(disk) /\ c = Current(disk)
  BY <1>1, <1>3 DEF Current
<1>5. CASE LogThere
  <2> DEFINE s == Authoritative(x)
  <2>1. s # None /\ Inside(s, auth) /\ Keeps(Promise(s), rdr.since)
    BY <1>5 DEF ReaderTrue, GenerationReadable
  <2> HIDE DEF x, c
  <2>2. /\ x.manifest = 0 \/ x.manifest \in DOMAIN x.snaps
        /\ Frames(HotFrames(x, g)) /\ Base(x) # None
        /\ Holds(s, Current(x)) \/ Len(s.arena) = 0
    BY <1>3, <2>1, AuthoritativeFacts
  <2>3. HotFrames(x, g) # None
    BY <2>2, SeqIsSome DEF Frames
  <2>4. s = ReplaySuffix(Base(x), HotFrames(x, g), SealedPgen(x), Current(x))
    BY <1>3, <2>2, <2>3, AuthoritativeIs
  <2>5. HotFrames(x, g) = HotFrames(disk, g)
    BY <1>3 DEF HotFrames
  <2>6. Replayed = ReplaySuffix(rdr.store, HotFrames(disk, g), rdr.pgen, c)
    BY <2>3, <2>5 DEF Replayed, c
  <2>7. Replayed = s
    BY <1>1, <1>4, <1>5, <2>4, <2>5, <2>6
  <2>8. Len(s.arena) > 0 => Len(s.arena) # 0
    OBVIOUS
  <2> HIDE DEF s
  <2>9. QED
    BY <1>4, <2>1, <2>2, <2>7, <2>8
<1>6. CASE ~LogThere
  <2>1. g \notin DOMAIN disk.hots
    BY <1>6 DEF LogThere
  <2>2. g = 0
    BY <2>1 DEF Replayed, HotFrames
  <2>3. HotFrames(disk, g) = <<>> /\ rdr.store = NewStore
    BY <1>1, <2>1, <2>2 DEF HotFrames
  <2>4. <<>> # None
    BY EmptyIsSeq, SeqIsSome
  <2>5. Replayed = ReplaySuffix(NewStore, <<>>, rdr.pgen, c)
    BY <2>3, <2>4 DEF Replayed
  <2> HIDE DEF c
  <2>6. ReplayStates(NewStore, <<>>, rdr.pgen, c)[Len(<<>>)] = NewStore
    BY ReplayNothing
  <2>7. NewStore # None /\ BindingsUnique(NewStore) /\ Len(NewStore.arena) = 0
    BY NewStoreWhole, WholeIsSome
  <2>8. Replayed = NewStore
    BY <2>5, <2>6, <2>7 DEF ReplaySuffix
  <2>9. Inside(NewStore, auth)
    BY <1>2, NewStoreInside
  <2>10. ~(rdr.gen > 0) /\ ~(Len(NewStore.arena) > 0)
    BY <2>2, <2>7
  <2>11. QED
    BY <2>8, <2>9, <2>10
<1>7. QED
  BY <1>5, <1>6

LEMMA ReadHotLogTrue ==
    ASSUME NoneIsNoFunction, AuthorityInvariant, IsReader, ReaderTrue, crashes.outages = 0,
           ReadHotLog
    PROVE  ReaderTrue'
<1>1. /\ rdr.at = "replay" /\ rdr'.at = IF Replayed = None THEN "failed" ELSE "open"
      /\ rdr'.gen = rdr.gen /\ rdr'.since = rdr.since /\ rdr'.store = Replayed
      /\ rdr'.pgen = rdr.pgen /\ UNCHANGED <<disk, auth, job>>
  BY DEF ReadHotLog, IsReader, vars, directory, writerVars
<1>2. CASE Replayed = None
  BY <1>1, <1>2
  DEF ReaderTrue, ReaderBound, GenerationReadable, BaseCurrent, ReaderOpen, Reading
<1>3. CASE Replayed # None
  <2>1. /\ Inside(Replayed, auth)
        /\ rdr.gen > 0 => Keeps(Promise(Replayed), rdr.since)
        /\ Len(Replayed.arena) > 0 => Holds(Replayed, Current(disk))
    BY <1>1, <1>3, ReplayedIs
  <2>2. rdr'.at = "open" /\ rdr.pgen = SealedPgen(disk)
    BY <1>1, <1>3 DEF ReaderTrue, BaseCurrent
  <2>3. ReaderOpen'
    BY <1>1, <2>1, <2>2 DEF ReaderOpen
  <2>4. ReaderBound'
    <3>1. Reading /\ ~Collecting(job) /\ job' = job
      BY <1>1 DEF Reading, ReaderTrue, ReaderBound
    <3>2. ~Collecting(job')
      BY <3>1
    <3>3. QED
      BY <1>1, <3>1, <3>2 DEF ReaderBound, ReaderTrue
  <2>5. QED
    BY <2>2, <2>3, <2>4 DEF ReaderTrue, GenerationReadable, BaseCurrent
<1>4. QED
  BY <1>2, <1>3

-----------------------------------------------------------------------------
(* The invariant holds *)

LEMMA ReaderInitTrue ==
    ASSUME NoneIsNoFunction, ReaderInit
    PROVE  ReaderInvariant
<1>1. Init /\ rdr = NoReader
  BY DEF ReaderInit
<1>2. AuthorityInvariant
  BY <1>1, InitKeeps
<1>3. JobThere
  BY <1>1 DEF Init, JobThere, PublishingSteps, PreparingSteps
<1>4. IsReader /\ ~Reading
  BY <1>1 DEF NoReader, IsReader, Reading
<1>5. QED
  BY <1>2, <1>3, <1>4, NotReading DEF ReaderInvariant

\* An outage is counted and stays counted.
LEMMA OutageCounted ==
    ASSUME AuthorityInvariant, [Next]_vars, crashes'.outages = 0
    PROVE  crashes.outages = 0 /\ ~PowerLoss
<1>1. DOMAIN crashes = {"kills", "outages"}
  BY DEF AuthorityInvariant, DirectoryTrue
<1>2. CASE PowerLoss
  <2>1. crashes' = [crashes EXCEPT !.outages = 1]
    BY <1>2 DEF PowerLoss
  <2>2. QED
    BY <1>1, <2>1
<1>3. CASE ProcessCrash
  <2>1. crashes'.outages = crashes.outages
    BY <1>1, <1>3 DEF ProcessCrash
  <2>2. CASE ~PowerLoss
    BY <2>1, <2>2
  <2>3. QED
    BY <1>2, <2>2
<1>4. CASE ~PowerLoss /\ ~ProcessCrash
  <2>1. crashes' = crashes
    BY <1>4, InnerStep DEF Next, vars
  <2>2. QED
    BY <1>4, <2>1
<1>5. QED
  BY <1>2, <1>3, <1>4

LEMMA WriterStepTrue ==
    ASSUME NoneIsNoFunction, ReaderInvariant, [Next]_vars, rdr' = rdr,
           Reading => ~Collecting(job')
    PROVE  ReaderInvariant'
<1>1. AuthorityInvariant /\ JobThere /\ IsReader
  BY DEF ReaderInvariant
<1>2. AuthorityInvariant' /\ JobThere'
  BY <1>1, NextKeeps, JobStaysThere DEF AuthorityInvariant
<1>3. IsReader'
  BY <1>1 DEF IsReader
<1>4. ASSUME crashes'.outages = 0 PROVE ReaderTrue'
  <2>1. crashes.outages = 0 /\ ~PowerLoss
    BY <1>1, <1>4, OutageCounted
  <2>2. ReaderTrue /\ auth # None
    BY <1>1, <2>1, BeforeOutageFacts DEF ReaderInvariant
  <2>3. CASE Reading
    <3>1. ~Collecting(job) /\ ~Collecting(job')
      BY <2>2, <2>3 DEF ReaderTrue, ReaderBound
    <3>2. Beside(disk, auth, disk', auth')
      BY <1>1, <2>1, <2>2, <3>1, WriterBeside
    <3>3. QED
      BY <1>1, <1>2, <2>2, <3>2, WriterKeepsReader
  <2>4. CASE ~Reading
    BY <2>4 DEF Reading, ReaderTrue, ReaderBound, GenerationReadable, BaseCurrent, ReaderOpen
  <2>5. QED
    BY <2>3, <2>4
<1>5. QED
  BY <1>2, <1>3, <1>4 DEF ReaderInvariant

LEMMA ReaderStepTrue ==
    ASSUME NoneIsNoFunction, ReaderInvariant, UNCHANGED vars,
           ReadManifest \/ ReadSnapshot \/ ReadHotLog \/ CloseReader
    PROVE  ReaderInvariant'
<1>1. AuthorityInvariant /\ JobThere /\ IsReader
  BY DEF ReaderInvariant
<1>2. AuthorityInvariant' /\ JobThere'
  BY <1>1, NextKeeps, JobStaysThere DEF AuthorityInvariant
<1>3. IsReader'
  BY <1>1 DEF IsReader, ReadManifest, ReadSnapshot, ReadHotLog, CloseReader
<1>4. crashes' = crashes
  BY DEF vars
<1>5. ASSUME crashes'.outages = 0 PROVE ReaderTrue'
  <2>1. crashes.outages = 0 /\ ReaderTrue
    BY <1>4, <1>5 DEF ReaderInvariant
  <2>2. CASE CloseReader
    <3>1. rdr'.at = "closed"
      BY <1>1, <2>2 DEF CloseReader, IsReader
    <3>2. QED
      BY <3>1
      DEF Reading, ReaderTrue, ReaderBound, GenerationReadable, BaseCurrent, ReaderOpen
  <2>3. QED
    BY <1>1, <2>1, <2>2, ReadManifestTrue, ReadSnapshotTrue, ReadHotLogTrue
<1>6. QED
  BY <1>2, <1>3, <1>5 DEF ReaderInvariant

\* Whatever the writer and a reader do in between each other's steps, the
\* generation the reader binds to, the log it has still to read and the files
\* it holds open stand to the recovered store as ReaderInvariant says.
THEOREM ReaderInvariantHolds ==
    ASSUME NoneIsNoFunction
    PROVE  ReaderSpec => []ReaderInvariant
<1>1. ReaderInit => ReaderInvariant
  BY ReaderInitTrue
<1>2. ASSUME ReaderInvariant, [ReaderNext]_readerVars PROVE ReaderInvariant'
  <2>1. CASE WriterStep
    BY <1>2, <2>1, WriterStepTrue DEF WriterStep
  <2>2. CASE ReadManifest \/ ReadSnapshot \/ ReadHotLog \/ CloseReader
    <3>1. UNCHANGED vars
      BY <2>2 DEF ReadManifest, ReadSnapshot, ReadHotLog, CloseReader
    <3>2. QED
      BY <1>2, <2>2, <3>1, ReaderStepTrue
  <2>3. CASE UNCHANGED readerVars
    <3>1. UNCHANGED vars /\ rdr' = rdr
      BY <2>3 DEF readerVars
    <3>2. CASE crashes'.outages = 0
      <4>1. crashes' = crashes /\ job' = job
        BY <3>1 DEF vars, writerVars
      <4>2. Reading => ~Collecting(job')
        <5>1. Reading => ~Collecting(job)
          BY <1>2, <3>2, <4>1 DEF ReaderInvariant, ReaderTrue, ReaderBound
        <5>2. QED
          BY <4>1, <5>1
      <4>3. QED
        BY <1>2, <3>1, <4>2, WriterStepTrue
    <3>3. CASE crashes'.outages # 0
      <4>1. AuthorityInvariant' /\ JobThere'
        BY <1>2, <3>1, NextKeeps, JobStaysThere DEF ReaderInvariant, AuthorityInvariant
      <4>2. IsReader'
        BY <1>2, <3>1 DEF ReaderInvariant, IsReader
      <4>3. QED
        BY <3>3, <4>1, <4>2 DEF ReaderInvariant
    <3>4. QED
      BY <3>2, <3>3
  <2>4. QED
    BY <1>2, <2>1, <2>2, <2>3 DEF ReaderNext
<1>3. QED
  BY <1>1, <1>2, PTL DEF ReaderSpec

-----------------------------------------------------------------------------
(* What a reader gets *)

\* Until power is lost a reader opens nothing that the directory does not stand
\* by, although the writer commits and seals between its three looks.
THEOREM NothingInvented ==
    ASSUME NoneIsNoFunction
    PROVE  ReaderSpec => [](crashes.outages = 0 => ReaderNeverInvents)
<1>1. ReaderInvariant => (crashes.outages = 0 => ReaderNeverInvents)
  BY DEF ReaderInvariant, ReaderTrue, ReaderOpen, Inside, ReaderNeverInvents
<1>2. QED
  BY <1>1, ReaderInvariantHolds, PTL

\* Until power is lost a reader of a sealed generation sees everything that was
\* acknowledged before it began, or its open fails.
THEOREM SealedComplete ==
    ASSUME NoneIsNoFunction
    PROVE  ReaderSpec => [](crashes.outages = 0 => SealedReaderComplete)
<1>1. ReaderInvariant => (crashes.outages = 0 => SealedReaderComplete)
  BY DEF ReaderInvariant, ReaderTrue, ReaderOpen, SealedReaderComplete
<1>2. QED
  BY <1>1, ReaderInvariantHolds, PTL

\* Until power is lost the files under an open reader keep the bytes it
\* recovered, through commits, failed appends, rollbacks, heals and seals.
THEOREM ReaderBytesKept ==
    ASSUME NoneIsNoFunction
    PROVE  ReaderSpec => [](crashes.outages = 0 => ReaderBytesStable)
<1>1. ASSUME ReaderInvariant, crashes.outages = 0 PROVE ReaderBytesStable
  <2> DEFINE c == disk.content[rdr.pgen]
             a == rdr.store.arena
             n == Len(a)
             q == c.nodes.data
  <2>1. SUFFICES ASSUME rdr.at = "open", n > 0
                 PROVE  FilesReady(c) /\ FilesCover(c, n) /\ SubSeq(q, 1, n) = a
    BY DEF ReaderBytesStable
  <2>2. /\ rdr.pgen = SealedPgen(disk) /\ Whole(rdr.store) /\ Holds(rdr.store, Current(disk))
    BY <1>1, <2>1 DEF ReaderInvariant, ReaderTrue, ReaderOpen, Inside
  <2>3. c = Current(disk) /\ IsSeq(a) /\ n \in Nat
    BY <2>2, IsSeqFacts DEF Current, Whole
  <2>4. AreFiles(c)
    <3>1. IsDirectory(disk) /\ SealsInOrder(disk) /\ auth = Authoritative(disk) /\ auth # None
      BY <1>1, BeforeOutageFacts DEF ReaderInvariant
    <3>2. AreFiles(Current(disk))
      BY <3>1, StoreFacts
    <3>3. QED
      BY <2>3, <3>2
  <2>5. FilesReady(c) /\ FilesCover(c, n) /\ \A i \in 1..n : q[i] = a[i]
    BY <2>2, <2>3 DEF Holds
  <2>6. IsSeq(q) /\ Len(q) \in Nat
    BY <2>4, IsSeqFacts DEF AreFiles, IsFile
  <2>7. n \in 0..Len(q)
    BY <2>3, <2>5, <2>6 DEF FilesCover
  <2> HIDE DEF q, a
  <2>8. /\ IsSeq(SubSeq(q, 1, n)) /\ Len(SubSeq(q, 1, n)) = n
        /\ \A i \in 1..n : SubSeq(q, 1, n)[i] = q[i]
    BY <2>6, <2>7, IsSeqPrefix
  <2>9. SubSeq(q, 1, n) = a
    <3> DEFINE p == SubSeq(q, 1, n)
    <3>1. IsSeq(p) /\ Len(p) = Len(a) /\ \A i \in 1..Len(p) : p[i] = a[i]
      BY <2>5, <2>8
    <3> HIDE DEF p
    <3>2. p = a
      BY <2>3, <3>1, IsSeqEqual
    <3>3. QED
      BY <3>2 DEF p
  <2>10. QED
    BY <2>5, <2>9
<1>2. ReaderInvariant => (crashes.outages = 0 => ReaderBytesStable)
  BY <1>1
<1>3. QED
  BY <1>2, ReaderInvariantHolds, PTL
=============================================================================
