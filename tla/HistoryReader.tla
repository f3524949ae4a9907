---------------------------- MODULE HistoryReader ----------------------------
(***************************************************************************)
(* A read-only open_history_authority beside a running writer.  The reader *)
(* takes no lock: it reads the manifest, then the snapshot and the content *)
(* files, then the hot log, and the writer moves between any two of these. *)
(* An open reader then reads content through the descriptors it recovered. *)
(*                                                                         *)
(* Collections are quiescent by contract (gc_quiescent): none runs while a *)
(* reader opens or is open.  Commits and seals have no such contract.      *)
(*                                                                         *)
(* One reader opens once: readers only read, so they do not meet.          *)
(***************************************************************************)
EXTENDS HistoryAuthority

VARIABLE rdr    \* [at, gen, pgen, since, store]

readerVars == <<vars, rdr>>

NoReader == [at |-> "idle", gen |-> 0, pgen |-> 0, since |-> acked, store |-> None]

Reading == rdr.at \in {"bind", "replay", "open"}

Collecting(j) == j # None /\ j.type = "gc"

-----------------------------------------------------------------------------
(* The reader *)

\* A missing manifest is generation zero.
ReadManifest ==
    /\ rdr.at = "idle"
    /\ ~Collecting(job)
    /\ rdr' = [rdr EXCEPT !.at = "bind", !.gen = disk.manifest, !.since = acked]
    /\ UNCHANGED vars

\* The sealed base and its content files; before any manifest, the genesis
\* content, or nothing yet.
SealedBase ==
    IF rdr.gen = 0
    THEN IF GenesisHalfBuilt(disk.content[0]) THEN None ELSE NewStore
    ELSE IF rdr.gen \notin DOMAIN disk.snaps THEN None
    ELSE LET snap == disk.snaps[rdr.gen]
         IN  ImportSnapshot(snap, disk.content[snap.pgen])

ReadSnapshot ==
    /\ rdr.at = "bind"
    /\ rdr' = [rdr EXCEPT !.at = IF SealedBase = None THEN "failed" ELSE "replay",
                          !.store = SealedBase,
                          !.pgen = IF SealedBase = None \/ rdr.gen = 0 THEN 0
                                   ELSE disk.snaps[rdr.gen].pgen]
    /\ UNCHANGED vars

\* The hot log of the generation read at the start, whatever is current now.
Replayed ==
    LET frames == HotFrames(disk, rdr.gen)
    IN  IF frames = None THEN None
        ELSE ReplaySuffix(rdr.store, frames, rdr.pgen, disk.content[rdr.pgen])

ReadHotLog ==
    /\ rdr.at = "replay"
    /\ rdr' = [rdr EXCEPT !.at = IF Replayed = None THEN "failed" ELSE "open",
                          !.store = Replayed]
    /\ UNCHANGED vars

CloseReader ==
    /\ rdr.at = "open"
    /\ rdr' = [rdr EXCEPT !.at = "closed"]
    /\ UNCHANGED vars

-----------------------------------------------------------------------------
(* Specification *)

\* A step of the writer; no collection runs beside a reader.
WriterStep ==
    /\ Next
    /\ Reading => ~Collecting(job')
    /\ UNCHANGED rdr

ReaderInit == Init /\ rdr = NoReader

ReaderNext == WriterStep \/ ReadManifest \/ ReadSnapshot \/ ReadHotLog \/ CloseReader

ReaderSpec == ReaderInit /\ [][ReaderNext]_readerVars

-----------------------------------------------------------------------------
(* Properties *)

\* Whatever a reader opens is a state the writer's directory still stands by:
\* no half-written commit, no version that recovery would not give, although
\* manifest, snapshot and log are read at different moments.
ReaderNeverInvents ==
    rdr.at = "open" => Keeps(Promise(auth), Promise(rdr.store))

\* A reader that found a manifest sees every version, history and expiry
\* acknowledged before it began, or its open fails ("treating it as empty
\* would silently drop post-seal versions").
SealedReaderComplete ==
    rdr.at = "open" /\ rdr.gen > 0 => Keeps(Promise(rdr.store), rdr.since)

\* Under an open reader the content files keep the bytes it recovered:
\* appends, failed appends, rollbacks and the healing of a reopened writer
\* stay above the reader's frontier.
ReaderBytesStable ==
    rdr.at = "open" =>
        LET c == disk.content[rdr.pgen]
            n == Len(rdr.store.arena)
        IN  n > 0 => FilesReady(c) /\ FilesCover(c, n) /\ SubSeq(c.nodes.data, 1, n) = rdr.store.arena
=============================================================================
