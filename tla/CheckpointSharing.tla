-------------------------- MODULE CheckpointSharing --------------------------
(***************************************************************************)
(* A checkpoint-store directory shared by its writer, a LazyCheckpointStore*)
(* reader and a CheckpointReclaimWorker.  Reader and worker meet at the    *)
(* reader/reclaim gate; the writer takes the gate only to reclaim.         *)
(*                                                                         *)
(* One reader opens once: readers only share the gate with one another.    *)
(***************************************************************************)
EXTENDS CheckpointStore

VARIABLES
    rdr,            \* [at, man, since]: the reader
    wkr             \* [at, man, removed]: the worker

sharingVars == <<vars, rdr, wkr>>

-----------------------------------------------------------------------------
(* The sealed reader *)

Refused == rdr' = [rdr EXCEPT !.at = "refused"] /\ gate' = "free"

\* Mutant: the manifest is read without the lease.
ReaderLeaseNone ==
    /\ rdr.at = "idle"
    /\ rdr' = [rdr EXCEPT !.at = "leased", !.since = acked]
    /\ UNCHANGED <<vars, wkr>>

\* lock_shared waits for an exclusive holder.
ReaderLease ==
    /\ rdr.at = "idle"
    /\ gate = "free"
    /\ gate' = "shared"
    /\ rdr' = [rdr EXCEPT !.at = "leased", !.since = acked]
    /\ UNCHANGED <<directory, safe, writerVars, acked, budget, wkr>>

\* Without a sealed generation there is nothing to read and the open is done.
ReaderLoad ==
    /\ rdr.at = "leased"
    /\ IF ManifestHolds(dir, Loaded(dir))
       THEN /\ rdr' = [rdr EXCEPT !.at = IF Loaded(dir).gen = 0 THEN "open" ELSE "loaded",
                                  !.man = Loaded(dir)]
            /\ UNCHANGED gate
       ELSE Refused
    /\ UNCHANGED <<directory, safe, writerVars, acked, budget, wkr>>

\* The segments are opened, then a log that continues the manifest refuses.
ReaderSegments ==
    /\ rdr.at = "loaded"
    /\ IF ManifestHolds(dir, rdr.man)
       THEN rdr' = [rdr EXCEPT !.at = "segments"] /\ UNCHANGED gate
       ELSE Refused
    /\ UNCHANGED <<directory, safe, writerVars, acked, budget, wkr>>

ReaderHot ==
    /\ rdr.at = "segments"
    /\ IF dir.hot = None \/ ParsedFrom(dir.hot, rdr.man.count) = <<>>
       THEN rdr' = [rdr EXCEPT !.at = "open"] /\ UNCHANGED gate
       ELSE Refused
    /\ UNCHANGED <<directory, safe, writerVars, acked, budget, wkr>>

ReaderClose ==
    /\ rdr.at = "open"
    /\ rdr' = [rdr EXCEPT !.at = "closed"]
    /\ gate' = "free"
    /\ UNCHANGED <<directory, safe, writerVars, acked, budget, wkr>>

-----------------------------------------------------------------------------
(* The reclaim worker: reclaim_worker_poll *)

\* A manifest that does not load stops the worker.
WorkerLoad ==
    /\ wkr.at = "idle"
    /\ wkr' = [at |-> IF ManifestHolds(dir, Loaded(dir)) THEN "loaded" ELSE "stopped",
               man |-> Loaded(dir), removed |-> FALSE]
    /\ UNCHANGED <<vars, rdr>>

WorkerDeferred ==
    /\ wkr.at = "loaded"
    /\ gate # "free"
    /\ wkr' = [wkr EXCEPT !.at = "idle"]
    /\ UNCHANGED <<vars, rdr>>

WorkerGate ==
    /\ wkr.at = "loaded"
    /\ gate = "free"
    /\ gate' = "worker"
    /\ wkr' = [wkr EXCEPT !.at = "delete"]
    /\ UNCHANGED <<directory, safe, writerVars, acked, budget, rdr>>

\* What the manifest read before the gate does not refer to.
WorkerDelete ==
    /\ wkr.at = "delete"
    /\ \/ \E a \in Unreferenced(dir, wkr.man) :
             Writes([dir EXCEPT !.files = [x \in DOMAIN @ \ {a} |-> @[x]]])
       \/ \E t \in dir.tmps : Writes([dir EXCEPT !.tmps = @ \ {t}])
    /\ wkr' = [wkr EXCEPT !.removed = TRUE]
    /\ UNCHANGED <<safe, gate, writerVars, acked, budget, rdr>>

WorkerDone ==
    /\ wkr.at = "delete"
    /\ Unreferenced(dir, wkr.man) = {} /\ dir.tmps = {}
    /\ safe' = IF wkr.removed THEN DirSync ELSE safe
    /\ gate' = "free"
    /\ wkr' = [wkr EXCEPT !.at = "idle"]
    /\ UNCHANGED <<directory, writerVars, acked, budget, rdr>>

\* A name that was listed and is gone when it is removed stops the worker.
WorkerStops ==
    /\ wkr.at \in {"idle", "delete"}
    /\ wkr' = [wkr EXCEPT !.at = "stopped"]
    /\ gate' = IF wkr.at = "delete" THEN "free" ELSE gate
    /\ UNCHANGED <<directory, safe, writerVars, acked, budget, rdr>>

-----------------------------------------------------------------------------
(* What the writer meets only beside the others *)

\* Something took a segment away after the manifest was read.
MaterializeFails ==
    /\ pc = "materialize"
    /\ ~ManifestHolds(dir, man)
    /\ Stop
    /\ UNCHANGED <<directory, safe, acked, budget, rdr, wkr>>

\* try_lock fails: the reclaim is put off and the call goes on.
ReclaimDeferred ==
    /\ pc = "reclaim"
    /\ gate # "free"
    /\ Reclaimed
    /\ UNCHANGED <<directory, safe, gate, budget, rdr, wkr>>

\* "staged temporary file is missing"
PublishMissing ==
    /\ pc \in {"publishSegment", "publishRoute", "publishManifest"}
    /\ Temporary \notin dir.tmps
    /\ IF job.kind = "reidentify" THEN Return ELSE Poison
    /\ Quiet
    /\ UNCHANGED <<directory, safe, rdr, wkr>>

-----------------------------------------------------------------------------
(* Specification *)

SharingInit ==
    /\ Init
    /\ rdr = [at |-> "idle", man |-> DefaultManifest, since |-> acked]
    /\ wkr = [at |-> "idle", man |-> DefaultManifest, removed |-> FALSE]

WriterStep == Next /\ UNCHANGED <<rdr, wkr>>

SharingNext ==
    \/ WriterStep \/ MaterializeFails \/ ReclaimDeferred \/ PublishMissing
    \/ ReaderLease \/ ReaderLoad \/ ReaderSegments \/ ReaderHot \/ ReaderClose
    \/ WorkerLoad \/ WorkerDeferred \/ WorkerGate \/ WorkerDelete
    \/ WorkerDone \/ WorkerStops

SharingSpec == SharingInit /\ [][SharingNext]_sharingVars

-----------------------------------------------------------------------------
(* Properties *)

Seen == LiveOf(SealedState(rdr.man))

\* From its manifest on, a leased reader keeps every file it refers to,
\* whatever the writer seals and deletes and the worker reclaims
\* (ReaderReclaimLease, reclaim_unreferenced_generation_files).
LeasedFilesStay ==
    rdr.at \in {"loaded", "segments", "open"} => ManifestHolds(dir, rdr.man)

\* A reader sees nothing whose deletion was acknowledged before it began.
DeletedStaysHidden ==
    rdr.at = "open" => KeysOf(Seen) \cap rdr.since.deleted = {}

\* Beside a worker that "never ... mutates logical checkpoint state" and only
\* retries "the already-authoritative manifest's deferred generation cleanup",
\* what was acknowledged stays recoverable.
WorkerLosesNothing == AckedSurvives
=============================================================================
