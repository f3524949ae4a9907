--------------------------- MODULE CheckpointFiles ---------------------------
(***************************************************************************)
(* What a checkpoint-store directory holds (manifest, segments, routes,    *)
(* hot write-ahead log) and what opening it recovers.                      *)
(*                                                                         *)
(* Abstractions.  A transaction of the log is a checkpoint with the        *)
(* watermark it appends to; the five watermarks of a geometry advance      *)
(* together and the checkpoint count stands for them.  A checksum of a     *)
(* file is what the file holds.  A log is its complete transactions and    *)
(* whether a torn one follows them; past that there are zeros.             *)
(***************************************************************************)
EXTENDS CheckpointOps

CONSTANTS MaxGen            \* the largest manifest generation

ASSUME GenerationAssumption == MaxGen \in Nat

-----------------------------------------------------------------------------
(* Contents of the directory *)

EmptyState == [cps |-> <<>>, deleted |-> {}]

\* Manifest::default, which a directory without a manifest file stands for.
\* id is the StoreId, 0 as long as there is none.
DefaultManifest == [gen |-> 0, count |-> 0, segments |-> <<>>, deleted |-> {}, id |-> 0]

\* A segment or route entry of the manifest: the generation in its file name
\* and its checksum.
Entry(gen, cps) == [gen |-> gen, cps |-> cps]

EmptyLog == [txs |-> <<>>, torn |-> FALSE]

Tx(start, c) == [start |-> start, cp |-> c]

EmptyDirectory ==
    [manifest |-> None, files |-> [a \in {} |-> <<>>], tmps |-> {}, hot |-> None]

Loaded(dir) == IF dir.manifest = None THEN DefaultManifest ELSE dir.manifest

\* The artifacts the manifest refers to.
Referenced(m) == {"segment", "route"} \X {m.segments[i].gen : i \in 1..Len(m.segments)}

\* validate_manifest: every referenced file is there and is the one meant.
ManifestHolds(dir, m) ==
    \A i \in 1..Len(m.segments), kind \in {"segment", "route"} :
        LET a == <<kind, m.segments[i].gen>>
        IN  a \in DOMAIN dir.files /\ dir.files[a] = m.segments[i].cps

\* Everything reclaim_unreferenced_generation_files deletes under manifest m.
Unreferenced(dir, m) == DOMAIN dir.files \ Referenced(m)

-----------------------------------------------------------------------------
(* The hot log *)

\* parse_hot_prefix: the longest run of transactions that continue the
\* watermark.
ParsedFrom(hot, start) ==
    LET fits == {n \in 0..Len(hot.txs) : \A i \in 1..n : hot.txs[i].start = start + i - 1}
    IN  SubSeq(hot.txs, 1, CHOOSE n \in fits : \A k \in fits : k <= n)

\* Geometry::previous_generation: where the last segment starts.
PreviousCount(m) == m.count - Len(m.segments[Len(m.segments)].cps)

StartsWithMagic(hot) == hot.txs # <<>> \/ hot.torn

\* How many transactions at the head of the log the manifest already covers: a
\* seal published its manifest and did not get to recycle the log.  Looked for
\* only when nothing fits the manifest itself.
Overlap(hot, m) ==
    IF ParsedFrom(hot, m.count) # <<>> \/ ~StartsWithMagic(hot) \/ m.segments = <<>> THEN 0
    ELSE LET previous == ParsedFrom(hot, PreviousCount(m))
         IN  Cardinality({i \in 1..Len(previous) : previous[i].start + 1 <= m.count})

\* recycle_hot_file: the log without its first n transactions and without
\* anything after the parsed tail.
Recycled(parsed, n) == [txs |-> SubSeq(parsed, n + 1, Len(parsed)), torn |-> FALSE]

\* The transactions an open replays after the sealed state.
Suffix(hot, m) ==
    IF Overlap(hot, m) = 0 THEN ParsedFrom(hot, m.count)
    ELSE Recycled(ParsedFrom(hot, PreviousCount(m)), Overlap(hot, m)).txs

-----------------------------------------------------------------------------
(* Recovery *)

LiveOf(s) == {s.cps[i] : i \in 1..Len(s.cps)}

\* One sequence after the other.
Joined(seqs) ==
    LET upTo[n \in 0..Len(seqs)] == IF n = 0 THEN <<>> ELSE upTo[n - 1] \o seqs[n]
    IN  upTo[Len(seqs)]

\* materialize_sealed_state
SealedState(m) ==
    [cps |-> Joined([i \in 1..Len(m.segments) |-> m.segments[i].cps]),
     deleted |-> m.deleted]

\* prepare_transaction_apply: the transaction continues the state s.
Fits(s, tx) == tx.start = Len(s.cps) /\ Appendable(LiveOf(s), s.deleted, tx.cp)

\* apply_prepared_transaction, for each of txs.
Applied(s, txs) == [s EXCEPT !.cps = @ \o [i \in 1..Len(txs) |-> txs[i].cp]]

\* A transaction that does not continue the state its predecessors leave fails
\* the open.
Replayed(s, txs) ==
    IF \A i \in 1..Len(txs) : Fits(Applied(s, SubSeq(txs, 1, i - 1)), txs[i])
    THEN Applied(s, txs) ELSE None

\* The state CheckpointStore::open would recover; None when it would fail.
Recovered(dir) ==
    LET m == Loaded(dir)
    IN  IF ~ManifestHolds(dir, m) THEN None
        ELSE Replayed(SealedState(m), IF dir.hot = None THEN <<>> ELSE Suffix(dir.hot, m))
=============================================================================
