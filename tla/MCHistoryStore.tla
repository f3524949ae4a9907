--------------------------- MODULE MCHistoryStore ---------------------------
(***************************************************************************)
(* Model-checking instances of HistoryStore.                               *)
(***************************************************************************)
EXTENDS HistoryStore, TLC

\* One byte at a time: enough for an edit to insert, delete and replace.
OneByteInserts == {<<>>} \cup {<<b>> : b \in Bytes}

\* Ledger runs: content is a single letter and never empty.
LetterInserts == {<<b>> : b \in Bytes}

Symmetry == Permutations(Requests) \cup Permutations(Bytes)
=============================================================================
