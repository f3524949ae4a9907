--------------------------- MODULE MCHistoryReader ---------------------------
(***************************************************************************)
(* Model-checking instances of HistoryReader.                              *)
(***************************************************************************)
EXTENDS HistoryReader

LetterInserts == {<<b>> : b \in Bytes}
=============================================================================
