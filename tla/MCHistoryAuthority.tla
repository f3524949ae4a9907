------------------------- MODULE MCHistoryAuthority -------------------------
(***************************************************************************)
(* Model-checking instances of HistoryAuthority.                           *)
(***************************************************************************)
EXTENDS HistoryAuthority

LetterInserts == {<<b>> : b \in Bytes}
=============================================================================
