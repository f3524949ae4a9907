------------------------------ MODULE MCV2Wire ------------------------------
(***************************************************************************)
(* Model-checking instance of V2Wire.  Names, requests and bytes are       *)
(* numbers: the wire orders the first two.                                 *)
(***************************************************************************)
EXTENDS V2Wire

\* A text of one leaf; one that extends it has a branch.
WireTexts == {<<1>>}
=============================================================================
