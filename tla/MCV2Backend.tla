----------------------------- MODULE MCV2Backend -----------------------------
(***************************************************************************)
(* Model-checking instances of V2Backend.                                  *)
(***************************************************************************)
EXTENDS V2Backend

CONSTANTS A, B      \* two bytes

\* Two texts of one leaf each: the tables they leave have the same geometry.
TwinTexts == {<<A>>, <<B>>}

Symmetry == Permutations(Names) \union Permutations({A, B})
=============================================================================
