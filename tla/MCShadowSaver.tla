---------------------------- MODULE MCShadowSaver ----------------------------
(***************************************************************************)
(* Model-checking instance of ShadowSaver.                                 *)
(***************************************************************************)
EXTENDS ShadowSaver

CONSTANTS A, B      \* two messages

\* No channel, a start and its continuation: saved in the other order, the
\* second is no continuation of the first.
ThreeValues == {None, <<A>>, <<A, B>>}
=============================================================================
