------------------------ MODULE MCPersistentSequence ------------------------
(***************************************************************************)
(* Model-checking instance of PersistentSequence.                          *)
(***************************************************************************)
EXTENDS PersistentSequence
=============================================================================
