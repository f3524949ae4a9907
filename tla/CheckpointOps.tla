---------------------------- MODULE CheckpointOps ----------------------------
(***************************************************************************)
(* What CheckpointStore keeps, apart from files: committed checkpoints and *)
(* the tombstones of deleted ones.  CheckpointLog makes it a state machine *)
(* and CheckpointStore makes it durable.                                   *)
(*                                                                         *)
(* Abstractions.  A key is a thread with a checkpoint id; a parent is in   *)
(* the thread of its child, so keys may as well share one thread.  The     *)
(* bytes, nodes and versions of a checkpoint are its value.                *)
(***************************************************************************)
EXTENDS Integers, Sequences, FiniteSets

CONSTANTS
    Keys,           \* (thread id, checkpoint id) pairs
    Values,         \* what a checkpoint may hold
    None            \* no parent, no file, no operation

ASSUME CheckpointAssumption == None \notin Keys

Checkpoints == [key: Keys, parent: Keys \cup {None}, value: Values]

KeysOf(C) == {c.key : c \in C}

-----------------------------------------------------------------------------
(* Operations on live checkpoints C and tombstones D *)

\* validate_transaction_against_state: the key was never used and the parent
\* is committed.
Appendable(C, D, c) ==
    /\ c.key \notin KeysOf(C)
    /\ c.key \notin D
    /\ c.parent # None => c.parent \in KeysOf(C)

\* K holds the children of its members.
ClosedUnderChildren(C, K) == \A c \in C : c.parent \in K => c.key \in K

\* A checkpoint and its descendants: the least set with the checkpoint that
\* is closed under children.
Subtree(C, k) ==
    {d \in KeysOf(C) : \A K \in SUBSET KeysOf(C) :
                          k \in K /\ ClosedUnderChildren(C, K) => d \in K}

\* compact_live_state refuses to leave a live child of a deleted parent.
Prunable(C, K) ==
    /\ K # {}
    /\ K \subseteq KeysOf(C)
    /\ ClosedUnderChildren(C, K)

Surviving(C, K) == {c \in C : c.key \notin K}
=============================================================================
