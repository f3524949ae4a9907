---------------------------- MODULE CheckpointLog ----------------------------
(***************************************************************************)
(* What a checkpoint store promises, with no files and no failures: the    *)
(* live checkpoints and the tombstones change only by whole appends and    *)
(* whole deletions.  The abstract specification of CheckpointStore.        *)
(***************************************************************************)
EXTENDS CheckpointOps

VARIABLES live, deleted

logVars == <<live, deleted>>

AppendCheckpoint(c) ==
    /\ Appendable(live, deleted, c)
    /\ live' = live \cup {c}
    /\ UNCHANGED deleted

DeleteSet(K) ==
    /\ Prunable(live, K)
    /\ live' = Surviving(live, K)
    /\ deleted' = deleted \cup K

DeleteSubtree(k) ==
    /\ k \in KeysOf(live)
    /\ LET K == Subtree(live, k)
       IN  /\ live' = Surviving(live, K)
           /\ deleted' = deleted \cup K

Init == live = {} /\ deleted = {}

Next ==
    \/ \E c \in Checkpoints : AppendCheckpoint(c)
    \/ \E K \in SUBSET Keys : DeleteSet(K)
    \/ \E k \in Keys : DeleteSubtree(k)

Spec == Init /\ [][Next]_logVars

-----------------------------------------------------------------------------
(* Properties *)

\* Live checkpoints are checkpoints and tombstones are keys.
TypeOK == live \subseteq Checkpoints /\ deleted \subseteq Keys

\* Every key names at most one checkpoint, a deleted key none, and no live
\* checkpoint has lost its parent, whatever was appended and deleted before
\* (validate_transaction_against_state, compact_live_state).
LineageWhole ==
    /\ \A c, d \in live : c.key = d.key => c = d
    /\ KeysOf(live) \cap deleted = {}
    /\ \A c \in live : c.parent # None => c.parent \in KeysOf(live)

\* A committed checkpoint never changes and goes only by deletion; a deleted
\* key is deleted for ever ("deleted checkpoint identities remain durable
\* tombstones so they cannot be reused").
NothingRewritten ==
    [][/\ \A c \in live : c \in live' \/ c.key \in deleted'
       /\ deleted \subseteq deleted'
       /\ \A c \in live' : c.key \notin deleted]_logVars
=============================================================================
