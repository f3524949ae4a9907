------------------------- MODULE CheckpointLogProofs -------------------------
(***************************************************************************)
(* CheckpointLog keeps its lineage whole and never rewrites a checkpoint,  *)
(* for every set of keys and values.  The invariant is inductive as it     *)
(* stands; what needs an argument is the deletion of a subtree, whose      *)
(* closure under children is the first lemma.                              *)
(***************************************************************************)
EXTENDS CheckpointLog, TLAPS

\* The set delete_checkpoint_subtree computes may be deleted: it holds the
\* checkpoint, only live keys, and every child of its members.
LEMMA SubtreePrunable ==
    ASSUME NEW C, NEW k \in KeysOf(C)
    PROVE  Prunable(C, Subtree(C, k))
<1> DEFINE S == Subtree(C, k)
<1>1. k \in S
  BY DEF Subtree
<1>2. S \subseteq KeysOf(C)
  BY DEF Subtree
<1>3. ASSUME NEW c \in C, c.parent \in S
      PROVE  c.key \in S
  <2>1. c.key \in KeysOf(C)
    BY DEF KeysOf
  <2>2. ASSUME NEW K \in SUBSET KeysOf(C), k \in K, ClosedUnderChildren(C, K)
        PROVE  c.key \in K
    <3>1. c.parent \in K
      BY <1>3, <2>2 DEF Subtree
    <3> QED
      BY <3>1, <2>2 DEF ClosedUnderChildren
  <2> QED
    BY <2>1, <2>2 DEF Subtree
<1>4. ClosedUnderChildren(C, S)
  BY <1>3 DEF ClosedUnderChildren
<1> QED
  BY <1>1, <1>2, <1>4 DEF Prunable

\* A whole lineage of well-typed checkpoints.
LogInvariant == TypeOK /\ LineageWhole

\* An append keeps the lineage whole: its key is new and its parent is live.
LEMMA AppendKeeps ==
    ASSUME LogInvariant, NEW c \in Checkpoints, AppendCheckpoint(c)
    PROVE  LogInvariant'
<1> USE DEF AppendCheckpoint, Appendable, LogInvariant
<1>1. TypeOK'
  BY DEF TypeOK
<1>2. \A d, e \in live' : d.key = e.key => d = e
  BY DEF LineageWhole, KeysOf
<1>3. KeysOf(live') \cap deleted' = {}
  BY DEF LineageWhole, KeysOf
<1>4. \A d \in live' : d.parent # None => d.parent \in KeysOf(live')
  BY DEF LineageWhole, KeysOf
<1> QED
  BY <1>1, <1>2, <1>3, <1>4 DEF LineageWhole

\* Deleting a set closed under children leaves every survivor its parent.
LEMMA DeletionKeeps ==
    ASSUME LogInvariant, NEW K, Prunable(live, K),
           live' = Surviving(live, K), deleted' = deleted \cup K
    PROVE  LogInvariant'
<1> USE DEF LogInvariant
<1>1. K \subseteq Keys
  BY DEF Prunable, KeysOf, TypeOK, Checkpoints
<1>2. TypeOK'
  BY <1>1 DEF TypeOK, Surviving
<1>3. \A d, e \in live' : d.key = e.key => d = e
  BY DEF LineageWhole, Surviving
<1>4. KeysOf(live') \cap deleted' = {}
  BY DEF LineageWhole, Surviving, KeysOf
<1>5. ASSUME NEW d \in live', d.parent # None
      PROVE  d.parent \in KeysOf(live')
  <2>1. d \in live /\ d.key \notin K
    BY DEF Surviving
  <2>2. d.parent \in KeysOf(live)
    BY <2>1, <1>5 DEF LineageWhole
  <2>3. d.parent \notin K
    BY <2>1 DEF Prunable, ClosedUnderChildren
  <2> QED
    BY <2>2, <2>3 DEF KeysOf, Surviving
<1> QED
  BY <1>2, <1>3, <1>4, <1>5 DEF LineageWhole

\* Every step of the log keeps the invariant.
LEMMA StepKeeps ==
    ASSUME LogInvariant, [Next]_logVars
    PROVE  LogInvariant'
<1>1. CASE \E c \in Checkpoints : AppendCheckpoint(c)
  BY <1>1, AppendKeeps
<1>2. CASE \E K \in SUBSET Keys : DeleteSet(K)
  BY <1>2, DeletionKeeps DEF DeleteSet
<1>3. CASE \E k \in Keys : DeleteSubtree(k)
  BY <1>3, SubtreePrunable, DeletionKeeps DEF DeleteSubtree
<1>4. CASE UNCHANGED logVars
  BY <1>4 DEF logVars, LogInvariant, TypeOK, LineageWhole, KeysOf
<1> QED
  BY <1>1, <1>2, <1>3, <1>4 DEF Next

\* So the invariant holds for ever.
LEMMA InvariantAlways == Spec => []LogInvariant
<1>1. Init => LogInvariant
  BY DEF Init, LogInvariant, TypeOK, LineageWhole, KeysOf
<1> QED
  BY <1>1, StepKeeps, PTL DEF Spec

\* A key names at most one checkpoint, a deleted key none, and no live
\* checkpoint has lost its parent (validate_transaction_against_state,
\* compact_live_state).
THEOREM LineageStaysWhole == Spec => []LineageWhole
<1>1. LogInvariant => LineageWhole
  BY DEF LogInvariant
<1> QED
  BY <1>1, InvariantAlways, PTL

\* No step changes a checkpoint, drops one without its tombstone or brings a
\* deleted key back.
THEOREM CheckpointsKept == Spec => NothingRewritten
<1> DEFINE Kept == /\ \A c \in live : c \in live' \/ c.key \in deleted'
                   /\ deleted \subseteq deleted'
                   /\ \A c \in live' : c.key \notin deleted
<1>1. ASSUME LogInvariant, Next
      PROVE  Kept
  <2>1. CASE \E c \in Checkpoints : AppendCheckpoint(c)
    BY <1>1, <2>1 DEF AppendCheckpoint, Appendable, LogInvariant, LineageWhole, KeysOf
  <2>2. CASE \E K \in SUBSET Keys : DeleteSet(K)
    BY <1>1, <2>2 DEF DeleteSet, Surviving, LogInvariant, LineageWhole, KeysOf
  <2>3. CASE \E k \in Keys : DeleteSubtree(k)
    BY <1>1, <2>3 DEF DeleteSubtree, Surviving, LogInvariant, LineageWhole, KeysOf
  <2> QED
    BY <1>1, <2>1, <2>2, <2>3 DEF Next
<1>2. LogInvariant /\ [Next]_logVars => [Kept]_logVars
  BY <1>1
<1> QED
  BY <1>2, InvariantAlways, PTL DEF Spec, NothingRewritten
=============================================================================
