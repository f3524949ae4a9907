--------------------------- MODULE SequenceArena ---------------------------
(***************************************************************************)
(* The persistent balanced sequence (avl.rs) as operators: an append-only  *)
(* arena of payload bytes and nodes, roots that name a node, the splice    *)
(* that path-copies a new root from an old one, range reads, the arena     *)
(* image, and the compaction shared with the committed state               *)
(* (compaction_v2.rs).                                                     *)
(*                                                                         *)
(* An arena is [payload, nodes]; a node's id is its position in nodes, so  *)
(* ids start at 1, and offsets start at 0 as in the code.  A commitment is *)
(* the value it commits to: hashing is taken as injective.                 *)
(***************************************************************************)
EXTENDS Naturals, Sequences, FiniteSets, SequencesExt, FiniteSetsExt

CONSTANT MaxLeaf        \* MAX_LEAF_PAYLOAD_BYTES

ASSUME MaxLeafAssumption == MaxLeaf \in Nat \ {0}

EmptyArena == [payload |-> <<>>, nodes |-> <<>>]

-----------------------------------------------------------------------------
(* Results: an operation gives a record with ok TRUE, or Refused *)

Refused == [ok |-> FALSE]

Then(result, F(_)) == IF result.ok THEN F(result) ELSE Refused

-----------------------------------------------------------------------------
(* Records *)

Bytes(payload, off, len) == SubSeq(payload, off + 1, off + len)

LeafRecord(off, bytes) ==
    [leaf |-> TRUE, off |-> off, len |-> Len(bytes), height |-> 1, com |-> <<bytes>>]

\* Neither ids nor offsets are part of a commitment, so a node may move.
BranchRecord(l, r) ==
    LET height == 1 + Max({l.height, r.height}) IN
    [leaf |-> FALSE, left |-> l.id, right |-> r.id, leftLen |-> l.len,
     len |-> l.len + r.len, height |-> height,
     com |-> <<height, l.len, l.com, r.len, r.com>>]

\* V2NodeRecord::branch refuses an unbalanced pair.
Balanced(l, r) == l.height <= r.height + 1 /\ r.height <= l.height + 1

RootAt(a, id) ==
    LET n == a.nodes[id] IN [id |-> id, height |-> n.height, len |-> n.len, com |-> n.com]

NoRoot == [id |-> 0, height |-> 0, len |-> 0, com |-> <<>>]

\* arena_load_node: a branch whose left child has another length does not load.
Loads(a, id) ==
    /\ id \in DOMAIN a.nodes
    /\ LET n == a.nodes[id] IN ~n.leaf => a.nodes[n.left].len = n.leftLen

NodeForRoot(a, r) == Loads(a, r.id) /\ RootAt(a, r.id) = r

\* Mutant: a node is taken as it is stored.
ValidNodeUnread(a, id) == TRUE

\* validate_node: the record is what its bytes, or its children, give again.
ValidNode(a, id) ==
    LET n == a.nodes[id] IN
    IF n.leaf
    THEN n = LeafRecord(n.off, Bytes(a.payload, n.off, n.len))
    ELSE LET l == RootAt(a, n.left)  r == RootAt(a, n.right)
         IN  Balanced(l, r) /\ n = BranchRecord(l, r)

-----------------------------------------------------------------------------
(* Allocation *)

Allocated(a, record) ==
    LET b == [a EXCEPT !.nodes = Append(@, record)]
    IN  [ok |-> TRUE, arena |-> b, root |-> RootAt(b, Len(b.nodes))]

\* Mutant: leaves start at even offsets.
AllocateLeafAligned(a, bytes) ==
    LET pad == IF Len(a.payload) % 2 = 1 THEN <<0>> ELSE <<>> IN
    IF bytes = <<>> \/ Len(bytes) > MaxLeaf
    THEN Refused
    ELSE Allocated([a EXCEPT !.payload = @ \o pad \o bytes],
                   LeafRecord(Len(a.payload \o pad), bytes))

AllocateLeaf(a, bytes) ==
    IF bytes = <<>> \/ Len(bytes) > MaxLeaf
    THEN Refused
    ELSE Allocated([a EXCEPT !.payload = @ \o bytes], LeafRecord(Len(a.payload), bytes))

AllocateBranch(a, l, r) ==
    IF NodeForRoot(a, l) /\ NodeForRoot(a, r) /\ Balanced(l, r)
    THEN Allocated(a, BranchRecord(l, r))
    ELSE Refused

\* branch_children: a leaf has none.  The node is loaded, not validated.
BranchChildren(a, root) ==
    IF ~NodeForRoot(a, root) \/ a.nodes[root.id].leaf
    THEN Refused
    ELSE [ok |-> TRUE, left |-> RootAt(a, a.nodes[root.id].left),
          right |-> RootAt(a, a.nodes[root.id].right)]

-----------------------------------------------------------------------------
(* Concatenation *)

\* Mutant: a left child that leans right is rotated once.
RebalanceOnce(a, left, right) ==
    IF Balanced(left, right)
    THEN AllocateBranch(a, left, right)
    ELSE IF left.height > right.height
    THEN Then(BranchChildren(a, left), LAMBDA c :
             Then(AllocateBranch(a, c.right, right), LAMBDA nr :
                 AllocateBranch(nr.arena, c.left, nr.root)))
    ELSE Then(BranchChildren(a, right), LAMBDA c :
             Then(AllocateBranch(a, left, c.left), LAMBDA nl :
                 AllocateBranch(nl.arena, nl.root, c.right)))

\* One rotation, or two when the tall child leans towards the other side.
Rebalance(a, left, right) ==
    LET Join4(w, x, y, z) ==
            Then(AllocateBranch(a, w, x), LAMBDA nl :
                Then(AllocateBranch(nl.arena, y, z), LAMBDA nr :
                    AllocateBranch(nr.arena, nl.root, nr.root)))
    IN
    IF Balanced(left, right)
    THEN AllocateBranch(a, left, right)
    ELSE IF left.height > right.height
    THEN Then(BranchChildren(a, left), LAMBDA c :
             IF c.left.height >= c.right.height
             THEN Then(AllocateBranch(a, c.right, right), LAMBDA nr :
                      AllocateBranch(nr.arena, c.left, nr.root))
             ELSE Then(BranchChildren(a, c.right), LAMBDA m :
                      Join4(c.left, m.left, m.right, right)))
    ELSE Then(BranchChildren(a, right), LAMBDA c :
             IF c.right.height >= c.left.height
             THEN Then(AllocateBranch(a, left, c.left), LAMBDA nl :
                      AllocateBranch(nl.arena, nl.root, c.right))
             ELSE Then(BranchChildren(a, c.left), LAMBDA m :
                      Join4(left, m.left, m.right, c.right)))

RECURSIVE Concat(_, _, _)

\* Only the spine of the taller side is copied.
Concat(a, left, right) ==
    IF left.height > right.height + 1
    THEN Then(BranchChildren(a, left), LAMBDA c :
             Then(Concat(a, c.right, right), LAMBDA j : Rebalance(j.arena, c.left, j.root)))
    ELSE IF right.height > left.height + 1
    THEN Then(BranchChildren(a, right), LAMBDA c :
             Then(Concat(a, left, c.left), LAMBDA j : Rebalance(j.arena, j.root, c.right)))
    ELSE AllocateBranch(a, left, right)

ConcatOptional(a, left, right) ==
    IF left = NoRoot THEN [ok |-> TRUE, arena |-> a, root |-> right]
    ELSE IF right = NoRoot THEN [ok |-> TRUE, arena |-> a, root |-> left]
    ELSE Concat(a, left, right)

-----------------------------------------------------------------------------
(* Split, insert, splice *)

Halves(a, left, right) == [ok |-> TRUE, arena |-> a, left |-> left, right |-> right]

\* Both fragments become leaves of their own.
SplitLeaf(a, n, k) ==
    Then(AllocateLeaf(a, Bytes(a.payload, n.off, k)), LAMBDA l :
        Then(AllocateLeaf(l.arena, Bytes(a.payload, n.off + k, n.len - k)), LAMBDA r :
            Halves(r.arena, l.root, r.root)))

RECURSIVE Split(_, _, _)

\* Every node on the way down is validated before it is used.
Split(a, root, k) ==
    IF k = 0 THEN Halves(a, NoRoot, root)
    ELSE IF k = root.len THEN Halves(a, root, NoRoot)
    ELSE IF k > root.len \/ ~NodeForRoot(a, root) \/ ~ValidNode(a, root.id) THEN Refused
    ELSE IF a.nodes[root.id].leaf THEN SplitLeaf(a, a.nodes[root.id], k)
    ELSE Then(BranchChildren(a, root), LAMBDA c :
             IF k < c.left.len
             THEN Then(Split(a, c.left, k), LAMBDA h :
                      Then(ConcatOptional(h.arena, h.right, c.right), LAMBDA j :
                          Halves(j.arena, h.left, j.root)))
             ELSE IF k = c.left.len THEN Halves(a, c.left, c.right)
             ELSE Then(Split(a, c.right, k - c.left.len), LAMBDA h :
                      Then(ConcatOptional(h.arena, c.left, h.left), LAMBDA j :
                          Halves(j.arena, j.root, h.right))))

\* One round pairs neighbours; an odd last one is carried over.
PairUp(level) ==
    LET Pair(acc, i) ==
            IF i = Len(level.roots)
            THEN [acc EXCEPT !.roots = Append(@, level.roots[i])]
            ELSE Then(Concat(acc.arena, level.roots[i], level.roots[i + 1]), LAMBDA j :
                     [ok |-> TRUE, arena |-> j.arena, roots |-> Append(acc.roots, j.root)])
    IN  FoldLeft(LAMBDA acc, i : IF i % 2 = 1 THEN Then(acc, LAMBDA x : Pair(x, i)) ELSE acc,
                 [ok |-> TRUE, arena |-> level.arena, roots |-> <<>>],
                 [i \in 1 .. Len(level.roots) |-> i])

RECURSIVE Rounds(_)

Rounds(level) ==
    IF Len(level.roots) > 1 THEN Then(PairUp(level), LAMBDA next : Rounds(next))
    ELSE [ok |-> TRUE, arena |-> level.arena, root |-> level.roots[1]]

BuildInsertSubtree(a, bytes) ==
    LET chunks == (Len(bytes) + MaxLeaf - 1) \div MaxLeaf
        Chunk(i) == SubSeq(bytes, (i - 1) * MaxLeaf + 1, Min({i * MaxLeaf, Len(bytes)}))
        leaves == FoldLeft(LAMBDA acc, i :
                      Then(AllocateLeaf(acc.arena, Chunk(i)), LAMBDA l :
                          [ok |-> TRUE, arena |-> l.arena, roots |-> Append(acc.roots, l.root)]),
                      [ok |-> TRUE, arena |-> a, roots |-> <<>>],
                      [i \in 1 .. chunks |-> i])
    IN  Rounds(leaves)

SpliceInner(a, parent, offset, deleted, insert) ==
    LET built == IF insert = <<>>
                 THEN [ok |-> TRUE, arena |-> a, root |-> NoRoot]
                 ELSE BuildInsertSubtree(a, insert)
        Trim(h) == IF h.right = NoRoot \/ deleted = 0 THEN h
                   ELSE Then(Split(h.arena, h.right, deleted), LAMBDA t :
                            Halves(t.arena, h.left, t.right))
    IN  IF parent = NoRoot THEN built
        ELSE Then(built, LAMBDA m :
                 Then(Split(m.arena, parent, offset), LAMBDA s :
                     Then(Trim(s), LAMBDA h :
                         Then(ConcatOptional(h.arena, h.left, m.root), LAMBDA c :
                             ConcatOptional(c.arena, c.root, h.right)))))

\* What splice_on demands of its arguments.
SpliceArguments(a, parent, offset, deleted, insert) ==
    /\ parent # NoRoot => NodeForRoot(a, parent)
    /\ offset <= parent.len
    /\ deleted <= parent.len - offset
    /\ IF parent = NoRoot THEN insert # <<>> ELSE deleted = 0 => insert # <<>>
    /\ parent.len - deleted + Len(insert) > 0

\* A refused splice truncates the arena to its length at entry.
Splice(a, parent, offset, deleted, insert) ==
    IF /\ SpliceArguments(a, parent, offset, deleted, insert)
       /\ parent # NoRoot => ValidNode(a, parent.id)
    THEN SpliceInner(a, parent, offset, deleted, insert)
    ELSE Refused

-----------------------------------------------------------------------------
(* Reads *)

RECURSIVE ReadNode(_, _, _, _)

ReadNode(a, root, off, len) ==
    LET n == a.nodes[root.id] IN
    IF ~NodeForRoot(a, root) \/ ~ValidNode(a, root.id) THEN Refused
    ELSE IF n.leaf
    THEN IF off + len > n.len THEN Refused
         ELSE [ok |-> TRUE, bytes |-> Bytes(a.payload, n.off + off, len)]
    ELSE Then(BranchChildren(a, root), LAMBDA c :
             IF off >= c.left.len THEN ReadNode(a, c.right, off - c.left.len, len)
             ELSE LET near == Min({len, c.left.len - off}) IN
                  Then(ReadNode(a, c.left, off, near), LAMBDA x :
                      IF len = near THEN x
                      ELSE Then(ReadNode(a, c.right, 0, len - near), LAMBDA y :
                               [ok |-> TRUE, bytes |-> x.bytes \o y.bytes])))

\* The empty range reads nothing, and so validates no node.
ReadRange(a, root, off, len) ==
    IF ~NodeForRoot(a, root) \/ off + len > root.len THEN Refused
    ELSE IF len = 0 THEN [ok |-> TRUE, bytes |-> <<>>]
    ELSE ReadNode(a, root, off, len)

RECURSIVE Subtree(_, _)

\* The nodes below id, id included.
Subtree(nodes, id) ==
    IF nodes[id].leaf THEN {id}
    ELSE {id} \union Subtree(nodes, nodes[id].left) \union Subtree(nodes, nodes[id].right)

\* Mutant: the root node alone is verified.
VerifyRootOnly(a, root) == NodeForRoot(a, root) /\ ValidNode(a, root.id)

VerifyRoot(a, root) ==
    NodeForRoot(a, root) /\ \A id \in Subtree(a.nodes, root.id) : ValidNode(a, id)

-----------------------------------------------------------------------------
(* The arena image *)

\* import_image: what the decoder demands of the arena an image carries.
ImportAccepts(a, roots) ==
    LET leaves == SelectSeq(a.nodes, LAMBDA n : n.leaf)
        Before(i) == FoldLeft(LAMBDA sum, n : sum + n.len, 0, SubSeq(leaves, 1, i))
    IN  /\ a.payload # <<>> /\ a.nodes # <<>> /\ roots # {}
        /\ \A i \in DOMAIN leaves : leaves[i].off = Before(i - 1)
        /\ Before(Len(leaves)) = Len(a.payload)
        /\ \A id \in DOMAIN a.nodes :
               /\ ~a.nodes[id].leaf => a.nodes[id].left < id /\ a.nodes[id].right < id
               /\ ValidNode(a, id)
        /\ \A r \in roots : NodeForRoot(a, r)

-----------------------------------------------------------------------------
(* Compaction *)

\* plan_reachable_arena
Reachable(nodes, seeds) == UNION {Subtree(nodes, id) : id \in seeds}

\* rebuild_compact_records gives the retained nodes dense ids in their order.
NewId(keep, id) == Cardinality({k \in keep : k <= id})

\* The members of S in ascending order of a measure no two of them share.
Ascending(S, Measure(_)) ==
    [i \in 1 .. Cardinality(S) |->
        CHOOSE x \in S : Cardinality({y \in S : Measure(y) <= Measure(x)}) = i]

Leaves(nodes, keep) == {k \in keep : nodes[k].leaf}

\* repack_compact_ranges copies the retained ranges in offset order.
NewOffset(nodes, leaves, off) ==
    FoldSet(LAMBDA k, sum : nodes[k].len + sum, 0, {k \in leaves : nodes[k].off < off})

\* Two retained leaves that share a byte stop the repacking.
Disjoint(nodes, leaves) ==
    \A j, k \in leaves :
        \/ j = k
        \/ nodes[j].off + nodes[j].len <= nodes[k].off
        \/ nodes[k].off + nodes[k].len <= nodes[j].off

Moved(nodes, keep, id) ==
    LET n == nodes[id] IN
    IF n.leaf THEN [n EXCEPT !.off = NewOffset(nodes, Leaves(nodes, keep), n.off)]
    ELSE [n EXCEPT !.left = NewId(keep, n.left), !.right = NewId(keep, n.right)]

Repacked(a, leaves) ==
    FoldLeft(LAMBDA bytes, k : bytes \o Bytes(a.payload, a.nodes[k].off, a.nodes[k].len), <<>>,
             Ascending(leaves, LAMBDA k : a.nodes[k].off))

\* A node whose rebuilt record is not the one it had stops the compaction.
CompactTo(a, seeds) ==
    LET keep == Reachable(a.nodes, seeds)
        order == Ascending(keep, LAMBDA k : k)
        b == [payload |-> Repacked(a, Leaves(a.nodes, keep)),
              nodes |-> [i \in DOMAIN order |-> Moved(a.nodes, keep, order[i])]]
    IN  IF Disjoint(a.nodes, Leaves(a.nodes, keep)) /\ \A id \in DOMAIN b.nodes : ValidNode(b, id)
        THEN [ok |-> TRUE, arena |-> b, ids |-> [k \in keep |-> NewId(keep, k)]]
        ELSE Refused
=============================================================================
