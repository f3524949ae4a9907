------------------------- MODULE PersistentSequence -------------------------
(***************************************************************************)
(* A V2AvlSequence in use: roots are spliced from any retained root, the   *)
(* arena is compacted to a choice of roots, and storage beneath the arena  *)
(* may be damaged.  Every retained root is kept with the text that plain   *)
(* sequence editing gives it.                                              *)
(***************************************************************************)
EXTENDS SequenceArena

CONSTANTS
    InsertLens,     \* lengths of inserted text
    MaxText,        \* longest text built
    MaxSplices,     \* splices in a behaviour; a damage takes the place of one
    MaxDamage       \* damages in a behaviour

ASSUME SequenceAssumption ==
    /\ InsertLens \subseteq Nat
    /\ MaxText \in Nat /\ MaxSplices \in Nat /\ MaxDamage \in Nat

VARIABLES
    arena,          \* [payload, nodes]
    kept,           \* [root, text, late] of every retained root; late: made after damage
    splices,        \* splices done
    damage,         \* the kinds of damage done: "payload" bytes, "node" records
    outcome         \* of the last operation

vars == <<arena, kept, splices, damage, outcome>>

-----------------------------------------------------------------------------
(* Reference: what an edit means for the text *)

Edited(text, offset, deleted, insert) ==
    SubSeq(text, 1, offset) \o insert \o SubSeq(text, offset + deleted + 1, Len(text))

\* Inserted bytes are told apart by the splice and the place they come from.
Fresh(n) == [i \in 1 .. n |-> 10 * splices + i]

Bad == 0        \* a damaged byte

-----------------------------------------------------------------------------
Init ==
    /\ arena = EmptyArena
    /\ kept = {}
    /\ splices = 0
    /\ damage = {}
    /\ outcome = "none"

SpliceRoot(old, offset, deleted, n) ==
    /\ splices + Cardinality(damage) < MaxSplices
    /\ SpliceArguments(arena, old.root, offset, deleted, Fresh(n))
    /\ old.root.len - deleted + n <= MaxText
    /\ \E res \in {Splice(arena, old.root, offset, deleted, Fresh(n))} :
           IF res.ok
           THEN /\ arena' = res.arena
                /\ kept' = kept \union
                       {[root |-> res.root, text |-> Edited(old.text, offset, deleted, Fresh(n)),
                         late |-> damage # {}]}
                /\ outcome' = "spliced"
           ELSE outcome' = "refused" /\ UNCHANGED <<arena, kept>>
    /\ splices' = splices + 1
    /\ UNCHANGED damage

Create(n) == SpliceRoot([root |-> NoRoot, text |-> <<>>], 0, 0, n)

\* append_on is a splice at the end.
AppendRoot(old, n) == SpliceRoot(old, old.root.len, 0, n)

EditRoot(old) ==
    \E offset \in 0 .. old.root.len, n \in InsertLens :
        \E deleted \in 0 .. old.root.len - offset :
            SpliceRoot(old, offset, deleted, n)

Compact(chosen) ==
    /\ outcome \in {"spliced", "damaged"}
    /\ \E res \in {CompactTo(arena, {k.root.id : k \in chosen})} :
           IF res.ok
           THEN /\ arena' = res.arena
                /\ kept' = {[k EXCEPT !.root.id = res.ids[k.root.id]] : k \in chosen}
                /\ outcome' = "compacted"
           ELSE outcome' = "refused" /\ UNCHANGED <<arena, kept>>
    /\ UNCHANGED <<splices, damage>>

DamagePayload ==
    /\ \E i \in DOMAIN arena.payload : arena' = [arena EXCEPT !.payload[i] = Bad]
    /\ damage' = damage \union {"payload"}

\* A branch record comes to name another, earlier, child.
DamageNode ==
    /\ \E id \in DOMAIN arena.nodes :
           /\ ~arena.nodes[id].leaf
           /\ \E child \in 1 .. id - 1 :
                  \/ arena' = [arena EXCEPT !.nodes[id].left = child]
                  \/ arena' = [arena EXCEPT !.nodes[id].right = child]
    /\ damage' = damage \union {"node"}

\* Storage beneath a physical arena changes in place.
Damage ==
    /\ Cardinality(damage) < MaxDamage
    /\ splices + Cardinality(damage) < MaxSplices
    /\ DamagePayload \/ DamageNode
    /\ outcome' = "damaged"
    /\ UNCHANGED <<kept, splices>>

Next ==
    \/ \E n \in InsertLens : Create(n)
    \/ \E old \in kept, n \in InsertLens : AppendRoot(old, n)
    \/ \E old \in kept : EditRoot(old)
    \/ \E chosen \in SUBSET kept : Compact(chosen)
    \/ Damage

Spec == Init /\ [][Next]_vars

-----------------------------------------------------------------------------
(* Properties *)

\* Every range of every retained root, however many splices and compactions
\* ago it was made, reads as the edited text.  On a damaged arena a read may be
\* refused but never gives a wrong byte, except for a root built over a damaged
\* branch record, which concat and rebalance load without validating (splice_on,
\* read_range_counted_on, compact_to_roots, branch_children_on).
ReadsExact ==
    \A k \in kept : \A off \in 0 .. Len(k.text) : \A len \in 0 .. Len(k.text) - off :
        LET res == ReadRange(arena, k.root, off, len)
        IN  IF res.ok
            THEN res.bytes = Bytes(k.text, off, len) \/ (k.late /\ "node" \in damage)
            ELSE damage # {}

\* A root that verifies reads whole (verify_root).
VerifiedReads ==
    \A k \in kept :
        VerifyRoot(arena, k.root) <=> ReadRange(arena, k.root, 0, k.root.len).ok

\* On undamaged storage no splice and no compaction with legal arguments is
\* refused: split and concat always leave children whose heights differ by at
\* most one, which the branch record demands (rebalance_on).
NeverRefused == outcome = "refused" => damage # {}

\* Whatever was spliced and compacted, the arena exports as an image the
\* importer takes back: leaves own the payload in allocation order and every
\* child is earlier than its branch (import_image).
ImageImports ==
    damage = {} /\ kept # {} => ImportAccepts(arena, {k.root : k \in kept})
=============================================================================
