-------------------------- MODULE ShadowSaverProofs --------------------------
(***************************************************************************)
(* Proofs about ShadowSaver: what is mirrored reads as the primary was     *)
(* given it and hangs in its own branch, the two dictionaries name what is *)
(* stored, and a reported success is in the store.                         *)
(***************************************************************************)
EXTENDS ShadowSaver, NaturalsInduction, WellFoundedInduction, SequenceTheorems, TLAPS

-----------------------------------------------------------------------------
(* Walking up *)

\* The chains that the walks collect: place x leads to next[x], if that is not
\* None.
Leads(D, next) == \A x \in D : next[x] # None => next[x] \in D

Collects(D, next, f) ==
    f = [x \in D |-> {x} \union (IF next[x] = None THEN {} ELSE f[next[x]])]

\* Such a collection exists: everything a chain leads to.
LEMMA CollectionExists ==
    ASSUME NEW D, NEW next, Leads(D, next)
    PROVE  \E f : Collects(D, next, f)
<1> DEFINE Closed(S) == \A z \in S : next[z] # None => next[z] \in S
           To(x) == {y \in D : \A S \in SUBSET D : x \in S /\ Closed(S) => y \in S}
           f == [x \in D |-> To(x)]
<1>1. ASSUME NEW x \in D PROVE Closed(To(x)) /\ x \in To(x) /\ To(x) \subseteq D
  <2>1. x \in To(x) /\ To(x) \subseteq D
    OBVIOUS
  <2>2. ASSUME NEW z \in To(x), next[z] # None PROVE next[z] \in To(x)
    <3>1. next[z] \in D
      BY <2>2 DEF Leads
    <3>2. ASSUME NEW S \in SUBSET D, x \in S, Closed(S) PROVE next[z] \in S
      <4>1. z \in S
        BY <3>2
      <4>2. QED
        BY <2>2, <3>2, <4>1
    <3>3. QED
      BY <3>1, <3>2
  <2>3. QED
    BY <2>1, <2>2
<1>2. ASSUME NEW x \in D, NEW S \in SUBSET D, x \in S, Closed(S) PROVE To(x) \subseteq S
  BY <1>2
<1>3. ASSUME NEW x \in D, next[x] = None PROVE To(x) = {x}
  <2>1. Closed({x}) /\ {x} \in SUBSET D
    BY <1>3
  <2>2. To(x) \subseteq {x}
    BY <1>2, <2>1
  <2>3. QED
    BY <1>1, <2>2
<1>4. ASSUME NEW x \in D, next[x] # None PROVE To(x) = {x} \union To(next[x])
  <2>1. next[x] \in D
    BY <1>4 DEF Leads
  <2>2. Closed(To(next[x])) /\ next[x] \in To(next[x]) /\ To(next[x]) \subseteq D
    BY <1>1, <2>1
  <2>3. Closed(To(x)) /\ x \in To(x) /\ To(x) \subseteq D
    BY <1>1
  <2> HIDE DEF To
  <2>4. Closed({x} \union To(next[x]))
    BY <2>2
  <2>5. To(x) \subseteq {x} \union To(next[x])
    <3>1. {x} \union To(next[x]) \in SUBSET D
      BY <2>2
    <3> HIDE DEF Closed
    <3>2. QED
      BY <1>2, <2>4, <3>1
  <2>6. next[x] \in To(x)
    BY <1>4, <2>3
  <2>7. To(next[x]) \subseteq To(x)
    <3> HIDE DEF Closed
    <3>1. QED
      BY <1>2, <2>1, <2>3, <2>6
  <2>8. QED
    BY <2>3, <2>5, <2>7
<1>5. ASSUME NEW x \in D
      PROVE  f[x] = {x} \union (IF next[x] = None THEN {} ELSE f[next[x]])
  <2>1. f[x] = To(x)
    BY <1>5
  <2>2. next[x] # None => next[x] \in D /\ f[next[x]] = To(next[x])
    BY DEF Leads
  <2> HIDE DEF To, f
  <2>3. QED
    BY <1>3, <1>4, <2>1, <2>2
<1>6. f = [x \in D |-> {x} \union (IF next[x] = None THEN {} ELSE f[next[x]])]
  <2>1. f = [x \in D |-> f[x]]
    OBVIOUS
  <2> HIDE DEF f, To
  <2>2. [x \in D |-> f[x]] = [x \in D |-> {x} \union (IF next[x] = None THEN {} ELSE f[next[x]])]
    BY <1>5
  <2>3. QED
    BY <2>1, <2>2, Zenon
<1>7. QED
  <2> HIDE DEF f, To
  <2>1. Collects(D, next, f)
    BY <1>6, Zenon DEF Collects
  <2>2. QED
    BY <2>1, Zenon

\* What is reached from a place.
LEMMA CollectionUnfolds ==
    ASSUME NEW D, NEW next, NEW f, Collects(D, next, f), NEW x \in D
    PROVE  f[x] = {x} \union (IF next[x] = None THEN {} ELSE f[next[x]])
  BY Zenon DEF Collects

-----------------------------------------------------------------------------
(* The lineage of a checkpoint *)

\* What the primary was given: parents are older, values are sequences.
PrimaryTrue(s) ==
    /\ DOMAIN s \subseteq Ids
    /\ \A x \in DOMAIN s :
          /\ s[x].parent # None => s[x].parent \in DOMAIN s /\ s[x].parent < x
          /\ s[x].value # None => s[x].value \in Seq(Messages)

LineageOf(s, id) ==
    LET up[x \in DOMAIN s] ==
            {x} \union (IF s[x].parent = None THEN {} ELSE up[s[x].parent])
    IN  up[id]

LEMMA LineageIs ==
    ASSUME NEW id
    PROVE  Lineage(id) = LineageOf(saved, id)
  BY Zenon DEF Lineage, LineageOf

LEMMA LineageUnfolds ==
    ASSUME NEW s, PrimaryTrue(s), NEW x \in DOMAIN s
    PROVE  LineageOf(s, x) =
             {x} \union (IF s[x].parent = None THEN {} ELSE LineageOf(s, s[x].parent))
<1> DEFINE D == DOMAIN s
           Body(g) == [y \in D |-> {y} \union (IF s[y].parent = None THEN {} ELSE g[s[y].parent])]
           r == CHOOSE g : g = Body(g)
           next == [y \in D |-> s[y].parent]
<1>1. Leads(D, next)
  BY DEF Leads, PrimaryTrue
<1>2. ASSUME NEW f PROVE Collects(D, next, f) <=> f = Body(f)
  <2>1. [y \in D |-> {y} \union (IF next[y] = None THEN {} ELSE f[next[y]])] = Body(f)
    OBVIOUS
  <2>2. QED
    BY <2>1, Zenon DEF Collects
<1>3. \E f : f = Body(f)
  <2> HIDE DEF D, next, Body
  <2>1. QED
    BY <1>1, <1>2, CollectionExists
<1>4. r = Body(r)
  <2> HIDE DEF Body
  <2>1. QED
    BY <1>3, Zenon
<1>5. \A y : LineageOf(s, y) = r[y]
  BY Zenon DEF LineageOf
<1> HIDE DEF r
<1>6. r[x] = {x} \union (IF s[x].parent = None THEN {} ELSE r[s[x].parent])
  BY <1>4, Zenon
<1>7. QED
  BY <1>5, <1>6, Zenon

\* A set of naturals has a least member.
LEMMA LeastNatural ==
    ASSUME NEW T, T \subseteq Nat, T # {}
    PROVE  \E k \in T : \A j \in T : k <= j
<1> DEFINE R == {ss \in Nat \X Nat : ss[1] < ss[2]}
<1>1. IsWellFoundedOn(R, Nat)
  BY NatLessThanWellFounded, Zenon DEF OpToRel
<1> HIDE DEF R
<1>2. \E k \in T : \A j \in T : ~(<<j, k>> \in R)
  BY <1>1, WFMin
<1>3. \A j, k \in Nat : ~(<<j, k>> \in R) => k <= j
  BY DEF R
<1>4. QED
  BY <1>2, <1>3

\* What holds of a checkpoint when it holds of its parent holds of all.
LEMMA LineageInduction ==
    ASSUME NEW s, PrimaryTrue(s), NEW T,
           \A x \in DOMAIN s : (s[x].parent # None => s[x].parent \in T) => x \in T
    PROVE  DOMAIN s \subseteq T
<1> DEFINE Missed == DOMAIN s \ T
<1>1. SUFFICES ASSUME Missed # {} PROVE FALSE
  OBVIOUS
<1>2. Missed \subseteq Nat
  BY DEF PrimaryTrue, Ids
<1>3. PICK k \in Missed : \A j \in Missed : k <= j
  <2> HIDE DEF Missed
  <2>1. QED
    BY <1>1, <1>2, LeastNatural
<1>4. s[k].parent # None => s[k].parent \in DOMAIN s /\ s[k].parent < k
  BY <1>3 DEF PrimaryTrue
<1>5. s[k].parent # None => s[k].parent \in T
  <2>1. SUFFICES ASSUME s[k].parent # None, s[k].parent \in Missed PROVE FALSE
    BY <1>4
  <2>2. k <= s[k].parent /\ k \in Nat /\ s[k].parent \in Nat
    BY <1>2, <1>3, <2>1
  <2>3. QED
    BY <1>4, <2>1, <2>2
<1>6. QED
  BY <1>3, <1>5

\* A lineage is the checkpoint itself and what lies above it.
LEMMA LineageFacts ==
    ASSUME NEW s, PrimaryTrue(s)
    PROVE  \A x \in DOMAIN s :
             /\ x \in LineageOf(s, x) /\ LineageOf(s, x) \subseteq DOMAIN s
             /\ \A y \in LineageOf(s, x) : y <= x /\ LineageOf(s, y) \subseteq LineageOf(s, x)
<1> DEFINE Right(x) ==
             /\ x \in LineageOf(s, x) /\ LineageOf(s, x) \subseteq DOMAIN s
             /\ \A y \in LineageOf(s, x) : y <= x /\ LineageOf(s, y) \subseteq LineageOf(s, x)
           T == {x \in DOMAIN s : Right(x)}
<1>1. ASSUME NEW x \in DOMAIN s, s[x].parent # None => s[x].parent \in T PROVE Right(x)
  <2>1. x \in Nat /\ DOMAIN s \subseteq Nat
    BY DEF PrimaryTrue, Ids
  <2>2. CASE s[x].parent = None
    <3>1. LineageOf(s, x) = {x}
      BY <2>2, LineageUnfolds
    <3>2. QED
      BY <2>1, <3>1
  <2>3. CASE s[x].parent # None
    <3> DEFINE p == s[x].parent
    <3>1. LineageOf(s, x) = {x} \union LineageOf(s, p)
      BY <2>3, LineageUnfolds
    <3>2. p \in DOMAIN s /\ p < x /\ Right(p)
      BY <1>1, <2>3 DEF PrimaryTrue
    <3> HIDE DEF p
    <3>3. \A y \in LineageOf(s, p) : y <= x
      BY <2>1, <3>2
    <3>4. QED
      BY <2>1, <3>1, <3>2, <3>3
  <2>4. QED
    BY <2>2, <2>3
<1>2. \A x \in DOMAIN s : (s[x].parent # None => s[x].parent \in T) => x \in T
  <2> HIDE DEF Right
  <2>1. QED
    BY <1>1
<1>3. DOMAIN s \subseteq T
  <2> HIDE DEF T
  <2>1. QED
    BY <1>2, LineageInduction
<1>4. QED
  BY <1>3

\* Nothing saved is ever saved otherwise, so that lineages stay.
Extends(s, t) == PrimaryTrue(s) /\ PrimaryTrue(t) /\ \A x \in DOMAIN s : x \in DOMAIN t /\ t[x] = s[x]

LEMMA LineageStays ==
    ASSUME NEW s, NEW t, Extends(s, t)
    PROVE  \A x \in DOMAIN s : LineageOf(t, x) = LineageOf(s, x)
<1> DEFINE T == {x \in DOMAIN s : LineageOf(t, x) = LineageOf(s, x)}
<1>1. PrimaryTrue(s) /\ PrimaryTrue(t)
  BY DEF Extends
<1>2. ASSUME NEW x \in DOMAIN s, s[x].parent # None => s[x].parent \in T
      PROVE  LineageOf(t, x) = LineageOf(s, x)
  <2>1. x \in DOMAIN t /\ t[x] = s[x]
    BY DEF Extends
  <2>2. LineageOf(t, x) =
          {x} \union (IF s[x].parent = None THEN {} ELSE LineageOf(t, s[x].parent))
    BY <1>1, <2>1, LineageUnfolds
  <2>3. LineageOf(s, x) =
          {x} \union (IF s[x].parent = None THEN {} ELSE LineageOf(s, s[x].parent))
    BY <1>1, LineageUnfolds
  <2>4. QED
    BY <1>2, <2>2, <2>3
<1>3. \A x \in DOMAIN s : (s[x].parent # None => s[x].parent \in T) => x \in T
  BY <1>2
<1>4. DOMAIN s \subseteq T
  <2> HIDE DEF T
  <2>1. QED
    BY <1>1, <1>3, LineageInduction
<1>5. QED
  BY <1>4

-----------------------------------------------------------------------------
(* The walk to the next entry of the index *)

LEMMA ReachedUnfolds ==
    ASSUME PrimaryTrue(saved), NEW x \in DOMAIN saved
    PROVE  Reached(x) = {x} \union (IF x \in DOMAIN index \/ ParentOf(x) = None THEN {}
                                    ELSE Reached(ParentOf(x)))
<1> DEFINE D == DOMAIN saved
           Body(g) == [y \in D |-> {y} \union
                         (IF y \in DOMAIN index \/ ParentOf(y) = None THEN {} ELSE g[ParentOf(y)])]
           r == CHOOSE g : g = Body(g)
           next == [y \in D |-> IF y \in DOMAIN index THEN None ELSE ParentOf(y)]
<1>1. \A y \in D : ParentOf(y) # None => ParentOf(y) \in D
  BY DEF ParentOf, PrimaryTrue
<1>2. Leads(D, next)
  BY <1>1 DEF Leads
<1>3. ASSUME NEW f PROVE Collects(D, next, f) <=> f = Body(f)
  <2>1. ASSUME NEW y \in D
        PROVE  {y} \union (IF next[y] = None THEN {} ELSE f[next[y]])
                 = {y} \union (IF y \in DOMAIN index \/ ParentOf(y) = None THEN {} ELSE f[ParentOf(y)])
    BY <2>1
  <2>2. [y \in D |-> {y} \union (IF next[y] = None THEN {} ELSE f[next[y]])] = Body(f)
    <3> HIDE DEF next
    <3>1. QED
      BY <2>1
  <2>3. QED
    BY <2>2, Zenon DEF Collects
<1>4. \E f : f = Body(f)
  <2> HIDE DEF D, next, Body
  <2>1. QED
    BY <1>2, <1>3, CollectionExists
<1>5. r = Body(r)
  <2> HIDE DEF Body
  <2>1. QED
    BY <1>4, Zenon
<1>6. \A y : y # None => Reached(y) = r[y]
  BY Zenon DEF Reached
<1>7. x # None
  BY ShadowAssumption DEF PrimaryTrue
<1> HIDE DEF r
<1>8. r[x] = {x} \union (IF x \in DOMAIN index \/ ParentOf(x) = None THEN {} ELSE r[ParentOf(x)])
  BY <1>5, Zenon
<1>9. QED
  BY <1>6, <1>7, <1>8, Zenon

\* The walk stays in the lineage, and everything walked leads to the entry
\* that ends it.
LEMMA ReachedFacts ==
    ASSUME PrimaryTrue(saved)
    PROVE  \A x \in DOMAIN saved :
             /\ Reached(x) \subseteq LineageOf(saved, x)
             /\ \A y \in Reached(x) \intersect DOMAIN index, z \in Reached(x) \ DOMAIN index :
                   y \in Reached(z)
<1> DEFINE Right(x) ==
             /\ Reached(x) \subseteq LineageOf(saved, x)
             /\ \A y \in Reached(x) \intersect DOMAIN index, z \in Reached(x) \ DOMAIN index :
                   y \in Reached(z)
           T == {x \in DOMAIN saved : Right(x)}
<1>1. ASSUME NEW x \in DOMAIN saved, saved[x].parent # None => saved[x].parent \in T
      PROVE  Right(x)
  <2>1. x \in LineageOf(saved, x)
    BY LineageFacts
  <2>2. CASE x \in DOMAIN index \/ ParentOf(x) = None
    <3>1. Reached(x) = {x}
      BY <2>2, ReachedUnfolds
    <3>2. QED
      BY <2>1, <2>2, <3>1
  <2>3. CASE x \notin DOMAIN index /\ ParentOf(x) # None
    <3> DEFINE p == ParentOf(x)
    <3>1. p = saved[x].parent /\ p # None
      BY <2>3 DEF ParentOf
    <3>2. Reached(x) = {x} \union Reached(p)
      BY <2>3, ReachedUnfolds
    <3>3. Right(p)
      BY <1>1, <3>1
    <3>4. LineageOf(saved, x) = {x} \union LineageOf(saved, p)
      BY <3>1, LineageUnfolds
    <3> HIDE DEF p
    <3>5. Reached(x) \subseteq LineageOf(saved, x)
      BY <3>2, <3>3, <3>4
    <3>6. ASSUME NEW y \in Reached(x) \intersect DOMAIN index, NEW z \in Reached(x) \ DOMAIN index
          PROVE  y \in Reached(z)
      <4>1. y \in Reached(p) /\ (z = x \/ z \in Reached(p))
        BY <2>3, <3>2, <3>6
      <4>2. QED
        BY <3>2, <3>3, <3>6, <4>1
    <3>7. QED
      BY <3>5, <3>6
  <2>4. QED
    BY <2>2, <2>3
<1>2. \A x \in DOMAIN saved : (saved[x].parent # None => saved[x].parent \in T) => x \in T
  <2> HIDE DEF Right
  <2>1. QED
    BY <1>1
<1>3. DOMAIN saved \subseteq T
  <2> HIDE DEF T
  <2>1. QED
    BY <1>2, LineageInduction
<1>4. QED
  BY <1>3

-----------------------------------------------------------------------------
(* The invariant *)

\* What the store tu holds is what the primary s was given, in its lineage.
StoreTrue(s, tu) ==
    \A t \in DOMAIN tu :
        /\ t \in DOMAIN s
        /\ tu[t].value = s[t].value /\ tu[t].value \in Seq(Messages)
        /\ tu[t].parent # None => tu[t].parent \in LineageOf(s, t) \ {t}

\* The messages remembered are those stored, and an entry of the index leads
\* to a remembered checkpoint of the same lineage.
IndexTrue(s, tu, ix, kn) ==
    /\ \A t \in DOMAIN kn : t \in DOMAIN tu /\ kn[t] = tu[t].value
    /\ \A x \in DOMAIN ix :
          /\ x \in DOMAIN s
          /\ ix[x] # None => ix[x] \in DOMAIN kn /\ ix[x] \in LineageOf(s, x)

\* The messages below a parent.
BaseIn(tu, t) == IF t = None THEN <<>> ELSE tu[t].value

\* A process appends to a stored parent what makes its value.
ProcessTrue(s, tu, p) ==
    /\ p = [id |-> p.id, parent |-> p.parent, no |-> p.no,
            delta |-> p.delta, value |-> p.value, at |-> p.at]
    /\ p.id \in DOMAIN s
    /\ p.value = s[p.id].value /\ p.value \in Seq(Messages)
    /\ p.parent # None => p.parent \in DOMAIN tu /\ p.parent \in LineageOf(s, p.id) \ {p.id}
    /\ p.value = BaseIn(tu, p.parent) \o p.delta

ProcessesTrue(s, tu, ps) == \A p \in ps : ProcessTrue(s, tu, p)

\* A mirror that reported success can be read back.
GoodTrue(s, tu, g) ==
    \A id \in g :
        /\ id \in DOMAIN s
        /\ s[id].value \in {None, <<>>}
           \/ \E t \in DOMAIN tu : t \in LineageOf(s, id) /\ tu[t].value = s[id].value

Puts == [id: Ids, parent: Ids \union {None}, value: Values]

QueueTrue(s, q) ==
    /\ q \in Seq(Puts)
    /\ \A i \in 1..Len(q) :
          q[i].id \in DOMAIN s /\ s[q[i].id] = [parent |-> q[i].parent, value |-> q[i].value]

ShadowInvariant ==
    /\ PrimaryTrue(saved)
    /\ StoreTrue(saved, tulya)
    /\ IndexTrue(saved, tulya, index, known)
    /\ QueueTrue(saved, queue)
    /\ cli # None => ProcessTrue(saved, tulya, cli)
    /\ cli # None /\ cli.at = "committed" => cli.id \in DOMAIN tulya
    /\ ProcessesTrue(saved, tulya, orphans)
    /\ GoodTrue(saved, tulya, good)

-----------------------------------------------------------------------------
(* What is decided from it *)

\* The parent found is stored, remembered and above.
LEMMA ResolvedParent ==
    ASSUME PrimaryTrue(saved), IndexTrue(saved, tulya, index, known),
           NEW parent, parent # None => parent \in DOMAIN saved, ResolveParent(parent) # None
    PROVE  /\ parent # None
           /\ \E y \in Reached(parent) \intersect DOMAIN index : ResolveParent(parent) = index[y]
           /\ ResolveParent(parent) \in DOMAIN known
           /\ ResolveParent(parent) \in LineageOf(saved, parent)
<1> DEFINE entries == Reached(parent) \intersect DOMAIN index
<1>1. entries # {} /\ ResolveParent(parent) = index[CHOOSE x \in entries : TRUE]
  BY DEF ResolveParent
<1>2. PICK y \in entries : ResolveParent(parent) = index[y]
  BY <1>1
<1>3. parent # None
  BY <1>2 DEF Reached
<1>4. y \in LineageOf(saved, parent)
  BY <1>2, <1>3, ReachedFacts
<1>5. index[y] # None => index[y] \in DOMAIN known /\ index[y] \in LineageOf(saved, y)
  BY <1>2 DEF IndexTrue
<1>6. LineageOf(saved, y) \subseteq LineageOf(saved, parent)
  BY <1>3, <1>4, LineageFacts
<1>7. QED
  BY <1>2, <1>3, <1>5, <1>6

\* The index with what was walked.
LEMMA WalkedTrue ==
    ASSUME PrimaryTrue(saved), IndexTrue(saved, tulya, index, known),
           NEW put, put.parent # None => put.parent \in DOMAIN saved
    PROVE  IndexTrue(saved, tulya, IndexWalked(put), known)
<1> DEFINE ix == IndexWalked(put)
           t == ResolveParent(put.parent)
<1>1. /\ DOMAIN ix = Walked(put.parent) \union DOMAIN index
      /\ \A x \in DOMAIN ix : ix[x] = IF x \in DOMAIN index THEN index[x] ELSE t
  BY DEF IndexWalked
<1> HIDE DEF ix
<1>2. ASSUME NEW x \in DOMAIN ix, x \notin DOMAIN index
      PROVE  /\ x \in DOMAIN saved
             /\ ix[x] # None => ix[x] \in DOMAIN known /\ ix[x] \in LineageOf(saved, x)
  <2>1. x \in Reached(put.parent) \ DOMAIN index /\ ix[x] = t
    BY <1>1, <1>2 DEF Walked
  <2>2. put.parent # None
    BY <2>1 DEF Reached
  <2>3. x \in DOMAIN saved
    BY <2>1, <2>2, ReachedFacts, LineageFacts
  <2>4. ASSUME t # None PROVE t \in DOMAIN known /\ t \in LineageOf(saved, x)
    <3>1. PICK y \in Reached(put.parent) \intersect DOMAIN index : t = index[y]
      BY <2>4, ResolvedParent
    <3>2. y \in Reached(x)
      BY <2>1, <2>2, <3>1, ReachedFacts
    <3>3. y \in LineageOf(saved, x)
      BY <2>3, <3>2, ReachedFacts
    <3>4. LineageOf(saved, y) \subseteq LineageOf(saved, x)
      BY <2>3, <3>3, LineageFacts
    <3>5. index[y] \in DOMAIN known /\ index[y] \in LineageOf(saved, y)
      BY <2>4, <3>1 DEF IndexTrue
    <3>6. QED
      BY <3>1, <3>4, <3>5
  <2>5. QED
    BY <2>1, <2>3, <2>4
<1>3. ASSUME NEW x \in DOMAIN index
      PROVE  /\ x \in DOMAIN saved
             /\ index[x] # None => index[x] \in DOMAIN known /\ index[x] \in LineageOf(saved, x)
  BY DEF IndexTrue
<1>4. \A x \in DOMAIN ix :
        /\ x \in DOMAIN saved
        /\ ix[x] # None => ix[x] \in DOMAIN known /\ ix[x] \in LineageOf(saved, x)
  BY <1>1, <1>2, <1>3
<1>5. IndexTrue(saved, tulya, ix, known)
  BY <1>4 DEF IndexTrue
<1>6. QED
  BY <1>5 DEF ix

\* The messages a delta is computed against are those of the parent.
LEMMA PriorIsBase ==
    ASSUME PrimaryTrue(saved), StoreTrue(saved, tulya), IndexTrue(saved, tulya, index, known),
           NEW put, put.parent # None => put.parent \in DOMAIN saved
    PROVE  /\ Prior(put) = BaseIn(tulya, ResolveParent(put.parent))
           /\ Prior(put) \in Seq(Messages)
<1> DEFINE t == ResolveParent(put.parent)
<1>1. CASE t = None
  BY <1>1 DEF Prior, BaseIn
<1>2. CASE t # None
  <2>1. t \in DOMAIN known
    BY <1>2, ResolvedParent
  <2>2. t \in DOMAIN tulya /\ known[t] = tulya[t].value /\ tulya[t].value \in Seq(Messages)
    BY <2>1 DEF IndexTrue, StoreTrue
  <2>3. Prior(put) = known[t]
    BY <1>2, <2>1 DEF Prior
  <2>4. QED
    BY <1>2, <2>2, <2>3 DEF BaseIn
<1>3. QED
  BY <1>1, <1>2

\* A sequence is a prefix of it and the rest.
LEMMA PrefixAndRest ==
    ASSUME NEW p \in Seq(Messages), NEW v \in Seq(Messages), IsPrefix(p, v)
    PROVE  v = p \o SubSeq(v, Len(p) + 1, Len(v))
<1>1. Len(p) \in Nat /\ Len(v) \in Nat /\ Len(p) <= Len(v) /\ SubSeq(v, 1, Len(p)) = p
  BY LenProperties DEF IsPrefix
<1>2. v = SubSeq(v, 1, Len(p)) \o SubSeq(v, Len(p) + 1, Len(v))
  <2>1. SubSeq(v, 1, Len(v)) = v
    BY SubSeqFull
  <2>2. SubSeq(v, 1, Len(p)) \o SubSeq(v, Len(p) + 1, Len(v)) = SubSeq(v, 1, Len(v))
    <3>1. 1 \in 1..Len(v)+1 /\ Len(p) \in 1-1..Len(v) /\ Len(v) \in Len(p)..Len(v)
      BY <1>1
    <3>2. QED
      BY <3>1, ConcatAdjacentSubSeq
  <2>3. QED
    BY <2>1, <2>2
<1>3. QED
  BY <1>1, <1>2

-----------------------------------------------------------------------------
(* What stays as primary and store grow *)

Grows(tu, tv) == \A t \in DOMAIN tu : t \in DOMAIN tv /\ tv[t] = tu[t]

LEMMA StoreStays ==
    ASSUME NEW s, NEW t, Extends(s, t), NEW tu, StoreTrue(s, tu)
    PROVE  StoreTrue(t, tu)
<1>1. ASSUME NEW x \in DOMAIN tu
      PROVE  /\ x \in DOMAIN t
             /\ tu[x].value = t[x].value /\ tu[x].value \in Seq(Messages)
             /\ tu[x].parent # None => tu[x].parent \in LineageOf(t, x) \ {x}
  <2>1. /\ x \in DOMAIN s
        /\ tu[x].value = s[x].value /\ tu[x].value \in Seq(Messages)
        /\ tu[x].parent # None => tu[x].parent \in LineageOf(s, x) \ {x}
    BY DEF StoreTrue
  <2>2. x \in DOMAIN t /\ t[x] = s[x]
    BY <2>1 DEF Extends
  <2>3. LineageOf(t, x) = LineageOf(s, x)
    BY <2>1, LineageStays
  <2>4. QED
    BY <2>1, <2>2, <2>3
<1>2. QED
  BY <1>1 DEF StoreTrue

LEMMA IndexStays ==
    ASSUME NEW s, NEW t, Extends(s, t), NEW tu, NEW tv, Grows(tu, tv),
           NEW ix, NEW kn, IndexTrue(s, tu, ix, kn)
    PROVE  IndexTrue(t, tv, ix, kn)
<1>1. ASSUME NEW x \in DOMAIN kn PROVE x \in DOMAIN tv /\ kn[x] = tv[x].value
  <2>1. x \in DOMAIN tu /\ kn[x] = tu[x].value
    BY DEF IndexTrue
  <2>2. QED
    BY <2>1 DEF Grows
<1>2. ASSUME NEW x \in DOMAIN ix
      PROVE  /\ x \in DOMAIN t
             /\ ix[x] # None => ix[x] \in DOMAIN kn /\ ix[x] \in LineageOf(t, x)
  <2>1. /\ x \in DOMAIN s
        /\ ix[x] # None => ix[x] \in DOMAIN kn /\ ix[x] \in LineageOf(s, x)
    BY DEF IndexTrue
  <2>2. x \in DOMAIN t /\ LineageOf(t, x) = LineageOf(s, x)
    BY <2>1, LineageStays DEF Extends
  <2>3. QED
    BY <2>1, <2>2
<1>3. QED
  BY <1>1, <1>2 DEF IndexTrue

LEMMA ProcessStays ==
    ASSUME NEW s, NEW t, Extends(s, t), NEW tu, NEW tv, Grows(tu, tv),
           NEW p, ProcessTrue(s, tu, p)
    PROVE  ProcessTrue(t, tv, p)
<1>1. /\ p.id \in DOMAIN s
      /\ p.value = s[p.id].value /\ p.value \in Seq(Messages)
      /\ p.parent # None => p.parent \in DOMAIN tu /\ p.parent \in LineageOf(s, p.id) \ {p.id}
      /\ p.value = BaseIn(tu, p.parent) \o p.delta
  BY DEF ProcessTrue
<1>2. p.id \in DOMAIN t /\ t[p.id] = s[p.id] /\ LineageOf(t, p.id) = LineageOf(s, p.id)
  BY <1>1, LineageStays DEF Extends
<1>3. p.parent # None => p.parent \in DOMAIN tv /\ tv[p.parent] = tu[p.parent]
  BY <1>1 DEF Grows
<1>4. BaseIn(tv, p.parent) = BaseIn(tu, p.parent)
  BY <1>3 DEF BaseIn
<1>5. QED
  BY <1>1, <1>2, <1>3, <1>4 DEF ProcessTrue

LEMMA GoodStays ==
    ASSUME NEW s, NEW t, Extends(s, t), NEW tu, NEW tv, Grows(tu, tv),
           NEW g, GoodTrue(s, tu, g)
    PROVE  GoodTrue(t, tv, g)
<1>1. ASSUME NEW id \in g
      PROVE  /\ id \in DOMAIN t
             /\ t[id].value \in {None, <<>>}
                \/ \E x \in DOMAIN tv : x \in LineageOf(t, id) /\ tv[x].value = t[id].value
  <2>1. id \in DOMAIN s
    BY DEF GoodTrue
  <2>2. id \in DOMAIN t /\ t[id] = s[id] /\ LineageOf(t, id) = LineageOf(s, id)
    BY <2>1, LineageStays DEF Extends
  <2>3. CASE s[id].value \in {None, <<>>}
    BY <2>2, <2>3
  <2>4. CASE \E x \in DOMAIN tu : x \in LineageOf(s, id) /\ tu[x].value = s[id].value
    <3>1. PICK x \in DOMAIN tu : x \in LineageOf(s, id) /\ tu[x].value = s[id].value
      BY <2>4
    <3>2. x \in DOMAIN tv /\ tv[x] = tu[x]
      BY DEF Grows
    <3>3. QED
      BY <2>2, <3>1, <3>2
  <2>5. QED
    BY <2>3, <2>4 DEF GoodTrue
<1>2. QED
  BY <1>1 DEF GoodTrue

LEMMA QueueStays ==
    ASSUME NEW s, NEW t, Extends(s, t), NEW q, QueueTrue(s, q)
    PROVE  QueueTrue(t, q)
  BY DEF QueueTrue, Extends

LEMMA NothingChanges ==
    /\ \A tu : Grows(tu, tu)
    /\ PrimaryTrue(saved) => Extends(saved, saved)
  BY DEF Grows, Extends

-----------------------------------------------------------------------------
(* What a commit and its answer add *)

StoredIn(tu, p) ==
    Map(p.id, [parent |-> p.parent, no |-> p.no, value |-> BaseIn(tu, p.parent) \o p.delta], tu)

LEMMA StoredIs ==
    ASSUME NEW p
    PROVE  Stored(p) = StoredIn(tulya, p)
  BY DEF Stored, StoredIn, BaseIn

LEMMA CommitAdds ==
    ASSUME NEW s, NEW tu, NEW p, StoreTrue(s, tu), ProcessTrue(s, tu, p), p.id \notin DOMAIN tu
    PROVE  /\ StoreTrue(s, StoredIn(tu, p)) /\ Grows(tu, StoredIn(tu, p))
           /\ p.id \in DOMAIN StoredIn(tu, p)
<1> DEFINE entry == [parent |-> p.parent, no |-> p.no, value |-> BaseIn(tu, p.parent) \o p.delta]
           tv == StoredIn(tu, p)
<1>1. entry.parent = p.parent /\ entry.value = BaseIn(tu, p.parent) \o p.delta
  OBVIOUS
<1>2. /\ p.id \in DOMAIN s
      /\ p.value = s[p.id].value /\ p.value \in Seq(Messages)
      /\ p.parent # None => p.parent \in LineageOf(s, p.id) \ {p.id}
      /\ p.value = BaseIn(tu, p.parent) \o p.delta
  BY DEF ProcessTrue
<1>3. tv = Map(p.id, entry, tu)
  BY DEF StoredIn
<1> HIDE DEF entry, tv
<1>4. /\ DOMAIN tv = DOMAIN tu \union {p.id} /\ tv[p.id] = entry
      /\ \A x \in DOMAIN tu : x # p.id => tv[x] = tu[x]
  BY <1>3 DEF Map
<1>5. Grows(tu, tv)
  BY <1>4 DEF Grows
<1>6. ASSUME NEW t \in DOMAIN tv
      PROVE  /\ t \in DOMAIN s
             /\ tv[t].value = s[t].value /\ tv[t].value \in Seq(Messages)
             /\ tv[t].parent # None => tv[t].parent \in LineageOf(s, t) \ {t}
  <2>1. CASE t = p.id
    BY <1>1, <1>2, <1>4, <2>1
  <2>2. CASE t \in DOMAIN tu
    <3>1. tv[t] = tu[t]
      BY <1>5, <2>2 DEF Grows
    <3>2. QED
      BY <2>2, <3>1 DEF StoreTrue
  <2>3. QED
    BY <1>4, <2>1, <2>2
<1>7. StoreTrue(s, tv)
  BY <1>6 DEF StoreTrue
<1>8. QED
  BY <1>4, <1>5, <1>7 DEF tv

LEMMA AnswerAdds ==
    ASSUME NEW s, PrimaryTrue(s), NEW tu, NEW ix, NEW kn, IndexTrue(s, tu, ix, kn),
           NEW id \in DOMAIN s, NEW v, id \in DOMAIN tu, tu[id].value = v
    PROVE  IndexTrue(s, tu, Map(id, id, ix), Map(id, v, kn))
<1> DEFINE jx == Map(id, id, ix)
           kv == Map(id, v, kn)
<1>1. /\ DOMAIN jx = DOMAIN ix \union {id} /\ jx[id] = id
      /\ \A x \in DOMAIN ix : x # id => jx[x] = ix[x]
  BY DEF Map
<1>2. /\ DOMAIN kv = DOMAIN kn \union {id} /\ kv[id] = v
      /\ \A x \in DOMAIN kn : x # id => kv[x] = kn[x]
  BY DEF Map
<1> HIDE DEF jx, kv
<1>3. ASSUME NEW t \in DOMAIN kv PROVE t \in DOMAIN tu /\ kv[t] = tu[t].value
  BY <1>2 DEF IndexTrue
<1>4. ASSUME NEW x \in DOMAIN jx
      PROVE  /\ x \in DOMAIN s
             /\ jx[x] # None => jx[x] \in DOMAIN kv /\ jx[x] \in LineageOf(s, x)
  <2>1. CASE x = id
    BY <1>1, <1>2, <2>1, LineageFacts
  <2>2. CASE x # id
    <3>1. x \in DOMAIN ix /\ jx[x] = ix[x]
      BY <1>1, <2>2
    <3>2. QED
      BY <1>2, <3>1 DEF IndexTrue
  <2>3. QED
    BY <2>1, <2>2
<1>5. IndexTrue(s, tu, jx, kv)
  BY <1>3, <1>4 DEF IndexTrue
<1>6. QED
  BY <1>5 DEF jx, kv

LEMMA InheritAdds ==
    ASSUME NEW s, NEW tu, NEW ix, NEW kn, IndexTrue(s, tu, ix, kn),
           NEW id \in DOMAIN s, NEW t, t # None => t \in DOMAIN kn /\ t \in LineageOf(s, id)
    PROVE  IndexTrue(s, tu, Map(id, t, ix), kn)
<1> DEFINE jx == Map(id, t, ix)
<1>1. /\ DOMAIN jx = DOMAIN ix \union {id} /\ jx[id] = t
      /\ \A x \in DOMAIN ix : x # id => jx[x] = ix[x]
  BY DEF Map
<1> HIDE DEF jx
<1>2. ASSUME NEW x \in DOMAIN jx
      PROVE  /\ x \in DOMAIN s
             /\ jx[x] # None => jx[x] \in DOMAIN kn /\ jx[x] \in LineageOf(s, x)
  <2>1. CASE x = id
    BY <1>1, <2>1
  <2>2. CASE x # id
    BY <1>1, <2>2 DEF IndexTrue
  <2>3. QED
    BY <2>1, <2>2
<1>3. IndexTrue(s, tu, jx, kn)
  BY <1>2 DEF IndexTrue
<1>4. QED
  BY <1>3 DEF jx

LEMMA SuccessAdds ==
    ASSUME NEW s, NEW tu, NEW g, GoodTrue(s, tu, g), NEW id \in DOMAIN s,
           s[id].value \in {None, <<>>}
             \/ \E t \in DOMAIN tu : t \in LineageOf(s, id) /\ tu[t].value = s[id].value
    PROVE  GoodTrue(s, tu, g \union {id})
  BY DEF GoodTrue

-----------------------------------------------------------------------------
(* One put *)

\* With put the primary is s.
Given(s, put) ==
    /\ Extends(saved, s)
    /\ put.id \in DOMAIN s /\ s[put.id] = [parent |-> put.parent, value |-> put.value]
    /\ put.parent # None => put.parent \in DOMAIN saved

AdapterTrue ==
    /\ PrimaryTrue(saved)
    /\ StoreTrue(saved, tulya)
    /\ IndexTrue(saved, tulya, index, known)
    /\ GoodTrue(saved, tulya, good)

LEMMA ParentAbove ==
    ASSUME AdapterTrue, NEW s, NEW put, Given(s, put), ResolveParent(put.parent) # None
    PROVE  /\ ResolveParent(put.parent) \in DOMAIN known
           /\ ResolveParent(put.parent) \in DOMAIN tulya
           /\ ResolveParent(put.parent) \in LineageOf(s, put.id) \ {put.id}
<1> DEFINE t == ResolveParent(put.parent)
<1>1. put.parent # None /\ t \in DOMAIN known /\ t \in LineageOf(saved, put.parent)
  BY ResolvedParent DEF AdapterTrue, Given
<1>2. t \in DOMAIN tulya
  BY <1>1 DEF AdapterTrue, IndexTrue
<1>3. PrimaryTrue(s) /\ put.id \in DOMAIN s /\ s[put.id].parent = put.parent
  BY DEF Given, Extends
<1>4. put.parent \in DOMAIN s /\ put.parent < put.id /\ put.id \in Nat /\ put.parent \in Nat
  BY <1>1, <1>3 DEF PrimaryTrue, Ids
<1>5. LineageOf(s, put.parent) = LineageOf(saved, put.parent)
  BY <1>1, LineageStays DEF Given
<1>6. LineageOf(s, put.id) = {put.id} \union LineageOf(s, put.parent)
  BY <1>1, <1>3, LineageUnfolds
<1>7. t \in DOMAIN s /\ t <= put.parent
  BY <1>1, <1>3, <1>4, <1>5, LineageFacts
<1>8. t \in Nat
  BY <1>3, <1>7 DEF PrimaryTrue, Ids
<1> HIDE DEF t
<1>9. t # put.id
  BY <1>4, <1>7, <1>8
<1>10. QED
  BY <1>1, <1>2, <1>5, <1>6, <1>9 DEF t

LEMMA ProcessMade ==
    ASSUME AdapterTrue, NEW s, NEW put, Given(s, put), Plan(put) = "process"
    PROVE  ProcessTrue(s, tulya, Process(put))
<1> DEFINE p == Process(put)
<1>1. put.value # None /\ IsPrefix(Prior(put), put.value)
  BY DEF Plan
<1>2. s[put.id].value = put.value /\ put.id \in DOMAIN s /\ PrimaryTrue(s)
  BY DEF Given, Extends
<1>3. put.value \in Seq(Messages)
  BY <1>1, <1>2 DEF PrimaryTrue
<1>4. Prior(put) = BaseIn(tulya, ResolveParent(put.parent)) /\ Prior(put) \in Seq(Messages)
  BY PriorIsBase DEF AdapterTrue, Given
<1>5. put.value = Prior(put) \o SubSeq(put.value, Len(Prior(put)) + 1, Len(put.value))
  BY <1>1, <1>3, <1>4, PrefixAndRest
<1>6. /\ p.id = put.id /\ p.parent = ResolveParent(put.parent) /\ p.value = put.value
      /\ p.delta = SubSeq(put.value, Len(Prior(put)) + 1, Len(put.value))
  BY DEF Process
<1>a. p = [id |-> p.id, parent |-> p.parent, no |-> p.no,
           delta |-> p.delta, value |-> p.value, at |-> p.at]
  BY DEF Process
<1> HIDE DEF p
<1>7. p.parent # None => p.parent \in DOMAIN tulya /\ p.parent \in LineageOf(s, p.id) \ {p.id}
  BY <1>6, ParentAbove
<1>8. p.value = BaseIn(tulya, p.parent) \o p.delta
  BY <1>4, <1>5, <1>6
<1>9. ProcessTrue(s, tulya, p)
  BY <1>2, <1>3, <1>6, <1>7, <1>8, <1>a DEF ProcessTrue
<1>10. QED
  BY <1>9 DEF p

LEMMA IndexGiven ==
    ASSUME AdapterTrue, NEW s, NEW put, Given(s, put)
    PROVE  IndexTrue(s, tulya, IndexWalked(put), known) /\ GoodTrue(s, tulya, good)
<1>1. IndexTrue(saved, tulya, IndexWalked(put), known)
  BY WalkedTrue DEF AdapterTrue, Given
<1>2. QED
  BY <1>1, IndexStays, GoodStays, NothingChanges DEF AdapterTrue, Given

\* A put that needs no process is answered from what is stored.
LEMMA MirroredWithout ==
    ASSUME AdapterTrue, NEW s, NEW put, Given(s, put), MirrorsWithout(put)
    PROVE  IndexTrue(s, tulya, index', known') /\ GoodTrue(s, tulya, good')
<1> DEFINE t == ResolveParent(put.parent)
           ix == IndexWalked(put)
<1>1. IndexTrue(s, tulya, ix, known) /\ GoodTrue(s, tulya, good)
  BY IndexGiven
<1>2. put.id \in DOMAIN s /\ s[put.id].value = put.value
  BY DEF Given
<1>3. t # None => t \in DOMAIN known /\ t \in DOMAIN tulya /\ t \in LineageOf(s, put.id)
  BY ParentAbove
<1>4. known' = known /\ Plan(put) # "process"
  BY DEF MirrorsWithout
<1>5. CASE Plan(put) = "inherit"
  <2>1. index' = Map(put.id, t, ix) /\ good' = good \union {put.id}
    BY <1>5 DEF MirrorsWithout
  <2>2. put.value = None \/ put.value = Prior(put)
    BY <1>5 DEF Plan
  <2>3. Prior(put) = BaseIn(tulya, t)
    BY PriorIsBase DEF AdapterTrue, Given
  <2> HIDE DEF t, ix
  <2>4. IndexTrue(s, tulya, Map(put.id, t, ix), known)
    BY <1>1, <1>2, <1>3, InheritAdds
  <2>5. \/ s[put.id].value \in {None, <<>>}
        \/ \E x \in DOMAIN tulya : x \in LineageOf(s, put.id) /\ tulya[x].value = s[put.id].value
    BY <1>2, <1>3, <2>2, <2>3 DEF BaseIn
  <2>6. GoodTrue(s, tulya, good \union {put.id})
    BY <1>1, <1>2, <2>5, SuccessAdds
  <2>7. QED
    BY <1>4, <2>1, <2>4, <2>6
<1>6. CASE Plan(put) = "existing"
  <2>1. index' = ix /\ good' = good \union {put.id}
    BY <1>6 DEF MirrorsWithout
  <2>2. Existing(put)
    BY <1>6 DEF Plan
  <2>3. /\ put.id \in DOMAIN ix /\ ix[put.id] # None
        /\ ix[put.id] \in DOMAIN known /\ known[ix[put.id]] = put.value
    BY <2>2 DEF Existing
  <2> HIDE DEF t, ix
  <2>4. /\ ix[put.id] \in LineageOf(s, put.id) /\ ix[put.id] \in DOMAIN tulya
        /\ tulya[ix[put.id]].value = put.value
    BY <1>1, <2>3 DEF IndexTrue
  <2>5. GoodTrue(s, tulya, good \union {put.id})
    BY <1>1, <1>2, <2>4, SuccessAdds
  <2>6. QED
    BY <1>1, <1>4, <2>1, <2>5
<1>7. CASE Plan(put) = "refuse"
  <2>1. index' = ix /\ good' = good
    BY <1>7 DEF MirrorsWithout
  <2>2. QED
    BY <1>1, <1>4, <2>1
<1>8. Plan(put) \in {"inherit", "existing", "refuse", "process"}
  BY DEF Plan
<1>9. QED
  BY <1>4, <1>5, <1>6, <1>7, <1>8

\* A put that was committed and answered.
LEMMA AnsweredTrue ==
    ASSUME NEW s, PrimaryTrue(s), NEW tu, NEW p, NEW ix, Answered(p, ix),
           StoreTrue(s, tu), IndexTrue(s, tu, ix, known), GoodTrue(s, tu, good),
           p.id \in DOMAIN tu, p.value = s[p.id].value
    PROVE  IndexTrue(s, tu, index', known') /\ GoodTrue(s, tu, good')
<1>1. /\ index' = Map(p.id, p.id, ix) /\ known' = Map(p.id, p.value, known)
      /\ good' = good \union {p.id}
  BY DEF Answered
<1>2. p.id \in DOMAIN s /\ tu[p.id].value = p.value
  BY DEF StoreTrue
<1>3. IndexTrue(s, tu, Map(p.id, p.id, ix), Map(p.id, p.value, known))
  BY <1>2, AnswerAdds
<1>4. p.id \in LineageOf(s, p.id)
  BY <1>2, LineageFacts
<1>5. GoodTrue(s, tu, good \union {p.id})
  BY <1>2, <1>4, SuccessAdds
<1>6. QED
  BY <1>1, <1>3, <1>5

-----------------------------------------------------------------------------
(* Steps *)

LEMMA SavedGiven ==
    ASSUME PrimaryTrue(saved), NEW id \in Ids, NEW parent \in Ids \union {None},
           NEW value \in Values, ToPrimary(id, parent, value)
    PROVE  Given(saved', [id |-> id, parent |-> parent, value |-> value])
<1> DEFINE rec == [parent |-> parent, value |-> value]
           s == saved'
<1>1. /\ DOMAIN s = DOMAIN saved \union {id} /\ s[id] = rec
      /\ \A x \in DOMAIN saved : x # id => s[x] = saved[x]
      /\ id \in DOMAIN saved => saved[id] = rec
      /\ id \notin DOMAIN saved => DOMAIN saved = 1..id-1
      /\ parent # None => parent < id
  BY DEF ToPrimary, Map
<1>2. rec.parent = parent /\ rec.value = value
  OBVIOUS
<1> HIDE DEF rec, s
<1>3. \A x \in DOMAIN saved : x \in DOMAIN s /\ s[x] = saved[x]
  BY <1>1
<1>4. parent # None => parent \in DOMAIN saved
  <2>1. SUFFICES ASSUME parent # None PROVE parent \in DOMAIN saved
    OBVIOUS
  <2>2. CASE id \in DOMAIN saved
    BY <1>1, <1>2, <2>1, <2>2 DEF PrimaryTrue
  <2>3. CASE id \notin DOMAIN saved
    <3>1. parent \in Nat /\ parent >= 1 /\ id \in Nat /\ parent < id
      BY <1>1, <2>1 DEF Ids
    <3>2. QED
      BY <1>1, <2>3, <3>1
  <2>4. QED
    BY <2>2, <2>3
<1>5. value # None => value \in Seq(Messages)
  BY ShadowAssumption
<1>6. ASSUME NEW x \in DOMAIN s
      PROVE  /\ s[x].parent # None => s[x].parent \in DOMAIN s /\ s[x].parent < x
             /\ s[x].value # None => s[x].value \in Seq(Messages)
  <2>1. CASE x = id
    BY <1>1, <1>2, <1>4, <1>5, <2>1
  <2>2. CASE x # id
    <3>1. x \in DOMAIN saved /\ s[x] = saved[x]
      BY <1>1, <2>2
    <3>2. QED
      BY <1>3, <3>1 DEF PrimaryTrue
  <2>3. QED
    BY <2>1, <2>2
<1>7. DOMAIN s \subseteq Ids
  BY <1>1 DEF PrimaryTrue
<1>8. PrimaryTrue(s)
  BY <1>6, <1>7 DEF PrimaryTrue
<1>9. Extends(saved, s)
  BY <1>3, <1>8 DEF Extends
<1>10. QED
  BY <1>1, <1>4, <1>9 DEF Given, rec, s

\* What a step has to show, in parts.
LEMMA InvariantParts ==
    ASSUME PrimaryTrue(saved'), StoreTrue(saved', tulya'),
           IndexTrue(saved', tulya', index', known'), QueueTrue(saved', queue'),
           cli' # None => ProcessTrue(saved', tulya', cli'),
           cli' # None /\ cli'.at = "committed" => cli'.id \in DOMAIN tulya',
           ProcessesTrue(saved', tulya', orphans'),
           GoodTrue(saved', tulya', good')
    PROVE  ShadowInvariant'
  BY DEF ShadowInvariant

\* The processes under way and the queue stay right while primary and store
\* grow.
LEMMA OthersStay ==
    ASSUME ShadowInvariant, NEW s, Extends(saved, s), NEW tv, Grows(tulya, tv)
    PROVE  /\ cli # None => ProcessTrue(s, tv, cli)
           /\ cli # None /\ cli.at = "committed" => cli.id \in DOMAIN tv
           /\ ProcessesTrue(s, tv, orphans)
           /\ QueueTrue(s, queue)
           /\ IndexTrue(s, tv, index, known)
           /\ GoodTrue(s, tv, good)
<1>1. ProcessesTrue(s, tv, orphans)
  <2>1. ASSUME NEW p \in orphans PROVE ProcessTrue(s, tv, p)
    <3>1. ProcessTrue(saved, tulya, p)
      BY <2>1 DEF ShadowInvariant, ProcessesTrue
    <3>2. QED
      BY <3>1, ProcessStays
  <2>2. QED
    BY <2>1 DEF ProcessesTrue
<1>2. QED
  BY <1>1, ProcessStays, QueueStays, IndexStays, GoodStays DEF ShadowInvariant, Grows

LEMMA AputKeeps ==
    ASSUME ShadowInvariant, NEW id \in Ids, NEW parent \in Ids \union {None},
           NEW value \in Values, Aput(id, parent, value)
    PROVE  ShadowInvariant'
<1> DEFINE put == [id |-> id, parent |-> parent, value |-> value]
<1>1. ToPrimary(id, parent, value) /\ queue' = Append(queue, put)
  BY DEF Aput
<1>2. /\ tulya' = tulya /\ index' = index /\ known' = known
      /\ cli' = cli /\ orphans' = orphans /\ good' = good
  BY DEF Aput, adapter
<1>3. Given(saved', put)
  BY <1>1, SavedGiven DEF ShadowInvariant
<1>4. Extends(saved, saved') /\ PrimaryTrue(saved')
  BY <1>3 DEF Given, Extends
<1>5. StoreTrue(saved', tulya)
  BY <1>4, StoreStays DEF ShadowInvariant
<1>6. QueueTrue(saved', queue')
  <2>1. QueueTrue(saved', queue)
    BY <1>4, QueueStays DEF ShadowInvariant
  <2>2. put \in Puts /\ put.id = id /\ put.parent = parent /\ put.value = value
    BY DEF Puts
  <2>3. put.id \in DOMAIN saved' /\ saved'[put.id] = [parent |-> put.parent, value |-> put.value]
    BY <1>3 DEF Given
  <2> HIDE DEF put
  <2>4. queue \in Seq(Puts) /\ Len(queue) \in Nat
    BY <2>1, LenProperties DEF QueueTrue
  <2>5. /\ queue' \in Seq(Puts) /\ Len(queue') = Len(queue) + 1
        /\ \A i \in 1..Len(queue) : queue'[i] = queue[i]
        /\ queue'[Len(queue) + 1] = put
    BY <1>1, <2>2, <2>4, AppendProperties
  <2>6. ASSUME NEW i \in 1..Len(queue')
        PROVE  /\ queue'[i].id \in DOMAIN saved'
               /\ saved'[queue'[i].id] = [parent |-> queue'[i].parent, value |-> queue'[i].value]
    <3>1. i \in 1..Len(queue) \/ i = Len(queue) + 1
      BY <2>4, <2>5
    <3>2. QED
      BY <2>1, <2>3, <2>5, <3>1 DEF QueueTrue
  <2>7. QED
    BY <2>5, <2>6 DEF QueueTrue
<1>7. QED
  BY <1>2, <1>4, <1>5, <1>6, OthersStay, NothingChanges, InvariantParts

LEMMA PutKeeps ==
    ASSUME ShadowInvariant, NEW id \in Ids, NEW parent \in Ids \union {None},
           NEW value \in Values, Put(id, parent, value)
    PROVE  ShadowInvariant'
<1> DEFINE put == [id |-> id, parent |-> parent, value |-> value]
           p == Process(put)
           s == saved'
<1>1. ToPrimary(id, parent, value) /\ queue' = queue /\ cli' = cli /\ orphans' = orphans
  BY DEF Put
<1>2. Given(s, put) /\ AdapterTrue
  BY <1>1, SavedGiven DEF ShadowInvariant, AdapterTrue
<1>3. \/ MirrorsWithout(put) /\ tulya' = tulya
      \/ Plan(put) = "process" /\ PutAccepts(p) /\ tulya' = Stored(p) /\ Answered(p, IndexWalked(put))
      \/ /\ Plan(put) = "process" /\ Failed(IndexWalked(put))
         /\ tulya' = tulya \/ (PutAccepts(p) /\ tulya' = Stored(p))
  BY DEF Put
<1> HIDE DEF put, p, s
<1>4. Extends(saved, s) /\ PrimaryTrue(s)
  BY <1>2 DEF Given, Extends
<1>5. StoreTrue(s, tulya)
  BY <1>4, StoreStays DEF ShadowInvariant
<1>6. IndexTrue(s, tulya, IndexWalked(put), known) /\ GoodTrue(s, tulya, good)
  BY <1>2, IndexGiven
<1>7. CASE MirrorsWithout(put) /\ tulya' = tulya
  <2>1. IndexTrue(s, tulya, index', known') /\ GoodTrue(s, tulya, good')
    BY <1>2, <1>7, MirroredWithout
  <2>2. QED
    BY <1>1, <1>4, <1>5, <1>7, <2>1, OthersStay, NothingChanges, InvariantParts DEF s
<1>8. ASSUME Plan(put) = "process", PutAccepts(p), tulya' = Stored(p)
      PROVE  /\ StoreTrue(s, tulya') /\ Grows(tulya, tulya')
             /\ p.id \in DOMAIN tulya' /\ p.value = s[p.id].value
             /\ IndexTrue(s, tulya', IndexWalked(put), known) /\ GoodTrue(s, tulya', good)
  <2>1. ProcessTrue(s, tulya, p)
    BY <1>2, <1>8, ProcessMade DEF p
  <2>2. tulya' = StoredIn(tulya, p) /\ p.id \notin DOMAIN tulya
    BY <1>8, StoredIs DEF PutAccepts
  <2>3. StoreTrue(s, tulya') /\ Grows(tulya, tulya') /\ p.id \in DOMAIN tulya'
    BY <1>5, <2>1, <2>2, CommitAdds
  <2>4. Extends(s, s)
    BY <1>4 DEF Extends
  <2>5. IndexTrue(s, tulya', IndexWalked(put), known) /\ GoodTrue(s, tulya', good)
    BY <1>6, <2>3, <2>4, IndexStays, GoodStays
  <2>6. p.value = s[p.id].value
    BY <2>1 DEF ProcessTrue
  <2>7. QED
    BY <2>3, <2>5, <2>6
<1>9. CASE Plan(put) = "process" /\ PutAccepts(p) /\ tulya' = Stored(p)
           /\ Answered(p, IndexWalked(put))
  <2>1. IndexTrue(s, tulya', index', known') /\ GoodTrue(s, tulya', good')
    BY <1>4, <1>8, <1>9, AnsweredTrue
  <2>2. QED
    BY <1>1, <1>4, <1>8, <1>9, <2>1, OthersStay, InvariantParts DEF s
<1>10. CASE Plan(put) = "process" /\ PutAccepts(p) /\ tulya' = Stored(p)
            /\ Failed(IndexWalked(put))
  <2>1. index' = IndexWalked(put) /\ known' = known /\ good' = good
    BY <1>10 DEF Failed
  <2>2. QED
    BY <1>1, <1>4, <1>8, <1>10, <2>1, OthersStay, InvariantParts DEF s
<1>11. CASE Plan(put) = "process" /\ Failed(IndexWalked(put)) /\ tulya' = tulya
  <2>1. index' = IndexWalked(put) /\ known' = known /\ good' = good
    BY <1>11 DEF Failed
  <2>2. QED
    BY <1>1, <1>4, <1>5, <1>6, <1>11, <2>1, OthersStay, NothingChanges, InvariantParts DEF s
<1>12. QED
  BY <1>3, <1>7, <1>9, <1>10, <1>11

LEMMA BeginKeeps ==
    ASSUME ShadowInvariant, Begin
    PROVE  ShadowInvariant'
<1> DEFINE put == Head(queue)
<1>1. /\ queue # <<>> /\ cli = None /\ queue' = Tail(queue)
      /\ saved' = saved /\ tulya' = tulya /\ orphans' = orphans
  BY DEF Begin, primary
<1>2. \/ /\ Plan(put) = "process" /\ cli' = Process(put) /\ index' = IndexWalked(put)
         /\ known' = known /\ good' = good
      \/ MirrorsWithout(put) /\ cli' = cli
  BY DEF Begin
<1>3. queue \in Seq(Puts) /\ Len(queue) \in Nat /\ Len(queue) >= 1
  <2>1. queue \in Seq(Puts)
    BY DEF ShadowInvariant, QueueTrue
  <2>2. QED
    BY <1>1, <2>1, LenProperties, EmptySeq
<1>4. put = queue[1] /\ put \in Puts
  BY <1>3, HeadTailProperties, ElementOfSeq
<1>5. Given(saved, put) /\ AdapterTrue
  <2>1. put.id \in DOMAIN saved /\ saved[put.id] = [parent |-> put.parent, value |-> put.value]
    BY <1>3, <1>4 DEF ShadowInvariant, QueueTrue
  <2> HIDE DEF put
  <2>2. put.parent # None => put.parent \in DOMAIN saved
    BY <2>1 DEF ShadowInvariant, PrimaryTrue
  <2>3. QED
    BY <2>1, <2>2, NothingChanges DEF Given, AdapterTrue, ShadowInvariant
<1>6. QueueTrue(saved, queue')
  <2>1. /\ queue' \in Seq(Puts) /\ Len(queue') = Len(queue) - 1
        /\ \A i \in 1..Len(queue') : queue'[i] = queue[i + 1]
    BY <1>1, <1>3, HeadTailProperties
  <2>2. \A i \in 1..Len(queue') : i + 1 \in 1..Len(queue)
    BY <1>3, <2>1
  <2>3. QED
    BY <2>1, <2>2 DEF ShadowInvariant, QueueTrue
<1> HIDE DEF put
<1>7. CASE /\ Plan(put) = "process" /\ cli' = Process(put) /\ index' = IndexWalked(put)
           /\ known' = known /\ good' = good
  <2>1. ProcessTrue(saved, tulya, Process(put))
    BY <1>5, <1>7, ProcessMade
  <2>2. Process(put).at = "running"
    BY DEF Process
  <2>3. IndexTrue(saved, tulya, IndexWalked(put), known)
    BY <1>5, IndexGiven
  <2>4. cli'.at # "committed"
    BY <1>7, <2>2
  <2>5. QED
    BY <1>1, <1>6, <1>7, <2>1, <2>3, <2>4, InvariantParts DEF ShadowInvariant
<1>8. CASE MirrorsWithout(put) /\ cli' = cli
  <2>1. IndexTrue(saved, tulya, index', known') /\ GoodTrue(saved, tulya, good')
    BY <1>5, <1>8, MirroredWithout
  <2>2. QED
    BY <1>1, <1>6, <1>8, <2>1, InvariantParts DEF ShadowInvariant
<1>9. QED
  BY <1>2, <1>7, <1>8

LEMMA RunsKeeps ==
    ASSUME ShadowInvariant, Runs
    PROVE  ShadowInvariant'
<1>1. /\ cli # None /\ saved' = saved /\ index' = index /\ known' = known
      /\ queue' = queue /\ orphans' = orphans /\ good' = good
  BY DEF Runs, primary, adapter
<1>2. ProcessTrue(saved, tulya, cli)
  BY <1>1 DEF ShadowInvariant
<1>3. Extends(saved, saved)
  BY NothingChanges DEF ShadowInvariant
<1>4. ASSUME NEW w, cli' = [cli EXCEPT !.at = w], NEW tv, ProcessTrue(saved, tv, cli)
      PROVE  ProcessTrue(saved, tv, cli') /\ cli'.id = cli.id
  <2>1. cli = [id |-> cli.id, parent |-> cli.parent, no |-> cli.no,
               delta |-> cli.delta, value |-> cli.value, at |-> cli.at]
    BY <1>4 DEF ProcessTrue
  <2>2. cli' = [id |-> cli.id, parent |-> cli.parent, no |-> cli.no,
                delta |-> cli.delta, value |-> cli.value, at |-> w]
    BY <1>4, <2>1
  <2>3. /\ cli'.id = cli.id /\ cli'.parent = cli.parent /\ cli'.delta = cli.delta
        /\ cli'.value = cli.value
        /\ cli' = [id |-> cli'.id, parent |-> cli'.parent, no |-> cli'.no,
                   delta |-> cli'.delta, value |-> cli'.value, at |-> cli'.at]
    BY <2>2
  <2>4. QED
    BY <1>4, <2>3 DEF ProcessTrue
<1>5. CASE PutAccepts(cli) /\ tulya' = Stored(cli) /\ cli' = [cli EXCEPT !.at = "committed"]
  <2>1. tulya' = StoredIn(tulya, cli) /\ cli.id \notin DOMAIN tulya
    BY <1>5, StoredIs DEF PutAccepts
  <2>2. StoreTrue(saved, tulya') /\ Grows(tulya, tulya') /\ cli.id \in DOMAIN tulya'
    BY <1>2, <2>1, CommitAdds DEF ShadowInvariant
  <2>3. ProcessTrue(saved, tulya', cli') /\ cli'.id \in DOMAIN tulya'
    BY <1>1, <1>3, <1>4, <1>5, <2>2, OthersStay
  <2>4. QED
    BY <1>1, <1>3, <2>2, <2>3, OthersStay, InvariantParts DEF ShadowInvariant
<1>6. CASE tulya' = tulya /\ cli' = [cli EXCEPT !.at = "refused"]
  <2>1. ProcessTrue(saved, tulya, cli')
    BY <1>2, <1>4, <1>6
  <2>2. cli'.at = "committed" => cli.at = "committed" /\ cli'.id = cli.id
    BY <1>6
  <2>3. QED
    BY <1>1, <1>6, <2>1, <2>2, InvariantParts DEF ShadowInvariant
<1>7. QED
  BY <1>5, <1>6 DEF Runs

LEMMA EndKeeps ==
    ASSUME ShadowInvariant, End
    PROVE  ShadowInvariant'
<1>1. /\ cli # None /\ cli' = None /\ saved' = saved /\ tulya' = tulya
      /\ queue' = queue /\ orphans' = orphans
  BY DEF End, primary
<1>2. CASE cli.at = "committed" /\ Answered(cli, index)
  <2>1. ProcessTrue(saved, tulya, cli) /\ cli.id \in DOMAIN tulya
    BY <1>1, <1>2 DEF ShadowInvariant
  <2>2. cli.value = saved[cli.id].value
    BY <2>1 DEF ProcessTrue
  <2>3. IndexTrue(saved, tulya, index', known') /\ GoodTrue(saved, tulya, good')
    BY <1>2, <2>1, <2>2, AnsweredTrue DEF ShadowInvariant
  <2>4. QED
    BY <1>1, <2>3, InvariantParts DEF ShadowInvariant
<1>3. CASE Failed(index)
  BY <1>1, <1>3, InvariantParts DEF ShadowInvariant, Failed
<1>4. QED
  BY <1>2, <1>3 DEF End

\* What is left behind, beside what was, is as processes are.
LEMMA OrphanedTrue ==
    ASSUME ShadowInvariant, NEW ps, ps \subseteq orphans \union Orphaned
    PROVE  ProcessesTrue(saved, tulya, ps)
  BY DEF ShadowInvariant, ProcessesTrue, Orphaned

\* A process that is given up keeps running, or is gone.
LEMMA GivenUpKeeps ==
    ASSUME ShadowInvariant, Loses \/ Cancel
    PROVE  ShadowInvariant'
<1>1. /\ cli' = None /\ saved' = saved /\ tulya' = tulya /\ queue' = queue
      /\ index' = index /\ known' = known /\ good' = good
  BY DEF Loses, Cancel, primary, adapter, Failed
<1>2. orphans' \subseteq orphans \union Orphaned
  BY DEF Loses, Cancel
<1>3. QED
  BY <1>1, <1>2, OrphanedTrue, InvariantParts DEF ShadowInvariant

\* A put that no longer waits leaves the others waiting.
LEMMA CancelWaitingKeeps ==
    ASSUME ShadowInvariant, CancelWaiting
    PROVE  ShadowInvariant'
<1>1. /\ cli' = cli /\ saved' = saved /\ tulya' = tulya /\ orphans' = orphans
      /\ index' = index /\ known' = known /\ good' = good
  BY DEF CancelWaiting, primary, adapter
<1>2. PICK i \in 1 .. Len(queue) :
        queue' = [j \in 1 .. Len(queue) - 1 |-> IF j < i THEN queue[j] ELSE queue[j + 1]]
  BY DEF CancelWaiting
<1>3. /\ queue \in Seq(Puts) /\ Len(queue) \in Nat
      /\ \A j \in 1 .. Len(queue) : queue[j] \in Puts
  <2>1. queue \in Seq(Puts)
    BY DEF ShadowInvariant, QueueTrue
  <2>2. QED
    BY <2>1, LenProperties, ElementOfSeq
<1>4. \A j \in 1 .. Len(queue) - 1 : j \in 1 .. Len(queue) /\ j + 1 \in 1 .. Len(queue)
  BY <1>3
<1>5. queue' \in [1 .. Len(queue) - 1 -> Puts] /\ Len(queue) - 1 \in Nat
  BY <1>2, <1>3, <1>4
<1>6. queue' \in Seq(Puts) /\ Len(queue') = Len(queue) - 1
  BY <1>5
<1>7. ASSUME NEW j \in 1 .. Len(queue') PROVE \E k \in 1 .. Len(queue) : queue'[j] = queue[k]
  BY <1>2, <1>4, <1>6
<1>8. QueueTrue(saved, queue')
  BY <1>6, <1>7 DEF ShadowInvariant, QueueTrue
<1>9. QED
  BY <1>1, <1>8, InvariantParts DEF ShadowInvariant

LEMMA OrphanRunsKeeps ==
    ASSUME ShadowInvariant, NEW p \in orphans, OrphanRuns(p)
    PROVE  ShadowInvariant'
<1>1. /\ orphans' \subseteq orphans /\ saved' = saved /\ index' = index /\ known' = known
      /\ queue' = queue /\ cli' = cli /\ good' = good
  BY DEF OrphanRuns, primary, adapter
<1>2. Extends(saved, saved) /\ Grows(tulya, tulya)
  BY NothingChanges DEF ShadowInvariant
<1>3. CASE PutAccepts(p) /\ tulya' = Stored(p)
  <2>1. tulya' = StoredIn(tulya, p) /\ p.id \notin DOMAIN tulya
    BY <1>3, StoredIs DEF PutAccepts
  <2>2. ProcessTrue(saved, tulya, p)
    BY DEF ShadowInvariant, ProcessesTrue
  <2>3. StoreTrue(saved, tulya') /\ Grows(tulya, tulya')
    BY <2>1, <2>2, CommitAdds DEF ShadowInvariant
  <2>4. ProcessesTrue(saved, tulya', orphans)
    BY <1>2, <2>3, OthersStay
  <2>5. ProcessesTrue(saved, tulya', orphans')
    BY <1>1, <2>4 DEF ProcessesTrue
  <2>6. QED
    BY <1>1, <1>2, <2>3, <2>5, OthersStay, InvariantParts DEF ShadowInvariant
<1>4. CASE tulya' = tulya
  <2>1. ProcessesTrue(saved, tulya, orphans')
    BY <1>1 DEF ShadowInvariant, ProcessesTrue
  <2>2. QED
    BY <1>1, <1>4, <2>1, InvariantParts DEF ShadowInvariant
<1>5. QED
  BY <1>3, <1>4 DEF OrphanRuns

LEMMA RestartKeeps ==
    ASSUME ShadowInvariant, Restart
    PROVE  ShadowInvariant'
<1>1. /\ cli' = None /\ saved' = saved /\ tulya' = tulya /\ queue' = <<>> /\ good' = good
      /\ orphans' \subseteq orphans \union Orphaned
  BY DEF Restart, primary
<1>2. /\ DOMAIN index' = DOMAIN tulya /\ \A t \in DOMAIN tulya : index'[t] = t
      /\ DOMAIN known' = DOMAIN tulya /\ \A t \in DOMAIN tulya : known'[t] = tulya[t].value
  BY DEF Restart
<1>3. \A t \in DOMAIN tulya : t \in DOMAIN saved
  BY DEF ShadowInvariant, StoreTrue
<1>4. \A t \in DOMAIN saved : t \in LineageOf(saved, t)
  BY LineageFacts DEF ShadowInvariant
<1>5. IndexTrue(saved, tulya, index', known')
  BY <1>2, <1>3, <1>4 DEF IndexTrue
<1>6. QueueTrue(saved, queue')
  <2>1. queue' \in Seq(Puts) /\ Len(queue') = 0
    BY <1>1, EmptySeq
  <2>2. QED
    BY <2>1 DEF QueueTrue
<1>7. QED
  BY <1>1, <1>5, <1>6, OrphanedTrue, InvariantParts DEF ShadowInvariant

\* The primary may forget a checkpoint; the mirror keeps it.
LEMMA QuietKeeps ==
    ASSUME ShadowInvariant, UNCHANGED vars \/ \E id \in Ids : Prune(id)
    PROVE  ShadowInvariant'
<1>1. /\ cli' = cli /\ saved' = saved /\ tulya' = tulya /\ queue' = queue
      /\ index' = index /\ known' = known /\ good' = good /\ orphans' = orphans
  BY DEF vars, Prune, primary, adapter
<1>2. QED
  BY <1>1, InvariantParts DEF ShadowInvariant

LEMMA InitTrue ==
    ASSUME Init
    PROVE  ShadowInvariant
<1>1. DOMAIN saved = {} /\ DOMAIN tulya = {} /\ DOMAIN index = {} /\ DOMAIN known = {}
  BY DEF Init
<1>2. queue \in Seq(Puts) /\ Len(queue) = 0
  BY EmptySeq DEF Init
<1>3. PrimaryTrue(saved) /\ StoreTrue(saved, tulya) /\ IndexTrue(saved, tulya, index, known)
  BY <1>1 DEF PrimaryTrue, StoreTrue, IndexTrue
<1>4. QueueTrue(saved, queue)
  BY <1>2 DEF QueueTrue
<1>5. GoodTrue(saved, tulya, good)
  BY DEF Init, GoodTrue
<1>6. QED
  BY <1>3, <1>4, <1>5 DEF Init, ShadowInvariant, ProcessesTrue

-----------------------------------------------------------------------------
(* Theorems *)

\* Whatever is lost, cancelled, refused, pruned or restarted, the dictionaries,
\* the processes under way and the store stand to the primary as
\* ShadowInvariant says.
THEOREM ShadowInvariantHolds == Spec => []ShadowInvariant
<1>1. Init => ShadowInvariant
  BY InitTrue
<1>2. ShadowInvariant /\ [Next]_vars => ShadowInvariant'
  BY AputKeeps, PutKeeps, BeginKeeps, RunsKeeps, EndKeeps, GivenUpKeeps, CancelWaitingKeeps,
     OrphanRunsKeeps, RestartKeeps, QuietKeeps DEF Next
<1>3. QED
  BY <1>1, <1>2, PTL DEF Spec

\* A mirrored checkpoint reads as the primary was given it, although only deltas
\* are written to parents found through the index.
THEOREM Mirrored == Spec => []MirrorsPrimary
<1>1. ShadowInvariant => MirrorsPrimary
  BY DEF ShadowInvariant, StoreTrue, MirrorsPrimary
<1>2. QED
  BY <1>1, ShadowInvariantHolds, PTL

\* A mirrored checkpoint hangs below an ancestor of its own or below nothing:
\* no failed mirror, pruned ancestor or inherited entry moves it.
THEOREM BranchKept == Spec => []LineageKept
<1>1. ASSUME ShadowInvariant PROVE LineageKept
  BY <1>1, LineageIs DEF ShadowInvariant, StoreTrue, LineageKept
<1>2. QED
  BY <1>1, ShadowInvariantHolds, PTL

\* A put that reported success is read back from the store, under its own id or
\* as an ancestor with the same messages.
THEOREM SuccessDurable == Spec => []SuccessIsDurable
<1>1. ASSUME ShadowInvariant PROVE SuccessIsDurable
  BY <1>1, LineageIs DEF ShadowInvariant, GoodTrue, SuccessIsDurable
<1>2. QED
  BY <1>1, ShadowInvariantHolds, PTL

\* The index names what is stored, and what is remembered of it is what is
\* stored, after lost answers, late commits and restarts.
THEOREM IndexRight == Spec => []IndexIsTrue
<1>1. ShadowInvariant => IndexIsTrue
  BY DEF ShadowInvariant, IndexTrue, IndexIsTrue
<1>2. QED
  BY <1>1, ShadowInvariantHolds, PTL
=============================================================================
