----------------------------- MODULE ShadowSaver -----------------------------
(***************************************************************************)
(* TulyaShadowSaver: a LangGraph saver that writes to the primary saver    *)
(* first and then mirrors one append-only channel into a Tulya store, one  *)
(* command line process per mirrored checkpoint (tulya_shadow.py).         *)
(*                                                                         *)
(* An asynchronous put waits for the asyncio lock and holds it while its   *)
(* process runs.  A synchronous put runs in one step: on another thread    *)
(* it waits for the lock, on the event loop's own thread it re-enters it.  *)
(* A process may die, or commit and its answer be lost.  A put may be      *)
(* cancelled while it waits, or later, and then leaves its process behind. *)
(*                                                                         *)
(* A strict adapter (fail_open off) raises what a lenient one swallows;    *)
(* neither undoes anything.                                                *)
(*                                                                         *)
(* One thread and namespace: keys of others never meet.  Failure list and  *)
(* latency samples are reports nothing reads back, and are left out.       *)
(***************************************************************************)
EXTENDS Naturals, Sequences, FiniteSets

CONSTANTS
    MaxIds,         \* checkpoints saved; fresh ids are taken in order
    Messages,
    Values,         \* channel values: sequences of messages, or None (no channel)
    None,
    MaxEvents       \* retries, losses, cancellations, restarts and prunes, in all

Ids == 1..MaxIds

ASSUME ShadowAssumption ==
    /\ None \notin Ids
    /\ \A v \in Values : v # None => v \in Seq(Messages)
    /\ MaxIds \in Nat /\ MaxEvents \in Nat

VARIABLES
    saved,          \* id -> [parent, value]: what the primary was given
    pruned,         \* ids the primary deleted
    tulya,          \* id -> [parent, no, value]: the Tulya store
    index,          \* _primary_to_tulya
    known,          \* _messages_by_tulya_id
    nextNo,         \* _next_checkpoint_no
    queue,          \* puts that wait for the asyncio lock, in order
    cli,            \* the process the lock's holder awaits, or None
    orphans,        \* processes whose puts are gone
    good,           \* ids whose mirror reported success
    events          \* of MaxEvents

primary == <<saved, pruned>>
adapter == <<index, known, nextNo>>
vars == <<primary, tulya, adapter, queue, cli, orphans, good, events>>

Map(id, to, f) == [x \in DOMAIN f \union {id} |-> IF x = id THEN to ELSE f[x]]

IsPrefix(s, t) == Len(s) <= Len(t) /\ SubSeq(t, 1, Len(s)) = s

Spend(n) == events + n <= MaxEvents /\ events' = events + n

Event == Spend(1)

-----------------------------------------------------------------------------
(* The command line process: tulya-checkpoint put *)

PutAccepts(p) == p.id \notin DOMAIN tulya /\ (p.parent # None => p.parent \in DOMAIN tulya)

Stored(p) ==
    Map(p.id, [parent |-> p.parent, no |-> p.no,
               value |-> (IF p.parent = None THEN <<>> ELSE tulya[p.parent].value) \o p.delta],
        tulya)

\* A process that finds another one in the store is refused its lock.
Refusable(p, others) == ~PutAccepts(p) \/ \E q \in others : q # None /\ q.at = "running"

-----------------------------------------------------------------------------
(* Deciding what to mirror: _mirror_put up to the process *)

\* get_tuple on a checkpoint the primary no longer has ends the walk.
ParentOf(id) == IF id \in pruned THEN None ELSE saved[id].parent

\* The checkpoints _resolve_parent_tulya looks at: from id up, to the first
\* that has an entry.
Reached(id) ==
    LET walk[x \in DOMAIN saved] ==
            {x} \union (IF x \in DOMAIN index \/ ParentOf(x) = None THEN {} ELSE walk[ParentOf(x)])
    IN  IF id = None THEN {} ELSE walk[id]

\* visited
Walked(id) == Reached(id) \ DOMAIN index

\* Mutant: the checkpoint mirrored last stands in for an unknown parent.
ResolveParentLast(id) ==
    IF id = None \/ tulya = <<>> THEN None
    ELSE IF id \in DOMAIN index THEN index[id]
    ELSE CHOOSE t \in DOMAIN tulya : \A u \in DOMAIN tulya : tulya[u].no <= tulya[t].no

ResolveParent(id) ==
    LET entries == Reached(id) \intersect DOMAIN index
    IN  IF entries = {} THEN None ELSE index[CHOOSE x \in entries : TRUE]

\* What was walked is remembered, whatever becomes of the put.
IndexWalked(put) ==
    [id \in Walked(put.parent) \union DOMAIN index |->
        IF id \in DOMAIN index THEN index[id] ELSE ResolveParent(put.parent)]

Prior(put) ==
    LET t == ResolveParent(put.parent)
    IN  IF t # None /\ t \in DOMAIN known THEN known[t] ELSE <<>>

Existing(put) ==
    LET idx == IndexWalked(put)
    IN  /\ put.id \in DOMAIN idx /\ idx[put.id] # None
        /\ idx[put.id] \in DOMAIN known /\ known[idx[put.id]] = put.value

\* Mutant: a value that does not continue the parent's is taken for no delta.
PlanLenient(put) ==
    IF put.value = None THEN "inherit"
    ELSE IF Existing(put) THEN "existing"
    ELSE IF ~(IsPrefix(Prior(put), put.value) /\ Prior(put) # put.value) THEN "inherit"
    ELSE "process"

Plan(put) ==
    IF put.value = None THEN "inherit"
    ELSE IF Existing(put) THEN "existing"
    ELSE IF ~IsPrefix(Prior(put), put.value) THEN "refuse"
    ELSE IF put.value = Prior(put) THEN "inherit"
    ELSE "process"

\* Mutant: the process is handed the whole value.
ProcessOfAll(put) ==
    [id |-> put.id, parent |-> ResolveParent(put.parent), no |-> nextNo,
     delta |-> put.value, value |-> put.value, at |-> "running"]

Process(put) ==
    [id |-> put.id, parent |-> ResolveParent(put.parent), no |-> nextNo,
     delta |-> SubSeq(put.value, Len(Prior(put)) + 1, Len(put.value)),
     value |-> put.value, at |-> "running"]

\* The puts that need no process, and the index they leave.
MirrorsWithout(put) ==
    /\ Plan(put) # "process"
    /\ index' = IF Plan(put) = "inherit"
                THEN Map(put.id, ResolveParent(put.parent), IndexWalked(put))
                ELSE IndexWalked(put)
    /\ good' = IF Plan(put) = "refuse" THEN good ELSE good \union {put.id}
    /\ UNCHANGED <<known, nextNo>>

\* After a process that answered; idx is the index it was started with.
Answered(p, idx) ==
    /\ index' = Map(p.id, p.id, idx)
    /\ known' = Map(p.id, p.value, known)
    /\ nextNo' = nextNo + 1
    /\ good' = good \union {p.id}

Failed(idx) ==
    /\ index' = idx
    /\ UNCHANGED <<good, known, nextNo>>

-----------------------------------------------------------------------------
(* Puts *)

\* primary.put of a fresh checkpoint, or of the same one again.
ToPrimary(id, parent, value) ==
    LET put == [parent |-> parent, value |-> value] IN
    /\ parent # None => parent < id /\ parent \notin pruned
    /\ IF id \in DOMAIN saved THEN saved[id] = put ELSE DOMAIN saved = 1..id-1
    /\ saved' = Map(id, put, saved)
    /\ pruned' = pruned \ {id}

\* A put again is an event.
Again(id) == IF id \in DOMAIN saved THEN 1 ELSE 0

Aput(id, parent, value) ==
    /\ ToPrimary(id, parent, value) /\ Spend(Again(id))
    /\ queue' = Append(queue, [id |-> id, parent |-> parent, value |-> value])
    /\ UNCHANGED <<tulya, adapter, cli, orphans, good>>

\* The whole synchronous put, with the process it runs to its end: it answers,
\* is refused, or is lost before or after it committed.
Put(id, parent, value) ==
    LET put == [id |-> id, parent |-> parent, value |-> value]
        p == Process(put)
    IN  /\ ToPrimary(id, parent, value)
        /\ \/ MirrorsWithout(put) /\ UNCHANGED tulya /\ Spend(Again(id))
           \/ /\ Plan(put) = "process" /\ PutAccepts(p)
              /\ tulya' = Stored(p)
              /\ Answered(p, IndexWalked(put))
              /\ Spend(Again(id))
           \/ /\ Plan(put) = "process" /\ Refusable(p, orphans \union {cli})
              /\ Failed(IndexWalked(put))
              /\ UNCHANGED tulya
              /\ Spend(Again(id))
           \/ /\ Plan(put) = "process" /\ Failed(IndexWalked(put))
              /\ UNCHANGED tulya \/ (PutAccepts(p) /\ tulya' = Stored(p))
              /\ Spend(Again(id) + 1)
        /\ UNCHANGED <<queue, cli, orphans>>

-----------------------------------------------------------------------------
(* The asynchronous mirror *)

Begin ==
    /\ queue # <<>> /\ cli = None
    /\ queue' = Tail(queue)
    /\ IF Plan(Head(queue)) = "process"
       THEN cli' = Process(Head(queue)) /\ index' = IndexWalked(Head(queue))
            /\ UNCHANGED <<known, nextNo, good>>
       ELSE MirrorsWithout(Head(queue)) /\ UNCHANGED cli
    /\ UNCHANGED <<primary, tulya, orphans, events>>

Runs ==
    /\ cli # None /\ cli.at = "running"
    /\ \/ /\ PutAccepts(cli)
          /\ tulya' = Stored(cli)
          /\ cli' = [cli EXCEPT !.at = "committed"]
       \/ /\ Refusable(cli, orphans)
          /\ cli' = [cli EXCEPT !.at = "refused"]
          /\ UNCHANGED tulya
    /\ UNCHANGED <<primary, adapter, queue, orphans, good, events>>

\* Mutant: a refusal leaves the lock held.
EndOnlyGood ==
    /\ cli # None /\ cli.at = "committed"
    /\ cli' = None
    /\ Answered(cli, index)
    /\ UNCHANGED <<primary, tulya, queue, orphans, events>>

End ==
    /\ cli # None /\ cli.at # "running"
    /\ cli' = None
    /\ IF cli.at = "committed" THEN Answered(cli, index) ELSE Failed(index)
    /\ UNCHANGED <<primary, tulya, queue, orphans, events>>

\* Mutant: the exit status of the process is not looked at.
LosesUnread ==
    /\ cli # None
    /\ Event
    /\ cli' = None
    /\ Answered(cli, index)
    /\ UNCHANGED <<primary, tulya, queue, orphans>>

\* The process dies, or answers what cannot be read.
Loses ==
    /\ cli # None
    /\ Event
    /\ cli' = None
    /\ Failed(index)
    /\ UNCHANGED <<primary, tulya, queue, orphans>>

\* What is left behind when nobody awaits the process any more.
Orphaned == IF cli # None /\ cli.at = "running" THEN {cli} ELSE {}

\* CancelledError is no Exception: nothing is recorded, the process goes on.
Cancel ==
    /\ cli # None
    /\ Event
    /\ cli' = None
    /\ orphans' = orphans \union Orphaned
    /\ UNCHANGED <<primary, tulya, adapter, queue, good>>

\* A put that still waits for the lock has reached the primary alone.
CancelWaiting ==
    \E i \in 1 .. Len(queue) :
        /\ Event
        /\ queue' = [j \in 1 .. Len(queue) - 1 |-> IF j < i THEN queue[j] ELSE queue[j + 1]]
        /\ UNCHANGED <<primary, tulya, adapter, cli, orphans, good>>

OrphanRuns(p) ==
    /\ orphans' = orphans \ {p}
    /\ \/ PutAccepts(p) /\ tulya' = Stored(p)
       \/ Refusable(p, orphans' \union {cli}) /\ UNCHANGED tulya
    /\ UNCHANGED <<primary, adapter, queue, cli, good, events>>

-----------------------------------------------------------------------------
(* Around the adapter *)

\* __init__ and _restore_shadow_index: an entry for what the store holds.
Restart ==
    /\ Event
    /\ orphans' = orphans \union Orphaned
    /\ queue' = <<>> /\ cli' = None
    /\ nextNo' = Cardinality(DOMAIN tulya)
    /\ index' = [t \in DOMAIN tulya |-> t]
    /\ known' = [t \in DOMAIN tulya |-> tulya[t].value]
    /\ UNCHANGED <<primary, tulya, good>>

\* delete_thread, prune: the primary alone.
Prune(id) ==
    /\ id \in DOMAIN saved \ pruned
    /\ Event
    /\ pruned' = pruned \union {id}
    /\ UNCHANGED <<saved, tulya, adapter, queue, cli, orphans, good>>

-----------------------------------------------------------------------------
Init ==
    /\ saved = <<>> /\ pruned = {} /\ tulya = <<>>
    /\ index = <<>> /\ known = <<>> /\ nextNo = 0
    /\ queue = <<>> /\ cli = None /\ orphans = {}
    /\ good = {}
    /\ events = 0

Next ==
    \/ \E id \in Ids, parent \in Ids \union {None}, value \in Values :
           \/ Aput(id, parent, value)
           \/ Put(id, parent, value)
    \/ Begin \/ Runs \/ End \/ Loses \/ Cancel \/ CancelWaiting
    \/ \E p \in orphans : OrphanRuns(p)
    \/ Restart
    \/ \E id \in Ids : Prune(id)

\* The event loop wakes the first waiter of the lock, and a process ends.
Fairness == WF_vars(Begin) /\ WF_vars(Runs) /\ WF_vars(End)

Spec == Init /\ [][Next]_vars /\ Fairness

-----------------------------------------------------------------------------
(* Properties *)

\* A checkpoint and those above it in the primary.
Lineage(id) ==
    LET up[x \in DOMAIN saved] ==
            {x} \union (IF saved[x].parent = None THEN {} ELSE up[saved[x].parent])
    IN  up[id]

\* Whatever the store holds for a checkpoint reads as the primary was given
\* it, although only deltas are written, to parents found through the index,
\* with answers lost, puts cancelled and the adapter restarted in between.
MirrorsPrimary == \A t \in DOMAIN tulya : tulya[t].value = saved[t].value

\* A mirrored checkpoint hangs below an ancestor it has in the primary, or
\* below nothing: checkpoints without a delta, failed mirrors and pruned
\* ancestors never move it to another branch (_resolve_parent_tulya).
LineageKept ==
    \A t \in DOMAIN tulya : tulya[t].parent # None => tulya[t].parent \in Lineage(t) \ {t}

\* A put whose mirror reported success is read back from the store, under its
\* own id or as the ancestor that already holds the same messages; a restart
\* and a primary that prunes do not change that.
SuccessIsDurable ==
    \A id \in good :
        saved[id].value \in {None, <<>>}
        \/ \E t \in DOMAIN tulya \intersect Lineage(id) : tulya[t].value = saved[id].value

\* Deltas are computed against what the store holds: every entry of the index
\* names a stored checkpoint, and the messages remembered for it are the ones
\* stored (the two dictionaries after lost answers and late commits).
IndexIsTrue ==
    /\ \A t \in DOMAIN known : t \in DOMAIN tulya /\ known[t] = tulya[t].value
    /\ \A id \in DOMAIN index : index[id] # None => index[id] \in DOMAIN known

\* An asynchronous put that reached the primary always gets the lock and ends,
\* unless it is cancelled or the adapter dies: no refusal, loss or cancelled
\* neighbour leaves the lock held.
EveryPutEnds == \A id \in Ids : (\E i \in DOMAIN queue : queue[i].id = id) ~>
                    (cli = None /\ \A i \in DOMAIN queue : queue[i].id # id)
=============================================================================
