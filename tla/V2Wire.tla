------------------------------- MODULE V2Wire -------------------------------
(***************************************************************************)
(* The v2 wire formats: node, root, version and checkpoint records, the    *)
(* arena image, the sealed snapshot, the commit with its inner WAL         *)
(* transaction, the hot frame around it, and the scanner that recovers a   *)
(* log (format_v2, publication_v2, image_v2, snapshot_v2, transaction_v2,  *)
(* commit_v2, hot_frame_v2, recovery_v2, backend_v2).                      *)
(*                                                                         *)
(* An artifact is a sequence of words, and a word a record of one field    *)
(* that names its kind.  A field that a torn write can cut in a way the    *)
(* scanner sees (magic, commit length, commit digest) is two words; other  *)
(* fields, identifiers and payload bytes are one word.  Lengths count      *)
(* words.  Constant fields (schemas, record widths) are left out.          *)
(***************************************************************************)
EXTENDS V2Backend

CONSTANT Radix      \* of the two words of a commit length, low word first

-----------------------------------------------------------------------------
(* Words *)

Num(n) == [num |-> n]

Text(x) == [text |-> x]

Magic(name) == <<[magic |-> <<name, 1>>], [magic |-> <<name, 2>>]>>

HasMagic(w, name) == IsPrefix(Magic(name), w)

Digest(name, prefix, body) == [digest |-> <<name, prefix, body>>]

Zeros(n) == [i \in 1 .. n |-> Num(0)]

AllZero(w) == \A i \in DOMAIN w : w[i] = Num(0)

Ok(x) == [ok |-> TRUE, item |-> x]

\* x, if the checks of a decoder hold.
Given(checks, x) == IF checks THEN Ok(x) ELSE Refused

\* Ids and version numbers of this model start at 1, on the wire at 0.
Wired(id) == Num(id - 1)

WiredVersion(v) == IF v = 0 THEN Num(NoneVersion) ELSE Num(v - 1)

VersionAt(word) == IF word.num = NoneVersion THEN 0 ELSE word.num + 1

-----------------------------------------------------------------------------
(* Tables *)

Concatenated(seqs) == FoldLeft(LAMBDA all, s : all \o s, <<>>, seqs)

\* n records of one width, after the first at words of w.
Table(w, at, n, width, Read(_, _)) ==
    LET Record(i) == Read(SubSeq(w, at + (i - 1) * width + 1, at + i * width), i)
    IN  IF at + n * width <= Len(w) /\ \A i \in 1 .. n : Record(i).ok
        THEN Ok([i \in 1 .. n |-> Record(i).item]) ELSE Refused

\* The length of the record after at words is its third word.
FramedRecordLen(w, at) ==
    IF at + 3 > Len(w) THEN Refused ELSE Given(w[at + 3].num > 0, w[at + 3].num)

NextFramed(w, acc, Read(_)) ==
    Then(FramedRecordLen(w, acc.at), LAMBDA len :
        IF acc.at + len.item > Len(w) THEN Refused
        ELSE Then(Read(SubSeq(w, acc.at + 1, acc.at + len.item)), LAMBDA r :
                 [ok |-> TRUE, at |-> acc.at + len.item, items |-> Append(acc.items, r.item)]))

Framed(w, at, n, Read(_)) ==
    FoldLeft(LAMBDA acc, i : Then(acc, LAMBDA a : NextFramed(w, a, Read)),
             [ok |-> TRUE, at |-> at, items |-> <<>>], [i \in 1 .. n |-> i])

\* Records up to the end of w.
FramedToEnd(w, at, Read(_)) ==
    FoldLeft(LAMBDA acc, i :
                 Then(acc, LAMBDA a : IF a.at = Len(w) THEN a ELSE NextFramed(w, a, Read)),
             [ok |-> TRUE, at |-> at, items |-> <<>>], [i \in 1 .. Len(w) - at |-> i])

-----------------------------------------------------------------------------
(* Records *)

NodeWords == 9

EncodeNode(n) ==
    Magic("node") \o
    (IF n.leaf THEN <<Num(1), Num(n.height), Num(n.len), Num(n.off), Num(n.len), Num(0)>>
     ELSE <<Num(2), Num(n.height), Num(n.len), Wired(n.left), Wired(n.right), Num(n.leftLen)>>)
    \o <<[com |-> n.com]>>

DecodeNode(w) ==
    LET kind == w[3].num  height == w[4].num  len == w[5].num
        a == w[6].num  b == w[7].num  c == w[8].num
    IN  IF kind = 1
        THEN Given(/\ HasMagic(w, "node") /\ height = 1 /\ len > 0 /\ b = len
                   /\ len <= MaxLeaf /\ c = 0,
                   [leaf |-> TRUE, off |-> a, len |-> len, height |-> 1, com |-> w[9].com])
        ELSE Given(HasMagic(w, "node") /\ kind = 2 /\ height >= 2 /\ 0 < c /\ c < len,
                   [leaf |-> FALSE, left |-> a + 1, right |-> b + 1, leftLen |-> c,
                    len |-> len, height |-> height, com |-> w[9].com])

RootWords == 6

EncodeRoot(r) ==
    Magic("root") \o <<Num(r.height), Wired(r.id), Num(r.len), [com |-> r.com]>>

DecodeRoot(w) ==
    Given(HasMagic(w, "root") /\ w[5].num > 0 /\ w[3].num > 0,
          [id |-> w[4].num + 1, height |-> w[3].num, len |-> w[5].num, com |-> w[6].com])

VersionWords == 4 + RootWords

\* The ith version.
EncodeVersion(v, i) ==
    Magic("version") \o <<Wired(i), WiredVersion(v.parent)>> \o EncodeRoot(v.root)

\* A version must be the one expected there, and its parent earlier.
DecodeVersion(w, i) ==
    Then(DecodeRoot(SubSeq(w, 5, VersionWords)), LAMBDA r :
        Given(HasMagic(w, "version") /\ w[3] = Wired(i) /\ VersionAt(w[4]) < i,
              [parent |-> VersionAt(w[4]), root |-> r.item]))

\* Identity, messages and result version, absent ones as the sentinel.
EncodeCheckpoint(cp) ==
    LET parent == IF cp.parent = None THEN <<>> ELSE <<Text(cp.parent)>>
        Use(u) == WiredVersion(IF u \in DOMAIN cp.uses THEN cp.uses[u] ELSE 0)
    IN  Magic("checkpoint")
        \o <<Num(12 + Len(parent)), Use(1), Use(2), Use(3), Num(1), Num(1), Num(Len(parent)),
             [state |-> cp.state], Text(cp.thread), Text(cp.name)>> \o parent

DecodeCheckpoint(w, versions) ==
    LET uses == SelectSeq([u \in 1 .. 3 |-> VersionAt(w[u + 3])], LAMBDA v : v # 0)
    IN  Given(/\ HasMagic(w, "checkpoint") /\ w[3].num = Len(w)
              /\ VersionAt(w[4]) # 0 /\ \A u \in DOMAIN uses : uses[u] <= versions
              /\ w[7].num = 1 /\ w[8].num = 1 /\ w[9].num <= 1
              /\ 10 + w[7].num + w[8].num + w[9].num = Len(w),
              [thread |-> w[11].text, name |-> w[12].text,
               parent |-> IF w[9].num = 0 THEN None ELSE w[13].text,
               uses |-> uses, state |-> w[10].state])

-----------------------------------------------------------------------------
(* The arena image *)

ImagePrefixWords == 5

EncodeImage(a, roots) ==
    LET prefix == Magic("image") \o <<Num(Len(a.payload)), Num(Len(a.nodes)), Num(Len(roots))>>
        body == [i \in DOMAIN a.payload |-> Text(a.payload[i])]
                \o Concatenated([i \in DOMAIN a.nodes |-> EncodeNode(a.nodes[i])])
                \o Concatenated([i \in DOMAIN roots |-> EncodeRoot(roots[i])])
    IN  prefix \o <<Digest("image", prefix, body)>> \o body

\* Sections follow each other and end with the image.
DecodeImage(w) ==
    IF Len(w) <= ImagePrefixWords THEN Refused
    ELSE
    LET prefix == SubSeq(w, 1, ImagePrefixWords)
        start == ImagePrefixWords + 1
        payload == w[3].num  nodes == w[4].num  roots == w[5].num
        rootsAt == start + payload + nodes * NodeWords
    IN  IF /\ HasMagic(w, "image") /\ payload > 0 /\ nodes > 0 /\ roots > 0
           /\ Len(w) = rootsAt + roots * RootWords
           /\ w[start] = Digest("image", prefix, SubSeq(w, start + 1, Len(w)))
        THEN Then(Table(w, start + payload, nodes, NodeWords, LAMBDA r, i : DecodeNode(r)), LAMBDA n :
                 Then(Table(w, rootsAt, roots, RootWords, LAMBDA r, i : DecodeRoot(r)), LAMBDA t :
                     Ok([payload |-> [i \in 1 .. payload |-> w[start + i].text],
                         nodes |-> n.item, roots |-> t.item])))
        ELSE Refused

-----------------------------------------------------------------------------
(* The sealed snapshot *)

SnapshotPrefixWords == 8

EncodeActive(s, r) ==
    Magic("active") \o <<Num(6), Wired(s.requests[r].ordinal),
                         [opDigest |-> s.requests[r].digest], Text(r)>>

DecodeActive(w) ==
    Given(HasMagic(w, "active") /\ Len(w) = 6,
          [request |-> w[6].text, digest |-> w[5].opDigest, ordinal |-> w[4].num + 1])

EncodeRetired(s, r) ==
    Magic("retired") \o <<Num(5), [opDigest |-> s.retired[r]], Text(r)>>

DecodeRetired(w) ==
    Given(HasMagic(w, "retired") /\ Len(w) = 5, [request |-> w[5].text, digest |-> w[4].opDigest])

EncodeDeleted(key) == Magic("deleted") \o <<Num(5), Text(key[1]), Text(key[2])>>

DecodeDeleted(w) ==
    Given(HasMagic(w, "deleted") /\ Len(w) = 5, <<w[4].text, w[5].text>>)

KeyBefore(j, k) == j[1] < k[1] \/ (j[1] = k[1] /\ j[2] < k[2])

\* Requests and deleted identities are written in strict order, and read so.
StrictRequestOrder(rows) == \A i \in 2 .. Len(rows) : rows[i - 1].request < rows[i].request

StrictDeletedOrder(keys) == \A i \in 2 .. Len(keys) : KeyBefore(keys[i - 1], keys[i])

\* Mutant: the digest covers the header alone.
SnapshotDigestHeader(prefix, body) == Digest("snapshot", prefix, <<>>)

SnapshotDigest(prefix, body) == Digest("snapshot", prefix, body)

EncodeSnapshot(s) ==
    LET image == IF s.checkpoints = <<>> THEN <<>>
                 ELSE EncodeImage(Arena(s), [v \in DOMAIN s.versions |-> s.versions[v].root])
        active == SetToSortSeq(DOMAIN s.requests, LAMBDA a, b : a < b)
        retired == SetToSortSeq(DOMAIN s.retired, LAMBDA a, b : a < b)
        deleted == SetToSortSeq(s.deleted, KeyBefore)
        body == image
                \o Concatenated([i \in DOMAIN s.versions |-> EncodeVersion(s.versions[i], i)])
                \o Concatenated([i \in DOMAIN s.checkpoints |-> EncodeCheckpoint(s.checkpoints[i])])
                \o Concatenated([i \in DOMAIN active |-> EncodeActive(s, active[i])])
                \o Concatenated([i \in DOMAIN retired |-> EncodeRetired(s, retired[i])])
                \o Concatenated([i \in DOMAIN deleted |-> EncodeDeleted(deleted[i])])
        prefix == Magic("snapshot")
                  \o <<Num(SnapshotPrefixWords + 1 + Len(body)), Num(Len(image)),
                       Num(Len(s.versions)), Num(Len(s.checkpoints)), Num(Len(active)),
                       Num(Len(retired))>>
    IN  prefix \o <<SnapshotDigest(prefix, body)>> \o body

\* The state the sections spell, if each of them holds, the roots of the image
\* are those of the versions, and all of w is used.
SnapshotSections(w) ==
    LET start == SnapshotPrefixWords + 1
        imageLen == w[4].num
        image == IF imageLen = 0 THEN Ok([payload |-> <<>>, nodes |-> <<>>, roots |-> <<>>])
                 ELSE DecodeImage(SubSeq(w, start + 1, start + imageLen))
        versions == Table(w, start + imageLen, w[5].num, VersionWords, DecodeVersion)
        checkpoints == Framed(w, start + imageLen + w[5].num * VersionWords, w[6].num,
                              LAMBDA r : DecodeCheckpoint(r, w[5].num))
    IN  Then(image, LAMBDA m : Then(versions, LAMBDA v : Then(checkpoints, LAMBDA c :
        Then(Framed(w, c.at, w[7].num, DecodeActive), LAMBDA a :
        Then(Framed(w, a.at, w[8].num, DecodeRetired), LAMBDA r :
        Then(FramedToEnd(w, r.at, DecodeDeleted), LAMBDA d :
            LET Row(rows, id) == rows[CHOOSE i \in DOMAIN rows : rows[i].request = id]
            IN  Given(/\ m.item.roots = [i \in DOMAIN v.item |-> v.item[i].root]
                      /\ StrictRequestOrder(a.items) /\ StrictRequestOrder(r.items)
                      /\ StrictDeletedOrder(d.items),
                      [payload |-> m.item.payload, nodes |-> m.item.nodes,
                       versions |-> v.item, checkpoints |-> c.items, ordinals |-> <<>>,
                       requests |-> [id \in {a.items[i].request : i \in DOMAIN a.items} |->
                                        [digest |-> Row(a.items, id).digest,
                                         ordinal |-> Row(a.items, id).ordinal]],
                       retired |-> [id \in {r.items[i].request : i \in DOMAIN r.items} |->
                                       Row(r.items, id).digest],
                       deleted |-> Range(d.items)])))))))

\* decode_v2_sealed_snapshot and the import that rebuilds the index.
DecodeSnapshot(w) ==
    IF /\ Len(w) > SnapshotPrefixWords
       /\ HasMagic(w, "snapshot") /\ w[3].num = Len(w)
       /\ w[SnapshotPrefixWords + 1] =
              SnapshotDigest(SubSeq(w, 1, SnapshotPrefixWords),
                             SubSeq(w, SnapshotPrefixWords + 2, Len(w)))
    THEN Then(SnapshotSections(w), LAMBDA res :
             LET s == ImportState(res.item)
             IN  IF SnapshotHolds(s) THEN [ok |-> TRUE, state |-> s] ELSE Refused)
    ELSE Refused

-----------------------------------------------------------------------------
(* The commit and its WAL transaction *)

WalPrefixWords == 11

EncodeWal(c) ==
    LET checkpoint == EncodeCheckpoint(c.checkpoint)
        body == [i \in DOMAIN c.payload |-> Text(c.payload[i])]
                \o Concatenated([i \in DOMAIN c.nodes |-> EncodeNode(c.nodes[i])])
                \o Concatenated([i \in DOMAIN c.versions |->
                                    EncodeVersion(c.versions[i], c.base.versions + i)])
                \o checkpoint
        prefix == Magic("T2W2")
                  \o <<Num(WalPrefixWords + 1 + Len(body)),
                       Num(c.base.payload), Num(Len(c.payload)), Num(c.base.nodes), Num(Len(c.nodes)),
                       Num(c.base.versions), Num(Len(c.versions)),
                       Num(c.base.checkpoints), Num(Len(checkpoint))>>
    IN  prefix \o <<Digest("T2W2", prefix, body)>> \o body

DecodeWal(w) ==
    IF Len(w) <= WalPrefixWords THEN Refused
    ELSE
    LET start == WalPrefixWords + 1
        payload == w[5].num  nodes == w[7].num  versions == w[9].num
        versionsAt == start + payload + nodes * NodeWords
        checkpointAt == versionsAt + versions * VersionWords
    IN  IF /\ HasMagic(w, "T2W2") /\ w[3].num = Len(w)
           /\ w[start] = Digest("T2W2", SubSeq(w, 1, WalPrefixWords), SubSeq(w, start + 1, Len(w)))
           /\ checkpointAt + w[11].num = Len(w)
        THEN Then(Table(w, start + payload, nodes, NodeWords, LAMBDA r, i : DecodeNode(r)), LAMBDA n :
             Then(Table(w, versionsAt, versions, VersionWords,
                        LAMBDA r, i : DecodeVersion(r, w[8].num + i)), LAMBDA v :
             Then(DecodeCheckpoint(SubSeq(w, checkpointAt + 1, Len(w)), w[8].num + versions), LAMBDA c :
                 Ok([base |-> [payload |-> w[4].num, nodes |-> w[6].num,
                               versions |-> w[8].num, checkpoints |-> w[10].num],
                     payload |-> [i \in 1 .. payload |-> w[start + i].text],
                     nodes |-> n.item, versions |-> v.item, checkpoint |-> c.item]))))
        ELSE Refused

CommitPrefixWords == 7
CommitHeaderWords == CommitPrefixWords + 2

\* The two words of a digest.
Halves2(digest) == <<[digest |-> <<digest, 1>>], [digest |-> <<digest, 2>>]>>

Length2(n) == <<Num(n % Radix), Num(n \div Radix)>>

EncodeCommit(c) ==
    LET wal == EncodeWal(c)
        request == IF c.request = None THEN <<>> ELSE <<Text(c.request)>>
        operation == IF c.request = None THEN Num(0)
                     ELSE [opDigest |-> OperationDigest(c.checkpoint)]
        prefix == Magic("T2C2") \o Length2(CommitHeaderWords + Len(wal) + Len(request))
                  \o <<Num(Len(wal)), Num(Len(request)), operation>>
    IN  prefix \o Halves2(<<prefix, wal \o request>>) \o wal \o request

DecodeCommit(w) ==
    IF Len(w) < CommitHeaderWords THEN Refused
    ELSE
    LET walLen == w[5].num  requestLen == w[6].num
        prefix == SubSeq(w, 1, CommitPrefixWords)
        body == SubSeq(w, CommitHeaderWords + 1, Len(w))
    IN  IF /\ HasMagic(w, "T2C2") /\ SubSeq(w, 3, 4) = Length2(Len(w))
           /\ SubSeq(w, CommitPrefixWords + 1, CommitHeaderWords) = Halves2(<<prefix, body>>)
           /\ CommitHeaderWords + walLen + requestLen = Len(w)
           /\ requestLen = 0 => w[7] = Num(0)
        THEN Then(DecodeWal(SubSeq(body, 1, walLen)), LAMBDA d :
                 Given(requestLen > 0 => w[7] = [opDigest |-> OperationDigest(d.item.checkpoint)],
                       [base |-> d.item.base, payload |-> d.item.payload, nodes |-> d.item.nodes,
                        versions |-> d.item.versions, checkpoint |-> d.item.checkpoint,
                        request |-> IF requestLen = 0 THEN None ELSE body[walLen + 1].text]))
        ELSE Refused

-----------------------------------------------------------------------------
(* The hot frame and the scanner *)

FooterWords == 6

\* The footer of a frame of len words around a commit with this digest.
Footer(len, digest) == Magic("T2E2") \o Length2(len) \o digest

EncodeFrame(c) ==
    LET w == EncodeCommit(c)
    IN  w \o Footer(Len(w) + FooterWords, SubSeq(w, CommitPrefixWords + 1, CommitHeaderWords))

\* Mutant: a footer is torn only when none of it was written.
ZeroPaddedPrefixNone(actual, expected) == AllZero(actual)

\* Any cut is tried: a written length or digest may hold zeros itself.
ZeroPaddedPrefix(actual, expected) ==
    \E n \in 0 .. Len(expected) :
        /\ SubSeq(actual, 1, n) = SubSeq(expected, 1, n)
        /\ AllZero(SubSeq(actual, n + 1, Len(actual)))

TornFrame == [ok |-> TRUE, torn |-> TRUE]

Probe(w) ==
    IF Len(w) < 2 THEN IF IsPrefix(w, Magic("T2C2")) THEN TornFrame ELSE Refused
    ELSE IF ~HasMagic(w, "T2C2") THEN Refused
    ELSE IF Len(w) < 4 THEN TornFrame
    ELSE
    LET len == w[3].num + Radix * w[4].num
        frame == len + FooterWords
        expected == Footer(frame, SubSeq(w, CommitPrefixWords + 1, CommitHeaderWords))
        actual == SubSeq(w, len + 1, frame)
    IN  IF len < CommitHeaderWords
        THEN IF AllZero(SubSeq(w, 5, Min({Len(w), CommitHeaderWords}))) THEN TornFrame ELSE Refused
        ELSE IF frame > Len(w) THEN TornFrame
        ELSE IF actual = expected THEN [ok |-> TRUE, torn |-> FALSE, len |-> len, frame |-> frame]
        ELSE IF ZeroPaddedPrefix(actual, expected) THEN TornFrame
        ELSE Refused

Stopped(state, tail, why) == [ok |-> TRUE, state |-> state, tail |-> tail, stop |-> why]

RECURSIVE Scan(_, _, _)

\* recover_v2_hot_wal from the word after tail on.
Scan(w, tail, state) ==
    LET rest == SubSeq(w, tail + 1, Len(w)) IN
    IF rest = <<>> THEN Stopped(state, tail, "EndOfBytes")
    ELSE IF AllZero(SubSeq(rest, 1, Min({Len(rest), 2})))
    THEN IF AllZero(rest) THEN Stopped(state, tail, "ZeroReserve") ELSE Refused
    ELSE IF HasMagic(rest, "T2W2") THEN Refused
    ELSE Then(Probe(rest), LAMBDA p :
             IF p.torn THEN Stopped(state, tail, "TornFinalCommit")
             ELSE Then(DecodeCommit(SubSeq(rest, 1, p.len)), LAMBDA d :
                      LET res == ApplyCommit(state, d.item)
                      IN  IF res.out = "applied" THEN Scan(w, tail + p.frame, res.state)
                          ELSE Refused))

\* No artifact is the empty sequence.
DecodeBase(artifact) ==
    IF artifact = <<>> THEN [ok |-> TRUE, state |-> EmptyState] ELSE DecodeSnapshot(artifact)

\* recover_v2_backend, once its base is decoded.
RecoverBackend(base, log) == Then(base, LAMBDA b : Scan(log, 0, b.state))

-----------------------------------------------------------------------------
(* What the backend's variables are on disk *)

Artifact == IF sealed = None THEN <<>> ELSE EncodeSnapshot(sealed)

Log == Concatenated([i \in DOMAIN hot |-> EncodeFrame(hot[i].commit)])

Reserves == {0, 1, 5}       \* words of zero reserve after the log

-----------------------------------------------------------------------------
(* Properties *)

\* Word for word, the sealed artifact and the log recover to the state and the
\* logical tail the backend believes in, whatever was committed, deleted,
\* retired, compacted and sealed, and however much reserve follows.
WireRecovers ==
    \A base \in {DecodeBase(Artifact)}, log \in {Log}, n \in Reserves :
        \A res \in {RecoverBackend(base, log \o Zeros(n))} :
            /\ res.ok
            /\ res.state = Recovered(sealed, hot).state
            /\ res.tail = Len(log)
            /\ res.stop = IF n = 0 THEN "EndOfBytes" ELSE "ZeroReserve"

\* A crash at any word of the next frame, into a zero reserve of any length or
\* at the end of the file, recovers exactly the complete frames before it.  A
\* cut within the magic that is followed by reserve is the one that fails
\* closed instead: the scanner takes neither branch for it.
TornTailSkipped ==
    \A p \in prep :
        (~dirty /\ ApplyCommit(st, p.commit).out = "applied") =>
            \A base \in {DecodeBase(Artifact)}, log \in {Log}, frame \in {EncodeFrame(p.commit)} :
            \A k \in 1 .. Len(frame) - 1 : \A n \in {0, 1, Len(frame) - k + 1} :
            \A res \in {RecoverBackend(base, log \o SubSeq(frame, 1, k) \o Zeros(n))} :
                /\ res.ok => res.state = st /\ res.tail = Len(log)
                /\ (k >= Len(Magic("T2C2")) \/ n = 0) => res.ok

Damaged(word) ==
    LET f == CHOOSE f \in DOMAIN word : TRUE
    IN  IF f \in {"num", "text"} THEN [word EXCEPT ![f] = @ + 1] ELSE [word EXCEPT ![f] = <<>>]

\* No word of a sealed artifact can change, and no end of it be missing,
\* without the import refusing it: the digest covers every section, counts and
\* ledgers included (decode_v2_sealed_snapshot).  Every artifact is met when it
\* has just been sealed, with the log empty.
DamagedSealRefused ==
    hot = <<>> => \A w \in {Artifact} : \A i \in DOMAIN w :
        /\ ~DecodeSnapshot([w EXCEPT ![i] = Damaged(w[i])]).ok
        /\ ~DecodeSnapshot(SubSeq(w, 1, i - 1)).ok
=============================================================================
