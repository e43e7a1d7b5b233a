-------------------------------- MODULE Faces --------------------------------
(***************************************************************************)
(* The objects a node seals with: face.js and cube.js, with the sorting of *)
(* placement.js, as _finalizeFace, sealAgreedCube and _finalizeCube of     *)
(* ledger.js drive them.  A face takes blocks until it is full and then    *)
(* puts them into positions; a cube takes faces until it has all and then  *)
(* has an id; the averages of the validators' times are cached.            *)
(*                                                                         *)
(* A block is its hash, a number.  A root is a number that is different    *)
(* for different sequences of hashes and ordered unlike them.  The times   *)
(* that key the faces of a cube are taken to be distinct.                  *)
(***************************************************************************)
EXTENDS Naturals, Sequences, FiniteSets, SequencesExt, FiniteSetsExt

CONSTANTS
  FaceId,      \* the Face objects of one cube
  Offered,     \* FaceId -> the hashes offered to it, more than it can take
  Time,        \* hash -> the block's validationTimestamp
  FaceBlocks,  \* blocks of a face, 9 in the code
  Spread, Prime \* the digest: Spread * the positional number of the hashes, modulo Prime

VARIABLES
  faceOf,      \* FaceId -> [pending, blocks, index]: pendingBlocks, and blocks by position
  cubeFaces,   \* cube.faces, a sequence of FaceId
  cubeId,      \* cube.id: the sequence of roots it digests, or None
  average,     \* cube.validatorAverageTimestamp: <<a time>>, or None
  path,        \* which of the two paths seals this cube: "slot" or "agreed"
  record,      \* the `cube:` row: <<what it says>>, or None
  refused      \* history: addBlock answered false to these

faceVars == <<faceOf, cubeFaces, cubeId, average, path, record, refused>>

None == <<>>
CubeSize == Cardinality(FaceId)

----------------------------------------------------------------------------
(* face.js and placement.js                                                *)

\* Mutant: the positions are those of arrival.
sortBlocksByHashNot(bs) == bs

\* sortBlocksByHash: the lowest hash has the first position.
sortBlocksByHash(bs) == SortSeq(bs, <)

\* getMerkleRoot of a face: of its positions, a digest of zeros where there is no block.
Root(f) ==
  LET at(i) == IF i <= Len(f.blocks) THEN f.blocks[i] ELSE 0
  IN  (Spread * FoldLeft(LAMBDA acc, i : acc * 16 + at(i), 0, [i \in 1 .. FaceBlocks |-> i])) % Prime

\* isComplete of a face.
Full(f) == Len(f.blocks) = FaceBlocks

Mean(ts) == FoldLeft(LAMBDA acc, t : acc + t, 0, ts) \div Len(ts)
Times(f) == [i \in 1 .. Len(f.blocks) |-> Time[f.blocks[i]]]

\* addBlock: a hash that is pending is skipped, a full face refuses, the last one sorts and clears.
addBlock(x, b) ==
  LET f == faceOf[x]
      all == Append(f.pending, b)
  IN  /\ IF \/ b \in ToSet(f.pending) \/ Full(f)
         THEN UNCHANGED faceOf
         ELSE faceOf' = [faceOf EXCEPT ![x] =
                IF Len(all) = FaceBlocks THEN [@ EXCEPT !.pending = <<>>, !.blocks = sortBlocksByHash(all)]
                ELSE [@ EXCEPT !.pending = all]]
      /\ refused' = IF b \notin ToSet(f.pending) /\ Full(f) THEN refused \cup {<<x, b>>} ELSE refused
      /\ UNCHANGED <<cubeFaces, cubeId, average, path, record>>

----------------------------------------------------------------------------
(* cube.js                                                                 *)

\* sortFacesByHash: the faces by their roots.
sortFacesByHash(xs) == SortSeq(xs, LAMBDA x, y : Root(faceOf[x]) < Root(faceOf[y]))
Roots(xs) == [i \in 1 .. Len(xs) |-> Root(faceOf[xs[i]])]

\* Mutant: the roots are digested in the order the faces came.
calculateCubeIdUnsorted(xs) == Roots(xs)

\* _calculateCubeId: the roots in their own order, whatever order the faces came in.
calculateCubeId(xs) == Roots(sortFacesByHash(xs))

\* addFace: the last one gives the cube its id.
IdAfter(xs) == IF Len(xs) = CubeSize THEN calculateCubeId(xs) ELSE cubeId

\* getAverageTimestamp: what was computed before is returned, whichever faces came since.
getAverageTimestamp(xs) ==
  IF average # None THEN average[1] ELSE Mean(FlattenSeq([i \in 1 .. Len(xs) |-> Times(faceOf[xs[i]])]))

\* getMerkleRoot of a cube: the roots by face index.
Indexed(xs) == [i \in 1 .. Len(xs) |-> CHOOSE x \in ToSet(xs) : faceOf'[x].index = i - 1]

\* _finalizeCube: indices are the ranks of the roots, then the row is written.
FinalizeCube(xs, mean) ==
  LET sorted == sortFacesByHash(xs)
      rank(x) == CHOOSE i \in 1 .. Len(sorted) : sorted[i] = x
  IN  /\ faceOf' = [x \in FaceId |-> IF x \in ToSet(xs) THEN [faceOf[x] EXCEPT !.index = rank(x) - 1] ELSE faceOf[x]]
      /\ cubeFaces' = sorted
      /\ record' = <<[id |-> calculateCubeId(xs), root |-> Roots(Indexed(xs)), average |-> mean]>>

\* The slot of a face, its root modulo the faces of a cube.
slot(x) == Root(faceOf[x]) % CubeSize

\* _finalizeFace, the path without agreement: the face joins the first cube whose slot is free, here
\* this one, its index is the slot until the cube is whole, and the cube's average is asked for at
\* once, with one face as with three.
FinalizeFace(x) ==
  LET xs == Append(cubeFaces, x)
      mean == getAverageTimestamp(xs)
  IN  /\ path = "slot" /\ record = None
      /\ Full(faceOf[x]) /\ \A y \in ToSet(cubeFaces) : slot(y) # slot(x)
      /\ cubeId' = IdAfter(xs)
      /\ average' = <<mean>>
      /\ IF Len(xs) = CubeSize THEN FinalizeCube(xs, mean)
         ELSE cubeFaces' = xs /\ faceOf' = [faceOf EXCEPT ![x].index = slot(x)] /\ UNCHANGED record
      /\ UNCHANGED <<path, refused>>

\* sealAgreedCube: the agreed faces, in the order of the proposal, into a new cube.
sealAgreedCube(xs) ==
  LET mean == getAverageTimestamp(xs)
  IN  /\ path = "agreed" /\ record = None
      /\ \A x \in FaceId : Full(faceOf[x])
      /\ cubeId' = IdAfter(xs)
      /\ average' = <<mean>>
      /\ FinalizeCube(xs, mean)
      /\ UNCHANGED <<path, refused>>

Init ==
  /\ faceOf = [x \in FaceId |-> [pending |-> <<>>, blocks |-> <<>>, index |-> 0]]
  /\ cubeFaces = <<>> /\ cubeId = None /\ average = None /\ record = None /\ refused = {}
  /\ path \in {"slot", "agreed"}

Next ==
  \/ \E x \in FaceId : FinalizeFace(x) \/ \E b \in Offered[x] : addBlock(x, b)
  \/ \E xs \in SetToSeqs(FaceId) : sealAgreedCube(xs)

FaceSpec == Init /\ [][Next]_faceVars

----------------------------------------------------------------------------
Members(x) == ToSet(faceOf[x].blocks) \cup ToSet(faceOf[x].pending)
Ascending(s) == \A i, j \in 1 .. Len(s) : i < j => s[i] < s[j]

\* A face holds a hash once and never more than it has places, refuses only when it is full, and is
\* complete only with every position the rank of its block: its root depends on its blocks alone.
FaceIsItsBlocks ==
  \A x \in FaceId :
    LET f == faceOf[x]
    IN  /\ Cardinality(Members(x)) = Len(f.blocks) + Len(f.pending)
        /\ f.blocks # <<>> => Full(f) /\ f.pending = <<>> /\ Ascending(f.blocks)
        /\ \A b \in Offered[x] : <<x, b>> \in refused => Full(f)

\* Whichever path sealed the cube, in whichever order its faces came and its blocks before them, the
\* row's id and root are those of the set of roots, and face index i is the face of rank i.
CubeIsItsFaces ==
  \A r \in ToSet(record) :
    /\ Ascending(r.id) /\ ToSet(r.id) = {Root(faceOf[x]) : x \in FaceId}
    /\ r.root = r.id /\ cubeId = r.id
    /\ \A i \in 1 .. CubeSize : faceOf[cubeFaces[i]].index = i - 1

\* The time a cube is recorded with: the mean of all its blocks when the faces were agreed on; without
\* agreement the mean of the face that came first, which the getter had cached (cube.js:9 has it
\* as the "Average of all validator timestamps from blocks" on either path).
AverageIsKnown ==
  \A r \in ToSet(record) :
    /\ path = "agreed" =>
         r.average = Mean(FlattenSeq([i \in 1 .. CubeSize |-> Times(faceOf[cubeFaces[i]])]))
    /\ path = "slot" => \E x \in FaceId : r.average = Mean(Times(faceOf[x]))

\* Faces and cubes: the three above.
FacesSound == FaceIsItsBlocks /\ CubeIsItsFaces /\ AverageIsKnown
==============================================================================
