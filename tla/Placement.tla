----------------------------- MODULE Placement -----------------------------
(***************************************************************************)
(* Deterministic placement: blocks are sorted by hash and cut into faces,  *)
(* a face goes to a slot of a cube by its root, and the cubes of a level   *)
(* become the blocks of the next.  The pure rule is deterministic-         *)
(* placement.js and face-sealing.js; the state machine below is the path   *)
(* of ledger.js that applies it while blocks arrive (_sealReadyFaces,      *)
(* _finalizeFace, _finalizeCube, _checkRecursiveCubeFormation).            *)
(*                                                                         *)
(* A block is its hash, a natural number.  A digest of a set of hashes is  *)
(* a number that is different for different sets and ordered unlike them.  *)
(*                                                                         *)
(* The last part is where a block then is: the coordinates of geometry.js, *)
(* and the traversal of cube-extraction.js that lists the leaf blocks of a *)
(* cube of any level in a fixed order.  The 3 of the geometry is kept.  A  *)
(* leaf of a cube of level L is the sequence of unit indices 0 .. 26 that  *)
(* leads to it, the outermost first.                                       *)
(*                                                                         *)
(* membership-backfill.mjs, which names the cube of each block on a disk   *)
(* that does not say it, is the operator reconstruct.                      *)
(***************************************************************************)
EXTENDS Integers, Sequences, FiniteSets, SequencesExt, FiniteSetsExt

CONSTANTS
  MaxLevel,   \* levels of cubes extractCube is called with
  MaxCube,    \* sequential numbers of level-1 cubes looked at
  Block,      \* the block hashes that may arrive, a finite set of naturals
  Stamp,      \* Block -> its timestamp, all different
  FaceSize,   \* FACE_SIZE, 9 in the code
  Slots,      \* CUBE_SLOTS, 3 in the code
  LiftSize,   \* the cubes that make a face of the next level, 9 in the code
  Scramble,   \* the multiplier that orders digests
  Modulus     \* a prime above every sum of 2^b: digests of different sets differ

VARIABLES
  walkLevel,  \* the level of the cube extractCube was called with
  leaf,       \* the leaf the traversal is at
  walked,     \* leaves emitted before it
  cubeNumber,   \* the sequential number of a level-1 cube, for the absolute coordinates
  pool,       \* _membershipPool
  slotFaces,  \* _slotFaces: per slot the faces in the order they were sealed
  queue,      \* completedCubesByLevel: per level the cubes that wait for a face
  upFaces,    \* pendingFacesByLevel: per level above 1 the faces that wait for a cube
  supers      \* superCubes: per level above 1 the cubes formed

placeVars == <<pool, slotFaces, queue, upFaces, supers>>

Slot == 0 .. Slots - 1
TopLevel == 3                       \* bound: the highest level the instance looks at
Level == 1 .. TopLevel

----------------------------------------------------------------------------
(* The pure rule.                                                          *)

\* How many members of S come before b: the position of b in hash order.
Rank(S, b) == Cardinality({x \in S : x < b})

\* faceRootOf: the digest of a set of block hashes.
faceRootOf(f) == (Scramble * FoldSet(LAMBDA b, acc : acc + 2^b, 0, f)) % Modulus

\* slotOf: the root modulo the number of slots.
slotOf(f) == faceRootOf(f) % Slots

\* sealBlocksIntoFaces: the i-th chunk of the hash-sorted pool, and the rest.
Chunk(S, i) == {b \in S : Rank(S, b) \div FaceSize = i}
Chunks(S) == [i \in 1 .. Cardinality(S) \div FaceSize |-> Chunk(S, i - 1)]
Leftover(S) == Chunk(S, Cardinality(S) \div FaceSize)

\* assemble: within a slot the faces are ordered by root; row k takes the k-th of every slot.
RootRank(F, f) == Cardinality({g \in F : slotOf(g) = slotOf(f) /\ faceRootOf(g) < faceRootOf(f)})
Row(F, k) == {f \in F : RootRank(F, f) = k}
assemble(F) ==
  LET rows == {Row(F, k) : k \in 0 .. Cardinality(F)} \ {{}}
  IN  [complete |-> {r \in rows : Cardinality(r) = Slots},
       open     |-> {r \in rows : Cardinality(r) < Slots}]

\* Mutant: a position past the rank is taken too.
PlacedRightLoose(f, position) ==
  /\ Cardinality(f) = FaceSize
  /\ \A b \in f : position[b] >= Rank(f, b)

\* verifyPlacement of a face: the claimed positions are the ranks of its blocks.
PlacedRight(f, position) ==
  /\ Cardinality(f) = FaceSize
  /\ \A b \in f : position[b] = Rank(f, b)

\* verifyPlacement of a cube: distinct faces, each at the rank of its root.
CubePlacedRight(c, index) ==
  /\ Cardinality(c) = Slots
  /\ \A f \in c : index[f] = Cardinality({g \in c : faceRootOf(g) < faceRootOf(f)})

----------------------------------------------------------------------------
(* The ledger's own path, one arriving block at a time.                    *)

\* The cubes map: cube k holds the (k+1)-th face of every slot that has one.
CubeAt(sf, k) == {sf[s][k + 1] : s \in {t \in Slot : Len(sf[t]) > k}}
CubesOf(sf) == {CubeAt(sf, k) : k \in 0 .. Cardinality(Block)} \ {{}}
Complete(sf) == {c \in CubesOf(sf) : Cardinality(c) = Slots}

\* Mutant: the face takes a place of the emptiest slot.
FinalizeFaceBalanced(sf, f) ==
  LET s == CHOOSE t \in Slot : \A u \in Slot : Len(sf[t]) <= Len(sf[u])
  IN  [sf EXCEPT ![s] = Append(@, f)]

\* _finalizeFace: the face takes the next place of its slot, whatever its root's rank is.
FinalizeFace(sf, f) == [sf EXCEPT ![slotOf(f)] = Append(@, f)]

\* _sealReadyFaces: every full chunk, in chunk order.
FinalizeAll(sf, faces) == FoldLeft(FinalizeFace, sf, faces)

\* completedCubesByLevel.push and the splice of nine: what the queue keeps.
PushCubes(q, cubes) ==
  [q EXCEPT ![1] = @ \o SetToSortSeq(cubes, LAMBDA c, d : Max({Max(f) : f \in c}) < Max({Max(f) : f \in d}))]

Init ==
  /\ pool = {}
  /\ slotFaces = [s \in Slot |-> <<>>]
  /\ queue = [l \in Level |-> <<>>]
  /\ upFaces = [l \in Level |-> <<>>]
  /\ supers = [l \in Level |-> {}]

\* The level whose queue or list of faces is full; the formation runs before the next admission.
Full(l) == \/ Len(queue[l]) >= LiftSize
           \/ Len(upFaces[l]) >= Slots
Settled == \A l \in Level : ~Full(l)

Held == pool \cup UNION UNION CubesOf(slotFaces)

\* addTransaction or addSealedBatch without agreement: pool the block, seal what is full.
AddBlock(b) ==
  LET all == pool \cup {b}
      sf  == FinalizeAll(slotFaces, Chunks(all))
  IN  /\ Settled
      /\ b \notin Held
      /\ pool' = Leftover(all)
      /\ slotFaces' = sf
      /\ queue' = PushCubes(queue, Complete(sf) \ Complete(slotFaces))
      /\ UNCHANGED <<upFaces, supers>>

\* Mutant: the cubes stay in the queue.
FormFaceKept(l) ==
  /\ l < TopLevel
  /\ Len(queue[l]) >= LiftSize
  /\ upFaces' = [upFaces EXCEPT ![l + 1] = Append(@, ToSet(SubSeq(queue[l], 1, LiftSize)))]
  /\ UNCHANGED <<pool, slotFaces, queue, supers>>

\* _formNextLevelFace: the first LiftSize cubes of the level, as one face of the next.
FormFace(l) ==
  /\ l < TopLevel
  /\ Len(queue[l]) >= LiftSize
  /\ queue' = [queue EXCEPT ![l] = SubSeq(@, LiftSize + 1, Len(@))]
  /\ upFaces' = [upFaces EXCEPT ![l + 1] = Append(@, ToSet(SubSeq(queue[l], 1, LiftSize)))]
  /\ UNCHANGED <<pool, slotFaces, supers>>

\* _checkFaceFormation and _formCubeFromFaces: the first Slots faces become a cube of the level.
FormCube(l) ==
  LET c == ToSet(SubSeq(upFaces[l], 1, Slots))
  IN  /\ Len(upFaces[l]) >= Slots
      /\ upFaces' = [upFaces EXCEPT ![l] = SubSeq(@, Slots + 1, Len(@))]
      /\ supers' = [supers EXCEPT ![l] = @ \cup {c}]
      /\ queue' = [queue EXCEPT ![l] = Append(@, c)]
      /\ UNCHANGED <<pool, slotFaces>>

\* rebuildFromAnchors, step 1 to 3: forget everything, then seal the whole set at once.
Rebuild ==
  LET all == Held
      sf  == FinalizeAll([s \in Slot |-> <<>>], Chunks(all))
  IN  /\ Settled
      /\ Held # {}
      /\ pool' = Leftover(all)
      /\ slotFaces' = sf
      /\ queue' = PushCubes([l \in Level |-> <<>>], Complete(sf))
      /\ upFaces' = [l \in Level |-> <<>>]
      /\ supers' = [l \in Level |-> {}]

Next == \/ \E b \in Block : AddBlock(b)
        \/ \E l \in Level : FormFace(l) \/ FormCube(l)
        \/ Rebuild

PlaceSpec == Init /\ [][Next]_placeVars

----------------------------------------------------------------------------
FacesOf(sf) == UNION {ToSet(sf[s]) : s \in Slot}

\* Every block is in exactly one place: the pool or one face; and every complete cube is in exactly
\* one place of the level above: waiting in the queue, in one face that waits, or in one cube.
Conserved ==
  /\ \A f, g \in FacesOf(slotFaces) : f # g => f \cap g = {}
  /\ pool \cap UNION FacesOf(slotFaces) = {}
  /\ \A l \in 1 .. TopLevel - 1 :
       LET waiting == ToSet(queue[l])
           inFaces == UNION ToSet(upFaces[l + 1])
           inCubes == UNION UNION supers[l + 1]
           all == IF l = 1 THEN Complete(slotFaces) ELSE supers[l]
       IN  /\ all = waiting \cup inFaces \cup inCubes
           /\ Cardinality(all) = Len(queue[l]) + LiftSize * Len(upFaces[l + 1])
                                   + LiftSize * Slots * Cardinality(supers[l + 1])

\* The order in which faces were sealed decides which faces share a cube, never how many cubes are
\* complete or which slot is open: the count is that of the pure rule on the same faces.
CubesKeepPace ==
  LET rule == assemble(FacesOf(slotFaces))
  IN  /\ Cardinality(Complete(slotFaces)) = Cardinality(rule.complete)
      /\ \A s \in Slot : Len(slotFaces[s]) = Cardinality({f \in FacesOf(slotFaces) : slotOf(f) = s})

\* verifyPlacement accepts every face and cube the ledger has numbered, and no other numbering of it.
PlacementVerifies ==
  /\ \A f \in FacesOf(slotFaces) :
       {p \in [f -> 0 .. FaceSize - 1] : PlacedRight(f, p)} = {[b \in f |-> Rank(f, b)]}
  /\ \A c \in Complete(slotFaces) : Cardinality({i \in [c -> Slot] : CubePlacedRight(c, i)}) = 1

----------------------------------------------------------------------------
(* The backfill of membership.                                             *)

\* RULES: the two orders in which a history may have been cut, as the place of b among S.
RULES(rule, S, b) ==
  IF rule = "arrival" THEN Cardinality({a \in S : Stamp[a] < Stamp[b]}) ELSE Rank(S, b)

\* cubesFromOrder: consecutive blocks are a face, consecutive faces a cube.
cubesFromOrder(rule, S) ==
  LET face(i) == {b \in S : RULES(rule, S, b) \div FaceSize = i}
  IN  [k \in 1 .. Cardinality(S) \div (FaceSize * Slots) |-> {face(i) : i \in (k - 1) * Slots .. k * Slots - 1}]

\* reconstruct: a cube that was built is taken when a record has its id, from the first rule that
\* builds it; its number is its place among the cubes of that rule.
Built(rule, S, want) ==
  LET built == cubesFromOrder(rule, S)
  IN  {[rule |-> rule, seq |-> i - 1, cube |-> built[i]] : i \in {j \in DOMAIN built : built[j] \in want}}
reconstruct(S, want) ==
  LET first == Built("arrival", S, want)
  IN  first \cup Built("hash", S, want \ {r.cube : r \in first})

\* What it writes of one cube: each block at the rank of its face's root and at its own rank.
Written(r) ==
  UNION {{[block |-> b, cube |-> r.cube, rule |-> r.rule, seq |-> r.seq,
           face |-> Cardinality({g \in r.cube : faceRootOf(g) < faceRootOf(f)}), position |-> Rank(f, b)]
          : b \in f} : f \in r.cube}

\* The backfill gives a block at most one place, one that verifies in the cube that really holds it;
\* a block of the pool or of an open cube gets none, although an older order of the same blocks would
\* have put it in a cube; and the numbers of the cubes of one rule are different.  (The numbers of
\* two cubes that two rules found may be the same, and so may then the coordinates of their blocks.)
BackfillSound ==
  LET found == reconstruct(Held, Complete(slotFaces))
      writes == UNION {Written(r) : r \in found}
  IN  /\ Cardinality(writes) = Cardinality({w.block : w \in writes})
      /\ {w.block : w \in writes} \subseteq UNION UNION Complete(slotFaces)
      /\ \A r \in found :
           CubePlacedRight(r.cube, [f \in r.cube |-> (CHOOSE w \in writes : w.block \in f).face])
      /\ \A v, w \in writes :
           v.rule = w.rule /\ v.block # w.block
             => <<v.seq, v.face, v.position>> # <<w.seq, w.face, w.position>>

----------------------------------------------------------------------------
(* Coordinates and extraction.                                              *)

geoVars == <<walkLevel, leaf, walked, cubeNumber>>

Coord(x, y, z) == [x |-> x, y |-> y, z |-> z]
Plus(a, b) == Coord(a.x + b.x, a.y + b.y, a.z + b.z)
Times(a, k) == Coord(a.x * k, a.y * k, a.z * k)

\* positionToLocalCoords: row-major, centred, y upwards; any other position is the centre.
positionToLocalCoords(p) ==
  IF p \in 0 .. 8 THEN Coord((p % 3) - 1, 1 - (p \div 3), 0) ELSE Coord(0, 0, 0)

\* faceIndexToZ and calculateBlockCoords.
calculateBlockCoords(f, p) == Plus(positionToLocalCoords(p), Coord(0, 0, f - 1))

\* Mutant: the layers of nine repeat after 27 cubes.
firstLevelCoordsWrapped(n) == Coord((n % 3) * 3, -(((n % 9) \div 3) * 3), ((n \div 9) % 3) * 3)

\* calculateCubeCoords of level 1: rows of three, layers of nine, three apart, cube 0 at the origin.
firstLevelCoords(n) == Coord((n % 3) * 3, -(((n % 9) \div 3) * 3), (n \div 9) * 3)

\* Above level 1: rows of 3^(level-1), centred in x and y (the odd side makes the halves whole).
calculateCubeCoords(n, level) ==
  LET side == 3^(level - 1)
      inFace == n % (side * side)
  IN  IF level = 1 THEN firstLevelCoords(n)
      ELSE Times(Coord((inFace % side) - ((side - 1) \div 2),
                       ((side - 1) \div 2) - (inFace \div side),
                       (n \div (side * side)) - 1), side)

\* calculateAbsoluteCoords of a block of level-1 cube n.
calculateAbsoluteCoords(n, f, p) == Plus(calculateCubeCoords(n, 1), calculateBlockCoords(f, p))

Face(u) == u \div 9
Position(u) == u % 9

\* Mutant: every level uses the spacing of the innermost.
leafCoordsFlat(path) ==
  Plus(FoldLeft(LAMBDA acc, u : Plus(acc, calculateCubeCoords(u, 1)), Coord(0, 0, 0), Front(path)),
       calculateBlockCoords(Face(Last(path)), Position(Last(path))))

\* extractInto: the offset of every ancestor's slot, a third of the spacing per descent, then the
\* block inside its atomic cube.
leafCoords(path) ==
  LET L == Len(path)
      slot(i) == Times(calculateCubeCoords(path[i], 1), 3^(L - i))
  IN  Plus(FoldLeft(LAMBDA acc, i : Plus(acc, slot(i)), Coord(0, 0, 0), [i \in 1 .. L - 1 |-> i]),
           calculateBlockCoords(Face(path[L]), Position(path[L])))

\* The order of extractInto: faces by index, positions by hash rank, the child's leaves before its sibling.
Units == 0 .. 26
Index(path) == FoldLeft(LAMBDA acc, u : acc * 27 + u, 0, path)
\* Mutant: the inner indices are not started again.
NextLeafStuck(path) ==
  LET i == SelectLastInSeq(path, LAMBDA u : u < 26) IN [path EXCEPT ![i] = @ + 1]

NextLeaf(path) ==
  LET i == SelectLastInSeq(path, LAMBDA u : u < 26)
  IN  [j \in 1 .. Len(path) |-> IF j < i THEN path[j] ELSE IF j = i THEN path[i] + 1 ELSE 0]

WalkInit ==
  /\ walkLevel \in 1 .. MaxLevel
  /\ leaf = [i \in 1 .. walkLevel |-> 0]
  /\ walked = 0
  /\ cubeNumber = 0

\* One push onto `out`.
Emit ==
  /\ \E u \in ToSet(leaf) : u < 26
  /\ leaf' = NextLeaf(leaf)
  /\ walked' = walked + 1
  /\ UNCHANGED <<walkLevel, cubeNumber>>

\* The next level-1 cube of the ledger gets the next sequential number.
NextCube ==
  /\ walkLevel = 1
  /\ cubeNumber < MaxCube
  /\ cubeNumber' = cubeNumber + 1
  /\ UNCHANGED <<walkLevel, leaf, walked>>

WalkNext == Emit \/ NextCube

GeoSpec == WalkInit /\ [][WalkNext]_geoVars

----------------------------------------------------------------------------
\* The block position inside an atomic cube that has these offsets from its centre.
UnitAt(c) == (c.z + 1) * 9 + (1 - c.y) * 3 + (c.x + 1)

\* Reads a leaf back from its coordinates: the nearest multiple of the spacing is the slot, the
\* rest is inside.  That it succeeds says that no two leaves of a cube share coordinates.
SlotAt(c, k) ==
  LET s == 3 * 3^k
      near(v) == (v + (s \div 2)) \div s
  IN  near(c.z) * 9 + near(-c.y) * 3 + near(c.x)
Located(coords, L) ==
  LET rest[i \in 1 .. L] ==
        IF i = 1 THEN coords
        ELSE LET k == L - i + 1
             IN  Plus(rest[i - 1], Times(calculateCubeCoords(SlotAt(rest[i - 1], k), 1), -(3^k)))
  IN  [i \in 1 .. L |-> IF i = L THEN UnitAt(rest[L]) ELSE SlotAt(rest[i], L - i)]

\* Every leaf of a cube of every level can be read back from its coordinates, so the sub-structures
\* of extractInto tile without overlap although each level only spaces its children 3 times wider.
LeavesApart == Located(leafCoords(leaf), walkLevel) = leaf

\* The leaf emitted n-th is the n-th in the order of the indices: the bytes of an extraction are a
\* function of the cube, and the traversal ends after 27^level leaves.
ExtractionOrdered == walked = Index(leaf) /\ walked < 27^walkLevel

\* No two blocks of the level-1 cubes share absolute coordinates, and the origin is the centre of
\* cube 0: each coordinate names its cube, its face and its position.  Above level 1 the
\* coordinates name the index of the cube as well.
BlocksApart ==
  /\ LET c == calculateCubeCoords(cubeNumber, 2)
     IN  cubeNumber = ((c.z \div 3) + 1) * 9 + (1 - (c.y \div 3)) * 3 + (c.x \div 3) + 1
  /\ walkLevel = 1 =>
    LET c == calculateAbsoluteCoords(cubeNumber, Face(leaf[1]), Position(leaf[1]))
        n == SlotAt(c, 0)
    IN  /\ n = cubeNumber
        /\ UnitAt(Plus(c, Times(calculateCubeCoords(n, 1), -1))) = leaf[1]
=============================================================================
