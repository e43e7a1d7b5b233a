------------------------------- MODULE Verkle -------------------------------
(***************************************************************************)
(* The commitment of verkle-tree.js: a trie over key hashes held           *)
(* compressed (a key alone below a node is one Leaf that stands for a      *)
(* chain of single-child nodes), with hashes computed lazily and kept      *)
(* until a write makes their path dirty.                                   *)
(*                                                                         *)
(* A node is found at the path that leads to it: the tree is a function    *)
(* from paths.  A hash is what it commits to, the set of <<path below,     *)
(* value>> pairs, so equal hashes are equal contents and the row of a      *)
(* node's children is their union, each one nibble longer.                 *)
(***************************************************************************)
EXTENDS Naturals, Sequences, FiniteSets, TLC, SequencesExt, FiniteSetsExt

CONSTANTS
  KeyHash,    \* key hashes: sequences of Depth nibbles
  Depth,      \* 32 in the code
  ValueHash

VARIABLES
  tree,       \* path -> Branch or Leaf, this.root at <<>>
  entries     \* stateTree.state: the key-value map the tree must commit to

verkleVars == <<tree, entries>>

Dirty == {<< <<>>, 0 >>}     \* null: no value hashes to 0
Branch(h) == [leaf |-> FALSE, hash |-> h]
Leaf(k, v, h, b) == [leaf |-> TRUE, key |-> k, value |-> v, hash |-> h, below |-> b]
EmptyTree == (<<>> :> Branch(Dirty))

\* The hash of a node whose child at nibble n hashes to h.
oneChild(n, h) == {<< <<n>> \o e[1], e[2] >> : e \in h}

\* chainOf: the node at depth d of a lone key's chain.
chainAt(k, v, d) == {<<SubSeq(k, d + 1, Depth), v>>}

Children(T, p) == {q \in DOMAIN T : Len(q) = Len(p) + 1 /\ IsPrefix(p, q)}

\* leafHash: kept, or one step above the kept node below, or the whole chain.
leafHash(n, d) ==
  CASE n.hash # Dirty -> n.hash
    [] d = Depth -> {<< <<>>, n.value >>}
    [] OTHER -> oneChild(n.key[d + 1], IF n.below # Dirty THEN n.below ELSE chainAt(n.key, n.value, d + 1))

\* hashOf and branchHash, bottom up: hashes at every path, by the distance to the deepest one.
HashOf(T) ==
  LET H[p \in DOMAIN T] ==
        IF T[p].leaf THEN leafHash(T[p], Len(p))
        ELSE IF T[p].hash # Dirty THEN T[p].hash
        ELSE UNION {oneChild(Last(q), H[q]) : q \in Children(T, p)}
  IN  H

\* getRoot hashes every dirty node it meets and keeps the hashes; a kept leaf hash keeps its `below`.
Hashed(T) ==
  [p \in DOMAIN T |->
     IF T[p].leaf
     THEN Leaf(T[p].key, T[p].value, HashOf(T)[p],
               IF T[p].hash # Dirty \/ T[p].below # Dirty \/ Len(p) = Depth THEN T[p].below
               ELSE chainAt(T[p].key, T[p].value, Len(p) + 1))
     ELSE Branch(HashOf(T)[p])]
getRoot == HashOf(tree)[<<>>]

----------------------------------------------------------------------------
Paths(k) == {SubSeq(k, 1, d) : d \in 0 .. Depth}

\* The nodes the walk of _put or _drop passes are the branches on the key's path: all made dirty.
Dirtied(T, k) == [p \in DOMAIN T |-> IF p \in Paths(k) /\ ~T[p].leaf THEN Branch(Dirty) ELSE T[p]]

\* Where the walk ends: below the last branch of the path.
Stop(T, k) == SubSeq(k, 1, Max({Len(p) : p \in {q \in DOMAIN T \cap Paths(k) : ~T[q].leaf}}) + 1)

\* Mutant: the pushed leaf keeps the hash of the level above.
PushedStale(n) == n

\* The leaf pushed down one level by a new neighbour keeps the hash it had below.
Pushed(n) == [n EXCEPT !.hash = n.below, !.below = Dirty]

\* _put: a new leaf, a new value in place, or a branch for every shared nibble above the two leaves.
_put(T, k, v) ==
  LET D == Dirtied(T, k)
      s == Stop(D, k)
      n == D[s]
      shared == Max({d \in 0 .. Depth : SubSeq(n.key, 1, d) = SubSeq(k, 1, d)})
      moved == FoldLeft(LAMBDA m, i : Pushed(m), n, [i \in 1 .. shared + 1 - Len(s) |-> i])
  IN  IF s \notin DOMAIN D THEN (s :> Leaf(k, v, Dirty, Dirty)) @@ D
      ELSE IF n.key = k THEN [D EXCEPT ![s] = Leaf(k, v, Dirty, Dirty)]
      ELSE [p \in {SubSeq(k, 1, d) : d \in Len(s) .. shared} |-> Branch(Dirty)]
             @@ (SubSeq(n.key, 1, shared + 1) :> moved)
             @@ (SubSeq(k, 1, shared + 1) :> Leaf(k, v, Dirty, Dirty))
             @@ D

\* The leaf pulled up one level: its old hash is the one below.
Pulled(n) == [n EXCEPT !.hash = Dirty, !.below = n.hash]

\* _drop, after the leaf is gone: upward, an empty branch goes and a branch with one leaf becomes
\* that leaf; the first branch that is neither ends the walk.
Collapse(T, p) ==
  LET kids == Children(T, p)
      only == CHOOSE q \in kids : TRUE
  IN  IF kids = {} THEN [q \in DOMAIN T \ {p} |-> T[q]]
      ELSE [q \in DOMAIN T \ {only} |-> IF q = p THEN Pulled(T[only]) ELSE T[q]]
\* Mutant: a branch with one leaf stays a branch.
CollapsibleEmpty(T, p) == p # <<>> /\ Children(T, p) = {}

Collapsible(T, p) ==
  LET kids == Children(T, p)
  IN  p # <<>> /\ (kids = {} \/ (Cardinality(kids) = 1 /\ \A q \in kids : T[q].leaf))

_drop(T, k) ==
  LET s == Stop(T, k)
      D == Dirtied([p \in DOMAIN T \ {s} |-> T[p]], k)
      Up[d \in 0 .. Len(s) - 1] ==     \* the walk from the leaf's parent up to depth d
        LET below == IF d = Len(s) - 1 THEN [t |-> D, go |-> TRUE] ELSE Up[d + 1]
            p == SubSeq(k, 1, d)
        IN  IF below.go /\ Collapsible(below.t, p)
            THEN [t |-> Collapse(below.t, p), go |-> TRUE]
            ELSE [t |-> below.t, go |-> FALSE]
  IN  IF s \notin DOMAIN T THEN T ELSE IF T[s].key # k THEN T ELSE Up[0].t

Init == tree = EmptyTree /\ entries = << >>

\* insert and delete, as far as they reach the tree (module StateMachine has their awaits).
Insert(k, v) == /\ tree' = _put(tree, k, v)
                /\ entries' = (k :> v) @@ entries
Delete(k) == /\ tree' = _drop(tree, k)
             /\ entries' = [x \in DOMAIN entries \ {k} |-> entries[x]]

\* getRoot, and every read that starts with it (generateProof, keyPath, getTreeShape).
ReadRoot == tree' = Hashed(tree) /\ UNCHANGED entries

\* _rebuildTrie: the same keys, placed one after the other into a new tree, and hashed.
RebuildTrie ==
  /\ tree' = Hashed(FoldLeft(LAMBDA T, k : _put(T, k, entries[k]), EmptyTree, SetToSeq(DOMAIN entries)))
  /\ UNCHANGED entries

Next == \/ \E k \in KeyHash : Delete(k) \/ \E v \in ValueHash : Insert(k, v)
        \/ ReadRoot
        \/ RebuildTrie

VerkleSpec == Init /\ [][Next]_verkleVars

----------------------------------------------------------------------------
(* Proofs of membership.                                                   *)

\* generateProof: for each depth the siblings on the key's path; none inside a lone key's chain.
\* The path ends early where the tree lacks the key.
\* Mutant: the siblings of the branch itself are left out.
siblingsNone(k, d) == {}

siblings(k, d) ==
  LET p == SubSeq(k, 1, d)
  IN  IF p \in DOMAIN tree /\ ~tree[p].leaf
      THEN {<<Last(q), HashOf(tree)[q]>> : q \in Children(tree, p) \ {SubSeq(k, 1, d + 1)}}
      ELSE {}
OnPath(k, d) ==  \* the walk can go from depth d to d + 1
  LET p == SubSeq(k, 1, d)
  IN  IF p \in DOMAIN tree /\ ~tree[p].leaf THEN SubSeq(k, 1, d + 1) \in DOMAIN tree
      ELSE SubSeq(tree[Stop(tree, k)].key, 1, d + 1) = SubSeq(k, 1, d + 1)
proofLength(k) == CHOOSE n \in 0 .. Depth :
  /\ \A d \in 0 .. n - 1 : OnPath(k, d)
  /\ n < Depth => ~OnPath(k, n)
generateProof(k) == [path |-> [i \in 1 .. proofLength(k) |-> siblings(k, i - 1)],
                     root |-> getRoot, valueHash |-> entries[k]]

\* verifyProof: from the value up, the row of each depth rebuilt from the key's nibble and the siblings.
verifyProof(k, v, proof) ==
  LET n == Len(proof.path)
      Up[i \in 0 .. n] ==      \* after i of the path's entries, taken from the end
        IF i = 0 THEN {<< <<>>, v >>}
        ELSE LET nib == k[Depth - i + 1]
             IN  oneChild(nib, Up[i - 1])
                   \cup UNION {oneChild(s[1], s[2]) : s \in {x \in proof.path[n - i + 1] : x[1] # nib}}
  IN  v = proof.valueHash /\ Up[n] = proof.root

----------------------------------------------------------------------------
\* Whatever was written, read and dropped before, and whichever hashes are kept, the root commits
\* to exactly the key-value map (the kept `below` of leafHash, the dirty marks of _put and _drop).
RootCommits == getRoot = {<<k, entries[k]>> : k \in DOMAIN entries}

\* The compressed shape is a function of the key set: a leaf stands at the first depth where it
\* is alone and every path that two keys share is a branch, so _drop undoes the splits of _put.
ShapeCanonical ==
  LET above(p) == {k \in DOMAIN entries : p \in Paths(k)}
      paths == UNION {Paths(k) : k \in DOMAIN entries}
  IN  /\ {p \in DOMAIN tree : tree[p].leaf}
           = {p \in paths \ {<<>>} : Cardinality(above(p)) = 1 /\
                (Len(p) = 1 \/ Cardinality(above(Front(p))) > 1)}
      /\ {p \in DOMAIN tree : ~tree[p].leaf} = {<<>>} \cup {p \in paths : Cardinality(above(p)) > 1}

\* A generated proof verifies for the key and value it is about, for no other value, and for no
\* other key, although verifyProof counts its depth from the end of the path it is given.
ProofsSound ==
  \A k \in DOMAIN entries :
    LET proof == generateProof(k)
    IN  \A x \in KeyHash, v \in ValueHash : verifyProof(x, v, proof) <=> (x = k /\ v = entries[k])
=============================================================================
