------------------------------- MODULE Ledger -------------------------------
(***************************************************************************)
(* One node's cubic ledger with agreement on (ledger.js), and the          *)
(* adoption of a synced cube into it (cube-sync-manager.js adopt).         *)
(*                                                                         *)
(* A transaction is its content key.  A key holds for both of its names,   *)
(* event:hash and xid, since every check in the code consults both.  The   *)
(* order of keys is the order of block hashes.  A face is its set of       *)
(* blocks, a cube its set of faces: roots and ids are compared for         *)
(* equality only.                                                          *)
(*                                                                         *)
(* A step ends where the code awaits the store.  Each caller of the ledger *)
(* is a job with a stage: admissions (one per finalized transaction, they  *)
(* overlap), the L1 and the L2 seal round, an eviction, an adoption and a  *)
(* canonical rebuild.                                                      *)
(***************************************************************************)
EXTENDS Naturals, FiniteSets, FiniteSetsExt

CONSTANTS
  Key,          \* content keys, a finite set of naturals
  Anchor,       \* the keys that are anchors
  Admission,    \* names for addSealedBatch calls that may overlap
  FaceSize,     \* blocks of a face, 9 in the code
  CubeFaces,    \* faces of a cube, 3 in the code
  Kinds,        \* what may be offered: a subset of OfferKind
  Foreign,      \* cubes a peer may offer for adoption
  Feeds,        \* the canonical anchor sets a rebuild may be handed
  MaxCrash,     \* bound: restarts
  MaxRequest    \* bound: offers, evictions, adoptions and rebuilds begun

OfferKind == {"good", "badsig", "untyped", "mismatch", "malformed"}
Face == {f \in SUBSET Key : Cardinality(f) = FaceSize}
Cube == {c \in SUBSET Face : Cardinality(c) = CubeFaces /\ Cardinality(UNION c) = CubeFaces * FaceSize}

ASSUME LedgerAssumption ==
  /\ IsFiniteSet(Key) /\ Key \subseteq Nat /\ Anchor \subseteq Key /\ IsFiniteSet(Admission)
  /\ FaceSize \in Nat \ {0} /\ CubeFaces \in Nat \ {0}
  /\ Kinds \subseteq OfferKind /\ Foreign \subseteq Cube /\ Feeds \subseteq SUBSET Anchor
  /\ MaxCrash \in Nat /\ MaxRequest \in Nat

VARIABLES
  pool, faces, reserved, evicted,       \* memory: _membershipPool, _pendingCubeFaces, _anchorKeys, _evicted
  rows, place, dPool, dFaces, dCubes,   \* store: block:, its location, pool:membership, pool:pendingfaces, cube:
  dEvicted,                             \* store: evicted:
  adm, l1, l2, ev, ad, rb,              \* the jobs
  crashes, requests,                      \* counters for the bounds
  raced, adopted                        \* history: a rebuild met another job; what was adopted

memVars == <<pool, faces, reserved, evicted>>
diskVars == <<rows, place, dPool, dFaces, dCubes, dEvicted>>
jobVars == <<adm, l1, l2, ev, ad, rb>>
history == <<raced, adopted>>
ledgerVars == <<memVars, diskVars, jobVars, crashes, requests, history>>

NoCube == {}
NoJob == [at |-> "idle"]
Idle(j) == j.at = "idle"

\* The blocks of a cube.
Blocks(c) == UNION c

\* Some job other than the rebuild is under way.
Busy == ~(Idle(l1) /\ Idle(l2) /\ Idle(ad) /\ \A a \in Admission : Idle(adm[a]))

Init ==
  /\ pool = {} /\ faces = {} /\ reserved = {} /\ evicted = {}
  /\ rows = {} /\ place = [k \in Key |-> NoCube]
  /\ dPool = {} /\ dFaces = {} /\ dCubes = {} /\ dEvicted = {}
  /\ adm = [a \in Admission |-> NoJob]
  /\ l1 = NoJob /\ l2 = NoJob /\ ev = NoJob /\ ad = NoJob /\ rb = NoJob
  /\ crashes = 0 /\ requests = 0
  /\ raced = FALSE /\ adopted = {}

----------------------------------------------------------------------------
(* Admission: addSealedBatch for one transaction.                          *)

\* Mutant of Offer: the anchor's key is not looked up.
OfferNoDedup(a, k, kind) ==
  /\ Idle(adm[a])
  /\ requests < MaxRequest
  /\ requests' = requests + 1
  /\ k \notin evicted
  /\ reserved' = reserved \cup ({k} \cap Anchor)
  /\ adm' = [adm EXCEPT ![a] = [at |-> "verify", key |-> k, kind |-> kind]]
  /\ UNCHANGED <<pool, faces, evicted, diskVars, l1, l2, ev, ad, rb, crashes, history>>

\* The doors: evicted, or an anchor that is already held. Then an anchor's key is claimed and
\* the signature check is awaited.
Offer(a, k, kind) ==
  /\ Idle(adm[a])
  /\ requests < MaxRequest
  /\ requests' = requests + 1
  /\ \/ /\ k \in evicted \/ k \in Anchor \cap reserved
        /\ UNCHANGED <<reserved, adm>>
     \/ /\ k \notin evicted /\ k \notin Anchor \cap reserved
        /\ reserved' = reserved \cup ({k} \cap Anchor)
        /\ adm' = [adm EXCEPT ![a] = [at |-> "verify", key |-> k, kind |-> kind]]
  /\ UNCHANGED <<pool, faces, evicted, diskVars, l1, l2, ev, ad, rb, crashes, history>>

\* A signature that does not verify is thrown to the caller.
RefuseSignature(a) ==
  /\ adm[a].at = "verify"
  /\ adm[a].kind = "badsig"
  /\ adm' = [adm EXCEPT ![a] = NoJob]
  /\ UNCHANGED <<memVars, diskVars, l1, l2, ev, ad, rb, crashes, requests, history>>

\* Block.fromTransaction refuses: the key is released. An untyped transaction is only refused, a
\* mismatched one is evicted under a digest of its own bytes, which is no key of a genuine one.
Refuse(a) ==
  /\ adm[a].at = "verify"
  /\ adm[a].kind \in {"untyped", "mismatch"}
  /\ reserved' = reserved \ {adm[a].key}
  /\ adm' = [adm EXCEPT ![a] = NoJob]
  /\ UNCHANGED <<pool, faces, evicted, diskVars, l1, l2, ev, ad, rb, crashes, requests, history>>

\* Refused for its shape: the key is released and evict(contentKey) starts, up to its first write.
RefuseShape(a) ==
  /\ adm[a].at = "verify"
  /\ adm[a].kind = "malformed"
  /\ reserved' = reserved \ {adm[a].key}
  /\ evicted' = evicted \cup {adm[a].key}
  /\ adm' = [adm EXCEPT ![a] = [at |-> "evict", key |-> adm[a].key]]
  /\ UNCHANGED <<pool, faces, diskVars, l1, l2, ev, ad, rb, crashes, requests, history>>

\* A block that is not in the pool joins it; the write of its row is awaited.
Admit(a) ==
  LET k == adm[a].key
  IN  /\ adm[a].at = "verify"
      /\ adm[a].kind = "good"
      /\ pool' = pool \cup {k}
      /\ adm' = [adm EXCEPT ![a] = IF k \in pool THEN NoJob ELSE [at |-> "row", key |-> k]]
      /\ UNCHANGED <<faces, reserved, evicted, diskVars, l1, l2, ev, ad, rb, crashes, requests, history>>

\* Mutant of AdmitSave: the pool is not saved.
AdmitSaveRowOnly(a) ==
  /\ adm[a].at = "row"
  /\ rows' = rows \cup {adm[a].key}
  /\ adm' = [adm EXCEPT ![a] = NoJob]
  /\ UNCHANGED <<memVars, place, dPool, dFaces, dCubes, dEvicted, l1, l2, ev, ad, rb, crashes, requests, history>>

\* The row is written and the pool as it is now is saved.
AdmitSave(a) ==
  /\ adm[a].at = "row"
  /\ rows' = rows \cup {adm[a].key}
  /\ dPool' = pool
  /\ adm' = [adm EXCEPT ![a] = NoJob]
  /\ UNCHANGED <<memVars, place, dFaces, dCubes, dEvicted, l1, l2, ev, ad, rb, crashes, requests, history>>

----------------------------------------------------------------------------
(* Eviction: the list first, then the rows, then the pool.                 *)

\* Mutant of EvictBegin: the list in memory is forgotten.
EvictBeginDiskOnly(k) ==
  /\ Idle(ev)
  /\ requests < MaxRequest
  /\ requests' = requests + 1
  /\ k \notin evicted
  /\ ev' = [at |-> "list", key |-> k]
  /\ UNCHANGED <<memVars, diskVars, adm, l1, l2, ad, rb, crashes, history>>

\* evict: the key is on the list in memory, and its entry is being written.
EvictBegin(k) ==
  /\ Idle(ev)
  /\ requests < MaxRequest
  /\ requests' = requests + 1
  /\ k \notin evicted
  /\ evicted' = evicted \cup {k}
  /\ ev' = [at |-> "list", key |-> k]
  /\ UNCHANGED <<pool, faces, reserved, diskVars, adm, l1, l2, ad, rb, crashes, history>>

\* The entry is on disk; the anchor's key is released.
Listed(k) ==
  /\ dEvicted' = dEvicted \cup {k}
  /\ reserved' = reserved \ {k}
  /\ UNCHANGED <<pool, faces, evicted, rows, place, dPool, dFaces, dCubes>>

\* Mutant of Dropped: the cubes that hold the block are deleted along with it.
DroppedWithCubes(k) ==
  /\ rows' = rows \ {k}
  /\ place' = [place EXCEPT ![k] = NoCube]
  /\ pool' = pool \ {k}
  /\ dPool' = IF k \in pool THEN pool' ELSE dPool
  /\ dCubes' = {c \in dCubes : k \notin Blocks(c)}
  /\ UNCHANGED <<faces, reserved, evicted, dFaces, dEvicted>>

\* The rows are gone; the pool drops the key, and is saved if it had it.
Dropped(k) ==
  /\ rows' = rows \ {k}
  /\ place' = [place EXCEPT ![k] = NoCube]
  /\ pool' = pool \ {k}
  /\ dPool' = IF k \in pool THEN pool' ELSE dPool
  /\ UNCHANGED <<faces, reserved, evicted, dFaces, dCubes, dEvicted>>

EvictList ==
  \/ /\ ev.at = "list"
     /\ Listed(ev.key)
     /\ ev' = [ev EXCEPT !.at = "rows"]
     /\ UNCHANGED <<adm, l1, l2, ad, rb, crashes, requests, history>>
  \/ \E a \in Admission :
     /\ adm[a].at = "evict"
     /\ Listed(adm[a].key)
     /\ adm' = [adm EXCEPT ![a].at = "rows"]
     /\ UNCHANGED <<ev, l1, l2, ad, rb, crashes, requests, history>>

EvictDrop ==
  \/ /\ ev.at = "rows"
     /\ Dropped(ev.key)
     /\ ev' = NoJob
     /\ UNCHANGED <<adm, l1, l2, ad, rb, crashes, requests, history>>
  \/ \E a \in Admission :
     /\ adm[a].at = "rows"
     /\ Dropped(adm[a].key)
     /\ adm' = [adm EXCEPT ![a] = NoJob]
     /\ UNCHANGED <<ev, l1, l2, ad, rb, crashes, requests, history>>

----------------------------------------------------------------------------
(* The seal rounds' callbacks.                                             *)

\* sealAgreedBlocks: all members must be pooled; their rows are written again.
SealBlocks(f) ==
  /\ Idle(l1)
  /\ f \subseteq pool
  /\ l1' = [at |-> "rows", face |-> f]
  /\ UNCHANGED <<memVars, diskVars, adm, l2, ev, ad, rb, crashes, requests, history>>

\* The members leave the pool, the face is queued, the pool is saved.
CommitFace ==
  /\ l1.at = "rows"
  /\ rows' = rows \cup l1.face
  /\ pool' = pool \ l1.face
  /\ faces' = faces \cup {l1.face}
  /\ dPool' = pool'
  /\ l1' = [l1 EXCEPT !.at = "faces"]
  /\ UNCHANGED <<reserved, evicted, place, dFaces, dCubes, dEvicted, adm, l2, ev, ad, rb, crashes, requests, history>>

SaveFaces ==
  /\ l1.at = "faces"
  /\ dFaces' = faces
  /\ l1' = NoJob
  /\ UNCHANGED <<memVars, rows, place, dPool, dCubes, dEvicted, adm, l2, ev, ad, rb, crashes, requests, history>>

\* sealAgreedCube: the faces leave the list, which is saved before the cube exists anywhere.
SealCube(c) ==
  /\ Idle(l2)
  /\ c \subseteq faces
  /\ faces' = faces \ c
  /\ dFaces' = faces'
  /\ l2' = [at |-> "cube", cube |-> c]
  /\ UNCHANGED <<pool, reserved, evicted, rows, place, dPool, dCubes, dEvicted, adm, l1, ev, ad, rb, crashes, requests, history>>

\* _finalizeCube: the record, then the members' rows with the cube they are in.
PutCube ==
  /\ l2.at = "cube"
  /\ dCubes' = dCubes \cup {l2.cube}
  /\ l2' = [l2 EXCEPT !.at = "members"]
  /\ UNCHANGED <<memVars, rows, place, dPool, dFaces, dEvicted, adm, l1, ev, ad, rb, crashes, requests, history>>

\* Every row of the cube's blocks, located in it.
Locate(c) ==
  /\ rows' = rows \cup Blocks(c)
  /\ place' = [k \in Key |-> IF k \in Blocks(c) THEN c ELSE place[k]]

PutMembers ==
  /\ l2.at = "members"
  /\ Locate(l2.cube)
  /\ l2' = NoJob
  /\ UNCHANGED <<memVars, dPool, dFaces, dCubes, dEvicted, adm, l1, ev, ad, rb, crashes, requests, history>>

----------------------------------------------------------------------------
(* Adoption of a verified cube: planAdoption, then the writes, then the    *)
(* members that were pooled when it was planned leave the pool.            *)

\* What adopting c will write and which pooled members it will take out.
planAdoption(c) == [at |-> "members", cube |-> c, drop |-> pool \cap Blocks(c)]

Adopt(c) ==
  /\ Idle(ad)
  /\ requests < MaxRequest
  /\ requests' = requests + 1
  /\ c \notin dCubes
  /\ dCubes' = dCubes \cup {c}
  /\ ad' = planAdoption(c)
  /\ adopted' = adopted \cup Blocks(c)
  /\ UNCHANGED <<memVars, rows, place, dPool, dFaces, dEvicted, adm, l1, l2, ev, rb, crashes, raced>>

AdoptMembers ==
  /\ ad.at = "members"
  /\ Locate(ad.cube)
  /\ pool' = pool \ ad.drop
  /\ ad' = NoJob
  /\ UNCHANGED <<faces, reserved, evicted, dPool, dFaces, dCubes, dEvicted, adm, l1, l2, ev, rb, crashes, requests, history>>

----------------------------------------------------------------------------
(* The canonical rebuild.                                                  *)

\* Mutant of Rebuildable: the eviction list is not consulted.
RebuildableAll(feed) == feed

\* What the anchors of a feed would rebuild to.
Rebuildable(feed) == feed \ evicted

\* The dry pass refuses a feed that would empty the chain; then the scan of the rows is awaited.
RebuildScan(feed) ==
  /\ Idle(rb)
  /\ requests < MaxRequest
  /\ requests' = requests + 1
  /\ \/ rows \cup pool = {}
     \/ Rebuildable(feed) # {}
  /\ rb' = [at |-> "scan", feed |-> feed, keep |-> {k \in rows : k \notin Anchor /\ k \notin evicted}]
  /\ UNCHANGED <<memVars, diskVars, adm, l1, l2, ev, ad, crashes, history>>

\* Memory is reset and the three keyspaces are cleared.
RebuildWipe ==
  /\ rb.at = "scan"
  /\ pool' = {} /\ faces' = {} /\ reserved' = {}
  /\ rows' = {} /\ place' = [k \in Key |-> NoCube]
  /\ dPool' = {} /\ dFaces' = {} /\ dCubes' = {}
  /\ rb' = [rb EXCEPT !.at = "admit"]
  /\ raced' = (raced \/ Busy)
  /\ UNCHANGED <<evicted, dEvicted, adm, l1, l2, ev, ad, crashes, requests, adopted>>

\* The anchors and what was rescued are pooled, every full chunk is sealed into faces and the faces
\* into cubes by slot; the rest stays pooled and the pool is saved. An anchor gets a row when sealed.
RankIn(S, k) == Cardinality({x \in S : x < k})
RebuiltFace(S, i) == {k \in S : RankIn(S, k) \div FaceSize = i}
RebuiltFaces(S) == {RebuiltFace(S, i) : i \in 0 .. (Cardinality(S) \div FaceSize) - 1}
\* Which cubes the slots give depends on the faces' roots: any disjoint choice.
RebuiltCubes(S) == {C \in SUBSET {c \in SUBSET RebuiltFaces(S) : Cardinality(c) = CubeFaces} :
                      \A c, d \in C : c # d => c \cap d = {}}

RebuildAdmit ==
  LET back == Rebuildable(rb.feed)
      all  == pool \cup back \cup rb.keep
  IN  /\ rb.at = "admit"
      /\ \E C \in RebuiltCubes(all) :
           /\ dCubes' = dCubes \cup C
           /\ pool' = RebuiltFace(all, Cardinality(all) \div FaceSize)
           /\ rows' = rows \cup rb.keep \cup UNION RebuiltFaces(all)
      /\ reserved' = reserved \cup back
      /\ dPool' = pool'
      /\ rb' = NoJob
      /\ raced' = (raced \/ Busy \/ faces # {} \/ dCubes # {})
      /\ UNCHANGED <<faces, evicted, place, dFaces, dEvicted, adm, l1, l2, ev, ad, crashes, requests, adopted>>

----------------------------------------------------------------------------
(* The end of the process, and _rehydratePools at the next start.          *)

Crash ==
  LET back == {f \in dFaces : f \subseteq rows}
  IN  /\ crashes < MaxCrash
      /\ crashes' = crashes + 1
      /\ pool' = dPool \cap rows
      /\ faces' = back
      /\ reserved' = rows \cap Anchor
      /\ evicted' = dEvicted
      /\ adm' = [a \in Admission |-> NoJob]
      /\ l1' = NoJob /\ l2' = NoJob /\ ev' = NoJob /\ ad' = NoJob /\ rb' = NoJob
      /\ UNCHANGED <<diskVars, requests, history>>

Next ==
  \/ \E a \in Admission :
       \/ \E k \in Key, kind \in Kinds : Offer(a, k, kind)
       \/ RefuseSignature(a) \/ Refuse(a) \/ RefuseShape(a) \/ Admit(a) \/ AdmitSave(a)
  \/ \E k \in Key : EvictBegin(k)
  \/ EvictList \/ EvictDrop
  \/ \E f \in Face : SealBlocks(f)
  \/ CommitFace \/ SaveFaces
  \/ \E c \in Cube : SealCube(c)
  \/ PutCube \/ PutMembers
  \/ \E c \in Foreign : Adopt(c)
  \/ AdoptMembers
  \/ \E feed \in Feeds : RebuildScan(feed)
  \/ RebuildWipe \/ RebuildAdmit
  \/ Crash

LedgerSpec == Init /\ [][Next]_ledgerVars

----------------------------------------------------------------------------
(* Properties.                                                             *)

TypeOK ==
  /\ pool \subseteq Key /\ reserved \subseteq Anchor /\ evicted \subseteq Key /\ dEvicted \subseteq evicted
  /\ faces \subseteq Face /\ dFaces \subseteq Face /\ dCubes \subseteq Cube
  /\ rows \subseteq Key /\ dPool \subseteq Key /\ place \in [Key -> Cube \cup {NoCube}]

\* The faces that are on their way into a cube record.
Sealing == IF l2.at = "cube" THEN l2.cube ELSE {}
SealedKeys == UNION {Blocks(c) : c \in dCubes}
Homed == pool \cup (UNION faces) \cup (UNION Sealing) \cup SealedKeys

\* An anchor is one block, for ever (the content dedup of addTransaction and addSealedBatch): it is
\* pooled, or in one face, or in one cube. Adopted cubes, and a rebuild that meets another job, are
\* the exceptions: neither looks at what is being sealed.
AnchorOnce ==
  raced \/ \A k \in Anchor \ adopted :
    Cardinality({c \in dCubes : k \in Blocks(c)}) + Cardinality({f \in faces \cup Sealing : k \in f})
      + Cardinality({k} \cap pool) =< 1

\* The writes under way whose loss loses the block: the row of an admission, the list of faces after
\* the pool was saved without the blocks (sealAgreedBlocks), the cube after the list of faces was
\* saved without its faces (sealAgreedCube).
Unsaved(k) ==
  \/ \E a \in Admission : adm[a].at = "row"
  \/ l1.at = "faces" /\ k \in l1.face
  \/ l2.at = "cube" /\ k \in UNION l2.cube

\* A pending face with an evicted block in it. A restart that finds the block's row gone "drops the
\* face entirely rather than seal it short" (_rehydratePools), and its other blocks with it.
Short(k) == \E f \in faces : k \in f /\ f \cap dEvicted # {}

\* What a step may never do: take a block that has a row out of the ledger. It leaves only by
\* eviction, by a rebuild, or by a restart while one of the writes above is under way or its face
\* lost a block to an eviction.
KeptStep ==
  \A k \in rows \cap Homed :
    \/ k \in Homed'
    \/ k \in evicted
    \/ ~Idle(rb) \/ raced
    \/ crashes' > crashes /\ (Unsaved(k) \/ Short(k))
Kept == [][KeptStep]_ledgerVars

\* isEvictedRow and the doors of the admission: while the node runs, a block on the eviction list
\* comes back only with an admission that passed the door before it was listed, with a seal or an
\* adoption that had begun, or among the rows a rebuild had rescued before.
NotRebuiltStep ==
  \A k \in dEvicted \ (pool \cup rows) :
    k \in pool' \cup rows' =>
      \/ crashes' > crashes
      \/ \E a \in Admission : adm[a].at \in {"verify", "row"} /\ adm[a].key = k
      \/ l1.at = "rows" /\ k \in l1.face
      \/ l2.at = "members" \/ ad.at = "members"
      \/ rb.at = "admit" /\ k \in rb.keep
EvictedNotRebuilt == [][NotRebuiltStep]_ledgerVars

\* "if a tx is invalid, it's evicted and never seen again": no evicted block is pooled.
EvictedStaysOut == \A k \in dEvicted : k \in pool => ~Idle(ev) \/ \E a \in Admission : ~Idle(adm[a])

\* The ledger implements the life of a block.
HomeOf(k) == CASE k \in SealedKeys -> "sealed"
               [] k \in (UNION (faces \cup Sealing)) \ SealedKeys -> "faced"
               [] k \in pool \ (SealedKeys \cup UNION (faces \cup Sealing)) -> "pooled"
               [] OTHER -> "out"

Life == INSTANCE BlockLife WITH
          CubeSize <- FaceSize * CubeFaces,
          home <- [k \in Key |-> HomeOf(k)],
          rebuilding <- (rb.at = "admit"),
          boots <- crashes

\* Every step of the ledger is a step of the abstract life: a block rises face by face and cube by
\* cube, a sealed block stays sealed, and only the wipe of a rebuild takes the chain down.
ImplementsLife == Life!LifeSpec

=============================================================================
