---------------------------- MODULE LedgerProofs ----------------------------
(***************************************************************************)
(* Theorems about Ledger, for every set of keys and anchors, every size of *)
(* a face and of a cube, any number of overlapping admissions and any      *)
(* number of restarts and requests.                                        *)
(***************************************************************************)
EXTENDS Ledger, FiniteSetTheorems, TLAPS

-----------------------------------------------------------------------------
(* The invariants the proofs rest on. *)

\* The shapes a job's record takes on its way.
AdmissionJob ==
  {NoJob}
  \cup [at : {"verify"}, key : Key, kind : OfferKind]
  \cup [at : {"evict", "rows", "row"}, key : Key]
FaceJob == {NoJob} \cup [at : {"rows", "faces"}, face : Face]
CubeJob == {NoJob} \cup [at : {"cube", "members"}, cube : Cube]
EvictJob == {NoJob} \cup [at : {"list", "rows"}, key : Key]
AdoptJob == {NoJob} \cup [at : {"members"}, cube : Cube, drop : SUBSET Key]
RebuildJob == {NoJob} \cup [at : {"scan", "admit"}, feed : SUBSET Anchor, keep : SUBSET (Key \ Anchor)]

JobsOK ==
  /\ adm \in [Admission -> AdmissionJob]
  /\ l1 \in FaceJob /\ l2 \in CubeJob /\ ev \in EvictJob /\ ad \in AdoptJob /\ rb \in RebuildJob
  /\ crashes \in Nat /\ raced \in BOOLEAN

\* An eviction works on a key that is on the list, in memory from its start and on disk by the time
\* it deletes the rows.
EvictingOK ==
  /\ ev.at # "idle" => ev.key \in evicted
  /\ ev.at = "rows" => ev.key \in dEvicted
  /\ \A a \in Admission :
       /\ adm[a].at \in {"evict", "rows"} => adm[a].key \in evicted
       /\ adm[a].at = "rows" => adm[a].key \in dEvicted

\* What memory has and the store lacks is what some write under way carries.
SavedOK ==
  /\ pool \subseteq dPool \/ \E a \in Admission : adm[a].at = "row"
  /\ \A f \in faces : f \in dFaces \/ (l1.at = "faces" /\ f = l1.face)
  /\ \A f \in faces : f \subseteq rows \cup dEvicted
  /\ rb.at = "admit" => dFaces \subseteq faces

\* An adoption takes out of the pool only members of the cube it has recorded.
AdoptingOK ==
  ad.at = "members" =>
    /\ ad.drop \subseteq Blocks(ad.cube) /\ Blocks(ad.cube) \subseteq adopted
    /\ raced \/ ad.cube \in dCubes

TypeInv == TypeOK /\ JobsOK /\ EvictingOK
StoreInv == SavedOK /\ AdoptingOK

\* Where one anchor may be, in memory and on disk.
Verifying(a, k) == adm[a].at = "verify" /\ adm[a].key = k
Loose(k)   == k \in pool \/ (l1.at = "rows" /\ k \in l1.face)
InFaces(k) == \E f \in faces : k \in f
InSealing(k) == l2.at = "cube" /\ \E f \in l2.cube : k \in f
OnFaces(k) == \E f \in dFaces : k \in f
InCubes(k) == \E c \in dCubes : \E f \in c : k \in f
Firm(k)    == InFaces(k) \/ InSealing(k) \/ OnFaces(k) \/ InCubes(k)

\* An anchor under verification is nowhere else, a loose one is not firm, a face holds it or a cube
\* does but not both, and no two faces, cubes or verifications have it.
Apart(k) ==
  /\ \A a \in Admission : Verifying(a, k) => ~Loose(k) /\ ~Firm(k)
  /\ \A a, b \in Admission : Verifying(a, k) /\ Verifying(b, k) => a = b
  /\ Loose(k) => ~Firm(k)
  /\ InSealing(k) => ~InFaces(k) /\ ~OnFaces(k)
  /\ InCubes(k) => ~InFaces(k) /\ ~InSealing(k) /\ ~OnFaces(k)
  /\ \A f, g \in faces : k \in f /\ k \in g => f = g
  /\ \A f, g \in dFaces : k \in f /\ k \in g => f = g
  /\ l2.at = "cube" => \A f, g \in l2.cube : k \in f /\ k \in g => f = g
  /\ \A c, d \in dCubes : (\E f \in c : k \in f) /\ (\E f \in d : k \in f) => c = d

\* The reservation that keeps a second copy out: an anchor that is anywhere is claimed or evicted,
\* and a firm one has what a restart rebuilds the claim from and is not in the saved pool as well.
Claimed(k) ==
  /\ (\E a \in Admission : Verifying(a, k)) \/ Loose(k) \/ Firm(k) => k \in reserved \/ k \in evicted
  /\ Firm(k) => (k \in rows \/ k \in dEvicted) /\ k \notin dPool

OnceInv == raced \/ \A k \in Anchor \ adopted : Apart(k) /\ Claimed(k)

-----------------------------------------------------------------------------
(* Faces and cubes as finite sets. *)

\* A face is a finite set of keys, and a cube of faces has as many blocks as its faces together.
LEMMA FaceFacts ==
  /\ \A f \in Face : f \subseteq Key /\ IsFiniteSet(f) /\ Cardinality(f) = FaceSize
  /\ \A c \in Cube : /\ c \subseteq Face /\ UNION c \subseteq Key /\ IsFiniteSet(UNION c)
                     /\ Cardinality(UNION c) = FaceSize * CubeFaces
<1>1. ASSUME NEW f \in Face PROVE f \subseteq Key /\ IsFiniteSet(f) /\ Cardinality(f) = FaceSize
  BY FS_Subset, LedgerAssumption DEF Face
<1>2. ASSUME NEW c \in Cube
      PROVE  /\ c \subseteq Face /\ UNION c \subseteq Key /\ IsFiniteSet(UNION c)
             /\ Cardinality(UNION c) = FaceSize * CubeFaces
  <2>1. c \subseteq Face /\ UNION c \subseteq Key /\ Cardinality(UNION c) = CubeFaces * FaceSize
    BY DEF Cube, Face
  <2>2. CubeFaces * FaceSize = FaceSize * CubeFaces
    BY LedgerAssumption
  <2>3. IsFiniteSet(UNION c)
    BY <2>1, FS_Subset, LedgerAssumption
  <2> QED BY <2>1, <2>2, <2>3
<1> QED BY <1>1, <1>2

\* Disjoint sets of n elements each have n elements for each of them.
LEMMA DisjointUnion ==
  ASSUME NEW c, IsFiniteSet(c), NEW n \in Nat,
         \A f \in c : IsFiniteSet(f) /\ Cardinality(f) = n,
         \A f, g \in c : f # g => f \cap g = {}
  PROVE  Cardinality(UNION c) = Cardinality(c) * n
<1> DEFINE of(k) == CHOOSE f \in c : k \in f
           num(f) == CHOOSE b : b \in Bijection(f, 1 .. n)
           M == [k \in UNION c |-> <<of(k), num(of(k))[k]>>]
<1>1. ASSUME NEW k \in UNION c PROVE of(k) \in c /\ k \in of(k)
  OBVIOUS
<1>2. ASSUME NEW f \in c PROVE num(f) \in Bijection(f, 1 .. n)
  <2>1. IsFiniteSet(1 .. n) /\ Cardinality(1 .. n) = n
    BY FS_Interval
  <2>2. ExistsBijection(f, 1 .. n)
    BY <2>1, FS_SameCardinalityBij
  <2> QED BY <2>2 DEF ExistsBijection
<1>3. ASSUME NEW k \in UNION c, NEW f \in c, k \in f PROVE of(k) = f
  BY <1>1, <1>3
<1> HIDE DEF of, num
<1>4. M \in [UNION c -> c \X (1 .. n)]
  BY <1>1, <1>2 DEF Bijection, Injection
<1>5. ASSUME NEW j \in UNION c, NEW k \in UNION c, M[j] = M[k] PROVE j = k
  <2>1. of(j) = of(k) /\ num(of(j))[j] = num(of(j))[k]
    BY <1>5
  <2>2. num(of(j)) \in Injection(of(j), 1 .. n)
    BY <1>1, <1>2 DEF Bijection
  <2> QED BY <1>1, <2>1, <2>2 DEF Injection, IsInjective
<1>6. ASSUME NEW f \in c, NEW i \in 1 .. n PROVE \E k \in UNION c : M[k] = <<f, i>>
  <2>1. num(f) \in Surjection(f, 1 .. n)
    BY <1>2 DEF Bijection
  <2>2. PICK k \in f : num(f)[k] = i
    BY <2>1 DEF Surjection
  <2>3. k \in UNION c /\ of(k) = f
    BY <1>3
  <2> QED BY <2>2, <2>3
<1> HIDE DEF M
<1>7. M \in Bijection(UNION c, c \X (1 .. n))
  <2>1. M \in Injection(UNION c, c \X (1 .. n))
    BY <1>4, <1>5 DEF Injection, IsInjective
  <2>2. ASSUME NEW t \in c \X (1 .. n) PROVE \E k \in UNION c : M[k] = t
    <3>1. PICK f \in c, i \in 1 .. n : t = <<f, i>>
      OBVIOUS
    <3> QED BY <1>6, <3>1
  <2>3. M \in Surjection(UNION c, c \X (1 .. n))
    BY <1>4, <2>2 DEF Surjection
  <2> QED BY <2>1, <2>3 DEF Bijection
<1>8. IsFiniteSet(UNION c)
  BY FS_UNION
<1>9. Cardinality(c \X (1 .. n)) = Cardinality(UNION c)
  BY <1>7, <1>8, FS_Bijection DEF ExistsBijection
<1>10. Cardinality(c \X (1 .. n)) = Cardinality(c) * n
  <2>1. IsFiniteSet(1 .. n) /\ Cardinality(1 .. n) = n
    BY FS_Interval
  <2>2. Cardinality(c \X (1 .. n)) = Cardinality(c) * Cardinality(1 .. n)
    BY <2>1, FS_Product
  <2> QED BY <2>1, <2>2
<1> QED BY <1>9, <1>10

-----------------------------------------------------------------------------
(* What a rebuild seals. *)

\* The rank of a key is its place in the order: below the number of keys, and no two have the same.
LEMMA RankFacts ==
  ASSUME NEW S \in SUBSET Key
  PROVE  /\ IsFiniteSet(S) /\ Cardinality(S) \in Nat
         /\ [k \in S |-> RankIn(S, k)] \in Bijection(S, 0 .. Cardinality(S) - 1)
<1> DEFINE below(k) == {x \in S : x < k}
           n == Cardinality(S)
           R == [k \in S |-> RankIn(S, k)]
<1>1. IsFiniteSet(S) /\ n \in Nat
  BY FS_Subset, FS_CardinalityType, LedgerAssumption
<1>2. S \subseteq Nat
  BY LedgerAssumption
<1>3. ASSUME NEW k \in S PROVE RankIn(S, k) \in 0 .. n - 1
  <2>1. below(k) \in SUBSET S /\ k \notin below(k)
    BY <1>2
  <2>2. Cardinality(below(k)) =< n /\ IsFiniteSet(below(k)) /\ (n = Cardinality(below(k)) => S = below(k))
    BY <1>1, <2>1, FS_Subset
  <2>3. Cardinality(below(k)) \in Nat
    BY <2>2, FS_CardinalityType
  <2> QED BY <1>1, <2>1, <2>2, <2>3 DEF RankIn
<1>4. ASSUME NEW j \in S, NEW k \in S, j < k PROVE RankIn(S, j) < RankIn(S, k)
  <2> j \in Nat /\ k \in Nat /\ \A x \in S : x \in Nat
    BY <1>2
  <2>1. below(j) \in SUBSET below(k) /\ j \in below(k) /\ j \notin below(j)
    <3>1. ASSUME NEW x \in S, x < j PROVE x < k
      BY <1>4, <3>1
    <3>2. ~(j < j)
      OBVIOUS
    <3>3. j \in below(k) /\ j \notin below(j)
      BY <1>4, <3>2
    <3>4. below(j) \subseteq below(k)
      BY <3>1
    <3> QED BY <3>3, <3>4
  <2>2. IsFiniteSet(below(k)) /\ IsFiniteSet(below(j))
    BY <1>1, FS_Subset
  <2>3. Cardinality(below(j)) =< Cardinality(below(k)) /\ Cardinality(below(j)) # Cardinality(below(k))
    BY <2>1, <2>2, FS_Subset
  <2>4. Cardinality(below(j)) \in Nat /\ Cardinality(below(k)) \in Nat
    BY <2>2, FS_CardinalityType
  <2> QED BY <2>3, <2>4 DEF RankIn
<1>5. R \in Injection(S, 0 .. n - 1)
  <2>1. R \in [S -> 0 .. n - 1]
    BY <1>3
  <2>2. ASSUME NEW j \in S, NEW k \in S, R[j] = R[k] PROVE j = k
    <3>1. j \in Nat /\ k \in Nat /\ RankIn(S, j) = RankIn(S, k) /\ RankIn(S, j) \in Nat
      BY <1>2, <1>3, <2>2
    <3> QED BY <1>4, <3>1
  <2> HIDE DEF R
  <2> QED BY <2>1, <2>2 DEF Injection, IsInjective
<1>6. Cardinality(0 .. n - 1) = n /\ IsFiniteSet(0 .. n - 1)
  BY <1>1, FS_Interval
<1>7. R \in Surjection(S, 0 .. n - 1)
  <2> HIDE DEF R
  <2> QED BY <1>5, <1>6, FS_Injection
<1> QED BY <1>1, <1>5, <1>7 DEF Bijection

\* Division with a size that is not zero.
LEMMA DivFacts ==
  ASSUME NEW F \in Nat \ {0}, NEW r \in Nat
  PROVE  /\ r \div F \in Nat
         /\ (r \div F) * F =< r /\ r < (r \div F) * F + F
         /\ \A i \in Nat : i * F =< r /\ r < i * F + F => r \div F = i
<1>1. r \div F \in Nat /\ (r \div F) * F =< r /\ r < (r \div F) * F + F
  OBVIOUS
<1>2. ASSUME NEW q \in Nat, NEW i \in Nat, i < q PROVE i * F + F =< q * F
  BY <1>2
<1>3. ASSUME NEW i \in Nat, i * F =< r, r < i * F + F PROVE r \div F = i
  <2> DEFINE q == r \div F
  <2>1. q \in Nat /\ q * F =< r /\ r < q * F + F
    BY <1>1
  <2> HIDE DEF q
  <2>2. q * F \in Nat /\ i * F \in Nat
    BY <2>1
  <2>3. ~(q < i)
    BY <1>2, <1>3, <2>1, <2>2
  <2>4. ~(i < q)
    BY <1>2, <1>3, <2>1, <2>2
  <2>5. q = i
    BY <2>1, <2>3, <2>4
  <2> QED BY <2>5 DEF q
<1> QED BY <1>1, <1>3

\* The chunks of a rebuild are faces, no two share a block, and the rest shares none with them.
LEMMA RebuiltFacts ==
  ASSUME NEW S \in SUBSET Key
  PROVE  /\ \A i : RebuiltFace(S, i) \subseteq S
         /\ RebuiltFaces(S) \subseteq Face
         /\ \A f, g \in RebuiltFaces(S) : f # g => f \cap g = {}
         /\ \A f \in RebuiltFaces(S) : f \cap RebuiltFace(S, Cardinality(S) \div FaceSize) = {}
<1> DEFINE n == Cardinality(S)
           F == FaceSize
           q == n \div F
           R == [k \in S |-> RankIn(S, k)]
<1>1. F \in Nat \ {0} /\ n \in Nat /\ R \in Bijection(S, 0 .. n - 1)
  BY RankFacts, LedgerAssumption
<1>2. q \in Nat /\ q * F =< n
  BY <1>1, DivFacts
<1>3. \A i : RebuiltFace(S, i) \subseteq S
  BY DEF RebuiltFace
<1>4. \A f \in RebuiltFaces(S) : \E i \in 0 .. q - 1 : f = RebuiltFace(S, i)
  BY DEF RebuiltFaces
<1>5. \A i, j : i # j => RebuiltFace(S, i) \cap RebuiltFace(S, j) = {}
  BY DEF RebuiltFace
<1>6. ASSUME NEW i \in 0 .. q - 1 PROVE RebuiltFace(S, i) \in Face
  <2> DEFINE T == RebuiltFace(S, i)
             J == i * F .. i * F + F - 1
             M == [k \in T |-> RankIn(S, k)]
  <2> HIDE DEF n, q, F
  <2>1. i \in Nat /\ i * F \in Nat /\ i * F + F =< n
    <3>1. i \in Nat /\ i + 1 =< q
      BY <1>2
    <3>2. (i + 1) * F =< q * F
      BY <1>1, <1>2, <3>1
    <3>3. (i + 1) * F = i * F + F /\ i * F \in Nat /\ q * F \in Nat
      BY <1>1, <1>2, <3>1
    <3> QED BY <1>1, <1>2, <3>1, <3>2, <3>3
  <2>2. ASSUME NEW k \in S PROVE RankIn(S, k) \in 0 .. n - 1 /\ RankIn(S, k) \in Nat
    <3>1. R \in [S -> 0 .. n - 1]
      BY <1>1 DEF Bijection, Injection
    <3> QED BY <1>1, <3>1
  <2>3. ASSUME NEW k \in S PROVE k \in T <=> RankIn(S, k) \in J
    <3>1. RankIn(S, k) \in Nat
      BY <2>2
    <3>2. k \in T <=> RankIn(S, k) \div F = i
      BY DEF RebuiltFace, F
    <3> DEFINE r == RankIn(S, k)
    <3>3. r \in J <=> i * F =< r /\ r < i * F + F
      BY <1>1, <2>1, <3>1
    <3>4. r \div F = i <=> i * F =< r /\ r < i * F + F
      <4> HIDE DEF r
      <4>1. r \in Nat
        BY <3>1 DEF r
      <4> QED BY <1>1, <2>1, <4>1, DivFacts
    <3> QED BY <3>2, <3>3, <3>4
  <2>4. M \in Injection(T, J)
    <3>1. R \in Injection(S, 0 .. n - 1)
      BY <1>1 DEF Bijection
    <3>2. \A j, k \in S : RankIn(S, j) = RankIn(S, k) => j = k
      BY <3>1 DEF Injection, IsInjective
    <3>3. T \subseteq S
      BY <1>3
    <3> HIDE DEF T, J
    <3>4. M \in [T -> J]
      BY <2>3, <3>3
    <3> QED BY <3>2, <3>3, <3>4 DEF Injection, IsInjective
  <2>5. M \in Surjection(T, J)
    <3>1. ASSUME NEW r \in J PROVE \E k \in T : M[k] = r
      <4>1. r \in 0 .. n - 1
        BY <1>1, <2>1
      <4>2. PICK k \in S : RankIn(S, k) = r
        BY <1>1, <4>1 DEF Bijection, Surjection
      <4> QED BY <2>3, <4>2
    <3>2. M \in [T -> J]
      BY <2>4 DEF Injection
    <3> HIDE DEF M, T, J
    <3> QED BY <3>1, <3>2 DEF Surjection
  <2>6. IsFiniteSet(J) /\ Cardinality(J) = F
    <3>1. i * F \in Int /\ i * F + F - 1 \in Int /\ ~(i * F > i * F + F - 1)
      BY <1>1, <2>1
    <3> QED BY <1>1, <2>1, <3>1, FS_Interval
  <2>7. T \subseteq S /\ IsFiniteSet(T)
    BY <1>3, RankFacts, FS_Subset
  <2>8. Cardinality(T) = F
    <3> HIDE DEF M, T, J
    <3> QED BY <2>4, <2>5, <2>6, <2>7, FS_Bijection DEF Bijection, ExistsBijection
  <2> QED BY <2>7, <2>8 DEF Face, F
<1>7. q \notin 0 .. q - 1
  BY <1>2
<1> QED BY <1>3, <1>4, <1>5, <1>6, <1>7

\* The cubes of a rebuild are cubes of its faces, and no two share a block.
LEMMA RebuiltCubesFacts ==
  ASSUME NEW S \in SUBSET Key, NEW C \in RebuiltCubes(S)
  PROVE  /\ C \subseteq Cube
         /\ \A c \in C : c \subseteq RebuiltFaces(S)
         /\ \A c, d \in C : c # d => c \cap d = {}
<1>1. \A c \in C : c \subseteq RebuiltFaces(S) /\ Cardinality(c) = CubeFaces
  BY DEF RebuiltCubes
<1>2. \A c, d \in C : c # d => c \cap d = {}
  BY DEF RebuiltCubes
<1>3. ASSUME NEW c \in C PROVE c \in Cube
  <2>1. c \subseteq Face /\ c \subseteq RebuiltFaces(S) /\ Cardinality(c) = CubeFaces
    BY <1>1, RebuiltFacts
  <2>2. IsFiniteSet(Face)
    <3>1. IsFiniteSet(SUBSET Key)
      BY FS_SUBSET, LedgerAssumption
    <3> QED BY <3>1, FS_Subset DEF Face
  <2>3. IsFiniteSet(c)
    BY <2>1, <2>2, FS_Subset
  <2>4. \A f \in c : IsFiniteSet(f) /\ Cardinality(f) = FaceSize
    BY <2>1, FaceFacts
  <2>5. \A f, g \in c : f # g => f \cap g = {}
    BY <2>1, RebuiltFacts
  <2>6. Cardinality(UNION c) = CubeFaces * FaceSize
    BY <2>1, <2>3, <2>4, <2>5, DisjointUnion, LedgerAssumption
  <2> QED BY <2>1, <2>6 DEF Cube
<1> QED BY <1>1, <1>2, <1>3

-----------------------------------------------------------------------------
(* Type correctness. *)

\* What the record of a job holds at each stage.
LEMMA JobFacts ==
  ASSUME JobsOK
  PROVE  /\ \A a \in Admission :
              /\ adm[a].at # "idle" => adm[a].key \in Key
              /\ adm[a].at = "idle" => adm[a] = NoJob
         /\ l1.at # "idle" => l1.face \in Face /\ l1 = [at |-> l1.at, face |-> l1.face]
         /\ l2.at # "idle" => l2.cube \in Cube /\ l2 = [at |-> l2.at, cube |-> l2.cube]
         /\ ev.at # "idle" => ev.key \in Key /\ ev = [at |-> ev.at, key |-> ev.key]
         /\ ad.at # "idle" => ad.cube \in Cube /\ ad.drop \subseteq Key /\ ad.at = "members"
         /\ rb.at # "idle" => rb.feed \subseteq Anchor /\ rb.keep \subseteq Key \ Anchor
BY DEF JobsOK, AdmissionJob, FaceJob, CubeJob, EvictJob, AdoptJob, RebuildJob, NoJob

\* The node starts in a state of the shape it keeps.
LEMMA TypeInit == Init => TypeInv
<1> SUFFICES ASSUME Init PROVE TypeInv
  OBVIOUS
<1>1. TypeOK
  BY DEF Init, TypeOK
<1>2. JobsOK
  BY DEF Init, JobsOK, AdmissionJob, FaceJob, CubeJob, EvictJob, AdoptJob, RebuildJob
<1>3. EvictingOK
  BY DEF Init, EvictingOK, NoJob
<1> QED BY <1>1, <1>2, <1>3 DEF TypeInv

\* Every step keeps the shape of the state and of the jobs under way.
LEMMA TypeStep == TypeInv /\ [Next]_ledgerVars => TypeInv'
<1> SUFFICES ASSUME TypeInv, [Next]_ledgerVars PROVE TypeInv'
  OBVIOUS
<1> USE DEF TypeInv, NoJob
<1>0. Anchor \subseteq Key /\ Kinds \subseteq OfferKind /\ Foreign \subseteq Cube /\ Feeds \subseteq SUBSET Anchor
  BY LedgerAssumption
<1>1. ASSUME NEW a \in Admission, NEW k \in Key, NEW kind \in Kinds, Offer(a, k, kind) PROVE TypeInv'
  BY <1>0, <1>1 DEF Offer, TypeOK, JobsOK, EvictingOK, diskVars, history, AdmissionJob
<1>2. ASSUME NEW a \in Admission, RefuseSignature(a) PROVE TypeInv'
  BY <1>2 DEF RefuseSignature, TypeOK, JobsOK, EvictingOK, memVars, diskVars, history, AdmissionJob
<1>3. ASSUME NEW a \in Admission, Refuse(a) PROVE TypeInv'
  BY <1>3 DEF Refuse, TypeOK, JobsOK, EvictingOK, diskVars, history, AdmissionJob
<1>4. ASSUME NEW a \in Admission, RefuseShape(a) PROVE TypeInv'
  BY <1>4, JobFacts DEF RefuseShape, TypeOK, JobsOK, EvictingOK, diskVars, history, AdmissionJob
<1>5. ASSUME NEW a \in Admission, Admit(a) PROVE TypeInv'
  BY <1>5, JobFacts DEF Admit, TypeOK, JobsOK, EvictingOK, diskVars, history, AdmissionJob
<1>6. ASSUME NEW a \in Admission, AdmitSave(a) PROVE TypeInv'
  BY <1>6, JobFacts DEF AdmitSave, TypeOK, JobsOK, EvictingOK, memVars, history, AdmissionJob
<1>7. ASSUME NEW k \in Key, EvictBegin(k) PROVE TypeInv'
  BY <1>7 DEF EvictBegin, TypeOK, JobsOK, EvictingOK, diskVars, history, EvictJob, Idle
<1>8. CASE EvictList
  BY <1>8, JobFacts DEF EvictList, Listed, TypeOK, JobsOK, EvictingOK, history, AdmissionJob, EvictJob
<1>9. CASE EvictDrop
  BY <1>9, JobFacts DEF EvictDrop, Dropped, TypeOK, JobsOK, EvictingOK, history, AdmissionJob, EvictJob
<1>10. ASSUME NEW f \in Face, SealBlocks(f) PROVE TypeInv'
  BY <1>10 DEF SealBlocks, TypeOK, JobsOK, EvictingOK, memVars, diskVars, history, FaceJob
<1>11. CASE CommitFace
  BY <1>11, JobFacts, FaceFacts DEF CommitFace, TypeOK, JobsOK, EvictingOK, history, FaceJob
<1>12. CASE SaveFaces
  BY <1>12 DEF SaveFaces, TypeOK, JobsOK, EvictingOK, memVars, history, FaceJob
<1>13. ASSUME NEW c \in Cube, SealCube(c) PROVE TypeInv'
  BY <1>13 DEF SealCube, TypeOK, JobsOK, EvictingOK, history, CubeJob
<1>14. CASE PutCube
  BY <1>14, JobFacts DEF PutCube, TypeOK, JobsOK, EvictingOK, memVars, history, CubeJob
<1>15. CASE PutMembers
  BY <1>15, JobFacts, FaceFacts DEF PutMembers, Locate, Blocks, TypeOK, JobsOK, EvictingOK, memVars, history, CubeJob
<1>16. ASSUME NEW c \in Foreign, Adopt(c) PROVE TypeInv'
  BY <1>0, <1>16 DEF Adopt, planAdoption, Blocks, TypeOK, JobsOK, EvictingOK, memVars, AdoptJob
<1>17. CASE AdoptMembers
  BY <1>17, JobFacts, FaceFacts DEF AdoptMembers, Locate, Blocks, TypeOK, JobsOK, EvictingOK, history, AdoptJob
<1>18. ASSUME NEW feed \in Feeds, RebuildScan(feed) PROVE TypeInv'
  BY <1>0, <1>18 DEF RebuildScan, TypeOK, JobsOK, EvictingOK, memVars, diskVars, history, RebuildJob
<1>19. CASE RebuildWipe
  BY <1>19, JobFacts DEF RebuildWipe, TypeOK, JobsOK, EvictingOK, RebuildJob
<1>20. CASE RebuildAdmit
  <2> DEFINE back == Rebuildable(rb.feed)
             all  == pool \cup back \cup rb.keep
  <2>1. back \subseteq Anchor /\ all \in SUBSET Key
    BY <1>0, <1>20, JobFacts DEF RebuildAdmit, Rebuildable, TypeOK
  <2>2. PICK C \in RebuiltCubes(all) :
           /\ dCubes' = dCubes \cup C
           /\ pool' = RebuiltFace(all, Cardinality(all) \div FaceSize)
           /\ rows' = rows \cup rb.keep \cup UNION RebuiltFaces(all)
    BY <1>20 DEF RebuildAdmit
  <2>3. dCubes' \subseteq Cube
    BY <2>1, <2>2, RebuiltCubesFacts DEF TypeOK
  <2>4. pool' \subseteq Key /\ UNION RebuiltFaces(all) \subseteq Key
    BY <2>1, <2>2, RebuiltFacts, FaceFacts
  <2>5. rows' \subseteq Key
    BY <1>20, <2>1, <2>2, <2>4 DEF TypeOK
  <2> QED BY <1>20, <2>1, <2>3, <2>4, <2>5 DEF RebuildAdmit, TypeOK, JobsOK, EvictingOK, RebuildJob
<1>21. CASE Crash
  BY <1>21 DEF Crash, TypeOK, JobsOK, EvictingOK, diskVars, history, AdmissionJob, FaceJob, CubeJob, EvictJob, AdoptJob, RebuildJob
<1>22. CASE UNCHANGED ledgerVars
  BY <1>22 DEF ledgerVars, memVars, diskVars, jobVars, history, TypeOK, JobsOK, EvictingOK
<1> QED
  BY <1>1, <1>2, <1>3, <1>4, <1>5, <1>6, <1>7, <1>8, <1>9, <1>10, <1>11, <1>12, <1>13, <1>14, <1>15,
     <1>16, <1>17, <1>18, <1>19, <1>20, <1>21, <1>22 DEF Next

\* Every reachable state of the ledger has the shape the code keeps, and what is on the eviction
\* list on disk is on the list in memory.
THEOREM LedgerTypeCorrect == LedgerSpec => []TypeOK
<1>1. LedgerSpec => []TypeInv
  BY TypeInit, TypeStep, PTL DEF LedgerSpec
<1>2. TypeInv => TypeOK
  BY DEF TypeInv
<1> QED BY <1>1, <1>2, PTL

-----------------------------------------------------------------------------
(* What the store lacks of what memory has. *)

\* Every step keeps what memory has and the store lacks within the writes under way.
LEMMA StoreStep == TypeInv /\ StoreInv /\ [Next]_ledgerVars => StoreInv'
<1> SUFFICES ASSUME TypeInv, StoreInv, [Next]_ledgerVars PROVE StoreInv'
  OBVIOUS
<1> USE DEF TypeInv, StoreInv, SavedOK, AdoptingOK, NoJob
<1>1. ASSUME NEW a \in Admission, NEW k \in Key, NEW kind \in Kinds, Offer(a, k, kind) PROVE StoreInv'
  BY <1>1 DEF Offer, Idle, JobsOK, diskVars, history
<1>2. ASSUME NEW a \in Admission, RefuseSignature(a) PROVE StoreInv'
  BY <1>2 DEF RefuseSignature, JobsOK, memVars, diskVars, history
<1>3. ASSUME NEW a \in Admission, Refuse(a) PROVE StoreInv'
  BY <1>3 DEF Refuse, JobsOK, diskVars, history
<1>4. ASSUME NEW a \in Admission, RefuseShape(a) PROVE StoreInv'
  BY <1>4 DEF RefuseShape, JobsOK, diskVars, history
<1>5. ASSUME NEW a \in Admission, Admit(a) PROVE StoreInv'
  BY <1>5 DEF Admit, JobsOK, diskVars, history
<1>6. ASSUME NEW a \in Admission, AdmitSave(a) PROVE StoreInv'
  BY <1>6 DEF AdmitSave, JobsOK, memVars, history
<1>7. ASSUME NEW k \in Key, EvictBegin(k) PROVE StoreInv'
  BY <1>7 DEF EvictBegin, diskVars, history
<1>8. CASE EvictList
  BY <1>8 DEF EvictList, Listed, JobsOK, history
<1>9. CASE EvictDrop
  BY <1>9 DEF EvictDrop, Dropped, JobsOK, EvictingOK, history
<1>10. ASSUME NEW f \in Face, SealBlocks(f) PROVE StoreInv'
  BY <1>10 DEF SealBlocks, Idle, memVars, diskVars, history
<1>11. CASE CommitFace
  BY <1>11, JobFacts DEF CommitFace, history
<1>12. CASE SaveFaces
  BY <1>12 DEF SaveFaces, memVars, history
<1>13. ASSUME NEW c \in Cube, SealCube(c) PROVE StoreInv'
  BY <1>13 DEF SealCube, history
<1>14. CASE PutCube
  BY <1>14 DEF PutCube, memVars, history
<1>15. CASE PutMembers
  BY <1>15 DEF PutMembers, Locate, memVars, history
<1>16. ASSUME NEW c \in Foreign, Adopt(c) PROVE StoreInv'
  BY <1>16 DEF Adopt, planAdoption, memVars
<1>17. CASE AdoptMembers
  BY <1>17 DEF AdoptMembers, Locate, history
<1>18. ASSUME NEW feed \in Feeds, RebuildScan(feed) PROVE StoreInv'
  BY <1>18 DEF RebuildScan, memVars, diskVars, history
<1>19. CASE RebuildWipe
  BY <1>19 DEF RebuildWipe, Busy, Idle
<1>20. CASE RebuildAdmit
  BY <1>20 DEF RebuildAdmit, Busy, Idle
<1>21. CASE Crash
  BY <1>21 DEF Crash, diskVars, history
<1>22. CASE UNCHANGED ledgerVars
  BY <1>22 DEF ledgerVars, memVars, diskVars, jobVars, history
<1> QED
  BY <1>1, <1>2, <1>3, <1>4, <1>5, <1>6, <1>7, <1>8, <1>9, <1>10, <1>11, <1>12, <1>13, <1>14, <1>15,
     <1>16, <1>17, <1>18, <1>19, <1>20, <1>21, <1>22 DEF Next

\* In every reachable state, what memory has and the store lacks is carried by a write under way.
LEMMA StoreHolds == LedgerSpec => [](TypeInv /\ StoreInv)
<1>1. Init => StoreInv
  BY DEF Init, StoreInv, SavedOK, AdoptingOK, NoJob
<1> QED BY <1>1, TypeInit, TypeStep, StoreStep, PTL DEF LedgerSpec

-----------------------------------------------------------------------------
(* What a step may never do. *)

\* The blocks in the ledger, one place at a time.
HomedPlaces == \A k : k \in Homed <=> k \in pool \/ InFaces(k) \/ InSealing(k) \/ InCubes(k)
LEMMA HomedFacts == HomedPlaces
<1> SUFFICES ASSUME NEW k PROVE k \in Homed <=> k \in pool \/ InFaces(k) \/ InSealing(k) \/ InCubes(k)
  BY DEF HomedPlaces
<1>1. k \in UNION faces <=> InFaces(k)
  BY DEF InFaces
<1>2. k \in UNION Sealing <=> InSealing(k)
  BY DEF InSealing, Sealing
<1>3. k \in SealedKeys <=> InCubes(k)
  BY DEF InCubes, SealedKeys, Blocks
<1> QED BY <1>1, <1>2, <1>3 DEF Homed, InFaces, InSealing, InCubes

\* The restart on its own: what it loses of the blocks that have a row.
LEMMA RestartKeeps ==
  ASSUME TypeInv, StoreInv, Crash, NEW k \in rows \cap Homed
  PROVE  k \in Homed' \/ Unsaved(k) \/ Short(k)
<1> USE DEF TypeInv, StoreInv
<1>1. CASE k \in pool
  BY <1>1 DEF SavedOK, Crash, Homed, Unsaved
<1>2. CASE InFaces(k)
  <2>1. PICK f \in faces : k \in f
    BY <1>2 DEF InFaces
  <2>2. CASE f \notin dFaces
    BY <2>1, <2>2 DEF SavedOK, Unsaved
  <2>3. CASE f \in dFaces /\ f \subseteq rows
    BY <2>1, <2>3 DEF Crash, Homed
  <2>4. CASE ~(f \subseteq rows)
    BY <2>1, <2>4 DEF SavedOK, Short
  <2> QED BY <2>2, <2>3, <2>4
<1>3. CASE InSealing(k)
  BY <1>3 DEF InSealing, Unsaved
<1>4. CASE InCubes(k)
  <2>1. k \in SealedKeys /\ dCubes' = dCubes
    BY <1>4 DEF InCubes, SealedKeys, Blocks, Crash, diskVars
  <2>2. SealedKeys' = SealedKeys
    BY <2>1 DEF SealedKeys
  <2> QED BY <2>1, <2>2 DEF Homed
<1> QED BY <1>1, <1>2, <1>3, <1>4, HomedFacts DEF HomedPlaces

\* No step takes a block that has a row out of the ledger, but an eviction of it, a rebuild, and a
\* restart that meets a write under way or a face an eviction made short.
LEMMA KeptLemma ==
  ASSUME TypeInv, StoreInv, [Next]_ledgerVars
  PROVE  [KeptStep]_ledgerVars
<1> SUFFICES ASSUME NEW k \in rows \cap Homed, Next, k \notin evicted, Idle(rb), ~raced
             PROVE  k \in Homed' \/ (crashes' > crashes /\ (Unsaved(k) \/ Short(k)))
  BY DEF KeptStep
<1> USE DEF TypeInv, StoreInv, NoJob
<1> DEFINE Held == k \in pool \/ InFaces(k) \/ InSealing(k) \/ InCubes(k)
<1>a. Held
  BY HomedFacts DEF HomedPlaces
<1>b. Held' => k \in Homed'
  <2>1. HomedPlaces'
    BY HomedFacts, PTL
  <2> QED BY <2>1 DEF HomedPlaces, InFaces, InSealing, InCubes
<1>c. UNCHANGED <<pool, faces, l2, dCubes>> => Held'
  BY <1>a DEF InFaces, InSealing, InCubes
<1> USE DEF InFaces, InSealing, InCubes
<1>1. ASSUME NEW a \in Admission, Admit(a) PROVE Held'
  BY <1>1, <1>a DEF Admit, diskVars
<1>2. ASSUME EvictDrop PROVE Held'
  BY <1>2, <1>a DEF EvictDrop, Dropped, EvictingOK
<1>3. ASSUME CommitFace PROVE Held'
  BY <1>3, <1>a DEF CommitFace
<1>4. ASSUME NEW c \in Cube, SealCube(c) PROVE Held'
  BY <1>4, <1>a DEF SealCube, Idle
<1>5. ASSUME PutCube PROVE Held'
  BY <1>5, <1>a, JobFacts DEF PutCube, memVars
<1>6. ASSUME PutMembers PROVE Held'
  BY <1>6, <1>a DEF PutMembers, memVars
<1>7. ASSUME NEW c \in Foreign, Adopt(c) PROVE Held'
  BY <1>7, <1>a DEF Adopt, memVars
<1>8. ASSUME AdoptMembers PROVE Held'
  BY <1>8, <1>a DEF AdoptMembers, AdoptingOK, Blocks
<1>9. CASE Crash
  <2>1. crashes' > crashes
    BY <1>9 DEF Crash, JobsOK
  <2> QED BY <1>9, <2>1, RestartKeeps
<1>10. CASE RebuildWipe \/ RebuildAdmit
  BY <1>10 DEF RebuildWipe, RebuildAdmit, Idle
<1>11. CASE \/ \E a \in Admission :
                 \/ \E x \in Key, kind \in Kinds : Offer(a, x, kind)
                 \/ RefuseSignature(a) \/ Refuse(a) \/ RefuseShape(a) \/ AdmitSave(a)
            \/ \E x \in Key : EvictBegin(x)
            \/ EvictList \/ SaveFaces
            \/ \E f \in Face : SealBlocks(f)
            \/ \E feed \in Feeds : RebuildScan(feed)
  <2>1. UNCHANGED <<pool, faces, l2, dCubes>>
    BY <1>11 DEF Offer, RefuseSignature, Refuse, RefuseShape, AdmitSave, EvictBegin, EvictList, Listed,
                 SaveFaces, SealBlocks, RebuildScan, memVars, diskVars
  <2> QED BY <1>b, <1>c, <2>1
<1> HIDE DEF Held
<1> QED BY <1>b, <1>1, <1>2, <1>3, <1>4, <1>5, <1>6, <1>7, <1>8, <1>9, <1>10, <1>11 DEF Next

\* A block that has a row stays in the ledger, for every size of a face and of a cube.
THEOREM KeptHolds == LedgerSpec => Kept
<1>1. TypeInv /\ StoreInv /\ [Next]_ledgerVars => [KeptStep]_ledgerVars
  BY KeptLemma
<1> QED BY <1>1, StoreHolds, PTL DEF LedgerSpec, Kept

\* No step brings back a block on the eviction list, but the ones that had passed the door before.
LEMMA NotRebuiltLemma ==
  ASSUME TypeInv, [Next]_ledgerVars
  PROVE  [NotRebuiltStep]_ledgerVars
<1> SUFFICES ASSUME NEW k \in dEvicted \ (pool \cup rows), Next, k \in pool' \cup rows'
             PROVE  \/ crashes' > crashes
                    \/ \E a \in Admission : adm[a].at \in {"verify", "row"} /\ adm[a].key = k
                    \/ l1.at = "rows" /\ k \in l1.face
                    \/ l2.at = "members" \/ ad.at = "members"
                    \/ rb.at = "admit" /\ k \in rb.keep
  BY DEF NotRebuiltStep
<1> USE DEF TypeInv
<1>1. ASSUME NEW a \in Admission, Admit(a) PROVE adm[a].at = "verify" /\ adm[a].key = k
  BY <1>1 DEF Admit, diskVars
<1>2. ASSUME NEW a \in Admission, AdmitSave(a) PROVE adm[a].at = "row" /\ adm[a].key = k
  BY <1>2 DEF AdmitSave, memVars
<1>3. CASE CommitFace
  BY <1>3 DEF CommitFace
<1>4. CASE PutMembers \/ AdoptMembers
  BY <1>4 DEF PutMembers, AdoptMembers
<1>5. CASE RebuildAdmit
  <2> DEFINE back == Rebuildable(rb.feed)
             all  == pool \cup back \cup rb.keep
  <2>1. k \notin back
    BY DEF Rebuildable, TypeOK
  <2>2. rb.at = "admit" /\ all \in SUBSET Key
    BY <1>5, JobFacts, LedgerAssumption DEF RebuildAdmit, Rebuildable, TypeOK
  <2>3. \A f \in RebuiltFaces(all) : f \subseteq all
    BY DEF RebuiltFaces, RebuiltFace
  <2>4. RebuiltFace(all, Cardinality(all) \div FaceSize) \subseteq all
    BY DEF RebuiltFace
  <2>5. /\ pool' = RebuiltFace(all, Cardinality(all) \div FaceSize)
        /\ rows' = rows \cup rb.keep \cup UNION RebuiltFaces(all)
    BY <1>5 DEF RebuildAdmit
  <2>6. k \in all \/ k \in rb.keep
    <3> HIDE DEF all
    <3> QED BY <2>3, <2>4, <2>5
  <2> QED BY <2>1, <2>2, <2>6
<1>6. CASE Crash
  BY <1>6 DEF Crash, JobsOK
<1>7. CASE EvictDrop \/ RebuildWipe
  BY <1>7 DEF EvictDrop, Dropped, RebuildWipe
<1>8. CASE \/ \E a \in Admission :
                \/ \E x \in Key, kind \in Kinds : Offer(a, x, kind)
                \/ RefuseSignature(a) \/ Refuse(a) \/ RefuseShape(a)
           \/ \E x \in Key : EvictBegin(x)
           \/ EvictList \/ SaveFaces \/ PutCube
           \/ \E f \in Face : SealBlocks(f)
           \/ \E c \in Cube : SealCube(c)
           \/ \E c \in Foreign : Adopt(c)
           \/ \E feed \in Feeds : RebuildScan(feed)
  BY <1>8 DEF Offer, RefuseSignature, Refuse, RefuseShape, EvictBegin, EvictList, Listed, SaveFaces,
              PutCube, SealBlocks, SealCube, Adopt, RebuildScan, memVars, diskVars
<1> QED BY <1>1, <1>2, <1>3, <1>4, <1>5, <1>6, <1>7, <1>8 DEF Next

\* A block on the eviction list comes back only with work that had begun before it was listed.
THEOREM NotRebuiltHolds == LedgerSpec => EvictedNotRebuilt
<1>1. TypeInv /\ [Next]_ledgerVars => [NotRebuiltStep]_ledgerVars
  BY NotRebuiltLemma
<1>2. LedgerSpec => []TypeInv
  BY TypeInit, TypeStep, PTL DEF LedgerSpec
<1> QED BY <1>1, <1>2, PTL DEF LedgerSpec, EvictedNotRebuilt

-----------------------------------------------------------------------------
(* An anchor is one block, for ever. *)

\* The invariant for one anchor depends on these variables alone.
LEMMA OnceFrame ==
  ASSUME NEW k, Apart(k), Claimed(k), \A a \in Admission : Verifying(a, k)' => Verifying(a, k),
         UNCHANGED <<pool, faces, reserved, dPool, dFaces, dCubes>>,
         l1' = l1 \/ l1'.at # "rows", l2' = l2 \/ (l2'.at # "cube" /\ l2.at # "cube"),
         rows \subseteq rows', evicted \subseteq evicted', dEvicted \subseteq dEvicted'
  PROVE  Apart(k)' /\ Claimed(k)'
<1> USE DEF Loose, InFaces, InSealing, OnFaces, InCubes, Firm
<1>1. (Loose(k)' => Loose(k)) /\ (Firm(k)' => Firm(k))
  OBVIOUS
<1>2. Claimed(k)'
  BY <1>1 DEF Claimed
<1>3. Apart(k)'
  BY <1>1 DEF Apart
<1> QED BY <1>2, <1>3

\* The histories only grow.
LEMMA HistoryGrows ==
  ASSUME [Next]_ledgerVars, JobsOK
  PROVE  (raced => raced') /\ adopted \subseteq adopted'
<1>1. CASE \/ RebuildWipe \/ RebuildAdmit \/ \E c \in Foreign : Adopt(c)
  BY <1>1 DEF RebuildWipe, RebuildAdmit, Adopt, JobsOK
<1>2. CASE UNCHANGED history
  BY <1>2 DEF history
<1>3. CASE Next /\ ~(RebuildWipe \/ RebuildAdmit \/ \E c \in Foreign : Adopt(c))
  <2>1. UNCHANGED history
    BY <1>3 DEF Next, Offer, RefuseSignature, Refuse, RefuseShape, Admit, AdmitSave, EvictBegin, EvictList,
                EvictDrop, SealBlocks, CommitFace, SaveFaces, SealCube, PutCube, PutMembers, AdoptMembers,
                RebuildScan, Crash
  <2> QED BY <1>2, <2>1
<1> QED BY <1>1, <1>2, <1>3 DEF ledgerVars

\* Every step keeps one anchor in one place.
LEMMA OnceStep == TypeInv /\ StoreInv /\ OnceInv /\ [Next]_ledgerVars => OnceInv'
<1> SUFFICES ASSUME TypeInv, StoreInv, OnceInv, [Next]_ledgerVars, NEW k \in Anchor, k \notin adopted', ~raced'
             PROVE  Apart(k)' /\ Claimed(k)'
  BY DEF OnceInv
<1>0. ~raced /\ k \notin adopted /\ Apart(k) /\ Claimed(k) /\ k \in Key
  BY HistoryGrows, LedgerAssumption DEF OnceInv, TypeInv
<1> USE DEF TypeInv, StoreInv, NoJob
<1>1. ASSUME NEW a \in Admission, NEW x \in Key, NEW kind \in Kinds, Offer(a, x, kind)
      PROVE  Apart(k)' /\ Claimed(k)'
  <2>1. UNCHANGED <<pool, faces, dFaces, dCubes, dPool, l1, l2, rows, evicted, dEvicted>>
    BY <1>1 DEF Offer, diskVars
  <2>2. (Loose(k)' <=> Loose(k)) /\ (Firm(k)' <=> Firm(k))
    BY <2>1 DEF Loose, InFaces, InSealing, OnFaces, InCubes, Firm
  <2>3. reserved \subseteq reserved'
    BY <1>1 DEF Offer
  <2>4. ASSUME NEW b \in Admission, Verifying(b, k)', ~Verifying(b, k)
        PROVE  k \notin reserved /\ k \notin evicted /\ k \in reserved' /\ b = a
    BY <1>1, <2>4 DEF Offer, Verifying, Idle, JobsOK
  <2> QED BY <1>0, <2>1, <2>2, <2>3, <2>4 DEF Apart, Claimed, InFaces, InSealing, OnFaces, InCubes, Firm
<1>2. ASSUME NEW a \in Admission, RefuseSignature(a) PROVE Apart(k)' /\ Claimed(k)'
  BY <1>0, <1>2, OnceFrame DEF RefuseSignature, JobsOK, Verifying, memVars, diskVars
<1>3. ASSUME NEW a \in Admission, Refuse(a) PROVE Apart(k)' /\ Claimed(k)'
  BY <1>0, <1>3 DEF Refuse, JobsOK, diskVars, Apart, Claimed, Verifying, Loose, InFaces, InSealing, OnFaces, InCubes, Firm
<1>4. ASSUME NEW a \in Admission, RefuseShape(a) PROVE Apart(k)' /\ Claimed(k)'
  BY <1>0, <1>4 DEF RefuseShape, JobsOK, diskVars, Apart, Claimed, Verifying, Loose, InFaces, InSealing, OnFaces, InCubes, Firm
<1>5. ASSUME NEW a \in Admission, Admit(a) PROVE Apart(k)' /\ Claimed(k)'
  BY <1>0, <1>5 DEF Admit, JobsOK, diskVars, Apart, Claimed, Verifying, Loose, InFaces, InSealing, OnFaces, InCubes, Firm
<1>6. ASSUME NEW a \in Admission, AdmitSave(a) PROVE Apart(k)' /\ Claimed(k)'
  BY <1>0, <1>6 DEF AdmitSave, JobsOK, memVars, Apart, Claimed, Verifying, Loose, InFaces, InSealing, OnFaces, InCubes, Firm
<1>7. ASSUME NEW x \in Key, EvictBegin(x) PROVE Apart(k)' /\ Claimed(k)'
  BY <1>0, <1>7, OnceFrame DEF EvictBegin, Verifying, diskVars
<1>8. CASE EvictList
  <2>1. \A a \in Admission : Verifying(a, k)' => Verifying(a, k)
    <3>1. CASE adm' = adm
      BY <3>1 DEF Verifying
    <3>2. ASSUME NEW b \in Admission, adm[b].at = "evict", adm' = [adm EXCEPT ![b].at = "rows"]
          PROVE  \A a \in Admission : Verifying(a, k)' => Verifying(a, k)
      <4>1. adm[b] \in [at : {"evict"}, key : Key] /\ adm \in [Admission -> AdmissionJob]
        BY <3>2 DEF JobsOK, AdmissionJob
      <4>2. adm'[b].at = "rows" /\ \A a \in Admission \ {b} : adm'[a] = adm[a]
        BY <3>2, <4>1
      <4> QED BY <4>2 DEF Verifying
    <3> QED BY <1>8, <3>1, <3>2 DEF EvictList
  <2>2. /\ UNCHANGED <<pool, faces, dFaces, dCubes, dPool, l1, l2, rows, evicted>>
        /\ dEvicted \subseteq dEvicted'
        /\ k \in reserved => k \in reserved' \/ k \in evicted
    BY <1>8 DEF EvictList, Listed, EvictingOK
  <2> QED BY <1>0, <2>1, <2>2 DEF Apart, Claimed, Loose, InFaces, InSealing, OnFaces, InCubes, Firm
<1>9. CASE EvictDrop
  BY <1>0, <1>9 DEF EvictDrop, Dropped, EvictingOK, JobsOK, Apart, Claimed, Verifying, Loose, InFaces, InSealing, OnFaces, InCubes, Firm
<1>10. ASSUME NEW f \in Face, SealBlocks(f) PROVE Apart(k)' /\ Claimed(k)'
  BY <1>0, <1>10 DEF SealBlocks, memVars, diskVars, Apart, Claimed, Verifying, Loose, InFaces, InSealing, OnFaces, InCubes, Firm
<1>11. CASE CommitFace
  BY <1>0, <1>11 DEF CommitFace, Apart, Claimed, Verifying, Loose, InFaces, InSealing, OnFaces, InCubes, Firm
<1>12. CASE SaveFaces
  BY <1>0, <1>12 DEF SaveFaces, memVars, Apart, Claimed, Verifying, Loose, InFaces, InSealing, OnFaces, InCubes, Firm
<1>13. ASSUME NEW c \in Cube, SealCube(c) PROVE Apart(k)' /\ Claimed(k)'
  BY <1>0, <1>13 DEF SealCube, Idle, Apart, Claimed, Verifying, Loose, InFaces, InSealing, OnFaces, InCubes, Firm
<1>14. CASE PutCube
  BY <1>0, <1>14, JobFacts DEF PutCube, memVars, Apart, Claimed, Verifying, Loose, InFaces, InSealing, OnFaces, InCubes, Firm
<1>15. CASE PutMembers
  BY <1>0, <1>15, OnceFrame DEF PutMembers, Locate, Verifying, memVars
<1>16. ASSUME NEW c \in Foreign, Adopt(c) PROVE Apart(k)' /\ Claimed(k)'
  <2>1. ~ \E f \in c : k \in f
    BY <1>16 DEF Adopt, Blocks
  <2>2. InCubes(k)' <=> InCubes(k)
    BY <1>16, <2>1 DEF Adopt, InCubes
  <2> QED BY <1>0, <1>16, <2>1, <2>2 DEF Adopt, memVars, Apart, Claimed, Verifying, Loose, InFaces, InSealing, OnFaces, InCubes, Firm
<1>17. CASE AdoptMembers
  BY <1>0, <1>17 DEF AdoptMembers, Locate, Apart, Claimed, Verifying, Loose, InFaces, InSealing, OnFaces, InCubes, Firm
<1>18. ASSUME NEW feed \in Feeds, RebuildScan(feed) PROVE Apart(k)' /\ Claimed(k)'
  BY <1>0, <1>18, OnceFrame DEF RebuildScan, Verifying, memVars, diskVars
<1>19. CASE RebuildWipe
  BY <1>0, <1>19 DEF RebuildWipe, Busy, Idle, JobsOK, Apart, Claimed, Verifying, Loose, InFaces, InSealing, OnFaces, InCubes, Firm
<1>20. CASE RebuildAdmit
  <2> DEFINE back == Rebuildable(rb.feed)
             all  == pool \cup back \cup rb.keep
             rest == RebuiltFace(all, Cardinality(all) \div FaceSize)
  <2>1. rb.at = "admit" /\ all \in SUBSET Key /\ rb.keep \cap Anchor = {}
    BY <1>20, JobFacts, LedgerAssumption DEF RebuildAdmit, Rebuildable, TypeOK
  <2>2. PICK C \in RebuiltCubes(all) :
           /\ dCubes' = dCubes \cup C
           /\ pool' = rest
           /\ rows' = rows \cup rb.keep \cup UNION RebuiltFaces(all)
    BY <1>20 DEF RebuildAdmit
  <2>3. /\ faces = {} /\ dCubes = {} /\ Idle(l1) /\ Idle(l2)
        /\ \A a \in Admission : Idle(adm[a])
    BY <1>20 DEF RebuildAdmit, Busy
  <2>4. dFaces = {}
    BY <2>1, <2>3 DEF SavedOK
  <2>5. UNCHANGED <<faces, dFaces, l1, l2, adm, evicted, dEvicted>> /\ dPool' = pool' /\ reserved' = reserved \cup back
    BY <1>20 DEF RebuildAdmit
  <2>6. /\ \A f \in RebuiltFaces(all) : f \subseteq all /\ f \cap rest = {}
        /\ rest \subseteq all
        /\ \A f, g \in RebuiltFaces(all) : f # g => f \cap g = {}
    <3>1. \A f \in RebuiltFaces(all) : f \subseteq all
      BY DEF RebuiltFaces, RebuiltFace
    <3> HIDE DEF all
    <3> QED BY <2>1, <3>1, RebuiltFacts
  <2>7. /\ \A c \in C : c \subseteq RebuiltFaces(all)
        /\ \A c, d \in C : c # d => c \cap d = {}
    BY <2>1, RebuiltCubesFacts
  <2>8. k \in all => k \in reserved' \/ k \in evicted'
    BY <1>0, <2>1, <2>5 DEF Claimed, Loose
  <2> HIDE DEF all, rest, back
  <2>9. ~InFaces(k)' /\ ~InSealing(k)' /\ ~OnFaces(k)' /\ (Loose(k)' <=> k \in rest) /\ \A a \in Admission : ~Verifying(a, k)'
    BY <2>2, <2>3, <2>4, <2>5 DEF InFaces, InSealing, OnFaces, Loose, Verifying, Idle
  <2>10. InCubes(k)' => k \in all /\ k \notin rest /\ k \in rows'
    BY <2>2, <2>3, <2>6, <2>7 DEF InCubes
  <2>11. \A c, d \in dCubes' : (\E f \in c : k \in f) /\ (\E f \in d : k \in f) => c = d
    <3>1. ASSUME NEW c \in C, NEW d \in C, NEW f \in c, NEW g \in d, k \in f, k \in g PROVE c = d
      <4>1. f = g
        BY <2>6, <2>7, <3>1
      <4> QED BY <2>7, <4>1
    <3> QED BY <2>2, <2>3, <3>1
  <2>12. Claimed(k)'
    BY <2>2, <2>5, <2>6, <2>8, <2>9, <2>10 DEF Claimed, Firm
  <2>13. Apart(k)'
    BY <2>2, <2>3, <2>4, <2>5, <2>9, <2>10, <2>11 DEF Apart, Firm, Idle
  <2> QED BY <2>12, <2>13
<1>21. CASE Crash
  BY <1>0, <1>21 DEF Crash, diskVars, Apart, Claimed, Verifying, Loose, InFaces, InSealing, OnFaces, InCubes, Firm
<1>22. CASE UNCHANGED ledgerVars
  BY <1>0, <1>22, OnceFrame DEF ledgerVars, memVars, diskVars, jobVars, history, Verifying
<1> QED
  BY <1>1, <1>2, <1>3, <1>4, <1>5, <1>6, <1>7, <1>8, <1>9, <1>10, <1>11, <1>12, <1>13, <1>14, <1>15,
     <1>16, <1>17, <1>18, <1>19, <1>20, <1>21, <1>22 DEF Next

\* A set without two different elements counts zero when it is empty and one when it is not.
LEMMA AtMostOne ==
  ASSUME NEW S, \A x, y \in S : x = y
  PROVE  Cardinality(S) = IF S = {} THEN 0 ELSE 1
<1>1. CASE S = {}
  BY <1>1, FS_EmptySet
<1>2. CASE S # {}
  <2>1. PICK x \in S : TRUE
    BY <1>2
  <2>2. S = {x}
    BY <2>1
  <2> QED BY <1>2, <2>2, FS_Singleton
<1> QED BY <1>1, <1>2

\* What an anchor's places add up to when it is in one of them.
LEMMA OnceCounts ==
  ASSUME NEW k, Apart(k)
  PROVE  Cardinality({c \in dCubes : k \in Blocks(c)}) + Cardinality({f \in faces \cup Sealing : k \in f})
           + Cardinality({k} \cap pool) =< 1
<1> DEFINE C == {c \in dCubes : k \in Blocks(c)}
           Q == {f \in faces \cup Sealing : k \in f}
           P == {k} \cap pool
<1>1. (C # {} <=> InCubes(k)) /\ (Q # {} <=> InFaces(k) \/ InSealing(k)) /\ (P # {} => Loose(k))
  BY DEF Blocks, Sealing, InCubes, InFaces, InSealing, Loose
<1>2. (C # {} => Q = {} /\ P = {}) /\ (Q # {} => P = {})
  BY <1>1 DEF Apart, Firm, InCubes, InFaces, InSealing, OnFaces, Loose
<1>3. \A c, d \in C : c = d
  BY DEF Apart, Blocks
<1>4. \A f, g \in Q : f = g
  BY DEF Apart, Sealing, InFaces, InSealing
<1>5. \A x, y \in P : x = y
  OBVIOUS
<1> HIDE DEF C, Q, P
<1>6. Cardinality(C) = (IF C = {} THEN 0 ELSE 1) /\ Cardinality(Q) = (IF Q = {} THEN 0 ELSE 1)
        /\ Cardinality(P) = (IF P = {} THEN 0 ELSE 1)
  BY <1>3, <1>4, <1>5, AtMostOne
<1>7. Cardinality(C) + Cardinality(Q) + Cardinality(P) =< 1
  BY <1>2, <1>6
<1> QED BY <1>7 DEF C, Q, P

\* An anchor that was not adopted is in one place at most, whatever is offered twice, evicted,
\* refused or lost in a restart, as long as no rebuild has met another job.
THEOREM AnchorOnceHolds == LedgerSpec => []AnchorOnce
<1>1. Init => OnceInv
  BY DEF Init, OnceInv, Apart, Claimed, Verifying, Loose, Firm, InFaces, InSealing, OnFaces, InCubes, NoJob
<1>2. LedgerSpec => []OnceInv
  BY <1>1, StoreHolds, OnceStep, PTL DEF LedgerSpec
<1>3. OnceInv => AnchorOnce
  BY OnceCounts DEF OnceInv, AnchorOnce
<1> QED BY <1>2, <1>3, PTL

-----------------------------------------------------------------------------
(* The ledger implements the life of a block. *)

\* Where a block is, by the highest of its places.
Place(k) ==
  IF InCubes(k) THEN "sealed" ELSE IF InFaces(k) \/ InSealing(k) THEN "faced" ELSE IF k \in pool THEN "pooled" ELSE "out"
HomeIsPlace == \A k : HomeOf(k) = Place(k)
LEMMA HomeFacts == HomeIsPlace
<1> SUFFICES ASSUME NEW k PROVE HomeOf(k) = Place(k)
  BY DEF HomeIsPlace
<1>1. k \in UNION (faces \cup Sealing) <=> InFaces(k) \/ InSealing(k)
  BY DEF InFaces, InSealing, Sealing
<1>2. k \in SealedKeys <=> InCubes(k)
  BY DEF InCubes, SealedKeys, Blocks
<1> QED BY <1>1, <1>2 DEF HomeOf, Place, InFaces, InSealing, InCubes

\* The heights of the four stages.
LEMMA HeightFacts ==
  /\ Life!Height["out"] = 0 /\ Life!Height["pooled"] = 1 /\ Life!Height["faced"] = 2 /\ Life!Height["sealed"] = 3
  /\ Life!Home = {"out", "pooled", "faced", "sealed"}
BY DEF Life!Height, Life!Home

\* The home of every block in the state, and in the next one.
LEMMA HomeFunction ==
  /\ [k \in Key |-> HomeOf(k)] = [k \in Key |-> Place(k)]
  /\ [k \in Key |-> HomeOf(k)]' = [k \in Key |-> Place(k)']
<1>1. HomeIsPlace /\ HomeIsPlace'
  BY HomeFacts, PTL
<1> QED BY <1>1 DEF HomeIsPlace

\* The abstract module counts as this one does.
LEMMA LifeCounts == \A S : Life!Cardinality(S) = Cardinality(S)
BY DEF Life!Cardinality, Cardinality, Life!IsFiniteSet, IsFiniteSet

\* Each block's place is one of the four, before and after a step.
LEMMA PlaceType == \A k : Place(k) \in Life!Home /\ Place(k)' \in Life!Home
BY HeightFacts DEF Place

\* A step that moves no block, and neither begins nor ends a rebuild or a life, is no step of the
\* abstract machine.
LEMMA LifeStutter ==
  ASSUME \A k \in Key : Place(k)' = Place(k), UNCHANGED crashes,
         (rb.at = "admit")' <=> (rb.at = "admit")
  PROVE  UNCHANGED Life!lifeVars
<1>1. [k \in Key |-> HomeOf(k)]' = [k \in Key |-> HomeOf(k)]
  BY HomeFunction
<1> QED BY <1>1 DEF Life!lifeVars

\* A step that raises the blocks of S, n of them at most, is one of the three that raise.
LEMMA LifeRise ==
  ASSUME NEW S \in SUBSET Key, NEW top, NEW n,
         <<top, n>> \in {<<"pooled", 1>>, <<"faced", FaceSize>>, <<"sealed", FaceSize * CubeFaces>>},
         Cardinality(S) \in 1 .. n,
         \A k \in S : Life!Height[Place(k)] < Life!Height[top],
         \A k \in Key : Place(k)' = IF k \in S THEN top ELSE Place(k),
         UNCHANGED crashes, (rb.at = "admit")' <=> (rb.at = "admit")
  PROVE  Life!Next
<1>1. [k \in Key |-> HomeOf(k)]' \in [Key -> Life!Home]
  BY HomeFunction, PlaceType
<1>2. S \in Life!Below(top, n)
  <2> DEFINE h == [k \in Key |-> HomeOf(k)]
  <2>1. \A k \in Key : h[k] = Place(k)
    BY HomeFunction
  <2> HIDE DEF h
  <2>2. S \in SUBSET {k \in Key : Life!Height[h[k]] < Life!Height[top]}
    BY <2>1
  <2> QED BY <2>2, LifeCounts DEF Life!Below, h
<1>3. Life!Raise(S, top)
  BY HomeFunction DEF Life!Raise
<1>4. Life!Enter \/ Life!Face \/ Life!Seal
  BY <1>2, <1>3 DEF Life!Enter, Life!Face, Life!Seal
<1>5. Life!Rise
  BY <1>4 DEF Life!Rise
<1> QED BY <1>1, <1>5 DEF Life!Next

\* A step that lowers blocks that are not sealed is a fall.
LEMMA LifeFall ==
  ASSUME \A k \in Key : IF Place(k) = "sealed" THEN Place(k)' = "sealed"
                        ELSE Life!Height[Place(k)'] =< Life!Height[Place(k)],
         UNCHANGED crashes, (rb.at = "admit")' <=> (rb.at = "admit")
  PROVE  Life!Next
<1>1. [k \in Key |-> HomeOf(k)]' \in [Key -> Life!Home]
  BY HomeFunction, PlaceType
<1>2. Life!Fall
  BY HomeFunction DEF Life!Fall
<1>3. Life!Rise
  BY <1>2 DEF Life!Rise
<1> QED BY <1>1, <1>3 DEF Life!Next

\* Every step of the ledger is a step of the life of its blocks, or moves none.
LEMMA LifeStep == TypeInv /\ StoreInv /\ [Next]_ledgerVars => [Life!Next]_(Life!lifeVars)
<1> SUFFICES ASSUME TypeInv, StoreInv, [Next]_ledgerVars PROVE Life!Next \/ UNCHANGED Life!lifeVars
  OBVIOUS
<1> USE DEF TypeInv, StoreInv, NoJob
<1>0. UNCHANGED <<pool, faces, l2, dCubes>> => \A k : Place(k)' = Place(k)
  BY DEF Place, InFaces, InSealing, InCubes
<1>1. ASSUME NEW a \in Admission, Admit(a) PROVE Life!Next \/ UNCHANGED Life!lifeVars
  <2> DEFINE x == adm[a].key
  <2>1. x \in Key
    BY <1>1, JobFacts DEF Admit
  <2>2. pool' = pool \cup {x} /\ UNCHANGED <<faces, l2, dCubes, crashes, rb>>
    BY <1>1 DEF Admit, diskVars
  <2> HIDE DEF x
  <2>3. \A k : Place(k)' = IF k = x /\ Place(k) = "out" THEN "pooled" ELSE Place(k)
    BY <2>2 DEF Place, InFaces, InSealing, InCubes
  <2>4. CASE Place(x) = "out"
    <3>1. Cardinality({x}) \in 1 .. 1
      BY FS_Singleton
    <3>2. \A k \in Key : Place(k)' = IF k \in {x} THEN "pooled" ELSE Place(k)
      BY <2>3, <2>4
    <3>3. \A k \in {x} : Life!Height[Place(k)] < Life!Height["pooled"]
      BY <2>4, HeightFacts
    <3> DEFINE S == {x}
               n == 1
    <3>4. S \in SUBSET Key
      BY <2>1
    <3> HIDE DEF S, n
    <3>5. \A k \in Key : Place(k)' = IF k \in S THEN "pooled" ELSE Place(k)
      BY <3>2 DEF S
    <3>6. Cardinality(S) \in 1 .. n /\ \A k \in S : Life!Height[Place(k)] < Life!Height["pooled"]
      BY <3>1, <3>3 DEF S, n
    <3>7. <<"pooled", n>> \in {<<"pooled", 1>>, <<"faced", FaceSize>>, <<"sealed", FaceSize * CubeFaces>>}
      BY DEF n
    <3>8. UNCHANGED crashes /\ ((rb.at = "admit")' <=> (rb.at = "admit"))
      BY <2>2
    <3>9. Life!Next
      BY <3>4, <3>5, <3>6, <3>7, <3>8, LifeRise
    <3> QED BY <3>9
  <2>5. CASE Place(x) # "out"
    BY <2>2, <2>3, <2>5, LifeStutter
  <2> QED BY <2>4, <2>5
<1>2. CASE EvictDrop
  <2>1. UNCHANGED <<faces, l2, dCubes, crashes, rb>> /\ pool' \subseteq pool
    BY <1>2 DEF EvictDrop, Dropped
  <2>2. \A k : Place(k)' = Place(k) \/ (Place(k) = "pooled" /\ Place(k)' = "out")
    BY <2>1 DEF Place, InFaces, InSealing, InCubes
  <2>3. \A k \in Key : IF Place(k) = "sealed" THEN Place(k)' = "sealed"
                       ELSE Life!Height[Place(k)'] =< Life!Height[Place(k)]
    BY <2>2, HeightFacts, PlaceType
  <2> QED BY <2>1, <2>3, LifeFall
<1>3. CASE CommitFace
  <2> DEFINE S == {k \in l1.face : Place(k) \in {"out", "pooled"}}
  <2>1. l1.face \in Face /\ l1.face \subseteq Key /\ IsFiniteSet(l1.face) /\ Cardinality(l1.face) = FaceSize
    BY <1>3, JobFacts, FaceFacts DEF CommitFace
  <2>2. pool' = pool \ l1.face /\ faces' = faces \cup {l1.face} /\ UNCHANGED <<l2, dCubes, crashes, rb>>
    BY <1>3 DEF CommitFace
  <2>3. \A k : Place(k)' = IF k \in S THEN "faced" ELSE Place(k)
    BY <2>2 DEF Place, InFaces, InSealing, InCubes
  <2>4. S \in SUBSET Key /\ IsFiniteSet(S) /\ Cardinality(S) =< FaceSize /\ Cardinality(S) \in Nat
    <3>1. S \in SUBSET l1.face
      OBVIOUS
    <3> HIDE DEF S
    <3> QED BY <2>1, <3>1, FS_Subset, FS_CardinalityType
  <2>5. \A k \in S : Life!Height[Place(k)] < Life!Height["faced"]
    BY HeightFacts
  <2> HIDE DEF S
  <2>6. CASE S = {}
    BY <2>2, <2>3, <2>6, LifeStutter
  <2>7. CASE S # {}
    <3>1. Cardinality(S) \in 1 .. FaceSize
      BY <2>4, <2>7, FS_EmptySet, LedgerAssumption
    <3> QED BY <2>2, <2>3, <2>4, <2>5, <3>1, LifeRise
  <2> QED BY <2>6, <2>7
<1>4. ASSUME NEW c \in Cube, SealCube(c) PROVE UNCHANGED Life!lifeVars
  <2>1. \A k : (InFaces(k) \/ InSealing(k))' <=> (InFaces(k) \/ InSealing(k))
    BY <1>4 DEF SealCube, Idle, InFaces, InSealing
  <2>2. \A k : Place(k)' = Place(k)
    BY <1>4, <2>1 DEF SealCube, Place, InCubes, InFaces, InSealing
  <2> QED BY <1>4, <2>2, LifeStutter DEF SealCube
<1>5. ASSUME NEW c \in Cube, dCubes' = dCubes \cup {c}, UNCHANGED <<pool, faces, crashes>>,
             (rb.at = "admit")' <=> (rb.at = "admit"),
             \A k : InSealing(k)' => InSealing(k),
             \A k : InSealing(k) /\ ~InSealing(k)' => \E f \in c : k \in f
      PROVE  Life!Next \/ UNCHANGED Life!lifeVars
  <2> DEFINE S == {k \in UNION c : Place(k) # "sealed"}
  <2>1. UNION c \subseteq Key /\ IsFiniteSet(UNION c) /\ Cardinality(UNION c) = FaceSize * CubeFaces
    BY FaceFacts
  <2>2. \A k : InCubes(k)' <=> InCubes(k) \/ \E f \in c : k \in f
    BY <1>5 DEF InCubes
  <2>3. \A k : Place(k)' = IF k \in S THEN "sealed" ELSE Place(k)
    BY <1>5, <2>2 DEF Place, InFaces, InSealing, InCubes
  <2>4. S \in SUBSET Key /\ IsFiniteSet(S) /\ Cardinality(S) =< FaceSize * CubeFaces /\ Cardinality(S) \in Nat
    <3>1. S \in SUBSET UNION c
      OBVIOUS
    <3> HIDE DEF S
    <3> QED BY <2>1, <3>1, FS_Subset, FS_CardinalityType
  <2>5. \A k \in S : Life!Height[Place(k)] < Life!Height["sealed"]
    BY HeightFacts, PlaceType
  <2> HIDE DEF S
  <2>6. CASE S = {}
    BY <1>5, <2>3, <2>6, LifeStutter
  <2>7. CASE S # {}
    <3>1. Cardinality(S) \in 1 .. FaceSize * CubeFaces
      <4>1. Cardinality(S) # 0 /\ FaceSize * CubeFaces \in Nat
        BY <2>4, <2>7, FS_EmptySet, LedgerAssumption
      <4> QED BY <2>4, <4>1
    <3> QED BY <1>5, <2>3, <2>4, <2>5, <3>1, LifeRise
  <2> QED BY <2>6, <2>7
<1>6. CASE PutCube
  <2>1. l2.cube \in Cube /\ l2'.at = "members" /\ l2.at = "cube"
    BY <1>6, JobFacts DEF PutCube
  <2>2. dCubes' = dCubes \cup {l2.cube} /\ UNCHANGED <<pool, faces, crashes, rb>>
    BY <1>6 DEF PutCube, memVars
  <2>3. \A k : ~InSealing(k)' /\ (InSealing(k) => \E f \in l2.cube : k \in f)
    BY <2>1 DEF InSealing
  <2> QED BY <1>5, <2>1, <2>2, <2>3
<1>7. ASSUME NEW c \in Foreign, Adopt(c) PROVE Life!Next \/ UNCHANGED Life!lifeVars
  <2>1. c \in Cube /\ dCubes' = dCubes \cup {c} /\ UNCHANGED <<pool, faces, crashes, rb, l2>>
    BY <1>7, LedgerAssumption DEF Adopt, memVars
  <2>2. \A k : InSealing(k)' <=> InSealing(k)
    BY <2>1 DEF InSealing
  <2> QED BY <1>5, <2>1, <2>2 DEF InSealing
<1>8. CASE PutMembers
  <2>1. UNCHANGED <<pool, faces, dCubes, crashes, rb>> /\ l2.at = "members" /\ l2'.at = "idle"
    BY <1>8 DEF PutMembers, memVars
  <2>2. \A k : Place(k)' = Place(k)
    BY <2>1 DEF Place, InFaces, InSealing, InCubes
  <2> QED BY <2>1, <2>2, LifeStutter
<1>9. CASE AdoptMembers
  <2>1. UNCHANGED <<faces, l2, dCubes, crashes, rb>> /\ pool' \subseteq pool
    BY <1>9 DEF AdoptMembers
  <2>2. \A k : Place(k)' = Place(k) \/ (Place(k) = "pooled" /\ Place(k)' = "out")
    BY <2>1 DEF Place, InFaces, InSealing, InCubes
  <2>3. \A k \in Key : IF Place(k) = "sealed" THEN Place(k)' = "sealed"
                       ELSE Life!Height[Place(k)'] =< Life!Height[Place(k)]
    BY <2>2, HeightFacts, PlaceType
  <2> QED BY <2>1, <2>3, LifeFall
<1>10. CASE RebuildWipe
  <2>1. pool' = {} /\ faces' = {} /\ dCubes' = {} /\ UNCHANGED <<l2, crashes>> /\ rb'.at = "admit"
    BY <1>10, JobFacts DEF RebuildWipe, JobsOK, RebuildJob
  <2>2. \A k : Place(k)' = IF InSealing(k) THEN "faced" ELSE "out"
    BY <2>1 DEF Place, InFaces, InSealing, InCubes
  <2>3. \A k : Life!Height[Place(k)'] =< Life!Height[Place(k)]
    BY <2>2, HeightFacts, PlaceType DEF Place
  <2>4. [k \in Key |-> HomeOf(k)]' \in [Key -> Life!Home]
    BY HomeFunction, PlaceType
  <2>5. Life!Wipe
    BY <2>1, <2>3, HomeFunction DEF Life!Wipe
  <2> QED BY <2>4, <2>5 DEF Life!Next
<1>11. CASE RebuildAdmit
  <2>1. dCubes \subseteq dCubes' /\ UNCHANGED crashes /\ rb.at = "admit" /\ rb'.at = "idle"
    BY <1>11 DEF RebuildAdmit
  <2>2. \A k : Place(k) = "sealed" => Place(k)' = "sealed"
    BY <2>1 DEF Place, InCubes
  <2>3. [k \in Key |-> HomeOf(k)]' \in [Key -> Life!Home]
    BY HomeFunction, PlaceType
  <2>4. Life!Regrow
    BY <2>1, <2>2, HomeFunction DEF Life!Regrow
  <2> QED BY <2>3, <2>4 DEF Life!Next
<1>12. CASE Crash
  <2>1. dCubes' = dCubes /\ crashes' = crashes + 1 /\ rb'.at = "idle"
    BY <1>12 DEF Crash, diskVars
  <2>2. \A k : Place(k) = "sealed" <=> Place(k)' = "sealed"
    BY <2>1 DEF Place, InCubes
  <2>3. [k \in Key |-> HomeOf(k)]' \in [Key -> Life!Home]
    BY HomeFunction, PlaceType
  <2>4. Life!Restart
    BY <2>1, <2>2, HomeFunction DEF Life!Restart
  <2> QED BY <2>3, <2>4 DEF Life!Next
<1>13. ASSUME NEW feed \in Feeds, RebuildScan(feed) PROVE UNCHANGED Life!lifeVars
  <2>1. UNCHANGED <<pool, faces, l2, dCubes, crashes>> /\ rb.at = "idle" /\ rb'.at = "scan"
    BY <1>13 DEF RebuildScan, Idle, memVars, diskVars
  <2> QED BY <1>0, <2>1, LifeStutter
<1>14. CASE \/ \E a \in Admission :
                 \/ \E x \in Key, kind \in Kinds : Offer(a, x, kind)
                 \/ RefuseSignature(a) \/ Refuse(a) \/ RefuseShape(a) \/ AdmitSave(a)
            \/ \E x \in Key : EvictBegin(x)
            \/ EvictList \/ SaveFaces
            \/ \E f \in Face : SealBlocks(f)
            \/ UNCHANGED ledgerVars
  <2>1. UNCHANGED <<pool, faces, l2, dCubes, crashes, rb>>
    BY <1>14 DEF Offer, RefuseSignature, Refuse, RefuseShape, AdmitSave, EvictBegin, EvictList, Listed,
                 SaveFaces, SealBlocks, memVars, diskVars, jobVars, ledgerVars
  <2> QED BY <1>0, <2>1, LifeStutter
<1> QED BY <1>1, <1>2, <1>3, <1>4, <1>6, <1>7, <1>8, <1>9, <1>10, <1>11, <1>12, <1>13, <1>14 DEF Next

\* The ledger implements the life of a block: face by face and cube by cube a block rises, a sealed
\* block stays sealed but for a rebuild, and a restart neither seals nor unseals one.
THEOREM LifeHolds == LedgerSpec => ImplementsLife
<1>1. Init => Life!Init
  <2> SUFFICES ASSUME Init PROVE Life!Init
    OBVIOUS
  <2>1. \A k : Place(k) = "out"
    BY DEF Init, NoJob, Place, InFaces, InSealing, InCubes
  <2>2. [k \in Key |-> HomeOf(k)] = [k \in Key |-> "out"]
    BY <2>1, HomeFunction
  <2> QED BY <2>2 DEF Init, NoJob, Life!Init
<1> QED BY <1>1, LifeStep, StoreHolds, PTL DEF LedgerSpec, ImplementsLife, Life!LifeSpec

=============================================================================
