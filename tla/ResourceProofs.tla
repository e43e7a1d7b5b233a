---------------------------- MODULE ResourceProofs ----------------------------
(***************************************************************************)
(* Proofs about the parts of MCServices that account for something that    *)
(* runs out: the bytes of a store, the requests of a window, the room of a *)
(* cache, the seats of an election.  As in ServicesProofs, a step of the   *)
(* collection is a step of the part that Init chose, and each part's       *)
(* invariant is proved of its own steps for every value of its constants.  *)
(***************************************************************************)
EXTENDS MCServices, FiniteSetTheorems, TLAPS

----------------------------------------------------------------------------
(* Storage                                                                  *)

\* The bytes of a set of shards.
Bytes(S) == UNION {{s} \X (1 .. Size[s]) : s \in S}

\* The size of shards is the number of their bytes.
LEMMA SizeIsBytes == \A S : Shards!SizeOf(S) = Cardinality(Bytes(S))
<1>1. \A S : Shards!Cardinality(S) = Cardinality(S)
  BY DEF Shards!Cardinality, Cardinality, Shards!IsFiniteSet, IsFiniteSet
<1> QED
  BY <1>1 DEF Shards!SizeOf, Bytes

\* Finitely many shards have finitely many bytes.
LEMMA BytesFinite ==
  ASSUME NEW S, IsFiniteSet(S), S \subseteq Shard
  PROVE  IsFiniteSet(Bytes(S))
<1> DEFINE row == [s \in S |-> {s} \X (1 .. Size[s])]
           rows == {{s} \X (1 .. Size[s]) : s \in S}
<1>1. row \in Surjection(S, rows)
  BY DEF Surjection
<1>2. IsFiniteSet(rows)
  BY <1>1, FS_Surjection
<1>3. \A T \in rows : IsFiniteSet(T)
  <2> TAKE T \in rows
  <2>1. PICK s \in S : T = {s} \X (1 .. Size[s])
    OBVIOUS
  <2>2. Size[s] \in Int
    BY ShardAssumption DEF ShardAssumption
  <2>3. IsFiniteSet({s})
    BY FS_Singleton
  <2>4. IsFiniteSet(1 .. Size[s])
    BY <2>2, FS_Interval
  <2> QED
    BY <2>1, <2>3, <2>4, FS_Product
<1> QED
  BY <1>2, <1>3, FS_UNION DEF Bytes

\* One shard more takes its size more; more shards take no less.
LEMMA SizeAdds ==
  ASSUME NEW S, IsFiniteSet(S), S \subseteq Shard, NEW s \in Shard, s \notin S
  PROVE  Shards!SizeOf(S \cup {s}) = Shards!SizeOf(S) + Size[s]
<1>1. Bytes(S \cup {s}) = Bytes(S) \cup Bytes({s})
  BY DEF Bytes
<1>2. Bytes(S) \cap Bytes({s}) = {}
  BY DEF Bytes
<1>3. IsFiniteSet({s}) /\ Cardinality({s}) = 1
  BY FS_Singleton
<1>4. IsFiniteSet(Bytes(S)) /\ IsFiniteSet(Bytes({s}))
  BY <1>3, BytesFinite
<1>5. Cardinality(Bytes(S) \cup Bytes({s})) = Cardinality(Bytes(S)) + Cardinality(Bytes({s})) - Cardinality({})
  BY <1>2, <1>4, FS_Union
<1>6. Cardinality(Bytes({s})) = Size[s]
  <2>1. Bytes({s}) = {s} \X (1 .. Size[s])
    BY DEF Bytes
  <2>2. Size[s] \in Nat
    BY ShardAssumption DEF ShardAssumption
  <2>3. IsFiniteSet(1 .. Size[s]) /\ Cardinality(1 .. Size[s]) = Size[s]
    <3>1. \A n \in Nat : IsFiniteSet(1 .. n) /\ Cardinality(1 .. n) = n
      BY FS_Interval
    <3> QED
      BY <2>2, <3>1
  <2>4. PICK T : T = 1 .. Size[s]
    OBVIOUS
  <2>5. Cardinality({s} \X T) = Cardinality({s}) * Cardinality(T)
    BY <1>3, <2>3, <2>4, FS_Product
  <2>6. Cardinality({s} \X T) = 1 * Size[s]
    BY <1>3, <2>3, <2>4, <2>5
  <2>7. 1 * Size[s] = Size[s]
    BY <2>2
  <2> QED
    BY <2>1, <2>4, <2>6, <2>7
<1>7. Cardinality(Bytes(S)) \in Nat /\ Size[s] \in Nat
  BY <1>4, FS_CardinalityType, ShardAssumption DEF ShardAssumption
<1>8. Cardinality(Bytes(S \cup {s})) = Cardinality(Bytes(S)) + Size[s]
  <2>1. Cardinality({}) = 0
    BY FS_EmptySet
  <2>2. Cardinality(Bytes(S) \cup Bytes({s})) = Cardinality(Bytes(S)) + Size[s] - 0
    BY <1>5, <1>6, <2>1
  <2>3. Cardinality(Bytes(S)) + Size[s] - 0 = Cardinality(Bytes(S)) + Size[s]
    BY <1>7
  <2> QED
    BY <1>1, <2>2, <2>3
<1> QED
  BY <1>8, SizeIsBytes

LEMMA SizeGrows ==
  ASSUME NEW T, IsFiniteSet(T), T \subseteq Shard, NEW S \in SUBSET T
  PROVE  /\ IsFiniteSet(S)
         /\ Shards!SizeOf(S) <= Shards!SizeOf(T)
         /\ Shards!SizeOf(S) \in Nat /\ Shards!SizeOf(T) \in Nat
<1>1. IsFiniteSet(S) /\ S \subseteq Shard
  BY FS_Subset
<1>2. IsFiniteSet(Bytes(T)) /\ IsFiniteSet(Bytes(S))
  BY <1>1, BytesFinite
<1>3. Bytes(S) \in SUBSET Bytes(T)
  BY DEF Bytes
<1>4. Cardinality(Bytes(S)) <= Cardinality(Bytes(T))
  BY <1>2, <1>3, FS_Subset
<1>5. Cardinality(Bytes(S)) \in Nat /\ Cardinality(Bytes(T)) \in Nat
  BY <1>2, FS_CardinalityType
<1> QED
  BY <1>1, <1>4, <1>5, SizeIsBytes

LEMMA SizeOfNone == Shards!SizeOf({}) = 0
<1>1. Bytes({}) = {}
  BY DEF Bytes
<1> QED
  BY <1>1, SizeIsBytes, FS_EmptySet

\* A shard less takes its size less.
LEMMA SizeLess ==
  ASSUME NEW S, IsFiniteSet(S), S \subseteq Shard, NEW s \in S
  PROVE  Shards!SizeOf(S \ {s}) = Shards!SizeOf(S) - Size[s]
<1>1. IsFiniteSet(S \ {s}) /\ S \ {s} \subseteq Shard /\ s \in Shard /\ s \notin S \ {s} /\ (S \ {s}) \cup {s} = S
  BY FS_Subset
<1>2. Shards!SizeOf(S) = Shards!SizeOf(S \ {s}) + Size[s]
  <2>1. Shards!SizeOf((S \ {s}) \cup {s}) = Shards!SizeOf(S \ {s}) + Size[s]
    BY <1>1, SizeAdds
  <2> QED
    BY <1>1, <2>1
<1>3. Shards!SizeOf(S \ {s}) \in Nat /\ Size[s] \in Nat
  BY <1>1, SizeGrows, ShardAssumption DEF ShardAssumption
<1> QED
  BY <1>2, <1>3

\* What an operation under way knows.
StorageOp == [op : {"store", "delete"}, shard : Shard, at : {"data", "meta", "done"}]

StorageTyped ==
  /\ durable \in {"unknown", "yes", "no"} /\ volatile \in BOOLEAN /\ quotaRaced \in BOOLEAN
  /\ dataRows \subseteq Shard /\ metaRows \subseteq Shard /\ ramRows \subseteq Shard /\ shards \subseteq Shard
  /\ storageRaced \subseteq Shard /\ cut \subseteq Shard /\ used \in Int
  /\ IsFiniteSet(shards) /\ IsFiniteSet(metaRows)
  /\ opAt \in [StorageCaller -> {Shards!NoOp} \cup StorageOp]
  /\ probe \in {Shards!NoProbe} \cup [nonce : Nat \ {0}, shard : Shard]
  /\ available \in {Shards!NoProbe} \cup [nonce : Nat \ {0}, shard : Shard, ok : BOOLEAN]

\* The shards that are being deleted, and those whose rows are written and that are not yet known.
Deleting == {opAt[c].shard : c \in {d \in StorageCaller : opAt[d].op = "delete"}}
Landing == {opAt[c].shard : c \in {d \in StorageCaller : opAt[d].op = "store" /\ opAt[d].at = "done"}}

\* Unless it is recorded, an operation has its shard to itself, stores one that is not known and deletes
\* one that is.
OwnShard ==
  /\ durable = "unknown" => shards = {} /\ \A c \in StorageCaller : opAt[c] = Shards!NoOp
  /\ \A c, d \in StorageCaller : c # d /\ opAt[c] # Shards!NoOp /\ opAt[d] # Shards!NoOp /\ opAt[c].shard = opAt[d].shard
       => opAt[c].shard \in storageRaced
  /\ \A c \in StorageCaller : opAt[c] # Shards!NoOp /\ opAt[c].shard \notin storageRaced =>
       /\ opAt[c].op = "store" => opAt[c].shard \notin shards
       /\ opAt[c].op = "delete" => opAt[c].shard \in shards

\* What is known, and what a restart would know, has its bytes on disk, but for the shards that raced, were
\* cut, or are being deleted.
RowsKept ==
  /\ durable = "no" /\ ~volatile => shards = {} /\ \A c \in StorageCaller : opAt[c] = Shards!NoOp
  /\ durable # "yes" => metaRows \subseteq dataRows \cup cut
  /\ durable = "yes" =>
       /\ shards \subseteq dataRows \cup cut \cup storageRaced \cup Deleting
       /\ metaRows \subseteq dataRows \cup cut \cup storageRaced \cup Deleting
       /\ \A c \in StorageCaller : opAt[c] # Shards!NoOp /\ opAt[c].shard \notin storageRaced =>
            /\ opAt[c].op = "delete" /\ opAt[c].at = "done" => opAt[c].shard \notin metaRows
            /\ opAt[c].op = "store" /\ opAt[c].at # "data" => opAt[c].shard \in dataRows

\* The quota is the size of what is known; what is known, with the one store under way, and what a restart
\* would know, fit.
QuotaKept ==
  /\ storageRaced = {} => used = Shards!SizeOf(shards)
  /\ ~quotaRaced /\ storageRaced = {} =>
       /\ used <= Capacity
       /\ durable # "yes" => Shards!SizeOf(metaRows) <= Capacity
       /\ \A c, d \in StorageCaller : opAt[c].op = "store" /\ opAt[d].op = "store" => c = d
       /\ \A c \in StorageCaller : opAt[c].op = "store" => used + Size[opAt[c].shard] <= Capacity
       /\ durable = "yes" => metaRows \subseteq shards \cup Landing

StorageInv == StorageTyped /\ OwnShard /\ RowsKept /\ QuotaKept /\ proofs \subseteq provedBy /\ Shards!ProvenHeld

\* A node starts with nothing on a directory of nothing.
LEMMA StorageInit == Init => StorageInv
<1> SUFFICES ASSUME Init PROVE StorageInv
  OBVIOUS
<1>1. Shards!Init
  BY DEF Init
<1>2. IsFiniteSet({}) /\ Shards!SizeOf({}) = 0 /\ Capacity \in Nat
  BY FS_EmptySet, SizeOfNone, ShardAssumption DEF ShardAssumption
<1>3. StorageTyped
  <2>1. opAt \in [StorageCaller -> {Shards!NoOp} \cup StorageOp]
    BY <1>1 DEF Shards!Init
  <2>2. /\ probe \in {Shards!NoProbe} \cup [nonce : Nat \ {0}, shard : Shard]
        /\ available \in {Shards!NoProbe} \cup [nonce : Nat \ {0}, shard : Shard, ok : BOOLEAN]
    BY <1>1 DEF Shards!Init
  <2>3. /\ dataRows = {} /\ metaRows = {} /\ ramRows = {} /\ shards = {} /\ storageRaced = {} /\ cut = {} /\ used = 0
        /\ durable = "unknown" /\ volatile \in BOOLEAN /\ quotaRaced = FALSE
    BY <1>1 DEF Shards!Init
  <2>4. IsFiniteSet(shards) /\ IsFiniteSet(metaRows)
    BY <1>2, <2>3
  <2>5. /\ durable \in {"unknown", "yes", "no"} /\ volatile \in BOOLEAN /\ quotaRaced \in BOOLEAN
        /\ dataRows \subseteq Shard /\ metaRows \subseteq Shard /\ ramRows \subseteq Shard /\ shards \subseteq Shard
        /\ storageRaced \subseteq Shard /\ cut \subseteq Shard /\ used \in Int
    <3>1. durable \in {"unknown", "yes", "no"}
      BY <2>3
    <3>2. volatile \in BOOLEAN /\ quotaRaced \in BOOLEAN
      BY <2>3, Zenon
    <3>3. dataRows \subseteq Shard /\ metaRows \subseteq Shard /\ ramRows \subseteq Shard /\ shards \subseteq Shard
      BY <2>3
    <3>4. storageRaced \subseteq Shard /\ cut \subseteq Shard /\ used \in Int
      BY <2>3
    <3> QED
      BY <3>1, <3>2, <3>3, <3>4
  <2> QED
    BY <2>1, <2>2, <2>4, <2>5, Zenon DEF StorageTyped
<1>4. OwnShard /\ RowsKept
  BY <1>1 DEF OwnShard, RowsKept, Shards!Init
<1>5. QuotaKept
  BY <1>1, <1>2 DEF QuotaKept, Shards!Init, Shards!NoOp
<1>6. proofs \subseteq provedBy /\ Shards!ProvenHeld
  BY <1>1 DEF Shards!Init, Shards!ProvenHeld, Shards!NoProbe
<1> QED
  BY <1>3, <1>4, <1>5, <1>6 DEF StorageInv

\* An operation is the one of nobody, or what it says.
LEMMA OpKinds ==
  ASSUME StorageTyped, NEW c \in StorageCaller
  PROVE  /\ Shards!NoOp.op = "none" /\ Shards!NoOp.at = "idle"
         /\ opAt[c] # Shards!NoOp => opAt[c] \in StorageOp
         /\ opAt[c].op \in {"store", "delete"} <=> opAt[c] # Shards!NoOp
         /\ opAt[c].at # "idle" <=> opAt[c] # Shards!NoOp
  BY DEF StorageTyped, StorageOp, Shards!NoOp

\* The metadata on disk is what is known after an open that succeeds.
LEMMA OpenStep == ASSUME StorageInv, NEW ok \in BOOLEAN, Shards!Open(ok) PROVE StorageInv'
<1> USE DEF StorageInv
<1>1. /\ UNCHANGED <<volatile, dataRows, metaRows, ramRows, opAt, probe, proofs, available, provedBy, storageRaced, cut, quotaRaced>>
      /\ durable = "unknown" /\ durable' = IF ok THEN "yes" ELSE "no"
      /\ shards' = IF ok THEN metaRows ELSE {}
      /\ used' = IF ok THEN Shards!SizeOf(metaRows) ELSE 0
  BY DEF Shards!Open
<1>2. IsFiniteSet({}) /\ Shards!SizeOf({}) = 0 /\ Capacity \in Nat /\ Shards!SizeOf(metaRows) \in Nat
  BY FS_EmptySet, SizeOfNone, SizeGrows, ShardAssumption DEF ShardAssumption, StorageTyped
<1>3. StorageTyped'
  BY <1>1, <1>2 DEF StorageTyped
<1>4. \A c \in StorageCaller : opAt[c] = Shards!NoOp
  BY <1>1 DEF OwnShard
<1>5. OwnShard'
  BY <1>1, <1>4 DEF OwnShard
<1>6. RowsKept'
  BY <1>1, <1>4 DEF RowsKept
<1>7. QuotaKept'
  BY <1>1, <1>2, <1>4 DEF QuotaKept, Shards!NoOp
<1>8. (proofs \subseteq provedBy /\ Shards!ProvenHeld)'
  BY <1>1 DEF Shards!ProvenHeld
<1> QED
  BY <1>3, <1>5, <1>6, <1>7, <1>8

\* What a store or a delete that begins does to the records.
LEMMA StoreStep ==
  ASSUME StorageInv, NEW c \in StorageCaller, NEW s \in Shard, Shards!StoreShard(c, s)
  PROVE  StorageInv'
<1> USE DEF StorageInv
<1> DEFINE o == [op |-> "store", shard |-> s, at |-> "data"]
<1>1. /\ UNCHANGED <<durable, volatile, dataRows, metaRows, ramRows, shards, used, probe, proofs, available, provedBy, cut>>
      /\ durable # "unknown" /\ opAt[c] = Shards!NoOp /\ (durable = "yes" \/ volatile)
      /\ used + Size[s] <= Capacity
      /\ opAt' = [opAt EXCEPT ![c] = o]
      /\ storageRaced' = IF Shards!Busy(s) \/ s \in shards THEN storageRaced \cup {s} ELSE storageRaced
      /\ quotaRaced' = (quotaRaced \/ Shards!Storing)
  BY DEF Shards!StoreShard, Shards!Accepts
<1>2. StorageTyped'
  BY <1>1 DEF StorageTyped, StorageOp
<1>3. /\ opAt'[c] = o /\ \A d \in StorageCaller \ {c} : opAt'[d] = opAt[d]
      /\ storageRaced \subseteq storageRaced' /\ o # Shards!NoOp
  BY <1>1 DEF StorageTyped, Shards!NoOp
<1>4. s \notin storageRaced' => s \notin shards /\ \A d \in StorageCaller : opAt[d] # Shards!NoOp => opAt[d].shard # s
  BY <1>1, OpKinds DEF Shards!Busy
<1>5. OwnShard'
  <2>1. durable' # "unknown"
    BY <1>1
  <2>2. \A d, e \in StorageCaller : d # e /\ opAt'[d] # Shards!NoOp /\ opAt'[e] # Shards!NoOp /\ opAt'[d].shard = opAt'[e].shard
          => opAt'[d].shard \in storageRaced'
    BY <1>3, <1>4 DEF OwnShard
  <2>3. \A d \in StorageCaller : opAt'[d] # Shards!NoOp /\ opAt'[d].shard \notin storageRaced' =>
          /\ opAt'[d].op = "store" => opAt'[d].shard \notin shards'
          /\ opAt'[d].op = "delete" => opAt'[d].shard \in shards'
    BY <1>1, <1>3, <1>4 DEF OwnShard
  <2> QED
    BY <2>1, <2>2, <2>3 DEF OwnShard, Shards!NoOp
<1>6. Deleting' = Deleting /\ Landing' = Landing
  BY <1>1, <1>3 DEF Deleting, Landing, Shards!NoOp
<1>7. RowsKept'
  BY <1>1, <1>3, <1>6 DEF RowsKept
<1>8. QuotaKept'
  <2>1. storageRaced' = {} => used' = Shards!SizeOf(shards')
    BY <1>1, <1>3 DEF QuotaKept
  <2>2. ASSUME ~quotaRaced', storageRaced' = {}
        PROVE  /\ used' <= Capacity
               /\ durable' # "yes" => Shards!SizeOf(metaRows') <= Capacity
               /\ \A d, e \in StorageCaller : opAt'[d].op = "store" /\ opAt'[e].op = "store" => d = e
               /\ \A d \in StorageCaller : opAt'[d].op = "store" => used' + Size[opAt'[d].shard] <= Capacity
               /\ durable' = "yes" => metaRows' \subseteq shards' \cup Landing'
    <3>1. ~quotaRaced /\ storageRaced = {} /\ ~Shards!Storing
      BY <2>2, <1>1, <1>3
    <3>2. \A d \in StorageCaller : opAt[d].op # "store"
      BY <3>1 DEF Shards!Storing
    <3>3. \A d \in StorageCaller : opAt'[d].op = "store" => d = c
      BY <3>2, <1>3
    <3> QED
      BY <1>1, <1>3, <1>6, <3>1, <3>3 DEF QuotaKept
  <2> QED
    BY <2>1, <2>2 DEF QuotaKept
<1>9. (proofs \subseteq provedBy /\ Shards!ProvenHeld)'
  BY <1>1 DEF Shards!ProvenHeld
<1> QED
  BY <1>2, <1>5, <1>7, <1>8, <1>9

LEMMA DeleteStep ==
  ASSUME StorageInv, NEW c \in StorageCaller, NEW s \in Shard, Shards!DeleteShard(c, s)
  PROVE  StorageInv'
<1> USE DEF StorageInv
<1> DEFINE o == [op |-> "delete", shard |-> s, at |-> "data"]
<1>1. /\ UNCHANGED <<durable, volatile, dataRows, metaRows, ramRows, shards, used, probe, proofs, available, provedBy, cut, quotaRaced>>
      /\ durable # "unknown" /\ opAt[c] = Shards!NoOp /\ s \in shards
      /\ opAt' = [opAt EXCEPT ![c] = o]
      /\ storageRaced' = IF Shards!Busy(s) THEN storageRaced \cup {s} ELSE storageRaced
  BY DEF Shards!DeleteShard
<1>2. StorageTyped'
  BY <1>1 DEF StorageTyped, StorageOp
<1>3. /\ opAt'[c] = o /\ \A d \in StorageCaller \ {c} : opAt'[d] = opAt[d]
      /\ storageRaced \subseteq storageRaced' /\ o # Shards!NoOp
  BY <1>1 DEF StorageTyped, Shards!NoOp
<1>4. s \notin storageRaced' => \A d \in StorageCaller : opAt[d] # Shards!NoOp => opAt[d].shard # s
  BY <1>1, OpKinds DEF Shards!Busy
<1>5. OwnShard'
  <2>1. durable' # "unknown"
    BY <1>1
  <2>2. \A d, e \in StorageCaller : d # e /\ opAt'[d] # Shards!NoOp /\ opAt'[e] # Shards!NoOp /\ opAt'[d].shard = opAt'[e].shard
          => opAt'[d].shard \in storageRaced'
    BY <1>3, <1>4 DEF OwnShard
  <2>3. \A d \in StorageCaller : opAt'[d] # Shards!NoOp /\ opAt'[d].shard \notin storageRaced' =>
          /\ opAt'[d].op = "store" => opAt'[d].shard \notin shards'
          /\ opAt'[d].op = "delete" => opAt'[d].shard \in shards'
    BY <1>1, <1>3 DEF OwnShard
  <2> QED
    BY <2>1, <2>2, <2>3 DEF OwnShard, Shards!NoOp
<1>6. Deleting \subseteq Deleting' /\ Landing' = Landing
  BY <1>1, <1>3 DEF Deleting, Landing, Shards!NoOp
<1>7. RowsKept'
  <2>1. durable = "no" => volatile
    BY <1>1 DEF RowsKept
  <2>2. durable' # "yes" => metaRows' \subseteq dataRows' \cup cut'
    BY <1>1 DEF RowsKept
  <2>3. ASSUME durable' = "yes"
        PROVE  /\ shards' \subseteq dataRows' \cup cut' \cup storageRaced' \cup Deleting'
               /\ metaRows' \subseteq dataRows' \cup cut' \cup storageRaced' \cup Deleting'
               /\ \A d \in StorageCaller : opAt'[d] # Shards!NoOp /\ opAt'[d].shard \notin storageRaced' =>
                    /\ opAt'[d].op = "delete" /\ opAt'[d].at = "done" => opAt'[d].shard \notin metaRows'
                    /\ opAt'[d].op = "store" /\ opAt'[d].at # "data" => opAt'[d].shard \in dataRows'
    BY <2>3, <1>1, <1>3, <1>6 DEF RowsKept
  <2> QED
    BY <1>1, <2>1, <2>2, <2>3 DEF RowsKept, Shards!NoOp
<1>8. QuotaKept'
  <2>1. \A d \in StorageCaller : opAt'[d].op = "store" => d # c /\ opAt'[d] = opAt[d]
    BY <1>3
  <2> QED
    BY <1>1, <1>3, <1>6, <2>1 DEF QuotaKept
<1>9. (proofs \subseteq provedBy /\ Shards!ProvenHeld)'
  BY <1>1 DEF Shards!ProvenHeld
<1> QED
  BY <1>2, <1>5, <1>7, <1>8, <1>9

\* The row of the bytes, of an operation with its shard.
LEMMA WriteDataStep ==
  ASSUME StorageInv, NEW c \in StorageCaller, Shards!WriteData(c)
  PROVE  StorageInv'
<1> USE DEF StorageInv
<1> DEFINE o == opAt[c]
<1>1. /\ UNCHANGED <<durable, volatile, metaRows, shards, used, probe, proofs, available, provedBy, storageRaced, cut, quotaRaced>>
      /\ o.at = "data" /\ o \in StorageOp /\ o # Shards!NoOp
      /\ durable = "yes" => dataRows' = Shards!Rows(dataRows, o) /\ ramRows' = ramRows
      /\ durable # "yes" => ramRows' = Shards!Rows(ramRows, o) /\ dataRows' = dataRows
      /\ opAt' = [opAt EXCEPT ![c] = [o EXCEPT !.at = "meta"]]
  BY OpKinds DEF Shards!WriteData, Shards!NoOp
<1>2. PICK u : u = [op |-> o.op, shard |-> o.shard, at |-> "meta"]
  OBVIOUS
<1>3. /\ [o EXCEPT !.at = "meta"] = u /\ u \in StorageOp /\ u # Shards!NoOp
      /\ u.op = o.op /\ u.shard = o.shard /\ u.at = "meta" /\ o.shard \in Shard
  BY <1>1, <1>2 DEF StorageOp, Shards!NoOp
<1>4. opAt' = [opAt EXCEPT ![c] = u]
  BY <1>1, <1>3
<1>5. opAt'[c] = u /\ \A d \in StorageCaller \ {c} : opAt'[d] = opAt[d]
  BY <1>4 DEF StorageTyped
<1>6. StorageTyped'
  BY <1>1, <1>3, <1>4 DEF StorageTyped, Shards!Rows
<1>7. OwnShard'
  BY <1>1, <1>3, <1>5 DEF OwnShard, Shards!NoOp
<1>8. Deleting' = Deleting /\ Landing' = Landing
  BY <1>1, <1>3, <1>5 DEF Deleting, Landing
<1>9. o.op = "delete" => o.shard \in Deleting
  BY DEF Deleting
<1>10. RowsKept'
  <2>1. durable' = "no" /\ ~volatile' => shards' = {} /\ \A d \in StorageCaller : opAt'[d] = Shards!NoOp
    BY <1>1 DEF RowsKept
  <2>2. durable' # "yes" => metaRows' \subseteq dataRows' \cup cut'
    BY <1>1 DEF RowsKept
  <2>3. ASSUME durable = "yes"  PROVE dataRows \subseteq dataRows' \cup Deleting
    <3>1. dataRows' = IF o.op = "store" THEN dataRows \cup {o.shard} ELSE dataRows \ {o.shard}
      BY <2>3, <1>1 DEF Shards!Rows
    <3>2. o.op = "store" \/ o.op = "delete"
      BY <1>1 DEF StorageOp
    <3>3. CASE o.op = "store"
      BY <3>1, <3>3
    <3>4. CASE o.op = "delete"
      <4>1. dataRows' = dataRows \ {o.shard} /\ o.shard \in Deleting
        BY <3>1, <3>4, <1>9
      <4> QED
        BY <4>1
    <3> QED
      BY <3>2, <3>3, <3>4
  <2>4. ASSUME durable' = "yes", NEW d \in StorageCaller, opAt'[d] # Shards!NoOp, opAt'[d].shard \notin storageRaced'
        PROVE  /\ opAt'[d].op = "delete" /\ opAt'[d].at = "done" => opAt'[d].shard \notin metaRows'
               /\ opAt'[d].op = "store" /\ opAt'[d].at # "data" => opAt'[d].shard \in dataRows'
    <3>1. CASE d = c
      <4>1. opAt'[d] = u
        BY <3>1, <1>5
      <4>2. u.op = "store" => o.shard \in dataRows'
        BY <2>4, <1>1, <1>3 DEF Shards!Rows
      <4> QED
        BY <4>1, <4>2, <1>3
    <3>2. CASE d # c
      <4>1. opAt'[d] = opAt[d] /\ opAt[d].shard # o.shard
        BY <2>4, <3>2, <1>1, <1>5 DEF OwnShard
      <4> QED
        BY <2>4, <4>1, <1>1 DEF RowsKept, Shards!Rows
    <3> QED
      BY <3>1, <3>2
  <2> QED
    BY <1>1, <1>8, <2>1, <2>2, <2>3, <2>4 DEF RowsKept, Shards!NoOp
<1>11. QuotaKept'
  BY <1>1, <1>3, <1>5, <1>8 DEF QuotaKept
<1>12. (proofs \subseteq provedBy /\ Shards!ProvenHeld)'
  BY <1>1 DEF Shards!ProvenHeld
<1> QED
  BY <1>6, <1>7, <1>10, <1>11, <1>12

\* The row of the metadata.
LEMMA WriteMetaStep ==
  ASSUME StorageInv, NEW c \in StorageCaller, Shards!WriteMeta(c)
  PROVE  StorageInv'
<1> USE DEF StorageInv
<1> DEFINE o == opAt[c]
<1>1. /\ UNCHANGED <<durable, volatile, dataRows, ramRows, shards, used, probe, proofs, available, provedBy, storageRaced, cut, quotaRaced>>
      /\ o.at = "meta" /\ o \in StorageOp /\ o # Shards!NoOp
      /\ metaRows' = IF durable = "yes" THEN Shards!Rows(metaRows, o) ELSE metaRows
      /\ opAt' = [opAt EXCEPT ![c] = [o EXCEPT !.at = "done"]]
  BY OpKinds DEF Shards!WriteMeta, Shards!NoOp
<1>2. PICK u : u = [op |-> o.op, shard |-> o.shard, at |-> "done"]
  OBVIOUS
<1>3. /\ [o EXCEPT !.at = "done"] = u /\ u \in StorageOp /\ u # Shards!NoOp
      /\ u.op = o.op /\ u.shard = o.shard /\ u.at = "done" /\ o.shard \in Shard /\ o.op \in {"store", "delete"}
  BY <1>1, <1>2 DEF StorageOp, Shards!NoOp
<1>4. opAt' = [opAt EXCEPT ![c] = u]
  BY <1>1, <1>3
<1>5. opAt'[c] = u /\ \A d \in StorageCaller \ {c} : opAt'[d] = opAt[d]
  BY <1>4 DEF StorageTyped
<1>6. StorageTyped'
  <2>1. IsFiniteSet(metaRows \cup {o.shard}) /\ IsFiniteSet(metaRows \ {o.shard})
    BY FS_AddElement, FS_RemoveElement DEF StorageTyped
  <2>2. IsFiniteSet(metaRows') /\ metaRows' \subseteq Shard
    BY <1>1, <1>3, <2>1 DEF StorageTyped, Shards!Rows
  <2> QED
    BY <1>1, <1>3, <1>4, <2>2 DEF StorageTyped
<1>7. OwnShard'
  BY <1>1, <1>3, <1>5 DEF OwnShard, Shards!NoOp
<1>8. Deleting' = Deleting /\ Landing \subseteq Landing' /\ (o.op = "store" => o.shard \in Landing')
  BY <1>1, <1>3, <1>5 DEF Deleting, Landing
<1>9. o.op = "delete" => o.shard \in Deleting
  BY DEF Deleting
<1>10. RowsKept'
  <2>1. durable' = "no" /\ ~volatile' => shards' = {} /\ \A d \in StorageCaller : opAt'[d] = Shards!NoOp
    BY <1>1 DEF RowsKept
  <2>2. durable' # "yes" => metaRows' \subseteq dataRows' \cup cut'
    BY <1>1 DEF RowsKept
  <2>3. ASSUME durable = "yes"  PROVE metaRows' \subseteq dataRows \cup cut \cup storageRaced \cup Deleting
    <3>1. metaRows' \subseteq metaRows \cup (IF o.op = "store" THEN {o.shard} ELSE {})
      BY <2>3, <1>1 DEF Shards!Rows
    <3>2. o.op = "store" => o.shard \in dataRows \cup storageRaced
      BY <2>3, <1>1 DEF RowsKept
    <3> QED
      BY <2>3, <3>1, <3>2 DEF RowsKept
  <2>4. ASSUME durable' = "yes", NEW d \in StorageCaller, opAt'[d] # Shards!NoOp, opAt'[d].shard \notin storageRaced'
        PROVE  /\ opAt'[d].op = "delete" /\ opAt'[d].at = "done" => opAt'[d].shard \notin metaRows'
               /\ opAt'[d].op = "store" /\ opAt'[d].at # "data" => opAt'[d].shard \in dataRows'
    <3>1. CASE d = c
      BY <2>4, <3>1, <1>1, <1>3, <1>5 DEF Shards!Rows, RowsKept
    <3>2. CASE d # c
      <4>1. opAt'[d] = opAt[d] /\ opAt[d].shard # o.shard
        BY <2>4, <3>2, <1>1, <1>5 DEF OwnShard
      <4> QED
        BY <2>4, <4>1, <1>1 DEF RowsKept, Shards!Rows
    <3> QED
      BY <3>1, <3>2
  <2> QED
    BY <1>1, <1>8, <2>1, <2>2, <2>3, <2>4 DEF RowsKept, Shards!NoOp
<1>11. QuotaKept'
  <2>1. durable = "yes" /\ ~quotaRaced /\ storageRaced = {} => metaRows' \subseteq shards' \cup Landing'
    BY <1>1, <1>8 DEF QuotaKept, Shards!Rows
  <2>2. \A d \in StorageCaller : opAt'[d].op = opAt[d].op /\ (opAt[d].op = "store" => opAt'[d].shard = opAt[d].shard)
    BY <1>3, <1>5
  <2> QED
    BY <1>1, <2>1, <2>2 DEF QuotaKept
<1>12. (proofs \subseteq provedBy /\ Shards!ProvenHeld)'
  BY <1>1 DEF Shards!ProvenHeld
<1> QED
  BY <1>6, <1>7, <1>10, <1>11, <1>12

\* What is known, and the quota, once the rows are written.
LEMMA AccountStep ==
  ASSUME StorageInv, NEW c \in StorageCaller, Shards!Account(c)
  PROVE  StorageInv'
<1> USE DEF StorageInv
<1> DEFINE o == opAt[c]
<1>1. /\ UNCHANGED <<durable, volatile, dataRows, metaRows, ramRows, probe, proofs, available, provedBy, storageRaced, cut, quotaRaced>>
      /\ o.at = "done" /\ o \in StorageOp /\ o # Shards!NoOp
      /\ shards' = Shards!Rows(shards, o)
      /\ used' = IF o.op = "store" THEN used + Size[o.shard] ELSE used - Size[o.shard]
      /\ opAt' = [opAt EXCEPT ![c] = Shards!NoOp]
  BY OpKinds DEF Shards!Account, Shards!NoOp
<1>2. o.shard \in Shard /\ o.op \in {"store", "delete"} /\ Size[o.shard] \in Nat
  BY <1>1, ShardAssumption DEF StorageOp, ShardAssumption
<1>3. opAt'[c] = Shards!NoOp /\ \A d \in StorageCaller \ {c} : opAt'[d] = opAt[d]
  BY <1>1 DEF StorageTyped
<1>4. StorageTyped'
  <2>1. IsFiniteSet(shards \cup {o.shard}) /\ IsFiniteSet(shards \ {o.shard})
    BY FS_AddElement, FS_RemoveElement DEF StorageTyped
  <2>2. IsFiniteSet(shards') /\ shards' \subseteq Shard
    BY <1>1, <1>2, <2>1 DEF StorageTyped, Shards!Rows
  <2>3. used' \in Int
    BY <1>1, <1>2 DEF StorageTyped
  <2> QED
    BY <1>1, <2>2, <2>3 DEF StorageTyped
<1>5. durable # "unknown"
  BY <1>1 DEF OwnShard
<1>6. OwnShard'
  <2>1. ASSUME NEW d \in StorageCaller, opAt'[d] # Shards!NoOp, opAt'[d].shard \notin storageRaced'
        PROVE  /\ opAt'[d].op = "store" => opAt'[d].shard \notin shards'
               /\ opAt'[d].op = "delete" => opAt'[d].shard \in shards'
    <3>1. d # c /\ opAt'[d] = opAt[d] /\ opAt[d].shard # o.shard
      BY <2>1, <1>1, <1>3 DEF OwnShard
    <3> QED
      BY <2>1, <3>1, <1>1 DEF OwnShard, Shards!Rows
  <2>2. \A d, e \in StorageCaller : d # e /\ opAt'[d] # Shards!NoOp /\ opAt'[e] # Shards!NoOp /\ opAt'[d].shard = opAt'[e].shard
          => opAt'[d].shard \in storageRaced'
    BY <1>1, <1>3 DEF OwnShard
  <2> QED
    BY <1>1, <1>5, <2>1, <2>2 DEF OwnShard, Shards!NoOp
<1>7. Deleting \subseteq Deleting' \cup (IF o.op = "delete" THEN {o.shard} ELSE {})
  BY <1>3 DEF Deleting
<1>8. RowsKept'
  <2>1. durable = "no" => volatile
    BY <1>1 DEF RowsKept
  <2>2. durable' # "yes" => metaRows' \subseteq dataRows' \cup cut'
    BY <1>1 DEF RowsKept
  <2>3. ASSUME durable = "yes"
        PROVE  shards' \subseteq dataRows \cup cut \cup storageRaced \cup Deleting'
    <3>1. CASE o.op = "store"
      <4>1. o.shard \in dataRows \cup storageRaced
        BY <2>3, <3>1, <1>1 DEF RowsKept
      <4> QED
        BY <2>3, <3>1, <4>1, <1>1, <1>7 DEF RowsKept, Shards!Rows
    <3>2. CASE o.op = "delete"
      BY <2>3, <3>2, <1>1, <1>7 DEF RowsKept, Shards!Rows
    <3> QED
      BY <3>1, <3>2, <1>2
  <2>4. ASSUME durable = "yes"
        PROVE  metaRows \subseteq dataRows \cup cut \cup storageRaced \cup Deleting'
    <3>1. o.op = "delete" => o.shard \in storageRaced \/ o.shard \notin metaRows
      BY <2>4, <1>1 DEF RowsKept
    <3> QED
      BY <2>4, <3>1, <1>2, <1>7 DEF RowsKept
  <2>5. ASSUME durable' = "yes", NEW d \in StorageCaller, opAt'[d] # Shards!NoOp, opAt'[d].shard \notin storageRaced'
        PROVE  /\ opAt'[d].op = "delete" /\ opAt'[d].at = "done" => opAt'[d].shard \notin metaRows'
               /\ opAt'[d].op = "store" /\ opAt'[d].at # "data" => opAt'[d].shard \in dataRows'
    BY <2>5, <1>1, <1>3 DEF RowsKept
  <2>6. durable' = "no" => volatile'
    BY <1>1, <2>1
  <2> QED
    BY <1>1, <2>2, <2>3, <2>4, <2>5, <2>6 DEF RowsKept, Shards!NoOp
<1>9. QuotaKept'
  <2>1. ASSUME storageRaced = {}
        PROVE  used' = Shards!SizeOf(shards')
    <3>0. used = Shards!SizeOf(shards) /\ IsFiniteSet(shards) /\ shards \subseteq Shard
      BY <2>1 DEF QuotaKept, StorageTyped
    <3>1. CASE o.op = "store"
      <4>1. o.shard \notin shards
        BY <2>1, <3>1, <1>1 DEF OwnShard
      <4>2. Shards!SizeOf(shards \cup {o.shard}) = Shards!SizeOf(shards) + Size[o.shard]
        BY <3>0, <4>1, <1>2, SizeAdds
      <4> QED
        BY <3>0, <3>1, <4>2, <1>1 DEF Shards!Rows
    <3>2. CASE o.op = "delete"
      <4>1. o.shard \in shards
        BY <2>1, <3>2, <1>1 DEF OwnShard
      <4>2. Shards!SizeOf(shards \ {o.shard}) = Shards!SizeOf(shards) - Size[o.shard]
        BY <3>0, <4>1, SizeLess
      <4> QED
        BY <3>0, <3>2, <4>2, <1>1 DEF Shards!Rows
    <3> QED
      BY <3>1, <3>2, <1>2
  <2>2. ASSUME ~quotaRaced, storageRaced = {}
        PROVE  /\ used' <= Capacity
               /\ durable # "yes" => Shards!SizeOf(metaRows) <= Capacity
               /\ \A d, e \in StorageCaller : opAt'[d].op = "store" /\ opAt'[e].op = "store" => d = e
               /\ \A d \in StorageCaller : opAt'[d].op = "store" => used' + Size[opAt'[d].shard] <= Capacity
               /\ durable = "yes" => metaRows \subseteq shards' \cup Landing'
    <3>1. used \in Int /\ Capacity \in Int
      BY ShardAssumption DEF StorageTyped, ShardAssumption
    <3>2. used' <= Capacity
      BY <2>2, <3>1, <1>1, <1>2 DEF QuotaKept
    <3>3. \A d \in StorageCaller : opAt'[d].op = "store" => d # c /\ opAt'[d] = opAt[d]
      BY <1>3, OpKinds
    <3>4. ASSUME NEW d \in StorageCaller, opAt'[d].op = "store"
          PROVE  used' + Size[opAt'[d].shard] <= Capacity
      <4>1. d # c /\ opAt'[d] = opAt[d] /\ opAt[d].op = "store" /\ o.op # "store"
        BY <2>2, <3>3, <3>4 DEF QuotaKept
      <4>2. used + Size[opAt[d].shard] <= Capacity /\ used' = used - Size[o.shard]
        BY <2>2, <4>1, <1>1 DEF QuotaKept
      <4>3. Size[opAt[d].shard] \in Nat
        BY <4>1, OpKinds, ShardAssumption DEF StorageOp, ShardAssumption
      <4> QED
        BY <3>1, <4>1, <4>2, <4>3, <1>2
    <3>5. ASSUME durable = "yes"  PROVE metaRows \subseteq shards' \cup Landing'
      <4>1. metaRows \subseteq shards \cup Landing
        BY <2>2, <3>5 DEF QuotaKept
      <4>2. CASE o.op = "store"
        <5>1. Landing \subseteq Landing' \cup {o.shard}
          BY <1>3 DEF Landing
        <5> QED
          BY <4>1, <4>2, <5>1, <1>1 DEF Shards!Rows
      <4>3. CASE o.op = "delete"
        <5>1. Landing \subseteq Landing'
          BY <4>3, <1>3 DEF Landing
        <5>2. o.shard \notin metaRows
          BY <2>2, <3>5, <4>3, <1>1 DEF RowsKept
        <5> QED
          BY <4>1, <4>3, <5>1, <5>2, <1>1 DEF Shards!Rows
      <4> QED
        BY <4>2, <4>3, <1>2
    <3> QED
      BY <2>2, <3>2, <3>3, <3>4, <3>5 DEF QuotaKept
  <2> QED
    BY <1>1, <2>1, <2>2 DEF QuotaKept
<1>10. (proofs \subseteq provedBy /\ Shards!ProvenHeld)'
  BY <1>1 DEF Shards!ProvenHeld
<1> QED
  BY <1>4, <1>6, <1>8, <1>9, <1>10

\* A crash forgets what was known; what raced or was being deleted is recorded as cut.
LEMMA CrashStep == ASSUME StorageInv, Shards!Crash PROVE StorageInv'
<1> USE DEF StorageInv
<1>1. /\ UNCHANGED <<volatile, dataRows, metaRows, probe, proofs, available, provedBy>>
      /\ durable' = "unknown" /\ shards' = {} /\ used' = 0 /\ ramRows' = {}
      /\ opAt' = [c \in StorageCaller |-> Shards!NoOp]
      /\ storageRaced' = {} /\ quotaRaced' = (quotaRaced \/ storageRaced # {})
      /\ cut' = cut \cup storageRaced \cup Deleting /\ durable # "unknown"
  BY DEF Shards!Crash, Deleting
<1>2. Deleting \subseteq Shard
  BY OpKinds DEF Deleting, StorageOp
<1>3. IsFiniteSet({}) /\ Shards!SizeOf({}) = 0 /\ Capacity \in Nat
  BY FS_EmptySet, SizeOfNone, ShardAssumption DEF ShardAssumption
<1>4. StorageTyped'
  BY <1>1, <1>2, <1>3 DEF StorageTyped
<1>5. OwnShard'
  BY <1>1 DEF OwnShard
<1>6. RowsKept'
  <2>1. metaRows \subseteq dataRows \cup cut'
    BY <1>1 DEF RowsKept, StorageTyped
  <2> QED
    BY <1>1, <2>1 DEF RowsKept
<1>7. QuotaKept'
  <2>1. ASSUME ~quotaRaced, storageRaced = {}  PROVE Shards!SizeOf(metaRows) <= Capacity
    <3>1. CASE durable # "yes"
      BY <2>1, <3>1 DEF QuotaKept
    <3>2. CASE durable = "yes"
      <4>0. used = Shards!SizeOf(shards) /\ used <= Capacity /\ metaRows \subseteq shards \cup Landing
            /\ IsFiniteSet(shards) /\ shards \subseteq Shard
        BY <2>1, <3>2 DEF QuotaKept, StorageTyped
      <4>1. CASE Landing = {}
        <5>1. metaRows \in SUBSET shards
          BY <4>0, <4>1
        <5>2. Shards!SizeOf(metaRows) <= Shards!SizeOf(shards) /\ Shards!SizeOf(metaRows) \in Nat /\ Shards!SizeOf(shards) \in Nat
          BY <4>0, <5>1, SizeGrows
        <5> QED
          BY <1>3, <4>0, <5>2
      <4>2. CASE Landing # {}
        <5>1. PICK c \in StorageCaller : opAt[c].op = "store" /\ opAt[c].at = "done"
          BY <4>2 DEF Landing
        <5>2. PICK s : s = opAt[c].shard
          OBVIOUS
        <5>3. Landing = {s}
          BY <2>1, <5>1, <5>2 DEF QuotaKept, Landing
        <5>4. s \in Shard /\ s \notin shards /\ used + Size[s] <= Capacity /\ Size[s] \in Nat
          <6>1. opAt[c] \in StorageOp /\ opAt[c] # Shards!NoOp
            BY <5>1, OpKinds
          <6>2. s \in Shard
            BY <6>1, <5>2 DEF StorageOp
          <6> QED
            BY <2>1, <5>1, <5>2, <6>1, <6>2, ShardAssumption DEF OwnShard, QuotaKept, ShardAssumption
        <5>5. Shards!SizeOf(shards \cup {s}) = Shards!SizeOf(shards) + Size[s]
          BY <4>0, <5>4, SizeAdds
        <5>6. IsFiniteSet(shards \cup {s}) /\ shards \cup {s} \subseteq Shard /\ metaRows \in SUBSET (shards \cup {s})
          BY <4>0, <5>3, <5>4, FS_AddElement
        <5>7. /\ Shards!SizeOf(metaRows) <= Shards!SizeOf(shards \cup {s})
              /\ Shards!SizeOf(metaRows) \in Nat /\ Shards!SizeOf(shards \cup {s}) \in Nat
          BY <5>6, SizeGrows
        <5>8. Shards!SizeOf(shards) \in Nat
          BY <4>0, SizeGrows
        <5> QED
          BY <1>3, <4>0, <5>4, <5>5, <5>7, <5>8
      <4> QED
        BY <4>1, <4>2
    <3> QED
      BY <3>1, <3>2
  <2>2. storageRaced' = {} => used' = Shards!SizeOf(shards')
    BY <1>1, <1>3
  <2>3. \A c \in StorageCaller : opAt'[c].op # "store"
    BY <1>1 DEF Shards!NoOp
  <2>4. ASSUME ~quotaRaced', storageRaced' = {}
        PROVE  /\ used' <= Capacity
               /\ durable' # "yes" => Shards!SizeOf(metaRows') <= Capacity
               /\ durable' # "yes"
    <3>1. ~quotaRaced /\ storageRaced = {}
      BY <2>4, <1>1
    <3>2. used' = 0 /\ Capacity \in Nat /\ durable' = "unknown" /\ metaRows' = metaRows
      BY <1>1, <1>3
    <3>3. Shards!SizeOf(metaRows') = Shards!SizeOf(metaRows)
      BY <3>2
    <3>4. used' <= Capacity
      BY <3>2
    <3> QED
      BY <3>1, <3>2, <3>3, <3>4, <2>1
  <2> QED
    BY <2>2, <2>3, <2>4 DEF QuotaKept
<1>8. (proofs \subseteq provedBy /\ Shards!ProvenHeld)'
  BY <1>1 DEF Shards!ProvenHeld
<1> QED
  BY <1>4, <1>5, <1>6, <1>7, <1>8

\* Probes, answers and verdicts leave the node alone; a verdict is of this probe's nonce, and the answer
\* with that nonce is one the node gave.
LEMMA ProbeStep ==
  ASSUME StorageInv,
         \/ \E s \in Shard : Shards!Probe(s)
         \/ Shards!RespondToProbe
         \/ \E pf \in proofs \cup {<<0, 0>>} : Shards!Verify(pf)
  PROVE  StorageInv'
<1> USE DEF StorageInv
<1>1. UNCHANGED <<durable, volatile, dataRows, metaRows, ramRows, shards, used, opAt, storageRaced, cut, quotaRaced>>
  BY DEF Shards!Probe, Shards!RespondToProbe, Shards!Verify
<1>2. OwnShard' /\ RowsKept'
  BY <1>1 DEF OwnShard, RowsKept, Deleting
<1>3. QuotaKept'
  BY <1>1 DEF QuotaKept, Landing
<1>4. /\ probe' \in {Shards!NoProbe} \cup [nonce : Nat \ {0}, shard : Shard]
      /\ available' \in {Shards!NoProbe} \cup [nonce : Nat \ {0}, shard : Shard, ok : BOOLEAN]
      /\ (proofs \subseteq provedBy)' /\ Shards!ProvenHeld'
  <2>1. ASSUME NEW s \in Shard, Shards!Probe(s)
        PROVE  /\ probe' \in {Shards!NoProbe} \cup [nonce : Nat \ {0}, shard : Shard]
               /\ UNCHANGED <<proofs, available, provedBy>>
    <3>1. available.nonce + 1 \in Nat \ {0}
      BY DEF StorageTyped, Shards!NoProbe
    <3> QED
      BY <2>1, <3>1 DEF Shards!Probe
  <2>2. ASSUME Shards!RespondToProbe
        PROVE  /\ UNCHANGED <<probe, available>> /\ proofs' \subseteq provedBy' /\ provedBy \subseteq provedBy'
    BY <2>2 DEF Shards!RespondToProbe
  <2>3. ASSUME NEW pf \in proofs \cup {<<0, 0>>}, Shards!Verify(pf)
        PROVE  /\ probe' = Shards!NoProbe /\ UNCHANGED <<proofs, provedBy>>
               /\ available' \in [nonce : Nat \ {0}, shard : Shard, ok : BOOLEAN]
               /\ available'.ok => <<available'.nonce, available'.shard>> \in provedBy
    <3>1. probe \in [nonce : Nat \ {0}, shard : Shard]
      BY <2>3 DEF Shards!Verify, StorageTyped
    <3>2. PICK ok \in BOOLEAN : ok = (pf = <<probe.nonce, probe.shard>>)
      OBVIOUS
    <3>3. available' = [nonce |-> probe.nonce, shard |-> probe.shard, ok |-> ok]
      BY <2>3, <3>2 DEF Shards!Verify, Shards!ProofHolds
    <3>4. ASSUME ok PROVE <<probe.nonce, probe.shard>> \in provedBy
      <4>1. pf = <<probe.nonce, probe.shard>> /\ probe.nonce # 0
        BY <3>1, <3>2, <3>4
      <4>2. pf[1] = probe.nonce /\ <<0, 0>>[1] = 0
        BY <4>1
      <4>3. pf # <<0, 0>>
        BY <4>1, <4>2
      <4> QED
        BY <2>3, <4>1, <4>3
    <3>5. probe' = Shards!NoProbe /\ UNCHANGED <<proofs, provedBy>>
      BY <2>3 DEF Shards!Verify
    <3> QED
      BY <3>1, <3>3, <3>4, <3>5
  <2> QED
    BY <2>1, <2>2, <2>3 DEF StorageTyped, Shards!ProvenHeld
<1>5. StorageTyped'
  BY <1>1, <1>4 DEF StorageTyped
<1> QED
  BY <1>2, <1>3, <1>4, <1>5

\* Every step of storage.
LEMMA StorageNext == StorageInv /\ [Shards!Next]_(Shards!storageVars) => StorageInv'
<1> SUFFICES ASSUME StorageInv, [Shards!Next]_(Shards!storageVars) PROVE StorageInv'
  OBVIOUS
<1>1. CASE UNCHANGED Shards!storageVars
  <2>1. UNCHANGED <<durable, volatile, dataRows, metaRows, ramRows, shards, used, opAt, probe, proofs, available,
                    provedBy, storageRaced, cut, quotaRaced>>
    BY <1>1 DEF Shards!storageVars
  <2>2. StorageTyped' /\ OwnShard'
    BY <2>1 DEF StorageInv, StorageTyped, OwnShard
  <2>3. RowsKept' /\ QuotaKept'
    BY <2>1 DEF StorageInv, RowsKept, QuotaKept, Deleting, Landing
  <2>4. (proofs \subseteq provedBy /\ Shards!ProvenHeld)'
    BY <2>1 DEF StorageInv, Shards!ProvenHeld
  <2> QED
    BY <2>2, <2>3, <2>4 DEF StorageInv
<1>2. ASSUME NEW ok \in BOOLEAN, Shards!Open(ok) PROVE StorageInv'
  BY <1>2, OpenStep
<1>3. ASSUME NEW c \in StorageCaller, NEW s \in Shard, Shards!StoreShard(c, s) \/ Shards!DeleteShard(c, s)
      PROVE  StorageInv'
  BY <1>3, StoreStep, DeleteStep
<1>4. ASSUME NEW c \in StorageCaller, Shards!WriteData(c) \/ Shards!WriteMeta(c) \/ Shards!Account(c)
      PROVE  StorageInv'
  BY <1>4, WriteDataStep, WriteMetaStep, AccountStep
<1>5. CASE Shards!Crash
  BY <1>5, CrashStep
<1>6. CASE \/ \E s \in Shard : Shards!Probe(s)
           \/ Shards!RespondToProbe
           \/ \E pf \in proofs \cup {<<0, 0>>} : Shards!Verify(pf)
  BY <1>6, ProbeStep
<1> QED
  BY <1>1, <1>2, <1>3, <1>4, <1>5, <1>6 DEF Shards!Next

\* What a storage node knows it has on disk, or would say why not, and what it knows fits its capacity, for
\* any shards and sizes and however many calls overlap, races and crashes recorded; and a verdict on a
\* probe is of an answer to that probe.
THEOREM StorageSoundHolds == Spec => []StorageSound
<1>1. Init => StorageInv
  BY StorageInit
<1>2. StorageInv /\ [Next]_vars => StorageInv'
  <2>1. [Next]_vars => [Shards!Next]_(Shards!storageVars)
    BY DEF Next, vars, storageVars, Shards!storageVars
  <2> QED
    BY <2>1, StorageNext
<1>3. StorageInv => StorageSound
  <2> SUFFICES ASSUME StorageInv, Shards!AtRest, storageRaced = {}
               PROVE  /\ ~volatile => \A s \in shards : s \in dataRows \/ s \in cut
                      /\ used = Shards!SizeOf(shards)
                      /\ ~quotaRaced => used <= Capacity
    BY DEF StorageSound, Shards!Custody, StorageInv
  <2>1. Deleting = {}
    BY DEF Deleting, Shards!AtRest, Shards!NoOp
  <2>2. durable \in {"yes", "no"}
    BY DEF StorageInv, StorageTyped, Shards!AtRest
  <2>3. ~volatile => \A s \in shards : s \in dataRows \/ s \in cut
    BY <2>1, <2>2 DEF StorageInv, RowsKept
  <2> QED
    BY <2>3 DEF StorageInv, QuotaKept
<1> QED
  BY <1>1, <1>2, <1>3, PTL DEF Spec


----------------------------------------------------------------------------
(* The limiters.  A client's grants fall into windows: each starts at a     *)
(* grant, later than the one before is over, and has at most MaxRate of     *)
(* them, in a row.  B is the set of the places where windows start.         *)

Windows(g, B) ==
  /\ B \subseteq 1 .. Len(g)
  /\ \A i \in 1 .. Len(g) : \E b \in B : b <= i /\ i < b + MaxRate /\ g[b] <= g[i] /\ g[i] <= g[b] + RateWindow
  /\ \A a, b \in B : a < b => g[a] + RateWindow < g[b]

\* The last window has n grants so far and began at f; or, it is over.
Current(g, B, n, f) ==
  /\ n \in 1 .. MaxRate /\ n <= Len(g) /\ f \in Nat
  /\ Len(g) - n + 1 \in B /\ g[Len(g) - n + 1] = f
  /\ \A b \in B : b <= Len(g) - n + 1
  /\ \A i \in Len(g) - n + 1 .. Len(g) : f <= g[i]
Closed(g, B, t) == \A b \in B : g[b] + RateWindow < t

\* All that a window grants was granted between these times.
Exhausted(g, lo, hi) ==
  \E b \in 1 .. Len(g) : b + MaxRate - 1 <= Len(g) /\ \A i \in b .. b + MaxRate - 1 : lo <= g[i] /\ g[i] <= hi

Times(g, t) == g \in Seq(Nat) /\ \A i \in 1 .. Len(g) : 1 <= g[i] /\ g[i] <= t

\* One more grant leaves those before it in their places.
LEMMA AppendIs ==
  ASSUME NEW g \in Seq(Nat), NEW t \in Nat
  PROVE  /\ Append(g, t) \in Seq(Nat) /\ Len(Append(g, t)) = Len(g) + 1 /\ Len(g) \in Nat
         /\ Append(g, t)[Len(g) + 1] = t
         /\ \A i \in 1 .. Len(g) : Append(g, t)[i] = g[i] /\ g[i] \in Nat
OBVIOUS

\* A grant in the window that is under way.
LEMMA WindowGrows ==
  ASSUME NEW t \in Nat, NEW g, Times(g, t), NEW B, Windows(g, B), NEW n, NEW f, Current(g, B, n, f),
         n < MaxRate, f <= t, t <= f + RateWindow
  PROVE  Windows(Append(g, t), B) /\ Current(Append(g, t), B, n + 1, f)
<1> DEFINE h == Append(g, t)
<1>1. /\ h \in Seq(Nat) /\ Len(h) = Len(g) + 1 /\ Len(g) \in Nat /\ h[Len(g) + 1] = t
      /\ \A i \in 1 .. Len(g) : h[i] = g[i] /\ g[i] \in Nat
  BY AppendIs DEF Times
<1>2. MaxRate \in Nat \ {0} /\ RateWindow \in Nat /\ n \in Nat
  BY RateAssumption DEF RateAssumption, Current
<1> HIDE DEF h
<1>3. B \subseteq 1 .. Len(g) /\ B \subseteq 1 .. Len(h)
  BY <1>1 DEF Windows
<1>4. ASSUME NEW i \in 1 .. Len(h)
      PROVE  \E b \in B : b <= i /\ i < b + MaxRate /\ h[b] <= h[i] /\ h[i] <= h[b] + RateWindow
  <2>1. CASE i \in 1 .. Len(g)
    <3>1. PICK b \in B : b <= i /\ i < b + MaxRate /\ g[b] <= g[i] /\ g[i] <= g[b] + RateWindow
      BY <2>1 DEF Windows
    <3>2. h[b] = g[b] /\ h[i] = g[i]
      BY <1>1, <1>3, <2>1
    <3> QED
      BY <3>1, <3>2
  <2>2. CASE i = Len(g) + 1
    <3>1. PICK b \in B : b = Len(g) - n + 1 /\ g[b] = f
      BY DEF Current
    <3>2. h[b] = f /\ h[i] = t
      BY <1>1, <1>3, <2>2, <3>1
    <3>3. b <= i /\ i < b + MaxRate
      BY <1>1, <1>2, <2>2, <3>1
    <3> QED
      BY <3>2, <3>3
  <2> QED
    BY <1>1, <2>1, <2>2
<1>5. ASSUME NEW a \in B, NEW b \in B, a < b PROVE h[a] + RateWindow < h[b]
  BY <1>1, <1>3, <1>5 DEF Windows
<1>6. Windows(h, B)
  BY <1>3, <1>4, <1>5 DEF Windows
<1>7. Len(h) - (n + 1) + 1 = Len(g) - n + 1
  BY <1>1, <1>2
<1>8. Current(h, B, n + 1, f)
  <2>1. n + 1 \in 1 .. MaxRate /\ n + 1 <= Len(h) /\ f \in Nat
    BY <1>1, <1>2 DEF Current
  <2>2. Len(g) - n + 1 \in B /\ h[Len(g) - n + 1] = f /\ \A b \in B : b <= Len(g) - n + 1
    BY <1>1, <1>3 DEF Current
  <2>3. ASSUME NEW i \in Len(g) - n + 1 .. Len(h) PROVE f <= h[i]
    <3>1. CASE i <= Len(g)
      <4>1. i \in 1 .. Len(g) /\ i \in Len(g) - n + 1 .. Len(g)
        BY <1>1, <1>2, <3>1 DEF Current
      <4> QED
        BY <1>1, <4>1 DEF Current
    <3>2. CASE i = Len(g) + 1
      BY <1>1, <3>2
    <3> QED
      BY <1>1, <1>2, <3>1, <3>2
  <2> QED
    BY <1>7, <2>1, <2>2, <2>3 DEF Current
<1> QED
  BY <1>6, <1>8 DEF h

\* The first grant of a window, when the last one is over.
LEMMA WindowStarts ==
  ASSUME NEW t \in Nat, NEW g, Times(g, t), NEW B, Windows(g, B), Closed(g, B, t)
  PROVE  LET C == B \cup {Len(g) + 1} IN Windows(Append(g, t), C) /\ Current(Append(g, t), C, 1, t)
<1> DEFINE h == Append(g, t)
           C == B \cup {Len(g) + 1}
<1>1. /\ h \in Seq(Nat) /\ Len(h) = Len(g) + 1 /\ Len(g) \in Nat /\ h[Len(g) + 1] = t
      /\ \A i \in 1 .. Len(g) : h[i] = g[i] /\ g[i] \in Nat
  BY AppendIs DEF Times
<1>2. MaxRate \in Nat \ {0} /\ RateWindow \in Nat
  BY RateAssumption DEF RateAssumption
<1> HIDE DEF h
<1>3. B \subseteq 1 .. Len(g) /\ C \subseteq 1 .. Len(h)
  <2>1. B \subseteq 1 .. Len(g)
    BY DEF Windows
  <2>2. 1 .. Len(g) \subseteq 1 .. Len(h) /\ Len(g) + 1 \in 1 .. Len(h)
    BY <1>1
  <2> QED
    BY <2>1, <2>2, Zenon
<1>4. ASSUME NEW i \in 1 .. Len(h)
      PROVE  \E b \in C : b <= i /\ i < b + MaxRate /\ h[b] <= h[i] /\ h[i] <= h[b] + RateWindow
  <2>1. CASE i \in 1 .. Len(g)
    <3>1. PICK b \in B : b <= i /\ i < b + MaxRate /\ g[b] <= g[i] /\ g[i] <= g[b] + RateWindow
      BY <2>1 DEF Windows
    <3>2. h[b] = g[b] /\ h[i] = g[i]
      BY <1>1, <1>3, <2>1
    <3> QED
      BY <3>1, <3>2
  <2>2. CASE i = Len(g) + 1
    BY <1>1, <1>2, <2>2
  <2> QED
    BY <1>1, <2>1, <2>2
<1>5. ASSUME NEW a \in C, NEW b \in C, a < b PROVE h[a] + RateWindow < h[b]
  <2>1. a \in B
    BY <1>1, <1>3, <1>5
  <2>2. CASE b \in B
    BY <1>1, <1>3, <1>5, <2>1, <2>2 DEF Windows
  <2>3. CASE b = Len(g) + 1
    BY <1>1, <1>3, <2>1, <2>3 DEF Closed
  <2> QED
    BY <2>2, <2>3
<1>6. Windows(h, C)
  BY <1>3, <1>4, <1>5 DEF Windows
<1>7. Current(h, C, 1, t)
  BY <1>1, <1>2, <1>3 DEF Current
<1> QED
  BY <1>6, <1>7 DEF h

\* When the time of the last window has passed, all are over.
LEMMA WindowCloses ==
  ASSUME NEW t \in Nat, NEW g, Times(g, t), NEW B, Windows(g, B), NEW n, NEW f, Current(g, B, n, f), f + RateWindow < t
  PROVE  Closed(g, B, t)
<1> SUFFICES ASSUME NEW b \in B PROVE g[b] + RateWindow < t
  BY DEF Closed
<1>1. PICK c \in B : c = Len(g) - n + 1 /\ g[c] = f /\ b <= c
  BY DEF Current
<1>2. RateWindow \in Nat /\ b \in 1 .. Len(g) /\ c \in 1 .. Len(g) /\ g[b] \in Nat
  <2>1. B \subseteq 1 .. Len(g)
    BY DEF Windows
  <2> QED
    BY <2>1, RateAssumption DEF RateAssumption, Times
<1>3. CASE b = c
  BY <1>1, <1>3
<1>4. CASE b < c
  <2>1. g[b] + RateWindow < f
    BY <1>1, <1>4 DEF Windows
  <2>2. f \in Nat
    BY DEF Current
  <2> QED
    BY <1>2, <2>1, <2>2
<1> QED
  BY <1>1, <1>2, <1>3, <1>4


\* Which of the grants fall between two times.
Granted(g, lo, hi) == {i \in 1 .. Len(g) : g[i] \in lo .. hi}

LEMMA GrantedFinite ==
  ASSUME NEW g, Len(g) \in Nat, NEW lo, NEW hi
  PROVE  IsFiniteSet(Granted(g, lo, hi)) /\ Cardinality(Granted(g, lo, hi)) \in Nat
<1>1. IsFiniteSet(1 .. Len(g))
  BY FS_Interval
<1>2. Granted(g, lo, hi) \in SUBSET (1 .. Len(g))
  BY DEF Granted
<1> QED
  BY <1>1, <1>2, FS_Subset, FS_CardinalityType

\* A set of places within a stretch has no more members than the stretch is long.
LEMMA StretchHolds ==
  ASSUME NEW a \in Int, NEW b \in Int, a <= b + 1, NEW S \in SUBSET (a .. b)
  PROVE  IsFiniteSet(S) /\ Cardinality(S) \in Nat /\ Cardinality(S) <= b - a + 1
<1>1. IsFiniteSet(a .. b) /\ Cardinality(a .. b) = IF a > b THEN 0 ELSE b - a + 1
  BY FS_Interval
<1>2. PICK k : k = Cardinality(a .. b)
  OBVIOUS
<1>3. k = b - a + 1
  BY <1>1, <1>2
<1>4. IsFiniteSet(S) /\ Cardinality(S) <= Cardinality(a .. b)
  BY <1>1, FS_Subset
<1>5. Cardinality(S) \in Nat
  BY <1>4, FS_CardinalityType
<1> QED
  BY <1>2, <1>3, <1>4, <1>5

\* No stretch of time as long as a window has more than the end of one window and all of the next.
LEMMA TwoWindows ==
  ASSUME NEW t \in Nat, NEW now \in Nat, NEW g, Times(g, now), NEW B, Windows(g, B)
  PROVE  Cardinality(Granted(g, t, t + RateWindow)) <= 2 * MaxRate - 1
<1> DEFINE In(i, b) == b <= i /\ i < b + MaxRate /\ g[b] <= g[i] /\ g[i] <= g[b] + RateWindow
           I == Granted(g, t, t + RateWindow)
           Old1 == {i \in I : \E b \in B : In(i, b) /\ g[b] < t}
           New1 == {i \in I : \E b \in B : In(i, b) /\ t <= g[b]}
<1>1. MaxRate \in Nat \ {0} /\ RateWindow \in Nat /\ Len(g) \in Nat
  BY RateAssumption DEF RateAssumption, Times
<1>2. B \subseteq 1 .. Len(g) /\ \A b \in 1 .. Len(g) : g[b] \in Nat
  <2>1. B \subseteq 1 .. Len(g)
    BY DEF Windows
  <2> QED
    BY <2>1 DEF Times
<1>3. I \subseteq 1 .. Len(g) /\ \A i \in I : t <= g[i] /\ g[i] <= t + RateWindow
  BY <1>1, <1>2 DEF Granted
<1>4. I = Old1 \cup New1
  <2> SUFFICES ASSUME NEW i \in I PROVE i \in Old1 \cup New1
    OBVIOUS
  <2>1. PICK b \in B : In(i, b)
    BY <1>3 DEF Windows
  <2>2. g[b] \in Nat
    BY <1>2
  <2> QED
    BY <2>1, <2>2
\* Two windows that begin within one window's time of each other are the same.
<1>5. ASSUME NEW a \in B, NEW b \in B, g[a] <= g[b] + RateWindow, g[b] <= g[a] + RateWindow  PROVE a = b
  <2>1. a \in Int /\ b \in Int /\ g[a] \in Nat /\ g[b] \in Nat
    BY <1>2
  <2>2. (a < b => g[a] + RateWindow < g[b]) /\ (b < a => g[b] + RateWindow < g[a])
    BY DEF Windows
  <2> QED
    BY <1>1, <1>5, <2>1, <2>2
<1>6. IsFiniteSet(Old1) /\ Cardinality(Old1) \in Nat /\ Cardinality(Old1) <= MaxRate - 1
  <2>1. CASE Old1 = {}
    <3> HIDE DEF Old1
    <3>1. IsFiniteSet({}) /\ Cardinality({}) = 0
      BY FS_EmptySet
    <3> QED
      BY <1>1, <2>1, <3>1
  <2>2. CASE Old1 # {}
    <3>1. PICK k \in I, a \in B : In(k, a) /\ g[a] < t
      BY <2>2
    <3>2. a \in Int /\ g[a] \in Nat /\ t <= g[k] /\ g[k] \in Nat
      BY <1>2, <1>3
    <3>3. ASSUME NEW i \in Old1 PROVE i \in a + 1 .. a + MaxRate - 1
      <4>1. PICK b \in B : In(i, b) /\ g[b] < t
        OBVIOUS
      <4>2. i \in I /\ t <= g[i] /\ g[i] \in Nat /\ i \in Int /\ g[b] \in Nat
        BY <1>2, <1>3
      <4>3. a = b
        <5>1. g[a] < t /\ g[k] <= g[a] + RateWindow /\ g[b] < t /\ g[i] <= g[b] + RateWindow
          BY <3>1, <4>1
        <5>2. g[a] <= g[b] + RateWindow /\ g[b] <= g[a] + RateWindow
          <6> HIDE DEF I, Old1, New1, In
          <6>1. PICK x \in Nat, y \in Nat, u \in Nat, v \in Nat : x = g[a] /\ y = g[b] /\ u = g[k] /\ v = g[i]
            BY <3>2, <4>2
          <6>2. /\ (x < t => t <= u /\ u <= x + RateWindow) /\ (y < t => t <= v /\ v <= y + RateWindow)
                /\ (x >= t => x <= u /\ u <= t + RateWindow) /\ (y >= t => y <= v /\ v <= t + RateWindow)
                /\ (x < t) = (y < t)
            BY <3>2, <4>2, <5>1, <6>1
          <6>3. RateWindow \in Nat
            BY <1>1
          <6>4. x <= y + RateWindow /\ y <= x + RateWindow
            <7>1. CASE x < t
              BY <6>1, <6>2, <6>3, <7>1
            <7>2. CASE x >= t
              BY <6>1, <6>2, <6>3, <7>2
            <7> QED
              BY <6>1, <7>1, <7>2
          <6> QED
            BY <6>1, <6>4
        <5> QED
          BY <1>5, <5>2
      <4>4. i # a
        BY <3>1, <3>2, <4>2
      <4> QED
        BY <1>1, <3>2, <4>1, <4>2, <4>3, <4>4
    <3>4. a + 1 \in Int /\ a + MaxRate - 1 \in Int /\ a + 1 <= (a + MaxRate - 1) + 1
          /\ (a + MaxRate - 1) - (a + 1) + 1 = MaxRate - 1
      BY <1>1, <3>2
    <3> HIDE DEF Old1
    <3>5. Old1 \in SUBSET (a + 1 .. a + MaxRate - 1)
      BY <3>3
    <3>6. /\ IsFiniteSet(Old1) /\ Cardinality(Old1) \in Nat
          /\ Cardinality(Old1) <= (a + MaxRate - 1) - (a + 1) + 1
      BY <3>4, <3>5, StretchHolds
    <3> QED
      BY <3>4, <3>6
  <2> QED
    BY <2>1, <2>2
<1>7. IsFiniteSet(New1) /\ Cardinality(New1) \in Nat /\ Cardinality(New1) <= MaxRate
  <2>1. CASE New1 = {}
    <3> HIDE DEF New1
    <3>1. IsFiniteSet({}) /\ Cardinality({}) = 0
      BY FS_EmptySet
    <3> QED
      BY <1>1, <2>1, <3>1
  <2>2. CASE New1 # {}
    <3>1. PICK k \in I, a \in B : In(k, a) /\ t <= g[a]
      BY <2>2
    <3>2. a \in Int /\ g[a] \in Nat /\ g[k] <= t + RateWindow /\ g[k] \in Nat
      BY <1>2, <1>3
    <3>3. ASSUME NEW i \in New1 PROVE i \in a .. a + MaxRate - 1
      <4>1. PICK b \in B : In(i, b) /\ t <= g[b]
        OBVIOUS
      <4>2. i \in I /\ g[i] <= t + RateWindow /\ g[i] \in Nat /\ i \in Int /\ g[b] \in Nat
        BY <1>2, <1>3
      <4>3. a = b
        <5>1. t <= g[a] /\ g[a] <= g[k] /\ t <= g[b] /\ g[b] <= g[i]
          BY <3>1, <4>1
        <5>2. g[a] <= g[b] + RateWindow /\ g[b] <= g[a] + RateWindow
          <6> HIDE DEF I, Old1, New1, In
          <6>1. PICK x \in Nat, y \in Nat, u \in Nat, v \in Nat : x = g[a] /\ y = g[b] /\ u = g[k] /\ v = g[i]
            BY <3>2, <4>2
          <6>2. /\ (x < t => t <= u /\ u <= x + RateWindow) /\ (y < t => t <= v /\ v <= y + RateWindow)
                /\ (x >= t => x <= u /\ u <= t + RateWindow) /\ (y >= t => y <= v /\ v <= t + RateWindow)
                /\ (x < t) = (y < t)
            BY <3>2, <4>2, <5>1, <6>1
          <6>3. RateWindow \in Nat
            BY <1>1
          <6>4. x <= y + RateWindow /\ y <= x + RateWindow
            <7>1. CASE x < t
              BY <6>1, <6>2, <6>3, <7>1
            <7>2. CASE x >= t
              BY <6>1, <6>2, <6>3, <7>2
            <7> QED
              BY <6>1, <7>1, <7>2
          <6> QED
            BY <6>1, <6>4
        <5> QED
          BY <1>5, <5>2
      <4> QED
        BY <1>1, <3>2, <4>1, <4>2, <4>3
    <3>4. a + MaxRate - 1 \in Int /\ a <= (a + MaxRate - 1) + 1 /\ (a + MaxRate - 1) - a + 1 = MaxRate
      BY <1>1, <3>2
    <3> HIDE DEF New1
    <3>5. New1 \in SUBSET (a .. a + MaxRate - 1)
      BY <3>3
    <3>6. /\ IsFiniteSet(New1) /\ Cardinality(New1) \in Nat
          /\ Cardinality(New1) <= (a + MaxRate - 1) - a + 1
      BY <3>2, <3>4, <3>5, StretchHolds
    <3> QED
      BY <3>4, <3>6
  <2> QED
    BY <2>1, <2>2
<1> HIDE DEF Old1, New1, I
<1>8. Cardinality(Old1 \cup New1) = Cardinality(Old1) + Cardinality(New1) - Cardinality(Old1 \cap New1)
  BY <1>6, <1>7, FS_Union
<1>9. Cardinality(Old1 \cap New1) \in Nat
  <2>1. IsFiniteSet(Old1 \cap New1)
    BY <1>6, FS_Intersection
  <2> QED
    BY <2>1, FS_CardinalityType
<1>10. Cardinality(Old1 \cup New1) <= 2 * MaxRate - 1
  BY <1>1, <1>6, <1>7, <1>8, <1>9
<1> QED
  BY <1>4, <1>10 DEF I

\* An exhausted window is that many grants.
LEMMA ExhaustedCounts ==
  ASSUME NEW t \in Nat, NEW g, Times(g, t), NEW lo \in Int, NEW hi \in Int, Exhausted(g, lo, hi)
  PROVE  Cardinality(Granted(g, lo, hi)) >= MaxRate
<1>1. MaxRate \in Nat \ {0} /\ Len(g) \in Nat /\ \A i \in 1 .. Len(g) : g[i] \in Nat
  BY RateAssumption DEF RateAssumption, Times
<1>2. PICK b \in 1 .. Len(g) : b + MaxRate - 1 <= Len(g) /\ \A i \in b .. b + MaxRate - 1 : lo <= g[i] /\ g[i] <= hi
  BY DEF Exhausted
<1>3. b .. b + MaxRate - 1 \in SUBSET Granted(g, lo, hi)
  BY <1>1, <1>2 DEF Granted
<1>4. PICK c : c = b + MaxRate - 1
  OBVIOUS
<1>5. c \in Int /\ b \in Int /\ b <= c /\ c - b + 1 = MaxRate
  BY <1>1, <1>4
<1>6. Cardinality(b .. c) = c - b + 1
  <2>1. Cardinality(b .. c) = IF b > c THEN 0 ELSE c - b + 1
    BY <1>5, FS_Interval
  <2> QED
    BY <1>5, <2>1
<1>7. IsFiniteSet(Granted(g, lo, hi)) /\ Cardinality(Granted(g, lo, hi)) \in Nat
  BY <1>1, GrantedFinite
<1>8. Cardinality(b .. c) <= Cardinality(Granted(g, lo, hi))
  BY <1>3, <1>4, <1>7, FS_Subset
<1> QED
  BY <1>5, <1>6, <1>7, <1>8

\* A window that has granted all it grants is exhausted.
LEMMA FullIsExhausted ==
  ASSUME NEW t \in Nat, NEW g, Times(g, t), NEW B, NEW f, Current(g, B, MaxRate, f), NEW lo \in Int, lo <= f
  PROVE  Exhausted(g, lo, t)
<1>1. MaxRate \in Nat \ {0} /\ Len(g) \in Nat /\ \A i \in 1 .. Len(g) : g[i] \in Nat
  BY RateAssumption DEF RateAssumption, Times
<1>2. PICK b : b = Len(g) - MaxRate + 1
  OBVIOUS
<1>3. b \in 1 .. Len(g) /\ b + MaxRate - 1 = Len(g) /\ f \in Nat
  BY <1>1, <1>2 DEF Current
<1>4. ASSUME NEW i \in b .. b + MaxRate - 1 PROVE lo <= g[i] /\ g[i] <= t
  <2>1. i \in 1 .. Len(g) /\ f <= g[i]
    BY <1>1, <1>2, <1>3 DEF Current
  <2> QED
    BY <1>1, <1>3, <2>1 DEF Times
<1> QED
  BY <1>3, <1>4 DEF Exhausted

\* More grants, and a later time, change nothing of that.
LEMMA ExhaustedStays ==
  ASSUME NEW t \in Nat, NEW g, Times(g, t), NEW lo, NEW hi, Exhausted(g, lo, hi)
  PROVE  Exhausted(Append(g, t), lo, hi)
<1> DEFINE h == Append(g, t)
<1>1. Len(h) = Len(g) + 1 /\ Len(g) \in Nat /\ \A i \in 1 .. Len(g) : h[i] = g[i]
  BY AppendIs DEF Times
<1>2. MaxRate \in Nat \ {0}
  BY RateAssumption DEF RateAssumption
<1> HIDE DEF h
<1>3. PICK b \in 1 .. Len(g) : b + MaxRate - 1 <= Len(g) /\ \A i \in b .. b + MaxRate - 1 : lo <= g[i] /\ g[i] <= hi
  BY DEF Exhausted
<1>4. b \in 1 .. Len(h) /\ b + MaxRate - 1 <= Len(h) /\ \A i \in b .. b + MaxRate - 1 : lo <= h[i] /\ h[i] <= hi
  BY <1>1, <1>2, <1>3
<1>5. Exhausted(h, lo, hi)
  BY <1>4 DEF Exhausted
<1> QED
  BY <1>5 DEF h


\* The variables of the limiters.
RateTyped ==
  /\ clock \in Nat \ {0}
  /\ granted \in [RateClient -> Seq(Nat)] /\ \A c \in RateClient : Times(granted[c], clock)
  /\ refusedAt \in [RateClient -> SUBSET Nat]

\* Who was refused had all of a window's grants within the window before.
Refused(c) == \A t \in refusedAt[c] : Exhausted(granted[c], t - RateWindow, t)

\* The bucket of a client holds what its last window may still grant.
BucketKept(c) ==
  \E B \in SUBSET (1 .. Len(granted[c])) :
    /\ Windows(granted[c], B)
    /\ IF buckets[c].here
       THEN /\ buckets[c].tokens \in 0 .. MaxRate - 1 /\ buckets[c].resetTime \in Nat
            /\ buckets[c].resetTime - RateWindow <= clock
            /\ Current(granted[c], B, MaxRate - buckets[c].tokens, buckets[c].resetTime - RateWindow)
       ELSE Closed(granted[c], B, clock)

BucketTyped == buckets \in [RateClient -> [tokens : Int, resetTime : Int, here : BOOLEAN]]

LimiterInv == RateTyped /\ BucketTyped /\ \A c \in RateClient : BucketKept(c) /\ Refused(c)

LEMMA LimiterStart == Tables!LimiterInit => LimiterInv
<1> SUFFICES ASSUME Tables!LimiterInit PROVE LimiterInv
  OBVIOUS
<1>1. /\ clock = 1 /\ \A c \in RateClient : granted[c] = <<>> /\ refusedAt[c] = {} /\ buckets[c] = Tables!Unknown
      /\ granted = [c \in RateClient |-> <<>>] /\ refusedAt = [c \in RateClient |-> {}]
      /\ buckets = [c \in RateClient |-> Tables!Unknown]
  BY DEF Tables!LimiterInit
<1>2. <<>> \in Seq(Nat) /\ Len(<<>>) = 0 /\ Times(<<>>, 1)
  BY DEF Times
<1>3. Windows(<<>>, {}) /\ Closed(<<>>, {}, 1)
  BY <1>2 DEF Windows, Closed
<1>4. ~ Tables!Unknown.here /\ Tables!Unknown \in [tokens : Int, resetTime : Int, here : BOOLEAN]
  BY DEF Tables!Unknown
<1>5. RateTyped /\ BucketTyped
  BY <1>1, <1>2, <1>4 DEF RateTyped, BucketTyped
<1>6. ASSUME NEW c \in RateClient PROVE BucketKept(c) /\ Refused(c)
  BY <1>1, <1>3, <1>4 DEF BucketKept, Refused
<1> QED
  BY <1>5, <1>6 DEF LimiterInv

\* What is kept of a client survives what leaves the client alone, at the same time.
LEMMA BucketUntouched ==
  ASSUME NEW c \in RateClient, BucketKept(c), Refused(c), granted'[c] = granted[c], refusedAt'[c] = refusedAt[c],
         buckets'[c] = buckets[c], clock' = clock
  PROVE  BucketKept(c)' /\ Refused(c)'
BY DEF BucketKept, Refused

\* isAllowed.
LEMMA AskStep ==
  ASSUME LimiterInv, NEW c \in RateClient, Tables!Asks(c)
  PROVE  LimiterInv'
<1> DEFINE b == buckets[c]
           g == granted[c]
<1>1. /\ MaxRate \in Nat \ {0} /\ RateWindow \in Nat /\ clock \in Nat \ {0} /\ g \in Seq(Nat) /\ Times(g, clock)
      /\ refusedAt[c] \in SUBSET Nat /\ clock' = clock
  BY RateAssumption DEF RateAssumption, LimiterInv, RateTyped, Tables!Asks
<1>2. PICK B \in SUBSET (1 .. Len(g)) :
        /\ Windows(g, B)
        /\ IF b.here
           THEN /\ b.tokens \in 0 .. MaxRate - 1 /\ b.resetTime \in Nat /\ b.resetTime - RateWindow <= clock
                /\ Current(g, B, MaxRate - b.tokens, b.resetTime - RateWindow)
           ELSE Closed(g, B, clock)
  BY DEF LimiterInv, BucketKept
<1>3. Refused(c)
  BY DEF LimiterInv
<1>4. /\ Append(g, clock) \in Seq(Nat) /\ Times(Append(g, clock), clock)
      /\ \A t \in refusedAt[c] : Exhausted(Append(g, clock), t - RateWindow, t)
  <2>1. Append(g, clock) \in Seq(Nat) /\ Times(Append(g, clock), clock)
    BY <1>1, AppendIs DEF Times
  <2>2. ASSUME NEW t \in refusedAt[c] PROVE Exhausted(Append(g, clock), t - RateWindow, t)
    BY <1>1, <1>3, ExhaustedStays DEF Refused
  <2> QED
    BY <2>1, <2>2
<1>5. CASE Tables!Over(b)
  <2>1. /\ buckets' = [buckets EXCEPT ![c] = [tokens |-> MaxRate - 1, resetTime |-> clock + RateWindow, here |-> TRUE]]
        /\ granted' = [granted EXCEPT ![c] = Append(g, clock)] /\ UNCHANGED refusedAt
    BY <1>5 DEF Tables!Asks
  <2>2. Closed(g, B, clock)
    <3>1. CASE b.here
      <4>1. b.resetTime < clock
        BY <1>1, <1>2, <1>5, <3>1 DEF Tables!Over
      <4>2. PICK f : f = b.resetTime - RateWindow
        OBVIOUS
      <4>3. PICK n : n = MaxRate - b.tokens
        OBVIOUS
      <4>4. Current(g, B, n, f) /\ f + RateWindow < clock
        BY <1>1, <1>2, <3>1, <4>1, <4>2, <4>3
      <4> QED
        BY <1>1, <1>2, <4>4, WindowCloses
    <3>2. CASE ~b.here
      BY <1>2, <3>2
    <3> QED
      BY <3>1, <3>2
  <2>3. PICK C : C = B \cup {Len(g) + 1}
    OBVIOUS
  <2>4. Windows(Append(g, clock), C) /\ Current(Append(g, clock), C, 1, clock)
    BY <1>1, <1>2, <2>2, <2>3, WindowStarts
  <2>5. PICK e : e = [tokens |-> MaxRate - 1, resetTime |-> clock + RateWindow, here |-> TRUE]
    OBVIOUS
  <2>6. /\ e.here /\ e.tokens \in 0 .. MaxRate - 1 /\ e.resetTime \in Nat /\ e.resetTime - RateWindow <= clock
        /\ MaxRate - e.tokens = 1 /\ e.resetTime - RateWindow = clock
        /\ e \in [tokens : Int, resetTime : Int, here : BOOLEAN]
    BY <1>1, <2>5
  <2>7. granted'[c] = Append(g, clock) /\ buckets'[c] = e /\ refusedAt'[c] = refusedAt[c]
    BY <2>1, <2>5 DEF LimiterInv, RateTyped, BucketTyped
  <2>8. Current(granted'[c], C, MaxRate - e.tokens, e.resetTime - RateWindow) /\ Windows(granted'[c], C)
        /\ C \in SUBSET (1 .. Len(granted'[c]))
    BY <2>4, <2>6, <2>7 DEF Windows
  <2>9. BucketKept(c)'
    BY <1>1, <2>6, <2>7, <2>8 DEF BucketKept
  <2>10. Refused(c)'
    BY <1>4, <2>7 DEF Refused
  <2>11. ASSUME NEW d \in RateClient, d # c PROVE BucketKept(d)' /\ Refused(d)'
    <3>1. granted'[d] = granted[d] /\ buckets'[d] = buckets[d] /\ refusedAt'[d] = refusedAt[d]
      BY <2>1, <2>11 DEF LimiterInv, RateTyped, BucketTyped
    <3> QED
      BY <1>1, <3>1, BucketUntouched DEF LimiterInv
  <2>12. RateTyped' /\ BucketTyped'
    BY <1>1, <1>4, <2>1, <2>5, <2>6 DEF LimiterInv, RateTyped, BucketTyped
  <2> QED
    BY <2>9, <2>10, <2>11, <2>12 DEF LimiterInv
<1>6. CASE ~Tables!Over(b) /\ b.tokens > 0
  <2>1. /\ buckets' = [buckets EXCEPT ![c].tokens = b.tokens - 1]
        /\ granted' = [granted EXCEPT ![c] = Append(g, clock)] /\ UNCHANGED refusedAt
    BY <1>1, <1>2, <1>6 DEF Tables!Asks
  <2>2. b.here /\ clock <= b.resetTime
    BY <1>1, <1>2, <1>6 DEF Tables!Over
  <2>3. PICK f : f = b.resetTime - RateWindow
    OBVIOUS
  <2>4. PICK n : n = MaxRate - b.tokens
    OBVIOUS
  <2>5. /\ Current(g, B, n, f) /\ n < MaxRate /\ f <= clock /\ clock <= f + RateWindow
        /\ b.tokens \in 1 .. MaxRate - 1 /\ b.resetTime \in Nat
    BY <1>1, <1>2, <1>6, <2>2, <2>3, <2>4
  <2>6. Windows(Append(g, clock), B) /\ Current(Append(g, clock), B, n + 1, f)
    BY <1>1, <1>2, <2>5, WindowGrows
  <2>7. PICK e : e = [tokens |-> b.tokens - 1, resetTime |-> b.resetTime, here |-> b.here]
    OBVIOUS
  <2>8. [b EXCEPT !.tokens = b.tokens - 1] = e
    <3>1. b \in [tokens : Int, resetTime : Int, here : BOOLEAN]
      BY DEF LimiterInv, BucketTyped
    <3> QED
      BY <2>7, <3>1
  <2>9. /\ e.here /\ e.tokens \in 0 .. MaxRate - 1 /\ e.resetTime \in Nat /\ e.resetTime - RateWindow <= clock
        /\ MaxRate - e.tokens = n + 1 /\ e.resetTime - RateWindow = f
        /\ e \in [tokens : Int, resetTime : Int, here : BOOLEAN]
    <3>1. e.here /\ e.tokens = b.tokens - 1 /\ e.resetTime = b.resetTime
      BY <2>2, <2>7
    <3>2. b.here \in BOOLEAN
      BY DEF LimiterInv, BucketTyped
    <3>3. b.tokens - 1 \in Int /\ b.resetTime \in Int
      BY <1>1, <2>5
    <3>4. e \in [tokens : Int, resetTime : Int, here : BOOLEAN]
      BY <2>7, <3>2, <3>3, Zenon
    <3>5. PICK k \in 1 .. MaxRate - 1, reset \in Nat : k = b.tokens /\ reset = b.resetTime
      BY <2>5
    <3>6. e.tokens = k - 1 /\ e.resetTime = reset /\ n = MaxRate - k /\ f = reset - RateWindow
      BY <2>3, <2>4, <3>1, <3>5
    <3>7. /\ e.tokens \in 0 .. MaxRate - 1 /\ e.resetTime \in Nat /\ e.resetTime - RateWindow <= clock
          /\ MaxRate - e.tokens = n + 1 /\ e.resetTime - RateWindow = f
      <4>1. MaxRate \in Nat /\ RateWindow \in Nat /\ clock \in Nat /\ f <= clock
        BY <1>1, <2>5
      <4>2. k - 1 \in 0 .. MaxRate - 1 /\ MaxRate - (k - 1) = MaxRate - k + 1 /\ reset - RateWindow \in Int
        BY <3>5, <4>1
      <4>3. e.tokens \in 0 .. MaxRate - 1 /\ MaxRate - e.tokens = n + 1
        BY <3>6, <4>2, Zenon
      <4>4. e.resetTime \in Nat /\ e.resetTime - RateWindow = f
        BY <3>5, <3>6, Zenon
      <4> QED
        BY <4>1, <4>3, <4>4, Zenon
    <3> QED
      BY <3>1, <3>4, <3>7
  <2>10. buckets' = [buckets EXCEPT ![c] = e]
    BY <2>1, <2>8
  <2>11. granted'[c] = Append(g, clock) /\ buckets'[c] = e /\ refusedAt'[c] = refusedAt[c]
    BY <2>1, <2>10 DEF LimiterInv, RateTyped, BucketTyped
  <2>12. Current(granted'[c], B, MaxRate - e.tokens, e.resetTime - RateWindow) /\ Windows(granted'[c], B)
        /\ B \in SUBSET (1 .. Len(granted'[c]))
    BY <2>6, <2>9, <2>11 DEF Windows
  <2>13. BucketKept(c)'
    BY <1>1, <2>9, <2>11, <2>12 DEF BucketKept
  <2>14. Refused(c)'
    BY <1>4, <2>11 DEF Refused
  <2>15. ASSUME NEW d \in RateClient, d # c PROVE BucketKept(d)' /\ Refused(d)'
    <3>1. granted'[d] = granted[d] /\ buckets'[d] = buckets[d] /\ refusedAt'[d] = refusedAt[d]
      BY <2>1, <2>10, <2>15 DEF LimiterInv, RateTyped, BucketTyped
    <3> QED
      BY <1>1, <3>1, BucketUntouched DEF LimiterInv
  <2>16. RateTyped' /\ BucketTyped'
    BY <1>1, <1>4, <2>1, <2>9, <2>10 DEF LimiterInv, RateTyped, BucketTyped
  <2> QED
    BY <2>13, <2>14, <2>15, <2>16 DEF LimiterInv
<1>7. CASE ~Tables!Over(b) /\ b.tokens = 0
  <2>1. UNCHANGED <<buckets, granted>> /\ refusedAt' = [refusedAt EXCEPT ![c] = refusedAt[c] \cup {clock}]
    BY <1>1, <1>7 DEF Tables!Asks
  <2>2. b.here /\ clock <= b.resetTime
    BY <1>1, <1>2, <1>7 DEF Tables!Over
  <2>3. PICK f : f = b.resetTime - RateWindow
    OBVIOUS
  <2>4. Current(g, B, MaxRate, f) /\ clock - RateWindow \in Int /\ clock - RateWindow <= f
    BY <1>1, <1>2, <1>7, <2>2, <2>3
  <2>5. Exhausted(g, clock - RateWindow, clock)
    BY <1>1, <2>4, FullIsExhausted
  <2>6. refusedAt'[c] = refusedAt[c] \cup {clock} /\ granted'[c] = g /\ buckets'[c] = b
    BY <2>1 DEF LimiterInv, RateTyped
  <2>7. Refused(c)'
    BY <1>3, <2>5, <2>6 DEF Refused
  <2>8. BucketKept(c)'
    BY <1>1, <2>1 DEF LimiterInv, BucketKept
  <2>9. ASSUME NEW d \in RateClient, d # c PROVE BucketKept(d)' /\ Refused(d)'
    <3>1. granted'[d] = granted[d] /\ buckets'[d] = buckets[d] /\ refusedAt'[d] = refusedAt[d]
      BY <2>1, <2>9 DEF LimiterInv, RateTyped, BucketTyped
    <3> QED
      BY <1>1, <3>1, BucketUntouched DEF LimiterInv
  <2>10. RateTyped' /\ BucketTyped'
    BY <1>1, <2>1 DEF LimiterInv, RateTyped, BucketTyped
  <2> QED
    BY <2>7, <2>8, <2>9, <2>10 DEF LimiterInv
<1> QED
  BY <1>5, <1>6, <1>7 DEF Tables!Asks

\* Buckets that are over are dropped.
LEMMA LimiterCleanupStep == ASSUME LimiterInv, Tables!LimiterCleanup PROVE LimiterInv'
<1>1. /\ UNCHANGED <<clock, granted, refusedAt>> /\ clock \in Nat
      /\ buckets' = [c \in RateClient |-> IF Tables!Over(buckets[c]) THEN Tables!Unknown ELSE buckets[c]]
  BY DEF Tables!LimiterCleanup, LimiterInv, RateTyped
<1>2. MaxRate \in Nat \ {0} /\ RateWindow \in Nat
  BY RateAssumption DEF RateAssumption
<1>3. RateTyped'
  BY <1>1 DEF LimiterInv, RateTyped
<1>4. BucketTyped'
  BY <1>1 DEF LimiterInv, BucketTyped, Tables!Unknown
<1>5. ASSUME NEW c \in RateClient PROVE BucketKept(c)' /\ Refused(c)'
  <2>1. CASE Tables!Over(buckets[c])
    <3>1. PICK B \in SUBSET (1 .. Len(granted[c])) :
            /\ Windows(granted[c], B)
            /\ IF buckets[c].here
               THEN /\ buckets[c].tokens \in 0 .. MaxRate - 1 /\ buckets[c].resetTime \in Nat
                    /\ buckets[c].resetTime - RateWindow <= clock
                    /\ Current(granted[c], B, MaxRate - buckets[c].tokens, buckets[c].resetTime - RateWindow)
               ELSE Closed(granted[c], B, clock)
      BY DEF LimiterInv, BucketKept
    <3>2. Closed(granted[c], B, clock)
      <4>1. CASE buckets[c].here
        <5>1. buckets[c].resetTime < clock
          BY <1>1, <3>1, <2>1, <4>1 DEF Tables!Over
        <5>2. PICK f : f = buckets[c].resetTime - RateWindow
          OBVIOUS
        <5>3. PICK n : n = MaxRate - buckets[c].tokens
          OBVIOUS
        <5>4. Current(granted[c], B, n, f) /\ f + RateWindow < clock
          BY <1>2, <3>1, <4>1, <5>1, <5>2, <5>3
        <5>5. Times(granted[c], clock)
          BY DEF LimiterInv, RateTyped
        <5> QED
          BY <1>1, <3>1, <5>4, <5>5, WindowCloses
      <4>2. CASE ~buckets[c].here
        BY <3>1, <4>2
      <4> QED
        BY <4>1, <4>2
    <3>3. ~buckets'[c].here
      BY <1>1, <2>1 DEF Tables!Unknown
    <3>4. BucketKept(c)'
      BY <1>1, <3>1, <3>2, <3>3 DEF BucketKept
    <3> QED
      BY <1>1, <3>4 DEF LimiterInv, Refused
  <2>2. CASE ~Tables!Over(buckets[c])
    <3>1. buckets'[c] = buckets[c]
      BY <1>1, <2>2
    <3> QED
      BY <1>1, <3>1, BucketUntouched DEF LimiterInv
  <2> QED
    BY <2>1, <2>2
<1> QED
  BY <1>3, <1>4, <1>5 DEF LimiterInv

\* Time passes.
LEMMA LimiterPassStep == ASSUME LimiterInv, Tables!LimiterPass PROVE LimiterInv'
<1>1. UNCHANGED <<buckets, granted, refusedAt>> /\ clock' = clock + 1 /\ clock \in Nat \ {0}
  BY DEF Tables!LimiterPass, LimiterInv, RateTyped
<1>2. MaxRate \in Nat \ {0} /\ RateWindow \in Nat
  BY RateAssumption DEF RateAssumption
<1>3. RateTyped' /\ BucketTyped'
  BY <1>1 DEF LimiterInv, RateTyped, BucketTyped, Times
<1>4. ASSUME NEW c \in RateClient PROVE BucketKept(c)' /\ Refused(c)'
  <2>1. PICK B \in SUBSET (1 .. Len(granted[c])) :
          /\ Windows(granted[c], B)
          /\ IF buckets[c].here
             THEN /\ buckets[c].tokens \in 0 .. MaxRate - 1 /\ buckets[c].resetTime \in Nat
                  /\ buckets[c].resetTime - RateWindow <= clock
                  /\ Current(granted[c], B, MaxRate - buckets[c].tokens, buckets[c].resetTime - RateWindow)
             ELSE Closed(granted[c], B, clock)
    BY DEF LimiterInv, BucketKept
  <2>2. Closed(granted[c], B, clock) => Closed(granted[c], B, clock + 1)
    BY <1>1, <1>2 DEF Closed, LimiterInv, RateTyped, Times
  <2>3. buckets[c].resetTime \in Nat /\ buckets[c].resetTime - RateWindow <= clock => buckets[c].resetTime - RateWindow <= clock + 1
    BY <1>1, <1>2
  <2>4. BucketKept(c)'
    BY <1>1, <2>1, <2>2, <2>3 DEF BucketKept
  <2> QED
    BY <1>1, <2>4 DEF LimiterInv, Refused
<1> QED
  BY <1>3, <1>4 DEF LimiterInv

\* What a limiter keeps is what it promises.
LEMMA RatesFollow ==
  ASSUME RateTyped, \A c \in RateClient : Refused(c) /\ \E B : Windows(granted[c], B)
  PROVE  Tables!LimiterSound
<1>1. RateWindow \in Nat /\ clock \in Nat
  BY RateAssumption DEF RateAssumption, RateTyped
<1>2. \A c, lo, hi : Tables!Within(c, lo, hi) = Cardinality(Granted(granted[c], lo, hi))
  <2>1. \A S : Tables!Cardinality(S) = Cardinality(S)
    BY DEF Tables!Cardinality, Cardinality, Tables!IsFiniteSet, IsFiniteSet
  <2> QED
    BY <2>1 DEF Tables!Within, Granted
<1> SUFFICES ASSUME NEW c \in RateClient
             PROVE  /\ \A t \in 1 .. MaxRateClock : Tables!Within(c, t, t + RateWindow) <= 2 * MaxRate - 1
                    /\ \A t \in refusedAt[c] : t > RateWindow => Tables!Within(c, t - RateWindow, t) >= MaxRate
                    /\ \A t \in refusedAt[c] : t <= RateWindow => Tables!Within(c, 1, t) >= MaxRate
  BY DEF Tables!LimiterSound
<1>3. Times(granted[c], clock) /\ refusedAt[c] \in SUBSET Nat
  BY DEF RateTyped
<1>4. ASSUME NEW t \in 1 .. MaxRateClock PROVE Tables!Within(c, t, t + RateWindow) <= 2 * MaxRate - 1
  <2>1. t \in Nat
    OBVIOUS
  <2>2. PICK B : Windows(granted[c], B)
    OBVIOUS
  <2>3. Cardinality(Granted(granted[c], t, t + RateWindow)) <= 2 * MaxRate - 1
    BY <1>1, <1>3, <2>1, <2>2, TwoWindows
  <2> QED
    BY <1>2, <2>3
<1>5. ASSUME NEW t \in refusedAt[c]
      PROVE  Tables!Within(c, t - RateWindow, t) >= MaxRate /\ Tables!Within(c, 1, t) >= MaxRate
  <2>1. t \in Nat /\ t - RateWindow \in Int /\ t \in Int /\ 1 \in Int
    BY <1>1, <1>3
  <2>2. Exhausted(granted[c], t - RateWindow, t)
    BY DEF Refused
  <2>3. Exhausted(granted[c], 1, t)
    <3>1. PICK b \in 1 .. Len(granted[c]) : b + MaxRate - 1 <= Len(granted[c])
             /\ \A i \in b .. b + MaxRate - 1 : t - RateWindow <= granted[c][i] /\ granted[c][i] <= t
      BY <2>2 DEF Exhausted
    <3>2. \A i \in b .. b + MaxRate - 1 : 1 <= granted[c][i]
      <4>1. MaxRate \in Nat /\ Len(granted[c]) \in Nat
        BY <1>3, RateAssumption DEF RateAssumption, Times
      <4>2. \A i \in b .. b + MaxRate - 1 : i \in 1 .. Len(granted[c])
        BY <3>1, <4>1
      <4> QED
        BY <1>3, <4>2 DEF Times
    <3> QED
      BY <3>1, <3>2 DEF Exhausted
  <2>4. Cardinality(Granted(granted[c], t - RateWindow, t)) >= MaxRate
    BY <1>1, <1>3, <2>1, <2>2, ExhaustedCounts
  <2>5. Cardinality(Granted(granted[c], 1, t)) >= MaxRate
    BY <1>1, <1>3, <2>1, <2>3, ExhaustedCounts
  <2> QED
    BY <1>2, <2>4, <2>5
<1> QED
  BY <1>4, <1>5


\* The ingress guard.  A peer that was counted is in the window that started at the count's start; it was
\* granted what was counted of it, up to the limit, and told if there was more.
JunkTyped ==
  /\ junkCounts \in [RateClient -> [start : Nat, count : Nat, told : BOOLEAN]]
  /\ throttled \in [RateClient -> SUBSET Nat]

JunkKept(c) ==
  LET e == junkCounts[c] IN
  IF e = Tables!NoCount
  THEN granted[c] = <<>> /\ throttled[c] = {} /\ refusedAt[c] = {}
  ELSE /\ e.count \in Nat \ {0} /\ 1 <= e.start /\ e.start <= clock
       /\ e.told = (e.count > MaxRate)
       /\ \E B \in SUBSET (1 .. Len(granted[c])) :
            /\ Windows(granted[c], B)
            /\ Current(granted[c], B, IF e.count > MaxRate THEN MaxRate ELSE e.count, e.start)
       /\ \A u \in throttled[c] : u <= clock /\ u <= e.start + RateWindow
       /\ e.told => \E u \in throttled[c] : e.start <= u
       /\ ~e.told => \A u \in throttled[c] : u < e.start

\* Who was refused was told in that window; between two tellings a whole window was granted.
Told(c) ==
  /\ \A t \in refusedAt[c] : \E u \in throttled[c] : t - RateWindow <= u /\ u <= t
  /\ \A t, u \in throttled[c] : t < u => Exhausted(granted[c], t + 1, u)

FloodInv == RateTyped /\ JunkTyped /\ \A c \in RateClient : JunkKept(c) /\ Told(c) /\ Refused(c)

LEMMA FloodStart == Tables!LimiterInit => FloodInv
<1> SUFFICES ASSUME Tables!LimiterInit PROVE FloodInv
  OBVIOUS
<1>1. /\ junkCounts = [c \in RateClient |-> Tables!NoCount] /\ throttled = [c \in RateClient |-> {}]
      /\ \A c \in RateClient : granted[c] = <<>> /\ refusedAt[c] = {} /\ throttled[c] = {} /\ junkCounts[c] = Tables!NoCount
  BY DEF Tables!LimiterInit
<1>2. RateTyped
  BY LimiterStart DEF LimiterInv
<1>3. JunkTyped
  BY <1>1 DEF JunkTyped, Tables!NoCount
<1>4. ASSUME NEW c \in RateClient PROVE JunkKept(c) /\ Told(c) /\ Refused(c)
  BY <1>1 DEF JunkKept, Told, Refused
<1> QED
  BY <1>2, <1>3, <1>4 DEF FloodInv

\* Time passes; or somebody else's transaction comes.
LEMMA JunkUntouched ==
  ASSUME FloodInv, NEW c \in RateClient, granted'[c] = granted[c], refusedAt'[c] = refusedAt[c], clock' \in Nat, clock' >= clock,
         junkCounts'[c] = junkCounts[c], throttled'[c] = throttled[c]
  PROVE  JunkKept(c)' /\ Told(c)' /\ Refused(c)'
<1>1. JunkKept(c) /\ Told(c) /\ Refused(c) /\ clock \in Nat /\ throttled[c] \in SUBSET Nat
      /\ junkCounts[c] \in [start : Nat, count : Nat, told : BOOLEAN]
  BY DEF FloodInv, RateTyped, JunkTyped
<1>2. Told(c)' /\ Refused(c)'
  BY <1>1 DEF Told, Refused
<1>3. CASE junkCounts[c] = Tables!NoCount
  BY <1>1, <1>2, <1>3 DEF JunkKept, Tables!NoCount
<1>4. CASE junkCounts[c] # Tables!NoCount
  <2>1. junkCounts[c].start <= clock'
    BY <1>1, <1>4 DEF JunkKept
  <2>2. \A u \in throttled[c] : u <= clock'
    BY <1>1, <1>4 DEF JunkKept
  <2> QED
    BY <1>1, <1>2, <1>4, <2>1, <2>2 DEF JunkKept, Tables!NoCount
<1> QED
  BY <1>2, <1>3, <1>4

LEMMA FloodPassStep == ASSUME FloodInv, Tables!LimiterPass, UNCHANGED <<junkCounts, throttled>> PROVE FloodInv'
<1>1. UNCHANGED <<granted, refusedAt, junkCounts, throttled>> /\ clock' = clock + 1 /\ clock \in Nat \ {0}
  BY DEF Tables!LimiterPass, FloodInv, RateTyped
<1>2. RateTyped' /\ JunkTyped'
  BY <1>1 DEF FloodInv, RateTyped, JunkTyped, Times
<1>3. ASSUME NEW c \in RateClient PROVE JunkKept(c)' /\ Told(c)' /\ Refused(c)'
  BY <1>1, JunkUntouched
<1> QED
  BY <1>2, <1>3 DEF FloodInv

\* The window a transaction is counted in: the one under way, or one that starts now.
NewWindow(c, w) ==
  /\ w = [start |-> clock, count |-> 0, told |-> FALSE]
  /\ \A u \in throttled[c] : u < clock
  /\ \E B \in SUBSET (1 .. Len(granted[c])) : Windows(granted[c], B) /\ Closed(granted[c], B, clock)
SameWindow(c, w) == w = junkCounts[c] /\ w # Tables!NoCount /\ clock <= w.start + RateWindow

LEMMA WindowOf ==
  ASSUME FloodInv, NEW c \in RateClient
  PROVE  LET w == Tables!Window(c) IN
         /\ w \in [start : Nat, count : Nat, told : BOOLEAN]
         /\ NewWindow(c, w) \/ SameWindow(c, w)
<1>1. /\ JunkKept(c) /\ clock \in Nat /\ throttled[c] \in SUBSET Nat /\ Times(granted[c], clock) /\ granted[c] \in Seq(Nat)
      /\ junkCounts[c] \in [start : Nat, count : Nat, told : BOOLEAN]
  BY DEF FloodInv, RateTyped, JunkTyped
<1>2. MaxRate \in Nat \ {0} /\ RateWindow \in Nat
  BY RateAssumption DEF RateAssumption
<1>3. [Tables!NoCount EXCEPT !.start = clock] = [start |-> clock, count |-> 0, told |-> FALSE]
  <2>1. PICK z : z = Tables!NoCount
    OBVIOUS
  <2>2. z \in [start : Nat, count : Nat, told : BOOLEAN] /\ z.count = 0 /\ z.told = FALSE
    BY <2>1 DEF Tables!NoCount
  <2>3. [z EXCEPT !.start = clock] = [start |-> clock, count |-> z.count, told |-> z.told]
    BY <2>2
  <2> QED
    BY <2>1, <2>2, <2>3, Zenon
<1>4. CASE junkCounts[c] = Tables!NoCount
  <2>1. Tables!Window(c) = [start |-> clock, count |-> 0, told |-> FALSE]
    BY <1>3, <1>4 DEF Tables!Window
  <2>2. granted[c] = <<>> /\ throttled[c] = {}
    BY <1>1, <1>4 DEF JunkKept
  <2>3. Windows(<<>>, {}) /\ Closed(<<>>, {}, clock)
    BY DEF Windows, Closed
  <2> QED
    BY <1>1, <2>1, <2>2, <2>3 DEF NewWindow
<1>5. CASE junkCounts[c] # Tables!NoCount /\ clock - junkCounts[c].start > RateWindow
  <2>1. Tables!Window(c) = [start |-> clock, count |-> 0, told |-> FALSE]
    BY <1>3, <1>5 DEF Tables!Window
  <2>2. PICK f : f = junkCounts[c].start
    OBVIOUS
  <2>3. PICK n : n = IF junkCounts[c].count > MaxRate THEN MaxRate ELSE junkCounts[c].count
    OBVIOUS
  <2>4. PICK B \in SUBSET (1 .. Len(granted[c])) : Windows(granted[c], B) /\ Current(granted[c], B, n, f)
    BY <1>1, <1>5, <2>2, <2>3 DEF JunkKept
  <2>5. f + RateWindow < clock
    BY <1>1, <1>2, <1>5, <2>2
  <2>6. Closed(granted[c], B, clock)
    BY <1>1, <2>4, <2>5, WindowCloses
  <2>7. \A u \in throttled[c] : u < clock
    <3>1. \A u \in throttled[c] : u <= f + RateWindow /\ u \in Nat
      BY <1>1, <1>5, <2>2 DEF JunkKept
    <3> QED
      BY <1>1, <1>2, <2>2, <2>5, <3>1
  <2> QED
    BY <1>1, <2>1, <2>4, <2>6, <2>7 DEF NewWindow
<1>6. CASE junkCounts[c] # Tables!NoCount /\ ~(clock - junkCounts[c].start > RateWindow)
  <2>1. Tables!Window(c) = junkCounts[c]
    BY <1>6 DEF Tables!Window
  <2>2. clock <= junkCounts[c].start + RateWindow
    BY <1>1, <1>2, <1>6
  <2> QED
    BY <1>1, <1>6, <2>1, <2>2 DEF SameWindow
<1> QED
  BY <1>4, <1>5, <1>6

\* _admitToPool, of a transaction that is counted.
LEMMA AdmitStep ==
  ASSUME FloodInv, NEW c \in RateClient, NEW valid \in BOOLEAN, NEW local \in BOOLEAN, Tables!admitToPool(c, valid, local)
  PROVE  FloodInv'
<1>1. CASE ~valid \/ local
  <2>1. UNCHANGED <<clock, granted, refusedAt, junkCounts, throttled>>
    BY <1>1 DEF Tables!admitToPool, Tables!limitVars
  <2>2. RateTyped' /\ JunkTyped'
    BY <2>1 DEF FloodInv, RateTyped, JunkTyped
  <2>3. ASSUME NEW d \in RateClient PROVE JunkKept(d)' /\ Told(d)' /\ Refused(d)'
    BY <2>1, JunkUntouched DEF FloodInv, RateTyped
  <2> QED
    BY <2>2, <2>3 DEF FloodInv
<1>2. CASE valid /\ ~local
  <2> DEFINE g == granted[c]
             old == junkCounts[c]
  <2>1. /\ clock \in Nat \ {0} /\ Times(g, clock) /\ g \in Seq(Nat) /\ refusedAt[c] \in SUBSET Nat
        /\ throttled[c] \in SUBSET Nat /\ JunkKept(c) /\ Told(c) /\ Refused(c)
        /\ old \in [start : Nat, count : Nat, told : BOOLEAN]
    BY DEF FloodInv, RateTyped, JunkTyped
  <2>2. MaxRate \in Nat \ {0} /\ RateWindow \in Nat
    BY RateAssumption DEF RateAssumption
  <2>3. PICK w : w = Tables!Window(c)
    OBVIOUS
  <2>4. /\ w \in [start : Nat, count : Nat, told : BOOLEAN]
        /\ NewWindow(c, w) \/ SameWindow(c, w)
    BY <2>3, WindowOf
  <2>5. PICK n \in Nat : n = w.count + 1
    BY <2>4
  <2>6. PICK f : f = w.start
    OBVIOUS
  <2>7. PICK over \in BOOLEAN : over = (n > MaxRate)
    <3>1. (n > MaxRate) \in BOOLEAN
      BY <2>2, <2>5
    <3> QED
      BY <3>1, Zenon
  <2>8. PICK e : e = [start |-> f, count |-> n, told |-> over]
    OBVIOUS
  <2>9. /\ [w EXCEPT !.count = w.count + 1] = [start |-> f, count |-> n, told |-> w.told]
        /\ [[start |-> f, count |-> n, told |-> w.told] EXCEPT !.told = over] = e
        /\ n \in Nat \ {0} /\ f \in Nat /\ e \in [start : Nat, count : Nat, told : BOOLEAN]
        /\ e.start = f /\ e.count = n /\ e.told = over /\ e # Tables!NoCount
    BY <2>4, <2>5, <2>6, <2>7, <2>8 DEF Tables!NoCount
  <2>10. PICK x : x = [start |-> f, count |-> n, told |-> w.told]
    OBVIOUS
  <2>11. x.count = n /\ x.told = w.told /\ [x EXCEPT !.told = over] = e /\ x = [Tables!Window(c) EXCEPT !.count = @ + 1]
    BY <2>3, <2>9, <2>10
  <2>12. /\ junkCounts' = [junkCounts EXCEPT ![c] = e]
         /\ throttled' = IF over /\ ~w.told THEN [throttled EXCEPT ![c] = @ \cup {clock}] ELSE throttled
         /\ IF over THEN refusedAt' = [refusedAt EXCEPT ![c] = @ \cup {clock}] /\ UNCHANGED granted
                    ELSE granted' = [granted EXCEPT ![c] = Append(@, clock)] /\ UNCHANGED refusedAt
         /\ clock' = clock
    BY <1>2, <2>7, <2>11 DEF Tables!admitToPool
  <2>13. junkCounts'[c] = e
    BY <2>12 DEF FloodInv, JunkTyped
  <2>14. ASSUME NEW d \in RateClient, d # c PROVE JunkKept(d)' /\ Told(d)' /\ Refused(d)'
    <3>1. granted'[d] = granted[d] /\ junkCounts'[d] = junkCounts[d] /\ refusedAt'[d] = refusedAt[d] /\ throttled'[d] = throttled[d]
      BY <2>12, <2>14 DEF FloodInv, RateTyped, JunkTyped
    <3>2. clock' \in Nat /\ clock' >= clock
      BY <2>1, <2>12
    <3> QED
      BY <3>1, <3>2, JunkUntouched
  <2>15. JunkTyped' /\ refusedAt' \in [RateClient -> SUBSET Nat]
    <3>1. throttled' \in [RateClient -> SUBSET Nat]
      BY <2>1, <2>12 DEF FloodInv, JunkTyped
    <3>2. refusedAt' = refusedAt \/ refusedAt' = [refusedAt EXCEPT ![c] = refusedAt[c] \cup {clock}]
      BY <2>12
    <3>3. refusedAt' \in [RateClient -> SUBSET Nat]
      <4>1. refusedAt \in [RateClient -> SUBSET Nat]
        BY DEF FloodInv, RateTyped
      <4>2. PICK S \in SUBSET Nat : S = refusedAt[c] \cup {clock}
        BY <2>1
      <4> QED
        BY <3>2, <4>1, <4>2
    <3> QED
      BY <2>9, <2>12, <3>1, <3>3 DEF FloodInv, JunkTyped
  \* It is granted: the first of a window, or one more.
  <2>16. CASE ~over
    <3>1. /\ granted' = [granted EXCEPT ![c] = Append(g, clock)] /\ UNCHANGED <<throttled, refusedAt>>
      BY <2>12, <2>16
    <3>2. granted'[c] = Append(g, clock) /\ refusedAt'[c] = refusedAt[c] /\ throttled'[c] = throttled[c]
      BY <3>1 DEF FloodInv, RateTyped
    <3>3. Append(g, clock) \in Seq(Nat) /\ Times(Append(g, clock), clock)
      BY <2>1, AppendIs DEF Times
    <3>4. RateTyped'
      BY <2>1, <2>12, <2>15, <3>1, <3>3 DEF FloodInv, RateTyped
    <3>5. Refused(c)' /\ Told(c)'
      <4>1. \A lo, hi : Exhausted(g, lo, hi) => Exhausted(Append(g, clock), lo, hi)
        BY <2>1, ExhaustedStays
      <4> QED
        BY <2>1, <3>2, <4>1 DEF Refused, Told
    <3>6. n <= MaxRate
      BY <2>2, <2>7, <2>9, <2>16
    <3>7. /\ 1 <= f /\ f <= clock /\ \A u \in throttled[c] : u < f
          /\ \E C : Windows(Append(g, clock), C) /\ Current(Append(g, clock), C, n, f)
      <4>1. CASE NewWindow(c, w)
        <5>1. n = 1 /\ f = clock
          BY <4>1, <2>5, <2>6 DEF NewWindow
        <5>2. PICK B \in SUBSET (1 .. Len(g)) : Windows(g, B) /\ Closed(g, B, clock)
          BY <4>1 DEF NewWindow
        <5>3. PICK C : C = B \cup {Len(g) + 1}
          OBVIOUS
        <5>4. Windows(Append(g, clock), C) /\ Current(Append(g, clock), C, 1, clock)
          BY <2>1, <5>2, <5>3, WindowStarts
        <5> QED
          BY <2>1, <4>1, <5>1, <5>4 DEF NewWindow
      <4>2. CASE SameWindow(c, w)
        <5>0. w = old /\ w # Tables!NoCount /\ clock <= w.start + RateWindow
          BY <4>2 DEF SameWindow
        <5>1. /\ w.count \in Nat \ {0} /\ 1 <= f /\ f <= clock /\ w.told = (w.count > MaxRate)
              /\ ~w.told => \A u \in throttled[c] : u < f
              /\ \E B \in SUBSET (1 .. Len(g)) :
                   Windows(g, B) /\ Current(g, B, IF w.count > MaxRate THEN MaxRate ELSE w.count, f)
          BY <2>1, <2>6, <5>0 DEF JunkKept
        <5>2. w.count < MaxRate /\ ~(w.count > MaxRate)
          BY <2>2, <2>5, <3>6, <5>1
        <5>3. PICK m : m = w.count
          OBVIOUS
        <5>4. PICK B \in SUBSET (1 .. Len(g)) : Windows(g, B) /\ Current(g, B, m, f)
          BY <5>1, <5>2, <5>3
        <5>5. Windows(Append(g, clock), B) /\ Current(Append(g, clock), B, m + 1, f)
          BY <2>1, <2>6, <5>0, <5>1, <5>2, <5>3, <5>4, WindowGrows
        <5> QED
          BY <2>5, <5>1, <5>2, <5>3, <5>5
      <4> QED
        BY <2>4, <4>1, <4>2
    <3>8. PICK C \in SUBSET (1 .. Len(Append(g, clock))) : Windows(Append(g, clock), C) /\ Current(Append(g, clock), C, n, f)
      BY <3>7 DEF Windows
    <3>9. JunkKept(c)'
      <4>1. ~(n > MaxRate) /\ (IF n > MaxRate THEN MaxRate ELSE n) = n
        BY <2>7, <2>16
      <4>2. \A u \in throttled[c] : u <= clock /\ u <= f + RateWindow /\ u < f
        BY <2>1, <2>2, <2>9, <3>7
      <4> QED
        BY <2>9, <2>12, <2>13, <2>16, <3>2, <3>7, <3>8, <4>1, <4>2 DEF JunkKept
    <3> QED
      BY <2>14, <2>15, <3>4, <3>5, <3>9 DEF FloodInv
  \* It is refused: the window has granted all it grants, and has told or tells now.
  <2>17. CASE over
    <3>1. UNCHANGED granted /\ refusedAt' = [refusedAt EXCEPT ![c] = refusedAt[c] \cup {clock}]
      BY <2>12, <2>17
    <3>2. n > MaxRate
      BY <2>7, <2>17
    <3>3. w = old /\ w # Tables!NoCount /\ clock <= w.start + RateWindow
      <4>1. ~NewWindow(c, w)
        BY <2>2, <2>5, <3>2 DEF NewWindow
      <4> QED
        BY <2>4, <4>1 DEF SameWindow
    <3>4. /\ w.count \in Nat \ {0} /\ 1 <= f /\ f <= clock /\ w.told = (w.count > MaxRate)
          /\ ~w.told => \A u \in throttled[c] : u < f
          /\ w.told => \E u \in throttled[c] : f <= u
          /\ \A u \in throttled[c] : u <= clock /\ u <= f + RateWindow
          /\ \E B \in SUBSET (1 .. Len(g)) :
               Windows(g, B) /\ Current(g, B, IF w.count > MaxRate THEN MaxRate ELSE w.count, f)
      BY <2>1, <2>6, <3>3 DEF JunkKept
    <3>5. (IF w.count > MaxRate THEN MaxRate ELSE w.count) = MaxRate
      BY <2>2, <2>5, <3>2, <3>4
    <3>6. PICK B \in SUBSET (1 .. Len(g)) : Windows(g, B) /\ Current(g, B, MaxRate, f)
      BY <3>4, <3>5
    <3>7. granted'[c] = g /\ refusedAt'[c] = refusedAt[c] \cup {clock}
      BY <3>1 DEF FloodInv, RateTyped
    <3>8. clock - RateWindow <= f /\ clock - RateWindow \in Int
      BY <2>1, <2>2, <2>6, <2>9, <3>3
    <3>9. Refused(c)'
      <4>1. Exhausted(g, clock - RateWindow, clock)
        BY <2>1, <3>6, <3>8, FullIsExhausted
      <4> QED
        BY <2>1, <3>7, <4>1 DEF Refused
    <3>10. RateTyped'
      BY <2>1, <2>12, <2>15, <3>1 DEF FloodInv, RateTyped
    <3>11. throttled'[c] = IF w.told THEN throttled[c] ELSE throttled[c] \cup {clock}
      BY <2>12, <2>17 DEF FloodInv, JunkTyped
    <3>12. /\ throttled[c] \subseteq throttled'[c] /\ \A u \in throttled'[c] : u <= clock /\ u <= f + RateWindow
           /\ \E u \in throttled'[c] : f <= u
      <4>1. CASE w.told
        BY <3>4, <3>11, <4>1
      <4>2. CASE ~w.told
        BY <2>1, <2>6, <3>3, <3>4, <3>11, <4>2
      <4> QED
        BY <4>1, <4>2
    <3>13. Told(c)'
      <4>1. ASSUME NEW t \in refusedAt'[c] PROVE \E u \in throttled'[c] : t - RateWindow <= u /\ u <= t
        <5>1. CASE t \in refusedAt[c]
          BY <2>1, <3>12, <5>1 DEF Told
        <5>2. CASE t = clock
          <6>1. PICK u \in throttled'[c] : f <= u /\ u <= clock
            BY <3>12
          <6>2. u \in Nat
            BY <2>15 DEF JunkTyped
          <6> QED
            BY <2>1, <2>2, <2>9, <3>8, <5>2, <6>1, <6>2
        <5> QED
          BY <3>7, <5>1, <5>2
      <4>2. ASSUME NEW t \in throttled'[c], NEW u \in throttled'[c], t < u PROVE Exhausted(g, t + 1, u)
        <5>1. CASE t \in throttled[c] /\ u \in throttled[c]
          BY <2>1, <4>2, <5>1 DEF Told
        <5>2. CASE t \in throttled[c] /\ u \notin throttled[c]
          <6>1. u = clock /\ ~w.told
            BY <3>11, <5>2
          <6>2. t < f /\ t \in Nat
            BY <2>1, <3>4, <5>2, <6>1
          <6>3. t + 1 \in Int /\ t + 1 <= f
            BY <2>9, <6>2
          <6> QED
            BY <2>1, <3>6, <6>1, <6>3, FullIsExhausted
        <5>3. CASE t \notin throttled[c]
          <6>1. t = clock /\ u <= clock /\ u \in Nat
            BY <2>15, <3>11, <3>12, <5>3 DEF JunkTyped
          <6> QED
            BY <2>1, <4>2, <6>1
        <5> QED
          BY <5>1, <5>2, <5>3
      <4> QED
        BY <3>7, <4>1, <4>2 DEF Told
    <3>14. JunkKept(c)'
      <4>1. (IF n > MaxRate THEN MaxRate ELSE n) = MaxRate /\ over = (n > MaxRate)
        BY <2>7, <3>2
      <4>2. /\ e # Tables!NoCount /\ e.count \in Nat \ {0} /\ 1 <= e.start /\ e.start <= clock' /\ e.told = (e.count > MaxRate)
            /\ (IF e.count > MaxRate THEN MaxRate ELSE e.count) = MaxRate
        BY <2>9, <2>12, <3>4, <4>1
      <4>3. \E C \in SUBSET (1 .. Len(granted'[c])) : Windows(granted'[c], C) /\ Current(granted'[c], C, MaxRate, e.start)
        BY <2>9, <3>6, <3>7
      <4>4. /\ \A u \in throttled'[c] : u <= clock' /\ u <= e.start + RateWindow
            /\ \E u \in throttled'[c] : e.start <= u
            /\ e.told
        BY <2>9, <2>12, <2>17, <3>12
      <4> QED
        BY <2>13, <4>2, <4>3, <4>4 DEF JunkKept, Tables!NoCount
    <3> QED
      BY <2>14, <2>15, <3>9, <3>10, <3>13, <3>14 DEF FloodInv
  <2> QED
    BY <2>16, <2>17
<1> QED
  BY <1>1, <1>2


\* What the ingress guard keeps is what it promises.
LEMMA FloodFollows == FloodInv => Tables!FloodSound
<1> SUFFICES ASSUME FloodInv PROVE Tables!FloodSound
  OBVIOUS
<1>1. RateTyped /\ JunkTyped /\ RateWindow \in Nat /\ clock \in Nat
  BY RateAssumption DEF RateAssumption, FloodInv, RateTyped
<1>2. ASSUME NEW c \in RateClient PROVE \E B : Windows(granted[c], B)
  <2>1. CASE junkCounts[c] = Tables!NoCount
    <3>1. granted[c] = <<>>
      BY <2>1 DEF FloodInv, JunkKept
    <3>2. Windows(<<>>, {})
      BY DEF Windows
    <3> QED
      BY <3>1, <3>2
  <2>2. CASE junkCounts[c] # Tables!NoCount
    BY <2>2 DEF FloodInv, JunkKept
  <2> QED
    BY <2>1, <2>2
<1>3. Tables!LimiterSound
  BY <1>1, <1>2, RatesFollow DEF FloodInv
<1>4. ASSUME NEW c \in RateClient, NEW t \in refusedAt[c] PROVE \E u \in throttled[c] : u \in t - RateWindow .. t
  <2>1. PICK u \in throttled[c] : t - RateWindow <= u /\ u <= t
    BY DEF FloodInv, Told
  <2>2. t \in Nat /\ u \in Nat
    BY <1>1 DEF RateTyped, JunkTyped
  <2> QED
    BY <1>1, <2>1, <2>2
<1>5. ASSUME NEW c \in RateClient, NEW t \in throttled[c], NEW u \in throttled[c], t < u
      PROVE  Tables!Within(c, t + 1, u) >= MaxRate
  <2>1. Exhausted(granted[c], t + 1, u)
    BY <1>5 DEF FloodInv, Told
  <2>2. t + 1 \in Int /\ u \in Int /\ Times(granted[c], clock)
    BY <1>1 DEF RateTyped, JunkTyped
  <2>3. Cardinality(Granted(granted[c], t + 1, u)) >= MaxRate
    BY <1>1, <2>1, <2>2, ExhaustedCounts
  <2>4. \A S : Tables!Cardinality(S) = Cardinality(S)
    BY DEF Tables!Cardinality, Cardinality, Tables!IsFiniteSet, IsFiniteSet
  <2> QED
    BY <2>3, <2>4 DEF Tables!Within, Granted
<1> QED
  BY <1>3, <1>4, <1>5 DEF Tables!FloodSound

\* The part of the collection that Init chose is the part that moves.
RatesInv == (focus = "limiter" => LimiterInv) /\ (focus = "flood" => FloodInv)

LEMMA RatesNext == RatesInv /\ [Next]_vars => RatesInv'
<1> SUFFICES ASSUME RatesInv, [Next]_vars PROVE RatesInv'
  OBVIOUS
<1>1. focus' = focus
  BY DEF Next, vars
<1>2. ASSUME focus = "limiter" PROVE LimiterInv'
  <2>1. LimiterInv
    BY <1>2 DEF RatesInv
  <2>2. \/ Tables!LimiterPass \/ Tables!LimiterCleanup \/ \E c \in RateClient : Tables!Asks(c)
        \/ UNCHANGED <<clock, buckets, granted, refusedAt>>
    BY <1>2 DEF Next, vars, limiterVars, Tables!LimiterNext
  <2>3. CASE UNCHANGED <<clock, buckets, granted, refusedAt>>
    <3>1. RateTyped' /\ BucketTyped'
      BY <2>1, <2>3 DEF LimiterInv, RateTyped, BucketTyped
    <3>2. ASSUME NEW c \in RateClient PROVE BucketKept(c)' /\ Refused(c)'
      BY <2>1, <2>3, BucketUntouched DEF LimiterInv
    <3> QED
      BY <3>1, <3>2 DEF LimiterInv
  <2> QED
    BY <2>1, <2>2, <2>3, LimiterPassStep, LimiterCleanupStep, AskStep
<1>3. ASSUME focus = "flood" PROVE FloodInv'
  <2>1. FloodInv
    BY <1>3 DEF RatesInv
  <2>2. \/ Tables!LimiterPass /\ UNCHANGED <<junkCounts, throttled>>
        \/ \E c \in RateClient, valid, local \in BOOLEAN : Tables!admitToPool(c, valid, local)
        \/ UNCHANGED <<clock, granted, refusedAt, junkCounts, throttled>>
    BY <1>3 DEF Next, vars, limiterVars, Tables!FloodNext
  <2>3. CASE UNCHANGED <<clock, granted, refusedAt, junkCounts, throttled>>
    <3>1. RateTyped' /\ JunkTyped'
      BY <2>1, <2>3 DEF FloodInv, RateTyped, JunkTyped
    <3>2. ASSUME NEW c \in RateClient PROVE JunkKept(c)' /\ Told(c)' /\ Refused(c)'
      BY <2>1, <2>3, JunkUntouched DEF FloodInv, RateTyped
    <3> QED
      BY <3>1, <3>2 DEF FloodInv
  <2> QED
    BY <2>1, <2>2, <2>3, FloodPassStep, AdmitStep
<1> QED
  BY <1>1, <1>2, <1>3 DEF RatesInv

LEMMA RatesInvFollows == RatesInv => RatesSound
<1> SUFFICES ASSUME RatesInv PROVE RatesSound
  OBVIOUS
<1>1. ASSUME focus = "limiter" PROVE Tables!LimiterSound
  <2>1. LimiterInv
    BY <1>1 DEF RatesInv
  <2>2. \A c \in RateClient : Refused(c) /\ \E B : Windows(granted[c], B)
    BY <2>1 DEF LimiterInv, BucketKept
  <2> QED
    BY <2>1, <2>2, RatesFollow DEF LimiterInv
<1>2. ASSUME focus = "flood" PROVE Tables!FloodSound
  BY <1>2, FloodFollows DEF RatesInv
<1> QED
  BY <1>1, <1>2 DEF RatesSound

\* No client, and no peer that relays, is granted more than two windows allow within any window's time,
\* whoever is refused had all of a window's grants just before, and a peer is told of it once in a window;
\* for any rate and window, however long it runs and whenever buckets are cleaned up.
THEOREM RatesSoundHolds == Spec => []RatesSound
<1>1. Init => RatesInv
  BY LimiterStart, FloodStart DEF Init, RatesInv
<1> QED
  BY <1>1, RatesNext, RatesInvFollows, PTL DEF Spec

----------------------------------------------------------------------------
(* Ranks                                                                    *)

\* What comes before x in S, by the order R; and its number.
Earlier(S, R, x) == {y \in S : <<y, x>> \in R}

\* In a strict total order of finitely many, the numbers of those before are 0 and up, each once, in order.
LEMMA Ranks ==
  ASSUME NEW S, IsFiniteSet(S), NEW R,
         \A x \in S : <<x, x>> \notin R,
         \A x, y, z \in S : <<x, y>> \in R /\ <<y, z>> \in R => <<x, z>> \in R,
         \A x, y \in S : x # y => <<x, y>> \in R \/ <<y, x>> \in R
  PROVE  /\ \A x \in S : Cardinality(Earlier(S, R, x)) \in 0 .. Cardinality(S) - 1
         /\ \A x, y \in S : <<x, y>> \in R => Cardinality(Earlier(S, R, x)) < Cardinality(Earlier(S, R, y))
         /\ \A n \in 0 .. Cardinality(S) - 1 : \E x \in S : Cardinality(Earlier(S, R, x)) = n
<1> DEFINE f == [x \in S |-> Cardinality(Earlier(S, R, x))]
           T == 0 .. Cardinality(S) - 1
<1>1. Cardinality(S) \in Nat
  BY FS_CardinalityType
<1>2. ASSUME NEW x \in S PROVE IsFiniteSet(Earlier(S, R, x)) /\ Cardinality(Earlier(S, R, x)) \in Nat
  <2>1. Earlier(S, R, x) \in SUBSET S
    BY DEF Earlier
  <2> QED
    BY <2>1, FS_Subset, FS_CardinalityType
<1>3. ASSUME NEW x \in S PROVE Cardinality(Earlier(S, R, x)) \in T
  <2>1. Earlier(S, R, x) \in SUBSET (S \ {x})
    BY DEF Earlier
  <2>2. IsFiniteSet(S \ {x}) /\ Cardinality(S \ {x}) = Cardinality(S) - 1
    BY FS_RemoveElement
  <2>3. Cardinality(Earlier(S, R, x)) <= Cardinality(S \ {x})
    BY <2>1, <2>2, FS_Subset
  <2> QED
    BY <1>1, <1>2, <2>2, <2>3
<1>4. ASSUME NEW x \in S, NEW y \in S, <<x, y>> \in R
      PROVE  Cardinality(Earlier(S, R, x)) < Cardinality(Earlier(S, R, y))
  <2>1. x \notin Earlier(S, R, x) /\ Earlier(S, R, x) \cup {x} \in SUBSET Earlier(S, R, y)
    BY <1>4 DEF Earlier
  <2>2. Cardinality(Earlier(S, R, x) \cup {x}) = Cardinality(Earlier(S, R, x)) + 1
    BY <1>2, <2>1, FS_AddElement
  <2>3. Cardinality(Earlier(S, R, x) \cup {x}) <= Cardinality(Earlier(S, R, y))
    BY <1>2, <2>1, FS_Subset
  <2> QED
    BY <1>2, <2>2, <2>3
<1>5. f \in Injection(S, T)
  <2>1. ASSUME NEW x \in S, NEW y \in S, f[x] = f[y] PROVE x = y
    <3>1. Cardinality(Earlier(S, R, x)) = Cardinality(Earlier(S, R, y))
      BY <2>1
    <3>2. Cardinality(Earlier(S, R, x)) \in Nat /\ Cardinality(Earlier(S, R, y)) \in Nat
      BY <1>2
    <3>3. <<x, y>> \notin R /\ <<y, x>> \notin R
      BY <1>4, <3>1, <3>2
    <3> QED
      BY <3>3
  <2>2. f \in [S -> T]
    BY <1>3
  <2>3. \A x, y \in S : f[x] = f[y] => x = y
    BY <2>1
  <2> HIDE DEF f, T
  <2> QED
    BY <2>2, <2>3 DEF Injection, IsInjective
<1>6. IsFiniteSet(T) /\ Cardinality(T) = Cardinality(S)
  <2>1. PICK n \in Nat : n = Cardinality(S)
    BY <1>1
  <2>2. IsFiniteSet(0 .. n - 1) /\ Cardinality(0 .. n - 1) = IF 0 > n - 1 THEN 0 ELSE n - 1 - 0 + 1
    BY FS_Interval
  <2>3. (IF 0 > n - 1 THEN 0 ELSE n - 1 - 0 + 1) = n
    OBVIOUS
  <2> QED
    BY <2>1, <2>2, <2>3
<1>7. f \in Surjection(S, T)
  <2> HIDE DEF f, T
  <2> QED
    BY <1>5, <1>6, FS_Injection
<1>8. \A n \in T : \E x \in S : f[x] = n
  <2> HIDE DEF f, T
  <2> QED
    BY <1>7 DEF Surjection
<1> QED
  BY <1>3, <1>4, <1>8


----------------------------------------------------------------------------
(* The election                                                             *)

\* Multiplication keeps the order, and what keeps it was in order.
LEMMA TimesKeeps ==
  ASSUME NEW a \in Nat, NEW b \in Nat, NEW c \in Nat
  PROVE  /\ a <= b => a * c <= b * c
         /\ a < b /\ c > 0 => a * c < b * c
         /\ a * c <= b * c /\ c > 0 => a <= b
<1>1. ASSUME NEW d \in Nat, NEW e \in Nat PROVE (d + e) * c = d * c + e * c /\ d * c \in Nat /\ e * c \in Nat
  OBVIOUS
<1>2. ASSUME NEW e \in Nat, e > 0, c > 0 PROVE e * c > 0
  <2>1. PICK k \in Nat : c = k + 1
    <3>1. c - 1 \in Nat /\ c = c - 1 + 1
      BY <1>2
    <3> QED
      BY <3>1
  <2>2. e * (k + 1) = e * k + e /\ e * k \in Nat
    OBVIOUS
  <2> QED
    BY <1>2, <2>1, <2>2
<1>3. a <= b => a * c <= b * c
  <2> SUFFICES ASSUME a <= b PROVE a * c <= b * c
    OBVIOUS
  <2>1. PICK e \in Nat : b = a + e
    OBVIOUS
  <2> QED
    BY <1>1, <2>1
<1>4. a < b /\ c > 0 => a * c < b * c
  <2> SUFFICES ASSUME a < b, c > 0 PROVE a * c < b * c
    OBVIOUS
  <2>1. PICK e \in Nat : b = a + e /\ e > 0
    <3>1. b - a \in Nat /\ b = a + (b - a) /\ b - a > 0
      OBVIOUS
    <3> QED
      BY <3>1
  <2>2. e * c > 0
    BY <1>2, <2>1
  <2> QED
    BY <1>1, <2>1, <2>2
<1>5. ASSUME a * c <= b * c, c > 0 PROVE a <= b
  <2> SUFFICES ASSUME b < a PROVE FALSE
    OBVIOUS
  <2>1. PICK e \in Nat : a = b + e /\ e > 0
    <3>1. a - b \in Nat /\ a = b + (a - b) /\ a - b > 0
      OBVIOUS
    <3> QED
      BY <3>1
  <2>2. e * c > 0
    BY <1>2, <1>5, <2>1
  <2> QED
    BY <1>1, <1>5, <2>1, <2>2
<1> QED
  BY <1>3, <1>4, <1>5

\* What is kept of a node.
Entry == [ip : Ip, at : Nat, count : Nat \ {0}, num : Nat, den : Nat \ {0}]

\* Above compares the scores, which are fractions, by their cross products.
LEMMA ScoreIs ==
  ASSUME NEW a \in Entry
  PROVE  \E x \in Nat, y \in Nat : x = a.count * a.den /\ y = a.num + a.den /\ y > 0
<1>1. a.count \in Nat /\ a.num \in Nat /\ a.den \in Nat /\ a.den > 0
  BY DEF Entry
<1>2. ASSUME NEW p \in Nat, NEW q \in Nat, NEW r \in Nat, q > 0 PROVE p * q \in Nat /\ r + q \in Nat /\ r + q > 0
  BY <1>2
<1> QED
  BY <1>1, <1>2

\* Not being above is a preorder.
LEMMA AboveOrders ==
  ASSUME NEW a \in Entry, NEW b \in Entry, NEW c \in Entry
  PROVE  /\ Seats!Above(a, b) => ~Seats!Above(b, a)
         /\ ~Seats!Above(a, b) /\ ~Seats!Above(b, c) => ~Seats!Above(a, c)
<1>1. PICK xa \in Nat, ya \in Nat : xa = a.count * a.den /\ ya = a.num + a.den /\ ya > 0
  BY ScoreIs
<1>2. PICK xb \in Nat, yb \in Nat : xb = b.count * b.den /\ yb = b.num + b.den /\ yb > 0
  BY ScoreIs
<1>3. PICK xc \in Nat, yc \in Nat : xc = c.count * c.den /\ yc = c.num + c.den /\ yc > 0
  BY ScoreIs
<1>4. /\ Seats!Above(a, b) <=> xa * yb > xb * ya
      /\ Seats!Above(b, a) <=> xb * ya > xa * yb
      /\ Seats!Above(b, c) <=> xb * yc > xc * yb
      /\ Seats!Above(a, c) <=> xa * yc > xc * ya
  BY <1>1, <1>2, <1>3, Zenon DEF Seats!Above
<1>5. \A p, q \in Nat : p * q \in Nat
  OBVIOUS
<1>6. ~(xa * yb > xb * ya /\ xb * ya > xa * yb)
  BY <1>5
<1>7. ASSUME ~(xa * yb > xb * ya), ~(xb * yc > xc * yb) PROVE ~(xa * yc > xc * ya)
  <2>1. xa * yb <= xb * ya /\ xb * yc <= xc * yb
    BY <1>5, <1>7
  <2>2. xa * yb * yc <= xb * ya * yc /\ xb * yc * ya <= xc * yb * ya
    BY <1>5, <2>1, TimesKeeps
  <2>3. /\ xa * yb * yc = xa * yc * yb
        /\ xb * ya * yc = xb * yc * ya
        /\ xc * yb * ya = xc * ya * yb
    OBVIOUS
  <2>4. xa * yc * yb <= xc * ya * yb
    <3>1. PICK p \in Nat, q \in Nat, r \in Nat : p = xa * yc * yb /\ q = xb * yc * ya /\ r = xc * ya * yb
      BY <1>5
    <3>2. p <= q /\ q <= r
      BY <2>2, <2>3, <3>1
    <3> QED
      BY <3>1, <3>2
  <2>5. xa * yc <= xc * ya
    BY <1>2, <1>5, <2>4, TimesKeeps
  <2> QED
    BY <1>5, <2>5
<1> QED
  BY <1>4, <1>6, <1>7


\* The nodes an election knows: one entry for each.
Known == 1 .. Len(uptime)
NodesTyped ==
  /\ uptime \in Seq(Entry)
  /\ \A i, j \in Known : uptime[i].ip = uptime[j].ip => i = j

\* The sort is a strict total order, so ranks are places.
LEMMA RanksOfNodes ==
  ASSUME NodesTyped
  PROVE  /\ \A i \in Known : Seats!Rank(i) \in Known
         /\ \A i, j \in Known : Seats!Before(i, j) => Seats!Rank(i) < Seats!Rank(j)
         /\ \A n \in Known : \E i \in Known : Seats!Rank(i) = n
<1> DEFINE R == {p \in Known \X Known : Seats!Before(p[1], p[2])}
<1>1. PICK L \in Nat : L = Len(uptime)
  BY DEF NodesTyped
<1>2. IsFiniteSet(Known) /\ Cardinality(Known) = L
  <2>1. IsFiniteSet(1 .. L) /\ Cardinality(1 .. L) = IF 1 > L THEN 0 ELSE L - 1 + 1
    BY FS_Interval
  <2> QED
    BY <1>1, <2>1 DEF Known
<1>3. \A i \in Known : uptime[i] \in Entry /\ i \in Nat
  BY DEF NodesTyped, Known
<1>4. ASSUME NEW i \in Known, NEW j \in Known
      PROVE  <<i, j>> \in R <=> Seats!Before(i, j)
  OBVIOUS
<1>5. ASSUME NEW i \in Known PROVE ~Seats!Before(i, i)
  BY <1>3, AboveOrders DEF Seats!Before
<1>6. ASSUME NEW i \in Known, NEW j \in Known, NEW k \in Known, Seats!Before(i, j), Seats!Before(j, k)
      PROVE  Seats!Before(i, k)
  <2>1. PICK a \in Entry, b \in Entry, c \in Entry : a = uptime[i] /\ b = uptime[j] /\ c = uptime[k]
    BY <1>3
  <2>2. ~Seats!Above(b, a) /\ ~Seats!Above(c, b)
    BY <1>6, <2>1, AboveOrders DEF Seats!Before
  <2>3. ~Seats!Above(c, a)
    BY <2>2, AboveOrders
  <2>4. CASE Seats!Above(a, b)
    <3>1. ~Seats!Above(a, c) => FALSE
      BY <2>2, <2>4, AboveOrders
    <3> QED
      BY <2>1, <3>1 DEF Seats!Before
  <2>5. CASE Seats!Above(b, c)
    <3>1. ~Seats!Above(a, c) => FALSE
      BY <2>2, <2>5, AboveOrders
    <3> QED
      BY <2>1, <3>1 DEF Seats!Before
  <2>6. CASE ~Seats!Above(a, b) /\ ~Seats!Above(b, c)
    <3>1. i < j /\ j < k
      BY <1>6, <2>1, <2>6 DEF Seats!Before
    <3>2. i < k
      BY <1>3, <3>1
    <3> QED
      BY <2>1, <2>3, <3>2 DEF Seats!Before
  <2> QED
    BY <2>4, <2>5, <2>6
<1>7. ASSUME NEW i \in Known, NEW j \in Known, i # j PROVE Seats!Before(i, j) \/ Seats!Before(j, i)
  <2>1. i < j \/ j < i
    BY <1>3, <1>7
  <2> QED
    BY <2>1 DEF Seats!Before
<1>8. /\ \A x \in Known : <<x, x>> \notin R
      /\ \A x, y, z \in Known : <<x, y>> \in R /\ <<y, z>> \in R => <<x, z>> \in R
      /\ \A x, y \in Known : x # y => <<x, y>> \in R \/ <<y, x>> \in R
  BY <1>4, <1>5, <1>6, <1>7
<1>9. ASSUME NEW i \in Known
      PROVE  Seats!Rank(i) = 1 + Cardinality(Earlier(Known, R, i)) /\ Cardinality(Earlier(Known, R, i)) \in Nat
  <2>1. Earlier(Known, R, i) = {j \in 1 .. Len(uptime) : Seats!Before(j, i)}
    BY <1>4 DEF Earlier, Known
  <2>2. \A S : Seats!Cardinality(S) = Cardinality(S)
    BY DEF Seats!Cardinality, Cardinality, Seats!IsFiniteSet, IsFiniteSet
  <2>3. Earlier(Known, R, i) \in SUBSET Known
    BY DEF Earlier
  <2> QED
    BY <1>2, <2>1, <2>2, <2>3, FS_Subset, FS_CardinalityType DEF Seats!Rank
<1> HIDE DEF R
<1>10. /\ \A x \in Known : Cardinality(Earlier(Known, R, x)) \in 0 .. L - 1
       /\ \A x, y \in Known : <<x, y>> \in R => Cardinality(Earlier(Known, R, x)) < Cardinality(Earlier(Known, R, y))
       /\ \A n \in 0 .. L - 1 : \E x \in Known : Cardinality(Earlier(Known, R, x)) = n
  BY <1>2, <1>8, Ranks
<1>11. Known = 1 .. L
  BY <1>1 DEF Known
<1>12. ASSUME NEW i \in Known PROVE Seats!Rank(i) \in Known
  <2>1. PICK k \in 0 .. L - 1 : k = Cardinality(Earlier(Known, R, i))
    BY <1>10
  <2>2. 1 + k \in 1 .. L
    OBVIOUS
  <2> QED
    BY <1>9, <1>11, <2>1, <2>2
<1>13. ASSUME NEW i \in Known, NEW j \in Known, Seats!Before(i, j) PROVE Seats!Rank(i) < Seats!Rank(j)
  <2>1. PICK k \in Nat, l \in Nat : k = Cardinality(Earlier(Known, R, i)) /\ l = Cardinality(Earlier(Known, R, j))
    BY <1>9
  <2>2. k < l
    BY <1>4, <1>10, <1>13, <2>1
  <2>3. 1 + k < 1 + l
    BY <2>2
  <2> QED
    BY <1>9, <2>1, <2>3
<1>14. ASSUME NEW n \in Known PROVE \E i \in Known : Seats!Rank(i) = n
  <2>1. n - 1 \in 0 .. L - 1
    BY <1>11
  <2>2. PICK i \in Known : Cardinality(Earlier(Known, R, i)) = n - 1
    BY <1>10, <2>1
  <2>3. Seats!Rank(i) = 1 + (n - 1)
    BY <1>9, <2>2
  <2> QED
    BY <1>11, <2>3
<1> QED
  BY <1>12, <1>13, <1>14


\* An election seats the nodes of the first ranks, in their order.
LEMMA ElectedIs ==
  ASSUME NodesTyped
  PROVE  \E N \in Nat :
           /\ Len(Seats!Elected) = N
           /\ \A n \in 1 .. N : \E i \in Known : Seats!Rank(i) = n /\ Seats!Elected[n] = uptime[i].ip
           /\ \A i \in Known : Seats!Rank(i) <= N => Seats!Rank(i) \in 1 .. N /\ Seats!Elected[Seats!Rank(i)] = uptime[i].ip
<1>1. PICK L \in Nat : L = Len(uptime)
  BY DEF NodesTyped
<1>2. MaxSeats \in Nat /\ Known = 1 .. L
  BY <1>1, PulseAssumption DEF PulseAssumption, Known
<1>3. PICK N \in Nat : N = (IF L < MaxSeats THEN L ELSE MaxSeats) /\ N <= L
  BY <1>2
<1>4. Seats!Elected = [n \in 1 .. N |-> uptime[CHOOSE i \in Known : Seats!Rank(i) = n].ip]
  BY <1>1, <1>3, Zenon DEF Seats!Elected, Known
<1>5. Len(Seats!Elected) = N
  BY <1>4
<1>6. ASSUME NEW i \in Known, NEW j \in Known, Seats!Rank(i) = Seats!Rank(j) PROVE i = j
  <2>1. Seats!Rank(i) \in Nat /\ Seats!Rank(j) \in Nat
    <3>1. Known \in SUBSET Nat
      BY <1>2
    <3> QED
      BY <3>1, RanksOfNodes
  <2>2. ~Seats!Before(i, j) /\ ~Seats!Before(j, i)
    BY <1>6, <2>1, RanksOfNodes
  <2>3. i \in Nat /\ j \in Nat
    BY <1>2
  <2> QED
    BY <2>2, <2>3 DEF Seats!Before
<1>7. ASSUME NEW n \in 1 .. N
      PROVE  \E i \in Known : Seats!Rank(i) = n /\ Seats!Elected[n] = uptime[i].ip
  <2>1. n \in Known
    BY <1>2, <1>3
  <2>2. \E i \in Known : Seats!Rank(i) = n
    BY <2>1, RanksOfNodes
  <2>3. PICK i : i = CHOOSE j \in Known : Seats!Rank(j) = n
    OBVIOUS
  <2>4. i \in Known /\ Seats!Rank(i) = n
    BY <2>2, <2>3, Zenon
  <2>5. Seats!Elected[n] = uptime[i].ip
    BY <1>4, <2>3, Zenon
  <2> QED
    BY <2>4, <2>5
<1>8. ASSUME NEW i \in Known, Seats!Rank(i) <= N
      PROVE  Seats!Rank(i) \in 1 .. N /\ Seats!Elected[Seats!Rank(i)] = uptime[i].ip
  <2>1. Seats!Rank(i) \in 1 .. N
    <3>1. Seats!Rank(i) \in 1 .. L
      BY <1>2, RanksOfNodes
    <3> QED
      BY <1>8, <3>1
  <2>2. PICK j \in Known : Seats!Rank(j) = Seats!Rank(i) /\ Seats!Elected[Seats!Rank(i)] = uptime[j].ip
    BY <1>7, <2>1
  <2> QED
    BY <1>6, <2>1, <2>2
<1> QED
  BY <1>5, <1>7, <1>8

\* A longer run with no slower answers is above.
LEMMA LongerIsAbove ==
  ASSUME NEW a \in Entry, NEW b \in Entry, a.count < b.count, b.num * a.den <= a.num * b.den
  PROVE  Seats!Above(b, a)
<1>1. PICK ca \in Nat, na \in Nat, da \in Nat : ca = a.count /\ na = a.num /\ da = a.den /\ da > 0
  BY DEF Entry
<1>2. PICK cb \in Nat, nb \in Nat, db \in Nat : cb = b.count /\ nb = b.num /\ db = b.den /\ db > 0
  BY DEF Entry
<1>3. Seats!Above(b, a) <=> cb * db * (na + da) > ca * da * (nb + db)
  BY <1>1, <1>2, Zenon DEF Seats!Above
<1>4. ca < cb /\ nb * da <= na * db
  BY <1>1, <1>2
<1>5. \A p, q \in Nat : p * q \in Nat
  OBVIOUS
<1>6. PICK s \in Nat, t \in Nat, u \in Nat : s = na * db /\ t = nb * da /\ u = da * db
  BY <1>5
<1>7. u > 0
  <2>1. 0 * db < da * db
    BY <1>1, <1>2, TimesKeeps
  <2> QED
    BY <1>6, <2>1
<1>8. cb * db * (na + da) = (s + u) * cb /\ ca * da * (nb + db) = (t + u) * ca
  <2>1. cb * db * (na + da) = (na * db + da * db) * cb
    OBVIOUS
  <2>2. ca * da * (nb + db) = (nb * da + da * db) * ca
    OBVIOUS
  <2> QED
    BY <1>6, <2>1, <2>2
<1>9. PICK v \in Nat, w \in Nat : v = s + u /\ w = t + u /\ w <= v /\ v > 0
  BY <1>4, <1>6, <1>7
<1>10. w * ca <= v * ca
  BY <1>9, TimesKeeps
<1>11. ca * v < cb * v
  BY <1>4, <1>9, TimesKeeps
<1>12. v * ca = ca * v /\ v * cb = cb * v /\ v * ca \in Nat /\ v * cb \in Nat /\ w * ca \in Nat
  BY <1>5
<1>13. v * cb > w * ca
  BY <1>10, <1>11, <1>12
<1> QED
  BY <1>3, <1>8, <1>9, <1>13

\* electLeaders and forceElection.
LEMMA ElectStep ==
  ASSUME NodesTyped, NEW force, Seats!ElectLeaders(force)
  PROVE  Seats!SeatsTheBest'
<1>1. /\ currentLeaders' = Seats!Elected /\ uptime' = uptime
  BY DEF Seats!ElectLeaders
<1>2. PICK N \in Nat :
        /\ Len(Seats!Elected) = N
        /\ \A n \in 1 .. N : \E i \in Known : Seats!Rank(i) = n /\ Seats!Elected[n] = uptime[i].ip
        /\ \A i \in Known : Seats!Rank(i) <= N => Seats!Rank(i) \in 1 .. N /\ Seats!Elected[Seats!Rank(i)] = uptime[i].ip
  BY ElectedIs
<1>3. ASSUME NEW a \in 1 .. N, NEW b \in 1 .. N, a # b PROVE Seats!Elected[a] # Seats!Elected[b]
  BY <1>2, <1>3 DEF NodesTyped
<1>4. \A i \in Known : uptime[i] \in Entry /\ i \in Nat /\ Seats!Rank(i) \in Nat
  <2>1. Known \in SUBSET Nat
    BY DEF NodesTyped, Known
  <2> QED
    BY <2>1, RanksOfNodes DEF NodesTyped, Known
<1>5. ASSUME NEW i \in Known, NEW j \in Known,
             \E n \in 1 .. N : Seats!Elected[n] = uptime[i].ip, \A n \in 1 .. N : Seats!Elected[n] # uptime[j].ip
      PROVE  uptime[j].count <= uptime[i].count \/ uptime[j].num * uptime[i].den > uptime[i].num * uptime[j].den
  <2>1. Seats!Rank(i) \in 1 .. N
    BY <1>2, <1>5 DEF NodesTyped
  <2>2. ~(Seats!Rank(j) <= N)
    BY <1>2, <1>5
  <2>3. ~Seats!Before(j, i)
    BY <1>4, <2>1, <2>2, RanksOfNodes
  <2>4. ~Seats!Above(uptime[j], uptime[i])
    BY <2>3 DEF Seats!Before
  <2>5. PICK a \in Entry, b \in Entry : a = uptime[i] /\ b = uptime[j]
    BY <1>4
  <2>6. ~(a.count < b.count /\ b.num * a.den <= a.num * b.den)
    BY <2>4, <2>5, LongerIsAbove
  <2>7. PICK p \in Nat, q \in Nat, s \in Nat, t \in Nat :
          p = a.count /\ q = b.count /\ s = b.num * a.den /\ t = a.num * b.den
    <3>1. \A x, y \in Nat : x * y \in Nat
      OBVIOUS
    <3>2. a.count \in Nat /\ b.count \in Nat /\ a.num \in Nat /\ a.den \in Nat /\ b.num \in Nat /\ b.den \in Nat
      BY DEF Entry
    <3> QED
      BY <3>1, <3>2
  <2>8. q <= p \/ s > t
    BY <2>6, <2>7
  <2> QED
    BY <2>5, <2>7, <2>8
<1> QED
  BY <1>1, <1>2, <1>3, <1>5, Zenon DEF Seats!SeatsTheBest, Known


\* The pulses of a node in the record g, its last run without a gap beyond the timeout, and the time that
\* the responses of a run took together.
Mine(g, ip) == {i \in 1 .. Len(g) : g[i][1] = ip}
Succeeds(g, ip, i, j) == i < j /\ \A k \in Mine(g, ip) : ~(i < k /\ k < j)
Run(g, ip) ==
  {i \in Mine(g, ip) : \A j, k \in Mine(g, ip) : i <= j /\ Succeeds(g, ip, j, k) => g[k][2] - g[j][2] <= Timeout}
Ticks(g, R) == UNION {{i} \X (1 .. g[i][3]) : i \in R}

\* An element more leaves those before it in their places.
LEMMA AppendKeeps ==
  ASSUME NEW S, NEW g \in Seq(S), NEW e \in S
  PROVE  /\ Append(g, e) \in Seq(S) /\ Len(g) \in Nat /\ Len(Append(g, e)) = Len(g) + 1
         /\ Append(g, e)[Len(g) + 1] = e
         /\ \A i \in 1 .. Len(g) : Append(g, e)[i] = g[i] /\ g[i] \in S
OBVIOUS

\* The record h is the record g and one pulse.
Pulsed(g, ip, t, r, h) ==
  /\ g \in Seq(Ip \X Nat \X Response) /\ ip \in Ip /\ t \in Nat /\ r \in Response
  /\ h = Append(g, <<ip, t, r>>)

\* One pulse more leaves those of other nodes, and those before it in their places.
LEMMA PulseIs ==
  ASSUME NEW g, NEW ip, NEW t, NEW r, NEW h, Pulsed(g, ip, t, r, h)
  PROVE  /\ h \in Seq(Ip \X Nat \X Response) /\ Len(g) \in Nat /\ Len(h) = Len(g) + 1
         /\ h[Len(g) + 1] = <<ip, t, r>>
         /\ \A i \in 1 .. Len(g) : h[i] = g[i] /\ g[i] \in Ip \X Nat \X Response
         /\ Mine(h, ip) = Mine(g, ip) \cup {Len(g) + 1}
         /\ \A o \in Ip : o # ip => Mine(h, o) = Mine(g, o) /\ Run(h, o) = Run(g, o)
<1>1. /\ h \in Seq(Ip \X Nat \X Response) /\ Len(g) \in Nat /\ Len(h) = Len(g) + 1
      /\ h[Len(g) + 1] = <<ip, t, r>>
      /\ \A i \in 1 .. Len(g) : h[i] = g[i] /\ g[i] \in Ip \X Nat \X Response
  <2>1. <<ip, t, r>> \in Ip \X Nat \X Response /\ g \in Seq(Ip \X Nat \X Response) /\ h = Append(g, <<ip, t, r>>)
    BY DEF Pulsed
  <2> QED
    BY <2>1, AppendKeeps
<1>2. 1 .. Len(h) = 1 .. Len(g) \cup {Len(g) + 1}
  BY <1>1
<1>3. Mine(h, ip) = Mine(g, ip) \cup {Len(g) + 1}
  BY <1>1, <1>2 DEF Mine
<1>4. ASSUME NEW o \in Ip, o # ip PROVE Mine(h, o) = Mine(g, o) /\ Run(h, o) = Run(g, o)
  <2>1. Mine(h, o) = Mine(g, o)
    BY <1>1, <1>2, <1>4 DEF Mine
  <2>2. \A i \in Mine(g, o) : h[i] = g[i]
    BY <1>1 DEF Mine
  <2>3. \A i, j : Succeeds(h, o, i, j) <=> Succeeds(g, o, i, j)
    BY <2>1 DEF Succeeds
  <2> QED
    BY <2>1, <2>2, <2>3 DEF Run
<1> QED
  BY <1>1, <1>3, <1>4

\* A pulse within the timeout of the one before continues the run; one that comes later, or is the first,
\* starts another.
LEMMA RunAfter ==
  ASSUME NEW g, NEW h, NEW ip, NEW q \in Nat, NEW t \in Nat,
         Mine(h, ip) = Mine(g, ip) \cup {q}, h[q][2] = t,
         \A i \in Mine(g, ip) : i \in Nat /\ i < q /\ h[i] = g[i] /\ g[i][2] \in Nat
  PROVE  /\ Mine(g, ip) = {} => Run(h, ip) = {q}
         /\ \A p \in Mine(g, ip) : (\A k \in Mine(g, ip) : k <= p) =>
              /\ t - g[p][2] > Timeout => Run(h, ip) = {q}
              /\ t - g[p][2] <= Timeout => Run(h, ip) = Run(g, ip) \cup {q}
<1>1. Mine(h, ip) = Mine(g, ip) \cup {q} /\ h[q][2] = t
  OBVIOUS
<1>2. \A i \in Mine(g, ip) : i \in Nat /\ i < q /\ h[i] = g[i] /\ g[i][2] \in Nat
  OBVIOUS
<1>3. \A i \in Mine(h, ip) : i \in Nat /\ i <= q
  OBVIOUS
<1>4. q \in Run(h, ip)
  <2>1. ASSUME NEW j \in Mine(h, ip), NEW k \in Mine(h, ip), q <= j, j < k PROVE FALSE
    BY <1>3, <2>1
  <2> QED
    BY <1>1, <2>1 DEF Run, Succeeds
<1>5. Mine(g, ip) = {} => Run(h, ip) = {q}
  BY <1>1, <1>4 DEF Run
<1>6. ASSUME NEW p \in Mine(g, ip), \A k \in Mine(g, ip) : k <= p, t - g[p][2] > Timeout PROVE Run(h, ip) = {q}
  <2>1. Succeeds(h, ip, p, q)
    BY <1>1, <1>2, <1>6 DEF Succeeds
  <2>2. ASSUME NEW i \in Run(h, ip), i # q PROVE FALSE
    <3>1. i \in Mine(g, ip)
      BY <1>1, <2>2 DEF Run
    <3>2. i <= p
      BY <1>6, <3>1
    <3>3. h[q][2] - h[p][2] <= Timeout
      BY <1>1, <2>1, <2>2, <3>2 DEF Run
    <3>4. PICK s \in Nat : s = g[p][2] /\ h[p][2] = s
      BY <1>2
    <3>5. t - s <= Timeout /\ t - s > Timeout
      BY <1>2, <1>6, <3>3, <3>4
    <3> QED
      BY <3>5, PulseAssumption DEF PulseAssumption
  <2> QED
    BY <1>4, <2>2
<1>7. ASSUME NEW p \in Mine(g, ip), \A k \in Mine(g, ip) : k <= p, t - g[p][2] <= Timeout
      PROVE  Run(h, ip) = Run(g, ip) \cup {q}
  <2>1. ASSUME NEW i \in Run(h, ip), i # q PROVE i \in Run(g, ip)
    <3>1. i \in Mine(g, ip)
      BY <1>1, <2>1 DEF Run
    <3>2. ASSUME NEW j \in Mine(g, ip), NEW k \in Mine(g, ip), i <= j, Succeeds(g, ip, j, k)
          PROVE  g[k][2] - g[j][2] <= Timeout
      <4>1. ~(q < k)
        BY <1>2
      <4>2. Succeeds(h, ip, j, k)
        BY <1>1, <3>2, <4>1 DEF Succeeds
      <4>3. h[k][2] - h[j][2] <= Timeout
        BY <1>1, <2>1, <3>2, <4>2 DEF Run
      <4> QED
        BY <1>2, <4>3
    <3> QED
      BY <3>1, <3>2 DEF Run
  <2>2. ASSUME NEW i \in Run(g, ip) PROVE i \in Run(h, ip)
    <3>1. i \in Mine(g, ip) /\ i \in Mine(h, ip)
      BY <1>1 DEF Run
    <3>2. ASSUME NEW j \in Mine(h, ip), NEW k \in Mine(h, ip), i <= j, Succeeds(h, ip, j, k)
          PROVE  h[k][2] - h[j][2] <= Timeout
      <4>1. j < k
        BY <3>2 DEF Succeeds
      <4>2. j \in Mine(g, ip)
        <5>1. j # q
          BY <1>2, <4>1
        <5> QED
          BY <1>1, <5>1
      <4>3. CASE k = q
        <5>1. j <= p /\ ~(j < p /\ p < q)
          BY <1>1, <1>7, <3>2, <4>2, <4>3 DEF Succeeds
        <5>2. j = p
          BY <1>2, <4>2, <5>1
        <5> QED
          BY <1>2, <1>7, <4>3, <5>2
      <4>4. CASE k # q
        <5>1. k \in Mine(g, ip)
          BY <1>1, <4>4
        <5>2. Succeeds(g, ip, j, k)
          BY <1>1, <3>2 DEF Succeeds
        <5>3. g[k][2] - g[j][2] <= Timeout
          BY <3>2, <4>2, <5>1, <5>2 DEF Run
        <5> QED
          BY <1>2, <4>2, <5>1, <5>3
      <4> QED
        BY <4>3, <4>4
    <3> QED
      BY <3>1, <3>2 DEF Run
  <2> QED
    BY <1>4, <2>1, <2>2
<1> QED
  BY <1>5, <1>6, <1>7


\* The run Q of the record h is the run R of the record g and a response of n at q.
Longer(g, R, h, Q, q, n) ==
  /\ IsFiniteSet(R) /\ q \notin R /\ Q = R \cup {q}
  /\ \A i \in R : h[i][3] = g[i][3] /\ g[i][3] \in Nat
  /\ n \in Nat /\ h[q][3] = n

\* The time that a run took together is the sum of its responses, added one by one.
LEMMA TicksAdd ==
  ASSUME NEW g, NEW R, NEW h, NEW Q, NEW q, NEW n, Longer(g, R, h, Q, q, n)
  PROVE  Cardinality(Ticks(g, R)) \in Nat /\ Cardinality(Ticks(h, Q)) = Cardinality(Ticks(g, R)) + n
<1> USE DEF Longer
<1> DEFINE row == [i \in R |-> {i} \X (1 .. g[i][3])]
           rows == {{i} \X (1 .. g[i][3]) : i \in R}
<1>1. row \in Surjection(R, rows)
  BY DEF Surjection
<1>2. IsFiniteSet(rows)
  <2> HIDE DEF row, rows
  <2> QED
    BY <1>1, FS_Surjection
<1>3. \A T \in rows : IsFiniteSet(T)
  <2> TAKE T \in rows
  <2>1. PICK i \in R : T = {i} \X (1 .. g[i][3])
    OBVIOUS
  <2>2. PICK k \in Nat : k = g[i][3]
    OBVIOUS
  <2>3. IsFiniteSet({i}) /\ IsFiniteSet(1 .. k)
    <3>1. 1 \in Int /\ k \in Int
      OBVIOUS
    <3> QED
      BY <3>1, FS_Singleton, FS_Interval
  <2>4. IsFiniteSet({i} \X (1 .. k))
    BY <2>3, FS_Product
  <2> QED
    BY <2>1, <2>2, <2>4
<1>4. IsFiniteSet(Ticks(g, R)) /\ Cardinality(Ticks(g, R)) \in Nat
  BY <1>2, <1>3, FS_UNION, FS_CardinalityType DEF Ticks
<1>5. Cardinality(Ticks(h, Q)) = Cardinality(Ticks(g, R)) + n
  <2>1. PICK A, B : A = Ticks(g, R) /\ B = {q} \X (1 .. n)
    OBVIOUS
  <2>2. Ticks(h, Q) = A \cup B
    <3>1. Ticks(h, Q) = Ticks(h, R) \cup ({q} \X (1 .. h[q][3]))
      BY DEF Ticks
    <3>2. Ticks(h, R) = Ticks(g, R)
      BY DEF Ticks
    <3> QED
      BY <2>1, <3>1, <3>2
  <2>3. A \cap B = {}
    BY <2>1 DEF Ticks
  <2>4. IsFiniteSet(1 .. n) /\ Cardinality(1 .. n) = n
    <3>1. IsFiniteSet(1 .. n) /\ Cardinality(1 .. n) = IF 1 > n THEN 0 ELSE n - 1 + 1
      BY FS_Interval
    <3> QED
      BY <3>1
  <2>5. IsFiniteSet({q}) /\ Cardinality({q}) = 1
    BY FS_Singleton
  <2>6. IsFiniteSet(B) /\ Cardinality(B) = Cardinality({q}) * Cardinality(1 .. n)
    BY <2>1, <2>4, <2>5, FS_Product
  <2>7. Cardinality(B) = n
    BY <2>4, <2>5, <2>6
  <2>8. IsFiniteSet(A) /\ Cardinality(A) \in Nat
    BY <1>4, <2>1
  <2>9. Cardinality(A \cup B) = Cardinality(A) + Cardinality(B) - Cardinality({})
    BY <2>3, <2>6, <2>8, FS_Union
  <2>10. Cardinality({}) = 0
    BY FS_EmptySet
  <2>11. PICK m \in Nat : m = Cardinality(A)
    BY <2>8
  <2>12. Cardinality(A \cup B) = m + n
    BY <2>7, <2>9, <2>10, <2>11
  <2> QED
    BY <2>1, <2>2, <2>11, <2>12
<1> QED
  BY <1>4, <1>5

\* What the property says, of the record.
LEMMA RunsOf ==
  /\ \A ip : Seats!LastRun(ip) = Run(pulses, ip)
  /\ \A R : Seats!Total(R) = Cardinality(Ticks(pulses, R))
  /\ \A R : Seats!Cardinality(R) = Cardinality(R)
<1>1. \A R : Seats!Cardinality(R) = Cardinality(R)
  BY DEF Seats!Cardinality, Cardinality, Seats!IsFiniteSet, IsFiniteSet
<1>2. ASSUME NEW R PROVE Seats!Total(R) = Cardinality(Ticks(pulses, R))
  BY <1>1 DEF Seats!Total, Ticks
<1>3. ASSUME NEW ip PROVE Seats!LastRun(ip) = Run(pulses, ip)
  BY DEF Seats!LastRun, Seats!Of, Seats!Follows, Run, Mine, Succeeds
<1> QED
  BY <1>1, <1>2, <1>3

\* What is kept of a node: when its last pulse came, its last run, and the mean over it.
KeptOf(g, e) ==
  /\ \E p \in Mine(g, e.ip) : g[p][2] = e.at /\ \A k \in Mine(g, e.ip) : k <= p
  /\ e.count = Cardinality(Run(g, e.ip))
  /\ (\A j \in Run(g, e.ip) : g[j][3] # Unmeasured) =>
       e.num * Cardinality(Run(g, e.ip)) = Cardinality(Ticks(g, Run(g, e.ip))) * e.den

PulsesTyped ==
  /\ electionNow \in Nat /\ pulses \in Seq(Ip \X Nat \X Response)
  /\ electedAt \in Nat /\ electedAt <= Len(pulses)

ElectInv ==
  /\ PulsesTyped /\ NodesTyped
  /\ \A p \in 1 .. Len(pulses) : \E i \in Known : uptime[i].ip = pulses[p][1]
  /\ \A i \in Known : KeptOf(pulses, uptime[i])
  /\ Seats!SeatsTheBest

LEMMA ElectFollows == ElectInv => Seats!ElectionSound
<1> SUFFICES ASSUME ElectInv PROVE Seats!ElectionSound
  OBVIOUS
<1>1. ASSUME NEW i \in Known
      PROVE  /\ uptime[i].count = Seats!Cardinality(Seats!LastRun(uptime[i].ip))
             /\ (\A j \in Seats!LastRun(uptime[i].ip) : pulses[j][3] # Unmeasured) =>
                  uptime[i].num * Seats!Cardinality(Seats!LastRun(uptime[i].ip))
                    = Seats!Total(Seats!LastRun(uptime[i].ip)) * uptime[i].den
  <2>1. KeptOf(pulses, uptime[i])
    BY DEF ElectInv
  <2> QED
    BY <2>1, RunsOf, Zenon DEF KeptOf
<1>2. Seats!KeepsLastRun
  BY <1>1, Zenon DEF Seats!KeepsLastRun, Known
<1> QED
  BY <1>2 DEF Seats!ElectionSound, ElectInv

LEMMA ElectStart == Seats!Init => ElectInv
<1> SUFFICES ASSUME Seats!Init PROVE ElectInv
  OBVIOUS
<1>1. electionNow = 0 /\ uptime = <<>> /\ currentLeaders = <<>> /\ pulses = <<>> /\ electedAt = 0
  BY DEF Seats!Init
<1>2. Known = {} /\ 1 .. Len(pulses) = {} /\ Len(pulses) = 0
  BY <1>1 DEF Known
<1>3. PulsesTyped /\ NodesTyped
  BY <1>1, <1>2 DEF PulsesTyped, NodesTyped
<1>4. Seats!SeatsTheBest
  BY <1>1 DEF Seats!SeatsTheBest
<1> QED
  BY <1>2, <1>3, <1>4 DEF ElectInv


\* A pulse of another node changes nothing of what is kept.
LEMMA KeptElsewhere ==
  ASSUME NEW g, NEW h, NEW e, KeptOf(g, e), Mine(h, e.ip) = Mine(g, e.ip), Run(h, e.ip) = Run(g, e.ip),
         \A i \in Mine(g, e.ip) : h[i] = g[i]
  PROVE  KeptOf(h, e)
<1>1. Run(g, e.ip) \subseteq Mine(g, e.ip)
  BY DEF Run
<1>2. Ticks(h, Run(h, e.ip)) = Ticks(g, Run(g, e.ip))
  BY <1>1 DEF Ticks
<1> QED
  BY <1>1, <1>2, Zenon DEF KeptOf

\* A run that starts.
LEMMA KeptFresh ==
  ASSUME NEW h, NEW q \in Nat, NEW ip, NEW t, NEW r \in Response,
         h[q] = <<ip, t, r>>, q \in Mine(h, ip), \A i \in Mine(h, ip) : i <= q, Run(h, ip) = {q},
         NEW e, e.ip = ip, e.at = t, e.count = 1, e.den = 1, r # Unmeasured => e.num = r
  PROVE  KeptOf(h, e)
<1>1. Cardinality({q}) = 1 /\ IsFiniteSet({}) /\ Cardinality({}) = 0
  BY FS_Singleton, FS_EmptySet
<1>2. ASSUME r # Unmeasured PROVE e.num * Cardinality({q}) = Cardinality(Ticks(h, {q})) * e.den
  <2>1. PICK n \in Nat : n = r
    BY <1>2, PulseAssumption DEF PulseAssumption
  <2>2. h[q][3] = n
    BY <2>1
  <2>3. PICK Z : Z = {}
    OBVIOUS
  <2>4. Longer(h, Z, h, {q}, q, n)
    BY <1>1, <2>2, <2>3 DEF Longer
  <2>5. Cardinality(Ticks(h, {q})) = Cardinality(Ticks(h, Z)) + n
    BY <2>4, TicksAdd
  <2>6. Ticks(h, Z) = {}
    BY <2>3 DEF Ticks
  <2>7. Cardinality(Ticks(h, {q})) = n
    BY <1>1, <2>2, <2>5, <2>6
  <2>8. n * 1 = n
    OBVIOUS
  <2> QED
    BY <1>1, <1>2, <2>1, <2>7, <2>8
<1>3. h[q][2] = t /\ h[q][3] = r
  OBVIOUS
<1>4. (\A j \in {q} : h[j][3] # Unmeasured) => r # Unmeasured
  BY <1>3
<1> QED
  BY <1>1, <1>2, <1>3, <1>4 DEF KeptOf

\* The pulse at q goes on with the run of e.
GoesOn(g, h, q, ip, t, r, e) ==
  /\ q \in Nat /\ r \in Response /\ e \in Entry /\ e.ip = ip /\ KeptOf(g, e)
  /\ h[q] = <<ip, t, r>> /\ q \in Mine(h, ip) /\ \A i \in Mine(h, ip) : i <= q
  /\ Run(h, ip) = Run(g, ip) \cup {q} /\ q \notin Run(g, ip) /\ IsFiniteSet(Run(g, ip))
  /\ \A i \in Run(g, ip) : h[i] = g[i] /\ g[i][3] \in Response

\* A run that goes on, and its mean.
LEMMA KeptLonger ==
  ASSUME NEW g, NEW h, NEW q, NEW ip, NEW t, NEW r, NEW e, GoesOn(g, h, q, ip, t, r, e)
  PROVE  \A f : /\ f.ip = ip /\ f.at = t /\ f.count = e.count + 1
                /\ r # Unmeasured => f.num = e.num * e.count + r * e.den /\ f.den = e.den * (e.count + 1)
                => KeptOf(h, f)
<1> USE DEF GoesOn
<1> DEFINE R == Run(g, ip)
<1>1. PICK c \in Nat, m \in Nat, d \in Nat : c = e.count /\ m = e.num /\ d = e.den
  BY DEF Entry
<1>2. Cardinality(R) = c
  BY <1>1 DEF KeptOf
<1>3. Cardinality(R \cup {q}) = c + 1
  BY <1>2, FS_AddElement
<1>4. ASSUME r # Unmeasured, \A j \in R : h[j][3] # Unmeasured
      PROVE  (e.num * e.count + r * e.den) * Cardinality(R \cup {q})
               = Cardinality(Ticks(h, R \cup {q})) * (e.den * (e.count + 1))
  <2>1. \A j \in R : g[j][3] # Unmeasured /\ g[j][3] \in Nat /\ h[j] = g[j]
    BY <1>4, PulseAssumption DEF PulseAssumption
  <2>2. PICK n \in Nat : n = r /\ h[q][3] = n
    BY <1>4, PulseAssumption DEF PulseAssumption
  <2>3. PICK s \in Nat : s = Cardinality(Ticks(g, R)) /\ Cardinality(Ticks(h, R \cup {q})) = s + n
    <3>1. Cardinality(Ticks(g, R)) \in Nat /\ Cardinality(Ticks(h, R \cup {q})) = Cardinality(Ticks(g, R)) + n
      <4>1. Longer(g, R, h, R \cup {q}, q, n)
        BY <2>1, <2>2 DEF Longer
      <4> HIDE DEF R
      <4> QED
        BY <4>1, TicksAdd
    <3> QED
      BY <3>1
  <2>4. m * c = s * d
    <3>1. e.num * Cardinality(R) = Cardinality(Ticks(g, R)) * e.den
      BY <2>1 DEF KeptOf
    <3> QED
      BY <1>1, <1>2, <2>3, <3>1
  <2>5. (m * c + n * d) * (c + 1) = (s + n) * (d * (c + 1))
    <3>1. m * c + n * d = (s + n) * d
      BY <2>4
    <3>2. PICK k \in Nat : k = s + n
      OBVIOUS
    <3>3. k * d * (c + 1) = k * (d * (c + 1))
      OBVIOUS
    <3> QED
      BY <3>1, <3>2, <3>3
  <2> QED
    BY <1>1, <1>3, <2>2, <2>3, <2>5
<1>5. h[q][2] = t /\ h[q][3] = r
  OBVIOUS
<1>6. (\A j \in R \cup {q} : h[j][3] # Unmeasured) => r # Unmeasured /\ \A j \in R : h[j][3] # Unmeasured
  BY <1>5
<1>7. Run(h, ip) = R \cup {q} /\ e.count + 1 = Cardinality(R \cup {q})
  BY <1>1, <1>3
<1> HIDE DEF R
<1> QED
  BY <1>4, <1>5, <1>6, <1>7, Zenon DEF KeptOf


\* What recordPulse makes of the entry of a node that it knows.
LEMMA AveragedIs ==
  ASSUME NEW e \in Entry, NEW r \in Response, electionNow \in Nat
  PROVE  LET f == Seats!Averaged(e, r)
         IN  /\ f \in Entry /\ f.ip = e.ip /\ f.at = electionNow /\ f.count = e.count + 1
             /\ r # Unmeasured => f.num = e.num * e.count + r * e.den /\ f.den = e.den * (e.count + 1)
<1>1. PICK k \in Nat, m \in Nat, d \in Nat : k = e.count /\ m = e.num /\ d = e.den /\ k > 0 /\ d > 0
  BY DEF Entry
<1>2. k + 1 \in Nat \ {0} /\ k + 1 - 1 = k
  BY <1>1
<1>3. e.ip \in Ip /\ e = [ip |-> e.ip, at |-> e.at, count |-> e.count, num |-> e.num, den |-> e.den]
  BY DEF Entry
<1>4. CASE r = Unmeasured
  <2>1. Seats!Averaged(e, r) = [e EXCEPT !.count = k + 1, !.at = electionNow]
    BY <1>1, <1>4 DEF Seats!Averaged
  <2>2. Seats!Averaged(e, r) = [ip |-> e.ip, at |-> electionNow, count |-> k + 1, num |-> m, den |-> d]
    BY <1>1, <1>3, <2>1
  <2> QED
    BY <1>1, <1>2, <1>3, <1>4, <2>2 DEF Entry
<1>5. CASE r # Unmeasured
  <2>1. PICK n \in Nat : n = r
    BY <1>5, PulseAssumption DEF PulseAssumption
  <2>2. Seats!Averaged(e, r) =
          [ip |-> e.ip, at |-> electionNow, count |-> e.count + 1,
           num |-> e.num * e.count + r * e.den, den |-> e.den * (e.count + 1)]
    BY <1>5 DEF Seats!Averaged
  <2>3. PICK x \in Nat, y \in Nat : x = m * k + n * d /\ y = d * (k + 1) /\ y > 0
    <3>1. \A i, j \in Nat : i * j \in Nat
      OBVIOUS
    <3>2. 0 * (k + 1) < d * (k + 1)
      BY <1>1, <1>2, TimesKeeps
    <3> QED
      BY <1>2, <3>1, <3>2
  <2>4. Seats!Averaged(e, r) = [ip |-> e.ip, at |-> electionNow, count |-> k + 1, num |-> x, den |-> y]
    BY <1>1, <1>2, <2>1, <2>2, <2>3
  <2>5. Seats!Averaged(e, r) \in Entry
    BY <1>2, <1>3, <2>3, <2>4 DEF Entry
  <2> QED
    BY <1>1, <2>1, <2>3, <2>4, <2>5
<1> QED
  BY <1>4, <1>5

LEMMA FreshIs ==
  ASSUME NEW ip \in Ip, NEW r \in Response, electionNow \in Nat
  PROVE  LET f == Seats!Fresh(ip, r)
         IN  /\ f \in Entry /\ f.ip = ip /\ f.at = electionNow /\ f.count = 1 /\ f.den = 1
             /\ r # Unmeasured => f.num = r
BY PulseAssumption DEF PulseAssumption, Seats!Fresh, Entry

\* recordPulse.
LEMMA PulseStep ==
  ASSUME ElectInv, NEW ip \in Ip, NEW r \in Response, Seats!RecordPulse(ip, r)
  PROVE  ElectInv'
<1>0. PICK g, h : g = pulses /\ h = pulses'
  OBVIOUS
<1> DEFINE q == Len(g) + 1
           t == electionNow
<1>1. /\ electionNow \in Nat /\ g \in Seq(Ip \X Nat \X Response) /\ electedAt \in Nat /\ electedAt <= Len(g)
      /\ h = Append(g, <<ip, electionNow, r>>)
      /\ electionNow' = electionNow /\ currentLeaders' = currentLeaders /\ electedAt' = electedAt
  BY <1>0 DEF ElectInv, PulsesTyped, Seats!RecordPulse
<1>2. /\ h \in Seq(Ip \X Nat \X Response) /\ Len(g) \in Nat /\ Len(h) = Len(g) + 1
      /\ h[Len(g) + 1] = <<ip, electionNow, r>>
      /\ \A i \in 1 .. Len(g) : h[i] = g[i] /\ g[i] \in Ip \X Nat \X Response
      /\ Mine(h, ip) = Mine(g, ip) \cup {Len(g) + 1}
      /\ \A o \in Ip : o # ip => Mine(h, o) = Mine(g, o) /\ Run(h, o) = Run(g, o)
  <2>1. Pulsed(g, ip, electionNow, r, h)
    BY <1>1 DEF Pulsed
  <2> QED
    BY <2>1, PulseIs
<1>3. PulsesTyped'
  BY <1>0, <1>1, <1>2 DEF PulsesTyped
<1>4. Seats!SeatsTheBest'
  <2>1. electedAt' # Len(pulses')
    BY <1>0, <1>1, <1>2
  <2>2. \A a, b \in 1 .. Len(currentLeaders) : a # b => currentLeaders[a] # currentLeaders[b]
    BY DEF ElectInv, Seats!SeatsTheBest
  <2> QED
    BY <1>1, <2>1, <2>2 DEF Seats!SeatsTheBest
<1>5. /\ q \in Nat /\ h[q] = <<ip, t, r>> /\ h[q][2] = t /\ q \in Mine(h, ip)
      /\ Mine(h, ip) = Mine(g, ip) \cup {q}
      /\ \A i \in Mine(g, ip) : i \in Nat /\ i < q /\ h[i] = g[i] /\ g[i][2] \in Nat /\ g[i][3] \in Response
      /\ \A i \in Mine(h, ip) : i <= q
  <2>1. \A i \in Mine(g, ip) : i \in 1 .. Len(g)
    BY DEF Mine
  <2>2. \A i \in Mine(g, ip) : i \in Nat /\ i < q
    BY <1>2, <2>1
  <2>3. q \in Nat /\ h[q] = <<ip, t, r>> /\ h[q][2] = t
    BY <1>2
  <2>4. \A i \in Mine(g, ip) : h[i] = g[i] /\ g[i][2] \in Nat /\ g[i][3] \in Response
    BY <1>2, <2>1
  <2> HIDE DEF t
  <2>5. Mine(h, ip) = Mine(g, ip) \cup {q}
    BY <1>2, Zenon
  <2> HIDE DEF q
  <2>6. q \in Mine(h, ip) /\ \A i \in Mine(h, ip) : i <= q
    BY <2>2, <2>3, <2>5
  <2> QED
    BY <2>2, <2>3, <2>4, <2>5, <2>6
<1>6. /\ Mine(g, ip) = {} => Run(h, ip) = {q}
      /\ \A p \in Mine(g, ip) : (\A k \in Mine(g, ip) : k <= p) =>
           /\ t - g[p][2] > Timeout => Run(h, ip) = {q}
           /\ t - g[p][2] <= Timeout => Run(h, ip) = Run(g, ip) \cup {q}
  <2>1. q \in Nat /\ t \in Nat
    BY <1>1, <1>5
  <2>2. Mine(h, ip) = Mine(g, ip) \cup {q} /\ h[q][2] = t
    BY <1>5
  <2>3. \A i \in Mine(g, ip) : i \in Nat /\ i < q /\ h[i] = g[i] /\ g[i][2] \in Nat
    BY <1>5
  <2> HIDE DEF q, t
  <2> QED
    BY <2>1, <2>2, <2>3, RunAfter
<1>7. /\ IsFiniteSet(Run(g, ip)) /\ q \notin Run(g, ip)
      /\ \A i \in Run(g, ip) : h[i] = g[i] /\ g[i][3] \in Response
  <2>1. Run(g, ip) \in SUBSET Mine(g, ip) /\ Mine(g, ip) \in SUBSET (1 .. Len(g))
    BY DEF Run, Mine
  <2>2. IsFiniteSet(1 .. Len(g))
    BY <1>2, FS_Interval
  <2>3. IsFiniteSet(Run(g, ip))
    BY <2>1, <2>2, FS_Subset
  <2>4. q \notin Mine(g, ip)
    BY <1>5
  <2> QED
    BY <1>5, <2>1, <2>3, <2>4
<1>8. /\ uptime \in Seq(Entry) /\ \A i, j \in Known : uptime[i].ip = uptime[j].ip => i = j
      /\ \A i \in Known : uptime[i] \in Entry /\ KeptOf(g, uptime[i]) /\ uptime[i].ip \in Ip
      /\ \A p \in 1 .. Len(g) : \E i \in Known : uptime[i].ip = g[p][1]
  <2>1. /\ uptime \in Seq(Entry) /\ \A i, j \in Known : uptime[i].ip = uptime[j].ip => i = j
        /\ \A i \in Known : KeptOf(g, uptime[i])
        /\ \A p \in 1 .. Len(g) : \E i \in Known : uptime[i].ip = g[p][1]
    BY <1>0, Zenon DEF ElectInv, NodesTyped
  <2>2. \A i \in Known : uptime[i] \in Entry
    BY <2>1 DEF Known
  <2>3. \A e \in Entry : e.ip \in Ip
    BY DEF Entry
  <2> QED
    BY <2>1, <2>2, <2>3
<1>9. ASSUME NEW i \in Known, uptime[i].ip # ip PROVE KeptOf(h, uptime[i])
  <2>1. PICK e : e = uptime[i]
    OBVIOUS
  <2>2. KeptOf(g, e) /\ Mine(h, e.ip) = Mine(g, e.ip) /\ Run(h, e.ip) = Run(g, e.ip)
    BY <1>2, <1>8, <1>9, <2>1
  <2>3. \A j \in Mine(g, e.ip) : h[j] = g[j]
    BY <1>2 DEF Mine
  <2> QED
    BY <2>1, <2>2, <2>3, KeptElsewhere
<1>10. PICK f : f = Seats!Fresh(ip, r)
  OBVIOUS
<1>11. /\ f \in Entry /\ f.ip = ip /\ f.at = t /\ f.count = 1 /\ f.den = 1
       /\ r # Unmeasured => f.num = r
  BY <1>1, <1>10, FreshIs
<1>12. Run(h, ip) = {q} => KeptOf(h, f)
  <2> HIDE DEF q, t
  <2> QED
    BY <1>5, <1>11, KeptFresh
<1>13. ASSUME NEW U, U = uptime', U \in Seq(Entry),
              \A i, j \in 1 .. Len(U) : U[i].ip = U[j].ip => i = j,
              \A o \in Ip : (\E i \in Known : uptime[i].ip = o) \/ o = ip => \E i \in 1 .. Len(U) : U[i].ip = o,
              \A i \in 1 .. Len(U) : KeptOf(h, U[i])
       PROVE  ElectInv'
  <2>1. Known' = 1 .. Len(U)
    BY <1>13 DEF Known
  <2>2. NodesTyped'
    BY <1>13, <2>1 DEF NodesTyped
  <2>3. ASSUME NEW p \in 1 .. Len(h) PROVE \E i \in Known' : U[i].ip = h[p][1]
    <3>1. CASE p = q
      BY <1>5, <1>13, <2>1, <3>1
    <3>2. CASE p # q
      <4>1. p \in 1 .. Len(g)
        BY <1>2, <3>2
      <4>2. h[p] = g[p] /\ g[p][1] \in Ip
        BY <1>2, <4>1
      <4>3. PICK o \in Ip : o = h[p][1] /\ o = g[p][1]
        BY <4>2
      <4>4. \E i \in Known : uptime[i].ip = o
        BY <1>8, <4>1, <4>3
      <4>5. \E i \in 1 .. Len(U) : U[i].ip = o
        BY <1>13, <4>4
      <4> QED
        BY <2>1, <4>3, <4>5
    <3> QED
      BY <3>1, <3>2
  <2>4. \A i \in Known' : KeptOf(h, U[i])
    BY <1>13, <2>1
  <2> QED
    BY <1>0, <1>3, <1>4, <1>13, <2>2, <2>3, <2>4 DEF ElectInv
<1>14. CASE Seats!IndexOf(ip) = {}
  <2>1. \A i \in Known : uptime[i].ip # ip
    BY <1>14 DEF Seats!IndexOf, Known
  <2>2. Mine(g, ip) = {}
    BY <1>8, <2>1 DEF Mine
  <2>3. PICK U : U = Append(uptime, f)
    OBVIOUS
  <2>4. U = uptime'
    BY <1>10, <1>14, <2>3 DEF Seats!RecordPulse
  <2>5. PICK L \in Nat : L = Len(uptime)
    BY <1>8
  <2>6. U \in Seq(Entry) /\ Len(U) = L + 1 /\ U[L + 1] = f /\ \A i \in 1 .. L : U[i] = uptime[i]
    BY <1>8, <1>11, <2>3, <2>5, AppendKeeps
  <2>7. Known = 1 .. L /\ 1 .. Len(U) = Known \cup {L + 1}
    BY <2>5, <2>6 DEF Known
  <2>8. \A i, j \in 1 .. Len(U) : U[i].ip = U[j].ip => i = j
    BY <1>8, <1>11, <2>1, <2>6, <2>7
  <2>9. \A o \in Ip : (\E i \in Known : uptime[i].ip = o) \/ o = ip => \E i \in 1 .. Len(U) : U[i].ip = o
    BY <1>11, <2>6, <2>7
  <2>10. \A i \in 1 .. Len(U) : KeptOf(h, U[i])
    BY <1>6, <1>9, <1>12, <2>1, <2>2, <2>6, <2>7
  <2> QED
    BY <1>13, <2>4, <2>6, <2>8, <2>9, <2>10
<1>15. CASE Seats!IndexOf(ip) # {}
  <2>1. PICK U : U = uptime'
    OBVIOUS
  <2>2. U = [i \in DOMAIN uptime |-> IF i \notin Seats!IndexOf(ip) THEN uptime[i]
               ELSE IF Seats!Late(uptime[i]) THEN f ELSE Seats!Averaged(uptime[i], r)]
    BY <1>10, <1>15, <2>1 DEF Seats!RecordPulse
  <2>3. DOMAIN uptime = Known
    BY <1>8 DEF Known
  <2>4. ASSUME NEW i \in Known
        PROVE  U[i] \in Entry /\ U[i].ip = uptime[i].ip /\ KeptOf(h, U[i])
    <3>1. CASE uptime[i].ip # ip
      <4>1. U[i] = uptime[i]
        BY <2>2, <2>3, <3>1 DEF Seats!IndexOf
      <4> QED
        BY <1>8, <1>9, <3>1, <4>1
    <3>2. CASE uptime[i].ip = ip
      <4>1. PICK e \in Entry : e = uptime[i] /\ e.ip = ip /\ KeptOf(g, e) /\ e.at \in Nat
        BY <1>8, <3>2 DEF Entry
      <4>2. U[i] = IF Seats!Late(e) THEN f ELSE Seats!Averaged(e, r)
        BY <2>2, <2>3, <3>2, <4>1 DEF Seats!IndexOf, Known
      <4>3. PICK p \in Mine(g, ip) : g[p][2] = e.at /\ \A k \in Mine(g, ip) : k <= p
        BY <4>1 DEF KeptOf
      <4>4. CASE Seats!Late(e)
        <5>1. t - g[p][2] > Timeout
          BY <4>3, <4>4 DEF Seats!Late
        <5>2. KeptOf(h, f)
          BY <1>6, <1>12, <4>3, <5>1
        <5> QED
          BY <1>11, <3>2, <4>2, <4>4, <5>2
      <4>5. CASE ~Seats!Late(e)
        <5>1. PICK a \in Nat : a = e.at
          BY <4>1
        <5>2. ~(t - a > Timeout)
          BY <4>5, <5>1 DEF Seats!Late
        <5>3. t - a <= Timeout
          BY <1>1, <5>2, PulseAssumption DEF PulseAssumption
        <5>4. Run(h, ip) = Run(g, ip) \cup {q}
          BY <1>6, <4>3, <5>1, <5>3
        <5>5. PICK v : v = Seats!Averaged(e, r)
          OBVIOUS
        <5>6. /\ v \in Entry /\ v.ip = e.ip /\ v.at = t /\ v.count = e.count + 1
              /\ r # Unmeasured => v.num = e.num * e.count + r * e.den /\ v.den = e.den * (e.count + 1)
          BY <1>1, <5>5, AveragedIs
        <5>7. KeptOf(h, v)
          <6>1. q \in Nat /\ h[q] = <<ip, t, r>> /\ q \in Mine(h, ip) /\ \A k \in Mine(h, ip) : k <= q
            BY <1>5
          <6>2. GoesOn(g, h, q, ip, t, r, e)
            BY <1>7, <4>1, <5>4, <6>1 DEF GoesOn
          <6> HIDE DEF q, t
          <6>3. \A w : /\ w.ip = ip /\ w.at = t /\ w.count = e.count + 1
                       /\ r # Unmeasured => w.num = e.num * e.count + r * e.den /\ w.den = e.den * (e.count + 1)
                       => KeptOf(h, w)
            BY <6>2, KeptLonger
          <6>4. v.ip = ip
            BY <4>1, <5>6
          <6> QED
            BY <5>6, <6>3, <6>4, Zenon
        <5> QED
          BY <3>2, <4>1, <4>2, <4>5, <5>5, <5>6, <5>7
      <4> QED
        BY <4>4, <4>5
    <3> QED
      BY <3>1, <3>2
  <2>5. DOMAIN U = Known /\ U \in Seq(Entry) /\ Len(U) = Len(uptime)
    <3>1. PICK L \in Nat : L = Len(uptime) /\ Known = 1 .. L
      BY <1>8 DEF Known
    <3>2. DOMAIN U = Known
      BY <2>2, <2>3
    <3>3. U = [i \in 1 .. L |-> U[i]]
      BY <2>2, <2>3, <3>1, <3>2
    <3>4. \A i \in 1 .. L : U[i] \in Entry
      BY <2>4, <3>1
    <3>5. U \in [1 .. L -> Entry]
      BY <3>3, <3>4
    <3> QED
      BY <3>1, <3>2, <3>5
  <2>6. 1 .. Len(U) = Known
    BY <2>5 DEF Known
  <2> QED
    BY <1>8, <1>13, <1>15, <2>1, <2>4, <2>5, <2>6 DEF Seats!IndexOf, Known
<1> QED
  BY <1>14, <1>15


LEMMA ElectNext == ElectInv /\ [Seats!Next]_electionVars => ElectInv'
<1> SUFFICES ASSUME ElectInv, [Seats!Next]_electionVars PROVE ElectInv'
  OBVIOUS
<1>1. ASSUME uptime' = uptime, pulses' = pulses, electionNow' \in Nat, electedAt' \in Nat, electedAt' <= Len(pulses'),
             Seats!SeatsTheBest'
      PROVE  ElectInv'
  <2>1. PulsesTyped' /\ NodesTyped' /\ Known' = Known
    BY <1>1 DEF ElectInv, PulsesTyped, NodesTyped, Known
  <2> QED
    BY <1>1, <2>1 DEF ElectInv
<1>2. PulsesTyped /\ Len(pulses) \in Nat
  BY DEF ElectInv, PulsesTyped
<1>3. CASE Seats!Pass \/ UNCHANGED electionVars
  <2>1. UNCHANGED <<uptime, currentLeaders, pulses, electedAt>> /\ electionNow' \in Nat
    BY <1>2, <1>3 DEF PulsesTyped, Seats!Pass, electionVars
  <2>2. Seats!SeatsTheBest'
    BY <2>1 DEF ElectInv, Seats!SeatsTheBest
  <2> QED
    BY <1>1, <1>2, <2>1, <2>2 DEF PulsesTyped
<1>4. ASSUME NEW force, Seats!ElectLeaders(force) PROVE ElectInv'
  <2>1. uptime' = uptime /\ pulses' = pulses /\ electedAt' = Len(pulses) /\ electionNow' = electionNow
    BY <1>4 DEF Seats!ElectLeaders
  <2>2. Seats!SeatsTheBest'
    BY <1>4, ElectStep DEF ElectInv
  <2> QED
    BY <1>1, <1>2, <2>1, <2>2 DEF PulsesTyped
<1>5. ASSUME NEW ip \in Ip, NEW r \in Response, Seats!RecordPulse(ip, r) PROVE ElectInv'
  BY <1>5, PulseStep
<1> QED
  BY <1>3, <1>4, <1>5 DEF Seats!Next


----------------------------------------------------------------------------
(* The cache                                                                *)

\* The order o lists the keys of K, from the least to the most recently used.
Ordered(o, K, last) ==
  /\ o \in Seq(CacheKey) /\ {o[i] : i \in 1 .. Len(o)} = K
  /\ last \in [CacheKey -> Nat] /\ \A i, j \in 1 .. Len(o) : i < j => last[o[i]] < last[o[j]]

\* A key is listed once, so an order is as long as its keys are many.
LEMMA OrderLength ==
  ASSUME NEW o, NEW K, NEW last, Ordered(o, K, last)
  PROVE  /\ IsFiniteSet(K) /\ Len(o) = Cardinality(K) /\ Cardinality(K) \in Nat /\ K \subseteq CacheKey
         /\ \A i, j \in 1 .. Len(o) : o[i] = o[j] => i = j
<1>1. PICK L \in Nat : L = Len(o)
  BY DEF Ordered
<1>2. /\ \A i \in 1 .. L : o[i] \in CacheKey /\ o[i] \in K /\ last[o[i]] \in Nat
      /\ \A k \in K : \E i \in 1 .. L : o[i] = k
  BY <1>1 DEF Ordered
<1>3. ASSUME NEW i \in 1 .. L, NEW j \in 1 .. L, o[i] = o[j] PROVE i = j
  <2>1. ~(i < j) /\ ~(j < i)
    BY <1>1, <1>2, <1>3 DEF Ordered
  <2> QED
    BY <2>1
<1>4. DOMAIN o = 1 .. L /\ o = [i \in 1 .. L |-> o[i]]
  BY <1>1 DEF Ordered
<1>5. o \in Surjection(1 .. L, K) /\ o \in Injection(1 .. L, K)
  BY <1>2, <1>3, <1>4 DEF Surjection, Injection, IsInjective
<1>6. IsFiniteSet(1 .. L) /\ Cardinality(1 .. L) = L
  <2>1. IsFiniteSet(1 .. L) /\ Cardinality(1 .. L) = IF 1 > L THEN 0 ELSE L - 1 + 1
    BY FS_Interval
  <2> QED
    BY <2>1
<1>7. IsFiniteSet(K) /\ Cardinality(K) = Cardinality(1 .. L)
  BY <1>5, <1>6, FS_Surjection
<1> QED
  BY <1>1, <1>2, <1>3, <1>6, <1>7

\* Spliced out, keys leave the order of the others as it was.
LEMMA UnlistedIs ==
  ASSUME NEW o, NEW K, NEW last, Ordered(o, K, last), NEW D
  PROVE  Ordered(Tables!Unlisted(o, D), K \ D, last)
<1> DEFINE S == Tables!Left(o, D)
           R == {p \in S \X S : p[1] < p[2]}
           p == Tables!Unlisted(o, D)
<1>1. PICK L \in Nat : L = Len(o)
  BY DEF Ordered
<1>2. S \in SUBSET (1 .. L) /\ \A i \in 1 .. L : i \in S <=> o[i] \notin D
  BY <1>1 DEF Tables!Left
<1>3. IsFiniteSet(S) /\ Cardinality(S) \in Nat
  <2>1. IsFiniteSet(1 .. L)
    BY FS_Interval
  <2> HIDE DEF S
  <2> QED
    BY <1>2, <2>1, FS_Subset, FS_CardinalityType
<1>4. PICK N \in Nat : N = Cardinality(S)
  BY <1>3
<1>5. \A A : Tables!Cardinality(A) = Cardinality(A)
  BY DEF Tables!Cardinality, Cardinality, Tables!IsFiniteSet, IsFiniteSet
<1>6. ASSUME NEW i \in S PROVE Earlier(S, R, i) = {j \in S : j < i}
  BY DEF Earlier
<1>7. p = [n \in 1 .. N |-> o[CHOOSE i \in S : Tables!Cardinality({j \in S : j < i}) = n - 1]]
  <2>1. N = Tables!Cardinality(S)
    BY <1>4, <1>5
  <2>2. p = [n \in 1 .. Tables!Cardinality(S) |-> o[CHOOSE i \in S : Tables!Cardinality({j \in S : j < i}) = n - 1]]
    BY DEF Tables!Unlisted
  <2> QED
    BY <2>1, <2>2, Zenon
<1>8. /\ \A x \in S : <<x, x>> \notin R
      /\ \A x, y, z \in S : <<x, y>> \in R /\ <<y, z>> \in R => <<x, z>> \in R
      /\ \A x, y \in S : x # y => <<x, y>> \in R \/ <<y, x>> \in R
      /\ \A x, y \in S : <<x, y>> \in R <=> x < y
  <2>1. S \in SUBSET Nat
    BY <1>2
  <2> HIDE DEF S
  <2> QED
    BY <2>1
<1> HIDE DEF S, R, p
<1>9. /\ \A x \in S : Cardinality(Earlier(S, R, x)) \in 0 .. N - 1
      /\ \A x, y \in S : <<x, y>> \in R => Cardinality(Earlier(S, R, x)) < Cardinality(Earlier(S, R, y))
      /\ \A n \in 0 .. N - 1 : \E x \in S : Cardinality(Earlier(S, R, x)) = n
  BY <1>3, <1>4, <1>8, Ranks
<1>10. ASSUME NEW n \in 1 .. N PROVE \E i \in S : Cardinality(Earlier(S, R, i)) = n - 1 /\ p[n] = o[i]
  <2>1. n - 1 \in 0 .. N - 1
    OBVIOUS
  <2>2. \E i \in S : Tables!Cardinality({j \in S : j < i}) = n - 1
    BY <1>5, <1>6, <1>9, <2>1
  <2>3. PICK i : i = CHOOSE x \in S : Tables!Cardinality({j \in S : j < x}) = n - 1
    OBVIOUS
  <2>4. i \in S /\ Tables!Cardinality({j \in S : j < i}) = n - 1
    BY <2>2, <2>3, Zenon
  <2>5. p[n] = o[i]
    BY <1>7, <2>3, Zenon
  <2> QED
    BY <1>5, <1>6, <2>4, <2>5
<1>11. p \in Seq(CacheKey) /\ Len(p) = N
  <2>1. \A i \in 1 .. L : o[i] \in CacheKey
    BY <1>1 DEF Ordered
  <2>2. \A n \in 1 .. N : p[n] \in CacheKey
    BY <1>2, <1>10, <2>1
  <2>3. \A n \in 1 .. N : o[CHOOSE i \in S : Tables!Cardinality({j \in S : j < i}) = n - 1] \in CacheKey
    <3> TAKE n \in 1 .. N
    <3>1. p[n] = o[CHOOSE i \in S : Tables!Cardinality({j \in S : j < i}) = n - 1]
      BY <1>7, Zenon
    <3> QED
      BY <2>2, <3>1, Zenon
  <2>4. p \in [1 .. N -> CacheKey]
    BY <1>7, <2>3, Zenon
  <2> QED
    BY <2>4
<1>12. {p[n] : n \in 1 .. N} = K \ D
  <2>1. \A i \in 1 .. L : o[i] \in K
    BY <1>1 DEF Ordered
  <2>2. ASSUME NEW n \in 1 .. N PROVE p[n] \in K \ D
    BY <1>2, <1>10, <2>1
  <2>3. ASSUME NEW k \in K \ D PROVE \E n \in 1 .. N : p[n] = k
    <3>1. PICK i \in 1 .. L : o[i] = k
      BY <1>1 DEF Ordered
    <3>2. i \in S
      BY <1>2, <3>1
    <3>3. PICK m \in 0 .. N - 1 : m = Cardinality(Earlier(S, R, i))
      BY <1>9, <3>2
    <3>4. m + 1 \in 1 .. N /\ m + 1 - 1 = m
      OBVIOUS
    <3>5. PICK j \in S : Cardinality(Earlier(S, R, j)) = m /\ p[m + 1] = o[j]
      BY <1>10, <3>4
    <3>6. <<i, j>> \notin R /\ <<j, i>> \notin R
      BY <1>9, <3>2, <3>3, <3>5
    <3>7. i = j
      BY <1>8, <3>2, <3>6
    <3> QED
      BY <3>1, <3>4, <3>5, <3>7
  <2> QED
    BY <2>2, <2>3
<1>13. ASSUME NEW m \in 1 .. N, NEW n \in 1 .. N, m < n PROVE last[p[m]] < last[p[n]]
  <2>1. PICK i \in S : Cardinality(Earlier(S, R, i)) = m - 1 /\ p[m] = o[i]
    BY <1>10
  <2>2. PICK j \in S : Cardinality(Earlier(S, R, j)) = n - 1 /\ p[n] = o[j]
    BY <1>10
  <2>3. ~(n - 1 < m - 1) /\ m - 1 # n - 1
    BY <1>13
  <2>4. <<j, i>> \notin R /\ i # j
    BY <1>9, <2>1, <2>2, <2>3
  <2>5. i < j
    BY <1>8, <2>4
  <2> QED
    BY <1>1, <1>2, <2>1, <2>2, <2>5 DEF Ordered
<1>14. last \in [CacheKey -> Nat]
  BY DEF Ordered
<1>15. 1 .. Len(p) = 1 .. N
  BY <1>11
<1>16. Ordered(p, K \ D, last)
  BY <1>11, <1>12, <1>13, <1>14, <1>15 DEF Ordered
<1> QED
  BY <1>16 DEF p


\* The head of the order goes.
LEMMA OrderTail ==
  ASSUME NEW o, NEW K, NEW last, Ordered(o, K, last), o # <<>>
  PROVE  Head(o) \in K /\ Ordered(Tail(o), K \ {Head(o)}, last)
<1>1. PICK L \in Nat : L = Len(o)
  BY DEF Ordered
<1>2. /\ L > 0 /\ Head(o) = o[1] /\ Tail(o) \in Seq(CacheKey) /\ Len(Tail(o)) = L - 1
      /\ \A i \in 1 .. L - 1 : Tail(o)[i] = o[i + 1]
  BY <1>1 DEF Ordered
<1>3. PICK t : t = Tail(o)
  OBVIOUS
<1>4. 1 .. Len(t) = 1 .. L - 1 /\ \A i \in 1 .. L - 1 : t[i] = o[i + 1] /\ i + 1 \in 1 .. L /\ i + 1 # 1
  BY <1>2, <1>3
<1>5. \A i, j \in 1 .. L : o[i] = o[j] => i = j
  BY <1>1, OrderLength
<1>6. /\ \A i \in 1 .. L : o[i] \in K
      /\ \A k \in K : \E i \in 1 .. L : o[i] = k
  BY <1>1 DEF Ordered
<1>7. ASSUME NEW i \in 1 .. L - 1 PROVE t[i] \in K \ {o[1]}
  BY <1>2, <1>4, <1>5, <1>6
<1>8. ASSUME NEW k \in K \ {o[1]} PROVE \E i \in 1 .. L - 1 : t[i] = k
  <2>1. PICK i \in 1 .. L : o[i] = k
    BY <1>6
  <2>2. i # 1
    BY <1>8, <2>1
  <2>3. i - 1 \in 1 .. L - 1 /\ i - 1 + 1 = i
    BY <2>2
  <2> QED
    BY <1>4, <2>1, <2>3
<1>9. ASSUME NEW i \in 1 .. L - 1, NEW j \in 1 .. L - 1, i < j PROVE last[t[i]] < last[t[j]]
  <2>1. i + 1 < j + 1
    BY <1>9
  <2> QED
    BY <1>1, <1>4, <2>1 DEF Ordered
<1>10. {t[i] : i \in 1 .. L - 1} = K \ {o[1]}
  BY <1>7, <1>8
<1> QED
  BY <1>2, <1>3, <1>4, <1>6, <1>9, <1>10 DEF Ordered

\* A key that is used now comes last.
LEMMA OrderAppend ==
  ASSUME NEW o, NEW K, NEW last, Ordered(o, K, last), NEW k \in CacheKey, k \notin K,
         NEW n \in Nat, \A j \in CacheKey : last[j] <= n
  PROVE  Ordered(Append(o, k), K \cup {k}, [last EXCEPT ![k] = n + 1])
<1>1. PICK L \in Nat : L = Len(o)
  BY DEF Ordered
<1>2. PICK p, u : p = Append(o, k) /\ u = [last EXCEPT ![k] = n + 1]
  OBVIOUS
<1>3. p \in Seq(CacheKey) /\ Len(p) = L + 1 /\ p[L + 1] = k /\ \A i \in 1 .. L : p[i] = o[i] /\ o[i] \in CacheKey
  BY <1>1, <1>2, AppendKeeps DEF Ordered
<1>4. 1 .. Len(p) = 1 .. L \cup {L + 1}
  BY <1>3
<1>5. \A i \in 1 .. L : o[i] \in K
  BY <1>1 DEF Ordered
<1>6. /\ u \in [CacheKey -> Nat] /\ u[k] = n + 1
      /\ \A i \in 1 .. L : u[o[i]] = last[o[i]] /\ last[o[i]] \in Nat
  BY <1>2, <1>3, <1>5 DEF Ordered
<1>7. ASSUME NEW i \in 1 .. Len(p), NEW j \in 1 .. Len(p), i < j PROVE u[p[i]] < u[p[j]]
  <2>1. CASE j \in 1 .. L
    <3>1. i \in 1 .. L
      BY <1>4, <1>7, <2>1
    <3> QED
      BY <1>1, <1>3, <1>6, <1>7, <2>1, <3>1 DEF Ordered
  <2>2. CASE j = L + 1
    <3>1. i \in 1 .. L
      BY <1>4, <1>7, <2>2
    <3>2. u[p[i]] = last[o[i]] /\ last[o[i]] <= n /\ last[o[i]] \in Nat
      BY <1>3, <1>6, <3>1
    <3>3. u[p[j]] = n + 1
      BY <1>3, <1>6, <2>2
    <3> QED
      BY <3>2, <3>3
  <2> QED
    BY <1>4, <2>1, <2>2
<1>8. {p[i] : i \in 1 .. Len(p)} = K \cup {k}
  <2>1. {o[i] : i \in 1 .. L} = K
    BY <1>1 DEF Ordered
  <2> QED
    BY <1>3, <1>4, <2>1
<1> QED
  BY <1>2, <1>3, <1>6, <1>7, <1>8 DEF Ordered

CacheInv ==
  /\ cacheNow \in Nat /\ touch \in Nat /\ \A k \in CacheKey : usedAt[k] <= touch
  /\ Ordered(accessOrder, Tables!Keys, usedAt) /\ Cardinality(Tables!Keys) <= CacheSize
  /\ DOMAIN written = CacheKey /\ (\A k \in CacheKey : written[k].expires \in Nat)
  /\ written = [k \in CacheKey |-> written[k]]
  /\ (\A k \in Tables!Keys : entry[k] = written[k]) /\ got = TRUE

LEMMA CacheStart == Tables!CacheInit => CacheInv
<1> SUFFICES ASSUME Tables!CacheInit PROVE CacheInv
  OBVIOUS
<1>1. /\ cacheNow = 0 /\ entry = <<>> /\ accessOrder = <<>> /\ touch = 0 /\ got = TRUE
      /\ usedAt = [k \in CacheKey |-> 0] /\ written = [k \in CacheKey |-> [value |-> 0, expires |-> 0]]
  BY DEF Tables!CacheInit
<1>2. Tables!Keys = {}
  BY <1>1 DEF Tables!Keys
<1>3. Ordered(accessOrder, Tables!Keys, usedAt)
  BY <1>1, <1>2 DEF Ordered
<1>4. Cardinality(Tables!Keys) <= CacheSize
  BY <1>2, FS_EmptySet, CacheAssumption DEF CacheAssumption
<1> QED
  BY <1>1, <1>2, <1>3, <1>4 DEF CacheInv

LEMMA CacheFollows == CacheInv => Tables!CacheSound
<1> SUFFICES ASSUME CacheInv PROVE Tables!CacheSound
  OBVIOUS
<1>1. \A S : Tables!Cardinality(S) = Cardinality(S)
  BY DEF Tables!Cardinality, Cardinality, Tables!IsFiniteSet, IsFiniteSet
<1>2. Len(accessOrder) = Cardinality(Tables!Keys)
  BY OrderLength DEF CacheInv
<1>3. Tables!OrderAgrees
  BY <1>1, <1>2 DEF CacheInv, Ordered, Tables!OrderAgrees
<1> QED
  BY <1>3 DEF CacheInv, Tables!CacheSound, Tables!FreshAnswer

\* What forgets keys: delete, cleanup, and get of what has expired.
LEMMA ForgetStep ==
  ASSUME CacheInv, NEW D, entry' = Tables!Without(entry, D), accessOrder' = Tables!Unlisted(accessOrder, D),
         got' = TRUE, UNCHANGED <<cacheNow, touch, usedAt, written>>
  PROVE  CacheInv'
<1>1. Tables!Keys' = Tables!Keys \ D /\ \A k \in Tables!Keys \ D : entry'[k] = entry[k]
  BY DEF Tables!Keys, Tables!Without
<1>2. Ordered(accessOrder', Tables!Keys', usedAt')
  BY <1>1, UnlistedIs DEF CacheInv
<1>3. Cardinality(Tables!Keys') <= CacheSize
  <2>1. IsFiniteSet(Tables!Keys) /\ Cardinality(Tables!Keys) \in Nat /\ Tables!Keys \ D \in SUBSET Tables!Keys
    BY OrderLength DEF CacheInv
  <2>2. Cardinality(Tables!Keys \ D) <= Cardinality(Tables!Keys) /\ Cardinality(Tables!Keys \ D) \in Nat
    BY <2>1, FS_Subset, FS_CardinalityType
  <2> QED
    BY <1>1, <2>1, <2>2, CacheAssumption DEF CacheAssumption, CacheInv
<1> QED
  BY <1>1, <1>2, <1>3 DEF CacheInv


\* The order when k is used: k comes last.
LEMMA MovedIs ==
  ASSUME NEW o, NEW K, NEW last, Ordered(o, K, last), NEW k \in CacheKey,
         NEW n \in Nat, \A j \in CacheKey : last[j] <= n
  PROVE  Ordered(Tables!Moved(o, k), K \cup {k}, [last EXCEPT ![k] = n + 1])
<1>1. PICK p, J : p = Tables!Unlisted(o, {k}) /\ J = K \ {k}
  OBVIOUS
<1>2. Ordered(p, J, last)
  BY <1>1, UnlistedIs
<1>3. Ordered(Append(p, k), J \cup {k}, [last EXCEPT ![k] = n + 1])
  BY <1>1, <1>2, OrderAppend
<1>4. J \cup {k} = K \cup {k} /\ Tables!Moved(o, k) = Append(p, k)
  BY <1>1 DEF Tables!Moved
<1> QED
  BY <1>3, <1>4

\* The counter of uses stays ahead of every use.
LEMMA TouchedIs ==
  ASSUME CacheInv, NEW k \in CacheKey, Tables!Touched(k)
  PROVE  /\ touch' \in Nat /\ usedAt' = [usedAt EXCEPT ![k] = touch + 1]
         /\ \A j \in CacheKey : usedAt'[j] <= touch'
<1>1. /\ touch \in Nat /\ touch' = touch + 1 /\ usedAt' = [usedAt EXCEPT ![k] = touch + 1]
      /\ usedAt \in [CacheKey -> Nat] /\ \A j \in CacheKey : usedAt[j] <= touch
  BY DEF CacheInv, Ordered, Tables!Touched
<1>2. \A j \in CacheKey : usedAt[j] \in Nat /\ usedAt'[j] = IF j = k THEN touch + 1 ELSE usedAt[j]
  BY <1>1
<1> QED
  BY <1>1, <1>2

LEMMA GetStep == ASSUME CacheInv, NEW k \in CacheKey, Tables!Get(k) PROVE CacheInv'
<1>1. CASE Tables!Expired(k)
  <2>1. /\ entry' = Tables!Without(entry, {k}) /\ accessOrder' = Tables!Unlisted(accessOrder, {k})
        /\ got' = TRUE /\ UNCHANGED <<cacheNow, touch, usedAt, written>>
    BY <1>1 DEF Tables!Get
  <2> QED
    BY <2>1, ForgetStep
<1>2. CASE ~Tables!Expired(k)
  <2>1. /\ k \in Tables!Keys /\ accessOrder' = Tables!Moved(accessOrder, k) /\ Tables!Touched(k)
        /\ got' = Tables!Written(k, entry[k].value) /\ entry' = entry /\ cacheNow' = cacheNow /\ written' = written
    BY <1>2 DEF Tables!Get
  <2>2. Tables!Keys' = Tables!Keys /\ Tables!Keys \cup {k} = Tables!Keys
    BY <2>1 DEF Tables!Keys
  <2>3. Ordered(accessOrder', Tables!Keys', usedAt')
    <3>1. touch \in Nat /\ \A j \in CacheKey : usedAt[j] <= touch
      BY DEF CacheInv
    <3>2. Ordered(Tables!Moved(accessOrder, k), Tables!Keys \cup {k}, [usedAt EXCEPT ![k] = touch + 1])
      BY <3>1, MovedIs DEF CacheInv
    <3> QED
      BY <2>1, <2>2, <3>2, TouchedIs
  <2>4. got'
    <3>1. PICK n \in Nat, m \in Nat : n = cacheNow /\ m = written[k].expires /\ entry[k] = written[k]
      BY <2>1 DEF CacheInv
    <3>2. ~(n > m)
      BY <1>2, <3>1 DEF Tables!Expired
    <3>3. n <= m
      BY <3>2
    <3> QED
      BY <2>1, <3>1, <3>3 DEF Tables!Written
  <2>5. got' = TRUE
    BY <2>1, <2>4 DEF Tables!Written
  <2> QED
    BY <2>1, <2>2, <2>3, <2>5, TouchedIs DEF CacheInv
<1> QED
  BY <1>1, <1>2

\* set, which evicts the least recently used when it needs room.
LEMMA SetStep ==
  ASSUME CacheInv, NEW k \in CacheKey, NEW v \in CacheValue, NEW ttl \in Ttls, Tables!Set(k, v, ttl)
  PROVE  CacheInv'
<1>1. PICK room, order, e :
        /\ room = (IF Tables!Full(k) THEN Tables!Without(entry, {Head(accessOrder)}) ELSE entry)
        /\ order = (IF Tables!Full(k) THEN Tail(accessOrder) ELSE accessOrder)
        /\ e = [value |-> v, expires |-> cacheNow + ttl]
  OBVIOUS
<1>2. /\ entry' = [j \in DOMAIN room \cup {k} |-> IF j = k THEN e ELSE room[j]]
      /\ accessOrder' = Tables!Moved(order, k) /\ Tables!Touched(k)
      /\ written' = [written EXCEPT ![k] = e] /\ cacheNow' = cacheNow /\ got' = got
  BY <1>1 DEF Tables!Set
<1>3. e.expires \in Nat
  BY <1>1, CacheAssumption DEF CacheAssumption, CacheInv
<1>4. PICK K : K = DOMAIN room
  OBVIOUS
<1>5. CacheSize \in Nat /\ CacheSize > 0
  BY CacheAssumption DEF CacheAssumption
<1>6. /\ IsFiniteSet(Tables!Keys) /\ Cardinality(Tables!Keys) \in Nat /\ Cardinality(Tables!Keys) <= CacheSize
      /\ Tables!Keys \subseteq CacheKey
  BY OrderLength DEF CacheInv
<1>7. \A S : Tables!Cardinality(S) = Cardinality(S)
  BY DEF Tables!Cardinality, Cardinality, Tables!IsFiniteSet, IsFiniteSet
<1>8. /\ Ordered(order, K, usedAt) /\ K \subseteq Tables!Keys /\ \A j \in K : room[j] = entry[j]
      /\ Cardinality(K \cup {k}) <= CacheSize
  <2>1. CASE Tables!Full(k)
    <3>1. accessOrder # <<>>
      BY <2>1 DEF Tables!Full
    <3>2. Head(accessOrder) \in Tables!Keys /\ Ordered(Tail(accessOrder), Tables!Keys \ {Head(accessOrder)}, usedAt)
      BY <3>1, OrderTail DEF CacheInv
    <3>3. K = Tables!Keys \ {Head(accessOrder)} /\ \A j \in K : room[j] = entry[j]
      BY <1>1, <1>4, <2>1 DEF Tables!Without, Tables!Keys
    <3>4. IsFiniteSet(K) /\ Cardinality(K) = Cardinality(Tables!Keys) - 1
      BY <1>6, <3>2, <3>3, FS_RemoveElement
    <3>5. PICK m \in Nat : m = Cardinality(K) /\ m + 1 <= CacheSize
      <4>1. Cardinality(K) \in Nat
        BY <3>4, FS_CardinalityType
      <4>2. PICK m \in Nat, n \in Nat, c \in Nat : m = Cardinality(K) /\ n = Cardinality(Tables!Keys) /\ c = CacheSize
        BY <1>5, <1>6, <4>1
      <4>3. m = n - 1 /\ n <= c
        BY <1>6, <3>4, <4>2
      <4>4. m + 1 <= c
        BY <4>3
      <4> QED
        BY <4>2, <4>4
    <3>6. Cardinality(K \cup {k}) <= m + 1
      <4>1. Cardinality(K \cup {k}) = IF k \in K THEN Cardinality(K) ELSE Cardinality(K) + 1
        BY <3>4, FS_AddElement
      <4>2. Cardinality(K \cup {k}) = m \/ Cardinality(K \cup {k}) = m + 1
        BY <3>5, <4>1
      <4> QED
        BY <4>2
    <3>7. Cardinality(K \cup {k}) \in Nat
      BY <3>4, FS_AddElement, FS_CardinalityType
    <3>8. Cardinality(K \cup {k}) <= CacheSize
      BY <1>5, <3>5, <3>6, <3>7
    <3> QED
      BY <1>1, <2>1, <3>2, <3>3, <3>8
  <2>2. CASE ~Tables!Full(k)
    <3>1. K = Tables!Keys /\ room = entry /\ order = accessOrder
      BY <1>1, <1>4, <2>2 DEF Tables!Keys
    <3>2. Cardinality(Tables!Keys \cup {k}) <= CacheSize
      <4>1. CASE k \in Tables!Keys
        <5>1. Tables!Keys \cup {k} = Tables!Keys
          BY <4>1
        <5> QED
          BY <1>6, <5>1
      <4>2. CASE accessOrder = <<>>
        <5>1. Tables!Keys = {}
          BY <4>2 DEF CacheInv, Ordered
        <5>2. Cardinality({k}) = 1 /\ Tables!Keys \cup {k} = {k}
          BY <5>1, FS_Singleton
        <5> QED
          BY <1>5, <5>2
      <4>3. CASE k \notin Tables!Keys /\ accessOrder # <<>>
        <5>1. ~(Cardinality(Tables!Keys) >= CacheSize)
          BY <1>7, <2>2, <4>3 DEF Tables!Full
        <5>2. Cardinality(Tables!Keys \cup {k}) = Cardinality(Tables!Keys) + 1
          BY <1>6, <4>3, FS_AddElement
        <5> QED
          BY <1>5, <1>6, <5>1, <5>2
      <4> QED
        BY <4>1, <4>2, <4>3
    <3> QED
      BY <3>1, <3>2 DEF CacheInv
  <2> QED
    BY <2>1, <2>2
<1>9. Tables!Keys' = K \cup {k}
  BY <1>2, <1>4 DEF Tables!Keys
<1>10. Ordered(accessOrder', Tables!Keys', usedAt')
  <2>1. touch \in Nat /\ \A j \in CacheKey : usedAt[j] <= touch
    BY DEF CacheInv
  <2>2. Ordered(Tables!Moved(order, k), K \cup {k}, [usedAt EXCEPT ![k] = touch + 1])
    BY <1>8, <2>1, MovedIs
  <2> QED
    BY <1>2, <1>9, <2>2, TouchedIs
<1>11. /\ DOMAIN written' = CacheKey /\ (\A j \in CacheKey : written'[j].expires \in Nat)
       /\ written' = [j \in CacheKey |-> written'[j]]
       /\ \A j \in CacheKey : written'[j] = IF j = k THEN e ELSE written[j]
  BY <1>2, <1>3 DEF CacheInv
<1>12. ASSUME NEW j \in Tables!Keys' PROVE entry'[j] = written'[j]
  <2>1. j \in K \cup {k} /\ j \in CacheKey
    BY <1>6, <1>8, <1>9
  <2>2. entry'[j] = IF j = k THEN e ELSE room[j]
    BY <1>2, <1>4, <2>1
  <2>3. j # k => room[j] = written[j]
    BY <1>8, <2>1 DEF CacheInv
  <2> QED
    BY <1>11, <2>1, <2>2, <2>3
<1> QED
  BY <1>2, <1>8, <1>9, <1>10, <1>11, <1>12, TouchedIs DEF CacheInv

LEMMA CacheNext == CacheInv /\ [Tables!CacheNext]_cacheVars => CacheInv'
<1> SUFFICES ASSUME CacheInv, [Tables!CacheNext]_cacheVars PROVE CacheInv'
  OBVIOUS
<1>1. CASE Tables!Pass \/ UNCHANGED cacheVars
  <2>1. UNCHANGED <<entry, accessOrder, touch, usedAt, written, got>> /\ (cacheNow' = cacheNow \/ cacheNow' = cacheNow + 1)
    BY <1>1 DEF Tables!Pass, cacheVars
  <2>3. cacheNow' \in Nat
    BY <2>1 DEF CacheInv
  <2>2. Tables!Keys' = Tables!Keys
    BY <2>1 DEF Tables!Keys
  <2> QED
    BY <2>1, <2>2, <2>3 DEF CacheInv
<1>2. CASE Tables!Cleanup
  <2>1. PICK D : D = {k \in Tables!Keys : Tables!Expired(k)}
    OBVIOUS
  <2>2. /\ entry' = Tables!Without(entry, D) /\ accessOrder' = Tables!Unlisted(accessOrder, D)
        /\ got' = TRUE /\ UNCHANGED <<cacheNow, touch, usedAt, written>>
    BY <1>2, <2>1 DEF CacheInv, Tables!Cleanup
  <2> QED
    BY <2>2, ForgetStep
<1>3. ASSUME NEW k \in CacheKey, Tables!Delete(k) PROVE CacheInv'
  <2>1. /\ entry' = Tables!Without(entry, {k}) /\ accessOrder' = Tables!Unlisted(accessOrder, {k})
        /\ got' = TRUE /\ UNCHANGED <<cacheNow, touch, usedAt, written>>
    BY <1>3 DEF CacheInv, Tables!Delete
  <2> QED
    BY <2>1, ForgetStep
<1>4. CASE Tables!Clear
  <2>1. entry' = <<>> /\ accessOrder' = <<>> /\ UNCHANGED <<cacheNow, touch, usedAt, written, got>>
    BY <1>4 DEF Tables!Clear
  <2>2. Tables!Keys' = {}
    BY <2>1 DEF Tables!Keys
  <2>3. Ordered(accessOrder', Tables!Keys', usedAt')
    BY <2>1, <2>2 DEF CacheInv, Ordered
  <2>4. Cardinality(Tables!Keys') <= CacheSize
    BY <2>2, FS_EmptySet, CacheAssumption DEF CacheAssumption
  <2> QED
    BY <2>1, <2>2, <2>3, <2>4 DEF CacheInv
<1>5. CASE \E k \in CacheKey : Tables!Get(k) \/ \E v \in CacheValue, ttl \in Ttls : Tables!Set(k, v, ttl)
  BY <1>5, GetStep, SetStep
<1> QED
  BY <1>1, <1>2, <1>3, <1>4, <1>5 DEF Tables!CacheNext

----------------------------------------------------------------------------
(* The three together                                                       *)

LimitsInv ==
  RatesInv /\ (focus = "cache" => CacheInv) /\ (focus = "election" => ElectInv)

\* The cache answers what was last written and in time, and evicts the least recently used; rates are kept;
\* and an election seats the best of the last runs: for any keys, sizes, times and numbers of pulses.
THEOREM LimitsSoundHolds == Spec => []LimitsSound
<1>1. Init => LimitsInv
  BY LimiterStart, FloodStart, CacheStart, ElectStart DEF Init, LimitsInv, RatesInv
<1>2. LimitsInv /\ [Next]_vars => LimitsInv'
  <2> SUFFICES ASSUME LimitsInv, [Next]_vars PROVE LimitsInv'
    OBVIOUS
  <2>1. focus' = focus
    BY DEF Next, vars
  <2>2. ASSUME focus = "cache" PROVE [Tables!CacheNext]_cacheVars
    BY <2>2 DEF Next, vars, cacheVars
  <2>3. ASSUME focus = "election" PROVE [Seats!Next]_electionVars
    BY <2>3 DEF Next, vars, electionVars
  <2>4. RatesInv'
    BY RatesNext DEF LimitsInv
  <2> QED
    BY <2>1, <2>2, <2>3, <2>4, CacheNext, ElectNext DEF LimitsInv
<1>3. LimitsInv => LimitsSound
  <2> SUFFICES ASSUME LimitsInv PROVE LimitsSound
    OBVIOUS
  <2>1. RatesSound
    BY RatesInvFollows DEF LimitsInv
  <2> QED
    BY <2>1, CacheFollows, ElectFollows DEF LimitsInv, LimitsSound
<1> QED
  BY <1>1, <1>2, <1>3, PTL DEF Spec

=============================================================================
