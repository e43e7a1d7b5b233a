------------------------------- MODULE Storage -------------------------------
(***************************************************************************)
(* A storage node (storage-compute/src/storage-node.js) and the prober     *)
(* that asks it for proofs of possession (availability.js).  Every await   *)
(* of a store or a delete is a step; a crash may come between any two.     *)
(***************************************************************************)
EXTENDS Integers, FiniteSets

CONSTANTS
  Shard, Size,  \* shards, by content, and the size of each
  Capacity,
  Caller,       \* operations that may be under way at once
  MaxOps, MaxCrash, MaxProbe

VARIABLES
  durable,      \* "unknown" before _init settles, "yes", or "no" after a failed open
  volatile,     \* the caller asked for memory-only storage
  dataRows, metaRows,   \* shard: and meta: rows on disk
  ramRows,      \* what the Map holds when the open failed
  shards, used, \* shard metadata in memory, and the quota accounted for
  opAt,         \* the operation of each caller
  probe,        \* the probe under way: nonce and shard
  proofs,       \* the proofs answered so far: <<nonce, shard>>
  available,    \* the last verdict: nonce and shard, or none
  provedBy,     \* history: <<nonce, shard>> answered by the node from bytes it read
  raced,        \* history: the shards two operations were on at once, or that were stored again
  cut,          \* history: the shards whose rows a crash may have left apart
  quotaRaced,   \* history: a store was checked while another one was under way, or a crash left what a race had
                \* miscounted; a restart does not cure it, the rows are on disk
  storeOps, storeCrashes

storageVars == <<durable, volatile, dataRows, metaRows, ramRows, shards, used, opAt, probe, proofs, available,
                 provedBy, raced, cut, quotaRaced, storeOps, storeCrashes>>

NoOp == [op |-> "none", at |-> "idle"]
NoProbe == [nonce |-> 0]
\* The bytes of a set of shards, counted one by one.
SizeOf(S) == Cardinality(UNION {{s} \X (1 .. Size[s]) : s \in S})

Init ==
  /\ durable = "unknown" /\ volatile \in BOOLEAN
  /\ dataRows = {} /\ metaRows = {} /\ ramRows = {} /\ shards = {} /\ used = 0
  /\ opAt = [c \in Caller |-> NoOp]
  /\ probe = NoProbe /\ proofs = {} /\ available = NoProbe /\ provedBy = {}
  /\ raced = {} /\ cut = {} /\ quotaRaced = FALSE /\ storeOps = 0 /\ storeCrashes = 0

\* _init: the metadata on disk, or an in-memory map when the directory cannot be opened.
Open(ok) ==
  /\ durable = "unknown"
  /\ durable' = IF ok THEN "yes" ELSE "no"
  /\ shards' = IF ok THEN metaRows ELSE {}
  /\ used' = IF ok THEN SizeOf(metaRows) ELSE 0
  /\ UNCHANGED <<volatile, dataRows, metaRows, ramRows, opAt, probe, proofs, available, provedBy, raced, cut, quotaRaced,
                 storeOps, storeCrashes>>

Busy(s) == \E c \in Caller : opAt[c].at # "idle" /\ opAt[c].shard = s
Storing == \E c \in Caller : opAt[c].op = "store"

\* Mutant: a node whose open failed stores all the same.
AcceptsAlways == TRUE
\* storeShard's guard: bytes that would not survive are refused unless the caller asked for that.
Accepts == durable = "yes" \/ volatile

StoreShard(c, s) ==
  /\ durable # "unknown" /\ opAt[c] = NoOp /\ storeOps < MaxOps
  /\ Accepts
  /\ used + Size[s] <= Capacity
  /\ opAt' = [opAt EXCEPT ![c] = [op |-> "store", shard |-> s, at |-> "data"]]
  /\ raced' = IF Busy(s) \/ s \in shards THEN raced \cup {s} ELSE raced
  /\ quotaRaced' = (quotaRaced \/ Storing)
  /\ storeOps' = storeOps + 1
  /\ UNCHANGED <<durable, volatile, dataRows, metaRows, ramRows, shards, used, probe, proofs, available, provedBy, cut, storeCrashes>>

\* deleteShard of a shard the node knows.
DeleteShard(c, s) ==
  /\ durable # "unknown" /\ opAt[c] = NoOp /\ storeOps < MaxOps
  /\ s \in shards
  /\ opAt' = [opAt EXCEPT ![c] = [op |-> "delete", shard |-> s, at |-> "data"]]
  /\ raced' = IF Busy(s) THEN raced \cup {s} ELSE raced
  /\ storeOps' = storeOps + 1
  /\ UNCHANGED <<durable, volatile, dataRows, metaRows, ramRows, shards, used, probe, proofs, available, provedBy,
                 cut, quotaRaced, storeCrashes>>

Rows(S, o) == IF o.op = "store" THEN S \cup {o.shard} ELSE S \ {o.shard}

\* The row of the bytes, then the row of the metadata; the map takes the bytes alone.
WriteData(c) ==
  /\ opAt[c].at = "data"
  /\ IF durable = "yes"
     THEN dataRows' = Rows(dataRows, opAt[c]) /\ UNCHANGED ramRows
     ELSE ramRows' = Rows(ramRows, opAt[c]) /\ UNCHANGED dataRows
  /\ opAt' = [opAt EXCEPT ![c].at = "meta"]
  /\ UNCHANGED <<durable, volatile, metaRows, shards, used, probe, proofs, available, provedBy, raced, cut, quotaRaced,
                 storeOps, storeCrashes>>

WriteMeta(c) ==
  /\ opAt[c].at = "meta"
  /\ metaRows' = IF durable = "yes" THEN Rows(metaRows, opAt[c]) ELSE metaRows
  /\ opAt' = [opAt EXCEPT ![c].at = "done"]
  /\ UNCHANGED <<durable, volatile, dataRows, ramRows, shards, used, probe, proofs, available, provedBy, raced, cut, quotaRaced,
                 storeOps, storeCrashes>>

\* The memory of the node, after both writes.
Account(c) ==
  /\ opAt[c].at = "done"
  /\ LET o == opAt[c] IN
     /\ shards' = Rows(shards, o)
     /\ used' = IF o.op = "store" THEN used + Size[o.shard] ELSE used - Size[o.shard]
  /\ opAt' = [opAt EXCEPT ![c] = NoOp]
  /\ UNCHANGED <<durable, volatile, dataRows, metaRows, ramRows, probe, proofs, available, provedBy, raced, cut, quotaRaced,
                 storeOps, storeCrashes>>

\* A crash loses the memory; the process is started again on the same directory.
Crash ==
  /\ durable # "unknown" /\ storeCrashes < MaxCrash
  /\ durable' = "unknown" /\ shards' = {} /\ used' = 0 /\ ramRows' = {}
  /\ opAt' = [c \in Caller |-> NoOp]
  /\ raced' = {} /\ quotaRaced' = (quotaRaced \/ raced # {})
  /\ cut' = cut \cup raced \cup {opAt[c].shard : c \in {d \in Caller : opAt[d].op = "delete"}}
  /\ storeCrashes' = storeCrashes + 1
  /\ UNCHANGED <<volatile, dataRows, metaRows, probe, proofs, available, provedBy, storeOps>>

----------------------------------------------------------------------------
\* probeNode: a fresh nonce per probe.
Probe(s) ==
  /\ probe = NoProbe /\ available.nonce < MaxProbe
  /\ probe' = [nonce |-> available.nonce + 1, shard |-> s]
  /\ UNCHANGED <<durable, volatile, dataRows, metaRows, ramRows, shards, used, opAt, proofs, available, provedBy, raced,
                 cut, quotaRaced, storeOps, storeCrashes>>

\* getShard: known, and its bytes can be read.
Readable(s) == s \in shards /\ s \in (IF durable = "yes" THEN dataRows ELSE ramRows)

\* respondToProbe: the proof binds the nonce and the bytes.
RespondToProbe ==
  /\ probe # NoProbe /\ durable # "unknown"
  /\ Readable(probe.shard)
  /\ proofs' = proofs \cup {<<probe.nonce, probe.shard>>}
  /\ provedBy' = provedBy \cup {<<probe.nonce, probe.shard>>}
  /\ UNCHANGED <<durable, volatile, dataRows, metaRows, ramRows, shards, used, opAt, probe, available, raced, cut, quotaRaced,
                 storeOps, storeCrashes>>

\* Mutant: the proof is compared without the nonce.
ProofHoldsStale(pf, n, s) == pf[2] = s
ProofHolds(pf, n, s) == pf = <<n, s>>

\* The verdict on some answer: any proof that was ever given may come back, or none at all.
Verify(pf) ==
  /\ probe # NoProbe
  /\ available' = [nonce |-> probe.nonce, shard |-> probe.shard, ok |-> ProofHolds(pf, probe.nonce, probe.shard)]
  /\ probe' = NoProbe
  /\ UNCHANGED <<durable, volatile, dataRows, metaRows, ramRows, shards, used, opAt, proofs, provedBy, raced, cut, quotaRaced,
                 storeOps, storeCrashes>>

Next == \/ \E ok \in BOOLEAN : Open(ok)
        \/ \E c \in Caller : (\E s \in Shard : StoreShard(c, s) \/ DeleteShard(c, s))
                             \/ WriteData(c) \/ WriteMeta(c) \/ Account(c)
        \/ Crash
        \/ \E s \in Shard : Probe(s)
        \/ RespondToProbe
        \/ \E pf \in proofs \cup {<<0, 0>>} : Verify(pf)

StorageSpec == Init /\ [][Next]_storageVars

----------------------------------------------------------------------------
AtRest == durable # "unknown" /\ \A c \in Caller : opAt[c] = NoOp

\* What the node says it stores it can produce after a restart: unless operations on a shard overlapped
\* or a crash cut a delete short, a known shard has both its rows, on a node that did not ask to forget;
\* the quota accounted for is what the known shards take, within the capacity.
Custody ==
  AtRest /\ raced = {} =>
    /\ ~volatile => \A s \in shards : s \in dataRows \/ s \in cut
    /\ used = SizeOf(shards)
    /\ ~quotaRaced => used <= Capacity

\* A verdict of availability is the answer of the node to this very probe, from bytes it read for it.
ProvenHeld == available.nonce > 0 /\ available.ok => <<available.nonce, available.shard>> \in provedBy
=============================================================================
