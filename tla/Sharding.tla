------------------------------ MODULE Sharding ------------------------------
(***************************************************************************)
(* Erasure coding of a payload (storage-compute/src/sharding.js): k data   *)
(* shards, m parity shards, each the exclusive or of every m-th data       *)
(* shard.  A chunk is one bit: the code treats every byte alike.           *)
(***************************************************************************)
EXTENDS Integers, FiniteSetsExt, SequencesExt

CONSTANTS
  DataCounts, ParityCounts      \* the k and the m that encode is called with

VARIABLES
  k, m, needed,   \* needed: chunks that hold payload, the others are padding
  chunks,         \* the data shards, padded with zeros
  stamped,        \* the shards carry parityCount (legacy ones do not)
  given,          \* indices of the shards there are
  decoded         \* what the last decode or reconstruct returned: [by, out]

shardingVars == <<k, m, needed, chunks, stamped, given, decoded>>

Bit == {0, 1}
Xor(S) == Cardinality({j \in S : chunks[j] = 1}) % 2
Nothing == [by |-> "none", out |-> << >>]
Refusal == [by |-> "refused", out |-> << >>]

\* encode: the payload cut into k chunks of equal length, the last ones padded.
Init ==
  /\ k \in DataCounts /\ m \in ParityCounts /\ needed \in 1 .. k
  /\ chunks \in {c \in [0 .. k - 1 -> Bit] : \A j \in needed .. k - 1 : c[j] = 0}
  /\ stamped \in BOOLEAN
  /\ given = 0 .. k + m - 1
  /\ decoded = Nothing

\* parity[i]: the data shards i, i + m, i + 2m, ...
Parity(i) == Xor({j \in 0 .. k - 1 : j % m = i})
DataGiven == given \cap 0 .. k - 1
ParityGiven == {i \in given : i >= k}
Payload == [j \in 0 .. needed - 1 |-> chunks[j]]

Lose(i) ==
  /\ i \in given
  /\ given' = given \ {i} /\ decoded' = Nothing
  /\ UNCHANGED <<k, m, needed, chunks, stamped>>

\* decode derives k from the lowest parity index it was given.
DecodedK == IF ParityGiven # {} THEN Min(ParityGiven) ELSE needed

\* Mutant: the group is not looked at before the exclusive or.
GroupCompleteNot(i) == TRUE
GroupComplete(i) == \A j \in 0 .. DecodedK - 1 : (j % m = i % m /\ j # i) => j \in DataGiven

\* Parity shard DecodedK + i % m and the rest of the group give a missing chunk.
Recoverable(i) ==
  /\ stamped /\ m > 0
  /\ DecodedK + (i % m) \in ParityGiven
  /\ GroupComplete(i)
Recovered(i) ==
  LET others == {j \in DataGiven : j < DecodedK /\ j % m = i % m /\ j # i} IN
    (Parity(DecodedK + (i % m) - k) + Xor(others)) % 2

Decode ==
  /\ given # {} /\ decoded = Nothing
  /\ LET missing == (0 .. needed - 1) \ DataGiven IN
     decoded' = IF \E i \in missing : ~Recoverable(i) THEN Refusal
                ELSE [by |-> "decode",
                      out |-> [i \in 0 .. needed - 1 |-> IF i \in missing THEN Recovered(i) ELSE chunks[i]]]
  /\ UNCHANGED <<k, m, needed, chunks, stamped, given>>

\* reconstruct: the data shards there are, one after the other, cut to the length of the payload.
Reconstruct ==
  /\ DataGiven # {} /\ decoded = Nothing
  /\ LET held == SetToSortSeq(DataGiven, <) IN
     decoded' = [by |-> "reconstruct",
                 out |-> [i \in 0 .. Min({needed, Len(held)}) - 1 |-> chunks[held[i + 1]]]]
  /\ UNCHANGED <<k, m, needed, chunks, stamped, given>>

Next == (\E i \in given : Lose(i)) \/ Decode \/ Reconstruct

ShardingSpec == Init /\ [][Next]_shardingVars

----------------------------------------------------------------------------
\* "A storage layer that hands back silently corrupted bytes is worse than one that fails": decode
\* returns the payload or refuses, whatever shards are lost.
DecodeExact == decoded.by = "decode" => decoded.out = Payload

\* The same where the lowest parity shard is not among the losses or no parity shard is left; and it
\* does not refuse when every lost chunk has its parity shard and the rest of its group.
DecodeExactWithFirst ==
  (ParityGiven = {} \/ k \in given) =>
    /\ decoded.by = "decode" => decoded.out = Payload
    /\ decoded.by = "refused" =>
         \E i \in (0 .. needed - 1) \ DataGiven :
           stamped /\ m > 0 /\ k + (i % m) \in given =>
             \E j \in 0 .. k - 1 : j % m = i % m /\ j # i /\ j \notin given

\* reconstruct with every data shard gives the payload.
ReconstructWhole ==
  (decoded.by = "reconstruct" /\ 0 .. needed - 1 \subseteq given) => decoded.out = Payload
=============================================================================
