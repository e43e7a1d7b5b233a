------------------------------ MODULE MCContent ------------------------------
(***************************************************************************)
(* What a node computes from the data it holds, on small instances: state  *)
(* and its commitment, the queue of anchors, coordinates and placement,    *)
(* mined identifiers, proofs, sealed secrets, and shards.  They share no   *)
(* state, so each behaviour exercises one of them, the one Init chooses.   *)
(* The comment of each part, in the module it comes from, names the races  *)
(* that the part leaves out.  Content.cfg gives the constants of the state *)
(* machine, the queue and the mined identifiers their values; what is said *)
(* of these three is proved for all values, at the end.                    *)
(***************************************************************************)
EXTENDS Integers, Sequences, FiniteSets, FiniteSetTheorems, WellFoundedInduction, TLC, TLAPS

CONSTANTS
  k1, k2, k3,                                               \* the state keys of the run
  Key, Writes, Canon, Task, MaxStart, MaxBoot,              \* StateMachine
  Event, MaxAttempts, MaxEnqueue, MaxCrash, MaxLog,         \* TxQueue
  Data, Anonymous, Impossible, Code, MaxNonce, MinedMax     \* Micromine

\* A block writes some keys, finitely many, and a key is not a set of keys.
ASSUME KeyAssumption ==
  /\ \A w \in SUBSET Key : w \notin Key
  /\ \A w \in Writes : w \subseteq Key /\ IsFiniteSet(w)
  /\ Canon \in Seq(Key)

\* A search for a nonce looks at the numbers up to a last one.
ASSUME SearchAssumption == MaxNonce \in Nat

VARIABLES
  focus,
  held, placed, rows, diffs, diffRows, task, ledgerBlocks, expect, raced, stray, started, boots,
  tree, entries,
  log, open, drain, live, sent, enq, crashes,
  walkLevel, leaf, walked, cubeNumber,
  memo, tx, verdict,
  pool, slotFaces, queue, upFaces, supers,
  stmt, curve, proof, verdicts,
  job, ctx, airProof, airVerdicts,
  keys, terms, sum, noise, env, sealed, altered, opened,
  dataShards, parityShards, needed, chunks, stamped, given, decoded,
  faceOf, cubeFaces, cubeId, average, path, record, refused

stateVars == <<held, placed, rows, diffs, diffRows, task, ledgerBlocks, expect, raced, stray, started, boots>>
trieVars == <<tree, entries>>
anchoringVars == <<log, open, drain, live, sent, enq, crashes>>
coordsVars == <<walkLevel, leaf, walked, cubeNumber>>
typedVars == <<memo, tx, verdict>>
placeVars == <<pool, slotFaces, queue, upFaces, supers>>
curveVars == <<stmt, curve, proof, verdicts>>
traceVars == <<job, ctx, airProof, airVerdicts>>
latticeVars == <<keys, terms, sum, noise, env, sealed, altered, opened>>
shardsVars == <<dataShards, parityShards, needed, chunks, stamped, given, decoded>>
facesVars == <<faceOf, cubeFaces, cubeId, average, path, record, refused>>

State == INSTANCE StateMachine

Trie == INSTANCE Verkle WITH
  KeyHash <- {<<0, 0, 0>>, <<0, 0, 1>>, <<0, 1, 1>>, <<1, 0, 1>>}, Depth <- 3, ValueHash <- {1, 2}

Anchoring == INSTANCE TxQueue

Typed == INSTANCE Micromine

Place == INSTANCE Placement WITH
  MaxLevel <- 2, MaxCube <- 30, Block <- 1 .. 8, Stamp <- <<5, 7, 6, 8, 1, 2, 3, 4>>, FaceSize <- 2, Slots <- 2, LiftSize <- 1,
    Scramble <- 37, Modulus <- 521

Zk == INSTANCE ZeroKnowledge WITH
  P <- 97, Generator <- 5, W <- 5, CurveBound <- 4, CurveDomain <- 16, CurveQueries <- 2,
    CurvePoints <- 2, GrindBits <- 2,
  PublicSets <- {<<<<11, 5>>>>, <<<<11, 5>>, <<13, 40>>>>, <<<<1, 96>>>>},
  SecretSets <- {<<<<21, 7>>>>, <<<<21, 7>>, <<22, 0>>>>}, DerivedXs <- {30},
  Blinds <- {(0 :> 3), (0 :> 3 @@ 1 :> 9), (0 :> 0 @@ 1 :> 0), (0 :> 4 @@ 1 :> 0 @@ 2 :> 1)}, Lucks <- {1, 2},
  AirQueries <- 2, AirPoints <- 1, Blowup <- 2, BlindSpare <- 0,
    ZkMargin <- 2, AirGrind <- 2,
  Rows <- [fib |-> 4, hashchain |-> 2], RC <- 13, Seeds <- {1, 2}, Inputs <- {3, 8}, AirLucks <- {1, 2}

Lattice == INSTANCE Sealing WITH
  Q <- 37, Bytes <- {0, 2}, Uniform <- {5}, Dims <- {1, 2}, MainnetN <- 2, MaxTerms <- 2, KemBits <- 2,
  Shared <- {2}, Receivers <- {"x"}, Secrets <- {"k"}, MemWords <- 6

Shards == INSTANCE Sharding WITH
  DataCounts <- {2, 4}, ParityCounts <- {0, 1, 2}, k <- dataShards, m <- parityShards

Objects == INSTANCE Faces WITH
  FaceId <- {1, 2, 3}, Offered <- <<{1, 5, 7}, {2, 4}, {3, 6}>>, Time <- <<4, 1, 9, 2, 8, 5, 7>>,
    FaceBlocks <- 2, Spread <- 37, Prime <- 257

\* What Content.cfg cannot write: the key sets of the blocks, the anchors and four events, of which
\* two have one kind and differ in a field that is not anchored, and one does not normalise.
SomeWrites == {{k1}, {k2}, {k2, k3}}
TwoAnchors == <<k1, k2>>
SomeEvents ==
  {[kind |-> "taskCreated", status |-> "open", fields |-> [id |-> 1, note |-> 1]],
   [kind |-> "taskCreated", status |-> "open", fields |-> [id |-> 1, note |-> 2]],
   [kind |-> "taskVerified", status |-> "open", fields |-> [id |-> 1]],
   [kind |-> "settlementExecuted", status |-> "settled", fields |-> [id |-> 1]]}

Init ==
  /\ focus \in {"state", "trie", "anchoring", "coords", "typed", "place", "curve", "trace", "lattice",
    "shards", "faces"}
  /\ State!Init /\ Trie!Init /\ Anchoring!Init /\ Place!WalkInit /\ Typed!Init /\ Place!Init /\ Zk!XzkInit /\ Zk!AirInit /\ Lattice!SealInit /\ Shards!Init /\ Objects!Init
  /\ focus # "anchoring" => live = FALSE
  /\ focus # "coords" => walkLevel = 1
  /\ focus # "faces" => path = "slot"
  /\ focus # "shards" => dataShards = 2 /\ parityShards = 0 /\ needed = 1 /\ chunks[0] = 0 /\ ~stamped

Next ==
  /\ UNCHANGED focus
  /\ \/ /\ focus = "state" /\ State!Next
        /\ UNCHANGED <<trieVars, anchoringVars, coordsVars, typedVars, placeVars, curveVars, traceVars,
             latticeVars, shardsVars, facesVars>>
     \/ /\ focus = "trie" /\ Trie!Next
        /\ UNCHANGED <<stateVars, anchoringVars, coordsVars, typedVars, placeVars, curveVars, traceVars,
             latticeVars, shardsVars, facesVars>>
     \/ /\ focus = "anchoring" /\ Anchoring!Next
        /\ UNCHANGED <<stateVars, trieVars, coordsVars, typedVars, placeVars, curveVars, traceVars,
             latticeVars, shardsVars, facesVars>>
     \/ /\ focus = "coords" /\ Place!WalkNext
        /\ UNCHANGED <<stateVars, trieVars, anchoringVars, typedVars, placeVars, curveVars, traceVars,
             latticeVars, shardsVars, facesVars>>
     \/ /\ focus = "typed" /\ Typed!Next
        /\ UNCHANGED <<stateVars, trieVars, anchoringVars, coordsVars, placeVars, curveVars, traceVars,
             latticeVars, shardsVars, facesVars>>
     \/ /\ focus = "place" /\ Place!Next
        /\ UNCHANGED <<stateVars, trieVars, anchoringVars, coordsVars, typedVars, curveVars, traceVars,
             latticeVars, shardsVars, facesVars>>
     \/ /\ focus = "curve" /\ Zk!XzkNext
        /\ UNCHANGED <<stateVars, trieVars, anchoringVars, coordsVars, typedVars, placeVars, traceVars,
             latticeVars, shardsVars, facesVars>>
     \/ /\ focus = "trace" /\ Zk!AirNext
        /\ UNCHANGED <<stateVars, trieVars, anchoringVars, coordsVars, typedVars, placeVars, curveVars,
             latticeVars, shardsVars, facesVars>>
     \/ /\ focus = "lattice" /\ Lattice!SealNext
        /\ UNCHANGED <<stateVars, trieVars, anchoringVars, coordsVars, typedVars, placeVars, curveVars,
             traceVars, shardsVars, facesVars>>
     \/ /\ focus = "shards" /\ Shards!Next
        /\ UNCHANGED <<stateVars, trieVars, anchoringVars, coordsVars, typedVars, placeVars, curveVars,
             traceVars, latticeVars, facesVars>>
     \/ /\ focus = "faces" /\ Objects!Next
        /\ UNCHANGED <<stateVars, trieVars, anchoringVars, coordsVars, typedVars, placeVars, curveVars,
             traceVars, latticeVars, shardsVars>>

vars == <<focus, stateVars, trieVars, anchoringVars, coordsVars, typedVars, placeVars, curveVars,
    traceVars, latticeVars, shardsVars, facesVars>>

Spec == Init /\ [][Next]_vars

\* The root of a node at rest is the one its blocks promise and the diffs on disk are those of its
\* rows, through overlapping applications, rebuilds, evictions and restarts.
RootIsPromise == focus = "state" => State!RootIsPromise /\ State!DiffsMatchRows

\* The root depends on the entries alone and never on their history, and a proof verifies for what
\* the trie holds and for nothing else.
TrieSound == focus = "trie" => Trie!RootCommits /\ Trie!ShapeCanonical /\ Trie!ProofsSound

\* An event that was queued is pending in the log or was sent, through crashes of the drain at any
\* await, and it is sent at most once for each time it was queued and once more for each crash;
\* unless an append landed on a cut line.
NothingLost == focus = "anchoring" => Anchoring!NothingLost /\ Anchoring!SubmitBounded

\* A mined identifier that is accepted is that of its content and its type, also when the memo
\* answered, and two typed transactions never share a state key; what consensus admits the ledger
\* accepts.  (The two about the table alone are looked at between two transactions.)
AcceptedIsContent ==
  focus = "typed" => /\ Typed!AcceptedIsContent
                     /\ tx = Typed!NoTx => Typed!MemoRight /\ Typed!OneKeyEach

\* What the node places verifies as placed by the rule, no block or face is in two places, and the
\* slots of a level advance together; no two blocks of a cube and no two cubes of a level share
\* coordinates, and extraction visits every leaf once and in order; a backfill puts blocks only
\* where they are; and a cube is its blocks, whatever order they came in and whichever path sealed it.
PlacementVerifies ==
  /\ focus = "place" => Place!PlacementVerifies /\ Place!Conserved /\ Place!CubesKeepPace /\ Place!BackfillSound
  /\ focus = "coords" => Place!LeavesApart /\ Place!BlocksApart /\ Place!ExtractionOrdered
  /\ focus = "faces" => Objects!FacesSound

\* An honest proof about a hidden curve or about a computation is accepted, a false statement is
\* refused under the same draws, the verifier goes by its own bounds, and what is opened stays
\* within what the blinding was sized for; a sum of ciphertexts decrypts to the parity of its bits
\* while its noise is inside the budget, and a sealed secret opens for its receiver unaltered or
\* not at all.
ProofsSound ==
  /\ focus = "curve" => Zk!CurveSound
  /\ focus = "trace" => Zk!AirSound
  /\ focus = "lattice" => Lattice!SealingSound

\* With the first parity shard at hand, or none, decoding returns the data or refuses, and refuses
\* only if some chunk cannot be rebuilt; a reconstruction from every data shard returns the data.
DecodeSound == focus = "shards" => Shards!DecodeExactWithFirst /\ Shards!ReconstructWhole

----------------------------------------------------------------------------
(* Proofs.                                                                 *)
(*                                                                         *)
(* The queue.  While no append landed on a cut line, the only torn line is *)
(* the last, so an append changes the verdict on its own hash and on no    *)
(* other.  The entries a drain holds wait in the log, each once; and what  *)
(* was sent, with one more for an entry that waits and one less for the    *)
(* entry between its submit and its mark, is within the bound.             *)

Waits(h) == IF Anchoring!Pending(h) THEN 1 ELSE 0
Between(h) == IF drain.at = "mark" /\ Head(drain.todo) = h THEN 1 ELSE 0

LogLine == [type : {"enqueue", "done", "torn"}, hash : Anchoring!Hash \cup {<<>>}]
LogTyped ==
  /\ log \in Seq(LogLine)
  /\ \A i \in 1 .. Len(log) : log[i].type # "torn" => log[i].hash \in Anchoring!Hash

QueueType ==
  /\ LogTyped
  /\ open \in BOOLEAN
  /\ drain \in [todo : Seq(Anchoring!Hash), attempt : Nat, at : {"idle", "submit", "mark"}]
  /\ live \in BOOLEAN
  /\ sent \in [Anchoring!Hash -> Nat]
  /\ enq \in [Anchoring!Hash -> Nat]
  /\ crashes \in Nat

Clean ==
  /\ \A h \in Anchoring!Hash : enq[h] > 0 => Anchoring!Pending(h) \/ (live => sent[h] > 0)
  /\ \A h \in Anchoring!Hash : sent[h] + Waits(h) - Between(h) <= enq[h] + crashes
  /\ \A i \in 1 .. Len(drain.todo) : Anchoring!Pending(drain.todo[i])
  /\ drain.at = "mark" /\ live => sent[Head(drain.todo)] > 0

QueueInv ==
  /\ QueueType
  /\ open => Len(log) > 0 /\ log[Len(log)].type = "torn"
  /\ drain.at # "idle" => drain.todo # <<>>
  /\ \A i, j \in 1 .. Len(drain.todo) : i # j => drain.todo[i] # drain.todo[j]
  /\ ~Anchoring!Spoiled => Clean

LEMMA LogStaysTyped ==
  ASSUME QueueType,
         \/ log' = log
         \/ log' = Append(log, Anchoring!Torn)
         \/ \E h \in Anchoring!Hash, t \in {"enqueue", "done"} : log' = Append(log, Anchoring!Line(t, h))
  PROVE  LogTyped'
<1>1. log \in Seq(LogLine) /\ \A i \in 1 .. Len(log) : log[i].type # "torn" => log[i].hash \in Anchoring!Hash
  BY DEF QueueType, LogTyped
<1>2. CASE log' = log
  BY <1>1, <1>2 DEF LogTyped, LogLine
<1>3. ASSUME NEW l \in LogLine, l.type # "torn" => l.hash \in Anchoring!Hash, log' = Append(log, l) PROVE LogTyped'
  BY <1>1, <1>3 DEF LogTyped, LogLine
<1>4. CASE log' = Append(log, Anchoring!Torn)
  BY <1>3, <1>4 DEF Anchoring!Torn, LogLine
<1>5. CASE \E h \in Anchoring!Hash, t \in {"enqueue", "done"} : log' = Append(log, Anchoring!Line(t, h))
  BY <1>3, <1>5 DEF Anchoring!Line, LogLine
<1> QED
  BY <1>2, <1>4, <1>5

\* An append to a log that does not end in a cut line changes whether its own hash waits, and
\* nothing else.
LEMMA AppendDecides ==
  ASSUME QueueType, ~open, ~Anchoring!Spoiled, NEW h \in Anchoring!Hash, NEW t \in {"enqueue", "done"},
         log' = Append(log, Anchoring!Line(t, h)), open' = FALSE
  PROVE  /\ ~Anchoring!Spoiled'
         /\ Anchoring!Pending(h)' <=> t = "enqueue"
         /\ \A g \in Anchoring!Hash \ {h} : Anchoring!Pending(g)' <=> Anchoring!Pending(g)
<1> DEFINE n == Len(log)
<1>1. /\ n \in Nat /\ Len(log') = n + 1 /\ log'[n + 1] = [type |-> t, hash |-> h]
      /\ \A i \in 1 .. n : log'[i] = log[i] /\ log[i] \in LogLine
  <2>1. log \in Seq(LogLine)
    BY DEF QueueType, LogTyped, LogLine
  <2>2. log' = Append(log, [type |-> t, hash |-> h])
    BY DEF Anchoring!Line
  <2> QED
    BY <2>1, <2>2
<1>2. \A i \in 1 .. n : log[i].type # "torn"
  BY DEF Anchoring!Spoiled
<1>3. \A i \in 1 .. n + 1 : log'[i].type # "torn"
  <2>1. ASSUME NEW i \in 1 .. n + 1 PROVE log'[i].type # "torn"
    <3>1. i \in 1 .. n \/ i = n + 1
      BY <1>1
    <3> QED
      BY <3>1, <1>1, <1>2
  <2> QED
    BY <2>1
<1>4. Anchoring!Read = 1 .. n /\ Anchoring!Read' = 1 .. n + 1
  BY <1>1, <1>2, <1>3 DEF Anchoring!Read
<1>5. ~Anchoring!Spoiled'
  BY <1>1, <1>3 DEF Anchoring!Spoiled
<1> HIDE DEF n
<1>6. Anchoring!Waiting = {i \in 1 .. n : log[i].type = "enqueue" /\ \A j \in 1 .. n : j > i => log[j].hash # log[i].hash}
  BY <1>4 DEF Anchoring!Waiting
<1>7. Anchoring!Waiting' =
        {i \in 1 .. n + 1 : log'[i].type = "enqueue" /\ \A j \in 1 .. n + 1 : j > i => log'[j].hash # log'[i].hash}
  BY <1>4 DEF Anchoring!Waiting
<1>8. ASSUME NEW i \in 1 .. n PROVE i \in Anchoring!Waiting' <=> i \in Anchoring!Waiting /\ log[i].hash # h
  <2>1. i \in 1 .. n + 1 /\ n + 1 \in 1 .. n + 1 /\ n + 1 > i
    BY <1>1
  <2>2. i \in Anchoring!Waiting' => i \in Anchoring!Waiting /\ log[i].hash # h
    BY <2>1, <1>1, <1>6, <1>7
  <2>3. ASSUME i \in Anchoring!Waiting, log[i].hash # h PROVE i \in Anchoring!Waiting'
    <3>1. ASSUME NEW j \in 1 .. n + 1, j > i PROVE log'[j].hash # log'[i].hash
      <4>1. j \in 1 .. n \/ j = n + 1
        BY <1>1
      <4> QED
        BY <4>1, <3>1, <2>3, <1>1, <1>6
    <3> QED
      BY <3>1, <2>1, <2>3, <1>1, <1>6, <1>7
  <2> QED
    BY <2>2, <2>3
<1>9. n + 1 \in Anchoring!Waiting' <=> t = "enqueue"
  BY <1>1, <1>7
<1>10. Anchoring!Waiting' \subseteq 1 .. n + 1 /\ Anchoring!Waiting \subseteq 1 .. n
  BY <1>6, <1>7
<1>11. Anchoring!Pending(h)' <=> t = "enqueue"
  <2>1. ASSUME NEW i \in Anchoring!Waiting', log'[i].hash = h PROVE t = "enqueue"
    <3>1. i \in 1 .. n \/ i = n + 1
      BY <1>1, <1>10
    <3> QED
      BY <3>1, <2>1, <1>1, <1>8, <1>9
  <2>2. t = "enqueue" => n + 1 \in Anchoring!Waiting' /\ log'[n + 1].hash = h
    BY <1>1, <1>9
  <2> QED
    BY <2>1, <2>2 DEF Anchoring!Pending
<1>12. ASSUME NEW g \in Anchoring!Hash \ {h} PROVE Anchoring!Pending(g)' <=> Anchoring!Pending(g)
  <2>1. ASSUME NEW i \in Anchoring!Waiting', log'[i].hash = g PROVE i \in Anchoring!Waiting /\ log[i].hash = g
    <3>1. i \in 1 .. n \/ i = n + 1
      BY <1>1, <1>10
    <3> QED
      BY <3>1, <2>1, <1>1, <1>8
  <2>2. ASSUME NEW i \in Anchoring!Waiting, log[i].hash = g PROVE i \in Anchoring!Waiting' /\ log'[i].hash = g
    BY <2>2, <1>1, <1>8, <1>10
  <2> QED
    BY <2>1, <2>2 DEF Anchoring!Pending
<1> QED
  BY <1>5, <1>11, <1>12

\* A cut line at the end changes nothing of what waits.
LEMMA CutDecidesNothing ==
  ASSUME QueueType, ~open, ~Anchoring!Spoiled, log' = Append(log, Anchoring!Torn), open' = TRUE
  PROVE  /\ ~Anchoring!Spoiled'
         /\ \A g \in Anchoring!Hash : Anchoring!Pending(g)' <=> Anchoring!Pending(g)
<1> DEFINE n == Len(log)
<1>1. /\ n \in Nat /\ Len(log') = n + 1 /\ log'[n + 1] = [type |-> "torn", hash |-> <<>>]
      /\ \A i \in 1 .. n : log'[i] = log[i]
  BY DEF QueueType, LogTyped, Anchoring!Torn
<1>2. \A i \in 1 .. n : log[i].type # "torn"
  BY DEF Anchoring!Spoiled
<1>3. Anchoring!Read = 1 .. n
  BY <1>1, <1>2 DEF Anchoring!Read
<1>4. Anchoring!Read' = 1 .. n
  <2>1. ASSUME NEW i \in 1 .. n + 1 PROVE i \in Anchoring!Read' <=> i \in 1 .. n
    <3>1. i \in 1 .. n => \A j \in 1 .. i : j \in 1 .. n
      BY <1>1
    <3>2. i \in 1 .. n \/ i = n + 1
      BY <1>1
    <3>3. n + 1 \in 1 .. (n + 1)
      BY <1>1
    <3>4. n + 1 \notin Anchoring!Read'
      BY <1>1, <3>3 DEF Anchoring!Read
    <3> QED
      BY <3>1, <3>2, <3>4, <1>1, <1>2 DEF Anchoring!Read
  <2>2. Anchoring!Read' \subseteq 1 .. n + 1
    BY <1>1 DEF Anchoring!Read
  <2>3. 1 .. n \subseteq 1 .. n + 1
    BY <1>1
  <2> QED
    BY <2>1, <2>2, <2>3
<1>5. ~Anchoring!Spoiled'
  BY <1>1, <1>2 DEF Anchoring!Spoiled
<1> HIDE DEF n
<1>6. Anchoring!Waiting' = Anchoring!Waiting /\ Anchoring!Waiting \subseteq 1 .. n
  BY <1>1, <1>3, <1>4 DEF Anchoring!Waiting
<1> QED
  BY <1>1, <1>5, <1>6 DEF Anchoring!Pending

\* What is spoiled stays so, and an append onto a cut line spoils.
LEMMA SpoiledStays ==
  ASSUME QueueType, Anchoring!Spoiled,
         \/ log' = log /\ open' = open
         \/ \E h \in Anchoring!Hash, t \in {"enqueue", "done"} : log' = Anchoring!Appended(Anchoring!Line(t, h)) /\ open' = FALSE
         \/ ~open /\ log' = Append(log, Anchoring!Torn)
  PROVE  Anchoring!Spoiled'
<1>1. PICK i \in 1 .. Len(log) : log[i].type = "torn" /\ ~(open /\ i = Len(log))
  BY DEF Anchoring!Spoiled
<1>2. CASE log' = log /\ open' = open
  BY <1>1, <1>2 DEF Anchoring!Spoiled
<1>3. CASE \E h \in Anchoring!Hash, t \in {"enqueue", "done"} : log' = Anchoring!Appended(Anchoring!Line(t, h)) /\ open' = FALSE
  <2>1. /\ Len(log') \in Nat /\ i \in 1 .. Len(log') /\ log'[i] = log[i] /\ open' = FALSE
    BY <1>1, <1>3 DEF QueueType, LogTyped, Anchoring!Appended, Anchoring!Line
  <2> QED
    BY <1>1, <2>1 DEF Anchoring!Spoiled
<1>4. CASE ~open /\ log' = Append(log, Anchoring!Torn)
  <2>1. i \in 1 .. Len(log') /\ log'[i] = log[i] /\ i # Len(log')
    BY <1>1, <1>4 DEF QueueType, LogTyped, Anchoring!Torn
  <2> QED
    BY <1>1, <2>1 DEF Anchoring!Spoiled
<1> QED
  BY <1>2, <1>3, <1>4


\* Every step of the queue keeps its invariant.
LEMMA QueueInit == Anchoring!Init => QueueInv
<1> SUFFICES ASSUME Anchoring!Init PROVE QueueInv
  OBVIOUS
<1>1. QueueType
  <2>1. drain \in [todo : Seq(Anchoring!Hash), attempt : Nat, at : {"idle", "submit", "mark"}]
    BY DEF Anchoring!Init, Anchoring!NoDrain
  <2>2. log = <<>> /\ Len(log) = 0 /\ 1 .. Len(log) = {} /\ log \in Seq(LogLine)
    BY DEF Anchoring!Init
  <2>3. open \in BOOLEAN /\ live \in BOOLEAN /\ crashes \in Nat
    BY DEF Anchoring!Init
  <2>4. sent \in [Anchoring!Hash -> Nat] /\ enq \in [Anchoring!Hash -> Nat]
    BY DEF Anchoring!Init
  <2> QED
    BY <2>1, <2>2, <2>3, <2>4 DEF QueueType, LogTyped
<1>2. \A h \in Anchoring!Hash : Waits(h) = 0 /\ Between(h) = 0 /\ enq[h] = 0 /\ sent[h] = 0
  BY DEF Anchoring!Init, Anchoring!NoDrain, Waits, Between, Anchoring!Pending, Anchoring!Waiting, Anchoring!Read
<1> QED
  BY <1>1, <1>2 DEF Anchoring!Init, Anchoring!NoDrain, QueueInv, Clean

LEMMA QueueOnEvent == QueueInv /\ (\E e \in Event : Anchoring!OnEvent(e)) => QueueInv'
<1> SUFFICES ASSUME QueueInv, NEW e \in Event, Anchoring!OnEvent(e) PROVE QueueInv'
  OBVIOUS
<1> DEFINE h == Anchoring!normalizeEvent(e)
<1>1. h \in Anchoring!Hash
  BY DEF Anchoring!OnEvent, Anchoring!Hash
<1>2. /\ log' = Anchoring!Appended(Anchoring!Line("enqueue", h)) /\ open' = FALSE
      /\ enq' = [enq EXCEPT ![h] = @ + 1]
      /\ UNCHANGED <<drain, live, sent, crashes>>
  BY DEF Anchoring!OnEvent
<1> HIDE DEF h
<1>3. QueueType'
  <2>1. QueueType
    BY DEF QueueInv
  <2>2. log' = log \/ log' = Append(log, Anchoring!Line("enqueue", h))
    BY <1>2 DEF Anchoring!Appended
  <2>3. LogTyped'
    BY <1>1, <2>1, <2>2, LogStaysTyped
  <2>4. enq' \in [Anchoring!Hash -> Nat]
    BY <1>1, <1>2, <2>1 DEF QueueType, LogTyped
  <2> QED
    BY <1>2, <2>1, <2>3, <2>4 DEF QueueType, LogTyped, LogTyped
<1>4. ASSUME ~Anchoring!Spoiled' PROVE Clean'
  <2>1. ~Anchoring!Spoiled
    BY <1>1, <1>2, <1>4, SpoiledStays DEF QueueInv
  <2>2. ~open
    BY <1>2, <1>4 DEF QueueInv, QueueType, LogTyped, Anchoring!Appended, Anchoring!Spoiled
  <2>3. log' = Append(log, Anchoring!Line("enqueue", h))
    BY <1>2, <2>2 DEF Anchoring!Appended
  <2>4. /\ Anchoring!Pending(h)'
        /\ \A g \in Anchoring!Hash \ {h} : Anchoring!Pending(g)' <=> Anchoring!Pending(g)
    BY <1>1, <1>2, <2>1, <2>2, <2>3, AppendDecides DEF QueueInv
  <2>5. Clean /\ QueueType
    BY <2>1 DEF QueueInv
  <2>6. \A g \in Anchoring!Hash : Between(g)' = Between(g)
    BY <1>2 DEF Between
  <2>7. \A g \in Anchoring!Hash : (sent[g] + Waits(g) - Between(g) <= enq[g] + crashes)'
    <3>1. ASSUME NEW g \in Anchoring!Hash PROVE (sent[g] + Waits(g) - Between(g) <= enq[g] + crashes)'
      <4>1. /\ enq[g] \in Nat /\ sent[g] \in Nat /\ crashes \in Nat /\ Between(g) \in {0, 1} /\ Waits(g) \in {0, 1}
            /\ sent[g] + Waits(g) - Between(g) <= enq[g] + crashes
        BY <2>5 DEF Clean, QueueType, LogTyped, Between, Waits
      <4>2. enq'[g] = (IF g = h THEN enq[g] + 1 ELSE enq[g]) /\ sent'[g] = sent[g] /\ crashes' = crashes
        BY <1>1, <1>2, <2>5 DEF QueueType, LogTyped
      <4>3. Waits(g)' = (IF g = h THEN 1 ELSE Waits(g))
        BY <2>4 DEF Waits
      <4> QED
        BY <4>1, <4>2, <4>3, <2>6
    <3> QED
      BY <3>1
  <2>8. \A g \in Anchoring!Hash : enq'[g] > 0 => Anchoring!Pending(g)' \/ (live' => sent'[g] > 0)
    BY <1>1, <1>2, <2>4, <2>5 DEF Clean, QueueType, LogTyped
  <2>9. (\A i \in 1 .. Len(drain.todo) : Anchoring!Pending(drain.todo[i]))'
    <3>1. \A i \in 1 .. Len(drain.todo) : drain.todo[i] \in Anchoring!Hash /\ Anchoring!Pending(drain.todo[i])
      BY <2>5 DEF Clean, QueueType, LogTyped
    <3>2. \A g \in Anchoring!Hash : Anchoring!Pending(g) => Anchoring!Pending(g)'
      BY <2>4
    <3>3. drain' = drain
      BY <1>2
    <3> QED
      BY <3>1, <3>2, <3>3
  <2>10. drain'.at = "mark" /\ live' => sent'[Head(drain'.todo)] > 0
    BY <1>2, <2>5 DEF Clean
  <2> QED
    BY <2>7, <2>8, <2>9, <2>10 DEF Clean
<1> QED
  BY <1>2, <1>3, <1>4 DEF QueueInv

\* The snapshot of a drain: every entry waits and none is in it twice.
LEMMA SnapshotWaits ==
  ASSUME QueueType, NEW todo \in Anchoring!pending
  PROVE  /\ todo \in Seq(Anchoring!Hash) /\ todo # <<>>
         /\ \A i \in 1 .. Len(todo) : Anchoring!Pending(todo[i])
         /\ \A i, j \in 1 .. Len(todo) : i # j => todo[i] # todo[j]
<1>1. PICK at \in Anchoring!InOrder : todo = [j \in DOMAIN at |-> log[at[j]].hash]
  BY DEF Anchoring!pending
<1>2. /\ at \in UNION {[1 .. m -> Anchoring!Waiting] : m \in 1 .. Len(log)}
      /\ \A i, j \in DOMAIN at : i < j => at[i] < at[j]
  BY DEF Anchoring!InOrder
<1>3. PICK n \in 1 .. Len(log) : at \in [1 .. n -> Anchoring!Waiting]
  BY <1>2
<1>4. /\ at \in [1 .. n -> Anchoring!Waiting] /\ DOMAIN at = 1 .. n
      /\ \A i, j \in 1 .. n : i < j => at[i] < at[j]
      /\ todo = [j \in 1 .. n |-> log[at[j]].hash]
  BY <1>1, <1>2, <1>3
<1>5. n \in Nat \ {0}
  BY <1>3 DEF QueueType, LogTyped
<1>6. \A i \in Anchoring!Waiting : i \in Int /\ i \in Anchoring!Read /\ log[i].hash \in Anchoring!Hash
  <2>1. ASSUME NEW i \in Anchoring!Waiting PROVE i \in Int /\ i \in Anchoring!Read /\ log[i].hash \in Anchoring!Hash
    <3>1. i \in 1 .. Len(log) /\ i \in Anchoring!Read /\ log[i].type # "torn"
      BY DEF Anchoring!Waiting, Anchoring!Read
    <3> QED
      BY <3>1 DEF QueueType, LogTyped
  <2> QED
    BY <2>1
<1>7. todo \in Seq(Anchoring!Hash) /\ Len(todo) = n /\ todo # <<>>
  <2>1. \A j \in 1 .. n : at[j] \in Anchoring!Waiting /\ log[at[j]].hash \in Anchoring!Hash
    BY <1>6, <1>4
  <2>2. todo \in [1 .. n -> Anchoring!Hash]
    BY <1>4, <2>1
  <2> QED
    BY <1>5, <2>2
<1>8. \A i \in 1 .. n : Anchoring!Pending(todo[i])
  BY <1>4 DEF Anchoring!Pending
<1>9. \A a, b \in Anchoring!Waiting : a < b => log[a].hash # log[b].hash
  BY <1>6 DEF Anchoring!Waiting
<1>10. ASSUME NEW i \in 1 .. n, NEW j \in 1 .. n, i < j PROVE todo[i] # todo[j]
  BY <1>4, <1>9, <1>10
<1>11. \A i, j \in 1 .. n : i # j => i < j \/ j < i
  BY <1>5
<1> QED
  BY <1>7, <1>8, <1>10, <1>11

LEMMA QueueDrainStart == QueueInv /\ Anchoring!DrainStart => QueueInv'
<1> SUFFICES ASSUME QueueInv, Anchoring!DrainStart PROVE QueueInv'
  OBVIOUS
<1>1. PICK todo \in Anchoring!pending : drain' = [todo |-> todo, attempt |-> 1, at |-> "submit"]
  BY DEF Anchoring!DrainStart
<1>2. drain.at = "idle" /\ UNCHANGED <<log, open, live, sent, enq, crashes>>
  BY DEF Anchoring!DrainStart
<1>3. /\ todo \in Seq(Anchoring!Hash) /\ todo # <<>>
      /\ \A i \in 1 .. Len(todo) : Anchoring!Pending(todo[i])
      /\ \A i, j \in 1 .. Len(todo) : i # j => todo[i] # todo[j]
  BY SnapshotWaits DEF QueueInv
<1>4. QueueType'
  BY <1>1, <1>2, <1>3 DEF QueueInv, QueueType, LogTyped
<1>5. /\ \A h \in Anchoring!Hash : Anchoring!Pending(h)' <=> Anchoring!Pending(h)
      /\ Anchoring!Spoiled' <=> Anchoring!Spoiled
      /\ \A h \in Anchoring!Hash : Waits(h)' = Waits(h) /\ Between(h)' = 0 /\ Between(h) = 0
  BY <1>1, <1>2 DEF Anchoring!Pending, Anchoring!Waiting, Anchoring!Read, Anchoring!Spoiled, Waits, Between
<1>6. ~Anchoring!Spoiled' => Clean'
  BY <1>1, <1>2, <1>3, <1>5 DEF QueueInv, Clean
<1> QED
  BY <1>1, <1>2, <1>3, <1>4, <1>6 DEF QueueInv


LEMMA TailIs ==
  ASSUME NEW S, NEW s \in Seq(S), s # <<>>
  PROVE  /\ Len(s) \in Nat \ {0} /\ Head(s) = s[1] /\ Head(s) \in S
         /\ Tail(s) \in Seq(S) /\ Len(Tail(s)) = Len(s) - 1
         /\ \A i \in 1 .. Len(s) - 1 : Tail(s)[i] = s[i + 1]
         /\ Len(s) # 1 => Tail(s) # <<>>
<1>1. Len(s) \in Nat \ {0}
  OBVIOUS
<1>2. Tail(s) \in Seq(S) /\ Len(Tail(s)) = Len(s) - 1
  BY <1>1
<1>3. \A i \in 1 .. Len(s) - 1 : Tail(s)[i] = s[i + 1]
  BY <1>1
<1>4. Len(s) # 1 => Len(Tail(s)) # 0
  BY <1>1, <1>2
<1>5. Len(<<>>) = 0
  OBVIOUS
<1> QED
  BY <1>1, <1>2, <1>3, <1>4, <1>5

\* What goes on with the next entry is what was there, without its head.
LEMMA NextEntryKeeps ==
  ASSUME QueueInv, drain.at # "idle", drain' = Anchoring!NextEntry
  PROVE  /\ drain' \in [todo : Seq(Anchoring!Hash), attempt : Nat, at : {"idle", "submit", "mark"}]
         /\ drain'.at # "mark" /\ (drain'.at # "idle" => drain'.todo # <<>>)
         /\ \A i \in 1 .. Len(drain'.todo) : \E j \in 2 .. Len(drain.todo) : drain'.todo[i] = drain.todo[j]
         /\ \A i, j \in 1 .. Len(drain'.todo) : i # j => drain'.todo[i] # drain'.todo[j]
<1>1. /\ drain.todo \in Seq(Anchoring!Hash) /\ drain.todo # <<>>
      /\ \A i, j \in 1 .. Len(drain.todo) : i # j => drain.todo[i] # drain.todo[j]
  BY DEF QueueInv, QueueType
<1>2. CASE Len(drain.todo) = 1
  BY <1>2 DEF Anchoring!NextEntry, Anchoring!NoDrain
<1>3. CASE Len(drain.todo) # 1
  <2>1. drain' = [todo |-> Tail(drain.todo), attempt |-> 1, at |-> "submit"]
    BY <1>3 DEF Anchoring!NextEntry
  <2>2. /\ Tail(drain.todo) \in Seq(Anchoring!Hash)
        /\ Len(Tail(drain.todo)) = Len(drain.todo) - 1 /\ Len(drain.todo) \in Nat /\ Len(drain.todo) > 1
        /\ \A i \in 1 .. Len(drain.todo) - 1 : Tail(drain.todo)[i] = drain.todo[i + 1]
    BY <1>1, <1>3, TailIs
  <2>3. PICK rest \in Seq(Anchoring!Hash) : rest = Tail(drain.todo)
    BY <2>2
  <2>4. /\ drain' = [todo |-> rest, attempt |-> 1, at |-> "submit"]
        /\ Len(rest) = Len(drain.todo) - 1 /\ Len(rest) > 0
        /\ \A i \in 1 .. Len(rest) : rest[i] = drain.todo[i + 1]
    BY <2>1, <2>2, <2>3
  <2>5. \A i \in 1 .. Len(rest) : i + 1 \in 2 .. Len(drain.todo) /\ i + 1 \in 1 .. Len(drain.todo)
    BY <2>2, <2>4
  <2>6. \A i \in 1 .. Len(rest) : \E j \in 2 .. Len(drain.todo) : rest[i] = drain.todo[j]
    BY <2>4, <2>5
  <2>7. \A i, j \in 1 .. Len(rest) : i # j => rest[i] # rest[j]
    BY <1>1, <2>4, <2>5
  <2>8. rest # <<>>
    BY <2>4
  <2>9. drain' \in [todo : Seq(Anchoring!Hash), attempt : Nat, at : {"idle", "submit", "mark"}]
    BY <2>4
  <2>10. drain'.todo = rest /\ drain'.at = "submit"
    BY <2>4
  <2> QED
    BY <2>6, <2>7, <2>8, <2>9, <2>10
<1> QED
  BY <1>2, <1>3

LEMMA SameQueue ==
  ASSUME UNCHANGED <<log, open>>
  PROVE  /\ \A h \in Anchoring!Hash : (Anchoring!Pending(h)' <=> Anchoring!Pending(h)) /\ Waits(h)' = Waits(h)
         /\ Anchoring!Spoiled' <=> Anchoring!Spoiled
BY DEF Anchoring!Pending, Anchoring!Waiting, Anchoring!Read, Anchoring!Spoiled, Waits

LEMMA QueueSubmit == QueueInv /\ Anchoring!Submit => QueueInv'
<1> SUFFICES ASSUME QueueInv, Anchoring!Submit PROVE QueueInv'
  OBVIOUS
<1> DEFINE h == Head(drain.todo)
<1>1. /\ drain.at = "submit" /\ drain' = [drain EXCEPT !.at = "mark"]
      /\ sent' = (IF live THEN [sent EXCEPT ![h] = @ + 1] ELSE sent)
      /\ UNCHANGED <<log, open, live, enq, crashes>>
  BY DEF Anchoring!Submit
<1>2. QueueType /\ drain.todo # <<>> /\ Len(drain.todo) \in Nat /\ 1 \in 1 .. Len(drain.todo)
      /\ h = drain.todo[1] /\ h \in Anchoring!Hash
  BY <1>1 DEF QueueInv, QueueType
<1> HIDE DEF h
<1>3. drain'.todo = drain.todo /\ drain'.at = "mark" /\ drain' \in [todo : Seq(Anchoring!Hash), attempt : Nat, at : {"idle", "submit", "mark"}]
  BY <1>1, <1>2 DEF QueueType
<1>4. QueueType'
  BY <1>1, <1>2, <1>3 DEF QueueType, LogTyped
<1>5. ASSUME ~Anchoring!Spoiled' PROVE Clean'
  <2>1. Clean
    BY <1>1, <1>5, SameQueue DEF QueueInv
  <2>2. Anchoring!Pending(h)
    BY <1>2, <2>1 DEF Clean
  <2>3. \A g \in Anchoring!Hash : /\ Between(g) = 0 /\ Between(g)' = (IF g = h THEN 1 ELSE 0)
                                  /\ Waits(g)' = Waits(g) /\ (Anchoring!Pending(g)' <=> Anchoring!Pending(g))
    BY <1>1, <1>3, SameQueue DEF Between, h
  <2>4. Waits(h) = 1
    BY <2>2 DEF Waits
  <2>5. \A g \in Anchoring!Hash : (sent[g] + Waits(g) - Between(g) <= enq[g] + crashes)'
    <3>1. ASSUME NEW g \in Anchoring!Hash PROVE (sent[g] + Waits(g) - Between(g) <= enq[g] + crashes)'
      <4>1. /\ enq[g] \in Nat /\ sent[g] \in Nat /\ crashes \in Nat /\ Waits(g) \in {0, 1}
            /\ sent[g] + Waits(g) - Between(g) <= enq[g] + crashes
        BY <1>2, <2>1 DEF Clean, QueueType, Waits
      <4>2. sent'[g] = (IF live /\ g = h THEN sent[g] + 1 ELSE sent[g]) /\ enq' = enq /\ crashes' = crashes
        BY <1>1, <1>2 DEF QueueType
      <4> QED
        BY <4>1, <4>2, <2>3, <2>4
    <3> QED
      BY <3>1
  <2>6. \A g \in Anchoring!Hash : enq'[g] > 0 => Anchoring!Pending(g)' \/ (live' => sent'[g] > 0)
    BY <1>1, <1>2, <2>1, <2>3 DEF Clean, QueueType
  <2>7. (\A i \in 1 .. Len(drain.todo) : Anchoring!Pending(drain.todo[i]))'
    <3>1. \A i \in 1 .. Len(drain.todo) : drain.todo[i] \in Anchoring!Hash /\ Anchoring!Pending(drain.todo[i])
      BY <1>2, <2>1 DEF Clean, QueueType
    <3> QED
      BY <3>1, <2>3, <1>3
  <2>8. live' => sent'[Head(drain'.todo)] > 0
    BY <1>1, <1>2, <1>3 DEF QueueType, h
  <2> QED
    BY <2>5, <2>6, <2>7, <2>8 DEF Clean
<1> QED
  BY <1>1, <1>2, <1>3, <1>4, <1>5 DEF QueueInv

LEMMA QueueSubmitFails == QueueInv /\ Anchoring!SubmitFails => QueueInv'
<1> SUFFICES ASSUME QueueInv, Anchoring!SubmitFails PROVE QueueInv'
  OBVIOUS
<1>1. /\ drain.at = "submit"
      /\ drain' = [drain EXCEPT !.attempt = @ + 1] \/ drain' = Anchoring!NextEntry
      /\ UNCHANGED <<log, open, live, sent, enq, crashes>>
  BY DEF Anchoring!SubmitFails
<1>2. QueueType /\ drain.todo # <<>> /\ Len(drain.todo) \in Nat
  BY <1>1 DEF QueueInv, QueueType
<1>3. /\ drain' \in [todo : Seq(Anchoring!Hash), attempt : Nat, at : {"idle", "submit", "mark"}]
      /\ drain'.at # "mark" /\ (drain'.at # "idle" => drain'.todo # <<>>)
      /\ \A i \in 1 .. Len(drain'.todo) : \E j \in 1 .. Len(drain.todo) : drain'.todo[i] = drain.todo[j]
      /\ \A i, j \in 1 .. Len(drain'.todo) : i # j => drain'.todo[i] # drain'.todo[j]
  <2>1. CASE drain' = [drain EXCEPT !.attempt = @ + 1]
    <3>1. drain \in [todo : Seq(Anchoring!Hash), attempt : Nat, at : {"idle", "submit", "mark"}]
      BY <1>2 DEF QueueType
    <3>2. /\ drain' \in [todo : Seq(Anchoring!Hash), attempt : Nat, at : {"idle", "submit", "mark"}]
          /\ drain'.todo = drain.todo /\ drain'.at = "submit"
      BY <1>1, <2>1, <3>1
    <3> QED
      BY <1>2, <3>2 DEF QueueInv
  <2>2. CASE drain' = Anchoring!NextEntry
    <3>1. \A j \in 2 .. Len(drain.todo) : j \in 1 .. Len(drain.todo)
      BY <1>2
    <3> QED
      BY <1>1, <2>2, <3>1, NextEntryKeeps
  <2> QED
    BY <1>1, <2>1, <2>2
<1>4. QueueType'
  BY <1>1, <1>2, <1>3 DEF QueueType, LogTyped
<1>5. ASSUME ~Anchoring!Spoiled' PROVE Clean'
  <2>1. Clean
    BY <1>1, <1>5, SameQueue DEF QueueInv
  <2>2. \A g \in Anchoring!Hash : /\ Between(g) = 0 /\ Between(g)' = 0
                                  /\ Waits(g)' = Waits(g) /\ (Anchoring!Pending(g)' <=> Anchoring!Pending(g))
    BY <1>1, <1>3, SameQueue DEF Between
  <2>3. (\A i \in 1 .. Len(drain.todo) : Anchoring!Pending(drain.todo[i]))'
    <3>1. \A i \in 1 .. Len(drain.todo) : drain.todo[i] \in Anchoring!Hash /\ Anchoring!Pending(drain.todo[i])
      BY <1>2, <2>1 DEF Clean, QueueType
    <3> QED
      BY <3>1, <2>2, <1>3
  <2> QED
    BY <1>1, <1>3, <2>1, <2>2, <2>3 DEF Clean
<1> QED
  BY <1>1, <1>3, <1>4, <1>5 DEF QueueInv


LEMMA QueueMarkDone == QueueInv /\ Anchoring!MarkDone => QueueInv'
<1> SUFFICES ASSUME QueueInv, Anchoring!MarkDone PROVE QueueInv'
  OBVIOUS
<1>1. /\ drain.at = "mark" /\ drain' = Anchoring!NextEntry
      /\ log' = Anchoring!Appended(Anchoring!Line("done", Head(drain.todo))) /\ open' = FALSE
      /\ UNCHANGED <<live, sent, enq, crashes>>
  BY DEF Anchoring!MarkDone
<1>2. /\ QueueType /\ drain.todo \in Seq(Anchoring!Hash) /\ drain.todo # <<>>
      /\ \A i, j \in 1 .. Len(drain.todo) : i # j => drain.todo[i] # drain.todo[j]
  BY <1>1 DEF QueueInv, QueueType
<1>3. Len(drain.todo) \in Nat \ {0} /\ Head(drain.todo) = drain.todo[1] /\ Head(drain.todo) \in Anchoring!Hash
  BY <1>2, TailIs
<1>7. PICK h \in Anchoring!Hash : h = Head(drain.todo)
  BY <1>3
<1>8. h = drain.todo[1] /\ log' = Anchoring!Appended(Anchoring!Line("done", h))
  BY <1>1, <1>3, <1>7
<1>4. /\ drain' \in [todo : Seq(Anchoring!Hash), attempt : Nat, at : {"idle", "submit", "mark"}]
      /\ drain'.at # "mark" /\ (drain'.at # "idle" => drain'.todo # <<>>)
      /\ \A i \in 1 .. Len(drain'.todo) : \E j \in 2 .. Len(drain.todo) : drain'.todo[i] = drain.todo[j]
      /\ \A i, j \in 1 .. Len(drain'.todo) : i # j => drain'.todo[i] # drain'.todo[j]
  BY <1>1, NextEntryKeeps
<1>5. QueueType'
  <2>1. log' = log \/ log' = Append(log, Anchoring!Line("done", h))
    BY <1>8 DEF Anchoring!Appended
  <2>2. LogTyped'
    BY <1>2, <1>3, <2>1, LogStaysTyped
  <2> QED
    BY <1>1, <1>2, <1>4, <2>2 DEF QueueType
<1>6. ASSUME ~Anchoring!Spoiled' PROVE Clean'
  <2>1. ~Anchoring!Spoiled
    BY <1>1, <1>2, <1>8, <1>6, SpoiledStays
  <2>2. ~open
    BY <1>1, <1>6 DEF QueueInv, QueueType, LogTyped, Anchoring!Appended, Anchoring!Spoiled
  <2>3. log' = Append(log, Anchoring!Line("done", h))
    BY <1>8, <2>2 DEF Anchoring!Appended
  <2>4. /\ ~Anchoring!Pending(h)'
        /\ \A g \in Anchoring!Hash \ {h} : Anchoring!Pending(g)' <=> Anchoring!Pending(g)
    BY <1>1, <1>2, <2>1, <2>2, <2>3, AppendDecides
  <2>5. Clean
    BY <2>1 DEF QueueInv
  <2>6. \A g \in Anchoring!Hash : Between(g) = (IF g = h THEN 1 ELSE 0) /\ Between(g)' = 0
    BY <1>1, <1>4, <1>7 DEF Between
  <2>7. \A g \in Anchoring!Hash : (sent[g] + Waits(g) - Between(g) <= enq[g] + crashes)'
    <3>1. ASSUME NEW g \in Anchoring!Hash PROVE (sent[g] + Waits(g) - Between(g) <= enq[g] + crashes)'
      <4>1. /\ enq[g] \in Nat /\ sent[g] \in Nat /\ crashes \in Nat /\ Waits(g) \in {0, 1}
            /\ sent[g] + Waits(g) - Between(g) <= enq[g] + crashes
        BY <1>2, <2>5 DEF Clean, QueueType, Waits
      <4>2. g = h => Waits(g) = 1
        <5>1. Anchoring!Pending(drain.todo[1])
          BY <1>3, <2>5 DEF Clean
        <5> QED
          BY <1>8, <5>1 DEF Waits
      <4>3. Waits(g)' = (IF g = h THEN 0 ELSE Waits(g))
        <5>1. CASE g = h
          BY <5>1, <2>4 DEF Waits
        <5>2. CASE g # h
          BY <5>2, <2>4 DEF Waits
        <5> QED
          BY <5>1, <5>2
      <4> QED
        BY <4>1, <4>2, <4>3, <2>6, <1>1
    <3> QED
      BY <3>1
  <2>8. \A g \in Anchoring!Hash : enq'[g] > 0 => Anchoring!Pending(g)' \/ (live' => sent'[g] > 0)
    <3>1. live => sent[h] > 0
      BY <1>1, <1>7, <2>5 DEF Clean
    <3> QED
      BY <1>1, <2>4, <2>5, <3>1 DEF Clean
  <2>9. (\A i \in 1 .. Len(drain.todo) : Anchoring!Pending(drain.todo[i]))'
    <3>1. ASSUME NEW j \in 2 .. Len(drain.todo) PROVE Anchoring!Pending(drain.todo[j]) /\ drain.todo[j] \in Anchoring!Hash \ {h}
      <4>1. j \in 1 .. Len(drain.todo) /\ 1 \in 1 .. Len(drain.todo) /\ j # 1
        BY <1>3
      <4> QED
        BY <4>1, <1>2, <1>8, <2>5 DEF Clean
    <3>2. ASSUME NEW i \in 1 .. Len(drain'.todo) PROVE Anchoring!Pending(drain.todo[i])'
      <4>1. PICK j \in 2 .. Len(drain.todo) : drain'.todo[i] = drain.todo[j]
        BY <1>4, <3>2
      <4>2. PICK g \in Anchoring!Hash : g = drain.todo[j]
        BY <3>1
      <4>3. Anchoring!Pending(g)'
        BY <4>2, <3>1, <2>4
      <4> QED
        BY <4>1, <4>2, <4>3
    <3> QED
      BY <3>2
  <2> QED
    BY <1>4, <2>7, <2>8, <2>9 DEF Clean
<1> QED
  BY <1>1, <1>4, <1>5, <1>6 DEF QueueInv

LEMMA QueueCrash == QueueInv /\ Anchoring!Crash => QueueInv'
<1> SUFFICES ASSUME QueueInv, Anchoring!Crash PROVE QueueInv'
  OBVIOUS
<1>1. /\ crashes' = crashes + 1 /\ drain' = Anchoring!NoDrain
      /\ UNCHANGED <<live, sent, enq>>
      /\ (log' = log /\ open' = open) \/ (~open /\ log' = Append(log, Anchoring!Torn) /\ open' = TRUE)
  BY DEF Anchoring!Crash
<1>2. QueueType /\ drain'.at = "idle" /\ drain'.todo = <<>>
  BY <1>1 DEF QueueInv, Anchoring!NoDrain
<1>3. drain' \in [todo : Seq(Anchoring!Hash), attempt : Nat, at : {"idle", "submit", "mark"}]
  BY <1>1 DEF Anchoring!NoDrain
<1>4. QueueType'
  <2>1. LogTyped'
    BY <1>1, <1>2, LogStaysTyped
  <2>2. open' \in BOOLEAN
    BY <1>1, <1>2 DEF QueueType
  <2> QED
    BY <1>1, <1>2, <1>3, <2>1, <2>2 DEF QueueType
<1>5. open' => Len(log') > 0 /\ log'[Len(log')].type = "torn"
  <2>1. CASE log' = log /\ open' = open
    BY <2>1 DEF QueueInv
  <2>2. CASE log' = Append(log, Anchoring!Torn)
    <3>1. log \in Seq(LogLine)
      BY <1>2 DEF QueueType, LogTyped
    <3>2. Len(log') = Len(log) + 1 /\ Len(log) \in Nat /\ log'[Len(log) + 1] = Anchoring!Torn
      BY <2>2, <3>1
    <3> QED
      BY <3>2 DEF Anchoring!Torn
  <2> QED
    BY <1>1, <2>1, <2>2
<1>6. ASSUME ~Anchoring!Spoiled' PROVE Clean'
  <2>1. ~Anchoring!Spoiled
    BY <1>1, <1>2, <1>6, SpoiledStays
  <2>2. \A g \in Anchoring!Hash : Anchoring!Pending(g)' <=> Anchoring!Pending(g)
    BY <1>1, <1>2, <2>1, SameQueue, CutDecidesNothing
  <2>3. Clean
    BY <2>1 DEF QueueInv
  <2>4. \A g \in Anchoring!Hash : Waits(g)' = Waits(g) /\ Between(g)' = 0 /\ Between(g) \in {0, 1}
    BY <2>2, <1>2 DEF Waits, Between
  <2>5. \A g \in Anchoring!Hash : (sent[g] + Waits(g) - Between(g) <= enq[g] + crashes)'
    <3>1. ASSUME NEW g \in Anchoring!Hash PROVE (sent[g] + Waits(g) - Between(g) <= enq[g] + crashes)'
      <4>1. /\ enq[g] \in Nat /\ sent[g] \in Nat /\ crashes \in Nat /\ Waits(g) \in {0, 1}
            /\ sent[g] + Waits(g) - Between(g) <= enq[g] + crashes
        BY <1>2, <2>3 DEF Clean, QueueType, Waits
      <4> QED
        BY <4>1, <2>4, <1>1
    <3> QED
      BY <3>1
  <2>6. Len(drain'.todo) = 0 /\ 1 .. Len(drain'.todo) = {}
    BY <1>2
  <2> QED
    BY <1>1, <1>2, <2>2, <2>3, <2>5, <2>6 DEF Clean
<1> QED
  <2>1. 1 .. Len(drain'.todo) = {}
    BY <1>2
  <2> QED
    BY <1>2, <1>4, <1>5, <1>6, <2>1 DEF QueueInv

LEMMA QueueIdles == QueueInv /\ UNCHANGED anchoringVars => QueueInv'
<1> SUFFICES ASSUME QueueInv, UNCHANGED anchoringVars PROVE QueueInv'
  OBVIOUS
<1>1. /\ Anchoring!Spoiled' = Anchoring!Spoiled
      /\ \A h : Anchoring!Pending(h)' = Anchoring!Pending(h) /\ Waits(h)' = Waits(h) /\ Between(h)' = Between(h)
  BY DEF anchoringVars, Anchoring!Spoiled, Anchoring!Pending, Anchoring!Waiting, Anchoring!Read, Waits, Between
<1> QED
  BY <1>1 DEF anchoringVars, QueueInv, QueueType, LogTyped, Clean

LEMMA QueueStep == QueueInv /\ Anchoring!Next => QueueInv'
BY QueueOnEvent, QueueDrainStart, QueueSubmit, QueueSubmitFails, QueueMarkDone, QueueCrash DEF Anchoring!Next

LEMMA QueueSound == QueueInv => Anchoring!NothingLost /\ Anchoring!SubmitBounded
<1> SUFFICES ASSUME QueueInv PROVE Anchoring!NothingLost /\ Anchoring!SubmitBounded
  OBVIOUS
<1>1. CASE Anchoring!Spoiled
  BY <1>1 DEF Anchoring!NothingLost, Anchoring!SubmitBounded
<1>2. CASE ~Anchoring!Spoiled
  <2>1. Clean /\ QueueType
    BY <1>2 DEF QueueInv
  <2>2. ASSUME NEW h \in Anchoring!Hash PROVE sent[h] <= enq[h] + crashes
    <3>1. /\ sent[h] + Waits(h) - Between(h) <= enq[h] + crashes /\ Waits(h) \in {0, 1} /\ Between(h) \in {0, 1}
          /\ sent[h] \in Nat /\ enq[h] \in Nat /\ crashes \in Nat
      BY <2>1 DEF Clean, QueueType, Waits, Between
    <3>2. Between(h) = 1 => Waits(h) = 1
      <4>1. ASSUME Between(h) = 1 PROVE Anchoring!Pending(h)
        <5>1. drain.at = "mark" /\ h = Head(drain.todo)
          BY <4>1 DEF Between
        <5>2. drain.todo \in Seq(Anchoring!Hash) /\ drain.todo # <<>>
          BY <5>1 DEF QueueInv, QueueType
        <5>3. h = drain.todo[1] /\ 1 \in 1 .. Len(drain.todo)
          BY <5>1, <5>2, TailIs
        <5> QED
          BY <5>3, <2>1 DEF Clean
      <4> QED
        BY <4>1 DEF Waits
    <3> QED
      BY <3>1, <3>2
  <2> QED
    BY <2>1, <2>2 DEF Anchoring!NothingLost, Anchoring!SubmitBounded, Clean
<1> QED
  BY <1>1, <1>2

\* An event that was queued is pending or was sent, and no more often than it was queued and the
\* drain was stopped: for any events, any number of attempts and of crashes at any await.
THEOREM NothingLostHolds == Spec => []NothingLost
<1>1. Init => QueueInv
  BY QueueInit DEF Init
<1>2. QueueInv /\ [Next]_vars => QueueInv'
  BY QueueStep, QueueIdles DEF Next, vars
<1>3. QueueInv => NothingLost
  BY QueueSound DEF NothingLost
<1> QED
  BY <1>1, <1>2, <1>3, PTL DEF Spec


----------------------------------------------------------------------------
(* Mined identifiers.  An entry of the table holds the nonce a search      *)
(* would find, so it does not matter which entries were dropped; and a     *)
(* verdict is about the transaction that is still there.                   *)

LEMMA MinIsLeast ==
  ASSUME NEW S \in SUBSET Nat, S # {}
  PROVE  Typed!Min(S) \in S /\ \A y \in S : Typed!Min(S) <= y
<1>1. PICK x \in S : \A y \in S : ~ (<<y, x>> \in OpToRel(<, Nat))
  BY WFMin, NatLessThanWellFounded, Zenon
<1>2. \A y \in S : ~ (y < x)
  BY <1>1, Zenon DEF OpToRel
<1>3. \A y \in S : x <= y
  BY <1>2
<1> QED
  BY <1>1, <1>3 DEF Typed!Min

TypedTx ==
  [code : Code, body : Data, mined : BOOLEAN, xid : [oid : Data, nonce : 0 .. MaxNonce],
   nonce : 0 .. MaxNonce, envelope : SUBSET Typed!Envelope]

Remembers == [oid : Data, code : Code, nonce : 0 .. MaxNonce]

TypedInv ==
  /\ memo \in Seq(Remembers)
  /\ \A i \in 1 .. Len(memo) : memo[i].nonce = Typed!Search(memo[i].oid, memo[i].code)
  /\ tx # Typed!NoTx => tx \in TypedTx
  /\ verdict = "ok" => tx # Typed!NoTx /\ Typed!validateTransaction(tx) = "ok"
  /\ verdict = "admitted" => tx # Typed!NoTx /\ Typed!validateCanHappen(tx) /\ Typed!validateXid(tx) = "ok"

LEMMA SearchFinds ==
  ASSUME NEW oid, NEW code, Typed!Minable(oid, code)
  PROVE  /\ Typed!Search(oid, code) \in 0 .. MaxNonce
         /\ Typed!Prefix(Typed!Xid(oid, Typed!Search(oid, code))) = code
<1>1. Typed!Hits(oid, code) \in SUBSET Nat /\ Typed!Hits(oid, code) # {}
  BY SearchAssumption DEF Typed!Minable, Typed!Hits, Typed!Nonce
<1>2. Typed!Search(oid, code) \in Typed!Hits(oid, code)
  BY <1>1, MinIsLeast DEF Typed!Search
<1> QED
  BY <1>2 DEF Typed!Hits, Typed!Nonce

\* Whatever is in the table, the answer is the one a search would give.
LEMMA AnswersRight ==
  ASSUME memo \in Seq(Remembers), \A i \in 1 .. Len(memo) : memo[i].nonce = Typed!Search(memo[i].oid, memo[i].code),
         NEW oid, NEW code
  PROVE  Typed!Answer(oid, code) = Typed!Search(oid, code)
<1>1. CASE Typed!Remembered(oid, code) # {}
  <2>1. Typed!Remembered(oid, code) \in SUBSET Nat
    BY DEF Typed!Remembered
  <2>2. PICK i \in Typed!Remembered(oid, code) : i = Typed!Min(Typed!Remembered(oid, code))
    BY <1>1, <2>1, MinIsLeast
  <2>3. i \in 1 .. Len(memo) /\ memo[i].oid = oid /\ memo[i].code = code
    BY DEF Typed!Remembered
  <2> QED
    BY <1>1, <2>2, <2>3 DEF Typed!Answer
<1>2. CASE Typed!Remembered(oid, code) = {}
  BY <1>2 DEF Typed!Answer
<1> QED
  BY <1>1, <1>2

LEMMA TypedMine == TypedInv /\ (\E b \in Data, c \in Code : Typed!Mine(b, c)) => TypedInv'
<1> SUFFICES ASSUME TypedInv, NEW b \in Data, NEW c \in Code, Typed!Mine(b, c) PROVE TypedInv'
  OBVIOUS
<1> DEFINE n == Typed!Search(b, c)
<1>1. /\ n \in 0 .. MaxNonce /\ Typed!Answer(b, c) = n
  BY SearchFinds, AnswersRight DEF Typed!Mine, TypedInv
<1>2. /\ memo' = Typed!Memoised(b, c) /\ verdict' = "none"
      /\ tx' = [code |-> c, body |-> b, mined |-> TRUE, xid |-> [oid |-> b, nonce |-> n], nonce |-> n, envelope |-> {}]
  BY <1>1 DEF Typed!Mine, Typed!Xid
<1>3. tx' \in TypedTx
  BY <1>1, <1>2 DEF TypedTx
<1>4. memo' \in Seq(Remembers) /\ \A i \in 1 .. Len(memo') : memo'[i].nonce = Typed!Search(memo'[i].oid, memo'[i].code)
  <2> DEFINE e == [oid |-> b, code |-> c, nonce |-> n]
             m == Append(memo, e)
  <2>1. /\ memo \in Seq(Remembers) /\ \A i \in 1 .. Len(memo) : memo[i].nonce = Typed!Search(memo[i].oid, memo[i].code)
    BY DEF TypedInv
  <2>2. e \in Remembers /\ e.nonce = Typed!Search(e.oid, e.code)
    BY <1>1 DEF Remembers
  <2> HIDE DEF e, n
  <2>3. /\ m \in Seq(Remembers) /\ Len(m) \in Nat \ {0} /\ m # <<>>
        /\ \A i \in 1 .. Len(m) : m[i].nonce = Typed!Search(m[i].oid, m[i].code)
    BY <2>1, <2>2
  <2>4. memo' = memo \/ memo' = m \/ memo' = Tail(m)
    BY <1>2 DEF Typed!Memoised, e, n
  <2> HIDE DEF m
  <2>5. /\ Tail(m) \in Seq(Remembers) /\ Len(Tail(m)) = Len(m) - 1
        /\ \A i \in 1 .. Len(m) - 1 : Tail(m)[i] = m[i + 1] /\ i + 1 \in 1 .. Len(m)
    BY <2>3, TailIs
  <2>6. \A i \in 1 .. Len(Tail(m)) : Tail(m)[i].nonce = Typed!Search(Tail(m)[i].oid, Tail(m)[i].code)
    BY <2>3, <2>5
  <2> QED
    BY <2>1, <2>3, <2>4, <2>5, <2>6
<1> QED
  BY <1>2, <1>3, <1>4 DEF TypedInv

LEMMA TypedOther ==
  TypedInv /\ (\/ \E b \in Data, c \in Code : Typed!Compose(b, c)
               \/ \E f \in Typed!Envelope : Typed!Stamp(f)
               \/ \E b \in Data : Typed!Alter([tx EXCEPT !.body = b])
               \/ \E c \in Code : Typed!Alter([tx EXCEPT !.code = c])
               \/ \E n \in Typed!Nonce : Typed!Alter([tx EXCEPT !.nonce = n])) => TypedInv'
<1> SUFFICES ASSUME TypedInv,
                    \/ \E b \in Data, c \in Code : Typed!Compose(b, c)
                    \/ \E f \in Typed!Envelope : Typed!Stamp(f)
                    \/ \E b \in Data : Typed!Alter([tx EXCEPT !.body = b])
                    \/ \E c \in Code : Typed!Alter([tx EXCEPT !.code = c])
                    \/ \E n \in Typed!Nonce : Typed!Alter([tx EXCEPT !.nonce = n])
             PROVE  TypedInv'
  OBVIOUS
<1>1. memo' = memo /\ verdict' = "none"
  BY DEF Typed!Compose, Typed!Stamp, Typed!Alter
<1>2. tx' \in TypedTx
  <2>1. CASE \E b \in Data, c \in Code : Typed!Compose(b, c)
    BY <2>1, SearchAssumption DEF Typed!Compose, Typed!Xid, TypedTx
  <2>2. CASE \E f \in Typed!Envelope : Typed!Stamp(f)
    BY <2>2 DEF Typed!Stamp, TypedInv, TypedTx
  <2>3. CASE \E b \in Data : Typed!Alter([tx EXCEPT !.body = b])
    BY <2>3 DEF Typed!Alter, TypedInv, TypedTx
  <2>4. CASE \E c \in Code : Typed!Alter([tx EXCEPT !.code = c])
    BY <2>4 DEF Typed!Alter, TypedInv, TypedTx
  <2>5. CASE \E n \in Typed!Nonce : Typed!Alter([tx EXCEPT !.nonce = n])
    BY <2>5 DEF Typed!Alter, Typed!Nonce, TypedInv, TypedTx
  <2> QED
    BY <2>1, <2>2, <2>3, <2>4, <2>5
<1> QED
  BY <1>1, <1>2 DEF TypedInv

LEMMA TypedDoors == TypedInv /\ (Typed!Door \/ Typed!Ingress \/ Typed!Done) => TypedInv'
<1> SUFFICES ASSUME TypedInv, Typed!Door \/ Typed!Ingress \/ Typed!Done PROVE TypedInv'
  OBVIOUS
<1>1. CASE Typed!Door
  <2>1. verdict' = Typed!validateTransaction(tx) /\ UNCHANGED <<memo, tx>> /\ tx # Typed!NoTx
    BY <1>1 DEF Typed!Door
  <2>2. verdict' # "admitted"
    BY <2>1 DEF Typed!validateTransaction, Typed!validateXid
  <2> QED
    BY <2>1, <2>2 DEF TypedInv
<1>2. CASE Typed!Ingress
  <2>1. verdict' = Typed!validateForConsensus(tx) /\ UNCHANGED <<memo, tx>> /\ tx # Typed!NoTx
    BY <1>2 DEF Typed!Ingress
  <2>2. /\ verdict' # "ok"
        /\ verdict' = "admitted" => Typed!validateCanHappen(tx) /\ Typed!validateXid(tx) = "ok"
    BY <2>1 DEF Typed!validateForConsensus
  <2> QED
    BY <2>1, <2>2 DEF TypedInv
<1>3. CASE Typed!Done
  BY <1>3 DEF Typed!Done, TypedInv
<1> QED
  BY <1>1, <1>2, <1>3

LEMMA TypedStep == TypedInv /\ Typed!Next => TypedInv'
<1> SUFFICES ASSUME TypedInv, Typed!Next PROVE TypedInv'
  OBVIOUS
<1>1. \/ \E b \in Data, c \in Code : Typed!Mine(b, c)
      \/ \/ \E b \in Data, c \in Code : Typed!Compose(b, c)
         \/ \E f \in Typed!Envelope : Typed!Stamp(f)
         \/ \E b \in Data : Typed!Alter([tx EXCEPT !.body = b])
         \/ \E c \in Code : Typed!Alter([tx EXCEPT !.code = c])
         \/ \E n \in Typed!Nonce : Typed!Alter([tx EXCEPT !.nonce = n])
      \/ Typed!Door \/ Typed!Ingress \/ Typed!Done
  BY DEF Typed!Next
<1> QED
  BY <1>1, TypedMine, TypedOther, TypedDoors

\* The one key of a content and a type.
LEMMA OneKey ==
  ASSUME TypedInv, NEW d \in Data, NEW c \in Code \ {Typed!ValueCode}
  PROVE  Typed!Cardinality({n \in Typed!Nonce : Typed!Prefix(Typed!Xid(d, n)) = c /\ Typed!stateDiffWrites(Typed!Xid(d, n), n, d)})
           = (IF Typed!Minable(d, c) THEN 1 ELSE 0)
<1> DEFINE Keys == {n \in Typed!Nonce : Typed!Prefix(Typed!Xid(d, n)) = c /\ Typed!stateDiffWrites(Typed!Xid(d, n), n, d)}
<1>1. Typed!Cardinality(Keys) = Cardinality(Keys)
  BY DEF Typed!Cardinality, Cardinality, Typed!IsFiniteSet, IsFiniteSet
<1>2. Typed!Answer(d, c) = Typed!Search(d, c)
  BY AnswersRight DEF TypedInv
<1>3. \A n \in Typed!Nonce : n \in Keys <=> Typed!Minable(d, c) /\ n = Typed!Search(d, c)
  <2>1. ASSUME NEW n \in Keys PROVE Typed!Minable(d, c) /\ n = Typed!Search(d, c)
    BY <1>2, <2>1 DEF Typed!stateDiffWrites
  <2>2. ASSUME Typed!Minable(d, c) PROVE Typed!Search(d, c) \in Keys
    BY <1>2, <2>2, SearchFinds DEF Typed!stateDiffWrites, Typed!Nonce
  <2> QED
    BY <2>1, <2>2
<1>4. CASE Typed!Minable(d, c)
  <2>1. Typed!Search(d, c) \in Typed!Nonce
    BY <1>4, SearchFinds DEF Typed!Nonce
  <2>2. Keys = {Typed!Search(d, c)}
    BY <1>3, <1>4, <2>1
  <2> QED
    BY <1>1, <1>4, <2>2, FS_Singleton
<1>5. CASE ~Typed!Minable(d, c)
  <2>1. Keys = {}
    BY <1>3, <1>5
  <2> QED
    BY <1>1, <1>5, <2>1, FS_EmptySet
<1> QED
  BY <1>4, <1>5

LEMMA TypedSound == TypedInv => Typed!AcceptedIsContent /\ Typed!MemoRight /\ Typed!OneKeyEach
<1> SUFFICES ASSUME TypedInv PROVE Typed!AcceptedIsContent /\ Typed!MemoRight /\ Typed!OneKeyEach
  OBVIOUS
<1>1. Typed!MemoRight
  BY AnswersRight DEF TypedInv, Typed!MemoRight
<1>2. Typed!OneKeyEach
  BY OneKey DEF Typed!OneKeyEach
<1>3. ASSUME verdict \in {"ok", "admitted"}
      PROVE  /\ tx.xid = [oid |-> tx.body, nonce |-> tx.nonce] /\ Typed!Prefix(tx.xid) = tx.code
             /\ tx.mined /\ Typed!validateShape(tx) /\ tx \in TypedTx
  <2>1. tx # Typed!NoTx /\ tx \in TypedTx
    BY <1>3 DEF TypedInv
  <2>2. Typed!validateXid(tx) = "ok" /\ Typed!validateShape(tx)
    BY <1>3 DEF TypedInv, Typed!validateTransaction, Typed!validateCanHappen
  <2>3. tx.mined /\ Typed!Prefix(tx.xid) = tx.code /\ Typed!verifyMicromine(tx.body, tx.nonce, tx.xid, tx.code)
    BY <2>2 DEF Typed!validateXid
  <2> QED
    BY <2>1, <2>2, <2>3 DEF Typed!verifyMicromine, Typed!Xid
<1>4. ASSUME verdict \in {"ok", "admitted"} PROVE Typed!validateTransaction([tx EXCEPT !.envelope = {}]) = "ok"
  <2> DEFINE u == [tx EXCEPT !.envelope = {}]
  <2>1. /\ u.code = tx.code /\ u.body = tx.body /\ u.mined = tx.mined /\ u.xid = tx.xid /\ u.nonce = tx.nonce
    BY <1>3, <1>4 DEF TypedTx
  <2> HIDE DEF u
  <2>2. Typed!validateShape(u) /\ Typed!verifyMicromine(u.body, u.nonce, u.xid, u.code) /\ u.mined /\ Typed!Prefix(u.xid) = u.code
    BY <1>3, <1>4, <2>1 DEF Typed!validateShape, Typed!verifyMicromine, Typed!Xid
  <2>3. Typed!validateXid(u) = "ok"
    BY <2>2 DEF Typed!validateXid
  <2>4. Typed!validateTransaction(u) = "ok"
    BY <2>2, <2>3 DEF Typed!validateTransaction
  <2> QED
    BY <2>4 DEF u
<1>5. ASSUME verdict = "admitted"
      PROVE  /\ tx.body \notin Anonymous \/ Typed!Prefix(tx.xid) = 7
             /\ "sig" \in tx.envelope \/ Typed!Prefix(tx.xid) \in {6, 7}
             /\ Typed!Prefix(tx.xid) \in {2, 6} => tx.body \notin Impossible
  <2>1. Typed!validateCanHappen(tx)
    BY <1>5 DEF TypedInv
  <2> QED
    BY <1>3, <1>5, <2>1 DEF Typed!validateCanHappen, Typed!hasSender, Typed!signed, Typed!ContentAddressed,
      Typed!ValueCode, Typed!AmountTypes
<1>6. Typed!AcceptedIsContent
  BY <1>3, <1>4, <1>5 DEF Typed!AcceptedIsContent, Typed!contentKey
<1> QED
  BY <1>1, <1>2, <1>6

\* An accepted transaction is under the identifier of its own content and type, also when the table
\* answered, and a content has one key of a type: for any bodies, type codes and table size, and any
\* alterations and stamps on the way.
THEOREM AcceptedIsContentHolds == Spec => []AcceptedIsContent
<1>1. Init => TypedInv
  BY DEF Init, Typed!Init, TypedInv
<1>2. TypedInv /\ UNCHANGED typedVars => TypedInv'
  BY DEF typedVars, TypedInv
<1>3. TypedInv /\ [Next]_vars => TypedInv'
  BY <1>2, TypedStep DEF Next, vars
<1>4. TypedInv => AcceptedIsContent
  BY TypedSound DEF AcceptedIsContent
<1> QED
  BY <1>1, <1>3, <1>4, PTL DEF Spec


----------------------------------------------------------------------------
(* The state machine.  While nothing raced, an exclusive handler is alone, *)
(* and each of its halts is known exactly; otherwise handlers that apply   *)
(* share the state: rows and trie agree, the map is ahead of them by the   *)
(* puts under way, the rows are ahead of the promise by the diffs under    *)
(* way, and a diff is in memory before its row.                            *)

\* The diffs: sets of keys, not empty and finite.
Diff == {w \in SUBSET Key : w # {} /\ IsFiniteSet(w)}

Running(t) == task[t].op \in {"apply", "canon"}
Exclusive(t) == task[t].op \in {"clear", "cleardiffs", "forget"}
Recorded(t) == Running(t) /\ (task[t].op = "apply" \/ task[t].put = {})

Job ==
  [op : {"idle", "clear", "cleardiffs"}]
    \cup [op : {"apply", "canon"}, todo : Seq(Diff), left : SUBSET Key, put : Key \cup {{}}]
    \cup [op : {"forget"}, key : Key, row : BOOLEAN]

StateType ==
  /\ rows \subseteq Key /\ expect \subseteq Key /\ stray \subseteq Key
  /\ diffs \subseteq Diff /\ diffRows \subseteq Diff
  /\ ledgerBlocks \subseteq Diff /\ IsFiniteSet(ledgerBlocks)
  /\ task \in [Task -> Job]
  /\ raced \in BOOLEAN
  /\ \A t \in Task : Running(t) =>
       /\ task[t].todo # <<>>
       /\ task[t].left \subseteq Head(task[t].todo)
       /\ IF task[t].put = {} THEN task[t].left = {} ELSE task[t].put \in Head(task[t].todo)

\* A diff of one key is of a key that is promised, or a crash left it.
Known == \A k \in Key : {k} \in diffRows => k \in expect \cup stray

Shared ==
  /\ placed = rows
  /\ held = rows \cup {k \in Key : \E t \in Task : Running(t) /\ task[t].put = k}
  /\ expect \subseteq rows
  /\ \A k \in rows : k \in expect \/ \E t \in Task : Running(t) /\ k \in Head(task[t].todo)
  /\ \A t \in Task : Running(t) => Head(task[t].todo) \subseteq rows \cup task[t].left \cup {task[t].put}
  /\ diffRows \subseteq diffs
  /\ \A d \in diffs : d \in diffRows \/ \E t \in Task : Recorded(t) /\ d = Head(task[t].todo)
  /\ \A t \in Task : Recorded(t) => Head(task[t].todo) \in diffs
  /\ Known

\* Where an exclusive handler stands.
Halted(t) ==
  CASE task[t].op = "clear" ->
         held = {} /\ placed = {} /\ rows = expect /\ diffs = diffRows /\ Known
    [] task[t].op = "cleardiffs" ->
         held = {} /\ placed = {} /\ rows = {} /\ diffs = {}
    [] task[t].op = "forget" /\ task[t].row ->
         held = expect \ {task[t].key} /\ placed = expect /\ rows = expect /\ diffs = diffRows /\ Known
    [] task[t].op = "forget" /\ ~task[t].row ->
         /\ held = expect \ {task[t].key} /\ placed = held /\ rows = held
         /\ diffs = diffRows \ {{task[t].key}} /\ Known
    [] OTHER -> FALSE

Unraced ==
  /\ \A t, u \in Task : Exclusive(t) /\ u # t => task[u] = State!Idle
  /\ (\A t \in Task : ~Exclusive(t)) => Shared
  /\ \A t \in Task : Exclusive(t) => Halted(t)

StateInv == StateType /\ (~raced => Unraced)


\* What identifies a diff tells diffs apart, so recording one adds it and removes none.
LEMMA IdentityTells ==
  /\ \A w \in Diff : \A k \in Key : State!identity(w) = k <=> w = {k}
  /\ \A v, w \in Diff : State!identity(v) = State!identity(w) => v = w
<1>1. \A S : State!Cardinality(S) = Cardinality(S)
  BY DEF State!Cardinality, Cardinality, State!IsFiniteSet, IsFiniteSet
<1>2. ASSUME NEW w \in Diff PROVE \/ \E k \in Key : w = {k} /\ State!identity(w) = k
                                  \/ (\A k : w # {k}) /\ State!identity(w) = w
  <2>1. CASE \E k : w = {k}
    <3>1. PICK k : w = {k}
      BY <2>1
    <3>2. k \in Key /\ Cardinality(w) = 1
      BY <3>1, FS_Singleton DEF Diff
    <3>3. (CHOOSE x \in w : TRUE) = k
      BY <3>1
    <3> QED
      BY <1>1, <3>1, <3>2, <3>3 DEF State!identity
  <2>2. CASE ~ \E k : w = {k}
    <3>1. Cardinality(w) # 1
      BY <2>2, FS_Singleton DEF Diff
    <3> QED
      BY <1>1, <2>2, <3>1 DEF State!identity
  <2> QED
    BY <2>1, <2>2
<1>3. \A w \in Diff : w \notin Key
  BY KeyAssumption DEF Diff
<1>4. ASSUME NEW w \in Diff, NEW k \in Key PROVE State!identity(w) = k <=> w = {k}
  BY <1>2, <1>3
<1>5. ASSUME NEW v \in Diff, NEW w \in Diff, State!identity(v) = State!identity(w) PROVE v = w
  BY <1>2, <1>3, <1>5
<1> QED
  BY <1>4, <1>5

LEMMA RecordAdds ==
  ASSUME NEW D \in SUBSET Diff, NEW w \in Diff
  PROVE  State!recordDiff(D, w) = D \cup {w}
BY IdentityTells DEF State!recordDiff

LEMMA ForgetDrops ==
  ASSUME NEW D \in SUBSET Diff, NEW k \in Key
  PROVE  {d \in D : State!identity(d) # k} = D \ {{k}}
BY IdentityTells

\* Begin starts on the first diff of its list, or ends the handler.
Begun(t, op, todo) ==
  \/ todo = <<>> /\ task'[t] = State!Idle /\ UNCHANGED <<held, diffs>>
  \/ \E k \in Head(todo) :
       /\ todo # <<>> /\ Head(todo) \in Diff
       /\ task'[t] = [op |-> op, todo |-> todo, left |-> Head(todo) \ {k}, put |-> k]
       /\ held' = held \cup {k}
       /\ diffs' = IF op = "apply" THEN diffs \cup {Head(todo)} ELSE diffs

LEMMA BeginIs ==
  ASSUME StateType, NEW t \in Task, NEW op \in {"apply", "canon"}, NEW todo \in Seq(Diff),
         State!Begin(t, op, todo)
  PROVE  /\ task' \in [Task -> Job]
         /\ \A u \in Task : u # t => task'[u] = task[u]
         /\ diffs' \subseteq Diff
         /\ Begun(t, op, todo)
<1>1. CASE todo = <<>>
  <2>1. task' = [task EXCEPT ![t] = State!Idle] /\ UNCHANGED <<held, diffs>>
    BY <1>1 DEF State!Begin
  <2>2. State!Idle \in Job
    BY DEF State!Idle, Job
  <2> QED
    BY <1>1, <2>1, <2>2 DEF StateType, Begun
<1>2. CASE todo # <<>>
  <2>1. Head(todo) \in Diff
    BY <1>2, TailIs
  <2>2. PICK k : k \in Head(todo) /\ k = (CHOOSE x \in Head(todo) : TRUE)
    BY <2>1 DEF Diff
  <2>3. /\ task' = [task EXCEPT ![t] = [op |-> op, todo |-> todo, left |-> Head(todo) \ {k}, put |-> k]]
        /\ held' = held \cup {k}
        /\ diffs' = (IF op = "apply" THEN State!recordDiff(diffs, Head(todo)) ELSE diffs)
    BY <1>2, <2>2 DEF State!Begin
  <2>4. State!recordDiff(diffs, Head(todo)) = diffs \cup {Head(todo)}
    BY <2>1, RecordAdds DEF StateType
  <2>5. [op |-> op, todo |-> todo, left |-> Head(todo) \ {k}, put |-> k] \in Job
    BY <2>1, <2>2 DEF Job, Diff
  <2> QED
    BY <1>2, <2>1, <2>2, <2>3, <2>4, <2>5 DEF StateType, Begun
<1> QED
  BY <1>1, <1>2

\* What the other handlers share while t is between two diffs, once the step has set the rows.
SharedBut(t) ==
  LET Others == Task \ {t}
  IN  /\ placed' = rows'
      /\ held = rows' \cup {k \in Key : \E u \in Others : Running(u) /\ task[u].put = k}
      /\ expect' \subseteq rows'
      /\ \A k \in rows' : k \in expect' \/ \E u \in Others : Running(u) /\ k \in Head(task[u].todo)
      /\ \A u \in Others : Running(u) => Head(task[u].todo) \subseteq rows' \cup task[u].left \cup {task[u].put}
      /\ diffRows' \subseteq diffs
      /\ \A d \in diffs : d \in diffRows' \/ \E u \in Others : Recorded(u) /\ d = Head(task[u].todo)
      /\ \A u \in Others : Recorded(u) => Head(task[u].todo) \in diffs
      /\ Known'

LEMMA BeginShares ==
  ASSUME NEW t \in Task, NEW op \in {"apply", "canon"}, NEW todo, Begun(t, op, todo), SharedBut(t),
         \A u \in Task : u # t => task'[u] = task[u]
  PROVE  Shared'
<1>1. \A u \in Task \ {t} : /\ task'[u] = task[u] /\ (Running(u)' <=> Running(u)) /\ (Recorded(u)' <=> Recorded(u))
  BY DEF Running, Recorded
<1>2. CASE todo = <<>> /\ task'[t] = State!Idle /\ UNCHANGED <<held, diffs>>
  <2>1. ~Running(t)' /\ ~Recorded(t)'
    BY <1>2 DEF Running, Recorded, State!Idle
  <2>2. {k \in Key : \E u \in Task : Running(u)' /\ task'[u].put = k} = {k \in Key : \E u \in Task \ {t} : Running(u) /\ task[u].put = k}
    BY <1>1, <2>1
  <2>3. held' = rows' \cup {k \in Key : \E u \in Task : Running(u)' /\ task'[u].put = k}
    BY <1>2, <2>2 DEF SharedBut
  <2>4. \A k \in rows' : k \in expect' \/ \E u \in Task : Running(u)' /\ k \in Head(task'[u].todo)
    BY <1>1 DEF SharedBut
  <2>5. \A u \in Task : Running(u)' => Head(task'[u].todo) \subseteq rows' \cup task'[u].left \cup {task'[u].put}
    BY <1>1, <2>1 DEF SharedBut
  <2>6. \A d \in diffs' : d \in diffRows' \/ \E u \in Task : Recorded(u)' /\ d = Head(task'[u].todo)
    BY <1>1, <1>2 DEF SharedBut
  <2>7. \A u \in Task : Recorded(u)' => Head(task'[u].todo) \in diffs'
    BY <1>1, <1>2, <2>1 DEF SharedBut
  <2> QED
    BY <1>2, <2>3, <2>4, <2>5, <2>6, <2>7 DEF SharedBut, Shared
<1>3. CASE \E k \in Head(todo) :
             /\ todo # <<>> /\ Head(todo) \in Diff
             /\ task'[t] = [op |-> op, todo |-> todo, left |-> Head(todo) \ {k}, put |-> k]
             /\ held' = held \cup {k}
             /\ diffs' = IF op = "apply" THEN diffs \cup {Head(todo)} ELSE diffs
  <2>1. PICK k \in Head(todo) :
             /\ todo # <<>> /\ Head(todo) \in Diff
             /\ task'[t] = [op |-> op, todo |-> todo, left |-> Head(todo) \ {k}, put |-> k]
             /\ held' = held \cup {k}
             /\ diffs' = IF op = "apply" THEN diffs \cup {Head(todo)} ELSE diffs
    BY <1>3
  <2>2. k \in Key /\ k # {}
    BY <2>1, KeyAssumption DEF Diff
  <2>3. /\ Running(t)' /\ (Recorded(t)' <=> op = "apply")
        /\ task'[t].put = k /\ task'[t].todo = todo /\ task'[t].left = Head(todo) \ {k}
    BY <2>1, <2>2 DEF Running, Recorded
  <2>4. {x \in Key : \E u \in Task : Running(u)' /\ task'[u].put = x}
          = {x \in Key : \E u \in Task \ {t} : Running(u) /\ task[u].put = x} \cup {k}
    BY <1>1, <2>2, <2>3
  <2>5. held' = rows' \cup {x \in Key : \E u \in Task : Running(u)' /\ task'[u].put = x}
    BY <2>1, <2>4 DEF SharedBut
  <2>6. \A x \in rows' : x \in expect' \/ \E u \in Task : Running(u)' /\ x \in Head(task'[u].todo)
    BY <1>1 DEF SharedBut
  <2>7. \A u \in Task : Running(u)' => Head(task'[u].todo) \subseteq rows' \cup task'[u].left \cup {task'[u].put}
    <3>1. Head(task'[t].todo) \subseteq rows' \cup task'[t].left \cup {task'[t].put}
      BY <2>3
    <3> QED
      BY <1>1, <3>1 DEF SharedBut
  <2>8. \A d \in diffs' : d \in diffRows' \/ \E u \in Task : Recorded(u)' /\ d = Head(task'[u].todo)
    <3>1. \A d \in diffs' : d \in diffs \/ (op = "apply" /\ d = Head(task'[t].todo))
      BY <2>1, <2>3
    <3> QED
      BY <1>1, <2>3, <3>1 DEF SharedBut
  <2>9. \A u \in Task : Recorded(u)' => Head(task'[u].todo) \in diffs'
    BY <1>1, <2>1, <2>3 DEF SharedBut
  <2> QED
    BY <2>1, <2>5, <2>6, <2>7, <2>8, <2>9 DEF SharedBut, Shared
<1> QED
  BY <1>2, <1>3 DEF Begun


\* What every step writes down.
Marks ==
  /\ raced' = (raced \/ State!Overlap')
  /\ stray' = {k \in stray \cup State!CutShort : {k} \in diffRows' /\ k \notin expect'}

LEMMA MarksType == ASSUME StateType, Marks PROVE raced' \in BOOLEAN /\ stray' \subseteq Key
<1>1. \A u \in Task : task[u].op = "forget" => task[u].key \in Key
  BY DEF StateType, Job
<1>2. State!CutShort \subseteq Key
  BY <1>1 DEF State!CutShort
<1> QED
  BY <1>2 DEF StateType, Marks

LEMMA Alone ==
  ASSUME Marks, ~raced', StateType
  PROVE  ~raced /\ \A t, u \in Task : Exclusive(t)' /\ u # t => task'[u] = State!Idle
BY DEF Marks, StateType, State!Overlap, Exclusive

LEMMA KnownKeeps ==
  ASSUME Marks, \A k \in Key : {k} \in diffRows' => k \in expect' \cup stray
  PROVE  Known'
BY DEF Marks, Known

\* With nothing under way everything agrees.
LEMMA RestAgrees ==
  ASSUME Unraced, \A u \in Task : task[u] = State!Idle
  PROVE  placed = expect /\ held = expect /\ rows = expect /\ diffs = diffRows /\ Known
<1>1. \A u \in Task : ~Running(u) /\ ~Exclusive(u) /\ ~Recorded(u)
  BY DEF Running, Exclusive, Recorded, State!Idle
<1> QED
  BY <1>1 DEF Unraced, Shared

\* A handler that only the state of others could disturb.
LEMMA RunningShares ==
  ASSUME Unraced, NEW t \in Task, ~Exclusive(t), task[t] # State!Idle
  PROVE  Shared /\ \A u \in Task : ~Exclusive(u)
BY DEF Unraced

LEMMA DiffSequence == \A S : IsFiniteSet(S) => State!SetToSeq(S) \in Seq(S)
<1> SUFFICES ASSUME NEW S, IsFiniteSet(S) PROVE State!SetToSeq(S) \in Seq(S)
  OBVIOUS
<1>1. State!Cardinality(S) = Cardinality(S)
  BY DEF State!Cardinality, Cardinality, State!IsFiniteSet, IsFiniteSet
<1>2. Cardinality(S) \in Nat /\ ExistsBijection(1 .. Cardinality(S), S)
  BY FS_CardinalityType
<1>3. PICK f \in [1 .. Cardinality(S) -> S] : State!IsInjective(f)
  BY <1>2 DEF ExistsBijection, Bijection, Injection, IsInjective, State!IsInjective
<1>4. State!SetToSeq(S) \in [1 .. Cardinality(S) -> S]
  BY <1>1, <1>3 DEF State!SetToSeq
<1> QED
  BY <1>2, <1>4

\* A list of diffs, once begun, is what the type of a handler asks.
LEMMA BegunType ==
  ASSUME StateType, Marks, NEW t \in Task, NEW op \in {"apply", "canon"}, NEW todo \in Seq(Diff),
         State!Begin(t, op, todo),
         rows' \subseteq Key, expect' \subseteq Key, diffRows' \subseteq Diff,
         ledgerBlocks' \subseteq Diff, IsFiniteSet(ledgerBlocks')
  PROVE  StateType'
<1>1. /\ task' \in [Task -> Job] /\ diffs' \subseteq Diff /\ Begun(t, op, todo)
      /\ \A u \in Task : u # t => task'[u] = task[u]
  BY BeginIs
<1>2. ASSUME NEW u \in Task, Running(u)'
      PROVE  /\ task'[u].todo # <<>> /\ task'[u].left \subseteq Head(task'[u].todo)
             /\ IF task'[u].put = {} THEN task'[u].left = {} ELSE task'[u].put \in Head(task'[u].todo)
  <2>1. CASE u # t
    BY <1>1, <1>2, <2>1 DEF StateType, Running
  <2>2. CASE u = t
    <3>1. todo # <<>>
      BY <1>1, <1>2, <2>2 DEF Begun, Running, State!Idle
    <3>2. PICK k \in Head(todo) : Head(todo) \in Diff /\ task'[t] = [op |-> op, todo |-> todo, left |-> Head(todo) \ {k}, put |-> k]
      BY <1>1, <3>1 DEF Begun
    <3>3. k # {}
      BY <3>2, KeyAssumption DEF Diff
    <3> QED
      BY <2>2, <3>1, <3>2, <3>3
  <2> QED
    BY <2>1, <2>2
<1> QED
  BY <1>1, <1>2, MarksType DEF StateType

LEMMA BegunOp ==
  ASSUME NEW t \in Task, NEW op \in {"apply", "canon"}, NEW todo, Begun(t, op, todo)
  PROVE  \/ task'[t] = State!Idle /\ task'[t].op = "idle" /\ UNCHANGED <<held, diffs>>
         \/ task'[t].op = op /\ task'[t] # State!Idle
<1>1. CASE todo = <<>> /\ task'[t] = State!Idle /\ UNCHANGED <<held, diffs>>
  BY <1>1 DEF State!Idle
<1>2. CASE \E k \in Head(todo) : task'[t] = [op |-> op, todo |-> todo, left |-> Head(todo) \ {k}, put |-> k]
  <2>1. PICK k \in Head(todo) : task'[t] = [op |-> op, todo |-> todo, left |-> Head(todo) \ {k}, put |-> k]
    BY <1>2
  <2>2. task'[t].op = op
    BY <2>1
  <2>3. State!Idle.op = "idle"
    BY DEF State!Idle
  <2> QED
    BY <2>2, <2>3
<1> QED
  BY <1>1, <1>2, Zenon DEF Begun

\* A handler starts to apply: a live block, or the blocks of the ledger.
LEMMA StateApply ==
  ASSUME StateInv, Marks, NEW t \in Task,
         (\E w \in Writes : State!HandleLedgerBlock(t, w)) \/ State!Backfill(t)
  PROVE  StateInv'
<1>1. \E todo \in Seq(Diff) : State!Begin(t, "apply", todo)
  <2>1. CASE \E w \in Writes : State!HandleLedgerBlock(t, w)
    <3>1. PICK w \in Writes : State!HandleLedgerBlock(t, w)
      BY <2>1
    <3>2. w \in Diff /\ State!Begin(t, "apply", <<w>>)
      BY <3>1, KeyAssumption DEF State!HandleLedgerBlock, Diff
    <3>3. <<w>> \in Seq(Diff)
      BY <3>2
    <3> QED
      BY <3>2, <3>3
  <2>2. CASE State!Backfill(t)
    <3>1. State!SetToSeq(ledgerBlocks) \in Seq(ledgerBlocks) /\ State!Begin(t, "apply", State!SetToSeq(ledgerBlocks))
      BY <2>2, DiffSequence DEF State!Backfill, StateInv, StateType
    <3>2. ledgerBlocks \subseteq Diff
      BY DEF StateInv, StateType
    <3> QED
      BY <3>1, <3>2
  <2> QED
    BY <2>1, <2>2
<1>2. PICK todo \in Seq(Diff) : State!Begin(t, "apply", todo)
  BY <1>1
<1>3. /\ task[t] = State!Idle /\ UNCHANGED <<placed, rows, diffRows, expect>>
      /\ ledgerBlocks' \subseteq Diff /\ IsFiniteSet(ledgerBlocks')
  <2>1. CASE \E w \in Writes : State!HandleLedgerBlock(t, w)
    <3>1. PICK w \in Writes : State!HandleLedgerBlock(t, w)
      BY <2>1
    <3>2. w \in Diff /\ ledgerBlocks' = ledgerBlocks \cup {w}
      BY <3>1, KeyAssumption DEF State!HandleLedgerBlock, Diff
    <3>3. ledgerBlocks' \subseteq Diff /\ IsFiniteSet(ledgerBlocks')
      BY <3>2, FS_AddElement DEF StateInv, StateType
    <3> QED
      BY <3>1, <3>3 DEF State!HandleLedgerBlock, State!Start
  <2>2. CASE State!Backfill(t)
    BY <2>2 DEF State!Backfill, State!Start, StateInv, StateType
  <2> QED
    BY <2>1, <2>2
<1>4. StateType'
  BY <1>2, <1>3, BegunType DEF StateInv, StateType
<1>5. /\ Begun(t, "apply", todo) /\ \A u \in Task : u # t => task'[u] = task[u]
  BY <1>2, BeginIs DEF StateInv
<1>6. ~Exclusive(t) /\ ~Running(t) /\ ~Recorded(t) /\ ~Exclusive(t)'
  <2>1. task[t].op = "idle" /\ task'[t].op \in {"idle", "apply"}
    <3>1. State!Idle.op = "idle"
      BY DEF State!Idle
    <3> QED
      BY <1>3, <1>5, <3>1, BegunOp
  <2> QED
    BY <2>1 DEF Exclusive, Running, Recorded
<1>7. ASSUME ~raced' PROVE Unraced'
  <2>1. ~raced /\ \A u, v \in Task : Exclusive(u)' /\ v # u => task'[v] = State!Idle
    BY <1>7, Alone DEF StateInv
  <2>2. Unraced
    BY <2>1 DEF StateInv
  <2>3. CASE \E u \in Task : Exclusive(u)
    <3>1. PICK u \in Task : Exclusive(u)
      BY <2>3
    <3>2. u # t /\ Exclusive(u)'
      BY <1>5, <1>6, <3>1 DEF Exclusive
    <3>3. task'[t] = State!Idle
      BY <2>1, <3>2
    <3>4. UNCHANGED <<held, diffs>>
      BY <1>5, <3>3, BegunOp
    <3>5. \A v \in Task : task'[v] = task[v]
      BY <1>3, <1>5, <3>3
    <3>6. Known => Known'
      BY <1>3, KnownKeeps DEF Known
    <3>7. \A v \in Task : Halted(v) => Halted(v)'
      BY <1>3, <3>4, <3>5, <3>6 DEF Halted
    <3>8. \A v \in Task : Exclusive(v)' <=> Exclusive(v)
      BY <3>5 DEF Exclusive
    <3> QED
      BY <2>1, <2>2, <3>1, <3>7, <3>8 DEF Unraced
  <2>4. CASE ~ \E u \in Task : Exclusive(u)
    <3>1. Shared
      BY <2>2, <2>4 DEF Unraced
    <3>2. Known'
      BY <1>3, <3>1, KnownKeeps DEF Shared, Known
    <3>3. SharedBut(t)
      BY <1>3, <1>6, <3>1, <3>2 DEF Shared, SharedBut
    <3>4. Shared'
      BY <1>5, <3>3, BeginShares
    <3>5. \A u \in Task : ~Exclusive(u)'
      BY <1>5, <1>6, <2>4 DEF Exclusive
    <3> QED
      BY <2>1, <3>4, <3>5 DEF Unraced
  <2> QED
    BY <2>3, <2>4
<1> QED
  BY <1>4, <1>7 DEF StateInv


LEMMA RunningJob ==
  ASSUME StateType, NEW t \in Task, task[t].op \in {"apply", "canon"}
  PROVE  /\ task[t] \in [op : {"apply", "canon"}, todo : Seq(Diff), left : SUBSET Key, put : Key \cup {{}}]
         /\ task[t].todo \in Seq(Diff) /\ task[t].todo # <<>> /\ Head(task[t].todo) \in Diff
         /\ task[t].left \subseteq Head(task[t].todo)
         /\ task[t].put # {} => task[t].put \in Head(task[t].todo)
         /\ task[t].put = {} => task[t].left = {}
         /\ Running(t) /\ ~Exclusive(t) /\ task[t] # State!Idle
<1>1. task[t] \in [op : {"apply", "canon"}, todo : Seq(Diff), left : SUBSET Key, put : Key \cup {{}}]
  BY DEF StateType, Job
<1>2. Running(t) /\ ~Exclusive(t)
  BY DEF Running, Exclusive
<1>3. task[t].todo \in Seq(Diff) /\ task[t].todo # <<>>
  BY <1>1, <1>2 DEF StateType
<1>4. Head(task[t].todo) \in Diff
  BY <1>3, TailIs
<1>5. State!Idle.op = "idle"
  BY DEF State!Idle
<1> QED
  BY <1>1, <1>2, <1>3, <1>4, <1>5 DEF StateType

LEMMA StateInsertEnd == ASSUME StateInv, Marks, NEW t \in Task, State!InsertEnd(t) PROVE StateInv'
<1> DEFINE w == Head(task[t].todo)
<1>1. /\ task[t].op \in {"apply", "canon"} /\ task[t].put # {}
      /\ rows' = rows \cup {task[t].put} /\ placed' = placed \cup {task[t].put}
      /\ UNCHANGED <<diffRows, ledgerBlocks, expect>>
  BY DEF State!InsertEnd
<1>2. /\ task[t] \in [op : {"apply", "canon"}, todo : Seq(Diff), left : SUBSET Key, put : Key \cup {{}}]
      /\ task[t].todo # <<>> /\ w \in Diff /\ task[t].left \subseteq w /\ task[t].put \in w
      /\ Running(t) /\ ~Exclusive(t) /\ task[t] # State!Idle
  BY <1>1, RunningJob DEF StateInv
<1>3. w \subseteq Key /\ {} \notin Key
  BY <1>2, KeyAssumption DEF Diff
<1> HIDE DEF w
\* The handler goes on with a key of the diff, or has inserted the last one.
<1>4. \/ \E k \in task[t].left : /\ held' = held \cup {k} /\ diffs' = diffs
                                 /\ task' = [task EXCEPT ![t] = [task[t] EXCEPT !.left = @ \ {k}, !.put = k]]
      \/ /\ task[t].left = {} /\ held' = held
         /\ task' = [task EXCEPT ![t] = [task[t] EXCEPT !.put = {}]]
         /\ diffs' = IF task[t].op = "canon" THEN diffs \cup {w} ELSE diffs
  <2>1. CASE task[t].left # {}
    <3>1. PICK k : k \in task[t].left /\ k = (CHOOSE x \in task[t].left : TRUE)
      BY <2>1
    <3>2. held' = held \cup {k} /\ diffs' = diffs /\ task' = [task EXCEPT ![t].left = @ \ {k}, ![t].put = k]
      BY <2>1, <3>1 DEF State!InsertEnd
    <3>3. task' = [task EXCEPT ![t] = [task[t] EXCEPT !.left = @ \ {k}, !.put = k]]
      BY <1>2, <3>2 DEF StateInv, StateType
    <3> QED
      BY <3>1, <3>2, <3>3
  <2>2. CASE task[t].left = {}
    <3>1. /\ held' = held /\ task' = [task EXCEPT ![t].put = {}]
          /\ diffs' = IF task[t].op = "canon" THEN State!recordDiff(diffs, w) ELSE diffs
      BY <2>2 DEF State!InsertEnd, w
    <3>2. State!recordDiff(diffs, w) = diffs \cup {w}
      BY <1>2, RecordAdds DEF StateInv, StateType
    <3> QED
      BY <2>2, <3>1, <3>2
  <2> QED
    BY <2>1, <2>2
<1>5. /\ task' \in [Task -> Job] /\ \A u \in Task : u # t => task'[u] = task[u]
      /\ task'[t].op = task[t].op /\ task'[t].todo = task[t].todo /\ diffs' \subseteq Diff
      /\ IF task'[t].put = {} THEN task'[t].left = {} ELSE task'[t].put \in w
      /\ task'[t].left \subseteq w
  <2>1. CASE \E k \in task[t].left : /\ held' = held \cup {k} /\ diffs' = diffs
                                     /\ task' = [task EXCEPT ![t] = [task[t] EXCEPT !.left = @ \ {k}, !.put = k]]
    <3>1. PICK k \in task[t].left : /\ diffs' = diffs
                                    /\ task' = [task EXCEPT ![t] = [task[t] EXCEPT !.left = @ \ {k}, !.put = k]]
      BY <2>1
    <3>2. k \in Key /\ k \in w
      BY <1>2, <1>3
    <3>3. [task[t] EXCEPT !.left = @ \ {k}, !.put = k] \in [op : {"apply", "canon"}, todo : Seq(Diff), left : SUBSET Key, put : Key \cup {{}}]
      BY <1>2, <3>2
    <3>4. [task[t] EXCEPT !.left = @ \ {k}, !.put = k] \in Job
      BY <3>3 DEF Job
    <3>5. task'[t] = [task[t] EXCEPT !.left = @ \ {k}, !.put = k] /\ task' \in [Task -> Job]
      BY <3>1, <3>4 DEF StateInv, StateType
    <3>6. task'[t].left = task[t].left \ {k} /\ task'[t].put = k /\ task'[t].op = task[t].op /\ task'[t].todo = task[t].todo
      BY <1>2, <3>5
    <3> QED
      BY <1>2, <1>3, <3>1, <3>2, <3>5, <3>6 DEF StateInv, StateType
  <2>2. CASE /\ task[t].left = {} /\ held' = held
             /\ task' = [task EXCEPT ![t] = [task[t] EXCEPT !.put = {}]]
             /\ diffs' = IF task[t].op = "canon" THEN diffs \cup {w} ELSE diffs
    <3>3. [task[t] EXCEPT !.put = {}] \in [op : {"apply", "canon"}, todo : Seq(Diff), left : SUBSET Key, put : Key \cup {{}}]
      BY <1>2
    <3>4. [task[t] EXCEPT !.put = {}] \in Job
      BY <3>3 DEF Job
    <3>5. task'[t] = [task[t] EXCEPT !.put = {}] /\ task' \in [Task -> Job]
      BY <2>2, <3>4 DEF StateInv, StateType
    <3>6. task'[t].left = {} /\ task'[t].put = {} /\ task'[t].op = task[t].op /\ task'[t].todo = task[t].todo
      BY <1>2, <2>2, <3>5
    <3> QED
      BY <1>2, <2>2, <3>5, <3>6 DEF StateInv, StateType
  <2> QED
    BY <1>4, <2>1, <2>2
<1>6. \A u \in Task : /\ Running(u)' <=> Running(u)
                      /\ Exclusive(u)' <=> Exclusive(u)
                      /\ u # t => (Recorded(u)' <=> Recorded(u))
  BY <1>5 DEF Running, Exclusive, Recorded
<1>7. StateType'
  <2>1. rows' \subseteq Key
    BY <1>1, <1>2, <1>3 DEF StateInv, StateType
  <2>2. \A u \in Task : Running(u)' =>
       /\ task'[u].todo # <<>>
       /\ task'[u].left \subseteq Head(task'[u].todo)
       /\ IF task'[u].put = {} THEN task'[u].left = {} ELSE task'[u].put \in Head(task'[u].todo)
    <3>1. /\ task'[t].todo # <<>> /\ task'[t].left \subseteq Head(task'[t].todo)
          /\ IF task'[t].put = {} THEN task'[t].left = {} ELSE task'[t].put \in Head(task'[t].todo)
      BY <1>2, <1>5 DEF w
    <3>2. ASSUME NEW u \in Task, u # t, Running(u)'
          PROVE  /\ task'[u].todo # <<>>
                 /\ task'[u].left \subseteq Head(task'[u].todo)
                 /\ IF task'[u].put = {} THEN task'[u].left = {} ELSE task'[u].put \in Head(task'[u].todo)
      BY <1>5, <1>6, <3>2 DEF StateInv, StateType
    <3> QED
      BY <3>1, <3>2
  <2> QED
    BY <1>1, <1>5, <2>1, <2>2, MarksType DEF StateInv, StateType
<1>8. ASSUME ~raced' PROVE Unraced'
  <2>1. ~raced /\ \A u, v \in Task : Exclusive(u)' /\ v # u => task'[v] = State!Idle
    BY <1>7, <1>8, Alone DEF StateInv
  <2>2. Shared /\ \A u \in Task : ~Exclusive(u)
    BY <1>2, <2>1, RunningShares DEF StateInv
  <2>3. placed' = rows' /\ expect' \subseteq rows' /\ Known'
    BY <1>1, <2>2, KnownKeeps DEF Shared, Known
  <2>4. held' = rows' \cup {k \in Key : \E u \in Task : Running(u)' /\ task'[u].put = k}
    <3> DEFINE Puts == {k \in Key : \E u \in Task : Running(u) /\ task[u].put = k}
               Other == {k \in Key : \E u \in Task \ {t} : Running(u) /\ task[u].put = k}
               Next1 == {k \in Key : \E u \in Task : Running(u)' /\ task'[u].put = k}
    <3>1. Puts = Other \cup {task[t].put}
      BY <1>2, <1>3
    <3>2. held = rows \cup Other \cup {task[t].put}
      BY <2>2, <3>1 DEF Shared
    <3>3. CASE \E k \in task[t].left : /\ held' = held \cup {k} /\ diffs' = diffs
                                       /\ task' = [task EXCEPT ![t] = [task[t] EXCEPT !.left = @ \ {k}, !.put = k]]
      <4>1. PICK k \in task[t].left : held' = held \cup {k} /\ task' = [task EXCEPT ![t] = [task[t] EXCEPT !.left = @ \ {k}, !.put = k]]
        BY <3>3
      <4>2. task'[t].put = k /\ k \in Key
        BY <1>2, <1>3, <4>1 DEF StateInv, StateType
      <4>3. Next1 = Other \cup {k}
        BY <1>2, <1>5, <1>6, <4>2
      <4> QED
        BY <1>1, <3>2, <4>1, <4>3
    <3>4. CASE /\ task[t].left = {} /\ held' = held
               /\ task' = [task EXCEPT ![t] = [task[t] EXCEPT !.put = {}]]
      <4>1. task'[t].put = {}
        BY <1>2, <3>4 DEF StateInv, StateType
      <4>2. Next1 = Other
        BY <1>3, <1>5, <1>6, <4>1
      <4> QED
        BY <1>1, <3>2, <3>4, <4>2
    <3> QED
      BY <1>4, <3>3, <3>4
  <2>5. \A k \in rows' : k \in expect' \/ \E u \in Task : Running(u)' /\ k \in Head(task'[u].todo)
    <3>1. task[t].put \in Head(task'[t].todo) /\ Running(t)'
      BY <1>2, <1>5, <1>6 DEF w
    <3>2. \A u \in Task : task'[u].todo = task[u].todo
      BY <1>5
    <3> QED
      BY <1>1, <1>6, <2>2, <3>1, <3>2 DEF Shared
  <2>6. \A u \in Task : Running(u)' => Head(task'[u].todo) \subseteq rows' \cup task'[u].left \cup {task'[u].put}
    <3>1. w \subseteq rows \cup task[t].left \cup {task[t].put}
      BY <1>2, <2>2 DEF Shared, w
    <3>2. task[t].left \subseteq task'[t].left \cup {task'[t].put}
      <4>1. CASE \E k \in task[t].left : task' = [task EXCEPT ![t] = [task[t] EXCEPT !.left = @ \ {k}, !.put = k]]
        <5>1. PICK k \in task[t].left : task' = [task EXCEPT ![t] = [task[t] EXCEPT !.left = @ \ {k}, !.put = k]]
          BY <4>1
        <5>2. task'[t].left = task[t].left \ {k} /\ task'[t].put = k
          BY <1>2, <5>1 DEF StateInv, StateType
        <5> QED
          BY <5>2
      <4>2. CASE task[t].left = {}
        BY <4>2
      <4> QED
        BY <1>4, <4>1, <4>2
    <3>3. Head(task'[t].todo) \subseteq rows' \cup task'[t].left \cup {task'[t].put}
      BY <1>1, <1>5, <3>1, <3>2 DEF w
    <3>4. \A u \in Task \ {t} : Running(u)' => Head(task'[u].todo) \subseteq rows' \cup task'[u].left \cup {task'[u].put}
      BY <1>1, <1>5, <1>6, <2>2 DEF Shared
    <3> QED
      BY <3>3, <3>4
  <2>7. diffs \subseteq diffs' /\ \A d \in diffs' : d \in diffs \/ (d = w /\ task'[t].put = {})
    BY <1>2, <1>4 DEF StateInv, StateType
  <2>8. Recorded(t) => Recorded(t)'
    BY <1>1, <1>5 DEF Recorded, Running
  <2>9. \A d \in diffs' : d \in diffRows' \/ \E u \in Task : Recorded(u)' /\ d = Head(task'[u].todo)
    <3>1. task'[t].put = {} => Recorded(t)' /\ w = Head(task'[t].todo)
      BY <1>1, <1>5 DEF Recorded, Running, w
    <3>2. \A u \in Task : Recorded(u) => Recorded(u)' /\ Head(task'[u].todo) = Head(task[u].todo)
      BY <1>5, <1>6, <2>8
    <3> QED
      BY <1>1, <2>2, <2>7, <3>1, <3>2 DEF Shared
  <2>10. \A u \in Task : Recorded(u)' => Head(task'[u].todo) \in diffs'
    <3>1. Recorded(t)' => w \in diffs'
      <4>1. CASE task[t].op = "apply"
        BY <1>2, <2>2, <2>7, <4>1 DEF Shared, Recorded, w
      <4>2. CASE task[t].op = "canon"
        <5>1. Recorded(t)' => task'[t].put = {}
          BY <1>5, <4>2 DEF Recorded
        <5>2. task'[t].put = {} => w \in diffs'
          <6>1. CASE \E k \in task[t].left : task' = [task EXCEPT ![t] = [task[t] EXCEPT !.left = @ \ {k}, !.put = k]]
            <7>1. PICK k \in task[t].left : task' = [task EXCEPT ![t] = [task[t] EXCEPT !.left = @ \ {k}, !.put = k]]
              BY <6>1
            <7>2. task'[t].put = k /\ k \in Key
              BY <1>2, <1>3, <7>1 DEF StateInv, StateType
            <7> QED
              BY <1>3, <7>2
          <6>2. CASE diffs' = IF task[t].op = "canon" THEN diffs \cup {w} ELSE diffs
            BY <4>2, <6>2
          <6> QED
            BY <1>4, <6>1, <6>2
        <5> QED
          BY <5>1, <5>2
      <4> QED
        BY <1>1, <4>1, <4>2
    <3> QED
      BY <1>5, <1>6, <2>2, <2>7, <3>1 DEF Shared, w
  <2>11. Shared'
    BY <1>1, <2>2, <2>3, <2>4, <2>5, <2>6, <2>7, <2>9, <2>10 DEF Shared
  <2>12. \A u \in Task : ~Exclusive(u)'
    BY <1>6, <2>2
  <2> QED
    BY <2>1, <2>11, <2>12 DEF Unraced
<1> QED
  BY <1>7, <1>8 DEF StateInv


LEMMA StateSaveDiff == ASSUME StateInv, Marks, NEW t \in Task, State!SaveDiff(t) PROVE StateInv'
<1>1. /\ task[t].op \in {"apply", "canon"} /\ task[t].put = {}
      /\ diffRows' = State!recordDiff(diffRows, Head(task[t].todo))
      /\ expect' = expect \cup Head(task[t].todo)
      /\ State!Begin(t, task[t].op, Tail(task[t].todo))
      /\ UNCHANGED <<placed, rows, ledgerBlocks>>
  BY DEF State!SaveDiff
<1>2. PICK w \in Diff : w = Head(task[t].todo)
  BY <1>1, RunningJob DEF StateInv
<1>3. PICK op \in {"apply", "canon"} : op = task[t].op
  BY <1>1
<1>4. Tail(task[t].todo) \in Seq(Diff)
  BY <1>1, RunningJob, TailIs DEF StateInv
<1>5. PICK todo \in Seq(Diff) : todo = Tail(task[t].todo)
  BY <1>4
<1>6. /\ Running(t) /\ Recorded(t) /\ ~Exclusive(t) /\ task[t] # State!Idle /\ task[t].left = {}
      /\ State!Begin(t, op, todo) /\ diffRows' = diffRows \cup {w} /\ expect' = expect \cup w
  <2>1. Running(t) /\ ~Exclusive(t) /\ task[t] # State!Idle /\ task[t].left = {}
    BY <1>1, RunningJob DEF StateInv
  <2>2. Recorded(t)
    BY <1>1, <2>1 DEF Recorded
  <2>3. State!recordDiff(diffRows, w) = diffRows \cup {w}
    BY RecordAdds DEF StateInv, StateType
  <2> QED
    BY <1>1, <1>2, <1>3, <1>5, <2>1, <2>2, <2>3
<1>7. StateType'
  <2>1. StateType
    BY DEF StateInv
  <2>2. /\ rows' \subseteq Key /\ expect' \subseteq Key /\ diffRows' \subseteq Diff
        /\ ledgerBlocks' \subseteq Diff /\ IsFiniteSet(ledgerBlocks')
    BY <1>1, <1>2, <1>6, <2>1 DEF StateType, Diff
  <2> QED
    BY <1>6, <2>1, <2>2, BegunType
<1>8. /\ Begun(t, op, todo) /\ \A u \in Task : u # t => task'[u] = task[u]
  BY <1>6, BeginIs DEF StateInv
<1>9. ~Exclusive(t)'
  BY <1>8, BegunOp DEF Exclusive
<1>10. ASSUME ~raced' PROVE Unraced'
  <2>1. ~raced /\ \A u, v \in Task : Exclusive(u)' /\ v # u => task'[v] = State!Idle
    BY <1>7, <1>10, Alone DEF StateInv
  <2>2. Shared /\ \A u \in Task : ~Exclusive(u)
    BY <1>6, <2>1, RunningShares DEF StateInv
  <2>3. w \subseteq rows /\ w \in diffs
    <3>1. w \subseteq rows \cup {} \cup {{}} /\ w \in diffs
      BY <1>1, <1>2, <1>6, <2>2 DEF Shared
    <3>2. {} \notin w
      BY <1>2, KeyAssumption DEF Diff
    <3> QED
      BY <3>1, <3>2
  <2>4. Known'
    <3>1. \A k \in Key : {k} \in diffRows' => {k} \in diffRows \/ k \in w
      BY <1>6
    <3>2. \A k \in Key : {k} \in diffRows' => k \in expect' \cup stray
      BY <1>6, <2>2, <3>1 DEF Shared, Known
    <3> QED
      BY <3>2, KnownKeeps
  <2>5. {k \in Key : \E u \in Task : Running(u) /\ task[u].put = k}
          = {k \in Key : \E u \in Task \ {t} : Running(u) /\ task[u].put = k}
    BY <1>1, KeyAssumption
  <2>6. held = rows' \cup {k \in Key : \E u \in Task \ {t} : Running(u) /\ task[u].put = k}
    BY <1>1, <2>2, <2>5 DEF Shared
  <2>7. \A k \in rows' : k \in expect' \/ \E u \in Task \ {t} : Running(u) /\ k \in Head(task[u].todo)
    BY <1>1, <1>2, <1>6, <2>2 DEF Shared
  <2>8. \A d \in diffs : d \in diffRows' \/ \E u \in Task \ {t} : Recorded(u) /\ d = Head(task[u].todo)
    BY <1>2, <1>6, <2>2 DEF Shared
  <2>9. SharedBut(t)
    BY <1>1, <1>6, <2>2, <2>3, <2>4, <2>6, <2>7, <2>8 DEF Shared, SharedBut
  <2>10. Shared'
    BY <1>8, <2>9, BeginShares
  <2>11. \A u \in Task : ~Exclusive(u)'
    BY <1>8, <1>9, <2>2 DEF Exclusive
  <2> QED
    BY <2>1, <2>10, <2>11 DEF Unraced
<1> QED
  BY <1>7, <1>10 DEF StateInv

\* A step that leaves one handler exclusive: everyone else is idle.
LEMMA ExclusiveStep ==
  ASSUME StateInv, Marks, StateType', NEW t \in Task, Exclusive(t)', ~raced => (~raced' => Halted(t)')
  PROVE  StateInv'
<1>1. ASSUME ~raced' PROVE Unraced'
  <2>1. ~raced /\ \A u, v \in Task : Exclusive(u)' /\ v # u => task'[v] = State!Idle
    BY <1>1, Alone DEF StateInv
  <2>2. State!Idle.op = "idle"
    BY DEF State!Idle
  <2>3. \A u \in Task : Exclusive(u)' => u = t
    BY <2>1, <2>2 DEF Exclusive
  <2> QED
    BY <1>1, <2>1, <2>3 DEF Unraced
<1> QED
  BY <1>1 DEF StateInv

LEMMA JobSet ==
  ASSUME StateType, NEW t \in Task, NEW j \in Job, task' = [task EXCEPT ![t] = j]
  PROVE  task' \in [Task -> Job] /\ task'[t] = j /\ \A u \in Task : u # t => task'[u] = task[u]
BY DEF StateType

LEMMA NotRunningType ==
  ASSUME StateType, Marks, NEW t \in Task, NEW j \in Job, task' = [task EXCEPT ![t] = j], j.op \notin {"apply", "canon"},
         rows' \subseteq Key, expect' \subseteq Key, diffs' \subseteq Diff, diffRows' \subseteq Diff, ledgerBlocks' = ledgerBlocks
  PROVE  StateType'
<1>1. task' \in [Task -> Job] /\ task'[t] = j /\ \A u \in Task : u # t => task'[u] = task[u]
  BY JobSet
<1>2. \A u \in Task : Running(u)' => u # t /\ Running(u) /\ task'[u] = task[u]
  BY <1>1 DEF Running
<1> QED
  BY <1>1, <1>2, MarksType DEF StateType

\* The starts of a rebuild and of a forget.
LEMMA StateExclusiveStarts ==
  ASSUME StateInv, Marks, NEW t \in Task, State!RebuildFromCanonical(t) \/ \E k \in Key : State!Forget(t, k)
  PROVE  StateInv'
<1>1. task[t] = State!Idle /\ UNCHANGED <<rows, diffs, diffRows, ledgerBlocks, expect>>
  BY DEF State!RebuildFromCanonical, State!Forget, State!Start
<1>2. ASSUME ~raced, ~raced', StateType, Exclusive(t)', \A u \in Task : u # t => task'[u] = task[u]
      PROVE  placed = expect /\ held = expect /\ rows = expect /\ diffs = diffRows /\ Known /\ Known'
  <2>1. \A u \in Task : task[u] = State!Idle
    BY <1>1, <1>2, Alone
  <2>2. placed = expect /\ held = expect /\ rows = expect /\ diffs = diffRows /\ Known
    BY <1>2, <2>1, RestAgrees DEF StateInv
  <2> QED
    BY <1>1, <2>2, KnownKeeps DEF Known
<1>3. CASE State!RebuildFromCanonical(t)
  <2> DEFINE j == [op |-> "clear"]
  <2>1. /\ task' = [task EXCEPT ![t] = j] /\ placed' = {} /\ held' = {} /\ j \in Job /\ j.op = "clear"
    BY <1>3 DEF State!RebuildFromCanonical, Job
  <2> HIDE DEF j
  <2>2. StateType'
    BY <1>1, <2>1, NotRunningType DEF StateInv, StateType
  <2>3. task'[t].op = "clear" /\ Exclusive(t)' /\ \A u \in Task : u # t => task'[u] = task[u]
    BY <2>1, JobSet DEF StateInv, Exclusive
  <2>4. ~raced => (~raced' => Halted(t)')
    BY <1>1, <1>2, <2>1, <2>3 DEF StateInv, Halted
  <2> QED
    BY <2>2, <2>3, <2>4, ExclusiveStep
<1>4. CASE \E k \in Key : State!Forget(t, k)
  <2>1. PICK k \in Key : State!Forget(t, k)
    BY <1>4
  <2> DEFINE j == [op |-> "forget", key |-> k, row |-> TRUE]
  <2>2. /\ task' = [task EXCEPT ![t] = j] /\ placed' = placed /\ held' = held \ {k} /\ j \in Job
        /\ j.op = "forget" /\ j.key = k /\ j.row = TRUE
    BY <2>1 DEF State!Forget, Job
  <2> HIDE DEF j
  <2>3. StateType'
    BY <1>1, <2>2, NotRunningType DEF StateInv, StateType
  <2>4. task'[t] = j /\ Exclusive(t)' /\ \A u \in Task : u # t => task'[u] = task[u]
    BY <2>2, JobSet DEF StateInv, Exclusive
  <2>5. ~raced => (~raced' => Halted(t)')
    BY <1>1, <1>2, <2>2, <2>4 DEF StateInv, Halted
  <2> QED
    BY <2>3, <2>4, <2>5, ExclusiveStep
<1> QED
  BY <1>3, <1>4

LEMMA StateClearRows == ASSUME StateInv, Marks, NEW t \in Task, State!ClearRows(t) PROVE StateInv'
<1> DEFINE j == [op |-> "cleardiffs"]
<1>1. /\ task[t].op = "clear" /\ task' = [task EXCEPT ![t] = j] /\ j \in Job /\ j.op = "cleardiffs"
      /\ rows' = {} /\ diffs' = {} /\ UNCHANGED <<held, placed, diffRows, ledgerBlocks, expect>>
  BY DEF State!ClearRows, Job
<1> HIDE DEF j
<1>2. StateType'
  BY <1>1, NotRunningType DEF StateInv, StateType
<1>3. task'[t].op = "cleardiffs" /\ Exclusive(t)' /\ Exclusive(t)
  BY <1>1, JobSet DEF StateInv, Exclusive
<1>4. ~raced => (~raced' => Halted(t)')
  BY <1>1, <1>3 DEF StateInv, Unraced, Halted
<1> QED
  BY <1>2, <1>3, <1>4, ExclusiveStep

LEMMA StateForgetRow == ASSUME StateInv, Marks, NEW t \in Task, State!ForgetRow(t) PROVE StateInv'
<1>1. PICK k : k = task[t].key
  OBVIOUS
<1>2. task[t].op = "forget" /\ task[t].row
  BY DEF State!ForgetRow
<1>3. task[t] \in [op : {"forget"}, key : Key, row : BOOLEAN]
  BY <1>2 DEF StateInv, StateType, Job
<1> DEFINE j == [task[t] EXCEPT !.row = FALSE]
<1>4. k \in Key /\ j \in Job /\ j.op = "forget" /\ j.key = k /\ j.row = FALSE
  <2>1. /\ k \in Key /\ j \in [op : {"forget"}, key : Key, row : BOOLEAN]
        /\ j.op = "forget" /\ j.key = k /\ j.row = FALSE
    BY <1>1, <1>3
  <2>2. j \in Job
    BY <2>1 DEF Job
  <2> QED
    BY <2>1, <2>2
<1>5. /\ rows' = rows \ {k} /\ placed' = placed \ {k} /\ diffs' = {d \in diffs : State!identity(d) # k}
      /\ task' = [task EXCEPT ![t].row = FALSE]
      /\ UNCHANGED <<held, diffRows, ledgerBlocks, expect>>
  BY <1>1 DEF State!ForgetRow
<1>6. task' = [task EXCEPT ![t] = j]
  BY <1>5
<1> HIDE DEF j
<1>7. diffs' = diffs \ {{k}}
  BY <1>4, <1>5, ForgetDrops DEF StateInv, StateType
<1>8. StateType'
  BY <1>4, <1>5, <1>6, <1>7, NotRunningType DEF StateInv, StateType
<1>9. task'[t] = j /\ Exclusive(t)' /\ Exclusive(t)
  BY <1>2, <1>4, <1>6, JobSet DEF StateInv, Exclusive
<1>10. ASSUME ~raced PROVE Halted(t)'
  <2>1. Halted(t)
    BY <1>9, <1>10 DEF StateInv, Unraced
  <2>2. held = expect \ {k} /\ placed = expect /\ rows = expect /\ diffs = diffRows /\ Known
    BY <1>1, <1>2, <2>1 DEF Halted
  <2>3. Known'
    BY <1>5, <2>2, KnownKeeps DEF Known
  <2> QED
    BY <1>4, <1>5, <1>7, <1>9, <2>2, <2>3 DEF Halted
<1> QED
  BY <1>8, <1>9, <1>10, ExclusiveStep


LEMMA StateForgetDiffRow == ASSUME StateInv, Marks, NEW t \in Task, State!ForgetDiffRow(t) PROVE StateInv'
<1>1. PICK k : k = task[t].key
  OBVIOUS
<1>2. task[t].op = "forget" /\ ~task[t].row
  BY DEF State!ForgetDiffRow
<1>3. task[t] \in [op : {"forget"}, key : Key, row : BOOLEAN]
  BY <1>2 DEF StateInv, StateType, Job
<1>4. k \in Key /\ State!Idle \in Job /\ State!Idle.op = "idle"
  BY <1>1, <1>3 DEF Job, State!Idle
<1>5. /\ diffRows' = {d \in diffRows : State!identity(d) # k} /\ expect' = expect \ {k}
      /\ task' = [task EXCEPT ![t] = State!Idle]
      /\ UNCHANGED <<held, placed, rows, diffs, ledgerBlocks>>
  BY <1>1 DEF State!ForgetDiffRow
<1>6. diffRows' = diffRows \ {{k}}
  BY <1>4, <1>5, ForgetDrops DEF StateInv, StateType
<1>7. StateType'
  BY <1>4, <1>5, <1>6, NotRunningType DEF StateInv, StateType
<1>8. task'[t] = State!Idle /\ Exclusive(t) /\ \A u \in Task : u # t => task'[u] = task[u]
  BY <1>2, <1>4, <1>5, JobSet DEF StateInv, Exclusive
<1>9. ASSUME ~raced' PROVE Unraced'
  <2>1. ~raced /\ \A u, v \in Task : Exclusive(u)' /\ v # u => task'[v] = State!Idle
    BY <1>7, <1>9, Alone DEF StateInv
  <2>2. Halted(t) /\ \A u \in Task : u # t => task[u] = State!Idle
    BY <1>8, <2>1 DEF StateInv, Unraced
  <2>3. \A u \in Task : task'[u] = State!Idle
    BY <1>8, <2>2
  <2>4. \A u \in Task : ~Exclusive(u)' /\ ~Running(u)' /\ ~Recorded(u)'
    BY <1>4, <2>3 DEF Exclusive, Running, Recorded
  <2>5. held = expect \ {k} /\ placed = held /\ rows = held /\ diffs = diffRows \ {{k}} /\ Known
    BY <1>1, <1>2, <2>2 DEF Halted
  <2>6. Known'
    <3>1. \A x \in Key : {x} \in diffRows' => x # k /\ {x} \in diffRows
      BY <1>6
    <3>2. \A x \in Key : {x} \in diffRows' => x \in expect' \cup stray
      BY <1>5, <2>5, <3>1 DEF Known
    <3> QED
      BY <3>2, KnownKeeps
  <2>7. Shared'
    BY <1>5, <1>6, <2>4, <2>5, <2>6 DEF Shared
  <2> QED
    BY <2>1, <2>4, <2>7 DEF Unraced
<1> QED
  BY <1>7, <1>9 DEF StateInv

\* The canonical anchors are applied to nothing.
LEMMA StateClearDiffRows == ASSUME StateInv, Marks, NEW t \in Task, State!ClearDiffRows(t) PROVE StateInv'
<1>1. /\ task[t].op = "cleardiffs" /\ diffRows' = {} /\ expect' = {}
      /\ State!Begin(t, "canon", [i \in 1 .. Len(Canon) |-> {Canon[i]}])
      /\ UNCHANGED <<placed, rows, ledgerBlocks>>
  BY DEF State!ClearDiffRows
<1>2. PICK todo \in Seq(Diff) : todo = [i \in 1 .. Len(Canon) |-> {Canon[i]}]
  <2>1. \A i \in 1 .. Len(Canon) : {Canon[i]} \in Diff
    <3>1. ASSUME NEW i \in 1 .. Len(Canon) PROVE Canon[i] \in Key
      BY KeyAssumption
    <3>2. \A k \in Key : IsFiniteSet({k}) /\ {k} # {} /\ {k} \in SUBSET Key
      BY FS_Singleton
    <3> QED
      BY <3>1, <3>2 DEF Diff
  <2>2. Len(Canon) \in Nat
    BY KeyAssumption
  <2>3. [i \in 1 .. Len(Canon) |-> {Canon[i]}] \in Seq(Diff)
    BY <2>1, <2>2
  <2> QED
    BY <2>3
<1>3. State!Begin(t, "canon", todo)
  BY <1>1, <1>2
<1>4. StateType'
  BY <1>1, <1>3, BegunType DEF StateInv, StateType
<1>5. /\ Begun(t, "canon", todo) /\ \A u \in Task : u # t => task'[u] = task[u]
  BY <1>3, BeginIs DEF StateInv
<1>6. ~Exclusive(t)' /\ Exclusive(t)
  BY <1>1, <1>5, BegunOp DEF Exclusive
<1>7. ASSUME ~raced' PROVE Unraced'
  <2>1. ~raced /\ \A u, v \in Task : Exclusive(u)' /\ v # u => task'[v] = State!Idle
    BY <1>4, <1>7, Alone DEF StateInv
  <2>2. Halted(t) /\ \A u \in Task : u # t => task[u] = State!Idle
    BY <1>6, <2>1 DEF StateInv, Unraced
  <2>3. State!Idle.op = "idle"
    BY DEF State!Idle
  <2>4. \A u \in Task \ {t} : ~Running(u) /\ ~Recorded(u) /\ ~Exclusive(u)
    BY <2>2, <2>3 DEF Running, Recorded, Exclusive
  <2>5. held = {} /\ placed = {} /\ rows = {} /\ diffs = {}
    BY <1>1, <2>2 DEF Halted
  <2>6. Known'
    BY <1>1, KnownKeeps
  <2>7. SharedBut(t)
    BY <1>1, <2>4, <2>5, <2>6 DEF SharedBut
  <2>8. Shared'
    BY <1>5, <2>7, BeginShares
  <2>9. \A u \in Task : ~Exclusive(u)'
    BY <1>5, <1>6, <2>4 DEF Exclusive
  <2> QED
    BY <2>1, <2>8, <2>9 DEF Unraced
<1> QED
  BY <1>4, <1>7 DEF StateInv

\* A restart reads back a state in which nothing is under way.
LEMMA StateRestart == ASSUME StateInv, boots \in Nat, Marks, State!Restart PROVE StateInv'
<1> DEFINE again == State!Replayed(rows, diffRows)
           there == rows \cup again
<1>1. /\ rows' = there /\ held' = there /\ placed' = State!LoadedTrie(rows) \cup again /\ diffs' = diffRows
      /\ task' = [u \in Task |-> State!Idle]
      /\ expect' = IF State!Rest /\ (rows # {} \/ \A d \in diffRows : State!Cardinality(d) = 1 /\ d \cap stray = {})
                   THEN expect ELSE there
      /\ boots' = boots + 1
      /\ UNCHANGED <<diffRows, ledgerBlocks>>
  BY DEF State!Restart
<1>2. again \subseteq Key
  BY DEF State!Replayed, StateInv, StateType, Diff
<1>3. rows = {} => \A d \in diffRows : d \subseteq again
  BY DEF State!Replayed
<1>4. rows # {} => again = {}
  BY DEF State!Replayed
<1>5. placed' = there
  BY <1>1 DEF State!LoadedTrie
<1> HIDE DEF again, there
<1>6. /\ \A u \in Task : task'[u] = State!Idle
      /\ \A u \in Task : ~Running(u)' /\ ~Exclusive(u)' /\ ~Recorded(u)'
      /\ task' \in [Task -> Job]
  BY <1>1 DEF Running, Exclusive, Recorded, State!Idle, Job
<1>7. there \subseteq Key
  BY <1>2 DEF there, StateInv, StateType
<1>8. StateType'
  <2>1. rows' \subseteq Key /\ expect' \subseteq Key /\ diffs' \subseteq Diff /\ diffRows' \subseteq Diff
    BY <1>1, <1>7 DEF StateInv, StateType
  <2> QED
    BY <1>1, <1>6, <2>1, MarksType DEF StateInv, StateType
<1>9. ASSUME ~raced' PROVE Unraced'
  <2>1. ~raced
    BY <1>8, <1>9, Alone DEF StateInv
  <2>2. Unraced
    BY <2>1 DEF StateInv
  \* Every diff of one key that the boot finds is of a key it holds, or a crash has left it.
  <2>3. ASSUME NEW k \in Key, {k} \in diffRows, k \notin there, k \notin stray PROVE k \in State!CutShort
    <3>1. rows # {} /\ k \notin rows
      BY <1>3, <2>3 DEF there
    <3>2. CASE \E u \in Task : Exclusive(u)
      <4>1. PICK u \in Task : Exclusive(u)
        BY <3>2
      <4>2. Halted(u)
        BY <2>2, <4>1 DEF Unraced
      <4>3. task[u].op = "forget" /\ ~task[u].row
        BY <2>3, <3>1, <4>2 DEF Halted, Known
      <4>4. k = task[u].key
        BY <2>3, <3>1, <4>2, <4>3 DEF Halted, Known
      <4>5. boots' # boots
        BY <1>1
      <4> QED
        BY <4>3, <4>4, <4>5 DEF State!CutShort
    <3>3. CASE ~ \E u \in Task : Exclusive(u)
      <4>1. k \in expect /\ expect \subseteq rows
        BY <2>2, <2>3, <3>3 DEF Unraced, Shared, Known
      <4> QED
        BY <3>1, <4>1
    <3> QED
      BY <3>2, <3>3
  <2>4. expect' = there
    <3>1. CASE State!Rest /\ (rows # {} \/ \A d \in diffRows : State!Cardinality(d) = 1 /\ d \cap stray = {})
      <4>1. expect' = expect /\ \A u \in Task : task[u] = State!Idle
        BY <1>1, <3>1 DEF State!Rest
      <4>2. rows = expect /\ Known
        BY <2>2, <4>1, RestAgrees
      <4>3. again = {}
        <5>1. CASE rows # {}
          BY <1>4, <5>1
        <5>2. CASE rows = {} /\ \A d \in diffRows : State!Cardinality(d) = 1 /\ d \cap stray = {}
          <6>1. ASSUME NEW d \in diffRows PROVE FALSE
            <7>1. State!Cardinality(d) = Cardinality(d)
              BY DEF State!Cardinality, Cardinality, State!IsFiniteSet, IsFiniteSet
            <7>2. IsFiniteSet(d) /\ d \subseteq Key
              BY DEF StateInv, StateType, Diff
            <7>3. PICK k : d = {k}
              BY <5>2, <7>1, <7>2, FS_Singleton
            <7>4. k \in expect \cup stray
              BY <4>2, <7>2, <7>3 DEF Known
            <7> QED
              BY <4>2, <5>2, <7>3, <7>4
          <6> QED
            BY <6>1 DEF again, State!Replayed
        <5> QED
          BY <3>1, <5>1, <5>2
      <4> QED
        BY <4>1, <4>2, <4>3 DEF there
    <3>2. CASE ~(State!Rest /\ (rows # {} \/ \A d \in diffRows : State!Cardinality(d) = 1 /\ d \cap stray = {}))
      BY <1>1, <3>2
    <3> QED
      BY <3>1, <3>2
  <2>5. Known'
    BY <1>1, <2>3, <2>4 DEF Marks, Known
  <2>6. Shared'
    BY <1>1, <1>5, <1>6, <2>4, <2>5 DEF Shared
  <2> QED
    BY <1>6, <2>6 DEF Unraced
<1> QED
  BY <1>8, <1>9 DEF StateInv

LEMMA BootsCount == boots \in Nat /\ State!Next => (boots \in Nat)'
<1> SUFFICES ASSUME boots \in Nat, State!Step PROVE boots' \in Nat
  BY DEF State!Next
<1>1. CASE State!Restart
  BY <1>1 DEF State!Restart
<1>2. ASSUME NEW t \in Task,
             \/ \E w \in Writes : State!HandleLedgerBlock(t, w)
             \/ State!Backfill(t) \/ State!RebuildFromCanonical(t) \/ \E k \in Key : State!Forget(t, k)
      PROVE  boots' \in Nat
  <2>1. State!Start(t)
    BY <1>2 DEF State!HandleLedgerBlock, State!Backfill, State!RebuildFromCanonical, State!Forget
  <2> QED
    BY <2>1 DEF State!Start
<1>3. ASSUME NEW t \in Task,
             \/ State!InsertEnd(t) \/ State!SaveDiff(t) \/ State!ClearRows(t) \/ State!ClearDiffRows(t)
             \/ State!ForgetRow(t) \/ State!ForgetDiffRow(t)
      PROVE  boots' \in Nat
  <2>1. boots' = boots
    BY <1>3 DEF State!InsertEnd, State!SaveDiff, State!ClearRows, State!ClearDiffRows, State!ForgetRow, State!ForgetDiffRow
  <2> QED
    BY <2>1
<1> QED
  BY <1>1, <1>2, <1>3 DEF State!Step

LEMMA StateStep == StateInv /\ boots \in Nat /\ State!Next => StateInv'
<1> SUFFICES ASSUME StateInv, boots \in Nat, State!Next PROVE StateInv'
  OBVIOUS
<1>1. Marks /\ State!Step
  BY DEF State!Next, Marks
<1>2. CASE State!Restart
  BY <1>1, <1>2, StateRestart
<1>3. ASSUME NEW t \in Task,
             \/ \E w \in Writes : State!HandleLedgerBlock(t, w)
             \/ State!Backfill(t) \/ State!InsertEnd(t) \/ State!SaveDiff(t)
             \/ State!RebuildFromCanonical(t) \/ State!ClearRows(t) \/ State!ClearDiffRows(t)
             \/ \E k \in Key : State!Forget(t, k)
             \/ State!ForgetRow(t) \/ State!ForgetDiffRow(t)
      PROVE  StateInv'
  BY <1>1, <1>3, StateApply, StateInsertEnd, StateSaveDiff, StateExclusiveStarts, StateClearRows, StateClearDiffRows,
    StateForgetRow, StateForgetDiffRow
<1> QED
  BY <1>1, <1>2, <1>3 DEF State!Step

LEMMA StateIdles == StateInv /\ UNCHANGED stateVars => StateInv'
<1> SUFFICES ASSUME StateInv, UNCHANGED stateVars PROVE StateInv'
  OBVIOUS
<1>1. /\ \A t : Running(t)' = Running(t) /\ Exclusive(t)' = Exclusive(t) /\ Recorded(t)' = Recorded(t) /\ Halted(t)' = Halted(t)
      /\ Known' = Known
  BY DEF stateVars, Running, Exclusive, Recorded, Halted, Known
<1>2. StateType'
  BY <1>1 DEF stateVars, StateInv, StateType
<1>3. Unraced => Unraced'
  BY <1>1 DEF stateVars, Unraced, Shared
<1> QED
  BY <1>2, <1>3 DEF stateVars, StateInv

LEMMA StateInit == State!Init => StateInv
<1> SUFFICES ASSUME State!Init PROVE StateInv
  OBVIOUS
<1>1. \A t \in Task : task[t] = State!Idle /\ ~Running(t) /\ ~Exclusive(t) /\ ~Recorded(t)
  BY DEF State!Init, State!Idle, Running, Exclusive, Recorded
<1>2. StateType
  <2>1. task \in [Task -> Job]
    BY DEF State!Init, State!Idle, Job
  <2> QED
    BY <1>1, <2>1, FS_EmptySet DEF State!Init, StateType
<1>3. Shared
  BY <1>1 DEF State!Init, Shared, Known
<1> QED
  BY <1>1, <1>2, <1>3 DEF StateInv, Unraced

\* A node at rest has the root, the map and the rows that its operations promised, and the diffs in
\* memory are those on disk: for any keys and blocks, any number of handlers that overlap, of rebuilds
\* and of crashes at any await, as long as no clear or delete overlapped another handler.
THEOREM RootIsPromiseHolds == Spec => []RootIsPromise
<1>1. Init => StateInv /\ boots \in Nat
  BY StateInit DEF Init, State!Init
<1>2. StateInv /\ boots \in Nat /\ [Next]_vars => (StateInv /\ boots \in Nat)'
  <2>1. UNCHANGED stateVars => boots' = boots
    BY DEF stateVars
  <2> QED
    BY <2>1, StateStep, StateIdles, BootsCount DEF Next, vars
<1>3. StateInv => RootIsPromise
  <2> SUFFICES ASSUME StateInv PROVE State!RootIsPromise /\ State!DiffsMatchRows
    BY DEF RootIsPromise
  <2> QED
    BY RestAgrees DEF StateInv, State!RootIsPromise, State!DiffsMatchRows, State!Rest
<1> QED
  BY <1>1, <1>2, <1>3, PTL DEF Spec

=============================================================================
