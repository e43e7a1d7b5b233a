------------------------------ MODULE SealRound ------------------------------
(***************************************************************************)
(* Seal-boundary agreement: one SealRoundManager per node                  *)
(* (packages/consensus/src/seal-round.js) over the pure policy of          *)
(* packages/consensus/src/seal-agreement.js, wired to the ledger's         *)
(* candidate pool by core/index.js _startSealRounds.  The manager is       *)
(* level-agnostic; the module reads as level L1 (items are blocks, a       *)
(* sealed set is a face), where the ledger side is sealAgreedBlocks.       *)
(*                                                                         *)
(* An item is its content key, a natural number.  A set-hash is a digest   *)
(* of the sorted keys, so it is modelled by the set itself: equal digests  *)
(* mean equal sets, and the member ids carried beside a digest are the     *)
(* set's elements.                                                         *)
(***************************************************************************)
EXTENDS Naturals, FiniteSets, Sequences
LOCAL INSTANCE TLC

CONSTANTS
  Node,        \* the nodes that run seal rounds (every node with the v2 flag)
  Lead,        \* XPC_LEAD_ALLOWLIST, the configured leads the quorum counts
  Item,        \* content keys of the blocks
  Start,       \* the blocks every node has in its saved pool at the outset
  ChunkSize,   \* 9 at L1, 3 at L2
  Slot,        \* invocations of the interval callback that may overlap
  Vouch,       \* DONE_REBROADCAST
  DoneCap,     \* 4096, the cap of _done
  Lossy,       \* whether the topic drops proposals (an undelivered proposal
               \* is lost anyway; dropping matters to liveness only)
  MaxCrashes   \* bound: restarts of nodes in one behaviour

ASSUME NodeAssumption  == IsFiniteSet(Node) /\ Node # {}
ASSUME LeadAssumption  == Lead \subseteq Node /\ Lead # {}
ASSUME ItemAssumption  == Item \subseteq Nat /\ IsFiniteSet(Item) /\ Start \subseteq Item
ASSUME ChunkAssumption == ChunkSize \in Nat \ {0}
ASSUME SlotAssumption  == Slot # {}
ASSUME BoundAssumption == Vouch \in Nat \ {0} /\ DoneCap \in Nat \ {0}
ASSUME EnvAssumption   == Lossy \in BOOLEAN /\ MaxCrashes \in Nat

VARIABLES
  todo,      \* todo[n]: finalized transactions not yet handed to n's ledger
  pool,      \* pool[n]: _membershipPool, the unsealed items of n
  faces,     \* faces[n]: the sets n has sealed, in order
  dPool,     \* dPool[n]: 'pool:membership' on n's disk
  dFaces,    \* dFaces[n]: 'pool:pendingfaces' on n's disk
  heard,     \* heard[n]: _peers, the proposals n has recorded
  done,      \* done[n]: _doneOrder, the sets n resolved since it booted
  tick,      \* tick[n][k]: what invocation k of the interval callback awaits
  net,       \* proposals on the gossip topic
  backed,    \* history: who proposed which set as its own candidate
  crashes    \* history: restarts so far

vars == <<todo, pool, faces, dPool, dFaces, heard, done, tick, net, backed, crashes>>

-----------------------------------------------------------------------------
(* What a round is about. *)

Chunk    == {S \in SUBSET Item : Cardinality(S) = ChunkSize}
Proposal == [from : Node, set : Chunk]

\* The stages of a seal between two awaits: the blocks' rows are being put,
\* the shrunk pool is being put, the grown list of faces is being put.
Job  == [stage : {"blocks", "pool", "faces"}, set : Chunk]
Idle == [stage |-> "idle", set |-> {}]

\* Mutant of Quorum: half of the leads, without the + 1.
QuorumHalf == Cardinality(Lead) \div 2

\* Strict majority of the configured leads, whoever is alive.
Quorum == Cardinality(Lead) \div 2 + 1

\* Mutant of CandidatePrefix: a pool smaller than a chunk is proposed whole.
CandidateShort(P) ==
  {S \in SUBSET P : /\ Cardinality(S) = ChunkSize \/ (S = P /\ Cardinality(P) < ChunkSize)
                    /\ \A x \in S, y \in P \ S : x < y}

\* candidatePrefix with maxChunks = 1: the lowest ChunkSize keys of P, as a
\* set of one set, or of none when P is smaller than a chunk.
CandidatePrefix(P) ==
  {S \in SUBSET P : /\ Cardinality(S) = ChunkSize
                    /\ \A x \in S, y \in P \ S : x < y}

\* The elements of a sequence, and of its last k places.
Elems(s)     == {s[i] : i \in DOMAIN s}
LastOf(s, k) == {s[i] : i \in {j \in DOMAIN s : j + k > Len(s)}}

\* Mutant of Voters: the node counts itself for every set, not just its own.
VotersSelf(n, mine, S) ==
  {p.from : p \in {q \in heard[n] : q.set = S}} \cup {n}

\* The nodes n counts for set S when its own candidate is mine.
Voters(n, mine, S) ==
  {p.from : p \in {q \in heard[n] : q.set = S}} \cup (IF S = mine THEN {n} ELSE {})

\* decideRound: the set with the most votes wins, the node's own set first
\* among equals; a set short of the quorum wins nothing.
Leading(n, mine, S) ==
  /\ \A T \in {p.set : p \in heard[n]} \cup {mine} :
       Cardinality(Voters(n, mine, T)) =< Cardinality(Voters(n, mine, S))
  /\ S # mine =>
       Cardinality(Voters(n, mine, mine)) < Cardinality(Voters(n, mine, S))

Wins(n, mine, S) ==
  /\ Cardinality(Voters(n, mine, S)) >= Quorum
  /\ Leading(n, mine, S)

\* The proposals by which n vouches for what it resolved recently, on every
\* tick and in answer to a peer.
Rebroadcast(n) == {[from |-> n, set |-> S] : S \in LastOf(done[n], Vouch)}
Vouchable(n)   == LastOf(done[n], 4 * Vouch)

\* _markDone's bounded list of resolved sets.
Resolve(s, S) ==
  IF S \in Elems(s) THEN s
  ELSE IF Len(s) < DoneCap THEN Append(s, S) ELSE Tail(Append(s, S))

-----------------------------------------------------------------------------
Init ==
  /\ todo    = [n \in Node |-> Item \ Start]
  /\ pool    = [n \in Node |-> Start]
  /\ faces   = [n \in Node |-> <<>>]
  /\ dPool   = [n \in Node |-> Start]
  /\ dFaces  = [n \in Node |-> <<>>]
  /\ heard   = [n \in Node |-> {}]
  /\ done    = [n \in Node |-> <<>>]
  /\ tick    = [n \in Node |-> [k \in Slot |-> Idle]]
  /\ net     = {}
  /\ backed  = {}
  /\ crashes = 0

\* addSealedBatch under consensus v2: the finalized transaction joins the
\* pool and the pool is saved.  Nodes finalize in different orders.
Arrive(n, x) ==
  /\ x \in todo[n]
  /\ todo'  = [todo EXCEPT ![n] = @ \ {x}]
  /\ pool'  = [pool EXCEPT ![n] = @ \cup {x}]
  /\ dPool' = [dPool EXCEPT ![n] = pool'[n]]
  /\ UNCHANGED <<faces, dFaces, heard, done, tick, net, backed, crashes>>

\* Mutant of Deliver: a proposal for a resolved set gets no answer.
DeliverSilent(n, p) ==
  /\ p \in net
  /\ p.from # n
  /\ p.set \notin Elems(done[n])
  /\ heard' = [heard EXCEPT ![n] = @ \cup {p}]
  /\ UNCHANGED <<todo, pool, faces, dPool, dFaces, done, tick, net, backed, crashes>>

\* onPeerProposal: record the proposal, or answer for a set already resolved
\* here.  The proposal stays on the topic: other nodes, and this one again,
\* may still receive it.
Deliver(n, p) ==
  /\ p \in net
  /\ p.from # n
  /\ \/ /\ p.set \notin Elems(done[n])
        /\ heard' = [heard EXCEPT ![n] = @ \cup {p}]
        /\ UNCHANGED net
     \/ /\ p.set \in Vouchable(n)
        /\ net' = net \cup {[from |-> n, set |-> p.set]}
        /\ UNCHANGED heard
  /\ UNCHANGED <<todo, pool, faces, dPool, dFaces, done, tick, backed, crashes>>

\* A proposal leaves the topic, whether or not everyone received it.
Expire(p) ==
  /\ Lossy
  /\ p \in net
  /\ net' = net \ {p}
  /\ UNCHANGED <<todo, pool, faces, dPool, dFaces, heard, done, tick, backed, crashes>>

\* tick() with no candidate, or with one resolved before: vouch and return.
TickIdle(n, k) ==
  /\ tick[n][k] = Idle
  /\ CandidatePrefix(pool[n]) \subseteq Elems(done[n])
  /\ net' = net \cup Rebroadcast(n)
  /\ UNCHANGED <<todo, pool, faces, dPool, dFaces, heard, done, tick, backed, crashes>>

\* The part of tick() up to the decision: vouch, then propose the candidate.
Propose(n, mine) ==
  /\ mine \notin Elems(done[n])
  /\ net'    = net \cup Rebroadcast(n) \cup {[from |-> n, set |-> mine]}
  /\ backed' = backed \cup {[from |-> n, set |-> mine]}

\* No set has a quorum, or the one that has is not all in the pool yet
\* (adoptSet returns false): everything is retained for the next tick.
TickStall(n, k) ==
  /\ tick[n][k] = Idle
  /\ \E mine \in CandidatePrefix(pool[n]) :
       /\ Propose(n, mine)
       /\ \/ \A S \in {p.set : p \in heard[n]} \cup {mine} : ~ Wins(n, mine, S)
          \/ \E p \in heard[n] : Wins(n, mine, p.set) /\ ~ p.set \subseteq pool[n]
  /\ UNCHANGED <<todo, pool, faces, dPool, dFaces, heard, done, tick, crashes>>

\* The node's own candidate, or a peers' set it can adopt, has a quorum:
\* sealAgreedBlocks finds every member in the pool and starts to put them.
TickSeal(n, k) ==
  /\ tick[n][k] = Idle
  /\ \E mine \in CandidatePrefix(pool[n]) :
       /\ Propose(n, mine)
       /\ \E S \in {p.set : p \in heard[n]} \cup {mine} :
            /\ Wins(n, mine, S)
            /\ S \subseteq pool[n]
            /\ tick' = [tick EXCEPT ![n][k] = [stage |-> "blocks", set |-> S]]
  /\ UNCHANGED <<todo, pool, faces, dPool, dFaces, heard, done, crashes>>

\* The rows are put: the members leave the pool and the face is queued.
CommitFace(n, k) ==
  /\ tick[n][k].stage = "blocks"
  /\ pool'  = [pool EXCEPT ![n] = @ \ tick[n][k].set]
  /\ faces' = [faces EXCEPT ![n] = Append(@, tick[n][k].set)]
  /\ tick'  = [tick EXCEPT ![n][k].stage = "pool"]
  /\ UNCHANGED <<todo, dPool, dFaces, heard, done, net, backed, crashes>>

\* Mutant of SavePool: the shrunk pool is not put.
SavePoolSkipped(n, k) ==
  /\ tick[n][k].stage = "pool"
  /\ tick'  = [tick EXCEPT ![n][k].stage = "faces"]
  /\ UNCHANGED <<todo, pool, faces, dPool, dFaces, heard, done, net, backed, crashes>>

\* _persistMembershipPool.
SavePool(n, k) ==
  /\ tick[n][k].stage = "pool"
  /\ dPool' = [dPool EXCEPT ![n] = pool[n]]
  /\ tick'  = [tick EXCEPT ![n][k].stage = "faces"]
  /\ UNCHANGED <<todo, pool, faces, dFaces, heard, done, net, backed, crashes>>

\* Mutant of SaveFaces: the grown list of faces is not put.
SaveFacesSkipped(n, k) ==
  /\ tick[n][k].stage = "faces"
  /\ heard'  = [heard EXCEPT ![n] = {p \in @ : p.set # tick[n][k].set}]
  /\ done'   = [done EXCEPT ![n] = Resolve(@, tick[n][k].set)]
  /\ tick'   = [tick EXCEPT ![n][k] = Idle]
  /\ UNCHANGED <<todo, pool, faces, dPool, dFaces, net, backed, crashes>>

\* _persistPendingFaces, and back in tick() _markDone.
SaveFaces(n, k) ==
  /\ tick[n][k].stage = "faces"
  /\ dFaces' = [dFaces EXCEPT ![n] = faces[n]]
  /\ heard'  = [heard EXCEPT ![n] = {p \in @ : p.set # tick[n][k].set}]
  /\ done'   = [done EXCEPT ![n] = Resolve(@, tick[n][k].set)]
  /\ tick'   = [tick EXCEPT ![n][k] = Idle]
  /\ UNCHANGED <<todo, pool, faces, dPool, net, backed, crashes>>

\* The process dies and _rehydratePools restores both lists from disk; the
\* manager's maps are in memory only.
Crash(n) ==
  /\ crashes < MaxCrashes
  /\ crashes' = crashes + 1
  /\ pool'  = [pool EXCEPT ![n] = dPool[n]]
  /\ faces' = [faces EXCEPT ![n] = dFaces[n]]
  /\ heard' = [heard EXCEPT ![n] = {}]
  /\ done'  = [done EXCEPT ![n] = <<>>]
  /\ tick'  = [tick EXCEPT ![n] = [k \in Slot |-> Idle]]
  /\ UNCHANGED <<todo, dPool, dFaces, net, backed>>

Tick(n, k) == TickIdle(n, k) \/ TickStall(n, k) \/ TickSeal(n, k)

Next ==
  \/ \E n \in Node, x \in Item : Arrive(n, x)
  \/ \E n \in Node : \E p \in net \ heard[n] : Deliver(n, p)
  \/ \E p \in net : Expire(p)
  \/ \E n \in Node, k \in Slot : Tick(n, k)
  \/ \E n \in Node, k \in Slot : CommitFace(n, k)
  \/ \E n \in Node, k \in Slot : SavePool(n, k)
  \/ \E n \in Node, k \in Slot : SaveFaces(n, k)
  \/ \E n \in Node : Crash(n)

Spec == Init /\ [][Next]_vars

\* The interval fires for ever, an awaited put ends, and a proposal sent
\* again and again gets through (the code re-sends on every tick because a
\* single send may be lost).
Fairness ==
  /\ \A n \in Node, k \in Slot :
       WF_vars(Tick(n, k) \/ CommitFace(n, k) \/ SavePool(n, k) \/ SaveFaces(n, k))
  /\ \A n \in Node, p \in Proposal : SF_vars(Deliver(n, p))

FairSpec == Spec /\ Fairness

-----------------------------------------------------------------------------
\* Every variable holds values of the shape the code keeps there.
TypeOK ==
  /\ todo   \in [Node -> SUBSET Item]
  /\ pool   \in [Node -> SUBSET Item]
  /\ faces  \in [Node -> Seq(Chunk)]
  /\ dPool  \in [Node -> SUBSET Item]
  /\ dFaces \in [Node -> Seq(Chunk)]
  /\ heard  \in [Node -> SUBSET Proposal]
  /\ done   \in [Node -> Seq(Chunk)]
  /\ tick   \in [Node -> [Slot -> Job \cup {Idle}]]
  /\ net    \subseteq Proposal
  /\ backed \subseteq Proposal
  /\ crashes \in 0 .. MaxCrashes
-----------------------------------------------------------------------------
\* The nodes that once had S as their own candidate, and whether they are a
\* quorum of the configured leads.
Proposers(S) == {n \in Node : [from |-> n, set |-> S] \in backed}
Agreed(S)    == Cardinality(Proposers(S)) >= Quorum

\* "It cannot manufacture a quorum" (seal-round.js, _rebroadcastDone): a set
\* is sealed or adopted anywhere only if a quorum of nodes had that exact set
\* as their own candidate.  Votes of nodes that merely vouch for a set they
\* adopted never make up a quorum, across lost, late and repeated proposals
\* and restarts.
QuorumBacked ==
  \A n \in Node : \A S \in Elems(faces[n]) \cup Elems(done[n]) : Agreed(S)

\* The ledger of one node never puts a block into two faces, and never keeps
\* a sealed block in the candidate pool, whatever restarts interrupt a seal.
NoReuse ==
  \A n \in Node :
    /\ \A i, j \in DOMAIN faces[n] : i # j => faces[n][i] \cap faces[n][j] = {}
    /\ \A i \in DOMAIN faces[n] : faces[n][i] \cap pool[n] = {}

\* No node ever proposed two different sets that share a block.
OneVote ==
  \A p, q \in backed :
    p.from = q.from /\ p.set \cap q.set # {} => p.set = q.set

\* No split-brain: faces sealed anywhere are equal or disjoint.  This is what
\* the pigeonhole comments of seal-agreement.js and seal-round.js claim.
NoFork ==
  \A m, n \in Node : \A S \in Elems(faces[m]), T \in Elems(faces[n]) :
    S \cap T # {} => S = T

\* The pigeonhole argument with the premise it needs: as long as no node has
\* changed its mind about a block, no two nodes seal overlapping faces.
NoForkIfOneVote == OneVote => NoFork

\* A block sealed into a face is, after any step including a restart, still
\* in a face or back in the pool ("the face must survive a restart",
\* ledger.js sealAgreedBlocks).
SealedSurvives ==
  [][\A n \in Node :
       UNION Elems(faces[n]) \subseteq pool'[n] \cup UNION Elems(faces'[n])]_vars

\* The same once the puts of a seal have ended: from the removal of the blocks
\* to the put of the faces a restart may lose them (an arrival in between
\* saves the shrunk pool too), and at no other time.
SealedSurvivesOnceSaved ==
  [][\A n \in Node : (\A k \in Slot : tick[n][k].stage \notin {"pool", "faces"}) =>
       UNION Elems(faces[n]) \subseteq pool'[n] \cup UNION Elems(faces'[n])]_vars

\* A node whose candidate is a set some node has resolved gets past that set
\* ("keeps saying it until the slower nodes have finished counting",
\* seal-round.js _rebroadcastDone).
LaggardCatchesUp ==
  \A m \in Node : \A S \in Chunk :
    (S \in CandidatePrefix(pool[m]) /\ \E n \in Node : S \in Elems(done[n]))
      ~> S \notin CandidatePrefix(pool[m])

\* Nodes are interchangeable when every node is a lead: the symmetry of the TLC runs.
Symmetry == Permutations(Node)
=============================================================================
