--------------------------- MODULE SealRoundProofs ---------------------------
(***************************************************************************)
(* Theorems about SealRound, for every set of nodes, leads and items.      *)
(***************************************************************************)
EXTENDS SealRound, FiniteSetTheorems, SequenceTheorems, TLAPS

-----------------------------------------------------------------------------
(* The operators the model is built from. *)

\* A sequence that got one more element has that element and the old ones.
LEMMA ElemsAppend ==
  ASSUME NEW T, NEW s \in Seq(T), NEW e \in T
  PROVE  /\ Append(s, e) \in Seq(T)
         /\ Elems(Append(s, e)) = Elems(s) \cup {e}
<1>1. Append(s, e) \in Seq(T)
  OBVIOUS
<1>2. ASSUME NEW x \in Elems(Append(s, e)) PROVE x \in Elems(s) \cup {e}
  BY <1>2 DEF Elems
<1>3. ASSUME NEW x \in Elems(s) PROVE x \in Elems(Append(s, e))
  <2>1. PICK i \in 1 .. Len(s) : x = s[i]
    BY DEF Elems
  <2>2. Append(s, e)[i] = x /\ i \in DOMAIN Append(s, e)
    BY <2>1
  <2> QED BY <2>2 DEF Elems
<1>4. e \in Elems(Append(s, e))
  <2>1. Append(s, e)[Len(s) + 1] = e /\ Len(s) + 1 \in DOMAIN Append(s, e)
    OBVIOUS
  <2> QED BY <2>1 DEF Elems
<1> QED BY <1>1, <1>2, <1>3, <1>4

\* _markDone adds at most the resolved set.
LEMMA ResolveElems ==
  ASSUME NEW T, NEW s \in Seq(T), NEW e \in T
  PROVE  /\ Resolve(s, e) \in Seq(T)
         /\ Elems(Resolve(s, e)) \subseteq Elems(s) \cup {e}
<1>1. CASE e \in Elems(s)
  BY <1>1 DEF Resolve
<1>2. CASE e \notin Elems(s) /\ Len(s) < DoneCap
  BY <1>2, ElemsAppend DEF Resolve
<1>3. CASE e \notin Elems(s) /\ ~ Len(s) < DoneCap
  <2> DEFINE a == Append(s, e)
  <2>1. a \in Seq(T) /\ a # <<>>
    BY AppendProperties
  <2>2. Tail(a) \in Seq(T)
    BY <2>1
  <2>3. Elems(Tail(a)) \subseteq Elems(a)
    <3> SUFFICES ASSUME NEW i \in DOMAIN Tail(a) PROVE Tail(a)[i] \in Elems(a)
      BY DEF Elems
    <3> HIDE DEF a
    <3>1. Tail(a)[i] = a[i + 1] /\ i + 1 \in DOMAIN a
      BY <2>1
    <3> QED BY <3>1 DEF Elems
  <2>4. Elems(a) = Elems(s) \cup {e}
    BY ElemsAppend
  <2> HIDE DEF a
  <2>5. Resolve(s, e) = Tail(a)
    BY <1>3 DEF Resolve, a
  <2> QED BY <2>2, <2>3, <2>4, <2>5
<1> QED BY <1>1, <1>2, <1>3

\* What a node vouches for is something it resolved.
LEMMA LastOfElems == \A s, k : LastOf(s, k) \subseteq Elems(s)
BY DEF LastOf, Elems

\* The elements of a typed sequence have its type.
LEMMA ElemsType ==
  ASSUME NEW T, NEW s \in Seq(T)
  PROVE  Elems(s) \subseteq T
BY DEF Elems

\* A candidate is a chunk of the pool.
LEMMA CandidateType ==
  ASSUME NEW P \in SUBSET Item, NEW S \in CandidatePrefix(P)
  PROVE  S \in Chunk /\ S \subseteq P
BY DEF CandidatePrefix, Chunk

-----------------------------------------------------------------------------
(* Type correctness. *)

\* A proposal made by n has the type of a proposal.
LEMMA ProposalType ==
  ASSUME TypeOK, NEW n \in Node
  PROVE  /\ Rebroadcast(n) \subseteq Proposal
         /\ \A S \in Vouchable(n) : [from |-> n, set |-> S] \in Proposal
<1>1. Elems(done[n]) \subseteq Chunk
  BY ElemsType DEF TypeOK
<1>2. LastOf(done[n], Vouch) \subseteq Chunk /\ LastOf(done[n], 4 * Vouch) \subseteq Chunk
  BY <1>1, LastOfElems
<1> QED BY <1>2 DEF Rebroadcast, Vouchable, Proposal

\* Every reachable state has the shape the code keeps.
THEOREM TypeCorrect == Spec => []TypeOK
<1>1. Init => TypeOK
  <2> SUFFICES ASSUME Init PROVE TypeOK
    OBVIOUS
  <2>1. <<>> \in Seq(Chunk)
    BY EmptySeq
  <2>2. crashes \in 0 .. MaxCrashes
    BY EnvAssumption DEF Init
  <2> QED BY <2>1, <2>2, ItemAssumption DEF Init, TypeOK
<1>2. TypeOK /\ [Next]_vars => TypeOK'
  <2> SUFFICES ASSUME TypeOK, [Next]_vars PROVE TypeOK'
    OBVIOUS
  <2>1. ASSUME NEW n \in Node, NEW x \in Item, Arrive(n, x) PROVE TypeOK'
    BY <2>1 DEF TypeOK, Arrive
  <2>2. ASSUME NEW n \in Node, NEW p \in net \ heard[n], Deliver(n, p) PROVE TypeOK'
    <3>1. p \in Proposal
      BY DEF TypeOK
    <3>2. heard' \in [Node -> SUBSET Proposal]
      <4>1. heard' = [heard EXCEPT ![n] = @ \cup {p}] \/ heard' = heard
        BY <2>2 DEF Deliver
      <4>2. heard[n] \cup {p} \subseteq Proposal
        BY <3>1 DEF TypeOK
      <4> QED BY <4>1, <4>2 DEF TypeOK
    <3>3. net' \subseteq Proposal
      BY <2>2, ProposalType DEF TypeOK, Deliver
    <3> QED BY <2>2, <3>2, <3>3 DEF TypeOK, Deliver
  <2>3. ASSUME NEW p \in net, Expire(p) PROVE TypeOK'
    BY <2>3 DEF TypeOK, Expire
  <2>4. ASSUME NEW n \in Node, NEW k \in Slot, TickIdle(n, k) PROVE TypeOK'
    BY <2>4, ProposalType DEF TypeOK, TickIdle
  <2>5. ASSUME NEW n \in Node, NEW k \in Slot, TickStall(n, k) PROVE TypeOK'
    <3>1. PICK mine \in CandidatePrefix(pool[n]) : Propose(n, mine)
      BY <2>5 DEF TickStall
    <3>2. [from |-> n, set |-> mine] \in Proposal
      BY CandidateType DEF TypeOK, Proposal
    <3>3. net' \subseteq Proposal /\ backed' \subseteq Proposal
      BY <3>1, <3>2, ProposalType DEF TypeOK, Propose
    <3> QED BY <2>5, <3>3 DEF TypeOK, TickStall
  <2>6. ASSUME NEW n \in Node, NEW k \in Slot, TickSeal(n, k) PROVE TypeOK'
    <3>1. PICK mine \in CandidatePrefix(pool[n]) :
            /\ Propose(n, mine)
            /\ \E S \in {p.set : p \in heard[n]} \cup {mine} :
                 tick' = [tick EXCEPT ![n][k] = [stage |-> "blocks", set |-> S]]
      BY <2>6 DEF TickSeal
    <3>2. mine \in Chunk
      BY CandidateType DEF TypeOK
    <3>3. net' \subseteq Proposal /\ backed' \subseteq Proposal
      BY <3>1, <3>2, ProposalType DEF TypeOK, Propose, Proposal
    <3>4. PICK S \in {p.set : p \in heard[n]} \cup {mine} :
            tick' = [tick EXCEPT ![n][k] = [stage |-> "blocks", set |-> S]]
      BY <3>1
    <3>5. S \in Chunk
      BY <3>2 DEF TypeOK, Proposal
    <3>6. [stage |-> "blocks", set |-> S] \in Job
      BY <3>5 DEF Job
    <3>7. tick' \in [Node -> [Slot -> Job \cup {Idle}]]
      BY <3>4, <3>6 DEF TypeOK
    <3> QED BY <2>6, <3>3, <3>7 DEF TypeOK, TickSeal
  <2>7. ASSUME NEW n \in Node, NEW k \in Slot, CommitFace(n, k) PROVE TypeOK'
    <3>1. tick[n][k] \in Job
      BY <2>7 DEF TypeOK, CommitFace, Idle
    <3>2. [tick[n][k] EXCEPT !.stage = "pool"] \in Job /\ tick[n][k].set \in Chunk
      BY <3>1 DEF Job
    <3>3. tick' \in [Node -> [Slot -> Job \cup {Idle}]]
      BY <2>7, <3>2 DEF TypeOK, CommitFace
    <3>4. Append(faces[n], tick[n][k].set) \in Seq(Chunk)
      BY <3>2, AppendProperties DEF TypeOK
    <3>5. faces' \in [Node -> Seq(Chunk)]
      BY <2>7, <3>4 DEF TypeOK, CommitFace
    <3> QED BY <2>7, <3>3, <3>5 DEF TypeOK, CommitFace
  <2>8. ASSUME NEW n \in Node, NEW k \in Slot, SavePool(n, k) PROVE TypeOK'
    <3>1. tick[n][k] \in Job
      BY <2>8 DEF TypeOK, SavePool, Idle
    <3>2. [tick[n][k] EXCEPT !.stage = "faces"] \in Job
      BY <3>1 DEF Job
    <3>3. tick' \in [Node -> [Slot -> Job \cup {Idle}]]
      BY <2>8, <3>2 DEF TypeOK, SavePool
    <3> QED BY <2>8, <3>3 DEF TypeOK, SavePool
  <2>9. ASSUME NEW n \in Node, NEW k \in Slot, SaveFaces(n, k) PROVE TypeOK'
    <3>1. tick[n][k] \in Job
      BY <2>9 DEF TypeOK, SaveFaces, Idle
    <3>2. tick[n][k].set \in Chunk
      BY <3>1 DEF Job
    <3>3. Resolve(done[n], tick[n][k].set) \in Seq(Chunk)
      BY <3>2, ResolveElems DEF TypeOK
    <3>4. done' \in [Node -> Seq(Chunk)]
      BY <2>9, <3>3 DEF TypeOK, SaveFaces
    <3> QED BY <2>9, <3>4 DEF TypeOK, SaveFaces
  <2>10. ASSUME NEW n \in Node, Crash(n) PROVE TypeOK'
    <3>1. <<>> \in Seq(Chunk)
      BY EmptySeq
    <3>2. crashes' \in 0 .. MaxCrashes
      BY <2>10, EnvAssumption DEF TypeOK, Crash
    <3> QED BY <2>10, <3>1, <3>2 DEF TypeOK, Crash
  <2>11. CASE UNCHANGED vars
    BY <2>11 DEF TypeOK, vars
  <2> QED BY <2>1, <2>2, <2>3, <2>4, <2>5, <2>6, <2>7, <2>8, <2>9, <2>10, <2>11 DEF Next, Tick
<1> QED BY <1>1, <1>2, PTL DEF Spec

-----------------------------------------------------------------------------
(***************************************************************************)
(* Every sealed set was the candidate of a quorum.  QuorumBacked is not    *)
(* inductive: the votes a node counts come from proposals on the topic     *)
(* and in _peers, some of them sent by nodes that merely adopted the set.  *)
(* The strengthening says of every such proposal that its sender had the   *)
(* set as its own candidate or that the set has a quorum already.          *)
(***************************************************************************)
Sound(p) == p \in backed \/ Agreed(p.set)

BackedInv ==
  /\ \A p \in net : Sound(p)
  /\ \A n \in Node : \A p \in heard[n] : Sound(p)
  /\ \A n \in Node : \A S \in Elems(faces[n]) \cup Elems(dFaces[n]) \cup Elems(done[n]) : Agreed(S)
  /\ \A n \in Node, k \in Slot : tick[n][k] # Idle => Agreed(tick[n][k].set)

\* A set that has a quorum keeps it: proposals made are never unmade.
LEMMA AgreedStable ==
  ASSUME backed \subseteq backed'
  PROVE  /\ \A S : Agreed(S) => Agreed(S)'
         /\ \A p : Sound(p) => Sound(p)'
<1>1. ASSUME NEW S, Agreed(S) PROVE Agreed(S)'
  <2>1. Proposers(S) \subseteq Proposers(S)'
    BY DEF Proposers
  <2>2. IsFiniteSet(Proposers(S)')
    <3>1. Proposers(S)' \subseteq Node
      BY DEF Proposers
    <3> QED BY <3>1, NodeAssumption, FS_Subset
  <2>3. Cardinality(Proposers(S)) =< Cardinality(Proposers(S)')
    BY <2>1, <2>2, FS_Subset
  <2>4. Quorum \in Nat /\ Cardinality(Proposers(S)) \in Nat /\ Cardinality(Proposers(S)') \in Nat
    <3>1. IsFiniteSet(Lead) /\ IsFiniteSet(Proposers(S))
      BY <2>1, <2>2, FS_Subset, NodeAssumption, LeadAssumption
    <3> QED BY <3>1, <2>2, FS_CardinalityType DEF Quorum
  <2> QED BY <1>1, <2>3, <2>4 DEF Agreed, Quorum
<1> QED BY <1>1 DEF Sound

\* A set that wins a count made of sound proposals has a quorum, once the
\* counting node's own proposal is on record.
LEMMA WinnerAgreed ==
  ASSUME TypeOK, NEW n \in Node, NEW mine \in Chunk, NEW S \in Chunk,
         \A p \in heard[n] : Sound(p),
         Wins(n, mine, S),
         backed' = backed \cup {[from |-> n, set |-> mine]}
  PROVE  Agreed(S)'
<1>1. CASE Agreed(S)
  BY <1>1, AgreedStable
<1>2. CASE ~ Agreed(S)
  <2>1. ASSUME NEW v \in Voters(n, mine, S) PROVE v \in Proposers(S)'
    <3>1. CASE v = n /\ S = mine
      BY <3>1 DEF Proposers
    <3>2. CASE \E p \in heard[n] : p.set = S /\ v = p.from
      <4>1. PICK p \in heard[n] : p.set = S /\ v = p.from
        BY <3>2
      <4>2. p \in backed
        BY <4>1, <1>2 DEF Sound
      <4>3. p \in Proposal
        BY DEF TypeOK
      <4>4. p = [from |-> v, set |-> S] /\ v \in Node
        BY <4>1, <4>3 DEF Proposal
      <4> QED BY <4>2, <4>4 DEF Proposers
    <3> QED BY <2>1, <3>1, <3>2 DEF Voters
  <2>2. Voters(n, mine, S) \subseteq Proposers(S)'
    BY <2>1
  <2>3. Proposers(S)' \subseteq Node
    BY DEF Proposers
  <2>4. IsFiniteSet(Proposers(S)')
    BY <2>3, NodeAssumption, FS_Subset
  <2>5. /\ Cardinality(Voters(n, mine, S)) =< Cardinality(Proposers(S)')
        /\ IsFiniteSet(Voters(n, mine, S))
    BY <2>2, <2>4, FS_Subset
  <2>6. /\ Cardinality(Voters(n, mine, S)) \in Nat
        /\ Cardinality(Proposers(S)') \in Nat
    BY <2>4, <2>5, FS_CardinalityType
  <2>7. Quorum \in Nat
    <3>1. IsFiniteSet(Lead)
      BY NodeAssumption, LeadAssumption, FS_Subset
    <3> QED BY <3>1, FS_CardinalityType DEF Quorum
  <2>8. Cardinality(Voters(n, mine, S)) >= Quorum
    BY DEF Wins
  <2> QED BY <2>5, <2>6, <2>7, <2>8 DEF Agreed, Quorum
<1> QED BY <1>1, <1>2

\* What n vouches for is sound.
LEMMA VouchSound ==
  ASSUME BackedInv, NEW n \in Node
  PROVE  /\ \A p \in Rebroadcast(n) : Sound(p)
         /\ \A S \in Vouchable(n) : Sound([from |-> n, set |-> S])
<1>1. \A S \in Elems(done[n]) : Agreed(S)
  BY DEF BackedInv
<1>2. \A S \in LastOf(done[n], Vouch) \cup LastOf(done[n], 4 * Vouch) : Agreed(S)
  BY <1>1, LastOfElems
<1> QED BY <1>2 DEF Rebroadcast, Vouchable, Sound

\* Every action keeps the proposals in flight sound and what is sealed agreed.
LEMMA BackedStep == TypeOK /\ BackedInv /\ [Next]_vars => BackedInv'
<1> SUFFICES ASSUME TypeOK, BackedInv, [Next]_vars PROVE BackedInv'
  OBVIOUS
<1>1. ASSUME NEW n \in Node, NEW x \in Item, Arrive(n, x) PROVE BackedInv'
  BY <1>1 DEF Arrive, BackedInv, Sound, Agreed, Proposers
<1>2. ASSUME NEW n \in Node, NEW p \in net \ heard[n], Deliver(n, p) PROVE BackedInv'
  <2>1. backed' = backed
    BY <1>2 DEF Deliver
  <2>2. \A q \in net' : Sound(q)'
    <3>1. net' = net \/ (p.set \in Vouchable(n) /\ net' = net \cup {[from |-> n, set |-> p.set]})
      BY <1>2 DEF Deliver
    <3>2. \A q \in net' : Sound(q)
      BY <3>1, VouchSound DEF BackedInv
    <3> QED BY <2>1, <3>2, AgreedStable
  <2>3. \A m \in Node : \A q \in heard'[m] : Sound(q)'
    <3>1. heard' = heard \/ heard' = [heard EXCEPT ![n] = @ \cup {p}]
      BY <1>2 DEF Deliver
    <3>2. \A m \in Node : \A q \in heard'[m] : q \in heard[m] \/ q = p
      BY <3>1 DEF TypeOK
    <3>3. \A m \in Node : \A q \in heard'[m] : Sound(q)
      BY <3>2 DEF BackedInv
    <3> QED BY <2>1, <3>3, AgreedStable
  <2>4. UNCHANGED <<faces, dFaces, done, tick>>
    BY <1>2 DEF Deliver
  <2> QED BY <2>1, <2>2, <2>3, <2>4 DEF BackedInv, Agreed, Proposers
<1>3. ASSUME NEW p \in net, Expire(p) PROVE BackedInv'
  BY <1>3 DEF Expire, BackedInv, Sound, Agreed, Proposers
<1>4. ASSUME NEW n \in Node, NEW k \in Slot, TickIdle(n, k) PROVE BackedInv'
  <2>1. \A q \in net' : Sound(q)
    BY <1>4, VouchSound DEF TickIdle, BackedInv
  <2>2. UNCHANGED <<heard, faces, dFaces, done, tick, backed>>
    BY <1>4 DEF TickIdle
  <2> QED BY <2>1, <2>2 DEF BackedInv, Sound, Agreed, Proposers
<1>5. ASSUME NEW n \in Node, NEW mine \in CandidatePrefix(pool[n]), Propose(n, mine)
      PROVE  /\ backed' = backed \cup {[from |-> n, set |-> mine]}
             /\ \A S : Agreed(S) => Agreed(S)'
             /\ \A p : Sound(p) => Sound(p)'
             /\ \A q \in net' : Sound(q)'
  <2>1. backed' = backed \cup {[from |-> n, set |-> mine]}
    BY <1>5 DEF Propose
  <2>2. (\A S : Agreed(S) => Agreed(S)') /\ (\A p : Sound(p) => Sound(p)')
    BY <2>1, AgreedStable
  <2>3. Sound([from |-> n, set |-> mine])'
    BY <2>1 DEF Sound
  <2>4. \A q \in net' : q \in net \/ q \in Rebroadcast(n) \/ q = [from |-> n, set |-> mine]
    BY <1>5 DEF Propose
  <2>5. \A q \in net' : Sound(q)'
    BY <2>2, <2>3, <2>4, VouchSound DEF BackedInv
  <2> QED BY <2>1, <2>2, <2>5
<1>6. ASSUME NEW n \in Node, NEW k \in Slot, TickStall(n, k) PROVE BackedInv'
  <2>1. PICK mine \in CandidatePrefix(pool[n]) : Propose(n, mine)
    BY <1>6 DEF TickStall
  <2>2. UNCHANGED <<heard, faces, dFaces, done, tick>>
    BY <1>6 DEF TickStall
  <2> QED BY <1>5, <2>1, <2>2 DEF BackedInv
<1>7. ASSUME NEW n \in Node, NEW k \in Slot, TickSeal(n, k) PROVE BackedInv'
  <2>1. PICK mine \in CandidatePrefix(pool[n]) :
          /\ Propose(n, mine)
          /\ \E S \in {p.set : p \in heard[n]} \cup {mine} :
               /\ Wins(n, mine, S)
               /\ tick' = [tick EXCEPT ![n][k] = [stage |-> "blocks", set |-> S]]
    BY <1>7 DEF TickSeal
  <2>2. PICK S \in {p.set : p \in heard[n]} \cup {mine} :
          /\ Wins(n, mine, S)
          /\ tick' = [tick EXCEPT ![n][k] = [stage |-> "blocks", set |-> S]]
    BY <2>1
  <2>3. mine \in Chunk
    BY CandidateType DEF TypeOK
  <2>4. S \in Chunk
    BY <2>3 DEF TypeOK, Proposal
  <2>5. backed' = backed \cup {[from |-> n, set |-> mine]}
    BY <1>5, <2>1
  <2>6. \A p \in heard[n] : Sound(p)
    BY DEF BackedInv
  <2>7. Agreed(S)'
    BY <2>2, <2>3, <2>4, <2>5, <2>6, WinnerAgreed
  <2>8. ASSUME NEW m \in Node, NEW j \in Slot, tick'[m][j] # Idle PROVE Agreed(tick[m][j].set)'
    <3>1. CASE m = n /\ j = k
      <4>1. tick'[m][j] = [stage |-> "blocks", set |-> S]
        BY <2>2, <3>1 DEF TypeOK
      <4>2. (tick[m][j].set)' = S
        BY <4>1
      <4> QED BY <4>2, <2>7 DEF Agreed, Proposers
    <3>2. CASE ~ (m = n /\ j = k)
      <4>1. tick'[m][j] = tick[m][j]
        BY <2>2, <3>2 DEF TypeOK
      <4>2. Agreed(tick[m][j].set)
        BY <4>1, <2>8 DEF BackedInv
      <4>3. backed \subseteq backed'
        BY <2>5
      <4>4. \A R : Agreed(R) => Agreed(R)'
        BY <4>3, AgreedStable
      <4>5. PICK R : R = tick[m][j].set
        OBVIOUS
      <4>6. Agreed(R)' /\ (tick[m][j].set)' = R
        BY <4>1, <4>2, <4>4, <4>5
      <4> QED BY <4>6 DEF Agreed, Proposers
    <3> QED BY <3>1, <3>2
  <2>9. UNCHANGED <<heard, faces, dFaces, done>>
    BY <1>7 DEF TickSeal
  <2>10. /\ \A R : Agreed(R) => Agreed(R)'
         /\ \A p : Sound(p) => Sound(p)'
         /\ \A q \in net' : Sound(q)'
    BY <1>5, <2>1
  <2> QED BY <2>8, <2>9, <2>10 DEF BackedInv
<1>8. ASSUME NEW n \in Node, NEW k \in Slot, CommitFace(n, k) PROVE BackedInv'
  <2>1. tick[n][k] # Idle /\ tick[n][k] \in Job
    BY <1>8 DEF CommitFace, Idle, TypeOK
  <2>2. tick[n][k].set \in Chunk /\ Agreed(tick[n][k].set)
    BY <2>1 DEF BackedInv, Job
  <2>3. Elems(faces'[n]) = Elems(faces[n]) \cup {tick[n][k].set}
    BY <1>8, <2>2, ElemsAppend DEF CommitFace, TypeOK
  <2>4. \A m \in Node : m # n => faces'[m] = faces[m]
    BY <1>8 DEF CommitFace, TypeOK
  <2>5. \A m \in Node : \A S \in Elems(faces'[m]) : Agreed(S)
    BY <2>2, <2>3, <2>4 DEF BackedInv
  <2>6. \A m \in Node, j \in Slot :
          tick'[m][j] # Idle => tick[m][j] # Idle /\ tick'[m][j].set = tick[m][j].set
    BY <1>8, <2>1 DEF CommitFace, TypeOK, Job
  <2>7. UNCHANGED <<net, heard, dFaces, done, backed>>
    BY <1>8 DEF CommitFace
  <2>8. \A m \in Node, j \in Slot : tick'[m][j] # Idle => Agreed(tick[m][j].set)'
    <3>1. \A m \in Node, j \in Slot : tick'[m][j] # Idle => Agreed(tick[m][j].set)
      BY <2>6 DEF BackedInv
    <3> QED BY <2>6, <2>7, <3>1 DEF Agreed, Proposers
  <2> QED BY <2>5, <2>7, <2>8 DEF BackedInv, Sound, Agreed, Proposers
<1>9. ASSUME NEW n \in Node, NEW k \in Slot, SavePool(n, k) PROVE BackedInv'
  <2>1. tick[n][k] # Idle /\ tick[n][k] \in Job
    BY <1>9 DEF SavePool, Idle, TypeOK
  <2>2. \A m \in Node, j \in Slot :
          tick'[m][j] # Idle => tick[m][j] # Idle /\ tick'[m][j].set = tick[m][j].set
    BY <1>9, <2>1 DEF SavePool, TypeOK, Job
  <2>3. UNCHANGED <<net, heard, faces, dFaces, done, backed>>
    BY <1>9 DEF SavePool
  <2>4. \A m \in Node, j \in Slot : tick'[m][j] # Idle => Agreed(tick[m][j].set)'
    <3>1. \A m \in Node, j \in Slot : tick'[m][j] # Idle => Agreed(tick[m][j].set)
      BY <2>2 DEF BackedInv
    <3> QED BY <2>2, <2>3, <3>1 DEF Agreed, Proposers
  <2> QED BY <2>3, <2>4 DEF BackedInv, Sound, Agreed, Proposers
<1>10. ASSUME NEW n \in Node, NEW k \in Slot, SaveFaces(n, k) PROVE BackedInv'
  <2>1. tick[n][k] # Idle /\ tick[n][k] \in Job
    BY <1>10 DEF SaveFaces, Idle, TypeOK
  <2>2. tick[n][k].set \in Chunk /\ Agreed(tick[n][k].set)
    BY <2>1 DEF BackedInv, Job
  <2>3. Elems(done'[n]) \subseteq Elems(done[n]) \cup {tick[n][k].set}
    BY <1>10, <2>2, ResolveElems DEF SaveFaces, TypeOK
  <2>4. \A m \in Node : m # n => done'[m] = done[m]
    BY <1>10 DEF SaveFaces, TypeOK
  <2>5. \A m \in Node : \A S \in Elems(done'[m]) : Agreed(S)
    BY <2>2, <2>3, <2>4 DEF BackedInv
  <2>6. \A m \in Node : \A S \in Elems(dFaces'[m]) : Agreed(S)
    <3>1. \A m \in Node : dFaces'[m] = dFaces[m] \/ dFaces'[m] = faces[m]
      BY <1>10 DEF SaveFaces, TypeOK
    <3> QED BY <3>1 DEF BackedInv
  <2>7. \A m \in Node, j \in Slot : tick'[m][j] # Idle => tick'[m][j] = tick[m][j]
    BY <1>10 DEF SaveFaces, TypeOK
  <2>8. \A m \in Node : heard'[m] \subseteq heard[m]
    BY <1>10 DEF SaveFaces, TypeOK
  <2>9. UNCHANGED <<net, faces, backed>>
    BY <1>10 DEF SaveFaces
  <2> QED BY <2>5, <2>6, <2>7, <2>8, <2>9 DEF BackedInv, Sound, Agreed, Proposers
<1>11. ASSUME NEW n \in Node, Crash(n) PROVE BackedInv'
  <2>1. \A m \in Node : faces'[m] = faces[m] \/ faces'[m] = dFaces[m]
    BY <1>11 DEF Crash, TypeOK
  <2>2. \A m \in Node : Elems(done'[m]) \subseteq Elems(done[m])
    BY <1>11 DEF Crash, TypeOK, Elems
  <2>3. \A m \in Node : heard'[m] \subseteq heard[m]
    BY <1>11 DEF Crash, TypeOK
  <2>4. \A m \in Node, j \in Slot : tick'[m][j] # Idle => tick'[m][j] = tick[m][j]
    BY <1>11 DEF Crash, TypeOK
  <2>5. UNCHANGED <<net, dFaces, backed>>
    BY <1>11 DEF Crash
  <2> QED BY <2>1, <2>2, <2>3, <2>4, <2>5 DEF BackedInv, Sound, Agreed, Proposers
<1>12. CASE UNCHANGED vars
  BY <1>12 DEF vars, BackedInv, Sound, Agreed, Proposers
<1> QED BY <1>1, <1>2, <1>3, <1>4, <1>6, <1>7, <1>8, <1>9, <1>10, <1>11, <1>12 DEF Next, Tick

\* A quorum of nodes had each sealed set as its own candidate, whatever was
\* lost, repeated, late or forgotten, in any network of any size.
THEOREM Backing == Spec => []QuorumBacked
<1>1. Init => BackedInv
  BY DEF Init, BackedInv, Elems, Idle
<1>2. TypeOK /\ BackedInv /\ [Next]_vars => BackedInv'
  BY BackedStep
<1>3. BackedInv => QuorumBacked
  BY DEF BackedInv, QuorumBacked
<1> QED BY <1>1, <1>2, <1>3, TypeCorrect, PTL DEF Spec

\* The pigeonhole argument: when every node that votes is a configured lead,
\* faces sealed anywhere are equal or disjoint as long as no node has
\* proposed two overlapping sets.
THEOREM PigeonholeHolds == ASSUME Lead = Node PROVE Spec => []NoForkIfOneVote
<1>1. QuorumBacked => NoForkIfOneVote
  <2> SUFFICES ASSUME QuorumBacked, OneVote,
                      NEW m \in Node, NEW n \in Node,
                      NEW S \in Elems(faces[m]), NEW T \in Elems(faces[n]),
                      S \cap T # {}
               PROVE  S = T
    BY DEF NoForkIfOneVote, NoFork
  <2>1. Cardinality(Proposers(S)) >= Quorum /\ Cardinality(Proposers(T)) >= Quorum
    BY DEF QuorumBacked, Agreed
  <2>2. Proposers(S) \subseteq Node /\ Proposers(T) \subseteq Node
    BY DEF Proposers
  <2>3. /\ IsFiniteSet(Node) /\ IsFiniteSet(Proposers(S)) /\ IsFiniteSet(Proposers(T))
        /\ Cardinality(Node) \in Nat
        /\ Cardinality(Proposers(S)) \in Nat
        /\ Cardinality(Proposers(T)) \in Nat
    BY <2>2, NodeAssumption, FS_Subset, FS_CardinalityType
  <2>4. Cardinality(Proposers(S)) + Cardinality(Proposers(T)) > Cardinality(Node)
    BY <2>1, <2>3 DEF Quorum
  <2>5. Proposers(S) \cap Proposers(T) # {}
    BY <2>2, <2>3, <2>4, FS_MajoritiesIntersect
  <2>6. PICK v \in Node : /\ [from |-> v, set |-> S] \in backed
                          /\ [from |-> v, set |-> T] \in backed
    BY <2>5 DEF Proposers
  <2> QED BY <2>6 DEF OneVote
<1> QED BY <1>1, Backing, PTL

-----------------------------------------------------------------------------
(***************************************************************************)
(* One node's ledger never reuses a block, when invocations of the         *)
(* interval callback do not overlap.  The strengthening ties the lists on  *)
(* disk to the lists in memory at every await, so that a restart finds     *)
(* disk lists that are disjoint in their turn.                             *)
(***************************************************************************)
Apart(F, P) ==
  /\ \A i, j \in DOMAIN F : i # j => F[i] \cap F[j] = {}
  /\ \A i \in DOMAIN F : F[i] \cap P = {}

\* What a seal in progress may have done so far, j being what it awaits.
Progress(n, j) ==
  CASE j.stage = "idle"   -> dPool[n] = pool[n] /\ dFaces[n] = faces[n]
    [] j.stage = "blocks" -> dPool[n] = pool[n] /\ dFaces[n] = faces[n] /\ j.set \subseteq pool[n]
    [] j.stage = "pool"   -> dPool[n] \subseteq pool[n] \cup j.set /\ faces[n] = Append(dFaces[n], j.set)
    [] j.stage = "faces"  -> dPool[n] = pool[n] /\ faces[n] = Append(dFaces[n], j.set)

ReuseOf(n) ==
  /\ Apart(faces[n], pool[n] \cup todo[n])
  /\ Apart(dFaces[n], dPool[n] \cup todo[n])
  /\ pool[n] \cap todo[n] = {}
  /\ dPool[n] \cap todo[n] = {}
  /\ \A k \in Slot : Progress(n, tick[n][k])

ReuseInv == \A n \in Node : ReuseOf(n)

\* A list of faces stays apart when a set apart from all of them is added.
LEMMA ApartAppend ==
  ASSUME NEW F \in Seq(Chunk), NEW S \in Chunk, NEW P, NEW Q,
         Apart(F, P), S \subseteq P, Q \subseteq P, Q \cap S = {}
  PROVE  Apart(Append(F, S), Q)
<1> DEFINE G == Append(F, S)
<1>1. /\ G \in Seq(Chunk)
      /\ Len(G) = Len(F) + 1
      /\ \A i \in 1 .. Len(F) : G[i] = F[i]
      /\ G[Len(F) + 1] = S
  BY AppendProperties
<1>2. \A i \in 1 .. Len(F) : F[i] \cap P = {}
  BY DEF Apart
<1>3. \A i, j \in 1 .. Len(F) : i # j => F[i] \cap F[j] = {}
  BY DEF Apart
<1> HIDE DEF G
<1>4. ASSUME NEW i \in DOMAIN G, NEW j \in DOMAIN G, i # j PROVE G[i] \cap G[j] = {}
  <2>1. i \in 1 .. Len(F) + 1 /\ j \in 1 .. Len(F) + 1
    BY <1>1
  <2>2. CASE i = Len(F) + 1
    <3>1. j \in 1 .. Len(F)
      BY <2>1, <2>2, <1>4
    <3> QED BY <3>1, <2>2, <1>1, <1>2
  <2>3. CASE j = Len(F) + 1
    <3>1. i \in 1 .. Len(F)
      BY <2>1, <2>3, <1>4
    <3> QED BY <3>1, <2>3, <1>1, <1>2
  <2>4. CASE i # Len(F) + 1 /\ j # Len(F) + 1
    <3>1. i \in 1 .. Len(F) /\ j \in 1 .. Len(F)
      BY <2>1, <2>4
    <3> QED BY <3>1, <1>1, <1>3, <1>4
  <2> QED BY <2>2, <2>3, <2>4
<1>5. ASSUME NEW i \in DOMAIN G PROVE G[i] \cap Q = {}
  <2>1. i \in 1 .. Len(F) + 1
    BY <1>1
  <2>2. CASE i = Len(F) + 1
    BY <2>2, <1>1
  <2>3. CASE i # Len(F) + 1
    <3>1. i \in 1 .. Len(F)
      BY <2>1, <2>3
    <3> QED BY <3>1, <1>1, <1>2
  <2> QED BY <2>2, <2>3
<1> QED BY <1>4, <1>5 DEF Apart, G

\* A prefix of a list that is apart is apart.
LEMMA ApartPrefix ==
  ASSUME NEW F \in Seq(Chunk), NEW S \in Chunk, NEW P, Apart(Append(F, S), P)
  PROVE  Apart(F, P)
<1> DEFINE G == Append(F, S)
<1>1. /\ G \in Seq(Chunk)
      /\ Len(G) = Len(F) + 1
      /\ \A i \in 1 .. Len(F) : G[i] = F[i]
  BY AppendProperties
<1>2. Apart(G, P)
  OBVIOUS
<1> HIDE DEF G
<1>3. \A i \in 1 .. Len(F) : i \in DOMAIN G
  BY <1>1
<1> QED BY <1>1, <1>2, <1>3 DEF Apart

\* What the lists of n hold at each await: on disk is what is in memory, or
\* the list of faces without its last.
LEMMA DiskBehind ==
  ASSUME TypeOK, ReuseInv, NEW n \in Node, NEW k \in Slot
  PROVE  /\ tick[n][k].stage \in {"idle", "blocks", "pool", "faces"}
         /\ Apart(dFaces[n], pool[n] \cup todo[n])
<1>1. tick[n][k] \in Job \cup {Idle} /\ Progress(n, tick[n][k])
  <2>1. tick[n][k] \in Job \cup {Idle}
    BY DEF TypeOK
  <2>2. Progress(n, tick[n][k])
    BY DEF ReuseInv, ReuseOf
  <2> QED BY <2>1, <2>2
<1>2. tick[n][k].stage \in {"idle", "blocks", "pool", "faces"}
  BY <1>1 DEF Job, Idle
<1>3. Apart(faces[n], pool[n] \cup todo[n])
  BY DEF ReuseInv, ReuseOf
<1>4. CASE tick[n][k].stage \in {"idle", "blocks"}
  BY <1>1, <1>3, <1>4 DEF Progress
<1>5. CASE tick[n][k].stage \in {"pool", "faces"}
  <2>1. faces[n] = Append(dFaces[n], tick[n][k].set)
    BY <1>1, <1>5 DEF Progress
  <2>2. dFaces[n] \in Seq(Chunk) /\ tick[n][k].set \in Chunk
    BY <1>1, <1>5 DEF TypeOK, Job, Idle
  <2>3. Apart(Append(dFaces[n], tick[n][k].set), pool[n] \cup todo[n])
    BY <1>3, <2>1
  <2>4. Apart(dFaces[n], pool[n] \cup todo[n])
    BY <2>2, <2>3, ApartPrefix
  <2> QED BY <1>2, <2>4
<1> QED BY <1>2, <1>4, <1>5

\* A step of another node, or of the network, leaves n's lists alone.
LEMMA ReuseFrame ==
  ASSUME NEW n \in Node, ReuseOf(n),
         pool'[n] = pool[n], faces'[n] = faces[n], todo'[n] = todo[n],
         dPool'[n] = dPool[n], dFaces'[n] = dFaces[n], tick'[n] = tick[n]
  PROVE  ReuseOf(n)'
BY DEF ReuseOf, Apart, Progress

\* With one invocation of the callback at a time, every action keeps the
\* lists of every node apart, in memory and on disk.
LEMMA ReuseStep ==
  ASSUME \A k1, k2 \in Slot : k1 = k2
  PROVE  TypeOK /\ ReuseInv /\ [Next]_vars => ReuseInv'
<1> SUFFICES ASSUME TypeOK, ReuseInv, [Next]_vars PROVE ReuseInv'
  OBVIOUS
<1>1. ASSUME NEW n \in Node, NEW x \in Item, Arrive(n, x) PROVE ReuseInv'
  <2>1. \A m \in Node \ {n} : ReuseOf(m)'
    BY <1>1, ReuseFrame DEF Arrive, TypeOK, ReuseInv
  <2>2. /\ todo'[n] = todo[n] \ {x} /\ x \in todo[n]
        /\ pool'[n] = pool[n] \cup {x} /\ dPool'[n] = pool[n] \cup {x}
        /\ faces' = faces /\ dFaces' = dFaces /\ tick' = tick
    BY <1>1 DEF Arrive, TypeOK
  <2>3. /\ pool'[n] \cup todo'[n] = pool[n] \cup todo[n]
        /\ dPool'[n] = pool'[n]
        /\ pool'[n] \cap todo'[n] = {}
    BY <2>2 DEF ReuseInv, ReuseOf
  <2>4. Apart(faces[n], pool[n] \cup todo[n]) /\ Apart(dFaces[n], pool[n] \cup todo[n])
    <3>1. PICK k \in Slot : TRUE
      BY SlotAssumption
    <3>2. Apart(dFaces[n], pool[n] \cup todo[n])
      BY <3>1, DiskBehind
    <3> QED BY <3>2 DEF ReuseInv, ReuseOf
  <2>5. ASSUME NEW k \in Slot PROVE Progress(n, tick[n][k])'
    <3>1. Progress(n, tick[n][k])
      BY DEF ReuseInv, ReuseOf
    <3>2. tick[n][k].stage \in {"idle", "blocks", "pool", "faces"}
      BY DiskBehind
    <3> QED BY <3>1, <3>2, <2>2, <2>3 DEF Progress
  <2>6. ReuseOf(n)'
    BY <2>2, <2>3, <2>4, <2>5 DEF ReuseOf, Apart
  <2> QED BY <2>1, <2>6 DEF ReuseInv
<1>2. ASSUME UNCHANGED <<todo, pool, faces, dPool, dFaces, tick>> PROVE ReuseInv'
  BY <1>2, ReuseFrame DEF ReuseInv
<1>3. ASSUME NEW n \in Node, NEW k \in Slot, TickSeal(n, k) PROVE ReuseInv'
  <2>1. UNCHANGED <<todo, pool, faces, dPool, dFaces>> /\ tick[n][k] = Idle
    BY <1>3 DEF TickSeal
  <2>2. PICK S : S \subseteq pool[n] /\ tick' = [tick EXCEPT ![n][k] = [stage |-> "blocks", set |-> S]]
    BY <1>3 DEF TickSeal
  <2>3. \A m \in Node \ {n} : ReuseOf(m)'
    BY <2>1, <2>2, ReuseFrame DEF TypeOK, ReuseInv
  <2>4. Progress(n, tick[n][k])
    BY DEF ReuseInv, ReuseOf
  <2>5. dPool[n] = pool[n] /\ dFaces[n] = faces[n]
    BY <2>1, <2>4 DEF Progress, Idle
  <2>6. \A j \in Slot : tick'[n][j] = [stage |-> "blocks", set |-> S]
    BY <2>2 DEF TypeOK
  <2>7. ASSUME NEW j \in Slot PROVE Progress(n, tick[n][j])'
    <3>1. tick'[n][j].stage = "blocks" /\ tick'[n][j].set = S
      BY <2>6
    <3> QED BY <2>1, <2>2, <2>5, <3>1 DEF Progress
  <2>8. ReuseOf(n)'
    BY <2>1, <2>7 DEF ReuseInv, ReuseOf, Apart
  <2> QED BY <2>3, <2>8 DEF ReuseInv
<1>4. ASSUME NEW n \in Node, NEW k \in Slot, CommitFace(n, k) PROVE ReuseInv'
  <2> DEFINE S == tick[n][k].set
  <2>1. tick[n][k] \in Job /\ tick[n][k].stage = "blocks" /\ S \in Chunk
    BY <1>4 DEF CommitFace, TypeOK, Idle, Job
  <2>2. /\ UNCHANGED <<todo, dPool, dFaces>>
        /\ pool'[n] = pool[n] \ S /\ faces'[n] = Append(faces[n], S)
        /\ tick'[n][k].stage = "pool" /\ tick'[n][k].set = S
    BY <1>4, <2>1 DEF CommitFace, TypeOK, Job
  <2>3. \A m \in Node \ {n} : ReuseOf(m)'
    BY <1>4, ReuseFrame DEF CommitFace, TypeOK, ReuseInv
  <2>4. ReuseOf(n) /\ Progress(n, tick[n][k])
    BY DEF ReuseInv, ReuseOf
  <2>5. dPool[n] = pool[n] /\ dFaces[n] = faces[n] /\ S \subseteq pool[n]
    BY <2>1, <2>4 DEF Progress
  <2> HIDE DEF S
  <2>6. Apart(Append(faces[n], S), (pool[n] \ S) \cup todo[n])
    <3>1. ((pool[n] \ S) \cup todo[n]) \cap S = {}
      BY <2>4, <2>5 DEF ReuseOf
    <3>2. faces[n] \in Seq(Chunk) /\ Apart(faces[n], pool[n] \cup todo[n])
      BY <2>4 DEF TypeOK, ReuseOf
    <3> QED BY <3>1, <3>2, <2>1, <2>5, ApartAppend
  <2>7. Progress(n, tick[n][k])'
    BY <2>2, <2>5 DEF Progress
  <2>8. \A j \in Slot : Progress(n, tick[n][j])'
    <3>1. \A j \in Slot : j = k
      OBVIOUS
    <3> QED BY <2>7, <3>1
  <2>9. ReuseOf(n)'
    BY <2>2, <2>4, <2>6, <2>8 DEF ReuseOf, Apart
  <2> QED BY <2>3, <2>9 DEF ReuseInv
<1>5. ASSUME NEW n \in Node, NEW k \in Slot, SavePool(n, k) PROVE ReuseInv'
  <2>1. tick[n][k] \in Job /\ tick[n][k].stage = "pool"
    BY <1>5 DEF SavePool, TypeOK, Idle
  <2>2. /\ UNCHANGED <<todo, pool, faces, dFaces>> /\ dPool'[n] = pool[n]
        /\ tick'[n][k].stage = "faces" /\ tick'[n][k].set = tick[n][k].set
    BY <1>5, <2>1 DEF SavePool, TypeOK, Job
  <2>3. \A m \in Node \ {n} : ReuseOf(m)'
    BY <1>5, ReuseFrame DEF SavePool, TypeOK, ReuseInv
  <2>4. ReuseOf(n) /\ Progress(n, tick[n][k])
    BY DEF ReuseInv, ReuseOf
  <2>5. Apart(dFaces[n], pool[n] \cup todo[n])
    BY DiskBehind
  <2>6. Progress(n, tick[n][k])'
    BY <2>1, <2>2, <2>4 DEF Progress
  <2>7. \A j \in Slot : Progress(n, tick[n][j])'
    <3>1. \A j \in Slot : j = k
      OBVIOUS
    <3> QED BY <2>6, <3>1
  <2>8. ReuseOf(n)'
    BY <2>2, <2>4, <2>5, <2>7 DEF ReuseOf, Apart
  <2> QED BY <2>3, <2>8 DEF ReuseInv
<1>6. ASSUME NEW n \in Node, NEW k \in Slot, SaveFaces(n, k) PROVE ReuseInv'
  <2>1. tick[n][k].stage = "faces"
    BY <1>6 DEF SaveFaces
  <2>2. /\ UNCHANGED <<todo, pool, faces, dPool>> /\ dFaces'[n] = faces[n]
        /\ tick'[n][k] = Idle
    BY <1>6 DEF SaveFaces, TypeOK
  <2>3. \A m \in Node \ {n} : ReuseOf(m)'
    BY <1>6, ReuseFrame DEF SaveFaces, TypeOK, ReuseInv
  <2>4. ReuseOf(n) /\ Progress(n, tick[n][k])
    BY DEF ReuseInv, ReuseOf
  <2>5. dPool[n] = pool[n]
    BY <2>1, <2>4 DEF Progress
  <2>6. Progress(n, tick[n][k])'
    BY <2>2, <2>5 DEF Progress, Idle
  <2>7. \A j \in Slot : Progress(n, tick[n][j])'
    <3>1. \A j \in Slot : j = k
      OBVIOUS
    <3> QED BY <2>6, <3>1
  <2>8. ReuseOf(n)'
    BY <2>2, <2>4, <2>5, <2>7 DEF ReuseOf, Apart
  <2> QED BY <2>3, <2>8 DEF ReuseInv
<1>7. ASSUME NEW n \in Node, Crash(n) PROVE ReuseInv'
  <2>1. \A m \in Node \ {n} : ReuseOf(m)'
    BY <1>7, ReuseFrame DEF Crash, TypeOK, ReuseInv
  <2>2. /\ UNCHANGED <<todo, dPool, dFaces>> /\ pool'[n] = dPool[n] /\ faces'[n] = dFaces[n]
        /\ \A k \in Slot : tick'[n][k] = Idle
    BY <1>7 DEF Crash, TypeOK
  <2>3. ASSUME NEW k \in Slot PROVE Progress(n, tick[n][k])'
    <3>1. tick'[n][k].stage = "idle"
      BY <2>2 DEF Idle
    <3> QED BY <2>2, <3>1 DEF Progress
  <2>4. ReuseOf(n)'
    BY <2>2, <2>3 DEF ReuseInv, ReuseOf, Apart
  <2> QED BY <2>1, <2>4 DEF ReuseInv
<1>8. ASSUME NEW n \in Node, NEW p \in net \ heard[n], Deliver(n, p) PROVE ReuseInv'
  BY <1>2, <1>8 DEF Deliver
<1>9. ASSUME NEW p \in net, Expire(p) PROVE ReuseInv'
  BY <1>2, <1>9 DEF Expire
<1>10. ASSUME NEW n \in Node, NEW k \in Slot, TickIdle(n, k) \/ TickStall(n, k) PROVE ReuseInv'
  BY <1>2, <1>10 DEF TickIdle, TickStall
<1>11. CASE UNCHANGED vars
  BY <1>2, <1>11 DEF vars
<1> QED BY <1>1, <1>3, <1>4, <1>5, <1>6, <1>7, <1>8, <1>9, <1>10, <1>11 DEF Next, Tick

\* The strengthening holds throughout.
LEMMA ReuseHolds ==
  ASSUME \A k1, k2 \in Slot : k1 = k2 PROVE Spec => []ReuseInv
<1>1. Init => ReuseInv
  <2> SUFFICES ASSUME Init, NEW n \in Node PROVE ReuseOf(n)
    BY DEF ReuseInv
  <2>1. ASSUME NEW k \in Slot PROVE Progress(n, tick[n][k])
    <3>1. tick[n][k].stage = "idle"
      BY DEF Init, Idle
    <3> QED BY <3>1 DEF Init, Progress
  <2> QED BY <2>1 DEF Init, ReuseOf, Apart
<1>2. TypeOK /\ ReuseInv /\ [Next]_vars => ReuseInv'
  BY ReuseStep
<1> QED BY <1>1, <1>2, TypeCorrect, PTL DEF Spec

\* When invocations of the interval callback do not overlap, a node's ledger
\* never uses a block twice, whatever awaits a restart interrupts.
THEOREM NoReuseHolds ==
  ASSUME \A k1, k2 \in Slot : k1 = k2 PROVE Spec => []NoReuse
<1>1. ReuseInv => NoReuse
  BY DEF ReuseInv, ReuseOf, Apart, NoReuse
<1> QED BY <1>1, ReuseHolds, PTL

\* When invocations do not overlap either, a sealed block is lost by a restart
\* only between the removal from the pool and the put of the faces.
THEOREM SurvivesHolds ==
  ASSUME \A k1, k2 \in Slot : k1 = k2 PROVE Spec => SealedSurvivesOnceSaved
<1> DEFINE Kept(n) == UNION Elems(faces[n]) \subseteq pool'[n] \cup UNION Elems(faces'[n])
           Saved(n) == \A k \in Slot : tick[n][k].stage \notin {"pool", "faces"}
<1>1. TypeOK /\ ReuseInv /\ [Next]_vars => [\A n \in Node : Saved(n) => Kept(n)]_vars
  <2> SUFFICES ASSUME TypeOK, ReuseInv, [Next]_vars, NEW n \in Node, Saved(n) PROVE Kept(n)
    OBVIOUS
  <2>1. faces'[n] = faces[n] => Kept(n)
    BY DEF Elems
  <2>2. ASSUME NEW m \in Node, Crash(m) PROVE Kept(n)
    <3>1. CASE m = n
      <4>1. PICK k \in Slot : TRUE
        BY SlotAssumption
      <4>2. tick[n][k].stage \in {"idle", "blocks"}
        BY DiskBehind
      <4>3. Progress(n, tick[n][k])
        BY DEF ReuseInv, ReuseOf
      <4>4. dFaces[n] = faces[n]
        BY <4>2, <4>3 DEF Progress
      <4>5. faces'[n] = dFaces[n]
        BY <2>2, <3>1 DEF Crash, TypeOK
      <4> QED BY <2>1, <4>4, <4>5
    <3>2. CASE m # n
      BY <2>1, <2>2, <3>2 DEF Crash, TypeOK
    <3> QED BY <3>1, <3>2
  <2>3. ASSUME NEW m \in Node, NEW k \in Slot, CommitFace(m, k) PROVE Kept(n)
    <3>1. CASE m = n
      <4>1. faces'[n] = Append(faces[n], tick[n][k].set)
        BY <2>3, <3>1 DEF CommitFace, TypeOK
      <4>2. faces[n] \in Seq(Chunk) /\ tick[n][k].set \in Chunk
        BY <2>3, <3>1 DEF CommitFace, TypeOK, Job, Idle
      <4>3. Elems(faces[n]) \subseteq Elems(faces'[n])
        BY <4>1, <4>2, ElemsAppend
      <4> QED BY <4>3
    <3>2. CASE m # n
      BY <2>1, <2>3, <3>2 DEF CommitFace, TypeOK
    <3> QED BY <3>1, <3>2
  <2>4. CASE UNCHANGED faces
    BY <2>1, <2>4
  <2> QED BY <2>2, <2>3, <2>4 DEF Next, vars, Arrive, Deliver, Expire, Tick, TickIdle, TickStall,
                                   TickSeal, SavePool, SaveFaces
<1> QED BY <1>1, ReuseHolds, TypeCorrect, PTL DEF Spec, SealedSurvivesOnceSaved
=============================================================================
