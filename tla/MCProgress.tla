----------------------------- MODULE MCProgress -----------------------------
(***************************************************************************)
(* The two ways a node that missed something catches up, on small          *)
(* instances: from its peers (CubeSync), where q misses the cubes of p and *)
(* nobody can serve cube 1, and from the broker (CanonicalFeed).  They     *)
(* share no state; each behaviour exercises the one that Init chooses.     *)
(* Progress.cfg gives the constants their values; what is taken over is    *)
(* proved to be sound for all of them, at the end.                         *)
(***************************************************************************)
EXTENDS Naturals, Sequences, FiniteSets, FiniteSetTheorems, TLC, TLAPS

CONSTANTS
  p, q,                                                       \* the nodes of the run, which Fairness names
  Node, Cube, Block, Members, Held0, Unnamed, Corrupt,        \* CubeSync
    MaxInFlight, MaxAttempts, MaxLoss, MaxRestart,
  MaxVersion, StaleAfter, Dirty, MaxHands, MaxCached          \* CanonicalFeed

\* Cubes are finitely many, each the hash of blocks, and a node starts with some of them.
ASSUME CubeAssumption ==
  IsFiniteSet(Cube) /\ Members \in [Cube -> SUBSET Block] /\ Held0 \in [Node -> SUBSET Cube]

VARIABLES
  way,
  held, located, pending, failed, net, losses, restarts,
  brokerSet, chainSet, lastSet, fedOnce, quiet, waiting, etag, feedWrite, tick, fedSet, hands, cached

syncVars == <<held, located, pending, failed, net, losses, restarts>>
feedVars == <<brokerSet, chainSet, lastSet, fedOnce, quiet, waiting, etag, feedWrite, tick, fedSet, hands, cached>>
vars == <<way, syncVars, feedVars>>

Peers == INSTANCE CubeSync

Broker == INSTANCE CanonicalFeed WITH pending <- waiting

Init == way \in {"peers", "broker"} /\ Peers!Init /\ Broker!Init

FromPeers(A) == way = "peers" /\ A /\ UNCHANGED <<way, feedVars>>
FromBroker(A) == way = "broker" /\ A /\ UNCHANGED <<way, syncVars>>

Next == FromPeers(Peers!Next) \/ FromBroker(Broker!Next)

\* The timers of both ways run, in the end after every open request's time is up; a message that is
\* not lost is delivered, a write ends, and the broker answers a check with the current set again and
\* again.  way never changes, so each conjunct is fairness for the one of its actions that way allows.
Fairness ==
  /\ WF_vars(FromPeers(Peers!Advertise(p, pending[p])) \/ FromBroker(Broker!Elapse))
  /\ WF_vars(FromPeers(Peers!Advertise(q, pending[q])) \/ FromBroker(Broker!Check))
  /\ WF_vars(FromPeers(Peers!Deliver(p)) \/ FromBroker(Broker!WriteEnds))
  /\ SF_vars(FromPeers(Peers!Deliver(q)) \/ FromBroker(Broker!Fresh))

Spec == Init /\ [][Next]_vars /\ Fairness

\* What is taken over is never worse than what was there: the rows of a cube adopted from a peer are
\* its members, unless a later cube took one of them, and a node's own check never takes the chain
\* back behind a clean set that a feeder handed over.
TakenOverSound == Peers!AdoptedWhole /\ Broker!SelfNotBack

\* A cube that some node can serve is in the end held by every node, though messages are lost, nodes
\* restart and requests for a cube that nobody can serve keep expiring.
Converges == way = "peers" => Peers!Converges

\* A node nobody feeds any more reaches the newest set the broker has, though fetches fail, return
\* older copies or meet a write under way.
CatchesUp == way = "broker" => Broker!CatchesUp

----------------------------------------------------------------------------
(* What is taken over, for all values of the constants.                    *)

LEMMA PeersPart == Spec => Peers!Init /\ [][Peers!Next]_syncVars
<1>1. [Next]_vars => [Peers!Next]_syncVars
  BY DEF Next, vars, FromPeers, FromBroker
<1> QED
  BY <1>1, PTL DEF Spec, Init

LEMMA BrokerPart == Spec => Broker!Init /\ [][Broker!Next]_feedVars
<1>1. [Next]_vars => [Broker!Next]_feedVars
  BY DEF Next, vars, FromPeers, FromBroker
<1> QED
  BY <1>1, PTL DEF Spec, Init

\* What travels names cubes.
Message ==
  [kind : {"digest", "list"}, cubes : SUBSET Cube] \cup [kind : {"ask"}] \cup [kind : {"request"}, id : Cube]
  \cup [kind : {"cube"}, id : Cube, blocks : SUBSET Block]

SyncInv ==
  /\ held \in [Node -> SUBSET Cube] /\ DOMAIN located = Node
  /\ net \in [Node -> Seq(Message)]
  /\ Peers!AdoptedWhole

\* A finite set has a sequence of its elements.
LEMMA InSequence == \A S : IsFiniteSet(S) => Peers!SetToSeq(S) \in Seq(S)
<1> SUFFICES ASSUME NEW S, IsFiniteSet(S) PROVE Peers!SetToSeq(S) \in Seq(S)
  OBVIOUS
<1>1. Peers!Cardinality(S) = Cardinality(S)
  BY DEF Peers!Cardinality, Cardinality, Peers!IsFiniteSet, IsFiniteSet
<1>2. Cardinality(S) \in Nat /\ ExistsBijection(1 .. Cardinality(S), S)
  BY FS_CardinalityType
<1>3. PICK f \in [1 .. Cardinality(S) -> S] : Peers!IsInjective(f)
  BY <1>2 DEF ExistsBijection, Bijection, Injection, IsInjective, Peers!IsInjective
<1>4. Peers!SetToSeq(S) \in [1 .. Cardinality(S) -> S]
  BY <1>1, <1>3 DEF Peers!SetToSeq
<1> QED
  BY <1>2, <1>4

\* What is sent and what is left when a message is taken are queues of messages.
LEMMA FloodSends ==
  ASSUME NEW qs \in [Node -> Seq(Message)], NEW n, NEW B \in SUBSET Message, IsFiniteSet(B)
  PROVE  Peers!Flood(qs, n, B) \in [Node -> Seq(Message)]
<1>1. ASSUME NEW m \in Node PROVE qs[m] \o Peers!SetToSeq(Peers!NotWaiting(qs[m], B)) \in Seq(Message)
  <2>1. Peers!NotWaiting(qs[m], B) \subseteq B
    BY DEF Peers!NotWaiting
  <2>2. IsFiniteSet(Peers!NotWaiting(qs[m], B))
    BY <2>1, FS_Subset
  <2>3. Peers!SetToSeq(Peers!NotWaiting(qs[m], B)) \in Seq(Message)
    BY <2>1, <2>2, InSequence
  <2> QED
    BY <2>3
<1> QED
  BY <1>1 DEF Peers!Flood

LEMMA TakenLeaves ==
  ASSUME SyncInv, NEW n \in Node, net[n] # <<>>
  PROVE  Peers!Taken(n) \in [Node -> Seq(Message)] /\ Head(net[n]) \in Message
<1>1. net[n] \in Seq(Message)
  BY DEF SyncInv
<1>2. Head(net[n]) \in Message /\ Tail(net[n]) \in Seq(Message)
  BY <1>1
<1> QED
  BY <1>2 DEF SyncInv, Peers!Taken

LEMMA SyncInit == Peers!Init => SyncInv
BY CubeAssumption DEF Peers!Init, SyncInv, Peers!AdoptedWhole

\* An answer adopted has the members the cube is the hash of, and their rows name it.
LEMMA OnCubeKeeps == ASSUME SyncInv, NEW n \in Node, Peers!OnCube(n) PROVE SyncInv'
<1> DEFINE c == Head(net[n]).id
           B == Head(net[n]).blocks
           take == Peers!verifyCube(c, B) /\ c \notin held[n]
<1>1. /\ net[n] # <<>> /\ Head(net[n]).kind = "cube" /\ net' = Peers!Taken(n)
      /\ held' = [held EXCEPT ![n] = IF take THEN @ \cup {c} ELSE @]
      /\ located' = [located EXCEPT ![n] = [b \in Block |-> IF take /\ b \in B THEN c ELSE @[b]]]
  BY DEF Peers!OnCube, Peers!Hears
<1>2. c \in Cube
  BY <1>1, TakenLeaves DEF Message
<1>3. take => B = Members[c]
  BY DEF Peers!verifyCube
<1> HIDE DEF c, B, take
<1>4. /\ held' \in [Node -> SUBSET Cube] /\ DOMAIN located' = Node /\ net' \in [Node -> Seq(Message)]
  BY <1>1, <1>2, TakenLeaves DEF SyncInv
<1>5. ASSUME NEW m \in Node, NEW d \in held'[m] \ Held0[m], NEW b \in Members[d]
      PROVE  located'[m][b] = d \/ b \in UNION {Members[e] : e \in held'[m] \ {d}}
  <2>0. d \in Cube /\ b \in Block
    BY <1>4, <1>5, CubeAssumption
  <2>1. CASE m # n
    BY <1>1, <1>5, <2>1 DEF SyncInv, Peers!AdoptedWhole
  <2>2. CASE m = n /\ ~take
    <3>1. held'[m] = held[m] /\ located'[m][b] = located[m][b]
      BY <1>1, <2>0, <2>2 DEF SyncInv
    <3> QED
      BY <1>5, <3>1 DEF SyncInv, Peers!AdoptedWhole
  <2>3. CASE m = n /\ take
    <3>1. held'[m] = held[m] \cup {c} /\ located'[m][b] = IF b \in Members[c] THEN c ELSE located[m][b]
      BY <1>1, <1>3, <2>0, <2>3 DEF SyncInv
    <3>2. CASE d = c
      BY <1>5, <3>1, <3>2
    <3>3. CASE d # c /\ b \in Members[c]
      BY <3>1, <3>3
    <3>4. CASE d # c /\ b \notin Members[c]
      <4>1. located[m][b] = d \/ b \in UNION {Members[e] : e \in held[m] \ {d}}
        BY <1>5, <3>1, <3>4 DEF SyncInv, Peers!AdoptedWhole
      <4> QED
        BY <3>1, <3>4, <4>1
    <3> QED
      BY <3>2, <3>3, <3>4
  <2> QED
    BY <2>1, <2>2, <2>3
<1> QED
  BY <1>4, <1>5 DEF SyncInv, Peers!AdoptedWhole

LEMMA SyncNext == SyncInv /\ [Peers!Next]_syncVars => SyncInv'
<1> SUFFICES ASSUME SyncInv, [Peers!Next]_syncVars PROVE SyncInv'
  OBVIOUS
<1>1. ASSUME UNCHANGED <<held, located>>, net' \in [Node -> Seq(Message)] PROVE SyncInv'
  BY <1>1 DEF SyncInv, Peers!AdoptedWhole
<1>2. CASE UNCHANGED syncVars
  BY <1>1, <1>2 DEF syncVars, SyncInv
<1>3. ASSUME NEW n \in Node, NEW E, Peers!Advertise(n, E) PROVE SyncInv'
  <2> DEFINE B == {[kind |-> "digest", cubes |-> held[n]]}
  <2>1. UNCHANGED <<held, located>> /\ net' = Peers!Flood(net, n, B)
    BY <1>3 DEF Peers!Advertise
  <2>2. B \subseteq Message
    BY DEF SyncInv, Message
  <2>3. IsFiniteSet(B)
    BY FS_Singleton
  <2> HIDE DEF B
  <2> QED
    BY <1>1, <2>1, <2>2, <2>3, FloodSends DEF SyncInv
<1>4. ASSUME NEW n \in Node, Peers!OnDigest(n) \/ Peers!ServeList(n) PROVE SyncInv'
  <2>1. UNCHANGED <<held, located>> /\ net[n] # <<>>
    BY <1>4 DEF Peers!OnDigest, Peers!ServeList, Peers!Hears
  <2>2. \E b \in Message : \E B \in SUBSET {b} : net' = Peers!Flood(Peers!Taken(n), n, B)
    <3>1. [kind |-> "ask"] \in Message /\ [kind |-> "list", cubes |-> held[n]] \in Message
      BY DEF Message, SyncInv
    <3>2. CASE Peers!OnDigest(n)
      <4> DEFINE B == {[kind |-> "ask"] : x \in {held[n]} \ {Head(net[n]).cubes}}
      <4>1. net' = Peers!Flood(Peers!Taken(n), n, B)
        BY <3>2 DEF Peers!OnDigest
      <4>2. B \in SUBSET {[kind |-> "ask"]}
        OBVIOUS
      <4> QED
        BY <3>1, <4>1, <4>2
    <3>3. CASE Peers!ServeList(n)
      BY <3>1, <3>3 DEF Peers!ServeList
    <3> QED
      BY <1>4, <3>2, <3>3
  <2>3. \A b : \A B \in SUBSET {b} : IsFiniteSet(B)
    BY FS_Singleton, FS_Subset
  <2>4. net' \in [Node -> Seq(Message)]
    <3>1. PICK B \in SUBSET Message : IsFiniteSet(B) /\ net' = Peers!Flood(Peers!Taken(n), n, B)
      BY <2>2, <2>3
    <3> QED
      BY <2>1, <3>1, TakenLeaves, FloodSends
  <2> QED
    BY <1>1, <2>1, <2>4
<1>5. ASSUME NEW n \in Node, Peers!ServeCube(n) PROVE SyncInv'
  <2> DEFINE b == [kind |-> "cube", id |-> Head(net[n]).id, blocks |-> Peers!Sent(n, Head(net[n]).id)]
  <2>1. UNCHANGED <<held, located>> /\ net[n] # <<>> /\ Head(net[n]).kind = "request"
    BY <1>5 DEF Peers!ServeCube, Peers!Hears
  <2>2. \E B \in SUBSET {b} : net' = Peers!Flood(Peers!Taken(n), n, B)
    <3> DEFINE X == {Peers!Cardinality(Peers!Payload(n, Head(net[n]).id))} \cap {Peers!Cardinality(Members[Head(net[n]).id])}
    <3>1. net' = Peers!Flood(Peers!Taken(n), n, {b : x \in X})
      BY <1>5 DEF Peers!ServeCube
    <3>2. {b : x \in X} \in SUBSET {b}
      OBVIOUS
    <3> QED
      BY <3>1, <3>2
  <2>3. b \in Message
    <3>1. Head(net[n]).id \in Cube
      BY <2>1, TakenLeaves DEF Message
    <3>2. Peers!Sent(n, Head(net[n]).id) \subseteq Block
      BY DEF Peers!Sent, Peers!Payload
    <3> QED
      BY <3>1, <3>2 DEF Message
  <2> HIDE DEF b
  <2>4. \A B \in SUBSET {b} : IsFiniteSet(B)
    <3>1. IsFiniteSet({b})
      BY FS_Singleton
    <3> QED
      BY <3>1, FS_Subset
  <2> QED
    BY <1>1, <2>1, <2>2, <2>3, <2>4, TakenLeaves, FloodSends
<1>6. ASSUME NEW n \in Node, NEW E, Peers!OnList(n, E) PROVE SyncInv'
  <2> DEFINE W == Peers!Wanted(n, E, Head(net[n]).cubes)
             B == {[kind |-> "request", id |-> c] : c \in W}
  <2>1. UNCHANGED <<held, located>> /\ net[n] # <<>> /\ Head(net[n]).kind = "list" /\ net' = Peers!Flood(Peers!Taken(n), n, B)
    BY <1>6 DEF Peers!OnList, Peers!Hears
  <2>2. Head(net[n]).cubes \subseteq Cube
    BY <2>1, TakenLeaves DEF Message
  <2>3. W \subseteq Head(net[n]).cubes
    BY DEF Peers!Wanted, Peers!diffWanted
  <2> HIDE DEF W
  <2>4. B \subseteq Message
    BY <2>2, <2>3 DEF Message
  <2>5. IsFiniteSet(B)
    <3>1. IsFiniteSet(W)
      BY <2>2, <2>3, CubeAssumption, FS_Subset
    <3> DEFINE asks == [c \in W |-> [kind |-> "request", id |-> c]]
    <3>2. asks \in Surjection(W, B)
      BY DEF Surjection
    <3> QED
      BY <3>1, <3>2, FS_Surjection
  <2> QED
    BY <1>1, <2>1, <2>4, <2>5, TakenLeaves, FloodSends
<1>7. ASSUME NEW n \in Node, Peers!Lose(n) \/ Peers!Restart(n) PROVE SyncInv'
  <2>1. UNCHANGED <<held, located>> /\ (net' = net \/ (net[n] # <<>> /\ net' = Peers!Taken(n)))
    BY <1>7 DEF Peers!Lose, Peers!Restart
  <2> QED
    BY <1>1, <2>1, TakenLeaves DEF SyncInv
<1> QED
  BY <1>2, <1>3, <1>4, <1>5, <1>6, <1>7, OnCubeKeeps DEF Peers!Next, Peers!Deliver

----------------------------------------------------------------------------
\* A clean set that was handed over is being written or is recorded, and the check looks at what is recorded.
FeedInv ==
  /\ brokerSet \in Nat /\ lastSet \in Nat /\ fedSet \in Nat /\ fedOnce \in BOOLEAN
  /\ feedWrite \in [by : {"none", "control", "self"}, set : Nat] /\ tick \in [at : {"idle", "fetch", "decide", "apply"}, set : Nat]
  /\ feedWrite.by = "control" => feedWrite.set = fedSet
  /\ fedSet # 0 => fedOnce
  /\ feedWrite.by # "control" /\ fedSet \notin Dirty => fedSet <= lastSet
  /\ Broker!SelfNotBack

LEMMA FeedInit == Broker!Init => FeedInv
<1> SUFFICES ASSUME Broker!Init PROVE FeedInv
  OBVIOUS
<1>1. /\ brokerSet = 1 /\ lastSet = 0 /\ fedSet = 0 /\ ~fedOnce /\ fedOnce \in BOOLEAN
      /\ feedWrite = [by |-> "none", set |-> 0] /\ tick = [at |-> "idle", set |-> 0]
  BY DEF Broker!Init, Broker!NoFeed, Broker!AtRest
<1> QED
  BY <1>1 DEF FeedInv, Broker!SelfNotBack

LEMMA FeedNext == FeedInv /\ [Broker!Next]_feedVars => FeedInv'
<1> SUFFICES ASSUME FeedInv, [Broker!Next]_feedVars PROVE FeedInv'
  OBVIOUS
<1> USE DEF FeedInv, Broker!SelfNotBack, Broker!NoFeed, Broker!AtRest
<1>1. CASE UNCHANGED feedVars
  BY <1>1 DEF feedVars
<1>2. CASE Broker!Publish \/ Broker!Elapse \/ Broker!TickBegin \/ Broker!FetchFails
  BY <1>2 DEF Broker!Publish, Broker!Elapse, Broker!TickBegin, Broker!FetchFails
<1>3. CASE Broker!HandDone
  BY <1>3 DEF Broker!HandDone, Broker!Noted
<1>4. CASE Broker!SelfDone
  BY <1>4 DEF Broker!SelfDone, Broker!Noted
<1>5. CASE Broker!Decide
  <2>1. UNCHANGED <<brokerSet, lastSet, fedSet, fedOnce>>
    BY <1>5 DEF Broker!Decide
  <2>2. CASE UNCHANGED feedWrite /\ tick' = Broker!AtRest
    BY <2>1, <2>2
  <2>3. CASE ~(UNCHANGED feedWrite /\ tick' = Broker!AtRest)
    <3>1. /\ feedWrite = Broker!NoFeed /\ feedWrite' = [by |-> "self", set |-> tick.set] /\ tick' = [at |-> "apply", set |-> tick.set]
          /\ ~Broker!IsOlder(tick.set)
      BY <1>5, <2>3 DEF Broker!Decide
    <3> QED
      BY <2>1, <3>1 DEF Broker!IsOlder
  <2> QED
    BY <2>2, <2>3
<1>6. ASSUME NEW v \in Broker!Version, Broker!Hand(v) PROVE FeedInv'
  BY <1>6 DEF Broker!Hand, Broker!Version
<1>7. ASSUME NEW v \in Broker!Version, Broker!Fetch(v) PROVE FeedInv'
  BY <1>7 DEF Broker!Fetch, Broker!Version
<1> QED
  BY <1>1, <1>2, <1>3, <1>4, <1>5, <1>6, <1>7 DEF Broker!Next

\* The rows of a cube adopted from a peer are its members, unless a later cube took one (cube-sync.js), and a node's own
\* check never takes the chain back behind a clean set a feeder handed over (canonical-feed.js).
THEOREM TakenOverSoundHolds == Spec => []TakenOverSound
<1>1. SyncInv /\ FeedInv => TakenOverSound
  BY DEF SyncInv, FeedInv, TakenOverSound
<1> QED
  BY <1>1, PeersPart, SyncInit, SyncNext, BrokerPart, FeedInit, FeedNext, PTL

----------------------------------------------------------------------------
(* The instance of the run.                                                *)

SameNumber == [c \in Cube |-> {c}]
AllAtFirst == (p :> Cube) @@ (q :> {})
=============================================================================
