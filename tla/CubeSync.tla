------------------------------ MODULE CubeSync ------------------------------
(***************************************************************************)
(* Catching up on missed cubes (cube-sync-manager.js, cube-sync.js): nodes *)
(* advertise a digest of the cubes they hold, ask for the list where the   *)
(* digests differ, request cubes they miss, a few at a time, and adopt an  *)
(* answer only if it recomputes to the id it claims.                       *)
(*                                                                         *)
(* A cube is its id, a natural number, and Members gives its blocks. A     *)
(* digest of a set of cubes is the set. A payload is the set of blocks it  *)
(* carries. Messages are flooded to every other node, in order, and may be *)
(* lost; a digest, list or question for it that is still on its way is not *)
(* kept twice.                                                             *)
(***************************************************************************)
EXTENDS Naturals, FiniteSets, Sequences, SequencesExt

CONSTANTS
  Node,
  Cube,          \* cube ids, naturals
  Block,
  Members,       \* Members[c]: the blocks cube c is the hash of
  Held0,         \* Held0[n]: the cubes a node starts with
  Unnamed,       \* cubes whose rows at their holder name no cube (not backfilled)
  Corrupt,       \* pairs <<n, c>>: the rows of c at n do not hash to it
  MaxInFlight,   \* XCS_SYNC_MAX_INFLIGHT
  MaxAttempts,   \* XCS_SYNC_MAX_ATTEMPTS
  MaxLoss,       \* bound: lost messages
  MaxRestart     \* bound: restarts

VARIABLES
  held,      \* cube: rows of each node
  located,   \* location.cubeIndex of each block row, NoCube without one
  pending,   \* _pending: the ids asked for and not answered
  failed,    \* _unservable: how often a request for an id expired
  net, losses, restarts

syncVars == <<held, located, pending, failed, net, losses, restarts>>

NoCube == 0
Others(n) == Node \ {n}
Least(a, b) == IF a < b THEN a ELSE b

Init ==
  /\ held = Held0
  /\ located = [n \in Node |-> [b \in Block |->
       IF \E c \in Held0[n] \ Unnamed : b \in Members[c]
       THEN CHOOSE c \in Held0[n] \ Unnamed : b \in Members[c] ELSE NoCube]]
  /\ pending = [n \in Node |-> {}]
  /\ failed = [n \in Node |-> [c \in Cube |-> 0]]
  /\ net = [n \in Node |-> <<>>] /\ losses = 0 /\ restarts = 0

\* _pub: the messages B, one copy of each to every other node.
NotWaiting(q, B) == {b \in B : b.kind \in {"digest", "ask", "list"} => ~Contains(q, b)}
Flood(q, n, B) == [m \in Node |-> IF m = n THEN q[m] ELSE q[m] \o SetToSeq(NotWaiting(q[m], B))]
Taken(n) == [net EXCEPT ![n] = Tail(@)]
Hears(n, kind) == net[n] # <<>> /\ Head(net[n]).kind = kind

\* Mutant of Expired: a request never expires.
NotExpired(n, E) == UNCHANGED <<pending, failed>>

\* _expirePending, when the time of the requests E is up.
Expired(n, E) ==
  /\ pending' = [pending EXCEPT ![n] = @ \ E]
  /\ failed' = [failed EXCEPT ![n] = [c \in Cube |-> IF c \in E THEN @[c] + 1 ELSE @[c]]]

\* advertise, on a timer.
Advertise(n, E) ==
  /\ Expired(n, E)
  /\ net' = Flood(net, n, {[kind |-> "digest", cubes |-> held[n]]})
  /\ UNCHANGED <<held, located, losses, restarts>>

\* _onDigest: equal sets need nothing, otherwise the list is asked for.
OnDigest(n) ==
  /\ Hears(n, "digest")
  /\ net' = Flood(Taken(n), n, {[kind |-> "ask"] : x \in {held[n]} \ {Head(net[n]).cubes}})
  /\ UNCHANGED <<held, located, pending, failed, losses, restarts>>

\* _onList, someone asks: whoever hears it serves its list.
ServeList(n) ==
  /\ Hears(n, "ask")
  /\ net' = Flood(Taken(n), n, {[kind |-> "list", cubes |-> held[n]]})
  /\ UNCHANGED <<held, located, pending, failed, losses, restarts>>

\* diffWanted: the lowest ids, at least one of them whatever the number of free slots.
diffWanted(pool, slots) ==
  LET n == IF slots < 1 THEN 1 ELSE slots
  IN  {c \in pool : Cardinality({d \in pool : d < c}) < n}

\* Mutant of Wanted: ids whose requests keep expiring come first.
WantedAny(n, E, list) ==
  LET left == pending[n] \ E
  IN  diffWanted(list \ held[n], MaxInFlight - Least(MaxInFlight, Cardinality(left))) \ left

\* Ids never tried come first, then those that have not failed too often.
Wanted(n, E, list) ==
  LET left    == pending[n] \ E
      tries   == [c \in Cube |-> IF c \in E THEN failed[n][c] + 1 ELSE failed[n][c]]
      missing == list \ held[n]
      fresh   == {c \in missing : tries[c] = 0}
      retry   == {c \in missing : tries[c] < MaxAttempts}
      slots   == MaxInFlight - Least(MaxInFlight, Cardinality(left))
  IN  diffWanted(IF fresh # {} THEN fresh ELSE retry, slots) \ left

\* _onList, a list arrives: request what is wanted.
OnList(n, E) ==
  LET W == Wanted(n, E, Head(net[n]).cubes)
  IN  /\ Hears(n, "list")
      /\ pending' = [pending EXCEPT ![n] = (@ \ E) \cup W]
      /\ failed' = [failed EXCEPT ![n] = [c \in Cube |-> IF c \in E THEN @[c] + 1 ELSE @[c]]]
      /\ net' = Flood(Taken(n), n, {[kind |-> "request", id |-> c] : c \in W})
      /\ UNCHANGED <<held, located, losses, restarts>>

\* buildPayload: the blocks whose rows name the cube; all of them or nothing.
Payload(n, c) == {b \in Block : located[n][b] = c}
Sent(n, c) == IF <<n, c>> \in Corrupt THEN {} ELSE Payload(n, c)

\* _onCube, a request: serve the cube if its members can be named.
ServeCube(n) ==
  LET c == Head(net[n]).id
      answer == [kind |-> "cube", id |-> c, blocks |-> Sent(n, c)]
  IN  /\ Hears(n, "request")
      /\ net' = Flood(Taken(n), n, {answer : x \in {Cardinality(Payload(n, c))} \cap {Cardinality(Members[c])}})
      /\ UNCHANGED <<held, located, pending, failed, losses, restarts>>

\* verifyCube: the payload recomputes to the id that was asked for.
verifyCube(c, blocks) == blocks = Members[c]

\* Mutant of OnCube: the cube's record is written and the rows of its members are not.
OnCubeRecordOnly(n) ==
  LET c == Head(net[n]).id
  IN  /\ Hears(n, "cube")
      /\ net' = Taken(n)
      /\ pending' = [pending EXCEPT ![n] = @ \ {c}]
      /\ held' = [held EXCEPT ![n] = @ \cup {c}]
      /\ UNCHANGED <<located, failed, losses, restarts>>

\* _onCube, an answer: the slot is freed, and a cube that verifies and is not held is adopted.
OnCube(n) ==
  LET c    == Head(net[n]).id
      B    == Head(net[n]).blocks
      take == verifyCube(c, B) /\ c \notin held[n]
  IN  /\ Hears(n, "cube")
      /\ net' = Taken(n)
      /\ pending' = [pending EXCEPT ![n] = @ \ {c}]
      /\ held' = [held EXCEPT ![n] = IF take THEN @ \cup {c} ELSE @]
      /\ located' = [located EXCEPT ![n] = [b \in Block |-> IF take /\ b \in B THEN c ELSE @[b]]]
      /\ UNCHANGED <<failed, losses, restarts>>

Lose(n) ==
  /\ net[n] # <<>>
  /\ losses < MaxLoss
  /\ losses' = losses + 1
  /\ net' = Taken(n)
  /\ UNCHANGED <<held, located, pending, failed, restarts>>

\* A restart: what was asked for and what failed is forgotten.
Restart(n) ==
  /\ restarts < MaxRestart
  /\ restarts' = restarts + 1
  /\ pending' = [pending EXCEPT ![n] = {}]
  /\ failed' = [failed EXCEPT ![n] = [c \in Cube |-> 0]]
  /\ UNCHANGED <<held, located, net, losses>>

Deliver(n) ==
  \/ OnDigest(n) \/ ServeList(n) \/ ServeCube(n) \/ OnCube(n)
  \/ \E E \in SUBSET pending[n] : OnList(n, E)

Next ==
  \E n \in Node :
    \/ \E E \in SUBSET pending[n] : Advertise(n, E)
    \/ Deliver(n) \/ Lose(n)
    \/ Restart(n)

\* The timer fires for ever, in the end after every open request's time is up; messages are
\* delivered, unless they are lost.
SyncSpec ==
  /\ Init /\ [][Next]_syncVars
  /\ \A n \in Node : WF_syncVars(Advertise(n, pending[n])) /\ WF_syncVars(Deliver(n))

----------------------------------------------------------------------------
TypeOK ==
  /\ held \in [Node -> SUBSET Cube] /\ located \in [Node -> [Block -> Cube \cup {NoCube}]]
  /\ pending \in [Node -> SUBSET Cube] /\ failed \in [Node -> [Cube -> 0 .. MaxAttempts]]

\* "cubes are SELF-CERTIFYING": the rows of an adopted cube are its members, unless a later cube took
\* one of them.
AdoptedWhole ==
  \A n \in Node : \A c \in held[n] \ Held0[n] : \A b \in Members[c] :
    located[n][b] = c \/ b \in UNION {Members[d] : d \in held[n] \ {c}}

\* A cube that some node can serve is in the end held by every node, whatever else cannot be served.
Servable == {c \in Cube : \E n \in Node : c \in Held0[n] \ Unnamed /\ <<n, c>> \notin Corrupt}
Converges == \A n \in Node : \A c \in Servable : <>(c \in held[n])

=============================================================================
