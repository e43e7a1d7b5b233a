------------------------------- MODULE Network -------------------------------
(***************************************************************************)
(* How a node joins the mesh and stays in it: the one dialer over the      *)
(* addresses it was given and the peers it met before (discovery.js), the  *)
(* address book on disk (peer-cache.js), what the node does with libp2p's  *)
(* events and the connections it tracks (node.js, connection.js).          *)
(* A peer is the box at an address with the key it has now.                *)
(***************************************************************************)
EXTENDS Integers, Sequences, FiniteSets

CONSTANTS
  Box,              \* addresses, each of one box
  Self,             \* the address in everyone's list that is this node
  Given,            \* bootstrap_peers: addresses that name the first key of their box
  Target, MaxConnections, MaxFailures, BookMax,
  Rekeyed, MaxKey, MaxDeaths    \* boxes that get a new key, keys of one, deaths of this node

VARIABLES
  keyOf, up,        \* per box: its key, and whether it answers
  nodeUp,
  held,             \* lib.getPeers: peers a connection is open to
  connections,      \* ConnectionManager: peer ids
  connecting,       \* the peer connect() is about to record, after its 100 ms
  addrs, resolved,  \* join: given addresses left, and the id that answered at one
  pending,          \* dials in flight, of at most two rounds
  book,             \* PeerCache.peers, most recent first
  file, prev, saveAt,   \* known-peers.json, .prev, and where save() is
  saved,            \* history: a save has ended
  lateConnect,      \* history: connect() recorded a peer that had left in the meantime
  deaths

netVars == <<keyOf, up, nodeUp, held, connections, connecting, addrs, resolved, pending, book, file, prev, saveAt,
             saved, lateConnect, deaths>>

None == [box |-> "none", key |-> 0]
Peer(b) == [box |-> b, key |-> keyOf[b]]
Other == Box \ {Self}
Torn == [whole |-> FALSE, peers |-> <<>>]
Whole(p) == [whole |-> TRUE, peers |-> p]
\* join skips an address that names this node by the id it has; one with the id before a re-key stays.
NotMine == {b \in Given : b # Self \/ keyOf[Self] # 1}

Init ==
  /\ keyOf \in {[b \in Box |-> 1], [b \in Box |-> IF b = Self THEN 2 ELSE 1]} /\ up = [b \in Other |-> TRUE]
  /\ nodeUp = TRUE /\ held = {} /\ connections = {} /\ connecting = None
  /\ addrs = NotMine /\ resolved = [b \in Given |-> None] /\ pending = {}
  /\ book = <<>> /\ file = Torn /\ prev = Torn /\ saveAt = "idle"
  /\ saved = FALSE /\ lateConnect = FALSE /\ deaths = 0

----------------------------------------------------------------------------
\* The book.
Drop(bk, p) == SelectSeq(bk, LAMBDA e : e.peer # p)
\* record and _trim: the newest first, at most BookMax.
Recorded(bk, p) == LET n == <<[peer |-> p, failures |-> 0]>> \o Drop(bk, p) IN SubSeq(n, 1, IF Len(n) < BookMax THEN Len(n) ELSE BookMax)
\* failed: an eviction at the limit.
Failed(bk, p) ==
  SelectSeq([i \in DOMAIN bk |-> IF bk[i].peer = p THEN [bk[i] EXCEPT !.failures = @ + 1] ELSE bk[i]],
            LAMBDA e : e.failures < MaxFailures)
InBook(p) == \E i \in DOMAIN book : book[i].peer = p

----------------------------------------------------------------------------
Dies ==
  /\ nodeUp' = FALSE /\ deaths' = deaths + 1
  /\ held' = {} /\ connections' = {} /\ connecting' = None /\ pending' = {}
  /\ saveAt' = "idle"

\* A connection to p opens: peer:connect when it is the first. addConnection throws at the limit, out of an
\* event listener, and the process ends on the uncaught exception.
Opens(p) ==
  IF p \notin held /\ Cardinality(connections) >= MaxConnections
  THEN deaths < MaxDeaths /\ Dies
  ELSE /\ held' = held \cup {p} /\ connections' = IF p \in held THEN connections ELSE connections \cup {p}
       /\ UNCHANGED <<nodeUp, connecting, deaths, saveAt>>

\* round: below the target, every given address and every remembered peer that is not held.
FromGiven == {[box |-> b, id |-> IF resolved[b] # None THEN resolved[b] ELSE [box |-> b, key |-> 1], given |-> TRUE] : b \in addrs}
Learned == {[box |-> book[i].peer.box, id |-> book[i].peer, given |-> FALSE] : i \in 1 .. (IF Len(book) < 2 * Target THEN Len(book) ELSE 2 * Target)}
Candidates ==
  LET g == {t \in FromGiven : t.id \notin held}
  IN  g \cup {t \in Learned : t.id \notin held /\ ~\E x \in g : x.id = t.id}

Busy == ~nodeUp \/ saveAt # "idle"
Round ==
  /\ ~Busy /\ Cardinality(held) < Target /\ Candidates # {} /\ pending = {}
  /\ pending' = Candidates
  /\ UNCHANGED <<keyOf, up, nodeUp, held, connections, connecting, addrs, resolved, book, file, prev, saveAt,
                 saved, lateConnect, deaths>>

\* Mutant: an address that answers under another key is given up.
DialsAgainNot(t) == t.id.key = keyOf[t.box]
\* dialAt: an address that answers under another key is dialed again without the id.
DialsAgain(t) == TRUE

\* The dial of t is answered by whoever is at the address now.
Answered(t) ==
  /\ ~Busy /\ t \in pending /\ t.box # Self /\ up[t.box] /\ DialsAgain(t)
  /\ Opens(Peer(t.box))
  /\ IF nodeUp'
     THEN /\ pending' = pending \ {t}
          /\ resolved' = IF t.given /\ t.id # Peer(t.box) THEN [resolved EXCEPT ![t.box] = Peer(t.box)] ELSE resolved
          /\ book' = LET r == Recorded(book, Peer(t.box)) IN IF ~t.given /\ t.id # Peer(t.box) THEN Drop(r, t.id) ELSE r
     ELSE UNCHANGED <<resolved, book>>
  /\ UNCHANGED <<keyOf, up, addrs, file, prev, saved, lateConnect>>

\* Mutant: a given address that fails is dropped.
GivenLeftNone(t) == IF t.given THEN addrs \ {t.box} ELSE addrs
\* A given address stays, however often it fails.
GivenLeft(t) == addrs

\* No answer: a remembered peer counts a failure.
NotAnswered(t) ==
  /\ ~Busy /\ t \in pending /\ t.box # Self /\ ~(up[t.box] /\ DialsAgain(t))
  /\ pending' = pending \ {t}
  /\ book' = IF t.given THEN book ELSE Failed(book, t.id)
  /\ addrs' = GivenLeft(t)
  /\ UNCHANGED <<keyOf, up, nodeUp, held, connections, connecting, resolved, file, prev, saveAt, saved,
                 lateConnect, deaths>>

\* isSelfDial: the address is this node under its old id, and is dropped for good.
SelfDialed(t) ==
  /\ ~Busy /\ t \in pending /\ t.box = Self
  /\ pending' = pending \ {t} /\ addrs' = addrs \ {Self}
  /\ UNCHANGED <<keyOf, up, nodeUp, held, connections, connecting, resolved, book, file, prev, saveAt, saved,
                 lateConnect, deaths>>

\* peer:discovery: a peer is dialed by its id, unless its connection is tracked; dials in flight are merged.
Discovered(b) ==
  /\ ~Busy /\ Peer(b) \notin connections /\ up[b]
  /\ Opens(Peer(b))
  /\ IF nodeUp' THEN book' = Recorded(book, Peer(b)) /\ UNCHANGED pending ELSE UNCHANGED book
  /\ UNCHANGED <<keyOf, up, addrs, resolved, file, prev, saved, lateConnect>>

\* A peer dials this node, and identify names its addresses.
Inbound(b) ==
  /\ ~Busy /\ up[b] /\ Peer(b) \notin held
  /\ Opens(Peer(b))
  /\ book' = IF nodeUp' THEN Recorded(book, Peer(b)) ELSE book
  /\ IF nodeUp' THEN UNCHANGED pending ELSE TRUE
  /\ UNCHANGED <<keyOf, up, addrs, resolved, file, prev, saved, lateConnect>>

\* connect: the dial, and 100 ms later the record, which throws to the caller at the limit.
Connect(b) ==
  /\ ~Busy /\ connecting = None /\ up[b]
  /\ \/ /\ Peer(b) \notin held /\ Cardinality(connections) >= MaxConnections
        /\ deaths < MaxDeaths /\ Dies /\ UNCHANGED book
     \/ /\ Peer(b) \in held \/ Cardinality(connections) < MaxConnections
        /\ held' = held \cup {Peer(b)} /\ connections' = IF Peer(b) \in held THEN connections ELSE connections \cup {Peer(b)}
        /\ connecting' = Peer(b) /\ book' = Recorded(book, Peer(b))
        /\ UNCHANGED <<nodeUp, pending, saveAt, deaths>>
  /\ UNCHANGED <<keyOf, up, addrs, resolved, file, prev, saved, lateConnect>>
Connected ==
  /\ ~Busy /\ connecting # None
  /\ connecting' = None
  /\ connections' = IF Cardinality(connections) < MaxConnections THEN connections \cup {connecting} ELSE connections
  /\ lateConnect' = (lateConnect \/ connecting \notin held)
  /\ UNCHANGED <<keyOf, up, nodeUp, held, addrs, resolved, pending, book, file, prev, saveAt, saved, deaths>>

\* A box goes away (peer:disconnect removes the connection), comes back, or comes back re-keyed.
Leaves(b) ==
  /\ ~Busy /\ up[b] /\ up' = [up EXCEPT ![b] = FALSE]
  /\ held' = held \ {Peer(b)} /\ connections' = IF Peer(b) \in held THEN connections \ {Peer(b)} ELSE connections
  /\ UNCHANGED <<keyOf, nodeUp, connecting, addrs, resolved, pending, book, file, prev, saveAt, saved,
                 lateConnect, deaths>>
Returns(b, k) ==
  /\ ~Busy /\ ~up[b] /\ k \in {keyOf[b], keyOf[b] + 1} /\ (k > 1 => b \in Rekeyed)
  /\ up' = [up EXCEPT ![b] = TRUE] /\ keyOf' = [keyOf EXCEPT ![b] = k]
  /\ UNCHANGED <<nodeUp, held, connections, connecting, addrs, resolved, pending, book, file, prev, saveAt,
                 saved, lateConnect, deaths>>

----------------------------------------------------------------------------
\* save: write the temporary file, rotate the good one, rename. One synchronous call, cut only by a death.
SaveTmp ==
  /\ ~Busy /\ file # Whole(book)
  /\ saveAt' = "tmp"
  /\ UNCHANGED <<keyOf, up, nodeUp, held, connections, connecting, addrs, resolved, pending, book, file, prev,
                 saved, lateConnect, deaths>>
Rotate ==
  /\ nodeUp /\ saveAt \in {"tmp", "rotating"}
  /\ prev' = IF ~saved THEN prev ELSE IF saveAt = "tmp" THEN Torn ELSE file     \* the first save has nothing to keep
  /\ saveAt' = IF saveAt = "tmp" /\ saved THEN "rotating" ELSE "rotated"
  /\ UNCHANGED <<keyOf, up, nodeUp, held, connections, connecting, addrs, resolved, pending, book, file, saved,
                 lateConnect, deaths>>
\* Mutant: the file is written in place.
RenameTorn == file' = (IF saveAt = "rotated" THEN Torn ELSE Whole(book)) /\ saveAt' = IF saveAt = "rotated" THEN "writing" ELSE "idle"
Renamed == file' = Whole(book) /\ saveAt' = "idle"
Rename ==
  /\ nodeUp /\ saveAt \in {"rotated", "writing"}
  /\ Renamed
  /\ saved' = (saved \/ saveAt' = "idle")
  /\ UNCHANGED <<keyOf, up, nodeUp, held, connections, connecting, addrs, resolved, pending, book, prev,
                 lateConnect, deaths>>

Death ==
  /\ nodeUp /\ deaths < MaxDeaths /\ Dies
  /\ UNCHANGED <<keyOf, up, addrs, resolved, book, file, prev, saved, lateConnect>>

\* load: the file, or the copy before it, or nothing; join starts over.
Boot ==
  /\ ~nodeUp /\ nodeUp' = TRUE
  /\ book' = IF file.whole THEN file.peers ELSE IF prev.whole THEN prev.peers ELSE <<>>
  /\ addrs' = NotMine /\ resolved' = [b \in Given |-> None] /\ lateConnect' = FALSE
  /\ UNCHANGED <<keyOf, up, held, connections, connecting, pending, file, prev, saveAt, saved, deaths>>

Next == \/ Round \/ (\E t \in pending : Answered(t) \/ NotAnswered(t) \/ SelfDialed(t))
        \/ \E b \in Other : Discovered(b) \/ Inbound(b) \/ Connect(b) \/ Leaves(b) \/ \E k \in 1 .. MaxKey : Returns(b, k)
        \/ Connected \/ SaveTmp \/ Rotate \/ Rename \/ Death \/ Boot

NetSpec == Init /\ [][Next]_netVars

----------------------------------------------------------------------------
\* "a crash at any point leaves at least one complete cache on disk": a node that saved its book once
\* never boots with an empty one.
BookSurvives == saved => file.whole \/ prev.whole

\* "the dialing does not stop, so a peer that comes back is still reached": a node below its target has
\* every given box it does not hold among its candidates, under the key it has now or one it had.
StillDialing ==
  nodeUp => \A b \in Given \ {Self} : \/ \E p \in held : p.box = b
                                      \/ \E t \in Candidates : t.box = b

\* What the node tracks is what it holds, so a peer that left is dialed again when it is discovered;
\* except for a record that connect() made after the peer had left.
Tracked == lateConnect \/ connections = held
=============================================================================
