--------------------------- MODULE CacheAndLimiter ---------------------------
(***************************************************************************)
(* Bounded tables.  Two of the core package.  core/cache.js: a map whose   *)
(* entries expire, with the list of keys from least to most recently used  *)
(* beside it, which get, set, delete, cleanup and the eviction each        *)
(* change.  core/rate-limiter.js: a bucket for each client that is filled  *)
(* again when its time has passed, and a cleanup that drops the ones that  *)
(* are over.  And the ingress guard of consensus/workflow.js, which counts *)
(* what a peer relays in a window that starts with its first transaction.  *)
(* They share nothing but the histories of what was granted and refused,   *)
(* and each has an Init and a Next.                                        *)
(***************************************************************************)
EXTENDS Naturals, Sequences, FiniteSets

CONSTANTS
  Key, Value,
  MaxSize,       \* options.maxSize
  Ttls,          \* times to live that callers give
  MaxNow, MaxTouch,
  Client,
  MaxRequests, WindowMs,
  MaxClock, MaxCalls

VARIABLES
  now,
  entry,         \* the map: key -> [value, expires]
  accessOrder,
  touch,         \* history: how many uses there were
  usedAt,        \* history: key -> the number of its last use
  written,       \* history: key -> what set() wrote last and until when
  got,           \* history: the last answer of get was what set() wrote last, and in time
  clock,
  buckets,       \* Client -> [tokens, resetTime]; Unknown when there is none
  granted,       \* history: Client -> the times of what was allowed
  refusedAt,     \* history: Client -> the times of what was refused
  junkCounts,    \* _junkCounts: Client -> [start, count, told]; NoCount when there is none
  throttled      \* history: Client -> the times 'submitter:throttled' was emitted

cacheVars == <<now, entry, accessOrder, touch, usedAt, written, got>>

Written(k, v) == v = written[k].value /\ now <= written[k].expires
CacheInit ==
  /\ now = 0 /\ entry = <<>> /\ accessOrder = <<>> /\ touch = 0
  /\ usedAt = [k \in Key |-> 0] /\ written = [k \in Key |-> [value |-> 0, expires |-> 0]] /\ got = TRUE

Keys == DOMAIN entry
Without(f, K) == [k \in DOMAIN f \ K |-> f[k]]
Expired(k) == now > entry[k].expires

\* Mutant: delete forgets the value but not its place in the order.
UnlistedKept(order, K) == order
\* Spliced out: what is left closes up in its order.
Left(order, K) == {i \in 1..Len(order) : order[i] \notin K}
Unlisted(order, K) ==
  [n \in 1..Cardinality(Left(order, K)) |->
     order[CHOOSE i \in Left(order, K) : Cardinality({j \in Left(order, K) : j < i}) = n - 1]]
\* _updateAccessOrder
Moved(order, k) == Append(Unlisted(order, {k}), k)
Touched(k) == touch < MaxTouch /\ touch' = touch + 1 /\ usedAt' = [usedAt EXCEPT ![k] = touch + 1]

\* get: an expired entry is deleted on the way.
Get(k) ==
  /\ k \in Keys
  /\ IF Expired(k)
     THEN /\ entry' = Without(entry, {k}) /\ accessOrder' = Unlisted(accessOrder, {k})
          /\ got' = TRUE /\ UNCHANGED <<touch, usedAt>>
     ELSE /\ accessOrder' = Moved(accessOrder, k) /\ Touched(k)
          /\ got' = Written(k, entry[k].value) /\ UNCHANGED entry
  /\ UNCHANGED <<now, written>>

\* set: at capacity _evictLRU shifts the order's head, whatever has expired meanwhile.
Full(k) == Cardinality(Keys) >= MaxSize /\ k \notin Keys /\ accessOrder # <<>>
Set(k, v, ttl) ==
  LET room == IF Full(k) THEN Without(entry, {Head(accessOrder)}) ELSE entry
      order == IF Full(k) THEN Tail(accessOrder) ELSE accessOrder
      e == [value |-> v, expires |-> now + ttl]
  IN  /\ entry' = [j \in DOMAIN room \cup {k} |-> IF j = k THEN e ELSE room[j]]
      /\ accessOrder' = Moved(order, k) /\ Touched(k)
      /\ written' = [written EXCEPT ![k] = e]
      /\ UNCHANGED <<now, got>>

Delete(k) ==
  /\ entry' = Without(entry, {k}) /\ accessOrder' = Unlisted(accessOrder, {k})
  /\ UNCHANGED <<now, touch, usedAt, written, got>>

\* cleanup, over the entries while it deletes from them.
Cleanup ==
  LET gone == {k \in Keys : Expired(k)} IN
  /\ entry' = Without(entry, gone) /\ accessOrder' = Unlisted(accessOrder, gone)
  /\ UNCHANGED <<now, touch, usedAt, written, got>>

Clear == entry' = <<>> /\ accessOrder' = <<>> /\ UNCHANGED <<now, touch, usedAt, written, got>>

Pass == now < MaxNow /\ now' = now + 1 /\ UNCHANGED <<entry, accessOrder, touch, usedAt, written, got>>

CacheNext ==
  \/ Pass \/ Cleanup \/ Clear
  \/ \E k \in Key : Get(k) \/ Delete(k) \/ \E v \in Value, ttl \in Ttls : Set(k, v, ttl)

CacheSpec == CacheInit /\ [][CacheNext]_cacheVars

----------------------------------------------------------------------------
\* The map and the order agree through every operation: the same keys, each once, from the least to the most
\* recently used; so the bound holds and what an eviction takes is the least recently used entry.
OrderAgrees ==
  /\ Cardinality(Keys) <= MaxSize
  /\ {accessOrder[i] : i \in 1..Len(accessOrder)} = Keys
  /\ Len(accessOrder) = Cardinality(Keys)
  /\ \A i, j \in 1..Len(accessOrder) : i < j => usedAt[accessOrder[i]] < usedAt[accessOrder[j]]

\* get never answers with what was overwritten or had expired when it was asked.
FreshAnswer == got /\ \A k \in Keys : entry[k] = written[k]

\* The cache: the two above.
CacheSound == OrderAgrees /\ FreshAnswer

----------------------------------------------------------------------------
(* The rate limiter.                                                        *)

limitVars == <<clock, buckets, granted, refusedAt, junkCounts, throttled>>

Unknown == [tokens |-> 0, resetTime |-> 0, here |-> FALSE]
NoCount == [start |-> 0, count |-> 0, told |-> FALSE]
LimiterInit ==
  /\ clock = 1 /\ buckets = [c \in Client |-> Unknown]
  /\ junkCounts = [c \in Client |-> NoCount] /\ throttled = [c \in Client |-> {}]
  /\ granted = [c \in Client |-> <<>>] /\ refusedAt = [c \in Client |-> {}]

\* Mutant: the time of the last filling is taken for the time of the next.
OverEarly(b) == ~b.here \/ clock >= b.resetTime - WindowMs
Over(b) == ~b.here \/ clock > b.resetTime

\* isAllowed, behind rateLimitMiddleware.
Asks(c) ==
  /\ Len(granted[c]) + Cardinality(refusedAt[c]) < MaxCalls
  /\ LET b == buckets[c] IN
     \/ /\ Over(b)
        /\ buckets' = [buckets EXCEPT ![c] = [tokens |-> MaxRequests - 1, resetTime |-> clock + WindowMs, here |-> TRUE]]
        /\ granted' = [granted EXCEPT ![c] = Append(@, clock)] /\ UNCHANGED refusedAt
     \/ /\ ~Over(b) /\ b.tokens > 0
        /\ buckets' = [buckets EXCEPT ![c].tokens = @ - 1]
        /\ granted' = [granted EXCEPT ![c] = Append(@, clock)] /\ UNCHANGED refusedAt
     \/ /\ ~Over(b) /\ b.tokens = 0
        /\ refusedAt' = [refusedAt EXCEPT ![c] = @ \cup {clock}] /\ UNCHANGED <<buckets, granted>>
  /\ UNCHANGED clock

LimiterCleanup ==
  /\ buckets' = [c \in Client |-> IF Over(buckets[c]) THEN Unknown ELSE buckets[c]]
  /\ UNCHANGED <<clock, granted, refusedAt>>

LimiterPass == clock < MaxClock /\ clock' = clock + 1 /\ UNCHANGED <<buckets, granted, refusedAt>>

LimiterNext ==
  /\ LimiterPass \/ LimiterCleanup \/ \E c \in Client : Asks(c)
  /\ UNCHANGED <<junkCounts, throttled>>

LimitSpec == LimiterInit /\ [][LimiterNext]_limitVars

----------------------------------------------------------------------------
Within(c, a, b) == Cardinality({i \in 1..Len(granted[c]) : granted[c][i] \in a..b})

\* isAllowed: no interval as long as the window holds more than the end of one bucket and the whole of the
\* next one; and whoever is refused has had all of a window's requests within the window before.
LimiterSound ==
  \A c \in Client :
    /\ \A t \in 1..MaxClock : Within(c, t, t + WindowMs) <= 2 * MaxRequests - 1
    /\ \A t \in refusedAt[c] : t > WindowMs => Within(c, t - WindowMs, t) >= MaxRequests
    /\ \A t \in refusedAt[c] : t <= WindowMs => Within(c, 1, t) >= MaxRequests

----------------------------------------------------------------------------
(* The ingress guard.                                                       *)

\* The count of this window: a new one when there is none or the old one is over.
Window(c) ==
  LET e == junkCounts[c]
  IN  IF e = NoCount \/ clock - e.start > WindowMs THEN [NoCount EXCEPT !.start = clock] ELSE e

\* _admitToPool: what does not validate is refused before it is counted, what this node's own socket
\* submits is admitted without being counted, and a peer over the rate is told once in a window.
admitToPool(c, valid, local) ==
  /\ Len(granted[c]) + Cardinality(refusedAt[c]) < MaxCalls /\ junkCounts[c].count < MaxCalls
  /\ LET e == [Window(c) EXCEPT !.count = @ + 1]
         over == e.count > MaxRequests
     IN  IF ~valid \/ local THEN UNCHANGED limitVars
         ELSE /\ junkCounts' = [junkCounts EXCEPT ![c] = [e EXCEPT !.told = over]]
              /\ throttled' = IF over /\ ~e.told THEN [throttled EXCEPT ![c] = @ \cup {clock}] ELSE throttled
              /\ IF over THEN refusedAt' = [refusedAt EXCEPT ![c] = @ \cup {clock}] /\ UNCHANGED granted
                         ELSE granted' = [granted EXCEPT ![c] = Append(@, clock)] /\ UNCHANGED refusedAt
              /\ UNCHANGED <<clock, buckets>>

FloodNext ==
  \/ LimiterPass /\ UNCHANGED <<junkCounts, throttled>>
  \/ \E c \in Client, valid, local \in BOOLEAN : admitToPool(c, valid, local)

FloodSpec == LimiterInit /\ [][FloodNext]_limitVars

\* _admitToPool: a rate and never a ban.  The bounds are those of LimiterSound; a peer is told of
\* each window in which it was refused, once: between two tellings it had all of a window admitted.
FloodSound ==
  /\ LimiterSound
  /\ \A c \in Client :
       /\ \A t \in refusedAt[c] : \E u \in throttled[c] : u \in t - WindowMs .. t
       /\ \A t, u \in throttled[c] : t < u => Within(c, t + 1, u) >= MaxRequests
=============================================================================
