---------------------------- MODULE CanonicalFeed ----------------------------
(***************************************************************************)
(* canonical-feed.js: a node nobody feeds fetches the canonical set itself *)
(* and applies it through the dispatch of the control socket, one ledger   *)
(* write at a time.  Sets are the versions the broker publishes, each with *)
(* a later newest row than the one before; a fetch may return a cached     *)
(* copy.  Time is counted in check intervals.                              *)
(***************************************************************************)
EXTENDS Naturals

CONSTANTS
  MaxVersion,   \* bound on what the broker publishes
  StaleAfter,   \* staleMs in intervals, 2 in the code
  Dirty,        \* versions with untyped or rejected rows, never recorded as held
  MaxHands,     \* bound on the sets a feeder hands over
  MaxCached     \* bound on the older copies a fetch returns

VARIABLES
  brokerSet,    \* the newest version
  chainSet,     \* the version the ledger was last built from
  lastSet,      \* st.last: the version recorded as held
  fedOnce,      \* last_external_at is set
  quiet,        \* intervals since the last handed-over set or boot, up to StaleAfter
  pending,      \* the version a fed node waits with, and whether the interval is over
  etag,
  feedWrite,    \* the ledger write under way
  tick,         \* where the self-feed is
  fedSet,       \* history: the newest version a feeder handed over
  hands, cached

feedVars == <<brokerSet, chainSet, lastSet, fedOnce, quiet, pending, etag, feedWrite, tick, fedSet, hands, cached>>

Version == 1 .. MaxVersion
NoFeed == [by |-> "none", set |-> 0]
NoPending == [set |-> 0, over |-> FALSE]
AtRest == [at |-> "idle", set |-> 0]

Init ==
  /\ brokerSet = 1 /\ chainSet = 0 /\ lastSet = 0
  /\ fedOnce = FALSE /\ quiet = 0
  /\ pending = NoPending /\ etag = 0
  /\ feedWrite = NoFeed /\ tick = AtRest
  /\ fedSet = 0 /\ hands = 0 /\ cached = 0

Publish ==
  /\ brokerSet < MaxVersion
  /\ brokerSet' = brokerSet + 1
  /\ UNCHANGED <<chainSet, lastSet, fedOnce, quiet, pending, etag, feedWrite, tick, fedSet, hands, cached>>

\* An interval passes.
Elapse ==
  /\ quiet < StaleAfter \/ (pending.set # 0 /\ ~pending.over)
  /\ quiet' = IF quiet < StaleAfter THEN quiet + 1 ELSE quiet
  /\ pending' = IF pending.set # 0 THEN [pending EXCEPT !.over = TRUE] ELSE pending
  /\ UNCHANGED <<brokerSet, chainSet, lastSet, fedOnce, etag, feedWrite, tick, fedSet, hands, cached>>

\* A caller hands a set over the socket: stamped on arrival, busy when a write runs.  A feeder's own
\* copies do not go back.
Hand(v) ==
  /\ hands < MaxHands /\ hands' = hands + 1
  /\ v <= brokerSet /\ v >= fedSet /\ v >= chainSet
  /\ fedOnce' = TRUE /\ quiet' = 0
  /\ feedWrite' = IF feedWrite = NoFeed THEN [by |-> "control", set |-> v] ELSE feedWrite
  /\ fedSet' = IF feedWrite = NoFeed THEN v ELSE fedSet
  /\ UNCHANGED <<brokerSet, chainSet, lastSet, pending, etag, tick, cached>>

\* noteCanonicalApplied: only a clean result becomes the set the node holds.
Noted(v) == lastSet' = IF v \in Dirty THEN lastSet ELSE v

\* A handed-over write ends.
HandDone ==
  /\ feedWrite.by = "control"
  /\ chainSet' = feedWrite.set
  /\ Noted(feedWrite.set)
  /\ quiet' = 0
  /\ feedWrite' = NoFeed
  /\ UNCHANGED <<brokerSet, fedOnce, pending, etag, tick, fedSet, hands, cached>>

\* tick: a set handed over not long ago leaves nothing to do.
TickBegin ==
  /\ tick = AtRest
  /\ quiet >= StaleAfter
  /\ tick' = [at |-> "fetch", set |-> 0]
  /\ UNCHANGED <<brokerSet, chainSet, lastSet, fedOnce, quiet, pending, etag, feedWrite, fedSet, hands, cached>>

\* The answer: 304 for the version of the etag, otherwise a set, perhaps an older copy.
Fetch(v) ==
  /\ tick.at = "fetch"
  /\ v <= brokerSet
  /\ IF v < brokerSet THEN cached < MaxCached /\ cached' = cached + 1 ELSE UNCHANGED cached
  /\ tick' = IF v = etag THEN AtRest ELSE [at |-> "decide", set |-> v]
  /\ UNCHANGED <<brokerSet, chainSet, lastSet, fedOnce, quiet, pending, etag, feedWrite, fedSet, hands>>

\* The fetch times out or fails.
FetchFails ==
  /\ tick.at = "fetch"
  /\ tick' = AtRest
  /\ UNCHANGED <<brokerSet, chainSet, lastSet, fedOnce, quiet, pending, etag, feedWrite, fedSet, hands, cached>>

\* Mutant: an older copy is not told from an update.
IsOlderNever(v) == FALSE
IsOlder(v) == fedOnce /\ lastSet # 0 /\ v < lastSet

\* Mutant: every set fetched is remembered by its etag.
EtagSeen(v) == v
\* The etag is kept only for a set the node holds.
Etag(v) == IF v = lastSet THEN v ELSE etag

\* After the fetch, in one turn: held, older, wait for the feeder, busy, or the write.
Waits(v) == fedOnce /\ ~(pending.set = v /\ pending.over)
Decide ==
  LET v == tick.set
      skip == v = lastSet \/ IsOlder(v)
  IN  /\ tick.at = "decide"
      /\ etag' = Etag(v)
      /\ pending' = CASE v = lastSet -> NoPending
                      [] v # lastSet /\ ~skip /\ fedOnce /\ pending.set # v -> [set |-> v, over |-> FALSE]
                      [] OTHER -> pending
      /\ IF skip \/ Waits(v) \/ feedWrite # NoFeed
         THEN tick' = AtRest /\ UNCHANGED feedWrite
         ELSE /\ feedWrite' = [by |-> "self", set |-> v]
              /\ tick' = [at |-> "apply", set |-> v]
      /\ UNCHANGED <<brokerSet, chainSet, lastSet, fedOnce, quiet, fedSet, hands, cached>>

SelfDone ==
  /\ feedWrite.by = "self"
  /\ chainSet' = feedWrite.set
  /\ Noted(feedWrite.set)
  /\ IF feedWrite.set \in Dirty
     THEN UNCHANGED <<etag, pending>>
     ELSE etag' = feedWrite.set /\ pending' = NoPending
  /\ feedWrite' = NoFeed /\ tick' = AtRest
  /\ UNCHANGED <<brokerSet, fedOnce, quiet, fedSet, hands, cached>>

Next ==
  \/ Publish \/ Elapse \/ HandDone \/ TickBegin \/ FetchFails \/ Decide \/ SelfDone
  \/ \E v \in Version : Hand(v) \/ Fetch(v)

Check == TickBegin \/ Decide
WriteEnds == HandDone \/ SelfDone
Fresh == Fetch(brokerSet)

\* The timers run, a write ends, and the broker answers a check with the current set again and again.
FeedFair == WF_feedVars(Elapse) /\ WF_feedVars(Check) /\ SF_feedVars(Fresh) /\ WF_feedVars(WriteEnds)
FeedSpec == Init /\ [][Next]_feedVars /\ FeedFair

----------------------------------------------------------------------------
\* A fed node is left alone: its own check never takes the chain back behind a clean set a feeder handed
\* over, however fetches, cached copies, hand-overs and writes fall.
SelfNotBack == feedWrite.by = "self" /\ fedSet \notin Dirty => feedWrite.set >= fedSet

\* A node nobody feeds any more reaches the newest set the broker has, again and again.
CatchesUp == []<>(chainSet = brokerSet)
=============================================================================
