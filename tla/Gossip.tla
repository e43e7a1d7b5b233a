-------------------------------- MODULE Gossip --------------------------------
(***************************************************************************)
(* A validator's reports on their way to its peers: the outbox that joins  *)
(* messages into one batch when every live peer reads batches (gossip.js), *)
(* the presence it is judged by, the report that comes before its tx, the  *)
(* retry that sends the stored report again (validation-retry.js), and     *)
(* the restart that keeps the tasks and forgets the reports (the wiring    *)
(* of core/index.js, validation-worker.js).                                *)
(***************************************************************************)
EXTENDS Integers, FiniteSets

CONSTANTS
  Peer, Tx,
  Old,          \* peers on the release before batches: they ignore a message type they do not know
  MaxTs,        \* timestamps the validator may mint
  MaxRetries,   \* of one tx
  MaxStarts, MaxEvict

VARIABLES
  caps,         \* peerRegistry: peers whose presence was heard, with what it said
  batchOk,      \* the answer canBatch keeps for a second
  task,         \* the validator's task of each tx: "none", "open", "complete" (on disk)
  ingested,     \* _ingested: txs taken since the start
  claimed,      \* ValidationWorker.claimed
  minted,       \* timestamps used
  myReports,    \* _myReports: the stored report, 0 for none
  retries,      \* _retryAttempts
  outbox,       \* messages waiting for the flush
  wire,         \* messages in flight, one per receiver; one that is never delivered is lost
  hasTx, pendingReports, counted,   \* per peer: txs known, reports before their tx, reports counted
  starts, evictions,
  exposed,      \* history: batches were allowed while a peer that cannot read them was not heard from
  remade        \* history: txs whose task was made again after the tx left the pool

gossipVars == <<caps, batchOk, task, ingested, claimed, minted, myReports, retries, outbox, wire, hasTx, pendingReports, counted,
                starts, evictions, exposed, remade>>

PerTx(v) == [t \in Tx |-> v]
release(p) == IF p \in Old THEN "old" ELSE "new"
PerPeer(v) == [p \in Peer |-> v]
Raw(t) == [kind |-> "raw_tx", tx |-> t, ts |-> 0]
Rep(t, ts) == [kind |-> "validation_report", tx |-> t, ts |-> ts]

Init ==
  /\ caps = PerPeer("unheard") /\ batchOk = FALSE
  /\ task = PerTx("none") /\ ingested = {} /\ claimed = {} /\ minted = 0 /\ myReports = PerTx(0) /\ retries = PerTx(0)
  /\ outbox = {} /\ wire = {}
  /\ hasTx = PerPeer({}) /\ pendingReports = PerPeer(PerTx(0)) /\ counted = PerPeer(PerTx(0))
  /\ starts = 0 /\ evictions = 0 /\ exposed = FALSE /\ remade = {}

\* Mutant: one peer that reads batches is enough.
everyLivePeerHasOne == \E p \in Peer : caps[p] = "new"
\* everyLivePeerHas: at least one peer heard from inside the TTL, and all of them read batches.
everyLivePeerHas == /\ \E p \in Peer : caps[p] # "unheard"
                    /\ \A p \in Peer : caps[p] # "old"

\* canBatch asks the registry again after a second.
CanBatch ==
  /\ batchOk # everyLivePeerHas /\ batchOk' = everyLivePeerHas
  /\ exposed' = (exposed \/ (batchOk' /\ \E p \in Old : caps[p] = "unheard"))
  /\ UNCHANGED <<caps, task, ingested, claimed, minted, myReports, retries, outbox, wire, hasTx, pendingReports, counted, starts,
                 evictions, remade>>

\* A presence arrives, or the last one is older than the TTL.
Presence(p) ==
  /\ caps' = [caps EXCEPT ![p] = IF @ = "unheard" THEN release(p) ELSE "unheard"] /\ caps' # caps
  /\ UNCHANGED <<batchOk, task, ingested, claimed, minted, myReports, retries, outbox, wire, hasTx, pendingReports, counted,
                 starts, evictions, exposed, remade>>

----------------------------------------------------------------------------
Sent(items) == {[to |-> p, items |-> items] : p \in Peer}
\* flush: one message alone, several as a batch.
Flushed(items) == IF items = {} THEN {} ELSE Sent(items)

\* _publish and _enqueue: wait in the outbox, or go out alone; a full outbox goes out first.
Publish(items) ==
  IF batchOk
  THEN /\ outbox' = outbox \cup items /\ UNCHANGED wire
  ELSE /\ wire' = wire \cup UNION {Sent({m}) : m \in items} /\ UNCHANGED outbox

Flush ==
  /\ outbox # {}
  /\ wire' = wire \cup Flushed(outbox)
  /\ outbox' = {}
  /\ UNCHANGED <<caps, batchOk, task, ingested, claimed, minted, myReports, retries, hasTx, pendingReports, counted, starts,
                 evictions, exposed, remade>>

----------------------------------------------------------------------------
\* The tx reaches the validator, and some of its peers on their own; one already taken is dropped.
Ingest(t, S) ==
  /\ task[t] = "none" /\ t \notin ingested
  /\ ingested' = ingested \cup {t} /\ task' = [task EXCEPT ![t] = "open"]
  /\ hasTx' = [p \in Peer |-> IF p \in S THEN hasTx[p] \cup {t} ELSE hasTx[p]]
  /\ UNCHANGED <<caps, batchOk, claimed, minted, myReports, retries, outbox, wire, pendingReports, counted, starts,
                 evictions, exposed, remade>>

\* _runCheckAndReport: the timestamp is minted once, the task completed, the report stored and published.
Validate(t) ==
  /\ task[t] = "open" /\ t \notin claimed /\ minted < MaxTs
  /\ claimed' = claimed \cup {t} /\ minted' = minted + 1
  /\ task' = [task EXCEPT ![t] = "complete"]
  /\ myReports' = [myReports EXCEPT ![t] = minted + 1]
  /\ Publish({Rep(t, minted + 1)})
  /\ UNCHANGED <<caps, batchOk, ingested, retries, hasTx, pendingReports, counted, starts, evictions, exposed, remade>>

\* Mutant: the retry validates again.
ReattestMints(t) == IF myReports[t] > 0 THEN {Rep(t, minted + 1)} ELSE {}
\* runValidationRetryTick (2): our stored report, verbatim, when we have one.
Reattest(t) == IF myReports[t] > 0 THEN {Rep(t, myReports[t])} ELSE {}
Retry(t) ==
  /\ task[t] # "none" /\ retries[t] < MaxRetries
  /\ retries' = [retries EXCEPT ![t] = @ + 1]
  /\ Publish({Raw(t)} \cup Reattest(t))
  /\ UNCHANGED <<caps, batchOk, task, ingested, claimed, minted, myReports, hasTx, pendingReports, counted, starts, evictions, exposed, remade>>

\* The tx leaves the pool (sealed or swept): its task goes, and the claim with it at the next prune;
\* the retry's bookkeeping is pruned.
Evict(t) ==
  /\ task[t] # "none" /\ evictions < MaxEvict /\ evictions' = evictions + 1
  /\ task' = [task EXCEPT ![t] = "none"] /\ claimed' = claimed \ {t}
  /\ myReports' = [myReports EXCEPT ![t] = 0] /\ retries' = [retries EXCEPT ![t] = 0]
  /\ remade' = remade \cup {t}
  /\ UNCHANGED <<caps, batchOk, ingested, minted, outbox, wire, hasTx, pendingReports, counted, starts, exposed>>

\* The tasks come back from disk; reports, retries, the registry and the outbox do not.
Restart ==
  /\ starts < MaxStarts /\ starts' = starts + 1
  /\ caps' = PerPeer("unheard") /\ batchOk' = FALSE
  /\ ingested' = {} /\ claimed' = {} /\ myReports' = PerTx(0) /\ retries' = PerTx(0) /\ outbox' = {}
  /\ UNCHANGED <<task, minted, wire, hasTx, pendingReports, counted, evictions, exposed, remade>>

----------------------------------------------------------------------------
\* _handleMessage: an old peer does not know a batch; each item is handled as if it had come alone.
Read(m) == IF release(m.to) = "old" /\ Cardinality(m.items) > 1 THEN {} ELSE m.items

\* raw_tx:received flushes the reports that came first; a report is counted once per validator.
Deliver(m) ==
  /\ wire' = wire \ {m}
  /\ LET p == m.to
         R == Read(m)
         known == hasTx[p] \cup {i.tx : i \in {x \in R : x.kind = "raw_tx"}}
         reports == [t \in Tx |-> {i.ts : i \in {x \in R : x.kind = "validation_report" /\ x.tx = t}}]
     IN  /\ hasTx' = [hasTx EXCEPT ![p] = known]
         /\ counted' = [counted EXCEPT ![p] =
              [t \in Tx |-> IF @[t] > 0 \/ t \notin known THEN @[t]
                            ELSE IF pendingReports[p][t] > 0 THEN pendingReports[p][t]
                            ELSE IF reports[t] # {} THEN CHOOSE ts \in reports[t] : TRUE ELSE 0]]
         /\ pendingReports' = [pendingReports EXCEPT ![p] =
              [t \in Tx |-> IF t \in known THEN 0
                            ELSE IF @[t] = 0 /\ reports[t] # {} THEN CHOOSE ts \in reports[t] : TRUE ELSE @[t]]]
  /\ UNCHANGED <<caps, batchOk, task, ingested, claimed, minted, myReports, retries, outbox, starts, evictions, exposed, remade>>

Next == \/ CanBatch \/ Flush \/ Restart \/ (\E p \in Peer : Presence(p))
        \/ \E t \in Tx : Validate(t) \/ Retry(t) \/ Evict(t) \/ \E S \in SUBSET Peer : Ingest(t, S)
        \/ \E m \in wire : Deliver(m)

GossipSpec == Init /\ [][Next]_gossipVars

----------------------------------------------------------------------------
\* "NEVER a fresh Date.now()": whatever is lost, retried or delivered out of order, and across restarts,
\* every peer counts one timestamp of this validator for a tx; except for a tx that left the pool and
\* whose task was made again.
OneTimestamp ==
  \A t \in Tx \ remade : \A p, q \in Peer : counted[p][t] > 0 /\ counted[q][t] > 0 => counted[p][t] = counted[q][t]

\* "a node still on the previous release ... would lose every tx and report in it": a peer that cannot
\* read a batch is sent none, except when it had not been heard from when batching was decided.
ReadableBatches == (\E m \in wire : Read(m) # m.items) => exposed
=============================================================================
