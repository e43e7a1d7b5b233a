------------------------------- MODULE TxQueue -------------------------------
(***************************************************************************)
(* The anchoring pipeline of cubic-ledger: activity events are filtered    *)
(* and normalised (anchoring-subscriber.js, anchoring-normalizer.js),      *)
(* appended to a log that is only ever appended to (txqueue.js), and       *)
(* drained through a submit function (tx-submitter.js).  A crash may stop  *)
(* the drain at any await and may cut the line that is being written.      *)
(***************************************************************************)
EXTENDS Naturals, Sequences

CONSTANTS
  Event,        \* activity events: [kind, status, fields], fields a function
  MaxAttempts,  \* maxAttempts of drainOnce, 5 in the code
  MaxEnqueue, MaxCrash,
  MaxLog        \* bound on the lines of the file when a drain starts

VARIABLES
  log,        \* the lines of the queue file
  open,       \* the last line is cut: it has no newline
  drain,      \* drainOnce: the entries of its snapshot still to do, the attempt, where it is
  live,       \* XMBL_TX_LIVE=1
  sent,       \* what the chain received: payload hash -> how often (external)
  enq,        \* history: payload hash -> how often an enqueue call returned
  crashes

queueVars == <<log, open, drain, live, sent, enq, crashes>>

----------------------------------------------------------------------------
(* Normalisation.                                                          *)

\* The fields each canonicalRecordFor* takes, ANCHORED_KINDS its domain.
AnchoredFields == [
  taskCreated        |-> {"id", "request_id", "goal_id", "parent_id", "title", "assignee", "created_by", "created_at"},
  taskVerified       |-> {"id", "request_id", "status", "verified_by", "updated_at"},
  settlementExecuted |-> {"id", "resource", "payTo", "amount", "asset", "network", "tx", "created_at"},
  artifactUploaded   |-> {"file_id", "name", "content_type", "bytes", "uploader_agent", "created_at"},
  socPosted          |-> {"id", "author", "text", "scope", "created_at"}]

\* canonicalRecordForTaskVerified and ...SettlementExecuted throw on any other status.
StatusAllowed(e) ==
  /\ e.kind = "taskVerified" => e.status \in {"verified", "rejected"}
  /\ e.kind = "settlementExecuted" => e.status = "settled"

\* jcsCanonicalize: keys sorted, undefined ones left out, so a record is its function of fields.
canonicalRecordFor(e) ==
  [f \in AnchoredFields[e.kind] \cap DOMAIN e.fields |-> e.fields[f]]

\* normalizeEvent: the digest of the canonical record, of which the event's kind is part.
normalizeEvent(e) == <<e.kind, canonicalRecordFor(e)>>

Accepted(e) == e.kind \in DOMAIN AnchoredFields /\ StatusAllowed(e)
Hash == {normalizeEvent(e) : e \in {x \in Event : Accepted(x)}}

----------------------------------------------------------------------------
(* The log.                                                                *)

Line(type, h) == [type |-> type, hash |-> h]
Torn == [type |-> "torn", hash |-> <<>>]       \* a line JSON.parse refuses

\* appendFileSync: after a cut line the new text lands on that line, which stays unreadable.
Appended(l) == IF open THEN log ELSE Append(log, l)

\* replay stops at the first line that does not parse; of the lines before it the last one of a
\* hash decides, and the entry waits if that line is an enqueue.
Read == {i \in 1 .. Len(log) : \A j \in 1 .. i : log[j].type # "torn"}
Waiting == {i \in Read : /\ log[i].type = "enqueue"
                         /\ \A j \in Read : j > i => log[j].hash # log[i].hash}
Pending(h) == \E i \in Waiting : log[i].hash = h

\* pending(): in the order of the last enqueue, a set of one sequence or, when nothing waits, of none.
InOrder == {at \in UNION {[1 .. n -> Waiting] : n \in 1 .. Len(log)} :
              /\ \A i, j \in DOMAIN at : i < j => at[i] < at[j]
              /\ \A i \in Waiting : \E j \in DOMAIN at : at[j] = i}
pending == {[j \in DOMAIN at |-> log[at[j]].hash] : at \in InOrder}

NoDrain == [todo |-> <<>>, attempt |-> 0, at |-> "idle"]

Init ==
  /\ log = <<>> /\ open = FALSE /\ drain = NoDrain /\ live \in BOOLEAN
  /\ sent = [h \in Hash |-> 0] /\ enq = [h \in Hash |-> 0] /\ crashes = 0

\* onEvent of the subscriber: drop a kind that is not anchored, report a record that does not
\* normalise, else TxQueue.enqueue, which appends without looking.
OnEvent(e) ==
  /\ Accepted(e)
  /\ enq[normalizeEvent(e)] < MaxEnqueue
  /\ log' = Appended(Line("enqueue", normalizeEvent(e)))
  /\ open' = FALSE
  /\ enq' = [enq EXCEPT ![normalizeEvent(e)] = @ + 1]
  /\ UNCHANGED <<drain, live, sent, crashes>>

\* Mutant: the head of the snapshot is marked done before its submit resolves.
DrainMarksFirst ==
  /\ drain.at = "idle"
  /\ Len(log) < MaxLog
  /\ \E todo \in pending : /\ drain' = [todo |-> todo, attempt |-> 1, at |-> "submit"]
                           /\ log' = Appended(Line("done", Head(todo)))
  /\ open' = FALSE
  /\ UNCHANGED <<live, sent, enq, crashes>>

\* drainOnce: a snapshot of what is pending now.
DrainStart ==
  /\ drain.at = "idle"
  /\ Len(log) < MaxLog
  /\ \E todo \in pending : drain' = [todo |-> todo, attempt |-> 1, at |-> "submit"]
  /\ UNCHANGED <<log, open, live, sent, enq, crashes>>

NextEntry == IF Len(drain.todo) = 1 THEN NoDrain
             ELSE [todo |-> Tail(drain.todo), attempt |-> 1, at |-> "submit"]

\* submit of createTxSubmitter: the chain gets the payload in live mode; paper mode only logs it.
Submit ==
  /\ drain.at = "submit"
  /\ sent' = IF live THEN [sent EXCEPT ![Head(drain.todo)] = @ + 1] ELSE sent
  /\ drain' = [drain EXCEPT !.at = "mark"]
  /\ UNCHANGED <<log, open, live, enq, crashes>>

\* The live submit rejects: again after a sleep, and given up for this drain after the last attempt.
SubmitFails ==
  /\ drain.at = "submit"
  /\ live
  /\ drain' = IF drain.attempt < MaxAttempts THEN [drain EXCEPT !.attempt = @ + 1] ELSE NextEntry
  /\ UNCHANGED <<log, open, live, sent, enq, crashes>>

\* markDone, in the turn after the submit resolved.
MarkDone ==
  /\ drain.at = "mark"
  /\ log' = Appended(Line("done", Head(drain.todo)))
  /\ open' = FALSE
  /\ drain' = NextEntry
  /\ UNCHANGED <<live, sent, enq, crashes>>

\* A crash: the drain is gone, and a line that was being appended may be cut.
Crash ==
  /\ crashes < MaxCrash
  /\ crashes' = crashes + 1
  /\ drain' = NoDrain
  /\ \/ UNCHANGED <<log, open>>
     \/ /\ ~open
        /\ log' = Append(log, Torn)
        /\ open' = TRUE
  /\ UNCHANGED <<live, sent, enq>>

Next == \/ \E e \in Event : OnEvent(e)
        \/ DrainStart \/ Submit \/ SubmitFails \/ MarkDone \/ Crash

QueueSpec == Init /\ [][Next]_queueVars

----------------------------------------------------------------------------
\* Something was appended onto a cut line.
Spoiled == \E i \in 1 .. Len(log) : log[i].type = "torn" /\ ~(open /\ i = Len(log))

\* While no append landed on a cut line: an event whose enqueue returned is still pending, or the
\* chain has it (paper mode: the drain has marked it), through crashes of the drain at any await.
NothingLost ==
  ~Spoiled => \A h \in Hash : enq[h] > 0 => Pending(h) \/ (live => sent[h] > 0)

\* While no append landed on a cut line, a payload reaches the chain at most once for each time it
\* was enqueued and once more for each crash: a drain never submits what is marked done.
SubmitBounded ==
  ~Spoiled => \A h \in Hash : sent[h] <= enq[h] + crashes

\* The header of txqueue.js: a crash "mid-write of a single line" neither loses nor duplicates.
TornLosesNothing ==
  \A h \in Hash : enq[h] > 0 => Pending(h) \/ (live => sent[h] > 0)
=============================================================================
