------------------------------ MODULE Simulator ------------------------------
(***************************************************************************)
(* The two programs of packages/simulator.                                 *)
(*                                                                         *)
(* The system simulator (simulator.js): start() with its awaits, pause,    *)
(* resume and stop called at any moment, the generators that the intervals *)
(* fire, and the simulated validators that complete and finalize what the  *)
(* consensus instance was given.                                           *)
(*                                                                         *)
(* The local devnet, the loopback RPC over it and the browser extension's  *)
(* node bridge (devnet.js, devnet-rpc.js, and background.js of             *)
(* browser-extension): messages of the popup overlap in their awaits,      *)
(* answers arrive late or never, and dispose() tears the ledger down under *)
(* them.                                                                   *)
(***************************************************************************)
EXTENDS Integers, Sequences, FiniteSets

CONSTANTS
  Call,          \* calls of start() that may be in flight
  Tx,            \* transactions that may be created
  Available,     \* the sets of modules whose import may succeed
  InitialIds,    \* options.initialIdentities
  MaxOps, MaxTurns,
  Request,       \* messages of the popup that may be under way at once
  Wanted,        \* options.identities
  MaxRequests, MaxDisposals

VARIABLES
  guard,         \* XPC_INGRESS_GUARD: the consensus refuses the transactions of this simulator, which have no xid
  running,
  calls,         \* Call -> where it is: Idle, Importing, or how many identities it has made
  ids, leaders,
  have,          \* this.modules: the ones that are connected
  inst,          \* which consensus instance this.modules.xpc is; 0 before the first
  leadersSet,    \* the instances whose validationLeaders are identities
  timers,        \* Kind -> how many intervals are listed in this.intervals
  statsTimers,   \* the statistics interval of initializeModules, which is in no list
  inflight,      \* Kind -> ticks whose operation has not landed: signing, or behind a setTimeout
  tx,            \* Tx -> [at, inst, done, due]
  ops, turns,
  starts,        \* history: how often start() began
  validated,     \* metrics.transactionsValidated
  overtaken,     \* history: pause, stop or another start came while start() was in flight, or resume before it
  devnetRunning,
  ledger,        \* which ledger this.ledger is; 0 for null
  verifies,      \* the ledgers whose xid is set, which turns the verification on
  identities,    \* the sequence of addresses; an address is a number, 0 is one outside the devnet
  minted,        \* identities made so far
  ledgers,       \* ledgers made so far
  req,           \* Request -> what it does and where it is
  seq,
  applied,       \* _applied: the transfers the ledger accepted, oldest first
  submitted, landed, rejected,
  requests, disposals,
  connected, nodeRunning,    \* the bridge's view
  reported,      \* history: the txIds the popup was told
  unverified,    \* history: the ids that a ledger took without a verification
  overlapped,    \* history: a start() was in flight when another start(), or a dispose(), came
  disordered     \* history: two messages were under way at once, an answer was lost, or dispose() came

simVars == <<guard, running, calls, ids, leaders, have, inst, leadersSet, timers, statsTimers, inflight, tx, ops, turns, starts, validated,
             overtaken>>

Kind == {"tx", "diff", "storage", "compute", "assembly", "metrics"}
Leading == 3
Idle == -2
Importing == -1
Unmade == [at |-> "unmade", inst |-> 0, done |-> 0, due |-> 0]
Starting(c) == calls[c] # Idle
SomeStart == \E c \in Call : Starting(c)

\* The constructor: empty lists, no module, not running.
SimInit ==
  /\ guard \in BOOLEAN
  /\ running = FALSE /\ calls = [c \in Call |-> Idle] /\ ids = 0 /\ leaders = 0 /\ have = {} /\ inst = 0 /\ leadersSet = {}
  /\ timers = [k \in Kind |-> 0] /\ statsTimers = 0 /\ inflight = [k \in Kind |-> 0]
  /\ tx = [t \in Tx |-> Unmade] /\ ops = 0 /\ turns = 0 /\ starts = 0 /\ validated = 0 /\ overtaken = FALSE

Turn == turns < MaxTurns /\ turns' = turns + 1

----------------------------------------------------------------------------
\* start(): it says that it runs before its first await.
Start(c) ==
  /\ Turn /\ ~running /\ ~Starting(c)
  /\ running' = TRUE /\ calls' = [calls EXCEPT ![c] = Importing]
  /\ overtaken' = (overtaken \/ SomeStart) /\ starts' = starts + 1
  /\ UNCHANGED <<guard, ids, leaders, have, inst, leadersSet, timers, statsTimers, inflight, tx, ops, validated>>

\* initializeModules: each import succeeds or leaves its module as it was; a new instance of the consensus,
\* and one more statistics interval with the state machine.
InitializeModules(c) ==
  /\ calls[c] = Importing /\ calls' = [calls EXCEPT ![c] = 0]
  /\ \E S \in Available :
       /\ have' = have \cup S
       /\ inst' = IF "xpc" \in S THEN inst + 1 ELSE inst
       /\ statsTimers' = statsTimers + (IF "xvsm" \in S THEN 1 ELSE 0)
  /\ UNCHANGED <<guard, running, ids, leaders, leadersSet, timers, inflight, tx, ops, turns, starts, validated, overtaken>>

\* createIdentity, through the identity module or simulated, and the pause between two of them.
CreateIdentity(c) ==
  /\ calls[c] \in 0..(InitialIds - 1) /\ ids' = ids + 1
  /\ calls' = [calls EXCEPT ![c] = @ + 1]
  /\ UNCHANGED <<guard, running, leaders, have, inst, leadersSet, timers, statsTimers, inflight, tx, ops, turns, starts, validated, overtaken>>

\* The leaders, and the consensus' validation leaders when there are three; then the six intervals.
Generate(c) ==
  /\ calls[c] = InitialIds
  /\ calls' = [calls EXCEPT ![c] = Idle]
  /\ leaders' = IF ids < 5 THEN ids ELSE 5
  /\ leadersSet' = IF "xpc" \in have /\ ids >= Leading THEN leadersSet \cup {inst} ELSE leadersSet
  /\ timers' = [k \in Kind |-> timers[k] + 1]
  /\ UNCHANGED <<guard, running, ids, have, inst, statsTimers, inflight, tx, ops, turns, starts, validated, overtaken>>

\* Mutant: the intervals run on.
ClearedNone == timers
\* What pause and stop have in common: they clear what is listed.
Cleared == [k \in Kind |-> 0]
Halt ==
  /\ Turn /\ running /\ running' = FALSE
  /\ timers' = Cleared /\ overtaken' = (overtaken \/ SomeStart)
  /\ UNCHANGED <<guard, calls, ids, leaders, have, inst, leadersSet, statsTimers, inflight, tx, ops, starts, validated>>

Pause == Halt
Stop == Halt

\* resume sets four of the six intervals again; it does not ask whether start() has ever run.
Resumed == {"tx", "diff", "storage", "compute"}
Resume ==
  /\ Turn /\ ~running /\ running' = TRUE
  /\ timers' = [k \in Kind |-> timers[k] + (IF k \in Resumed THEN 1 ELSE 0)]
  /\ overtaken' = (overtaken \/ leaders = 0)
  /\ UNCHANGED <<guard, calls, ids, leaders, have, inst, leadersSet, statsTimers, inflight, tx, ops, starts, validated>>

----------------------------------------------------------------------------
\* An interval fires: the operation signs, or waits for its setTimeout, and lands later.
Needs(k) == CASE k = "tx" -> 2 [] k = "diff" -> 1 [] OTHER -> 0
Tick(k) ==
  /\ k \in Resumed /\ timers[k] > 0 /\ ids >= Needs(k) /\ inflight[k] = 0 /\ ops < MaxOps
  /\ inflight' = [inflight EXCEPT ![k] = 1] /\ ops' = ops + 1
  /\ UNCHANGED <<guard, running, calls, ids, leaders, have, inst, leadersSet, timers, statsTimers, tx, turns, starts, validated, overtaken>>

\* createTransaction and createStateDiff after the signature: to the consensus if there is one and leaders
\* are known, to the ledger otherwise, which refuses it as untyped. The consensus makes one task for each of
\* its validation leaders, or answers null at its guard.
Consensus == "xpc" \in have /\ leaders > 0
Submitted ==
  CASE Consensus /\ ~guard -> [at |-> "raw", inst |-> inst, done |-> 0, due |-> Leading]
    [] Consensus /\ guard -> [at |-> "refused", inst |-> inst, done |-> 0, due |-> 0]
    [] OTHER -> [at |-> "direct", inst |-> IF "xpc" \in have THEN inst ELSE 0, done |-> 0, due |-> 0]
Create(k, t) ==
  /\ k \in {"tx", "diff"} /\ inflight[k] > 0 /\ inflight' = [inflight EXCEPT ![k] = 0]
  /\ tx[t] = Unmade /\ tx' = [tx EXCEPT ![t] = Submitted]
  /\ UNCHANGED <<guard, running, calls, ids, leaders, have, inst, leadersSet, timers, statsTimers, ops, turns, starts, validated, overtaken>>

\* simulateStorageOperation changes counters only.
StorageOperation ==
  /\ inflight["storage"] > 0 /\ inflight' = [inflight EXCEPT !["storage"] = 0]
  /\ UNCHANGED <<guard, running, calls, ids, leaders, have, inst, leadersSet, timers, statsTimers, tx, ops, turns, starts, validated, overtaken>>

\* simulateComputeOperation may start a state diff of its own, behind a setTimeout that nothing clears.
ComputeOperation ==
  /\ inflight["compute"] > 0
  /\ \E diff \in {0, 1} :
       /\ diff = 1 => "xvsm" \in have /\ inflight["diff"] = 0 /\ ids > 0
       /\ inflight' = [inflight EXCEPT !["compute"] = 0, !["diff"] = @ + diff]
  /\ UNCHANGED <<guard, running, calls, ids, leaders, have, inst, leadersSet, timers, statsTimers, tx, ops, turns, starts, validated, overtaken>>

\* Mutant: the consensus keeps the leaders it was built with.
KnownNever(i) == FALSE
\* The validator of a task is looked up among the identities: it is there if the instance was given leaders.
Known(i) == i \in leadersSet
\* The listener on validation_tasks:created: each task after its delay, on the instance of that moment.
CompleteTask(t) ==
  /\ tx[t].due > 0
  /\ LET ok == Known(tx[t].inst) /\ tx[t].inst = inst
         done == tx[t].done + (IF ok THEN 1 ELSE 0)
     IN  tx' = [tx EXCEPT ![t] = [at |-> IF done = Leading THEN "processing" ELSE @.at,
                                  inst |-> @.inst, done |-> done, due |-> @.due - 1]]
  /\ UNCHANGED <<guard, running, calls, ids, leaders, have, inst, leadersSet, timers, statsTimers, inflight, ops, turns, starts, validated, overtaken>>

\* The listener on tx:processing: finalizeTransaction on the instance of that moment, whose event counts.
AutoFinalize(t) ==
  /\ tx[t].at = "processing"
  /\ IF tx[t].inst = inst
     THEN /\ tx' = [tx EXCEPT ![t].at = "final"] /\ validated' = validated + 1
     ELSE /\ tx' = [tx EXCEPT ![t].at = "missed"] /\ UNCHANGED validated
  /\ UNCHANGED <<guard, running, calls, ids, leaders, have, inst, leadersSet, timers, statsTimers, inflight, ops, turns, starts, overtaken>>

SimNext == \/ (\E c \in Call : Start(c) \/ InitializeModules(c) \/ CreateIdentity(c) \/ Generate(c))
        \/ Pause \/ Stop \/ Resume \/ StorageOperation \/ ComputeOperation
        \/ (\E k \in Kind : Tick(k))
        \/ \E t \in Tx : CompleteTask(t) \/ AutoFinalize(t) \/ \E k \in Kind : Create(k, t)

SimSpec == SimInit /\ [][SimNext]_simVars

----------------------------------------------------------------------------
\* pause and stop: a simulator that does not run fires nothing, and one that runs fires each generator once,
\* unless start() was overtaken in one of its awaits and set its intervals all the same.
Quiet ==
  ~overtaken => /\ ~running => \A k \in Kind : timers[k] = 0
                /\ \A k \in Kind : timers[k] <= 1

\* start() sets no generator before the leaders: what is created while a consensus is connected goes through
\* it, unless start() was overtaken.
ThroughConsensus == ~overtaken => \A t \in Tx : tx[t].at = "direct" => tx[t].inst = 0

\* The simulated validators: what the consensus took is validated by all of them or has tasks left; only
\* a second start, with what the first one left behind, or too few identities to give the consensus its
\* leaders leave a transaction that nobody will finalize.
Stranded(t) == tx[t].at = "missed" \/ (tx[t].at = "raw" /\ tx[t].due = 0)
NoneStranded == \A t \in Tx : Stranded(t) => starts > 1 \/ InitialIds < Leading

\* metrics.transactionsValidated: each finalized transaction is counted once, and none where the guard is on.
CountedOnce ==
  /\ validated = Cardinality({t \in Tx : tx[t].at = "final"})
  /\ guard => validated = 0

\* The simulator's life: the four above.
SimulatorSound == Quiet /\ ThroughConsensus /\ NoneStranded /\ CountedOnce

----------------------------------------------------------------------------
(* The devnet and its bridge.                                              *)

netVars == <<devnetRunning, ledger, verifies, identities, minted, ledgers>>
txVars == <<seq, applied, submitted, landed, rejected, unverified>>
viewVars == <<connected, nodeRunning, reported>>
devVars == <<netVars, txVars, viewVars, req, requests, disposals, overlapped, disordered>>

Free == [op |-> "free"]
Answer(of, ok, value) == [op |-> "answer", of |-> of, ok |-> ok, value |-> value]
Bootstrapping == \E r \in Request : req[r].op = "boot"
Wallet == 1

\* The two constructors.
DevInit ==
  /\ devnetRunning = FALSE /\ ledger = 0 /\ verifies = {} /\ identities = <<>> /\ minted = 0 /\ ledgers = 0
  /\ req = [r \in Request |-> Free] /\ seq = 0 /\ applied = <<>> /\ submitted = 0 /\ landed = 0 /\ rejected = 0
  /\ requests = 0 /\ disposals = 0 /\ connected = FALSE /\ nodeRunning = FALSE /\ reported = {}
  /\ unverified = {} /\ overlapped = FALSE /\ disordered = FALSE

\* handleMessage posts the message; listen() runs one handle() per POST.
Arrives(r) ==
  /\ req[r] = Free /\ requests < MaxRequests /\ requests' = requests + 1
  /\ disordered' = (disordered \/ \E q \in Request : req[q] # Free)

----------------------------------------------------------------------------
\* startNode: a devnet that runs is left alone; the first start() bootstraps, a later one resumes, and
\* a bootstrap that is under way looks like a ledger that is there.
StartNode(r) ==
  /\ Arrives(r)
  /\ IF devnetRunning \/ ledger # 0
     THEN /\ devnetRunning' = TRUE /\ req' = [req EXCEPT ![r] = Answer("start", TRUE, 0)]
          /\ UNCHANGED <<ledger, ledgers>>
     ELSE /\ ledgers' = ledgers + 1 /\ ledger' = ledgers + 1
          /\ req' = [req EXCEPT ![r] = [op |-> "boot", made |-> 0]]
          /\ UNCHANGED devnetRunning
  /\ overlapped' = (overlapped \/ Bootstrapping)
  /\ UNCHANGED <<verifies, identities, minted, txVars, viewVars, disposals>>

\* One round of its loop: Identity.create, then the two lists.
Mint(r) ==
  /\ req[r].op = "boot" /\ req[r].made < Wanted
  /\ minted' = minted + 1 /\ identities' = Append(identities, minted + 1)
  /\ req' = [req EXCEPT ![r].made = @ + 1]
  /\ UNCHANGED <<devnetRunning, ledger, verifies, ledgers, txVars, viewVars, requests, disposals, overlapped, disordered>>

\* Mutant: the ledger is left as it was built.
VerifiedFromNowNone == verifies
\* this.ledger.xid = ..., which throws when dispose() took the ledger away.
VerifiedFromNow == verifies \cup ({ledger} \ {0})
Booted(r) ==
  /\ req[r].op = "boot" /\ req[r].made = Wanted
  /\ verifies' = VerifiedFromNow
  /\ devnetRunning' = (devnetRunning \/ ledger # 0)
  /\ req' = [req EXCEPT ![r] = Answer("start", ledger # 0, 0)]
  /\ UNCHANGED <<ledger, identities, minted, ledgers, txVars, viewVars, requests, disposals, overlapped, disordered>>

\* stopNode: state stays.
StopNode(r) ==
  /\ Arrives(r) /\ devnetRunning' = FALSE
  /\ req' = [req EXCEPT ![r] = Answer("stop", TRUE, 0)]
  /\ UNCHANGED <<ledger, verifies, identities, minted, ledgers, txVars, viewVars, disposals, overlapped>>

\* getNodeStatus, as the devnet is when it is asked.
Status(r) ==
  /\ Arrives(r)
  /\ req' = [req EXCEPT ![r] = Answer("status", TRUE, IF devnetRunning THEN 1 ELSE 0)]
  /\ UNCHANGED <<netVars, txVars, viewVars, disposals, overlapped>>

\* dispose: stop, then the ledger and the identities are gone; the applied transfers and the counters stay.
Dispose ==
  /\ disposals < MaxDisposals /\ disposals' = disposals + 1
  /\ devnetRunning' = FALSE /\ ledger' = 0 /\ identities' = <<>>
  /\ overlapped' = (overlapped \/ Bootstrapping) /\ disordered' = TRUE
  /\ UNCHANGED <<verifies, minted, ledgers, req, txVars, viewVars, requests>>

----------------------------------------------------------------------------
\* sendTransaction: the wallet's identity to a participant, resolved to its index, or to any other address;
\* refused while stopped or with no wallet. The body has its number before the signature is awaited.
Recipients == {identities[i] : i \in 1..Len(identities)} \cup {0}
Send(r) ==
  /\ Arrives(r)
  /\ IF devnetRunning /\ Len(identities) >= Wallet
     THEN /\ seq' = seq + 1
          /\ \E to \in Recipients :
               req' = [req EXCEPT ![r] = [op |-> "signing", id |-> seq', from |-> identities[Wallet], to |-> to, on |-> ledger, at |-> disposals]]
     ELSE /\ req' = [req EXCEPT ![r] = Answer("send", FALSE, 0)] /\ UNCHANGED seq
  /\ UNCHANGED <<netVars, applied, submitted, landed, rejected, unverified, viewVars, disposals, overlapped>>

\* submitTransferToAddress after the signature: counted, and given to the ledger of that moment.
Signed(r) ==
  /\ req[r].op = "signing"
  /\ submitted' = submitted + 1
  /\ req' = [req EXCEPT ![r].op = "adding", ![r].on = ledger]
  /\ UNCHANGED <<netVars, seq, applied, landed, rejected, unverified, viewVars, requests, disposals, overlapped, disordered>>

\* addTransaction with its signature check: made when the ledger has its xid and knows the sender's key.
Checked(q) == q.on \in verifies /\ \E i \in 1..Len(identities) : identities[i] = q.from
\* Mutant: a transfer is applied before the ledger has answered.
LandsAlways(q) == {TRUE}
\* It lands or throws; with no ledger it throws.
Lands(q) == IF q.on = 0 THEN {FALSE} ELSE BOOLEAN
Added(r) ==
  LET q == req[r] IN
  /\ q.op = "adding"
  /\ \E ok \in Lands(q) :
       IF ok
       THEN /\ landed' = landed + 1
            /\ applied' = Append(applied, [id |-> q.id, from |-> q.from, to |-> q.to, on |-> q.on, crossed |-> disposals # q.at])
            /\ unverified' = IF Checked(q) THEN unverified ELSE unverified \cup {q.id}
            /\ req' = [req EXCEPT ![r] = Answer("send", TRUE, q.id)]
            /\ UNCHANGED rejected
       ELSE /\ rejected' = rejected + 1 /\ req' = [req EXCEPT ![r] = Answer("send", TRUE, 0)]
            /\ UNCHANGED <<landed, applied, unverified>>
  /\ UNCHANGED <<netVars, seq, submitted, viewVars, requests, disposals, overlapped, disordered>>

----------------------------------------------------------------------------
\* Mutant: a stop does not change what the bridge shows.
ShownKept(a) == IF a.of = "start" THEN TRUE ELSE IF a.of = "status" THEN a.value = 1 ELSE nodeRunning
\* What each of the bridge's methods does to nodeRunning with an answer.
Shown(a) ==
  CASE a.of = "start" -> TRUE [] a.of = "stop" -> FALSE [] a.of = "status" -> a.value = 1 [] OTHER -> nodeRunning
\* The answer arrives, in any order: HTTP 500 counts as unreachable.
Receive(r) ==
  LET a == req[r] IN
  /\ a.op = "answer" /\ req' = [req EXCEPT ![r] = Free]
  /\ connected' = a.ok
  /\ nodeRunning' = IF a.ok THEN Shown(a) ELSE nodeRunning
  /\ reported' = IF a.of = "send" /\ a.value # 0 THEN reported \cup {a.value} ELSE reported
  /\ UNCHANGED <<netVars, txVars, requests, disposals, overlapped, disordered>>
\* fetch fails though the devnet has served the request: the bridge says so, and only a status clears its view.
Lost(r) ==
  /\ req[r].op = "answer" /\ req' = [req EXCEPT ![r] = Free]
  /\ connected' = FALSE /\ nodeRunning' = (nodeRunning /\ req[r].of # "status")
  /\ disordered' = TRUE
  /\ UNCHANGED <<netVars, txVars, reported, requests, disposals, overlapped>>

DevNext == \/ Dispose
        \/ \E r \in Request : \/ StartNode(r) \/ Mint(r) \/ Booted(r) \/ StopNode(r) \/ Status(r)
                              \/ Send(r) \/ Signed(r) \/ Added(r) \/ Receive(r) \/ Lost(r)

DevSpec == DevInit /\ [][DevNext]_devVars

----------------------------------------------------------------------------
\* balanceOf: what it reports for one address, with every amount 1.
balanceOf(a) ==
  Cardinality({i \in 1..Len(applied) : applied[i].to = a}) - Cardinality({i \in 1..Len(applied) : applied[i].from = a})

\* "every utxo tx the REAL ledger accepted (post-verification)": nothing moves a balance unverified, unless
\* two starts overlapped or a dispose() came between its request and the ledger's answer.
AppliedVerified == \A i \in 1..Len(applied) : applied[i].id \in unverified => overlapped \/ applied[i].crossed

\* start(): a devnet that runs has its identities and its verification, unless starts overlapped.
RunningWhole == devnetRunning /\ ~overlapped => Len(identities) = Wanted /\ ledger \in verifies

\* The counters: each submission ends once, landed or rejected, across stops and disposals; the height is the
\* number of applied transfers and no number is applied twice; what landed landed in a ledger.
Accounted ==
  /\ submitted = landed + rejected + Cardinality({r \in Request : req[r].op = "adding"})
  /\ landed = Len(applied)
  /\ \A i, j \in 1..Len(applied) : i # j => applied[i].id # applied[j].id
  /\ \A i \in 1..Len(applied) : applied[i].on # 0

\* "a fresh devnet reports 0": an identity made after a disposal starts with nothing, though what the
\* earlier identities moved is still in the list.
FreshAtZero ==
  \A i \in 1..Len(identities) :
    (\A j \in 1..Len(applied) : applied[j].on # ledger) /\ ~overlapped /\ devnetRunning => balanceOf(identities[i]) = 0

\* "it never fabricates a balance or a txId": what the popup was told has landed; and as long as messages went
\* one by one, what it is shown of the node is how the node is.
Truthful ==
  /\ \A id \in reported : \E i \in 1..Len(applied) : applied[i].id = id
  /\ ~disordered /\ connected /\ (\A r \in Request : req[r] = Free) => nodeRunning = devnetRunning

\* The devnet and its bridge: the five above.
DevnetSound == AppliedVerified /\ RunningWhole /\ Accounted /\ FreshAtZero /\ Truthful
=============================================================================
