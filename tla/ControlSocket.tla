---------------------------- MODULE ControlSocket ----------------------------
(***************************************************************************)
(* The ledger writes and the signed chain reading of the control socket.   *)
(* One write runs at a time: the same call joins it, another one is told   *)
(* busy, and a repeat of the last applied set is answered without a write. *)
(* A write is a sequence of awaited steps, and the node goes on admitting  *)
(* blocks meanwhile.  A chain reading scans for its block count once, keeps *)
(* it current on block:added, and awaits its signature.                    *)
(***************************************************************************)
EXTENDS Integers, FiniteSets

CONSTANTS
  Anchor,
  MaxWrites,    \* bound on the writes that start
  MaxAdmits,    \* bound on the admissions beside them
  Faults        \* whether a rebuild may throw in the middle

VARIABLES
  blockRows,    \* block rows of the ledger
  treeKeys,     \* anchor keys of the verkle tree
  gone,         \* durable evicted: keys
  chainCount,   \* core._chainCounts.blocks, Unknown when null
  writing,      \* the write under way
  lastApplied,  \* key, held count and root of the last completed rebuild or apply
  reader,       \* the chain reading of a client and the one a write ends with
  settledChain, \* the last reading taken with no write in flight
  reply,        \* the last chain reply, or the last answer of a repeat
  leftBy,       \* history: rows and keys the last completed rebuild or apply left
  heldPairs,    \* history: the <<height, root>> pairs held while no write was changing them
  scanRaced,    \* history: the block rows changed while a scan was counting them
  threw,        \* history: a rebuild threw
  writeCount, admits

ctlVars == <<blockRows, treeKeys, gone, chainCount, writing, lastApplied, reader, settledChain, reply,
             leftBy, heldPairs, scanRaced, threw, writeCount, admits>>

Unknown == -1
NoWrite == [op |-> "none"]
NoReading == [at |-> "idle"]
NoChain == [signed |-> FALSE]
Height == Cardinality(blockRows)
Settled(rows, tree) == heldPairs' = heldPairs \cup {<<Cardinality(rows), tree>>}

ScanRace == scanRaced' = (scanRaced \/ (blockRows' # blockRows /\ \E r \in DOMAIN reader : reader[r].at = "scan"))

Init ==
  /\ blockRows = {} /\ treeKeys = {} /\ gone = {}
  /\ chainCount = Unknown
  /\ writing = NoWrite
  /\ lastApplied = NoWrite
  /\ reader = [r \in {"client", "settle"} |-> NoReading]
  /\ settledChain = NoChain /\ reply = NoChain
  /\ leftBy = <<{}, {}>>
  /\ heldPairs = {<<0, {}>>}
  /\ scanRaced = FALSE /\ threw = FALSE
  /\ writeCount = 0 /\ admits = 0

\* Mutant: the canonical set reaches the tree as it came.
dropEvictedNone(S) == S
dropEvicted(S) == S \ gone

\* The identity of a call: its operation and the set it would keep.
writeKey(op, S) == <<op, IF op = "evict" THEN S ELSE dropEvicted(S)>>

\* Mutant: only the key is compared.
SameAsAppliedKeyOnly(key) == lastApplied # NoWrite /\ lastApplied.key = key
SameAsApplied(key) ==
  lastApplied # NoWrite /\ lastApplied = [key |-> key, held |-> Height, root |-> treeKeys]

\* A write that starts makes every reading that spans it one that is not signed.
Spanned == [r \in DOMAIN reader |-> IF reader[r] = NoReading THEN NoReading ELSE [reader[r] EXCEPT !.clean = FALSE]]

\* runLedgerWrite of rebuild_ledger, apply_canonical, apply_backfill or evict.
Begin(op, S) ==
  /\ writing = NoWrite
  /\ IF SameAsApplied(writeKey(op, S))
     THEN /\ reply' = [signed |-> FALSE, unchanged |-> op]
          /\ UNCHANGED <<writing, lastApplied, reader, writeCount>>
     ELSE /\ writeCount < MaxWrites
          /\ writeCount' = writeCount + 1
          /\ lastApplied' = NoWrite
          /\ writing' = [op |-> op, set |-> S, key |-> writeKey(op, S), at |-> "begun", todo |-> {}]
          /\ reader' = Spanned
          /\ reply' = NoChain
  /\ UNCHANGED <<blockRows, treeKeys, gone, chainCount, settledChain, leftBy, heldPairs, scanRaced, threw, admits>>

Step(w) == writing' = w

\* The wipe of rebuildFromAnchors; a set that would empty a chain that holds blocks is refused untouched.
Wipe ==
  /\ writing.op = "rebuild" /\ writing.at = "begun"
  /\ IF dropEvicted(writing.set) = {} /\ blockRows # {}
     THEN /\ Step([writing EXCEPT !.at = "refused"])
          /\ UNCHANGED blockRows
     ELSE /\ blockRows' = {}
          /\ Step([writing EXCEPT !.at = "reseal", !.todo = writing.set \ gone])
  /\ ScanRace
  /\ UNCHANGED <<treeKeys, gone, chainCount, lastApplied, reader, settledChain, reply, leftBy, heldPairs,
                 threw, writeCount, admits>>

Bumped == IF chainCount = Unknown THEN Unknown ELSE chainCount + 1

\* One block of the set is written back, and counted like any other.
Reseal(a) ==
  /\ writing.op = "rebuild" /\ writing.at = "reseal" /\ a \in writing.todo
  /\ blockRows' = blockRows \cup {a}
  /\ chainCount' = IF a \in blockRows THEN chainCount ELSE Bumped
  /\ Step([writing EXCEPT !.todo = @ \ {a}])
  /\ ScanRace
  /\ UNCHANGED <<treeKeys, gone, lastApplied, reader, settledChain, reply, leftBy, heldPairs, threw,
                 writeCount, admits>>

\* The rebuild throws in the middle: the handler is left without its last lines.
Throw ==
  /\ Faults
  /\ writing.op = "rebuild" /\ writing.at = "reseal" /\ writing.todo # {}
  /\ Step([writing EXCEPT !.at = "settle", !.op = "failed"])
  /\ threw' = TRUE
  /\ Settled(blockRows, treeKeys)
  /\ UNCHANGED <<blockRows, treeKeys, gone, chainCount, lastApplied, reader, settledChain, reply, leftBy,
                 scanRaced, writeCount, admits>>

\* rebuildFromCanonical clears the tree and fills it: after the ledger in a rebuild, alone in an apply.
ClearTree ==
  /\ \/ writing.op = "rebuild" /\ writing.at = "reseal" /\ writing.todo = {}
     \/ writing.op = "apply" /\ writing.at = "begun"
  /\ treeKeys' = {}
  /\ Step([writing EXCEPT !.at = "fill"])
  /\ UNCHANGED <<blockRows, gone, chainCount, lastApplied, reader, settledChain, reply, leftBy, heldPairs, scanRaced,
                 threw, writeCount, admits>>

FillTree ==
  /\ writing.op \in {"rebuild", "apply"} /\ writing.at = "fill"
  /\ treeKeys' = treeKeys \cup dropEvicted(writing.set)
  /\ chainCount' = IF writing.op = "rebuild" THEN Unknown ELSE chainCount
  /\ Step([writing EXCEPT !.at = "settle"])
  /\ Settled(blockRows, treeKeys')
  /\ UNCHANGED <<blockRows, gone, lastApplied, reader, settledChain, reply, leftBy, scanRaced, threw,
                 writeCount, admits>>

\* apply_backfill: every block on disk goes into the tree.
Backfill ==
  /\ writing.op = "backfill" /\ writing.at = "begun"
  /\ treeKeys' = treeKeys \cup blockRows
  /\ Step([writing EXCEPT !.at = "settle"])
  /\ Settled(blockRows, treeKeys')
  /\ UNCHANGED <<blockRows, gone, chainCount, lastApplied, reader, settledChain, reply, leftBy, scanRaced,
                 threw, writeCount, admits>>

\* evict: the ledger's half, and after an await the tree's.
EvictLedger ==
  /\ writing.op = "evict" /\ writing.at = "begun"
  /\ gone' = gone \cup writing.set
  /\ blockRows' = blockRows \ writing.set
  /\ Step([writing EXCEPT !.at = "tree"])
  /\ ScanRace
  /\ UNCHANGED <<treeKeys, chainCount, lastApplied, reader, settledChain, reply, leftBy, heldPairs, threw,
                 writeCount, admits>>

\* Mutant: the count of the last scan is kept.
DropCountNot == chainCount
DropCount == Unknown

EvictTree ==
  /\ writing.op = "evict" /\ writing.at = "tree"
  /\ treeKeys' = treeKeys \ writing.set
  /\ chainCount' = DropCount
  /\ Step([writing EXCEPT !.at = "settle"])
  /\ Settled(blockRows, treeKeys')
  /\ UNCHANGED <<blockRows, gone, lastApplied, reader, settledChain, reply, leftBy, scanRaced, threw,
                 writeCount, admits>>

\* Mutant: a reading that a write started under is kept.
KeptAlways(r) == TRUE
Kept(r) == reader[r].clean

\* chain up to its first await: the root, and the count when it is known.
ReadChain(r) ==
  /\ reader[r] = NoReading
  /\ \/ r = "client" /\ (writing = NoWrite \/ settledChain = NoChain)
     \/ r = "settle" /\ writing # NoWrite /\ writing.at = "settle"
  /\ reader' = [reader EXCEPT ![r] = [at |-> IF chainCount = Unknown THEN "scan" ELSE "sign", root |-> treeKeys,
                                      height |-> IF chainCount = Unknown THEN Height ELSE chainCount,
                                      clean |-> r = "settle" \/ writing = NoWrite]]
  /\ UNCHANGED <<blockRows, treeKeys, gone, chainCount, writing, lastApplied, settledChain, reply, leftBy, heldPairs,
                 scanRaced, threw, writeCount, admits>>

\* The scan of a snapshot ends: its number becomes the count.
Scanned(r) ==
  /\ reader[r].at = "scan"
  /\ chainCount' = reader[r].height
  /\ reader' = [reader EXCEPT ![r].at = "sign"]
  /\ UNCHANGED <<blockRows, treeKeys, gone, writing, lastApplied, settledChain, reply, leftBy, heldPairs, scanRaced,
                 threw, writeCount, admits>>

Reading(r) == [signed |-> TRUE, height |-> reader[r].height, root |-> reader[r].root]

\* A client's reading is signed; it is kept and handed out signed unless a write started under it.
AnswerChain ==
  /\ reader["client"].at = "sign"
  /\ settledChain' = IF Kept("client") THEN Reading("client") ELSE settledChain
  /\ reply' = IF Kept("client") THEN Reading("client") ELSE NoChain
  /\ reader' = [reader EXCEPT !["client"] = NoReading]
  /\ UNCHANGED <<blockRows, treeKeys, gone, chainCount, writing, lastApplied, leftBy, heldPairs, scanRaced, threw,
                 writeCount, admits>>

\* During a write the last settled reading is handed out.
AnswerSettled ==
  /\ writing # NoWrite /\ settledChain # NoChain
  /\ reply' = settledChain
  /\ UNCHANGED <<blockRows, treeKeys, gone, chainCount, writing, lastApplied, reader, settledChain, leftBy, heldPairs,
                 scanRaced, threw, writeCount, admits>>

\* The reading a write takes as its last step, and the end of the write.
EndWrite ==
  /\ \/ /\ writing.op # "none" /\ writing.at = "settle" /\ reader["settle"].at = "sign"
        /\ settledChain' = Reading("settle")
        /\ reader' = [reader EXCEPT !["settle"] = NoReading]
        /\ lastApplied' = IF writing.op \in {"rebuild", "apply"}
                          THEN [key |-> writing.key, held |-> Height, root |-> treeKeys] ELSE NoWrite
     \/ /\ writing.op # "none" /\ writing.at = "refused"
        /\ UNCHANGED <<settledChain, reader, lastApplied>>
  /\ leftBy' = <<blockRows, treeKeys>>
  /\ writing' = NoWrite
  /\ Settled(blockRows, treeKeys)
  /\ UNCHANGED <<blockRows, treeKeys, gone, chainCount, reply, scanRaced, threw, writeCount, admits>>

\* submit_tx: a block of consensus is admitted and applied, beside whatever runs; not an evicted one.
Admit(a) ==
  /\ admits < MaxAdmits
  /\ a \notin gone /\ a \notin blockRows
  /\ admits' = admits + 1
  /\ blockRows' = blockRows \cup {a}
  /\ treeKeys' = treeKeys \cup {a}
  /\ chainCount' = Bumped
  /\ ScanRace
  /\ IF writing = NoWrite \/ writing.at = "settle" THEN Settled(blockRows', treeKeys') ELSE UNCHANGED heldPairs
  /\ reply' = IF reply.signed THEN reply ELSE NoChain
  /\ UNCHANGED <<gone, writing, lastApplied, reader, settledChain, leftBy, threw, writeCount>>

Next ==
  \/ \E op \in {"rebuild", "apply"}, S \in SUBSET Anchor \ {{}} : Begin(op, S)
  \/ \E a \in Anchor : Begin("evict", {a})
  \/ Begin("backfill", {})
  \/ Wipe \/ Throw \/ ClearTree \/ FillTree \/ Backfill \/ EvictLedger \/ EvictTree
  \/ \E a \in Anchor : Reseal(a) \/ Admit(a)
  \/ \E r \in DOMAIN reader : ReadChain(r) \/ Scanned(r)
  \/ AnswerChain \/ AnswerSettled \/ EndWrite

CtlSpec == Init /\ [][Next]_ctlVars

----------------------------------------------------------------------------
\* "A node signs only a chain it holds", of every signed reply whatever runs beside it.
OnlyHeldSigned == reply.signed => <<reply.height, reply.root>> \in heldPairs

\* A node signs only a chain it holds: a signed reading pairs a height with a root the node held with no
\* write changing them.  The premise leaves out two ways around it: rows that change while a scan counts
\* them are missed by the count until the next scan, and a rebuild that throws keeps the count of the
\* rows it wiped.
SignedIsHeld == ~scanRaced /\ ~threw => OnlyHeldSigned

\* An evicted anchor stays out of both stores across every later write, whatever set still names it.
EvictedGone == writing = NoWrite => gone \cap (blockRows \cup treeKeys) = {}

\* A repeat that is answered without a write finds the ledger and the tree as that write left them.
UnchangedIsTrue == "unchanged" \in DOMAIN reply => <<blockRows, treeKeys>> = leftBy

----------------------------------------------------------------------------
(* Contract operations: contract_deploy, contract_call, settlement_seal,   *)
(* and replayContracts, which builds the registry again from the block     *)
(* store after a restart.  A contract is a counter in each of its keys;    *)
(* the host stages for a call only the keys in the footprint of the        *)
(* contract, and a key outside it reads as zero.                           *)

CONSTANTS Module, StateKey, MaxOps, MaxRestarts

VARIABLES
  registry,     \* ContractHost.contracts: module -> [gated, footprint]
  deployRows,   \* the contract blocks: <<module, gated>>
  receiptRows,  \* the state_diff blocks: <<module, key>>
  counter,      \* committed words of the tree
  anchoring,    \* the blocks whose admission a handler awaits
  sealed,       \* settlement accounts minted, by <<module, key>>
  bumps,        \* history: calls that were answered, by module and key
  redeployed,   \* history: the modules deployed more than once
  unanchored,   \* history: something was lost by a restart before its block was written
  ops, restarts

opsVars == <<registry, deployRows, receiptRows, counter, anchoring, sealed, bumps, redeployed, unanchored, ops, restarts>>

OpsInit ==
  /\ registry = << >>
  /\ deployRows = {} /\ receiptRows = {} /\ anchoring = {} /\ sealed = {}
  /\ counter = [m \in Module |-> [k \in StateKey |-> 0]]
  /\ bumps = counter
  /\ redeployed = {} /\ unanchored = FALSE
  /\ ops = 0 /\ restarts = 0

Registered(m) == m \in DOMAIN registry
Held(m, entry) == [x \in DOMAIN registry \cup {m} |-> IF x = m THEN entry ELSE registry[x]]
Op == ops < MaxOps /\ ops' = ops + 1

\* The entry of a fresh deploy replaces the one that was there, footprint included.
Deploy(m, gated) ==
  /\ Op
  /\ registry' = Held(m, [gated |-> gated, footprint |-> {}])
  /\ anchoring' = anchoring \cup {[type |-> "contract", row |-> <<m, gated>>]}
  /\ redeployed' = IF Registered(m) THEN redeployed \cup {m} ELSE redeployed
  /\ UNCHANGED <<deployRows, receiptRows, counter, sealed, bumps, unanchored, restarts>>

Read(m, k) == IF k \in registry[m].footprint THEN counter[m][k] ELSE 0

\* A call that is authorised; an unknown contract and a gated one without authority change nothing.
CallContract(m, k, authorised) ==
  /\ Op
  /\ Registered(m)
  /\ registry[m].gated => authorised
  /\ counter' = [counter EXCEPT ![m][k] = Read(m, k) + 1]
  /\ bumps' = [bumps EXCEPT ![m][k] = @ + 1]
  /\ registry' = [registry EXCEPT ![m].footprint = @ \cup {k}]
  /\ anchoring' = anchoring \cup {[type |-> "state_diff", row |-> <<m, k>>]}
  /\ UNCHANGED <<deployRows, receiptRows, sealed, redeployed, unanchored, restarts>>

Written(b) == IF b.type = "contract" THEN b.row \in deployRows ELSE b.row \in receiptRows

\* anchorContractTx: the block is written, or the ledger refused it and the reply says so.
AnchorContractTx(b, refused) ==
  /\ b \in anchoring
  /\ anchoring' = anchoring \ {b}
  /\ deployRows' = IF b.type = "contract" /\ ~refused THEN deployRows \cup {b.row} ELSE deployRows
  /\ receiptRows' = IF b.type = "state_diff" /\ ~refused THEN receiptRows \cup {b.row} ELSE receiptRows
  /\ unanchored' = (unanchored \/ (refused /\ ~Written(b)))
  /\ UNCHANGED <<registry, counter, sealed, bumps, redeployed, ops, restarts>>

\* settlement_seal: only for a contract this node holds and a key its own tree commits.
SettlementSeal(m, k) ==
  /\ Op
  /\ Registered(m)
  /\ counter[m][k] > 0
  /\ sealed' = sealed \cup {<<m, k>>}
  /\ UNCHANGED <<registry, deployRows, receiptRows, counter, anchoring, bumps, redeployed, unanchored, restarts>>

\* Mutant: the deployments are replayed and the receipts are not.
FootprintEmpty(m) == {}
\* The second pass of the replay: the keys every receipt wrote are registered again.
Footprint(m) == {k \in StateKey : <<m, k>> \in receiptRows}

\* Mutant: the options of the deployment are not in the block.
ReplayedGateOpen(m, last) == FALSE
\* The rows come in the order of their block ids: either row of a module may be the last one.
ReplayedGate(m, last) == IF <<m, last>> \in deployRows THEN last ELSE ~last

\* The process ends at any await and starts again: replayContracts before the first request.
Restart(last) ==
  /\ restarts < MaxRestarts
  /\ restarts' = restarts + 1
  /\ registry' = [m \in {row[1] : row \in deployRows} |-> [gated |-> ReplayedGate(m, last), footprint |-> Footprint(m)]]
  /\ unanchored' = (unanchored \/ \E b \in anchoring : ~Written(b))
  /\ anchoring' = {}
  /\ UNCHANGED <<deployRows, receiptRows, counter, sealed, bumps, redeployed, ops>>

OpsNext ==
  \/ \E m \in Module, g \in BOOLEAN : Deploy(m, g)
  \/ \E m \in Module, k \in StateKey : SettlementSeal(m, k) \/ \E a \in BOOLEAN : CallContract(m, k, a)
  \/ \E b \in anchoring, refused \in BOOLEAN : AnchorContractTx(b, refused)
  \/ \E last \in BOOLEAN : Restart(last)

OpsSpec == OpsInit /\ [][OpsNext]_opsVars

----------------------------------------------------------------------------
\* A restart forgets nothing: the counter of a contract is the number of its calls, across restarts,
\* as long as it was deployed once and every block was written before the process ended.
CounterSurvives ==
  ~unanchored => \A m \in Module \ redeployed : counter[m] = bumps[m]

\* A restart does not open a gated contract, and loses none that has its block.
GateSurvives ==
  /\ \A m \in Module \ redeployed : Registered(m) /\ <<m, TRUE>> \in deployRows => registry[m].gated
  /\ \A row \in deployRows : Registered(row[1])
=============================================================================
