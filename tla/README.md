# TLA+ specifications of the XMBL node

This directory holds a TLA+ development for the packages under `packages/`: modules that
model the node and the programs around it, TLC configurations that check them on small
instances, and TLAPS proofs that carry the results about agreement, the validation pipeline, the
ledger, authority, the control socket, the mempool, the mesh, catching up, the state root, the anchoring queue, the daemon, updates and jobs to every size of network and every bound.
It is kept beside the code so that a change to a handler can be held against the action that
models it. `PROJECT.json` has the table from definitions to lines, the hazards, and for every
property a plausible mistake in the code that makes it fail.

Run a check with `tlc -config SealRound_safety.cfg SealRound`, the proofs with
`tlapm SealRoundProofs.tla`, and likewise for `LedgerProofs`, `WorkflowProofs`, `TrustProofs`, `ServicesProofs`, `ResourceProofs`, `MCProgress` and `MCContent`.

## 1. The system

A node takes signed transactions, has a small set of validators attest them, moves the
attested ones to its ledger, and agrees with the other leads on how the ledger's blocks are
grouped: nine blocks make a *face* (level L1), three faces make a *cube* (level L2), and so on.
Everything runs on one JavaScript thread per node, so concurrency inside a node
means interleaving at `await`; between nodes it means gossip that is unordered, repeated
and lossy; on one machine it means processes that share files.

### The chain

| Component | State | Operations | Where the difficulty is | Module |
|---|---|---|---|---|
| Seal-boundary agreement (`seal-round.js`, `seal-agreement.js`) | proposals heard, resolved sets | tick, receive a proposal | votes that change, quorum, loss, restarts | `SealRound` |
| Consensus workflow (`workflow.js`, `validation-worker.js`, handlers of `core/index.js`) | mapping, recorded sets, processed ids | submit, ingest, report, move, finalize, sweeps | every await admits a report, a sweep, another arrival | `Workflow` |
| Mempool tiers and tasks (`mempool.js`, `validation-tasks.js`) | five tiers, two task indexes, locks, tombstones, rows | the writes and moves behind the workflow, reload | rows written behind the caller | `Tiers` |
| Gossip batching, retry (`gossip.js`, `validation-retry.js`) | outbox, stored reports | publish, flush, retry | old peers, lost reports, restart | `Gossip` |
| Cubic ledger (`ledger.js`) | pool, faces, cubes, anchor and eviction lists, rows | admit, evict, seal, adopt, rebuild, rehydrate | one seal is several writes, seven jobs interleave | `Ledger`, abstract: `BlockLife` |
| Placement, geometry (`deterministic-placement.js`, `geometry.js`, `cube-extraction.js`, `membership-backfill.mjs`) | slots, levels, coordinates | seal what is ready, extract, name the cube of a block again | rule against arrival order | `Placement` |
| Faces and cubes as objects (`face.js`, `cube.js`, `placement.js`) | pending blocks, positions, faces, a cached average | add a block, add a face, finalize on either path | values cached before the object is whole | `Faces` |
| Cube sync (`cube-sync-manager.js`) | requests in flight, attempts | advertise, list, fetch, adopt | expiry against a late answer, ids nobody serves | `CubeSync` |
| Canonical feed (`canonical-feed.js`) | the last set, etag | check, fetch, write | cached copies, a feeder beside it | `CanonicalFeed` |
| State machine (`state-machine.js`, `verkle-tree.js`) | keys, trie, diffs, rows | apply, rebuild, forget, reload; insert, delete, prove | overlapping handlers; hashes kept lazily | `StateMachine`, `Verkle` |
| Typed transactions (`micromine.js`, `transaction-validator.js`, `validate.js`) | memo | mine, stamp, check at the door of consensus and of the ledger | a memo that forgets, two doors that must agree | `Micromine` |
| Anchoring queue (`txqueue.js` and its pipeline) | a log | enqueue, drain | crashes, also inside a line | `TxQueue` |

### Trust

| Component | State | Operations | Where the difficulty is | Module |
|---|---|---|---|---|
| Delegation (`delegation.js`, nonce registries) | nonces, burned tokens | verify, burn, sweep | overlapping verifications, clock read once | `Delegation` |
| Key files (`agent-keystore.js`) | master key, identity files | ensure | processes that race and die | `Keystore` |
| Settlement keys (`settlement.js`) | envelopes | mint, seal, release | an address no key controls | `Settlement` |
| Signing (`identity.js`, `signer.js`) | memo | sign, verify | fields added after signing | `Signing` |
| Lattice sealing (`cubic-lwe.js`, `seal.js`) | none | encrypt, add, open | noise | `Sealing` |
| Proofs (`fri.js`, `xzk.js`, `air.js`) | none | prove, verify | degree bounds, blinding, bounds taken from the prover | `ZeroKnowledge` |
| Contracts (`contract-host.js`, `abi.js`) | slots, coins, wiring, guest memory | call, deploy, link, imports | calls are not serialised; narrowing | `ContractHost`, `HostAbi` |
| Control socket (`control-socket.js`) | write lock, last result, readings, registry | rebuild, apply, evict, chain; deploy, call, replay | scan and signature across awaits, restarts | `ControlSocket` |

### Services

| Component | Modules | Where the difficulty is |
|---|---|---|
| Daemon, node wiring, update (`bin/xmbl-node.js`, `core/index.js`, `lead-worker.js`, `release.js`) | `Daemon`, `NodeCore`, `Release` | stale files, work under way at stop, who restarts |
| Networking (`discovery.js`, `peer-cache.js`, `node.js`, `random-walk-leak.js`) | `Network`, `RandomWalk` | re-keyed peers, a death during a save, wind-down |
| Storage and compute (`storage-node.js`, `availability.js`, `sharding.js`, `compute.js`, `compute-node.js`) | `Storage`, `Sharding`, `Compute` | two rows per shard, deadlines |
| Simulator, development net, browser extension, desktop app | `Simulator`, `Desktop` | starts overtaken by stops, lost answers |
| Cache, rate limiter, rate of the ingress guard (`_admitToPool`), leader election | `CacheAndLimiter`, `LeaderElection` | boundaries |

How they interact: the network delivers to `Gossip` and to the handlers of `Workflow`; a finalized
transaction is an admission of `Ledger`; `Ledger` offers its pool to `SealRound` and applies what a round
resolves; every block added is an event for `StateMachine`; `ControlSocket`, also through
`CanonicalFeed`, rewrites both `Ledger` and `StateMachine`; `CubeSync` adopts into `Ledger`; `Daemon` starts `NodeCore`, and `Release`
suspends, installs and restarts it.

What makes the whole correct, in words: no two nodes seal overlapping faces; a block is
sealed once and never lost; a node that lags catches up; a transaction reaches the ledger
once, with the attestation of the validators assigned to it, and does get there; what is evicted
stays out; the root is a function of what was applied; nothing is authorised twice; no call makes value; and
a restart keeps all of that. Section 8 lists where the code falls short of it.

## 2. SealRound: agreement on the seal boundary

`SealRound` has one manager per node. An item is its content key, a natural number, and a set-hash
is the set itself: the code compares digests for equality only, and the member ids beside a digest
are its elements. The state and the code correspond as follows.

* `pool`, `faces` are `_membershipPool` and `_pendingCubeFaces`; `dPool`, `dFaces` are the two
  lists on disk. `todo` holds the finalized transactions the node's ledger has yet to get.
* `heard` is `_peers`, `done` is `_doneOrder` with `_done` as its elements and `_doneMembers` as its tail.
* `net` is the gossip topic, a set: a proposal may be received by anyone, any number of times,
  until it expires.
* `tick[n][k]` says where invocation `k` of the interval callback stands. A seal awaits three
  times (rows, pool, faces), and the step between two awaits is an action: `TickSeal`, `CommitFace`,
  `SavePool`, `SaveFaces`. `TickIdle` and `TickStall` are the ticks that seal nothing.
* `Deliver` is `onPeerProposal`, with both of its outcomes: record the proposal, or answer for a
  set that is already resolved here. `Arrive` is `addSealedBatch` under agreement, `Crash`
  the end of the process and `_rehydratePools`.
* `backed` is a history variable: who proposed what as its own candidate. Vouching for a set one
  merely adopted does not enter it.

`candidatePrefix` is called with one chunk, so a candidate is the lowest `ChunkSize` keys of the
pool. `decideRound` prefers the node's own set among sets with equally many votes; which of several
foreign sets with equal votes wins depends on the order in which they were first heard, and the model leaves it open.

The bounds: three nodes are the least for which a majority is neither one node nor all, three
blocks with chunks of two are the least for which two candidates overlap without being equal, and
block 2 starts in every pool so that nodes can differ on its partner. With two nodes, two restarts
put one restart into each node, or two into one seal.

Two limits show when the constants of a passing run are changed. With a fourth node that is not a lead
(`Node` larger than `Lead` in seal_safety) `NoForkIfOneVote` fails: the quorum is a majority of the
configured leads, while `decideRound` counts whoever proposes. With one restart and chunks of two in seal_laggard
`LaggardCatchesUp` fails: what a node resolved is not on disk, so after a restart it no longer
answers for it.

Fairness in seal_laggard: the timer fires for ever and the writes it awaits end (weak
fairness of a node's tick), and a proposal that is sent for ever is received for ever (strong
fairness of delivery; every tick re-sends). `LaggardCatchesUp` holds inside the window for which
the code vouches, `4 * Vouch` resolved sets. The instance resolves no more sets than that; a node that lags by more
gets no answer, by design, and depends on cube sync.

## 3. Workflow: a transaction's path through one node

`Workflow` models one node of the lead role. Its peers are the environment: they gossip
transactions and reports in any order and repeat them. The state names are the code's
(`raw` for `mempool.rawTx`, `owner` for `rawTxToId`, `leaders` for `rawTxLeaders`, `applied` for
`_appliedReports`, and so on; each is explained where it is declared).

A step ends where the code awaits the disk. This is what splits the handlers:

* An arrival is `Receive` or `Submit` (up to the write of the locks), `AddRaw` (up to the write of
  the entry) and `Register` (mapping, recorded set, tasks, this node's own validation, buffered
  reports). An arrival the pool refuses still registers, as in the code.
* A report is `Report` (guard, dedup, signature check, vote; up to the write of the vote) and
  `Check` (count against the requirement, move). `Cast` is the part of `completeValidation` that all
  its callers share.
* A move is `Check` or `Promote` up to the deletion of the raw row, then `MoveEnd`, then `Finalize`.
* An eviction is `Drain`, `Reap` or the failed signature inside `Cast`, then `ClearEnd`, which deletes the mapping
  once more after the row is gone. `CapSweep` and `BoundSweep` have no such tail.
* `Recover` and `Promote` are the two sweeps for stranded entries, one entry at a time. They run while armed: after a
  boot or a change of the live leads.
* `Crash` loses memory and reloads from disk. Writes count as done when issued, except the two that
  record a vote, either of which a crash may lose. The row of `processingTx` is never on
  disk: its serialization fails on a BigInt and the error is swallowed.

Abstractions: a transaction is its id; its signature is either good or `Forged`, which matters only once the
signer's key is known (`LearnKey`); age is membership in `Aged`, for entries that are not just being added;
the order of addresses in a validator set is dropped. Timestamps and the validated hash are not
modelled, but a second move gets a row of its own, as the hash over different votes would give it.

Run flow_safety (`MCWorkflow`) puts three instances into one run, of which Init chooses: *once*, two peers and the node
itself submit one transaction; *restart*, one submitter, changing leads, both sweeps and a restart; *guarded*, two transactions
of one submitter, one forged, a pool for one, all sweeps. `MovedOnce` is checked in all, `TasksMapped` and `Attested` in
the third. Run flow_live has two transactions, a share of one, and fairness.

The properties mark the line between what the code guarantees and what it does not:

* `MovedOnce` survives several submitters, and it survives restarts and recovery, but not several copies *and* recovery
  (`Churn` in *once*): a transaction has one mapping and one set of applied reports, but as many pool entries as submitters.
* `Advances` fails with two submitters, for the same reason.
* `TasksMapped` needs one copy per transaction. With a second submitter, reaping one copy deletes the mapping
  that points to the other and leaves the tasks.
* `Attested` needs stable leads and no local submission beside a gossiped copy. With `Churn`, the recovery sweep
  re-records a set and keeps the votes; with two copies, a report buffered before its transaction is
  applied without the check that its sender is assigned.
* An arrival refused for its submitter's share is remembered in `_ingested` and is not looked at again when the share has room.

Bounds: two peers make a validator set of two that may or may not include this node. One
transaction is enough for the properties that speak of one; the cap and the share need two. `PeerMax`
and `PoolMax` are 9, out of reach, except where the scenario is about them. The instances may run
out of arrivals, so deadlock is not checked.

Fairness in flow_live: writes end (weak fairness of admission, check and finalization) and every
validator's report arrives (weak fairness of `Report`), because its sender repeats the stored report while the transaction is stuck
(`validation-retry.js`, which `Gossip` models). The sweeps get no fairness.

`Tiers` is the storage side of the same code: what each tier holds in memory and on disk, with task rows
written behind the caller. `TiersSound` relates the tiers, the two task indexes, the locks and, at rest, the rows. It names three
exceptions: a lock is per sender and goes with the first finalization; an evicted transaction keeps its lock; a
transaction the pool refused still gets tasks.

## 4. Ledger: a block's life, and the refinement

`Ledger` is one node's ledger with agreement on. A step ends where the code awaits the store, and each caller is a *job* with a stage:
admissions, the L1 and the L2 seal, an eviction, an adoption of a synced cube, a canonical rebuild. A transaction is its content key (the
code consults both of its names everywhere), a face is its set of blocks, a cube its set of faces.

`BlockLife` is the abstract specification: each block is out, pooled, faced or sealed; it rises one admission, one face or one cube at a
time; a sealed block stays sealed; below that a block may fall, together with others only in a restart, which neither seals a block nor takes a sealed one down;
only a rebuild takes the chain down and puts it up again. `ImplementsLife` maps the ledger's
maps, including the face that is being sealed, to a block's home, and TLC checks that every step of the ledger is a step of the abstract life or a stutter.

Run ledger_node has three keys of which two are anchors, faces of two blocks, cubes of one face, two restarts, four requests, one foreign cube and one
canonical set to rebuild from. A face of two is the least in which one block can be evicted under the other: with faces of one block no face is ever short, and
what a restart does to the rest of a short face cannot be seen. The proofs of section 9 carry the results to cubes of several faces. It checks besides:

* `AnchorOnce`: an anchor is pooled, or in one face, or in one cube. Exceptions: adopted cubes and a rebuild that meets another job, as neither
  looks at what is being sealed.
* `Kept`: a block with a row leaves only by eviction, by rebuild, or by a restart inside one of three writes (`Unsaved`) or after an eviction
  made its face short (`Short`): `_rehydratePools` "drops the face entirely rather than seal it short", and the other blocks of the face with it.
* `EvictedNotRebuilt`: an evicted block comes back only with a job that had it in hand before the eviction.

## 5. Catching up

Run catch_up (`MCProgress`) has the two ways in one run. In `CubeSync` node q misses both cubes of p, nobody can serve cube 1, one
request may be in flight, one message is lost, one node restarts. `Converges`: what somebody can serve everybody gets. In `CanonicalFeed` the broker
publishes three sets, one of which does not apply cleanly, fetches fail or return old copies, and a feeder hands sets over as well. `CatchesUp`: a node nobody feeds any more
reaches the newest set. `TakenOverSound`: an adopted cube is whole, and the node's own check never goes back behind a set that was handed over.

Fairness: the timers run (weak), messages that are not lost are delivered and writes end (weak). Strong fairness is used twice: for delivery to the lagging node,
whose inbox may be refilled by what it ignores, and for a fresh answer of the broker, which may send cached copies any number of times but not for ever.
Each behaviour is in one of the two models, and `way` never changes, so a conjunct that names an action of both is fairness for the one that exists.

## 6. The three collections: content, trust, services

`MCContent`, `MCTrust` and `MCServices` each instantiate many small models. Init chooses `focus`, one of them; its steps are the steps of the behaviour, and
the variables of the others keep one initial value. The parts share no state, so nothing is lost by checking them one at a time, and a property is
`focus = x => ...` for the parts it speaks of. Each part stands on its own: its module has its Init, Next and properties. The parts that are
proved about keep their constants, which `Content.cfg`, `Trust.cfg` and `Services.cfg` give values; the bounds in the tables are those values.

**content** (about 1,320,000 states)

| Property | Part and bounds | What it says |
|---|---|---|
| `RootIsPromise` | `StateMachine`: three keys, a canonical pair, two handlers, four starts, two restarts | at rest the root, the map and the rows are what the ended operations promised, and diffs match their rows |
| `TrieSound` | `Verkle`: four hashes of depth three with shared prefixes, two values | the root depends on the entries only, the shape is canonical, a proof verifies for exactly what is held |
| `NothingLost` | `TxQueue`: four events, two crashes | a queued event is pending or was sent, and is sent a bounded number of times |
| `AcceptedIsContent` | `Micromine`: three contents, one without a sender and one with an impossible amount, three codes, a memo of two | an accepted id is that of its content and type; what consensus admits the ledger accepts, and a sender or the content answers for it; the memo is never wrong; state keys do not collide |
| `PlacementVerifies` | `Placement`: eight blocks, faces of two, two slots; cubes to level 2, thirty cubes; `Faces`: three faces of two, seven blocks, both paths | what is placed verifies, nothing is in two places; coordinates can be read back, extraction is in order; a backfill writes a block at most once and only where it is; the id, root and face indices of a cube depend on its blocks alone |
| `ProofsSound` | `ZeroKnowledge` over the field of 97; `Sealing` with modulus 37 | honest proofs are accepted, a false statement is refused with the same draws, blinding covers what is opened; sums decrypt inside the noise budget, a box opens unaltered or not at all |
| `DecodeSound` | `Sharding`: 2 or 4 data shards, up to 2 parity shards, any loss | with the first parity shard, or none, decoding is exact or refuses |

**trust** (about 890,000 states)

| Property | Part and bounds | What it says |
|---|---|---|
| `AuthorisedOnce` | `Delegation`: two tokens, one nonce, two calls at once, three in all, a restart | a signed action authorises once, by a chain that holds, never after its token was burned |
| `IdentityKept` | `Keystore`: three processes, two agents, one death | every identity on disk loads, and one that was answered is not replaced |
| `FundedIsSweepable` | `Settlement`: three holders, one with a weak ring | a payer's address is one the sealed key controls; release needs what was sealed with it |
| `AcceptedAsSigned` | `Signing`: two keys, two bodies, a memo of one | accepted means as signed; the memo changes no answer |
| `NoMint` | `ContractHost`: two contracts, two coins, two calls at once, cascades of two | value is conserved; a call is all its frames or none |
| `ImportsExact` | `HostAbi`: three bytes of memory, words of two digits | imports stay inside memory and mean what the guest wrote |
| `ContractsSurvive` | contract operations of `ControlSocket`: two modules, four operations, a restart; wiring of `ContractHost`: two codes, four kinds | counters and gates come back; a declared read resolves |
| `SocketSound` | `ControlSocket`: two anchors, two writes, an admission beside them | a signed reading pairs a height and a root held together; evicted stays out; "unchanged" is true |

**services** (about 1,470,000 states)

| Property | Parts | What it says |
|---|---|---|
| `LifecycleSound` | `Daemon` (three processes, two directories), `NodeCore` (three role sets) | one node per machine, reachable while up; nothing before the stores are read, nothing new after stop, nothing begun while suspended by what looks at the suspension |
| `UpdatesSound` | `Release` (three versions, one broken) | only released versions; lookups thin out; nobody is stranded; one npm |
| `MeshSound` | `Network`, `RandomWalk`, `Gossip` | the book survives, given addresses stay candidates, the walk serves, no listener leaks, one timestamp per validator and transaction, batches only to who reads them |
| `TiersSound` | `Tiers` | see section 3 |
| `StorageSound` | `Storage` (two shards, each of which fits and not both, two callers, a crash) | what is known is there, the quota adds up and is within the capacity unless stores overlapped, a verdict is the answer to this probe |
| `ComputeSound` | `Compute` (two slots, nine kinds of job) | a job is settled and billed once and stays isolated |
| `ToolsSound` | `Simulator`, `Desktop` | what is stopped is quiet, what was told is true |
| `LimitsSound` | `CacheAndLimiter`, `LeaderElection` | the order of use is right; at most 2 max - 1 requests in a window; a relaying peer is refused only within a window it used up, and told once; the best runs are seated |

Two things these runs show that a reader of the code may not expect. Without agreement `_finalizeFace` asks for the average of a cube at its first face, and
`getAverageTimestamp` keeps that answer: the row of the cube then has the mean of one face, although `cube.js:9` calls it the "Average of all validator timestamps
from blocks"; on the path of `sealAgreedCube` it is the mean of all (`AverageIsKnown` states both). And `reconstruct` numbers the cubes of each of its two rules from
zero, so two cubes found by different rules may get one sequential index, and their blocks one set of coordinates (`BackfillSound` says it of one rule only; the instance reaches such a pair).

Bounds throughout are the least at which two actors can meet in every stage and a limit (pool, quota, cap, attempts, table) is
reached and passed. Most instances end when their counted inputs are used up, so deadlock is not checked in these runs.

Arithmetic modules keep the code's formulas and scale its numbers: a prime field of 97 with the extension and the folds of `fri.js`, a modulus of 37 for the
lattice, trie depth three, words of two digits. Hashes, signatures and ciphers are terms, equal exactly when their inputs are.

## 7. Runs

| Run | Shows |
|---|---|
| seal_safety | `QuorumBacked`, `NoForkIfOneVote` with three leads (about 315,000 states) |
| seal_restart | `TypeOK`, `NoReuse`, `SealedSurvivesOnceSaved` with two restarts |
| seal_laggard | `LaggardCatchesUp` over a lossy topic |
| seal_fork | `NoFork` is violated: finding 1 |
| flow_safety | `MovedOnce`, `GuardedTasksMapped`, `GuardedAttested` |
| flow_live | `Advances` |
| ledger_node | `AnchorOnce`, `Kept`, `EvictedNotRebuilt`, `ImplementsLife` (about 390,000 states) |
| catch_up | `TakenOverSound`, `Converges`, `CatchesUp` |
| content, trust, services | section 6 |
| decode_wrong | `DecodeExact` is violated: finding 2 |

## 8. What the code does not guarantee

Two disagreements with the code's own comments are kept as runs:

1. *seal_fork*. The pigeonhole argument in `seal-agreement.js` assumes one vote per node, but a node's candidate changes when a lower key joins
   its pool and both votes stay countable. `NoForkIfOneVote` states the argument with the premise it needs, and holds.
2. *decode_wrong*. `decode` takes the number of data shards from the lowest parity index it was given. With the first parity shard lost it is too large,
   another group is taken for the one left, and wrong bytes are returned.

The others are windows that a passing property names as its exception. Where a history variable marks one, removing that variable from the property turns the run into the
counterexample:

* The seal timer has no in-flight guard (`core/index.js`): with two invocation slots `NoReuse` fails.
* A seal writes the shrunk pool before the grown list of faces, and `sealAgreedCube` drops the faces before the cube is written: a restart between the two
  loses the blocks (`SealedSurvives` in `SealRound`, `Unsaved` in `Ledger`).
* A block may be evicted while an admission, past the door, still holds it, and is then pooled (`EvictedStaysOut` in `Ledger` is not a theorem).
* An answer of cube sync that arrives after its request expired is taken without a slot.
* An append after a cut line of the queue's log merges the two lines, and both are lost.
* `forget` deletes the row of a key before the row of its diff. A crash between the two leaves the diff; once every other key is forgotten as well, the next boot finds no rows,
  replays that diff, and the forgotten key is back in the root (`stray` in `StateMachine`).
* A reading that is signed while a write starts, or that counted rows while they changed, may name a pair the node never held
  (`OnlyHeldSigned` in `ControlSocket` is the statement without exceptions).
* Calls of contracts are checked against state that another call is applying (`appliesOverlap`), and a slot may lose a frame (`callsOverlap`).
* A contract's peers may be set by a link whose reads are then refused, or be deployed anew with another ABI.
* With the in-memory nonce registry a restart forgets nonces, as its comment says; a call that began in time may be counted after the nonce was swept.
* Overlapping creations of one agent's identity: the last rename wins, and an earlier answer names a key that is gone.
* `core/index.js:658` says that "a suspended node validates nothing on stale code". The submission, the retry and the seal timer look at the suspension, the validation
  worker does not (`ValidatesNothing` in `NodeCore`).
* A start may take a live process's machine lock for stale, between its creation and its bytes, and goes on without the lock after two attempts; two starts
  may clear the same stale pidfile, the second one after the first node wrote its own.
* A stale install lock may be unlinked after another process replaced it; a launcher may detach after the way to restart was decided.
* `connect()` records a peer 100 ms after the dial, when it may have left. At the connection limit the listener throws and the process ends.
* A batch may go to an old peer that had not been heard from when batching was decided.
* Overlapping stores are checked against a quota that neither has taken yet; a crash inside a delete leaves one of two rows.
* `start()` of simulator, development net and desktop core can be overtaken in its awaits by stop, dispose or another start.
* `release.js:236` says that "each look that does not confirm the claim doubles the wait before the next one". An answer at least as high as the claim resets the wait, also one
  that is off the track and so confirms nothing: while the release tag points at a higher line, every claim costs a look (`Settled` in `Release`; `LooksThinOut` speaks of the looks since a reset).
* The fixed window of the rate limiter admits up to 2 max - 1 requests in one window's time.

## 9. Proofs

`SealRoundProofs` proves, for every set of nodes, leads and blocks and every bound:

1. **TypeCorrect**: `Spec => []TypeOK`.
2. **Backing**: `Spec => []QuorumBacked`. The invariant `BackedInv` says that every proposal in flight or recorded
   is *sound*: its sender had the set as its own candidate, or the set already has a quorum of such nodes. A count
   of sound proposals that reaches the quorum therefore means one of two things, and either gives the quorum
   (`WinnerAgreed`). The invariant extends to the faces on disk and to the seals that wait for a write, since a restart brings the former back and
   the latter become faces later. `QuorumBacked` by itself is not inductive: it says nothing about messages.
3. **PigeonholeHolds**: if exactly the configured leads run rounds, `Spec => []NoForkIfOneVote`. Two
   majorities of one finite set meet (from the cardinality of a union), so a node proposed both sets, and
   with one vote per block they are equal. Without the assumption the statement is false, see section 2.
4. **NoReuseHolds**: if there is one invocation slot, `Spec => []NoReuse`. The invariant `ReuseInv` relates the
   lists in memory to those on disk at each stage of a seal: on disk is what is in memory, or the list of
   faces without its last. `Progress` states that per stage, `Apart` that faces are disjoint from each other and from
   what is unsealed, and also from the blocks that have yet to arrive. With two slots the statement is false, see section 8.
5. **SurvivesHolds**: under the same assumption, `Spec => SealedSurvivesOnceSaved`, an action property. By `Progress` the faces on disk
   are those in memory unless a seal is between its removal and its last write, so a restart then brings all of them back.

The assumptions are those named in `SealRound`: finite nonempty sets, leads among the nodes, natural
content keys, positive chunk size and bounds. Each strengthened invariant was checked with TLC before it was proved.

`LedgerProofs` proves of `LedgerSpec`, for every set of keys, face size, cube size, number of concurrent admissions, restarts and requests:

1. **LedgerTypeCorrect**: `TypeOK`, with what each job holds in its hands at each of its stages (`JobsOK`, `EvictingOK`).
2. **KeptHolds**: `Kept`. The step is only safe because of what is on disk when a restart reads it, so the invariant `SavedOK` says that a block in memory is on disk unless
   one of the named writes is under way; `AdoptingOK` says it of the blocks an adoption takes from the pool, which its cube already holds.
3. **NotRebuiltHolds**: `EvictedNotRebuilt`, from the same invariant.
4. **AnchorOnceHolds**: `AnchorOnce`. The property counts memory and disk together and is far from inductive. `Apart` says of one anchor where it may be at once, for
   memory, for the seal under way and for each list on disk, and `Claimed` that wherever it is its key is still reserved or evicted, so that no second admission passes the door.
5. **LifeHolds**: `ImplementsLife`. The initial states map to the initial state of `BlockLife`; each action of the ledger has a lemma that names the step of the
   abstract life it is, or that it is a stutter. A seal is a face or a cube because the sizes agree (`FaceFacts`), which needs the disjointness of faces from `SavedOK`.

`WorkflowProofs` proves of `Workflow`, for every set of peers and transactions, any requirement, caps and bounds. A lemma (`StepKinds`) first sorts the actions by what they
do to pool, mapping and tasks. Three hypotheses on the constants appear, and each excludes a behaviour that section 3 says breaks the property: `OneSource` (one submitter hands
all transactions over), `HandedOnce` (none hands one over twice: no restart and at most one local submission), `Steady` (the live leads stay). The three instances of flow_safety satisfy them as stated here.

1. **WorkflowTypeCorrect**: `TypeOK`.
2. **MovedOnceHolds**: `MovedOnce`, under `OneSource`, with restarts, changing leads and every sweep; or under `HandedOnce` and `Steady`, with any number of sources.
   Two arguments: with one source a transaction has one place, and once processed that place holds no vote (`OnePlaceInv`); with several, votes are cast in the place that is
   mapped, and a place is mapped to once (`VotesInv`, on top of `ArrivedInv`, by which nothing is admitted twice).
3. **TasksMappedHolds**: `TasksMapped`, under `OneSource` and `HandedOnce`, leads may change. `GuardedTasksMapped` is this property in the third instance. A reaped entry is gone
   for good (`ReapInv`), so the second deletion of its mapping, after the row, finds no tasks.
4. **AttestedHolds**: `Attested`, under all three. `AssignedInv` says that only members of the recorded set hold a task or have voted, and that the set is no larger than required.

`TrustProofs` proves seven invariants of `MCTrust`, each as `Spec => []P` for all values of the part's constants. The parts share no variable, and a lemma per part
(`SocketPart`, `SignaturesPart`, ...) reduces the collection to the part. A proof therefore never cites another part's invariant.

1. **IdentityKeptHolds**. Whoever has read a master key read the one on disk, and whoever is to write its bytes is alone (`OneMaster`); unless an overlap is recorded one process creates
   an agent's identity, and found no file (`OneCreator`). `Loadable` alone is not inductive: it says nothing of a process that has read a key and has yet to use it.
2. **FundedIsSweepableHolds**. Whatever is rewritten on the way, the tag, the holder of the key and the sealed secret stay what was sealed (`TagHolds`), and a release came from the
   envelope as it is (`ReleasedHere`).
3. **AuthorisedOnceHolds**. A pair that authorised and is not excused is in the registry, or its token has expired, so a second call finds it or is late (`Remembered`). A call
   that began under a burned token finds it burned (`Stopped`).
4. **ContractsSurviveHolds**. A contract deployed once has the gate of every block it has, written or under way (`GateAgrees`); while nothing was lost its counters are the
   numbers of its calls, and its deployment and every key it counted in have a block, written or under way (`BlocksAgree`). For the wiring, peers are deployed and the two halves of `LinksSound` are inductive once that is known.
5. **AcceptedAsSignedHolds**. Every entry of the memo holds the answer the primitive would give (`MemoTrue`), whatever its size and eviction, and the signature that travels is the one that was made (`SignedOnce`).
6. **SocketSoundHolds**. `CountRight`: the cached count of blocks is unknown, right, or one the write under way will drop; `PairsHeld`: outside a write the
   height and root are a held pair, and a reading no write started under names one; `LeftThere`: since the last remembered write only admissions happened, so an equal height means equal rows
   (a subset of the same finite size); `EvictedOut`: what is evicted is out of the rows, of the tree once the eviction gets there, and of what a rebuild has yet to write back.
7. **NoMintHolds**. Value is conserved at rest only, so `ValueKept` states what holds while a call is being applied: the books balance for the coins and the marks there will be once the rest of its
   inserts is in (`CoinsOf`, `MarkOf`); an insert then changes nothing (`InsertedKeeps`). A call may make a coin only once because what it made names spent coins as its origin (`Balanced`), which the check of a second one refuses.
   Value is counted in units, so that worth is additive by the cardinality of a disjoint union (`WorthAdds`) and a call's outputs are worth their sum by a bijection (`MintedWorth`), without induction over the ledger.
   `FramesKept`: at most one call has started, its overlay counts its frames on top of the slots (`Tracks`), and a slot that is yet to be written will count them (`Lands`).

Assumptions made there, besides finite constants: the name of a process is none of the two marks of a key file without a key (`ProcAssumption`), dimensions and times are natural numbers
(`RingAssumption`, `ValidityAssumption`), what a deploy says of its bytes is a record of two flags and a number (`KindAssumption`), and a host knows finitely many contracts, whose peers are contracts, and starts with finitely many coins of natural amounts that came from no other (`HostAssumption`). All are evaluated by the run.

`ServicesProofs` proves six invariants of `MCServices` in the same way.

1. **UpdatesSoundHolds**. `OnlyReleased` is inductive once the registry's answer is known to be what was published last or off the track (`RegistryAnswers`). `Paced` carries the
   waits between looks: the last of them is over before the next look, and the trigger's wait is the one after it. An exit that leaves the restart to an owner is
   decided while there is one, and only a detach takes it away (`OwnerInv`); the lock names whoever runs npm until a live one is unlinked (`NpmInv`).
2. **TiersSoundHolds**. The agreement of the tiers, the indexes and the locks is inductive together. That the rows follow is not: `RowsFollow` speaks only of the moment when no write is
   on its way. `WillFollow` says for each lead and transaction that the last write on its way, or the row if there is none, is the task; a batch of writes put behind the others
   (`WritesBehind`) and the oldest write done (`OldestWritten`) keep that.
3. **ComputeSoundHolds**. Runs under way are distinct and an unsettled one has no finish (`RunsApart`), so whichever of message, exit and deadline comes first is the only one to finish and bill
   it (`RunSettles`); a guest's memory stays below the maximum it declared, which `MemoryAllowed` bounds by the cap.
4. **LifecycleSoundHolds**, of the processes of one machine and of a node's wiring. `LockHeld`: until a live lock is taken for a stale one, whoever is past the lock has it, and so is alone;
   `FilesMine`: its files are its own from the moment it writes them. Of the wiring, `Started` says what `start` and `stop` have done at each point, which roles included, and `WorkHeld` that work
   begins over stores that are read and that what begins suspended is none of the jobs that look at the suspension.
5. **MeshSoundHolds**. Of the mesh (`NetInv`): given addresses are never dropped and what answered at one is at its box, so whatever is not held has a candidate of its box. Of the walk (`WalkInv`):
   a loop that runs has its controller or was aborted, and only its end looks for consumers. Of the reports: `OneValue` names for each transaction one value that the store, every report waiting or on the wire
   and every peer agree on, and says that before the task is complete there is none, so that the one step that mints finds nothing to disagree with; a restart keeps the task and with it the invariant.
   `Allows` says that what waits for a flush was let in when batches were allowed.

6. **ToolsSoundHolds**. Of the desktop application (`DeskInv`): a call that stops the core has ended the balance interval before its first await, and while starts and stops do not meet, the flag and the
   network agree whenever no stop is under way. Of the simulator (`SimInv`): without an overtaken start one start runs over idle intervals and whatever the intervals have begun finds leaders (`Undisturbed`);
   in the first start there is one consensus, it has its leaders before it takes a transaction, and what is done and what is due of a transaction add up to the leaders (`FirstStart`). Of the development net
   (`DevInv`): unless starts overlapped, a ledger that no bootstrap fills is whole and verifies (`Bootstrapped`), what was sent since the last disposal is from an identity that this ledger knows (`Carried`), and no
   identity of the present ledger is in a transfer of an earlier one (`Present`); numbers are never used twice (`Numbered`), and message by message each answer tells of the node as it is (`Viewed`).

Assumptions: the waits of the trigger are positive and ordered, as its constructor makes them, and versions off the track compare above it (`ReleaseAssumption`); leads are finitely many
(`LeaderAssumption`); no process has the number that stands for none (`PidAssumption`); the calls of `walk` are finitely many (`ConsumerAssumption`); the peers that cannot read batches are peers (`OldAssumption`); limits are numbers and a memory has at least a page (`TaskAssumption`); the counts of identities are numbers (`IdentitiesAssumption`).

`ResourceProofs` proves **StorageSoundHolds** of `MCServices`, for any shards and sizes, any number of overlapping calls and of crashes. The property speaks of a node at rest; three conjuncts carry it through the awaits.
`OwnShard`: an operation on a shard that is not recorded as raced has it to itself, a store one that is not known and a delete one that is. `RowsKept`: what is known, and what a restart would find, has its bytes on disk
but for shards that raced, were cut or are being deleted, and a deleted shard has lost its metadata before it is forgotten. `QuotaKept`: until stores overlap, the known shards, those with the one store under way,
and what a restart would find all fit. The size of shards is the number of their bytes, counted one by one, so it adds up by the cardinality of a disjoint union (`SizeAdds`) and needs no induction. Assumption (`ShardAssumption`):
sizes and capacity are natural numbers; shards may be infinitely many.

It proves **RatesSoundHolds** and **LimitsSoundHolds** of the limiters, the cache and the election, each with an invariant of its own that counts without adding up.
Of the limiters (`LimiterInv`, `FloodInv`): every grant belongs to one of the windows a bucket was opened for (`Windows`), windows lie apart and no window holds more than the maximum, so any stretch as long as one window meets at most two of them, and never the whole of both: at most one request less than twice the maximum;
a refusal finds the window it falls in used up (`Exhausted`), and cleaning up drops only a bucket whose window is over.
Of the cache (`CacheInv`): the order lists exactly the keys held, each once, by when they were last used (`Ordered`), so its length is their number and its head is the one to evict. Splicing keys out keeps the others in order because
the places left are counted off one by one (`Ranks`).
Of the election (`ElectInv`): what is kept of a node has the count of its last run and, where every response was measured, the mean over it, as an equation of products (`KeptOf`). Response times are added up as the number of their ticks, so that
a longer run is the union of two disjoint sets. `Above` is a strict order of the nodes by count, mean and place, so that those above a node are as many as its rank, ranks are distinct, and those elected are the best of who is known.
Assumptions: a rate allows at least one request and windows have a length (`RateAssumption`); a cache has room for one key and times to live are times (`CacheAssumption`); measured responses, the timeout and the number of seats are
natural numbers (`PulseAssumption`).

`MCProgress` proves **TakenOverSoundHolds**, about the two ways of catching up. `SyncInv` is the property with the types of what travels: an answer names a cube, a cube is adopted only with the members it is
the hash of, and a member that another cube took is among that cube's. `FeedInv`: a clean set that was handed over is being written or is at most what is recorded as held, and that record is
what the check compares with when it starts a write. Assumption (`CubeAssumption`): cubes are finitely many, each of blocks, and nodes start with some of them. The fairness of `Spec` plays no part in it.

`MCContent` proves three invariants of its own, about the parts that compute nothing recursively; the proofs follow its properties.

1. **RootIsPromiseHolds**. Unless something raced, an exclusive handler (a clear, a forget) is alone and `Halted` says exactly what each of its halts has done. Otherwise handlers that apply share the state
   (`Shared`): rows and trie agree, the map is ahead of both by the puts under way, the rows are ahead of the promise by the diffs under way, and a diff is in memory before it has its row. `Known`: a diff of one key is
   of a promised key or one a crash left, which is what a boot from empty rows needs.
2. **NothingLostHolds**. `NothingLost` alone does not survive a mark or a crash. `Clean` adds what the drain holds: its entries wait in the log, each once, and the one between its submit and its mark was sent; and for every event
   what was sent, and one for an entry that waits, less one for the entry in between, is at most the enqueues and the crashes. `AppendDecides` says what one more line does to what waits, `CutDecidesNothing` that a cut line does nothing.
3. **AcceptedIsContentHolds**. `TypedInv`: the memo holds what a search would find, whatever was dropped from it, and a verdict is about the transaction still in hand. The first nonce that fits exists because the natural numbers are well-founded (`MinIsLeast`).

Assumptions: an anchor's keys, blocks and handlers are finite sets and nothing is a key that stands for none (`KeyAssumption`); the search is bounded by a number (`SearchAssumption`).

Proving found six errors in earlier versions of the model and its instance. `ImplementsLife` and `Kept` had been checked with faces of one block, where a restart can neither
drop a short face nor return part of one; the proofs of both steps failed there, and `BlockLife` now has its restart and `Kept` its `Short`.
`Release` reset the wait between looks only for an answer on the track and forgot a claim made during the wait; stating what a wait is for every value led back to `settle` and `offer`, which do neither.

`RootIsPromise` had been checked with one restart and excused only diffs of several keys; its restart step failed for the stray diff of section 8, and TLC finds that behaviour as soon as the instance has two restarts, as it does now.
`NoneStranded` had been stated for simulators of three identities and more; what holds, and is stated now, is that a transaction is stranded only after a second start, or where there are fewer identities than leaders to begin with.
The quota of `StorageSound` had been checked with shards that fit together, so that nothing could exceed it, and a crash made the model forget that two stores had been checked against one reading of the quota. They need not
be on the same shard, and a restart does not cure it: it adds up the rows on disk, which are beyond the capacity. With shards that do not both fit TLC finds that behaviour in the earlier version; `quotaRaced` now outlives a crash.

Only model-checked: liveness (`LaggardCatchesUp`, `Advances`, `Converges`, `CatchesUp`), which is out of the prover's reach; what recursive
definitions compute (trie, transforms, folds, placement: the other parts of content), since induction over data cannot be instantiated by the installed provers; `ImportsExact`, for the same reason (words are sums of digits).

## 10. What is not modelled

* The `lng` compiler: a pure function from programs to wasm bytes, whose correctness needs a semantics of both languages.
* Command line, visualizer, Vue components, popup: user interfaces with no protocol state.
* Configuration files, logging, metrics: read and written whole.
* The Rust crates, which hold stubs, and the example apps and reproductions.
* In `Workflow`: the average of timestamps, an ingestion that fails after it was marked. The ingress guard it starts with is in `Micromine` and `CacheAndLimiter`.
* In the ledger: compaction and the read operations. In the state machine: the wasm executor and sharded assembly.
* A proposal whose sender lies about its node id: proposals are not authenticated by the manager,
  and the model takes senders to be honest.
* libp2p, LevelDB, the signature schemes, SHA-256, HKDF, AES-GCM: external, modelled by how the code uses them.

## 11. Plan

1. Lemmas about placement and the round: ranks are distinct, chunks are disjoint.
2. `SealRound` composed with `Ledger` for both levels, and several `Workflow` nodes with the retry policy in place of the fairness of reports.
