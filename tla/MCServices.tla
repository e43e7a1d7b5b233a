------------------------------ MODULE MCServices ------------------------------
(***************************************************************************)
(* The processes around the chain, on small instances: the daemon, the     *)
(* wiring of a node, updates, the network, gossip, the tiers of the        *)
(* mempool, storage, computing, and the programs a person drives a chain   *)
(* with.  They share no state, so each behaviour exercises one of them,    *)
(* the one Init chooses. The comment of each part, in the module it comes  *)
(* from, names the races that the part leaves out.  The parts that are     *)
(* proved about keep their constants, which the configuration gives        *)
(* values; the others have theirs where they are instantiated.             *)
(***************************************************************************)
EXTENDS Integers, Sequences, FiniteSets

CONSTANTS
  Pid, dir,                                                               \* Daemon
  Configs, V2, MaxBoots, MaxWork,                                         \* NodeCore
  MaxVersion, OffTrack, Broken, MinWait, MaxWait, MaxClock, MaxLooks,     \* Release
  Box, Self, Given, Target, MaxConnections, MaxFailures, BookMax, Rekeyed, MaxKey, MaxDeaths,     \* Network
  Consumer, MinGap, MaxGap, MaxIdle,                                      \* RandomWalk
  GossipPeer, Old, GossipTx, MaxTs, MaxRetries, MaxStarts, MaxEvict,      \* Gossip
  RateClient, MaxRate, RateWindow, MaxRateClock, MaxRateCalls,            \* CacheAndLimiter, its limiters
  CacheKey, CacheValue, CacheSize, Ttls, MaxCacheNow, MaxTouch,           \* CacheAndLimiter, its cache
  Ip, Response, Unmeasured, Timeout, Rotation, MaxSeats, MaxElectionNow, MaxPulses,        \* LeaderElection
  Tx, Leader, Sender, Ttl, MaxTombs, MaxNow, MaxCrash, MaxRuns,           \* Tiers
  Shard, Size, Capacity, StorageCaller, MaxStorageOps, MaxStorageCrash, MaxProbe,  \* Storage
  Task, Slot, MaxPages, HostGives, Allowed, Deadline, MaxJobs,            \* Compute
  Call, SimulatorTx, Available, InitialIds, MaxOps, MaxTurns,             \* Simulator: calls of start(), also those of Desktop
  Request, Wanted, MaxRequests, MaxDisposals,                             \* Simulator: the development net
  MaxCalls, MaxWindows                                                    \* Desktop

VARIABLES
  focus,
  colocated, pc, tries, holds, machineLock, pidFile, sockFile, store, lockRaced, pidRaced,
  roles, nodeBoot, stores, xid, self, nodeGossip, computeNode, contractHost, validationWorker,
    leadWorker, nodeTimers, suspended, busy, served, boots, jobs, wrote,
  published, tagOff, updatesRunning, diskVersion, stage, latest, suspendedAt, graceOver, owner, mode,
    npmLock, otherAt, trigger, lookClock, looks, npmRaced, stranded, lateDetach,
  keyOf, up, nodeUp, held, connections, connecting, addrs, resolved, pending, book, file, prev, saveAt,
    saved, lateConnect, deaths,
  consumer, walking, loop, aborted, controller, needNext, idle, waited, listeners, shutDown,
  caps, batchOk, task, ingested, claimed, gossipMinted, myReports, retries, outbox, wire, hasTx,
    pendingReports, counted, gossipStarts, evictions, exposed, remade,
  finalizes, rawTx, rawRow, tasks, byTx, taskRow, writes, lockedUtxo, lockRow, processingTx, txAt, txRow,
    tombs, tiersNow, crashes, runs, unlockedEarly, leaked, stray,
  durable, volatile, dataRows, metaRows, ramRows, shards, used, opAt, probe, proofs, available, provedBy,
    storageRaced, cut, quotaRaced, storeOps, storeCrashes,
  worker, settled, computeJobsRun, jobsStarted, bills, finishes,
  guard, simulatorRunning, simulatorCalls, ids, leaders, have, inst, leadersSet, simulatorTimers,
    statsTimers, inflight, tx, ops, turns, simulatorStarts, validated, overtaken,
  devnetRunning, ledger, verifies, identities, devnetMinted, ledgers, req, seq, applied, submitted,
    landed, rejected, requests, disposals, connected, nodeRunning, reported, unverified, overlapped,
    disordered,
  desktopBoot, desktopRunning, net, ledgerOpen, desktopGossip, balanceTimer, statusTimer, call,
    desktopCalls, windows, made, quitting, exited, told, desktopRaced,
  cacheNow, entry, accessOrder, touch, usedAt, written, got,
  clock, buckets, granted, refusedAt, junkCounts, throttled,
  electionNow, uptime, currentLeaders, lastElection, pulses, electedAt

daemonVars == <<colocated, pc, tries, holds, machineLock, pidFile, sockFile, store, lockRaced, pidRaced>>
nodeVars == <<roles, nodeBoot, stores, xid, self, nodeGossip, computeNode, contractHost,
    validationWorker, leadWorker, nodeTimers, suspended, busy, served, boots, jobs, wrote>>
updatesVars == <<published, tagOff, updatesRunning, diskVersion, stage, latest, suspendedAt, graceOver,
    owner, mode, npmLock, otherAt, trigger, lookClock, looks, npmRaced, stranded, lateDetach>>
networkVars == <<keyOf, up, nodeUp, held, connections, connecting, addrs, resolved, pending, book, file,
    prev, saveAt, saved, lateConnect, deaths>>
walkVars == <<consumer, walking, loop, aborted, controller, needNext, idle, waited, listeners, shutDown>>
gossipVars == <<caps, batchOk, task, ingested, claimed, gossipMinted, myReports, retries, outbox, wire,
    hasTx, pendingReports, counted, gossipStarts, evictions, exposed, remade>>
tiersVars == <<finalizes, rawTx, rawRow, tasks, byTx, taskRow, writes, lockedUtxo, lockRow, processingTx,
    txAt, txRow, tombs, tiersNow, crashes, runs, unlockedEarly, leaked, stray>>
storageVars == <<durable, volatile, dataRows, metaRows, ramRows, shards, used, opAt, probe, proofs,
    available, provedBy, storageRaced, cut, quotaRaced, storeOps, storeCrashes>>
computeVars == <<worker, settled, computeJobsRun, jobsStarted, bills, finishes>>
simulatorVars == <<guard, simulatorRunning, simulatorCalls, ids, leaders, have, inst, leadersSet,
    simulatorTimers, statsTimers, inflight, tx, ops, turns, simulatorStarts, validated, overtaken>>
devnetVars == <<devnetRunning, ledger, verifies, identities, devnetMinted, ledgers, req, seq, applied,
    submitted, landed, rejected, requests, disposals, connected, nodeRunning, reported, unverified,
    overlapped, disordered>>
desktopVars == <<desktopBoot, desktopRunning, net, ledgerOpen, desktopGossip, balanceTimer, statusTimer,
    call, desktopCalls, windows, made, quitting, exited, told, desktopRaced>>
cacheVars == <<cacheNow, entry, accessOrder, touch, usedAt, written, got>>
limiterVars == <<clock, buckets, granted, refusedAt, junkCounts, throttled>>
electionVars == <<electionNow, uptime, currentLeaders, lastElection, pulses, electedAt>>

\* No process has the number that stands for none.
ASSUME PidAssumption == Pid \subseteq Nat \ {0}

\* Versions count up from one on their track; a wait before a look takes time and grows to the poll.
ASSUME ReleaseAssumption ==
  /\ MaxVersion \in Nat \ {0} /\ OffTrack \in Nat \ (0 .. MaxVersion)
  /\ MinWait \in Nat \ {0} /\ MaxWait \in Nat /\ MinWait <= MaxWait

\* The calls of walk() are finitely many.
ASSUME ConsumerAssumption == IsFiniteSet(Consumer)

\* The peers on the release before batches are among the peers.
ASSUME OldAssumption == Old \subseteq GossipPeer

\* The leads that hold tasks are finitely many.
ASSUME LeaderAssumption == IsFiniteSet(Leader)

\* Shards have sizes, and a node a capacity.
ASSUME ShardAssumption == Size \in [Shard -> Nat] /\ Capacity \in Nat

\* A cache has room for something, and times to live are times.
ASSUME CacheAssumption == CacheSize \in Nat \ {0} /\ Ttls \subseteq Nat

\* A measured response took some time; the timeout is a time, and leaders are counted.
ASSUME PulseAssumption == Response \ {Unmeasured} \subseteq Nat /\ Timeout \in Nat /\ MaxSeats \in Nat

\* A client may make at least one request in a window.
ASSUME RateAssumption == MaxRate \in Nat \ {0} /\ RateWindow \in Nat

\* Limits are numbers, a memory has at least a page, and what a job declares of its memory are numbers.
ASSUME TaskAssumption ==
  /\ MaxPages \in Nat \ {0} /\ Deadline \in Nat
  /\ \A j \in Task : j.memory.count \in Nat /\ j.memory.max \in Int

\* How many identities a simulator and a development net begin with are numbers.
ASSUME IdentitiesAssumption == InitialIds \in Nat /\ Wanted \in Nat

Processes == INSTANCE Daemon

Node == INSTANCE NodeCore WITH
  MaxJobs <- MaxWork, boot <- nodeBoot, gossip <- nodeGossip, timers <- nodeTimers

Updates == INSTANCE Release WITH
  running <- updatesRunning

Net == INSTANCE Network

Walks == INSTANCE RandomWalk

Batches == INSTANCE Gossip WITH
  Peer <- GossipPeer, Tx <- GossipTx, minted <- gossipMinted, starts <- gossipStarts

Pool == INSTANCE Tiers WITH now <- tiersNow

Shards == INSTANCE Storage WITH
  Caller <- StorageCaller, MaxOps <- MaxStorageOps, MaxCrash <- MaxStorageCrash, raced <- storageRaced

Jobs == INSTANCE Compute WITH Job <- Task

Sim == INSTANCE Simulator WITH
  Tx <- SimulatorTx, running <- simulatorRunning, calls <- simulatorCalls, timers <- simulatorTimers,
    starts <- simulatorStarts, minted <- devnetMinted

Desk == INSTANCE Desktop WITH
  boot <- desktopBoot, running <- desktopRunning, gossip <- desktopGossip, calls <- desktopCalls,
    raced <- desktopRaced

Tables == INSTANCE CacheAndLimiter WITH
  Key <- CacheKey, Value <- CacheValue, MaxSize <- CacheSize, MaxNow <- MaxCacheNow,
  Client <- RateClient, MaxRequests <- MaxRate, WindowMs <- RateWindow, MaxClock <- MaxRateClock, MaxCalls <- MaxRateCalls,
  now <- cacheNow

Seats == INSTANCE LeaderElection WITH
  None <- Unmeasured, Seats <- MaxSeats, MaxNow <- MaxElectionNow, now <- electionNow

Init ==
  /\ focus \in {"daemon", "node", "updates", "network", "walk", "gossip", "tiers", "storage", "compute",
    "simulator", "devnet", "desktop", "cache", "limiter", "flood",
    "election"}
  /\ Processes!Init /\ Node!Init /\ Updates!Init /\ Net!Init /\ Walks!Init /\ Batches!Init /\ Pool!Init /\ Shards!Init /\ Jobs!Init /\ Sim!SimInit /\ Sim!DevInit /\ Desk!Init /\ Tables!CacheInit /\ Tables!LimiterInit /\ Seats!Init
  /\ focus # "daemon" => colocated = FALSE
  /\ focus # "node" => roles = CHOOSE c \in Configs : TRUE
  /\ focus # "network" => keyOf[Self] = 1
  /\ focus # "updates" => owner.kind = "nobody" /\ npmLock = "none"
  /\ focus # "tiers" => finalizes = TRUE
  /\ focus # "storage" => volatile = FALSE
  /\ focus # "simulator" => guard = FALSE

Next ==
  /\ UNCHANGED focus
  /\ \/ /\ focus = "daemon" /\ Processes!Next
        /\ UNCHANGED <<nodeVars, updatesVars, networkVars, walkVars, gossipVars, tiersVars, storageVars,
             computeVars, simulatorVars, devnetVars, desktopVars, cacheVars, limiterVars, electionVars>>
     \/ /\ focus = "node" /\ Node!Next
        /\ UNCHANGED <<daemonVars, updatesVars, networkVars, walkVars, gossipVars, tiersVars,
             storageVars, computeVars, simulatorVars, devnetVars, desktopVars, cacheVars, limiterVars,
             electionVars>>
     \/ /\ focus = "updates" /\ Updates!Next
        /\ UNCHANGED <<daemonVars, nodeVars, networkVars, walkVars, gossipVars, tiersVars, storageVars,
             computeVars, simulatorVars, devnetVars, desktopVars, cacheVars, limiterVars, electionVars>>
     \/ /\ focus = "network" /\ Net!Next
        /\ UNCHANGED <<daemonVars, nodeVars, updatesVars, walkVars, gossipVars, tiersVars, storageVars,
             computeVars, simulatorVars, devnetVars, desktopVars, cacheVars, limiterVars, electionVars>>
     \/ /\ focus = "walk" /\ Walks!Next
        /\ UNCHANGED <<daemonVars, nodeVars, updatesVars, networkVars, gossipVars, tiersVars,
             storageVars, computeVars, simulatorVars, devnetVars, desktopVars, cacheVars, limiterVars,
             electionVars>>
     \/ /\ focus = "gossip" /\ Batches!Next
        /\ UNCHANGED <<daemonVars, nodeVars, updatesVars, networkVars, walkVars, tiersVars, storageVars,
             computeVars, simulatorVars, devnetVars, desktopVars, cacheVars, limiterVars, electionVars>>
     \/ /\ focus = "tiers" /\ Pool!Next
        /\ UNCHANGED <<daemonVars, nodeVars, updatesVars, networkVars, walkVars, gossipVars, storageVars,
             computeVars, simulatorVars, devnetVars, desktopVars, cacheVars, limiterVars, electionVars>>
     \/ /\ focus = "storage" /\ Shards!Next
        /\ UNCHANGED <<daemonVars, nodeVars, updatesVars, networkVars, walkVars, gossipVars, tiersVars,
             computeVars, simulatorVars, devnetVars, desktopVars, cacheVars, limiterVars, electionVars>>
     \/ /\ focus = "compute" /\ Jobs!Next
        /\ UNCHANGED <<daemonVars, nodeVars, updatesVars, networkVars, walkVars, gossipVars, tiersVars,
             storageVars, simulatorVars, devnetVars, desktopVars, cacheVars, limiterVars, electionVars>>
     \/ /\ focus = "simulator" /\ Sim!SimNext
        /\ UNCHANGED <<daemonVars, nodeVars, updatesVars, networkVars, walkVars, gossipVars, tiersVars,
             storageVars, computeVars, devnetVars, desktopVars, cacheVars, limiterVars, electionVars>>
     \/ /\ focus = "devnet" /\ Sim!DevNext
        /\ UNCHANGED <<daemonVars, nodeVars, updatesVars, networkVars, walkVars, gossipVars, tiersVars,
             storageVars, computeVars, simulatorVars, desktopVars, cacheVars, limiterVars, electionVars>>
     \/ /\ focus = "desktop" /\ Desk!Next
        /\ UNCHANGED <<daemonVars, nodeVars, updatesVars, networkVars, walkVars, gossipVars, tiersVars,
             storageVars, computeVars, simulatorVars, devnetVars, cacheVars, limiterVars, electionVars>>
     \/ /\ focus = "cache" /\ Tables!CacheNext
        /\ UNCHANGED <<daemonVars, nodeVars, updatesVars, networkVars, walkVars, gossipVars, tiersVars,
             storageVars, computeVars, simulatorVars, devnetVars, desktopVars, limiterVars, electionVars>>
     \/ /\ focus = "limiter" /\ Tables!LimiterNext
        /\ UNCHANGED <<daemonVars, nodeVars, updatesVars, networkVars, walkVars, gossipVars, tiersVars,
             storageVars, computeVars, simulatorVars, devnetVars, desktopVars, cacheVars, electionVars>>
     \/ /\ focus = "flood" /\ Tables!FloodNext
        /\ UNCHANGED <<daemonVars, nodeVars, updatesVars, networkVars, walkVars, gossipVars, tiersVars,
             storageVars, computeVars, simulatorVars, devnetVars, desktopVars, cacheVars, electionVars>>
     \/ /\ focus = "election" /\ Seats!Next
        /\ UNCHANGED <<daemonVars, nodeVars, updatesVars, networkVars, walkVars, gossipVars, tiersVars,
             storageVars, computeVars, simulatorVars, devnetVars, desktopVars, cacheVars, limiterVars>>

vars == <<focus, daemonVars, nodeVars, updatesVars, networkVars, walkVars, gossipVars, tiersVars,
    storageVars, computeVars, simulatorVars, devnetVars, desktopVars, cacheVars, limiterVars, electionVars>>

Spec == Init /\ [][Next]_vars

\* At most one process writes a store and a node that runs can be reached, whatever order processes
\* start, stop and clear stale files in; and a node starts nothing before its stores are read,
\* leaves nothing running after stop, holds work back while it is suspended and never half of a
\* role.
LifecycleSound ==
  /\ focus = "daemon" => Processes!OneNode /\ Processes!Reachable
  /\ focus = "node" => Node!NodeSound

\* A node runs only what was released on its track, looks less and less often for what does not
\* come, is never left stopped by an update that nobody restarts, and one npm at a time writes the
\* installation.
UpdatesSound == focus = "updates" => Updates!OnlyReleased /\ Updates!LooksThinOut /\ Updates!NotStranded /\ Updates!OneNpm

\* The address book survives a death during its save, the given addresses keep being dialled, the
\* connections counted are those held; a random walk serves every consumer and leaves no listener
\* behind; a node gives a transaction one timestamp, and sends batches only to peers that can read
\* them.
MeshSound ==
  /\ focus = "network" => Net!BookSurvives /\ Net!StillDialing /\ Net!Tracked
  /\ focus = "walk" => Walks!WalkServed /\ Walks!NoLeak
  /\ focus = "gossip" => Batches!OneTimestamp /\ Batches!ReadableBatches

\* The tiers of the mempool agree with each other, with the tasks and the locks and, once the
\* writes under way have ended, with their rows, through every move, eviction, sweep and restart.
TiersSound == focus = "tiers" => Pool!TiersSound

\* What a storage node answered it holds is there and within its capacity, and a proof it gives is
\* of the bytes it has, though calls overlap and it dies between two rows.
StorageSound == focus = "storage" => Shards!Custody /\ Shards!ProvenHeld

\* A job is settled and billed once, whichever of its answer, its deadline and its crash comes
\* first, and it never gets an import or a memory beyond what is allowed.
ComputeSound == focus = "compute" => Jobs!BilledOnce /\ Jobs!Isolated

\* The simulator is quiet once stopped and counts each transaction once through consensus; the
\* development net applies what is signed, accounts for each request and tells the truth about
\* running; the desktop application is in the state it last told, and leaves in order.
ToolsSound ==
  /\ focus = "simulator" => Sim!SimulatorSound
  /\ focus = "devnet" => Sim!DevnetSound
  /\ focus = "desktop" => Desk!DesktopSound

\* A client, or a peer that relays, gets no more than two windows allow, and is refused only within one
\* and told so once.
RatesSound ==
  /\ focus = "limiter" => Tables!LimiterSound
  /\ focus = "flood" => Tables!FloodSound

\* The cache answers only what was last written and not yet expired and keeps its order of use; rates
\* are kept; an election keeps its last round and seats the best of who is known.
LimitsSound ==
  /\ focus = "cache" => Tables!CacheSound
  /\ RatesSound
  /\ focus = "election" => Seats!ElectionSound

----------------------------------------------------------------------------
(* The instances of the run.                                               *)

\* Three processes, two of them of one directory.
Directories == <<"d", "d", "e">>

\* What a config may ask for: everything, contracts without compute, the lead alone.
RoleSets == {{"lead", "validate", "compute", "contracts"}, {"validate", "contracts"}, {"lead"}}

\* Both transactions spend the same.
Senders == <<"a", "a">>

\* The modules of the simulator that are installed: all, or the first ones.
Installed == {{"xid", "xclt", "xvsm", "xpc"}, {"xid", "xclt"}}

\* Two shards that do not fit together.
Sizes == <<1, 2>>

\* What a job declares of its memory, what it imports, and what it then does.
Memory(n, shared, most) == [count |-> n, shared |-> shared, max |-> most]
ComputeJobs ==
  {[memory |-> m, imports |-> i, exported |-> TRUE, does |-> d] :
     m \in {Memory(0, FALSE, 0), Memory(1, FALSE, 2), Memory(1, FALSE, 3)},
     i \in {{}, {"env.log", "env.evil"}}, d \in {"loops", "returns"}}
  \cup {[memory |-> m, imports |-> {"env.log"}, exported |-> FALSE, does |-> "traps"] :
           m \in {Memory(2, FALSE, 1), Memory(1, TRUE, 1), Memory(1, FALSE, 2)}}
==============================================================================
