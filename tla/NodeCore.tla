------------------------------- MODULE NodeCore -------------------------------
(***************************************************************************)
(* One node from boot to exit (core/index.js, lead-worker.js, the role     *)
(* table of node-config.js, the boot order of bin/xmbl-node.js): start()   *)
(* step by step over stores that open on their own, the work that its      *)
(* listeners, timers and callers begin and that ends after awaits, the     *)
(* suspension of a node that runs behind, and stop().                      *)
(***************************************************************************)
EXTENDS Integers, FiniteSets

CONSTANTS
  Configs,      \* the sets of roles a config file may ask for
  V2,           \* XPC_CONSENSUS_V2
  MaxBoots, MaxJobs

VARIABLES
  roles,        \* what this node's config asks for; what it leaves out is off
  boot,         \* where start() and stop() are
  stores,       \* [ledger, state]: "opening", "open", "closed"
  xid,          \* the node's identity: "none", "keystore", or one made at start
  self,         \* the address the network wiring announces and the worker validates under
  gossip, computeNode, contractHost, validationWorker, leadWorker,   \* what has been built
  timers,       \* intervals that are set
  suspended,
  busy,         \* Job -> how the work in progress began
  served,       \* the control socket answers
  boots, jobs,
  wrote         \* history: what ended how: <<job, how it began, the stores at its end>>

nodeVars == <<roles, boot, stores, xid, self, gossip, computeNode, contractHost, validationWorker, leadWorker, timers, suspended, busy, served,
              boots, jobs, wrote>>

Job == {"submit", "validate", "finalize", "retry", "seal", "reap"}
Store == {"ledger", "state"}
All(S) == [s \in Store |-> S]

\* loadConfig: every role is a Boolean that is off unless the file says otherwise.
role(r) == r \in roles

\* A process as the constructor leaves it: the stores are opening, and the lead worker listens already.
Fresh ==
  /\ boot' = "built" /\ stores' = All("opening") /\ xid' = "none" /\ self' = "none"
  /\ gossip' = FALSE /\ computeNode' = FALSE /\ contractHost' = FALSE /\ validationWorker' = FALSE
  /\ leadWorker' = role("lead") /\ timers' = {} /\ suspended' = FALSE /\ busy' = [j \in Job |-> "no"] /\ served' = FALSE
Init ==
  /\ roles \in Configs
  /\ boot = "built" /\ stores = All("opening") /\ xid = "none" /\ self = "none"
  /\ gossip = FALSE /\ computeNode = FALSE /\ contractHost = FALSE /\ validationWorker = FALSE
  /\ leadWorker = role("lead") /\ timers = {} /\ suspended = FALSE /\ busy = [j \in Job |-> "no"] /\ served = FALSE
  /\ boots = 0 /\ jobs = 0 /\ wrote = {}

StoreOpens(s) ==
  /\ stores[s] = "opening" /\ stores' = [stores EXCEPT ![s] = "open"]
  /\ UNCHANGED <<roles, boot, xid, self, gossip, computeNode, contractHost, validationWorker, leadWorker, timers, suspended, busy, served,
                 boots, jobs, wrote>>

----------------------------------------------------------------------------
\* setIdentity, which the daemon calls with the keystore's identity before start().
SetIdentity ==
  /\ boot = "built" /\ xid = "none" /\ xid' = "keystore" /\ boot' = "bound"
  /\ UNCHANGED <<roles, stores, self, gossip, computeNode, contractHost, validationWorker, leadWorker, timers, suspended, busy, served, boots,
                 jobs, wrote>>

\* xn.start(), then the join on the two stores.
\* Mutant: start() goes on while the stores rehydrate.
StoresJoinedNot == TRUE
StoresJoined == \A s \in Store : stores[s] = "open"
StartNetwork ==
  /\ boot = "bound" /\ boot' = "network"
  /\ UNCHANGED <<roles, stores, xid, self, gossip, computeNode, contractHost, validationWorker, leadWorker, timers, suspended, busy, served,
                 boots, jobs, wrote>>

\* Gossip, then the compute node and the contract host; contracts without compute end the start.
ContractsRefused == role("contracts") /\ ~role("compute")
BuildRoles ==
  /\ boot = "network" /\ StoresJoined
  /\ gossip' = TRUE
  /\ computeNode' = role("compute") /\ contractHost' = (role("compute") /\ role("contracts"))
  /\ boot' = IF ContractsRefused THEN "refused" ELSE "roles"
  /\ UNCHANGED <<roles, stores, xid, self, validationWorker, leadWorker, timers, suspended, busy, served, boots, jobs, wrote>>

\* Mutant: start() always makes an identity.
IdentityAtStartMinted(x) == "minted"
IdentityAtStart(x) == IF x = "none" THEN "minted" ELSE x
\* The identity, the validation worker under its address, and _setupConsensusNetwork with its timers.
Wire ==
  /\ boot = "roles"
  /\ xid' = IdentityAtStart(xid) /\ self' = xid'
  /\ validationWorker' = role("validate")
  /\ timers' = {"presence", "leadWatch", "reap"} \cup (IF V2 THEN {"retry", "seal"} ELSE {})
  /\ boot' = "running"
  /\ UNCHANGED <<roles, stores, gossip, computeNode, contractHost, leadWorker, suspended, busy, served, boots, jobs, wrote>>

\* createControlServer, the OTA loop and the canonical feed come after start() has returned.
Serve ==
  /\ boot = "running" /\ ~served /\ served' = TRUE
  /\ UNCHANGED <<roles, boot, stores, xid, self, gossip, computeNode, contractHost, validationWorker, leadWorker, timers, suspended, busy,
                 boots, jobs, wrote>>

\* suspend and resume, by the OTA loop.
Suspend ==
  /\ served /\ boot = "running" /\ suspended' = ~suspended
  /\ UNCHANGED <<roles, boot, stores, xid, self, gossip, computeNode, contractHost, validationWorker, leadWorker, timers, busy, served, boots,
                 jobs, wrote>>

----------------------------------------------------------------------------
\* Mutant: submitTransaction does not look at the suspension.
MaySubmitAlways == served /\ xid # "none"
\* submitTransaction: refused while suspended, and without an identity.
MaySubmit == served /\ ~suspended /\ xid # "none"
\* The retry tick and the seal rounds look at the suspension; the validation worker, the lead worker and
\* the reaper do not.
May(j) ==
  CASE j = "submit" -> MaySubmit
    [] j = "validate" -> validationWorker /\ gossip
    [] j = "finalize" -> leadWorker /\ gossip /\ self # "none"
    [] j = "retry" -> "retry" \in timers /\ ~suspended
    [] j = "seal" -> "seal" \in timers /\ ~suspended
    [] j = "reap" -> "reap" \in timers
Begin(j) ==
  /\ May(j) /\ busy[j] = "no" /\ jobs < MaxJobs /\ jobs' = jobs + 1
  /\ busy' = [busy EXCEPT ![j] = IF boot \in {"stopping", "closed"} THEN "late" ELSE IF suspended THEN "suspended" ELSE "yes"]
  /\ UNCHANGED <<roles, boot, stores, xid, self, gossip, computeNode, contractHost, validationWorker, leadWorker, timers, suspended, served,
                 boots, wrote>>
\* The work's last await is over: it writes the stores.
End(j) ==
  /\ busy[j] # "no" /\ busy' = [busy EXCEPT ![j] = "no"]
  /\ wrote' = wrote \cup {<<j, busy[j], stores["ledger"]>>, <<j, busy[j], stores["state"]>>}
  /\ UNCHANGED <<roles, boot, stores, xid, self, gossip, computeNode, contractHost, validationWorker, leadWorker, timers, suspended, served,
                 boots, jobs>>

----------------------------------------------------------------------------
\* Mutant: the retry and the seal timer run on.
StopClearsSome == {"presence", "leadWatch"}
StopClears == {"presence", "leadWatch", "retry", "seal"}
\* shutdown and stop(): the socket, the timers, the two workers, the gossip batch, then the network.
Stop ==
  /\ boot = "running" /\ served
  /\ served' = FALSE /\ timers' = timers \ StopClears
  /\ validationWorker' = FALSE /\ leadWorker' = FALSE
  /\ boot' = "stopping"
  /\ UNCHANGED <<roles, stores, xid, self, gossip, computeNode, contractHost, suspended, busy, boots, jobs, wrote>>
\* closeLevelDb, one store after another.
Close(s) ==
  /\ boot = "stopping" /\ stores[s] = "open" /\ (s = "state" => stores["ledger"] = "closed")
  /\ stores' = [stores EXCEPT ![s] = "closed"]
  /\ boot' = IF s = "state" THEN "closed" ELSE boot
  /\ UNCHANGED <<roles, xid, self, gossip, computeNode, contractHost, validationWorker, leadWorker, timers, suspended, busy, served, boots, jobs,
                 wrote>>
\* process.exit after a stop or a refused start, or a crash, and the next boot.
Exit ==
  /\ boots < MaxBoots /\ boots' = boots + 1
  /\ Fresh
  /\ UNCHANGED <<roles, jobs, wrote>>

Next == \/ (\E s \in Store : StoreOpens(s) \/ Close(s))
        \/ SetIdentity \/ StartNetwork \/ BuildRoles \/ Wire \/ Serve \/ Suspend \/ Stop \/ Exit
        \/ \E j \in Job : Begin(j) \/ End(j)

NodeSpec == Init /\ [][Next]_nodeVars

----------------------------------------------------------------------------
\* start(): "boot is not done until both have resolved": nothing is written, and nothing is answered,
\* over a store that is still rehydrating.
ReadyFirst ==
  /\ \A w \in wrote : w[3] # "opening"
  /\ served => StoresJoined \/ \E s \in Store : stores[s] = "closed"

\* stop(): only what was under way when it ran, and the reaper whose timer it leaves, meet a closed store.
QuietAfterStop == \A w \in wrote : w[3] = "closed" => w[2] # "late" \/ w[1] = "reap"

\* submitTransaction and the two timers: a suspended node begins no submission, no retry and no seal round.
HeldBack == \A w \in wrote : w[2] = "suspended" => w[1] \notin {"submit", "retry", "seal"}

\* "the node's address stays stable across restarts": a running node announces and validates under the
\* keystore's address, however often it was restarted.
AddressKept == self \in {"none", "keystore"}

\* "FAIL LOUDLY, NEVER SILENTLY HALF-ON": a node that answers has a host for the contracts role it announces.
NotHalfOn == served => (role("contracts") <=> contractHost) /\ (contractHost => computeNode)

\* The node's life: the five above.
NodeSound == ReadyFirst /\ QuietAfterStop /\ HeldBack /\ AddressKept /\ NotHalfOn

\* "a suspended node validates nothing on stale code": no validation is begun by a suspended node.
ValidatesNothing == \A w \in wrote : w[1] = "validate" => w[2] # "suspended"
=============================================================================
