------------------------------- MODULE Workflow -------------------------------
(***************************************************************************)
(* The path of a transaction through one node's consensus pipeline:        *)
(* ConsensusWorkflow (packages/consensus/src/workflow.js) over Mempool,    *)
(* ValidationTaskManager and ValidationWorker, with the report and gossip  *)
(* handlers of core/index.js, on a node that finalizes (the lead role).    *)
(* The peers are the environment: they gossip transactions and reports at  *)
(* any time, in any order, any number of times.                            *)
(*                                                                         *)
(* A step ends where the code awaits the disk.  Awaits that only cross the *)
(* microtask queue do not end a step.  A put counts as durable when it is  *)
(* issued (a crash that loses the last put leaves the disk of a crash one  *)
(* step earlier), except the two that record a vote: a crash before they   *)
(* end may lose either.                                                    *)
(***************************************************************************)
EXTENDS Naturals, FiniteSets

CONSTANTS
  Self,        \* this node's identity address
  Peer,        \* the other validators
  None,        \* no submitter
  Tx,          \* transactions, by rawTxId
  From,        \* From[t]: the id that _extractUtxos locks for t
  Forged,      \* transactions whose signature fails under the signer's key
  Aged,        \* transactions that stay long enough to count as abandoned
  Submitter,   \* the peers that gossip transactions to this node
  Required,    \* requiredValidations
  PeerMax,     \* XPC_PEER_MAX, one submitter's share of the raw pool
  PoolMax,     \* XPC_MEMPOOL_MAX
  Churn,       \* whether the live-lead set changes
  MaxSubmits,  \* bound: local submissions in one behaviour
  MaxCrashes   \* bound: restarts in one behaviour

Validator == Peer \cup {Self}
Slot      == Validator \X Tx     \* <<submitter, rawTxId>>, a place in the raw pool

ASSUME NameAssumption  == Self \notin Peer /\ None \notin Validator /\ IsFiniteSet(Peer)
ASSUME TxAssumption    == IsFiniteSet(Tx) /\ Forged \subseteq Tx /\ Aged \subseteq Tx
ASSUME PeerAssumption  == Submitter \subseteq Peer
ASSUME BoundAssumption ==
  /\ Required \in Nat \ {0} /\ PeerMax \in Nat \ {0} /\ PoolMax \in Nat \ {0}
  /\ Churn \in BOOLEAN /\ MaxSubmits \in Nat /\ MaxCrashes \in Nat

VARIABLES
  raw,        \* mempool.rawTx: what each place of the raw pool holds (disk too)
  owner,      \* rawTxToId
  leaders,    \* rawTxLeaders, {} where it has no entry
  tasks,      \* the tasks each validator holds for each transaction (disk too)
  locked,     \* mempool.lockedUtxo (disk too)
  tombs,      \* mempool._tombs
  keys,       \* forged transactions whose signer's key resolves here
  jobs,       \* admissions that wait for the disk
  clearing,   \* evictions that wait for the disk, with what they clear then
  checking,   \* reports counted into an entry whose put is under way
  processed,  \* _processedRawTxIds
  processing, \* mempool.processingTx: the rows on their way to the ledger
  ingested,   \* core._ingested
  applied,    \* core._appliedReports
  pending,    \* core._pendingReports
  claimed,    \* the worker's claimed tasks
  restored,   \* restored tasks the worker has yet to look at
  moves,      \* history: how often t moved to processing since the boot
  submits,    \* history: local submissions so far
  crashes     \* history: restarts so far

memory   == <<tombs, keys, jobs, clearing, checking, processed, processing, ingested,
              applied, pending, claimed, restored>>
history  == <<moves, submits, crashes>>
vars     == <<raw, owner, leaders, tasks, locked, memory, history>>

-----------------------------------------------------------------------------
\* An entry of the raw pool: validationTimestamps (who voted) and the
\* validationLeaders saved with it.  A place without an entry has neither.
NoEntry  == [pooled |-> FALSE, votes |-> {}, saved |-> {}]
NewEntry == [pooled |-> TRUE, votes |-> {}, saved |-> {}]
Entry    == {NoEntry} \cup [pooled : {TRUE}, votes : SUBSET Validator, saved : SUBSET Validator]
NoTasks == [v \in Validator |-> "none"]
Job     == [sub : Validator, tx : Tx, set : SUBSET Validator, stage : {"lock", "save", "again"}]

\* A processing row is keyed by a hash over the votes' timestamps, so a second
\* move of a transaction has a row of its own; n tells the two apart.
Row     == [tx : Tx, n : 1 .. 2, stage : {"moving", "final"}]

Lesser(a, b) == IF a < b THEN a ELSE b

Pooled     == {s \in Slot : raw[s].pooled}
Share(l)   == {s \in Pooled : s[1] = l}
Holders(t) == {v \in Validator : tasks[t][v] # "none"}

\* Mutant of Need: the requirement of a transaction with no recorded set is
\* used for all.
NeedOne(t) == 1

\* _requiredFor: the size of the recorded set, at most Required; 1 without one.
Need(t) == IF leaders[t] = {} THEN 1 ELSE Lesser(Required, Cardinality(leaders[t]))

\* _getValidationCount: the distinct validators in the entry rawTxToId points to.
Count(t) ==
  IF owner[t] = None THEN 0 ELSE Cardinality(raw[<<owner[t], t>>].votes)

\* The recovery sweep stops itself when a pass finds nothing to do; a change of
\* the live-lead set arms it again, as a boot does.
Armed == Churn \/ crashes > 0

\* What getLiveLeaders may return: this node with some peers, or nothing
\* while the network is not wired yet.
Live == IF Armed THEN {L \cup {Self} : L \in SUBSET Peer} \cup {{}} ELSE {Validator}

\* _getValidationLeaders: the submitter, then live leads up to Required.  The
\* order of addresses is left open.
LeaderSets(l, L) ==
  {S \in SUBSET (L \cup {l}) :
     l \in S /\ Cardinality(S) = Lesser(Required, Cardinality(L \cup {l}))}

\* The sets a submitter may broadcast with its transaction.
Broadcast(l) == UNION {LeaderSets(l, L) : L \in SUBSET Validator}

-----------------------------------------------------------------------------
Init ==
  /\ raw        = [s \in Slot |-> NoEntry]
  /\ owner      = [t \in Tx |-> None]
  /\ leaders    = [t \in Tx |-> {}]
  /\ tasks      = [t \in Tx |-> NoTasks]
  /\ locked     = {}
  /\ tombs      = {}
  /\ keys       = {}
  /\ jobs       = {}
  /\ clearing   = {}
  /\ checking   = {}
  /\ processed  = {}
  /\ processing = {}
  /\ ingested   = {}
  /\ applied    = {}
  /\ pending    = {}
  /\ claimed    = {}
  /\ restored   = {}
  /\ moves      = [t \in Tx |-> 0]
  /\ submits    = 0
  /\ crashes    = 0

\* Mutant of Remove: the tasks stay.
RemoveKeepTasks(l, t) ==
  /\ raw'   = [raw EXCEPT ![<<l, t>>] = NoEntry]
  /\ owner' = IF owner[t] = l THEN [owner EXCEPT ![t] = None] ELSE owner
  /\ UNCHANGED tasks

\* A transaction leaves the place <<l, t>> of the pool, up to the deletion of
\* its row (_deleteRawTx with the onRawTxRemoved hook): its mapping and its
\* tasks go along if it is mapped to l.
Remove(l, t) ==
  /\ raw'   = [raw EXCEPT ![<<l, t>>] = NoEntry]
  /\ owner' = IF owner[t] = l THEN [owner EXCEPT ![t] = None] ELSE owner
  /\ tasks' = IF owner[t] = l THEN [tasks EXCEPT ![t] = NoTasks] ELSE tasks

\* The pool once the set S is recorded for t, mapped to o (_recordLeaders).
Recorded(o, t, S) ==
  IF raw[<<o, t>>].pooled THEN [raw EXCEPT ![<<o, t>>].saved = S] ELSE raw

\* Mutant of Valid: reports on a processed transaction still count.
ValidLate(t, H, V) == V \cap H

\* The reports of V that completeValidation goes on with: none on a processed
\* transaction, and only those of the validators H that hold a task.
Valid(t, H, V) == IF t \in processed THEN {} ELSE V \cap H

\* Mutant of Voted: the votes are added whether or not there is an entry.
VotedBlind(R, o, t, V) ==
  IF o = None THEN R ELSE [R EXCEPT ![<<o, t>>].votes = @ \cup V]

\* _addValidationTimestamp: the pool R once V have voted in the entry o has of t.
Voted(R, o, t, V) ==
  IF o # None /\ R[<<o, t>>].pooled THEN [R EXCEPT ![<<o, t>>].votes = @ \cup V] ELSE R

\* completeValidation up to its put, for the reports of V, in the pool R, when
\* t is mapped to o and H hold a task: a pooled transaction whose signature
\* fails is evicted (_evictRawTx), otherwise the tasks are complete and the
\* votes are in.
Cast(R, t, o, H, V) ==
  LET valid == Valid(t, H, V)
      bad   == valid # {} /\ t \in keys /\ o # None /\ R[<<o, t>>].pooled
      held  == [v \in Validator |->
                  IF v \in valid THEN "done"
                  ELSE IF v \in H /\ tasks[t][v] = "none" THEN "open" ELSE tasks[t][v]]
  IN  \/ /\ bad
         /\ raw'   = [R EXCEPT ![<<o, t>>] = NoEntry]
         /\ owner' = [owner EXCEPT ![t] = None]
         /\ tasks' = [tasks EXCEPT ![t] = NoTasks]
         /\ clearing' = clearing \cup {<<t, "all">>}
         /\ UNCHANGED checking
      \/ /\ ~ bad
         /\ raw'   = Voted(R, o, t, valid)
         /\ owner' = [owner EXCEPT ![t] = o]
         /\ tasks' = [tasks EXCEPT ![t] = held]
         /\ checking' = checking \cup ({t} \X valid)
         /\ UNCHANGED clearing

\* createValidationTasks with the set S for t, mapped to o: the set is
\* recorded, the tasks are assigned, the worker claims the one for this node
\* and reports it, and the reports of Late are applied after it.
Assign(t, o, S, Late) ==
  LET mine == {Self} \cap {v \in S : t \notin claimed}
  IN  /\ leaders' = [leaders EXCEPT ![t] = S]
      /\ claimed' = claimed \cup {t : v \in mine}
      /\ Cast(Recorded(o, t, S), t, o, Holders(t) \cup S, mine \cup Late)

\* The buffered reports on t that were not applied before.
Buffered(t) == {v \in Validator : <<t, v>> \in pending /\ <<t, v>> \notin applied}

-----------------------------------------------------------------------------
(* Admission. *)

\* submitTransaction at this node: a transaction known to be forged is
\* refused, otherwise what it spends is locked.
Submit(t) ==
  /\ submits < MaxSubmits
  /\ submits' = submits + 1
  /\ t \notin keys
  /\ locked' = locked \cup {From[t]}
  /\ jobs'   = jobs \cup {[sub |-> Self, tx |-> t, set |-> {}, stage |-> "lock"]}
  /\ UNCHANGED <<raw, owner, leaders, tasks, tombs, keys, clearing, checking, processed, processing,
                 ingested, applied, pending, claimed, restored, moves, crashes>>

\* raw_tx:received and ingestRemoteTransaction up to the lock: an arrival is
\* looked at once per submitter; a forged one is refused, one already
\* processed changes nothing, any other locks what it spends.
Receive(l, t, S) ==
  /\ <<l, t>> \notin ingested
  /\ ingested' = ingested \cup {<<l, t>>}
  /\ \/ /\ t \in keys
        /\ UNCHANGED <<locked, jobs, applied, pending>>
     \/ /\ t \notin keys /\ t \in processed
        /\ applied' = applied \cup ({t} \X Buffered(t))
        /\ pending' = pending \ ({t} \X Validator)
        /\ UNCHANGED <<locked, jobs>>
     \/ /\ t \notin keys /\ t \notin processed
        /\ locked' = locked \cup {From[t]}
        /\ jobs'   = jobs \cup {[sub |-> l, tx |-> t, set |-> S, stage |-> "lock"]}
        /\ UNCHANGED <<applied, pending>>
  /\ UNCHANGED <<raw, owner, leaders, tasks, tombs, keys, clearing, checking, processed, processing,
                 claimed, restored, moves, submits, crashes>>

\* addRawTransaction turns an arrival away when the transaction was evicted
\* before or its submitter has its share of the pool.
OverShare(j) == Cardinality(Share(j.sub)) >= PeerMax
Refused(j)   == ~ raw[<<j.sub, j.tx>>].pooled /\ (j.tx \in tombs \/ OverShare(j))

\* addRawTransaction up to its put: the entry is new, with no votes; one that
\* was pooled before keeps its age.
AddRaw(j) ==
  /\ j \in jobs /\ j.stage = "lock" /\ ~ Refused(j)
  /\ raw'  = [raw EXCEPT ![<<j.sub, j.tx>>] = NewEntry]
  /\ LET prior == raw[<<j.sub, j.tx>>].pooled
     IN  jobs' = (jobs \ {j}) \cup {[j EXCEPT !.stage = IF prior THEN "again" ELSE "save"]}
  /\ UNCHANGED <<owner, leaders, tasks, locked, tombs, keys, clearing, checking, processed,
                 processing,
                 ingested, applied, pending, claimed, restored, history>>

\* The rest of submitTransaction and of ingestRemoteTransaction, whether or
\* not the pool took the entry: the mapping, the tasks, and for a peer's
\* transaction the reports that came before it.
Register(j) ==
  /\ j \in jobs
  /\ j.stage # "lock" \/ Refused(j)
  /\ jobs' = jobs \ {j}
  /\ LET t    == j.tx
         late == IF j.sub = Self THEN {} ELSE Buffered(t)
     IN  /\ \E L \in Live : \E S \in (IF j.set = {} THEN LeaderSets(j.sub, L) ELSE {j.set}) :
              Assign(t, j.sub, S, late)
         /\ applied' = applied \cup ({t} \X late)
         /\ pending' = IF j.sub = Self THEN pending ELSE pending \ ({t} \X Validator)
  /\ UNCHANGED <<locked, tombs, keys, processed, processing, ingested, restored,
                 moves, submits, crashes>>

-----------------------------------------------------------------------------
(* Validation. *)

\* Mutant of Report: a buffered report is marked as applied.
ReportMarked(t, v) ==
  /\ <<t, v>> \notin applied
  /\ applied' = applied \cup {<<t, v>>}
  /\ \/ /\ v \in leaders[t]
        /\ Cast(raw, t, owner[t], Holders(t), {v})
        /\ UNCHANGED pending
     \/ /\ leaders[t] = {}
        /\ pending' = pending \cup {<<t, v>>}
        /\ UNCHANGED <<raw, owner, tasks, clearing, checking>>
  /\ UNCHANGED <<leaders, locked, tombs, keys, jobs, processed, processing, ingested, claimed,
                 restored, history>>

\* validation_report:received: an assigned validator's report is applied, one
\* from another is ignored, one that beats its transaction is buffered.
Report(t, v) ==
  /\ <<t, v>> \notin applied
  /\ \/ /\ v \in leaders[t]
        /\ applied' = applied \cup {<<t, v>>}
        /\ Cast(raw, t, owner[t], Holders(t), {v})
        /\ UNCHANGED pending
     \/ /\ leaders[t] = {}
        /\ pending' = pending \cup {<<t, v>>}
        /\ UNCHANGED <<raw, owner, tasks, clearing, checking, applied>>
  /\ UNCHANGED <<leaders, locked, tombs, keys, jobs, processed, processing, ingested, claimed,
                 restored, history>>

\* The worker takes up an incomplete task restored from disk.
WorkerDrain(t) ==
  /\ t \in restored
  /\ restored' = restored \ {t}
  /\ claimed'  = claimed \cup {t}
  /\ Cast(raw, t, owner[t], Holders(t), {Self} \ {v \in {Self} : t \in claimed})
  /\ UNCHANGED <<leaders, locked, tombs, keys, jobs, processed, processing, ingested, applied,
                 pending, history>>

\* moveToProcessing up to the deletion of the raw row.
Move(t) ==
  /\ processed'  = processed \cup {t}
  /\ moves'      = [moves EXCEPT ![t] = Lesser(2, @ + 1)]
  /\ processing' = processing \cup {[tx |-> t, n |-> moves'[t], stage |-> "moving"]}
  /\ Remove(owner[t], t)

\* completeValidation after its put: enough votes move the transaction.
Check(t, v) ==
  /\ <<t, v>> \in checking
  /\ checking' = checking \ {<<t, v>>}
  /\ \/ Count(t) >= Need(t) /\ Move(t)
     \/ Count(t) < Need(t) /\ UNCHANGED <<raw, owner, tasks, processed, processing, moves>>
  /\ UNCHANGED <<leaders, locked, tombs, keys, jobs, clearing, ingested, applied, pending, claimed,
                 restored, submits, crashes>>

\* The raw row is gone: the mapping and the tasks are cleared once more and
\* the LeadWorker starts to finalize.
MoveEnd(r) ==
  /\ r \in processing /\ r.stage = "moving"
  /\ processing' = (processing \ {r}) \cup {[r EXCEPT !.stage = "final"]}
  /\ owner' = [owner EXCEPT ![r.tx] = None]
  /\ tasks' = [tasks EXCEPT ![r.tx] = NoTasks]
  /\ UNCHANGED <<raw, leaders, locked, tombs, keys, jobs, clearing, checking, processed, ingested,
                 applied,
                 pending, claimed, restored, history>>

\* finalizeTransaction: the lock is released and the ledger gets the
\* transaction.
Finalize(r) ==
  /\ r \in processing /\ r.stage = "final"
  /\ processing' = processing \ {r}
  /\ locked' = locked \ {From[r.tx]}
  /\ UNCHANGED <<raw, owner, leaders, tasks, tombs, keys, jobs, clearing, checking, processed,
                 ingested,
                 applied, pending, claimed, restored, history>>

-----------------------------------------------------------------------------
(* The sweeps. *)

\* recoverStrandedRawTxs on one entry: too few live validators hold a task,
\* so the set is drawn again from the leads that are live now.
Recover(l, t) ==
  /\ Armed
  /\ raw[<<l, t>>].pooled
  /\ \E L \in Live :
       /\ Cardinality(IF L = {} THEN Holders(t) ELSE Holders(t) \cap L) < Need(t)
       /\ LET o == IF owner[t] = None THEN l ELSE owner[t]
          IN  \E S \in LeaderSets(o, L) : Assign(t, o, S, {})
  /\ UNCHANGED <<locked, tombs, keys, jobs, processed, processing, ingested, applied, pending,
                 restored, history>>

\* promoteSatisfiedRawTxs on one entry.
Promote(l, t) ==
  /\ Armed
  /\ raw[<<l, t>>].pooled
  /\ t \notin processed
  /\ leaders[t] # {} \/ \E L \in Live : Cardinality(L) =< 1
  /\ Count(t) >= Need(t)
  /\ Move(t)
  /\ UNCHANGED <<leaders, locked, tombs, keys, jobs, clearing, checking, ingested, applied, pending,
                 claimed, restored, submits, crashes>>

\* The signer's key of a forged transaction becomes known (presence, or a
\* gossiped key that hashes to the address).
LearnKey(t) ==
  /\ t \in Forged \ keys
  /\ keys' = keys \cup {t}
  /\ UNCHANGED <<raw, owner, leaders, tasks, locked, tombs, jobs, clearing, checking, processed,
                 processing,
                 ingested, applied, pending, claimed, restored, history>>

\* drainInvalidMempool on one entry, up to the deletion of its row.
Drain(l, t) ==
  /\ raw[<<l, t>>].pooled
  /\ t \in keys
  /\ Remove(l, t)
  /\ clearing' = clearing \cup {<<t, "all">>}
  /\ UNCHANGED <<leaders, locked, tombs, keys, jobs, checking, processed, processing, ingested,
                 applied, pending, claimed, restored, history>>

\* An entry old enough to count as abandoned; one that is being added for the
\* first time is not.
Old(l, t) ==
  /\ raw[<<l, t>>].pooled
  /\ t \in Aged
  /\ \A j \in jobs : <<j.sub, j.tx, j.stage>> # <<l, t, "save">>

\* reapAbandonedRawTxs on one entry, up to the deletion of its row.
Reap(l, t) ==
  /\ Old(l, t)
  /\ t \notin processed
  /\ Remove(l, t)
  /\ clearing' = clearing \cup {<<t, "map">>}
  /\ UNCHANGED <<leaders, locked, tombs, keys, jobs, checking, processed, processing, ingested,
                 applied, pending, claimed, restored, history>>

\* The row is gone: the mapping is deleted whatever it points to by now, and
\* unless the entry was reaped the tasks are too.
ClearEnd(c) ==
  /\ c \in clearing
  /\ clearing' = clearing \ {c}
  /\ owner' = [owner EXCEPT ![c[1]] = None]
  /\ tasks' = IF c[2] = "all" THEN [tasks EXCEPT ![c[1]] = NoTasks] ELSE tasks
  /\ UNCHANGED <<raw, leaders, locked, tombs, keys, jobs, checking, processed, processing,
                 ingested, applied, pending, claimed, restored, history>>

\* The sweep inside addRawTransaction, on one victim: the pool is over its cap
\* while the entry of job j is being saved.
CapSweep(j, l, t) ==
  /\ j \in jobs /\ j.stage # "lock" /\ j.tx # t
  /\ Old(l, t)
  /\ Cardinality(Pooled) > PoolMax
  /\ Remove(l, t)
  /\ UNCHANGED <<leaders, locked, memory, history>>

\* core's timer on the pool's size, on one victim, which is remembered.
BoundSweep(l, t) ==
  /\ Old(l, t)
  /\ Cardinality(Pooled) > PoolMax
  /\ tombs' = tombs \cup {t}
  /\ Remove(l, t)
  /\ UNCHANGED <<leaders, locked, keys, jobs, clearing, checking, processed, processing, ingested,
                 applied, pending, claimed, restored, history>>

\* The process dies and boots: the raw pool (the newest PoolMax entries of
\* it), the tasks of transactions still pooled and the locks come back from
\* disk, the mapping and the recorded sets from the entries.  Of a vote whose
\* puts are under way the disk may lack the completed task or the timestamp.
\* processingTx never reached the disk, and the rest is in memory only.
Crash ==
  /\ crashes < MaxCrashes
  /\ crashes' = crashes + 1
  /\ \E K \in SUBSET Pooled, noTask, noVote \in SUBSET checking :
       /\ Cardinality(K) = Lesser(PoolMax, Cardinality(Pooled))
       /\ raw' = [s \in Slot |->
                   IF s \in K
                   THEN [raw[s] EXCEPT !.votes = {v \in @ : <<s[2], v>> \notin noVote}]
                   ELSE NoEntry]
       /\ owner' \in [Tx -> Validator \cup {None}]
       /\ leaders' \in [Tx -> SUBSET Validator]
       /\ \A t \in Tx :
            LET at   == {s \in K : s[2] = t}
                sets == {raw[s].saved : s \in at} \ {{}}
            IN  /\ owner'[t] \in (IF at = {} THEN {None} ELSE {s[1] : s \in at})
                /\ leaders'[t] \in (IF sets = {} THEN {{}} ELSE sets)
       /\ tasks' = [t \in Tx |->
            IF \E s \in K : s[2] = t
            THEN [v \in Validator |->
                    IF <<t, v>> \in noTask /\ tasks[t][v] = "done" THEN "open" ELSE tasks[t][v]]
            ELSE NoTasks]
  /\ restored'   = {t \in Tx : tasks'[t][Self] = "open"}
  /\ tombs'      = {}
  /\ keys'       = {}
  /\ jobs'       = {}
  /\ clearing'   = {}
  /\ checking'   = {}
  /\ processed'  = {}
  /\ processing' = {}
  /\ ingested'   = {}
  /\ applied'    = {}
  /\ pending'    = {}
  /\ claimed'    = {}
  /\ moves'      = [t \in Tx |-> 0]
  /\ UNCHANGED <<locked, submits>>

Next ==
  \/ \E t \in Tx : Submit(t) \/ WorkerDrain(t) \/ LearnKey(t)
  \/ \E r \in processing : MoveEnd(r) \/ Finalize(r)
  \/ \E c \in clearing : ClearEnd(c)
  \/ \E l \in Submitter, t \in Tx : \E S \in Broadcast(l) : Receive(l, t, S)
  \/ \E j \in jobs : AddRaw(j) \/ Register(j)
  \/ \E t \in Tx, v \in Peer : Report(t, v)
  \/ \E t \in Tx, v \in Validator : Check(t, v)
  \/ \E l \in Validator, t \in Tx :
       \/ Recover(l, t) \/ Promote(l, t) \/ Drain(l, t) \/ Reap(l, t) \/ BoundSweep(l, t)
       \/ \E j \in jobs : CapSweep(j, l, t)
  \/ Crash

Spec == Init /\ [][Next]_vars

\* Awaited disk writes end, and the report of every validator reaches the
\* node: its sender repeats it (validation-retry.js) while the transaction is
\* stuck.
Fairness ==
  /\ WF_vars(\E j \in jobs : AddRaw(j) \/ Register(j))
  /\ \A t \in Tx, v \in Validator : WF_vars(Check(t, v))
  /\ \A t \in Tx, v \in Peer : WF_vars(Report(t, v))
  /\ WF_vars(\E r \in processing : MoveEnd(r) \/ Finalize(r))

FairSpec == Spec /\ Fairness

-----------------------------------------------------------------------------
\* Every variable holds values of the shape the code keeps there.
TypeOK ==
  /\ raw        \in [Slot -> Entry]
  /\ owner      \in [Tx -> Validator \cup {None}]
  /\ leaders    \in [Tx -> SUBSET Validator]
  /\ tasks      \in [Tx -> [Validator -> {"none", "open", "done"}]]
  /\ locked     \subseteq {From[t] : t \in Tx}
  /\ tombs      \subseteq Tx
  /\ keys       \subseteq Forged
  /\ jobs       \subseteq Job
  /\ clearing   \subseteq Tx \X {"map", "all"}
  /\ checking   \subseteq Tx \X Validator
  /\ processed  \subseteq Tx
  /\ processing \subseteq Row
  /\ ingested   \subseteq Slot
  /\ applied    \subseteq Tx \X Validator
  /\ pending    \subseteq Tx \X Validator
  /\ claimed    \subseteq Tx
  /\ restored   \subseteq Tx
  /\ moves      \in [Tx -> 0 .. 2]
  /\ submits    \in 0 .. MaxSubmits
  /\ crashes    \in 0 .. MaxCrashes

\* A transaction moves to processing, and so reaches the ledger, at most once
\* between two boots of the node ("can never re-drive it toward a second seal",
\* workflow.js completeValidation), whatever arrives twice, late or through
\* several submitters and whichever sweeps run.
MovedOnce == \A t \in Tx : moves[t] =< 1

\* A transaction moves only when every validator of its recorded set has voted
\* for it ("only an ASSIGNED leader's report counts toward the quorum",
\* core/index.js): as many votes as validators, none of them from outside.
AttestedStep == \A t \in processed' \ processed : leaders[t] \subseteq raw[<<owner[t], t>>].votes
Attested == [][AttestedStep]_vars

\* Validation tasks exist only for transactions that are mapped to a submitter
\* ("A tx gone from the raw pool takes its tasks and its submitter mapping with
\* it", workflow.js), whichever sweep, eviction or restart took it.
TasksMapped == \A t \in Tx : Holders(t) # {} => owner[t] # None

\* A pooled transaction whose validators all report is processed, even when
\* reports come before the transaction, or while it is being admitted.
Advances == \A t \in Tx : (\E l \in Validator : raw[<<l, t>>].pooled) ~> t \in processed
=============================================================================
