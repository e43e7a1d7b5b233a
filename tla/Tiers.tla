------------------------------- MODULE Tiers -------------------------------
(***************************************************************************)
(* packages/consensus/src/mempool.js and validation-tasks.js: what the     *)
(* mempool's tiers hold in memory and on disk.  Raw rows and locks are     *)
(* written before the caller goes on; rows of tasks are written and        *)
(* deleted behind the caller's back, in order; the processing tier has no  *)
(* row (its validator clock does not serialise); finalized rows age out.   *)
(*                                                                         *)
(* Who validates what, and the quorum, are Workflow's business; here a     *)
(* transaction moves on once its tasks are complete.                       *)
(***************************************************************************)
EXTENDS Integers, Sequences, FiniteSets

CONSTANTS Tx,         \* transactions
          Leader,     \* who holds tasks
          Sender,     \* [Tx -> what the transaction spends]
          Ttl,        \* _txTtlMs
          MaxTombs,   \* tombstones remembered
          MaxNow, MaxCrash, MaxRuns

NoTime == -1
NoTask == "none"

VARIABLES finalizes,   \* does this node finalize its processing tier?
          rawTx, rawRow,          \* the raw pool, in memory and on disk
          tasks, byTx, taskRow,   \* leader -> task states; tx -> leaders; rows
          writes,                 \* task writes not yet on disk
          lockedUtxo, lockRow,    \* what is locked, in memory and on disk
          processingTx,           \* memory only
          txAt, txRow,            \* finalized: arrival times, rows
          tombs,                  \* evicted ids, oldest first
          now, crashes, runs,
          unlockedEarly,          \* senders a lock was given back for
          leaked,                 \* senders whose transaction went without it
          stray                   \* refused by the pool, tasks assigned

tierVars == <<finalizes, rawTx, rawRow, tasks, byTx, taskRow, writes, lockedUtxo, lockRow,
              processingTx, txAt, txRow, tombs, now, crashes, runs, unlockedEarly, leaked, stray>>

InFlight == rawTx \cup processingTx
NoTasks == [l \in Leader |-> [t \in Tx |-> NoTask]]

Init ==
  /\ finalizes \in BOOLEAN
  /\ rawTx = {} /\ rawRow = {} /\ tasks = NoTasks /\ byTx = [t \in Tx |-> {}] /\ taskRow = NoTasks
  /\ writes = <<>> /\ lockedUtxo = {} /\ lockRow = {} /\ processingTx = {}
  /\ txAt = [t \in Tx |-> NoTime] /\ txRow = {} /\ tombs = <<>>
  /\ now = 0 /\ crashes = 0 /\ runs = 0 /\ unlockedEarly = {} /\ leaked = {} /\ stray = {}

Tombstoned(t) == \E i \in DOMAIN tombs : tombs[i] = t

\* lockUtxos and unlockUtxos: the set, then its one row.
Lock(S) == lockedUtxo' = lockedUtxo \cup S /\ lockRow' = lockedUtxo'
Unlock(S) == lockedUtxo' = lockedUtxo \ S /\ lockRow' = lockedUtxo'

\* What each row write does once its caller has awaited it.
_saveRawTx(t) == rawRow' = rawRow \cup {t}
_saveTx(t) == txRow' = txRow \cup {t}
_deleteRawTx(t) == rawRow' = rawRow \ {t}

\* _tombstone: the oldest makes room.
_tombstone(t) == LET all == Append(tombs, t) IN SubSeq(all, IF Len(all) > MaxTombs THEN 2 ELSE 1, Len(all))

\* _index: a task that is already there is kept, complete or not.
Indexed(t) == [l \in Leader |-> [tasks[l] EXCEPT ![t] = IF @ = NoTask THEN "open" ELSE @]]

\* One write per leader touched, of this transaction's slice.
PersistAll(t, after) ==
  LET ls == CHOOSE s \in [1..Cardinality(Leader) -> Leader] : \A a, b \in DOMAIN s : a # b => s[a] # s[b]
  IN  [i \in DOMAIN ls |-> [l |-> ls[i], t |-> t, val |-> after[ls[i]][t]]]

\* submitTransaction, ingestRemoteTransaction: lock, pool, assign.  A pool that
\* refuses an evicted id still returns it, and the caller assigns its tasks.
Submit(t) ==
  /\ t \notin processingTx /\ txAt[t] = NoTime /\ runs < MaxRuns
  /\ runs' = runs + 1
  /\ Lock({Sender[t]})
  /\ IF Tombstoned(t) /\ t \notin rawTx
     THEN /\ stray' = stray \cup {t}
          /\ leaked' = leaked \cup {Sender[t]}
          /\ UNCHANGED <<rawTx, rawRow>>
     ELSE /\ rawTx' = rawTx \cup {t} /\ _saveRawTx(t)
          /\ stray' = stray \ {t}
          /\ UNCHANGED leaked
  /\ tasks' = Indexed(t)
  /\ byTx' = [byTx EXCEPT ![t] = Leader]
  /\ writes' = writes \o PersistAll(t, Indexed(t))
  /\ UNCHANGED <<finalizes, taskRow, processingTx, txAt, txRow, tombs, now, crashes, unlockedEarly>>

completeTask(l, t) ==
  /\ tasks[l][t] = "open"
  /\ tasks' = [tasks EXCEPT ![l][t] = "complete"]
  /\ writes' = Append(writes, [l |-> l, t |-> t, val |-> "complete"])
  /\ UNCHANGED <<finalizes, rawTx, rawRow, byTx, taskRow, lockedUtxo, lockRow, processingTx, txAt, txRow,
                 tombs, now, crashes, runs, unlockedEarly, leaked, stray>>

\* clearValidationTasksFor: the rows of one transaction, behind the caller.
Forget(t) == writes \o PersistAll(t, NoTasks)

\* Out of both indexes; the rows follow.
clearTasksForRawTx(t) ==
  /\ tasks' = [l \in Leader |-> [tasks[l] EXCEPT ![t] = NoTask]]
  /\ byTx' = [byTx EXCEPT ![t] = {}]
  /\ writes' = Forget(t)

\* moveToProcessing: a node that does not finalize keeps nothing of it.
Move(t) ==
  /\ t \in rawTx /\ byTx[t] # {} /\ \A l \in byTx[t] : tasks[l][t] = "complete"
  /\ rawTx' = rawTx \ {t} /\ _deleteRawTx(t)
  /\ clearTasksForRawTx(t)
  /\ IF finalizes
     THEN processingTx' = processingTx \cup {t} /\ UNCHANGED <<lockedUtxo, lockRow, unlockedEarly>>
     ELSE /\ Unlock({Sender[t]})
          /\ unlockedEarly' = unlockedEarly \cup {Sender[t]}
          /\ UNCHANGED processingTx
  /\ UNCHANGED <<finalizes, taskRow, txAt, txRow, tombs, now, crashes, runs, leaked, stray>>

\* finalizeTransaction: into the last tier, out of processing, unlocked.
Finalize(t) ==
  /\ t \in processingTx
  /\ txAt' = [txAt EXCEPT ![t] = now]
  /\ _saveTx(t)
  /\ processingTx' = processingTx \ {t}
  /\ Unlock({Sender[t]})
  /\ unlockedEarly' = unlockedEarly \cup {Sender[t]}
  /\ UNCHANGED <<finalizes, rawTx, rawRow, tasks, byTx, taskRow, writes, tombs, now, crashes, runs, leaked, stray>>

\* The reaper and the cap sweep: map, row, tasks and a tombstone; the lock stays.
Evict(t) ==
  /\ t \in rawTx
  /\ rawTx' = rawTx \ {t} /\ _deleteRawTx(t)
  /\ clearTasksForRawTx(t)
  /\ tombs' = _tombstone(t)
  /\ leaked' = leaked \cup {Sender[t]}
  /\ UNCHANGED <<finalizes, taskRow, lockedUtxo, lockRow, processingTx, txAt, txRow, now, crashes, runs, unlockedEarly, stray>>

\* sweepFinalizedTx: what is past its time leaves the map and the disk.
Sweep ==
  LET old == {t \in Tx : txAt[t] # NoTime /\ now - txAt[t] > Ttl}
  IN  /\ old # {}
      /\ txAt' = [t \in Tx |-> IF t \in old THEN NoTime ELSE txAt[t]]
      /\ txRow' = txRow \ old
      /\ UNCHANGED <<finalizes, rawTx, rawRow, tasks, byTx, taskRow, writes, lockedUtxo, lockRow,
                     processingTx, tombs, now, crashes, runs, unlockedEarly, leaked, stray>>

\* The oldest write of a task row reaches the disk.
Flush ==
  /\ writes # <<>>
  /\ LET w == Head(writes) IN taskRow' = [taskRow EXCEPT ![w.l][w.t] = w.val]
  /\ writes' = Tail(writes)
  /\ UNCHANGED <<finalizes, rawTx, rawRow, tasks, byTx, lockedUtxo, lockRow, processingTx, txAt, txRow,
                 tombs, now, crashes, runs, unlockedEarly, leaked, stray>>

\* hydrate with no say in what is still wanted.
KeptAll(l, t) == taskRow[l][t]

\* hydrate: only the tasks of what is still in the raw pool.
Kept(l, t) == IF t \in rawRow THEN taskRow[l][t] ELSE NoTask

\* The node stops between two steps and comes back from its rows.
Crash ==
  /\ crashes < MaxCrash
  /\ crashes' = crashes + 1
  /\ rawTx' = rawRow
  /\ tasks' = [l \in Leader |-> [t \in Tx |-> Kept(l, t)]]
  /\ byTx' = [t \in Tx |-> {l \in Leader : Kept(l, t) # NoTask}]
  /\ taskRow' = [l \in Leader |-> [t \in Tx |-> Kept(l, t)]]
  /\ writes' = <<>>
  /\ lockedUtxo' = lockRow
  /\ processingTx' = {}
  /\ txAt' = [t \in Tx |-> IF t \in txRow THEN now ELSE NoTime]
  /\ tombs' = <<>>
  /\ leaked' = leaked \cup {Sender[t] : t \in processingTx}
  /\ stray' = {}
  /\ UNCHANGED <<finalizes, rawRow, lockRow, txRow, now, runs, unlockedEarly>>

Pass ==
  /\ now < MaxNow
  /\ now' = now + 1
  /\ UNCHANGED <<finalizes, rawTx, rawRow, tasks, byTx, taskRow, writes, lockedUtxo, lockRow,
                 processingTx, txAt, txRow, tombs, crashes, runs, unlockedEarly, leaked, stray>>

Next ==
  \/ \E t \in Tx : Submit(t) \/ Move(t) \/ Finalize(t) \/ Evict(t)
  \/ \E l \in Leader, t \in Tx : completeTask(l, t)
  \/ Sweep \/ Flush \/ Crash \/ Pass

TierSpec == Init /\ [][Next]_tierVars

-----------------------------------------------------------------------------
\* The index by transaction and the index by leader name the same tasks, and
\* only transactions in the raw pool have any, but for one the pool refused:
\* also after a restart that lost the deletion of their rows.
TasksOfPooled ==
  \A t \in Tx : /\ byTx[t] = {l \in Leader : tasks[l][t] # NoTask}
                /\ byTx[t] # {} => t \in rawTx \cup stray

\* Once nothing is on its way the rows are the tasks.
RowsFollow == writes = <<>> => taskRow = tasks

\* What was swept stays gone: a finalized row on disk is in the tier, and no
\* transaction is in two tiers at once.
OneTier ==
  /\ txRow = {t \in Tx : txAt[t] # NoTime}
  /\ rawTx = rawRow
  /\ rawTx \cap processingTx = {}
  /\ \A t \in Tx : txAt[t] # NoTime => t \notin InFlight

\* What is in flight is locked and what is locked is in flight, but for a
\* sender whose lock another transaction of its gave back, or whose
\* transaction was evicted or lost with its processing tier.
LocksFollow ==
  /\ lockRow = lockedUtxo
  /\ \A t \in InFlight : Sender[t] \in lockedUtxo \cup unlockedEarly
  /\ lockedUtxo \subseteq {Sender[t] : t \in InFlight} \cup leaked

\* The tiers agree with each other and with their rows.
TiersSound == TasksOfPooled /\ RowsFollow /\ OneTier /\ LocksFollow
=============================================================================
