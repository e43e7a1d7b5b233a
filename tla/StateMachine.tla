---------------------------- MODULE StateMachine ----------------------------
(***************************************************************************)
(* The state machine of one node (state-machine.js over verkle-tree.js):   *)
(* the key map and the trie in memory, the `state:` rows behind them, the  *)
(* state diffs in memory and their `diff:` rows.  Every store call is an   *)
(* await, so the handlers of ledger blocks, a canonical rebuild, a         *)
(* backfill and a forget interleave at each of them.                       *)
(*                                                                         *)
(* A key determines its value here (an anchor's value is its timestamp),   *)
(* so a map is its set of keys, and the root is the set of keys in the     *)
(* trie: module Verkle checks that it is a function of that set.           *)
(***************************************************************************)
EXTENDS Naturals, Sequences, FiniteSets, SequencesExt

CONSTANTS
  Key,        \* state keys
  Writes,     \* the key sets the blocks of the ledger may write
  Canon,      \* the canonical anchors, a sequence of keys
  Task,       \* handlers that may be under way at once
  MaxStart,   \* bound on the handlers started
  MaxBoot     \* bound on restarts

VARIABLES
  held,       \* stateTree.state
  placed,     \* the keys in stateTree.root
  rows,       \* the `state:` keyspace
  diffs,      \* identities in this.diffs, each with the keys it writes
  diffRows,   \* the `diff:` keyspace
  task,       \* what each handler does next
  ledgerBlocks, \* the writes of the blocks the ledger holds
  expect,     \* history: the keys the operations that ended have promised
  raced,      \* history: a clear or a delete overlapped another handler
  stray,      \* history: keys with a diff row that a crash in the middle of their forget has left
  started, boots

stateVars == <<held, placed, rows, diffs, diffRows, task, ledgerBlocks, expect, raced, stray, started, boots>>

Idle == [op |-> "idle"]

\* StateDiff.identity: the key of a single change, else the transaction (here: the set itself).
identity(w) == IF Cardinality(w) = 1 THEN CHOOSE k \in w : TRUE ELSE w

\* _recordDiff and the durable put under _diffKey: an upsert by identity.
recordDiff(ds, w) == {d \in ds : identity(d) # identity(w)} \cup {w}

Rest == \A t \in Task : task[t] = Idle

\* A clear or a forget is under way together with another handler.
Overlap == \E t \in Task : /\ task[t].op \in {"clear", "cleardiffs", "forget"}
                           /\ \E u \in Task \ {t} : task[u] # Idle

Init ==
  /\ held = {} /\ placed = {} /\ rows = {} /\ diffs = {} /\ diffRows = {}
  /\ task = [t \in Task |-> Idle]
  /\ ledgerBlocks = {} /\ expect = {} /\ raced = FALSE /\ stray = {} /\ started = 0 /\ boots = 0

----------------------------------------------------------------------------
(* Handlers.  A running task holds the diffs still to apply, the keys of   *)
(* the first of them still to insert, and the key whose put it awaits.     *)

\* The turn that starts the next diff of the list: record it (a live apply records first), and
\* begin to insert its first key, which enters the map before the put is awaited.
Begin(t, op, todo) ==
  IF todo = <<>>
  THEN /\ task' = [task EXCEPT ![t] = Idle]
       /\ UNCHANGED <<held, diffs>>
  ELSE LET w == Head(todo)
           k == CHOOSE x \in w : TRUE
       IN  /\ task' = [task EXCEPT ![t] = [op |-> op, todo |-> todo, left |-> w \ {k}, put |-> k]]
           /\ held' = held \cup {k}
           /\ diffs' = IF op = "apply" THEN recordDiff(diffs, w) ELSE diffs

Start(t) == /\ task[t] = Idle
            /\ started < MaxStart
            /\ started' = started + 1
            /\ UNCHANGED boots

\* _handleLedgerBlock: a block whose type maps to no key returns at once and changes nothing.
HandleLedgerBlock(t, w) ==
  /\ Start(t)
  /\ w # {}
  /\ ledgerBlocks' = ledgerBlocks \cup {w}
  /\ Begin(t, "apply", <<w>>)
  /\ UNCHANGED <<placed, rows, diffRows, expect>>

\* backfillFromLedger: every block row of the ledger, in the order of the iterator.
Backfill(t) ==
  /\ Start(t)
  /\ ledgerBlocks # {}
  /\ Begin(t, "apply", SetToSeq(ledgerBlocks))
  /\ UNCHANGED <<placed, rows, diffRows, ledgerBlocks, expect>>

\* insert, after the put: the trie takes the key.  Then the next key of the diff, or its row.
InsertEnd(t) ==
  LET j == task[t]
  IN  /\ j.op \in {"apply", "canon"}
      /\ j.put # {}
      /\ rows' = rows \cup {j.put}
      /\ placed' = placed \cup {j.put}
      /\ IF j.left # {}
         THEN LET k == CHOOSE x \in j.left : TRUE
              IN  /\ held' = held \cup {k}
                  /\ task' = [task EXCEPT ![t].left = @ \ {k}, ![t].put = k]
                  /\ UNCHANGED diffs
         ELSE /\ task' = [task EXCEPT ![t].put = {}]
              /\ diffs' = IF j.op = "canon" THEN recordDiff(diffs, Head(j.todo)) ELSE diffs
              /\ UNCHANGED held
      /\ UNCHANGED <<diffRows, ledgerBlocks, expect, started, boots>>

\* The diff's own row is written last; then the handler goes on with the next diff, or ends.
SaveDiff(t) ==
  LET j == task[t]
  IN  /\ j.op \in {"apply", "canon"}
      /\ j.put = {}
      /\ diffRows' = recordDiff(diffRows, Head(j.todo))
      /\ expect' = expect \cup Head(j.todo)
      /\ Begin(t, j.op, Tail(j.todo))
      /\ UNCHANGED <<placed, rows, ledgerBlocks, started, boots>>

\* rebuildFromCanonical: the tree is emptied in memory at once, its rows one await later.
RebuildFromCanonical(t) ==
  /\ Start(t)
  /\ placed' = {} /\ held' = {}
  /\ task' = [task EXCEPT ![t] = [op |-> "clear"]]
  /\ UNCHANGED <<rows, diffs, diffRows, ledgerBlocks, expect>>

\* stateTree.clear has dropped the rows: the diffs go, first in memory.
ClearRows(t) ==
  /\ task[t].op = "clear"
  /\ rows' = {} /\ diffs' = {}
  /\ task' = [task EXCEPT ![t] = [op |-> "cleardiffs"]]
  /\ UNCHANGED <<held, placed, diffRows, ledgerBlocks, expect, started, boots>>

\* The `diff:` rows are gone too: the canonical anchors are applied one by one.
ClearDiffRows(t) ==
  /\ task[t].op = "cleardiffs"
  /\ diffRows' = {}
  /\ expect' = {}
  /\ Begin(t, "canon", [i \in 1 .. Len(Canon) |-> {Canon[i]}])
  /\ UNCHANGED <<placed, rows, ledgerBlocks, started, boots>>

\* forget: the key leaves the map, then its row, the trie and the diff of that name, then that row.
Forget(t, k) ==
  /\ Start(t)
  /\ held' = held \ {k}
  /\ task' = [task EXCEPT ![t] = [op |-> "forget", key |-> k, row |-> TRUE]]
  /\ UNCHANGED <<placed, rows, diffs, diffRows, ledgerBlocks, expect>>

ForgetRow(t) ==
  LET k == task[t].key
  IN  /\ task[t].op = "forget"
      /\ task[t].row
      /\ rows' = rows \ {k}
      /\ placed' = placed \ {k}
      /\ diffs' = {d \in diffs : identity(d) # k}
      /\ task' = [task EXCEPT ![t].row = FALSE]
          /\ UNCHANGED <<held, diffRows, ledgerBlocks, expect, started, boots>>

\* Mutant: the durable diff stays.
ForgetDiffRowKept(t) ==
  /\ task[t].op = "forget"
  /\ ~task[t].row
  /\ expect' = expect \ {task[t].key}
  /\ task' = [task EXCEPT ![t] = Idle]
  /\ UNCHANGED <<held, placed, rows, diffs, diffRows, ledgerBlocks, started, boots>>

ForgetDiffRow(t) ==
  LET k == task[t].key
  IN  /\ task[t].op = "forget"
      /\ ~task[t].row
      /\ diffRows' = {d \in diffRows : identity(d) # k}
      /\ expect' = expect \ {k}
      /\ task' = [task EXCEPT ![t] = Idle]
          /\ UNCHANGED <<held, placed, rows, diffs, ledgerBlocks, started, boots>>

----------------------------------------------------------------------------
(* Restart.                                                                *)

\* Mutant: the map is read and the trie is not rebuilt.
LoadedTrieEmpty(r) == {}

\* _loadState: the map and, with _rebuildTrie, the trie, from the rows.
LoadedTrie(r) == r

\* _loadDiffs replays the diffs into the tree only when the `state:` keyspace is empty.
Replayed(r, ds) == IF r = {} THEN UNION ds ELSE {}

\* A crash at any await, and the boot after it: ready() resolves before any handler runs.
Restart ==
  LET keys == rows \cup Replayed(rows, diffRows)
  IN  /\ boots < MaxBoot
      /\ boots' = boots + 1
      /\ rows' = keys
      /\ held' = keys
      /\ placed' = LoadedTrie(rows) \cup Replayed(rows, diffRows)
      /\ diffs' = diffRows
      /\ task' = [t \in Task |-> Idle]
      /\ expect' = IF Rest /\ (rows # {} \/ \A d \in diffRows : Cardinality(d) = 1 /\ d \cap stray = {})
                   THEN expect ELSE keys
      /\ UNCHANGED <<diffRows, ledgerBlocks, started>>

Step == \/ \E t \in Task :
             \/ \E w \in Writes : HandleLedgerBlock(t, w)
             \/ Backfill(t) \/ InsertEnd(t) \/ SaveDiff(t)
             \/ RebuildFromCanonical(t) \/ ClearRows(t) \/ ClearDiffRows(t)
             \/ \E k \in Key : Forget(t, k)
             \/ ForgetRow(t) \/ ForgetDiffRow(t)
        \/ Restart

\* The keys whose forget the crash of this step stopped between the row and the diff row.
CutShort == {task[t].key : t \in {u \in Task : boots' # boots /\ task[u].op = "forget" /\ ~task[u].row}}

Next == /\ Step
        /\ raced' = (raced \/ Overlap')
        /\ stray' = {k \in stray \cup CutShort : {k} \in diffRows' /\ k \notin expect'}

StateSpec == Init /\ [][Next]_stateVars

----------------------------------------------------------------------------
TypeOK ==
  /\ held \subseteq Key /\ placed \subseteq Key /\ rows \subseteq Key /\ expect \subseteq Key
  /\ diffs \subseteq SUBSET Key /\ diffRows \subseteq SUBSET Key
  /\ DOMAIN task = Task /\ stray \subseteq Key
  /\ raced \in BOOLEAN /\ started \in 0 .. MaxStart /\ boots \in 0 .. MaxBoot

\* At rest, if no clear and no delete overlapped another handler, the root, the map and the
\* rows are one key set, and it is the set the operations that ended have promised: also
\* after a restart, which neither empties the root nor brings back what a canonical rebuild or
\* a forget dropped (verkle-tree.js _loadState, state-machine.js _loadDiffs).  The one restart
\* left out starts from no rows and from a diff that outlived its keys: one of several keys, which
\* forget does not remove, or one whose forget a crash cut short.
RootIsPromise ==
  Rest /\ ~raced => placed = expect /\ held = expect /\ rows = expect

\* At rest and unraced the diffs in memory are the rows on disk, so what
\* applied_tx_count publishes survives a restart and a repeated backfill.
DiffsMatchRows ==
  Rest /\ ~raced => diffs = diffRows

=============================================================================
