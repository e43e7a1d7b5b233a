---------------------------- MODULE ContractHost ----------------------------
(***************************************************************************)
(* contract-host.js: calls of contracts.  A call stages what a frame may   *)
(* read, awaits the runtime, folds the frame's writes into an overlay,     *)
(* drains the messages the frames sent, checks the conservation of value   *)
(* and applies everything, awaiting every insert.  Calls are not           *)
(* serialised, so two of them interleave at every await.                   *)
(*                                                                         *)
(* What a contract does is any choice the ABI admits.  Its one slot counts *)
(* the frames that ran: each frame writes what it read plus one.           *)
(*                                                                         *)
(* The last part is how contracts come to know each other (deploy, link):  *)
(* an id is the hash of the bytes, so a contract learns its peers after    *)
(* they are deployed; peers and declared reads are checked when they are   *)
(* wired, and staged by every later call.                                  *)
(***************************************************************************)
EXTENDS Integers, Sequences, FiniteSets, SequencesExt

CONSTANTS
  Code,         \* contract bytes; the id is a function of them
  Kind,         \* what a deploy may say of the bytes: [wordAbi, byteState, fields], fields = -1 for no list
  MaxWirings,
  Contract,
  Gated,        \* the contracts deployed as gated
  Peer,         \* contract -> its linked peer
  Coin,         \* the coins there are at the start: [out, of, i] as Inserts makes them
  Create,       \* amounts a frame may create, 0 for none
  Caller,       \* calls that may be under way at once
  MaxFrames,    \* opts.maxFrames, 64 in the code
  MaxHostCalls

VARIABLES
  contracts,    \* contracts: id -> [kind, peers, reads]
  wirings,
  disturbed,    \* history: contracts whose peers changed after their reads were checked: a link of peers
                \* alone, a link that threw after it set the peers, or a deploy of a peer's bytes
  remade,       \* history: contracts one of whose peers was deployed again since they were linked
  slot,         \* committed slot of each contract
  coins,        \* committed utxo records; an id is the hash of a record with its amount
  spentMark,    \* committed spend: keys
  hostCall,     \* the transaction of each call
  framesDone,   \* history: frames of each contract in calls that were applied
  fees,         \* history: fees of the calls that were applied
  callsOverlap, \* history: a frame ran while another call was under way
  appliesOverlap, \* history: a call was checked while another one was being applied
  hostCalls

hostVars == <<slot, coins, spentMark, hostCall, framesDone, fees, callsOverlap, appliesOverlap, hostCalls>>

NoHostCall == [at |-> "idle"]
Unwritten == -1                     \* a slot the overlay does not hold
\* Value is counted by its units: those of a set of coins, and those of a sequence of outputs.
Worth(C) == Cardinality(UNION {{u} \X (1 .. u.out.amount) : u \in C})
SumOf(s) == Cardinality(UNION {{i} \X (1 .. s[i].amount) : i \in 1 .. Len(s)})

Init ==
  /\ slot = [k \in Contract |-> 0]
  /\ coins = Coin /\ spentMark = {}
  /\ hostCall = [c \in Caller |-> NoHostCall]
  /\ framesDone = [k \in Contract |-> 0]
  /\ fees = 0 /\ callsOverlap = FALSE /\ appliesOverlap = FALSE /\ hostCalls = 0

Applying(c) == hostCall[c].at = "apply"
Busy(c) == hostCall[c] # NoHostCall

\* Mutant: a frame reads what is committed, not what its transaction wrote.
txGetCommitted(v, k) == slot[k]

\* txGet: the overlay shadows committed state.
txGet(v, k) == IF v.overlay[k] # Unwritten THEN v.overlay[k] ELSE slot[k]

Goto(c, v) == hostCall' = [hostCall EXCEPT ![c] = v]
Reverted(c) == Goto(c, NoHostCall) /\ UNCHANGED <<slot, coins, spentMark, framesDone, fees>>

\* call: unknown contracts and unauthorised calls of gated ones are refused before anything runs.
CallContract(c, k, inputs, fee, authorised) ==
  /\ ~Busy(c)
  /\ hostCalls < MaxHostCalls
  /\ hostCalls' = hostCalls + 1
  /\ IF k \in Gated /\ ~authorised
     THEN UNCHANGED hostCall
     ELSE Goto(c, [at |-> "stage", overlay |-> [x \in Contract |-> Unwritten], queue |-> <<k>>,
                   inputs |-> inputs, fee |-> fee, frames |-> 0, read |-> 0, spent |-> {}, outs |-> <<>>,
                   ran |-> [x \in Contract |-> 0]])
  /\ UNCHANGED <<slot, coins, spentMark, framesDone, fees, callsOverlap, appliesOverlap>>

\* _runFrame up to the await: a cascade over the cap, a spent and an unknown input all revert.
Stage(c) ==
  LET v == hostCall[c]
      k == Head(v.queue)
  IN  /\ v.at = "stage"
      /\ IF \/ v.frames >= MaxFrames
            \/ v.inputs \cap spentMark # {}
            \/ ~(v.inputs \subseteq coins)
         THEN Reverted(c) /\ UNCHANGED callsOverlap
         ELSE /\ Goto(c, [v EXCEPT !.at = "run", !.frames = @ + 1, !.read = txGet(v, k)])
              /\ callsOverlap' = (callsOverlap \/ \E d \in Caller \ {c} : Busy(d))
              /\ UNCHANGED <<slot, coins, spentMark, framesDone, fees>>
      /\ UNCHANGED <<appliesOverlap, hostCalls>>

\* The fold after the await, for a frame that spent inputs, created one output and sent or not.
\* Inputs are presented to the entry frame only.
Fold(c, spend, out, send) ==
  LET v == hostCall[c]
      k == Head(v.queue)
      queue == Tail(v.queue) \o (IF send THEN <<Peer[k]>> ELSE <<>>)
  IN  /\ v.at = "run"
      /\ spend \subseteq v.inputs
      /\ Goto(c, [v EXCEPT !.at = IF queue = <<>> THEN "check" ELSE "stage",
                           !.overlay[k] = v.read + 1, !.queue = queue, !.inputs = {},
                           !.spent = @ \cup spend, !.ran[k] = @ + 1,
                           !.outs = IF out = 0 THEN @ ELSE Append(@, [from |-> k, amount |-> out])])
      /\ UNCHANGED <<slot, coins, spentMark, framesDone, fees, callsOverlap, appliesOverlap, hostCalls>>

\* The runtime throws: a trap, an undeclared read, a timeout.
Trap(c) ==
  /\ hostCall[c].at = "run"
  /\ Reverted(c)
  /\ UNCHANGED <<callsOverlap, appliesOverlap, hostCalls>>

\* Mutant: the outputs are bounded by what there is, not matched with what was spent.
ConservedLoose(v) == SumOf(v.outs) + v.fee <= Worth(coins)

\* The union of all frames: every spent coin unspent so far, and in = out + fee.
Conserved(v) ==
  v.spent # {} \/ v.outs # <<>> =>
    /\ v.spent \cap spentMark = {}
    /\ Worth(v.spent) = SumOf(v.outs) + v.fee

\* The inserts of the apply in their order: nullifiers, then outputs, then slots.
Inserts(v) ==
  SetToSeq({[what |-> "spend", id |-> u] : u \in v.spent})
    \o [i \in 1 .. Len(v.outs) |->
          [what |-> "utxo", id |-> [out |-> v.outs[i], of |-> v.spent, i |-> i]]]
    \o SetToSeq({[what |-> "slot", id |-> k, value |-> v.overlay[k]] : k \in {x \in Contract : v.overlay[x] # Unwritten}})

Inserted(w) ==
  /\ spentMark' = IF w.what = "spend" THEN spentMark \cup {w.id} ELSE spentMark
  /\ coins' = IF w.what = "utxo" THEN coins \cup {w.id} ELSE coins
  /\ slot' = IF w.what = "slot" THEN [slot EXCEPT ![w.id] = w.value] ELSE slot

Finished(v) ==
  /\ framesDone' = [k \in Contract |-> framesDone[k] + v.ran[k]]
  /\ fees' = fees + (IF v.spent # {} \/ v.outs # <<>> THEN v.fee ELSE 0)

\* After the last frame: revert wholly, or the first insert in the same turn as the check.
Check(c) ==
  LET v == hostCall[c]
  IN  /\ v.at = "check"
      /\ IF Conserved(v)
         THEN /\ Inserted(Head(Inserts(v)))
              /\ Goto(c, [at |-> "apply", todo |-> Tail(Inserts(v)), ran |-> v.ran, spent |-> v.spent,
                          outs |-> v.outs, fee |-> v.fee])
              /\ appliesOverlap' = (appliesOverlap \/ \E d \in Caller \ {c} : Applying(d))
              /\ UNCHANGED <<framesDone, fees>>
         ELSE Reverted(c) /\ UNCHANGED appliesOverlap
      /\ UNCHANGED <<callsOverlap, hostCalls>>

\* Every later insert in a turn of its own; the last one ends the call.
Apply(c) ==
  LET v == hostCall[c]
  IN  /\ v.at = "apply"
      /\ IF v.todo = <<>>
         THEN Finished(v) /\ Goto(c, NoHostCall) /\ UNCHANGED <<slot, coins, spentMark>>
         ELSE /\ Inserted(Head(v.todo))
              /\ Goto(c, [v EXCEPT !.todo = Tail(@)])
              /\ UNCHANGED <<framesDone, fees>>
      /\ UNCHANGED <<callsOverlap, appliesOverlap, hostCalls>>

Next == \E c \in Caller :
          \/ \E k \in Contract, ins \in SUBSET coins, fee \in {0, 1}, a \in BOOLEAN :
               /\ Cardinality(ins) <= 2 /\ (k \notin Gated => a)
               /\ CallContract(c, k, ins, fee, a)
          \/ \E spend \in SUBSET coins, out \in Create, send \in BOOLEAN : Fold(c, spend, out, send)
          \/ Stage(c) \/ Trap(c) \/ Check(c) \/ Apply(c)

HostSpec == Init /\ [][Next]_hostVars

----------------------------------------------------------------------------
Quiet == \A c \in Caller : ~Applying(c)
Unspent == Worth(coins \ spentMark)

\* No call makes or loses value: while no two calls were applied at once, the unspent coins and the
\* fees add up to what there was, however frames of different calls interleaved.
NoMint == Quiet /\ ~appliesOverlap => Unspent + fees = Worth(Coin)

\* A call is all of its frames or nothing: while calls did not overlap, every slot counts exactly the
\* frames of the calls that were applied; a later frame of a cascade saw what an earlier one wrote.
FramesCount == Quiet /\ ~callsOverlap => slot = framesDone

----------------------------------------------------------------------------
(* Deployment and wiring.                                                   *)

linkVars == <<contracts, wirings, disturbed, remade>>

None == [deployed |-> FALSE]
deployed == {c \in Code : contracts[c].deployed}

LinkInit == contracts = [c \in Code |-> None] /\ wirings = 0 /\ disturbed = {} /\ remade = {}

\* deploy: the entry is set again, whatever it was; peers and reads start empty.
Deploy(c, k) ==
  /\ wirings < MaxWirings /\ wirings' = wirings + 1
  /\ contracts' = [contracts EXCEPT ![c] = [deployed |-> TRUE, kind |-> k, peers |-> <<>>, reads |-> {}]]
  /\ LET linked == {d \in deployed : \E i \in 1..Len(contracts[d].peers) : contracts[d].peers[i] = c}
     IN  disturbed' = disturbed \cup linked /\ remade' = remade \cup linked

\* link, peers: known, and of the same ABI.
PeersRefused(c, ps) ==
  \E i \in 1..Len(ps) : ~contracts[ps[i]].deployed \/ contracts[ps[i]].kind.wordAbi # contracts[c].kind.wordAbi

\* Mutant: the field index may be one past the last field.
InFieldsOne(f, k) == f <= k.fields
InFields(f, k) == f < k.fields
\* link, reads: a word contract's read names a linked peer that keeps byte state, lists its fields and
\* has one of that index.
ReadResolves(ps, r) ==
  /\ r[1] < Len(ps)
  /\ LET p == contracts[ps[r[1] + 1]] IN
       p.deployed /\ p.kind.byteState /\ p.kind.fields >= 0 /\ InFields(r[2], p.kind)

\* link: the peers are set before the reads are looked at, and stay when a read is refused.
Link(c, newPeers, peers, newReads, reads) ==
  /\ wirings < MaxWirings /\ wirings' = wirings + 1
  /\ c \in deployed /\ (newPeers \/ newReads)
  /\ ~(newPeers /\ PeersRefused(c, peers))
  /\ LET ps == IF newPeers THEN peers ELSE contracts[c].peers
         ok == contracts[c].kind.wordAbi => \A r \in reads : ReadResolves(ps, r)
     IN  /\ contracts' = [contracts EXCEPT ![c].peers = ps, ![c].reads = IF newReads /\ ok THEN reads ELSE @]
         /\ disturbed' = IF newReads /\ ok THEN disturbed \ {c}
                         ELSE IF newPeers THEN disturbed \cup {c} ELSE disturbed
         /\ remade' = IF newPeers THEN remade \ {c} ELSE remade

Reads == {<<p, f>> : p \in 0..1, f \in 0..2}
LinkNext == \/ \E c \in Code, k \in Kind : Deploy(c, k)
        \/ \E c \in Code, np, nr \in BOOLEAN, ps \in {<<d>> : d \in Code}, r \in Reads : Link(c, np, ps, nr, {r})

LinkSpec == LinkInit /\ [][LinkNext]_linkVars

----------------------------------------------------------------------------
\* _runFrame: the fields a call stages for a contract's declared reads.
Staged(c) == {r \in contracts[c].reads : r[1] < Len(contracts[c].peers)}

\* "any read outside it traps (fail-closed)": a call of a word contract stages, for every read it
\* declared, a field its peer has, and never a name that is not there; unless its wiring was replaced
\* under it after the reads were checked.
ReadsResolve ==
  \A c \in deployed \ disturbed : contracts[c].kind.wordAbi =>
    \A r \in contracts[c].reads :
      /\ r \in Staged(c)
      /\ r[2] < contracts[contracts[c].peers[r[1] + 1]].kind.fields

\* "Reject an ABI mismatch at WIRING time": two linked contracts pass a message in one ABI, unless a peer
\* was deployed again.
SameAbi ==
  \A c \in deployed \ remade : \A i \in 1..Len(contracts[c].peers) :
    contracts[contracts[c].peers[i]].kind.wordAbi = contracts[c].kind.wordAbi

\* The wiring of contracts: both of the above.
LinksSound == ReadsResolve /\ SameAbi
=============================================================================
