--------------------------- MODULE WorkflowProofs ---------------------------
(***************************************************************************)
(* Proofs about the validation pipeline of one node, for every set of      *)
(* peers and transactions and every bound, under the conditions that the   *)
(* code's guarantees turn out to need.                                     *)
(***************************************************************************)
EXTENDS Workflow, FiniteSetTheorems, TLAPS

\* Who hands transactions to this node: the peers that gossip them, and the node's own clients.
Source == Submitter \cup {v \in {Self} : MaxSubmits > 0}

\* Every transaction has one entry in the raw pool at most: one source hands all of them over.
OneSource == \A l, m \in Source : l = m

\* No source hands a transaction over twice: there is no restart to forget what
\* arrived, and at most one local submission.
HandedOnce == MaxCrashes = 0 /\ MaxSubmits =< 1

\* The live leads never change, so the recovery sweeps stay disarmed.
Steady == ~ Churn

\* The submitter l has handed t over (of local submissions: any).
Arrived(l, t) == IF l = Self THEN submits > 0 ELSE <<l, t>> \in ingested

\* The counter of moves counts what is processed.
MovesInv == \A t \in Tx : moves[t] =< 1 /\ (t \notin processed => moves[t] = 0)

\* With one source there is one place per transaction, and a processed
\* transaction has no vote in it.
OnePlaceInv ==
  /\ \A t \in Tx : owner[t] \in Source \cup {None}
  /\ \A l \in Validator, t \in Tx : raw[<<l, t>>].pooled => l \in Source
  /\ \A j \in jobs : j.sub \in Source
  /\ \A l \in Validator, t \in processed : raw[<<l, t>>].votes = {}
  /\ MovesInv

\* What is under way, pooled or mapped has arrived, and is admitted once.
ArrivedInv ==
  /\ crashes = 0
  /\ \A j \in jobs : Arrived(j.sub, j.tx)
  /\ \A j, k \in jobs : j.sub = k.sub /\ j.tx = k.tx => j = k
  /\ \A l \in Validator, t \in Tx : raw[<<l, t>>].pooled \/ owner[t] = l => Arrived(l, t)

\* Votes are cast in the place a transaction is mapped to, which it becomes
\* once; when the transaction is processed, the place has no votes or is not
\* mapped to again.
VotesInv ==
  /\ \A j \in jobs : raw[<<j.sub, j.tx>>].votes = {} /\ owner[j.tx] # j.sub
  /\ \A l \in Validator, t \in processed : owner[t] = l => raw[<<l, t>>].votes = {}
  /\ MovesInv

\* An entry that was reaped is gone for good, so the late deletion of its
\* mapping finds no tasks.
ReapInv ==
  /\ \A t \in Tx : owner[t] \in Source \cup {None}
  /\ \A l \in Validator, t \in Tx : raw[<<l, t>>].pooled => l \in Source
  /\ \A j \in jobs :
       /\ j.sub \in Source
       /\ j.stage # "again"
       /\ j.stage = "lock" => ~ raw[<<j.sub, j.tx>>].pooled
  /\ \A t \in Tx : <<t, "map">> \in clearing =>
       /\ \A l \in Source : Arrived(l, t) /\ ~ raw[<<l, t>>].pooled
       /\ \A j \in jobs : j.tx # t
       /\ Holders(t) = {}
  /\ TasksMapped

\* Until the leads change, only validators of the recorded set hold tasks or
\* have voted, and a recorded set is not larger than what is required.
AssignedInv ==
  /\ \A t \in Tx : owner[t] \in Source \cup {None}
  /\ \A l \in Validator, t \in Tx : raw[<<l, t>>].pooled => l \in Source
  /\ \A j \in jobs :
       /\ j.sub \in Source
       /\ leaders[j.tx] = {}
       /\ Cardinality(j.set) =< Required
  /\ \A t \in Tx :
       /\ Cardinality(leaders[t]) =< Required
       /\ leaders[t] # {} => \A l \in Source : Arrived(l, t)
       /\ Holders(t) \subseteq leaders[t]
       /\ \A l \in Validator : raw[<<l, t>>].votes \subseteq leaders[t]

-----------------------------------------------------------------------------
(* What the shared steps do.                                               *)

Assumptions == NameAssumption /\ TxAssumption /\ PeerAssumption /\ BoundAssumption

\* The assumptions on the constants, together.
LEMMA Given == Assumptions
BY NameAssumption, TxAssumption, PeerAssumption, BoundAssumption DEF Assumptions

\* The validators are finitely many, and so is every set of them.
LEMMA ValidatorsFinite ==
  /\ IsFiniteSet(Validator)
  /\ \A S \in SUBSET Validator : IsFiniteSet(S) /\ Cardinality(S) \in Nat
<1>1. IsFiniteSet(Validator)
  BY NameAssumption, FS_AddElement DEF Validator
<1>2. ASSUME NEW S \in SUBSET Validator PROVE IsFiniteSet(S) /\ Cardinality(S) \in Nat
  BY <1>1, FS_Subset, FS_CardinalityType
<1> QED BY <1>1, <1>2

\* A place without a pooled entry is empty.
LEMMA EntryFacts ==
  /\ NoEntry \in Entry /\ NewEntry \in Entry
  /\ ~ NoEntry.pooled /\ NoEntry.votes = {} /\ NewEntry.pooled /\ NewEntry.votes = {}
  /\ \A e \in Entry :
       /\ e.pooled \in BOOLEAN /\ e.votes \in SUBSET Validator /\ e.saved \in SUBSET Validator
       /\ ~ e.pooled => e = NoEntry
       /\ e.pooled => e \in [pooled : {TRUE}, votes : SUBSET Validator, saved : SUBSET Validator]
<1>1. NoEntry \in Entry /\ NoEntry.pooled = FALSE /\ NoEntry.votes = {} /\ NoEntry.saved = {}
  BY DEF Entry, NoEntry
<1>2. NewEntry \in Entry /\ NewEntry.pooled /\ NewEntry.votes = {}
  BY DEF Entry, NewEntry
<1>3. ASSUME NEW e \in Entry
      PROVE  /\ e.pooled \in BOOLEAN /\ e.votes \in SUBSET Validator /\ e.saved \in SUBSET Validator
             /\ ~ e.pooled => e = NoEntry
             /\ e.pooled => e \in [pooled : {TRUE}, votes : SUBSET Validator, saved : SUBSET Validator]
  <2>1. CASE e = NoEntry
    BY <1>1, <2>1
  <2>2. CASE e \in [pooled : {TRUE}, votes : SUBSET Validator, saved : SUBSET Validator]
    BY <2>2
  <2> QED BY <2>1, <2>2 DEF Entry
<1> QED BY <1>1, <1>2, <1>3

\* Recording a set changes neither which places are taken nor the votes in them.
LEMMA RecordedFacts ==
  ASSUME TypeOK, NEW o \in Validator, NEW t \in Tx, NEW S \in SUBSET Validator
  PROVE  /\ Recorded(o, t, S) \in [Slot -> Entry]
         /\ \A s \in Slot : /\ Recorded(o, t, S)[s].pooled = raw[s].pooled
                            /\ Recorded(o, t, S)[s].votes = raw[s].votes
<1>1. /\ raw \in [Slot -> Entry]
      /\ <<o, t>> \in Slot
  BY DEF TypeOK, Slot
<1>2. CASE ~ raw[<<o, t>>].pooled
  BY <1>1, <1>2 DEF Recorded
<1>3. CASE raw[<<o, t>>].pooled
  <2> DEFINE e == [raw[<<o, t>>] EXCEPT !.saved = S]
  <2>1. /\ e \in Entry
        /\ e.pooled = raw[<<o, t>>].pooled
        /\ e.votes = raw[<<o, t>>].votes
    <3>1. raw[<<o, t>>] \in [pooled : {TRUE}, votes : SUBSET Validator, saved : SUBSET Validator]
      BY <1>1, <1>3, EntryFacts
    <3>2. e \in [pooled : {TRUE}, votes : SUBSET Validator, saved : SUBSET Validator]
      BY <3>1
    <3> QED BY <3>1, <3>2 DEF Entry
  <2>2. Recorded(o, t, S) = [raw EXCEPT ![<<o, t>>] = e]
    BY <1>3 DEF Recorded
  <2> HIDE DEF e
  <2> QED BY <1>1, <2>1, <2>2
<1> QED BY <1>2, <1>3

\* The votes of W go into the entry that is mapped, and nowhere else.
LEMMA VotedFacts ==
  ASSUME NEW R \in [Slot -> Entry], NEW o \in Validator \cup {None}, NEW t \in Tx,
         NEW W \in SUBSET Validator
  PROVE  /\ Voted(R, o, t, W) \in [Slot -> Entry]
         /\ \A s \in Slot :
              /\ Voted(R, o, t, W)[s].pooled = R[s].pooled
              /\ Voted(R, o, t, W)[s].votes
                   \subseteq R[s].votes \cup (IF s = <<o, t>> THEN W ELSE {})
<1>1. CASE ~ (o # None /\ R[<<o, t>>].pooled)
  BY <1>1 DEF Voted
<1>2. CASE o # None /\ R[<<o, t>>].pooled
  <2> DEFINE e == [R[<<o, t>>] EXCEPT !.votes = R[<<o, t>>].votes \cup W]
  <2>0. <<o, t>> \in Slot
    BY <1>2 DEF Slot
  <2>1. /\ e \in Entry
        /\ e.pooled = R[<<o, t>>].pooled
        /\ e.votes = R[<<o, t>>].votes \cup W
    <3>1. R[<<o, t>>] \in [pooled : {TRUE}, votes : SUBSET Validator, saved : SUBSET Validator]
      BY <1>2, <2>0, EntryFacts
    <3>2. e \in [pooled : {TRUE}, votes : SUBSET Validator, saved : SUBSET Validator]
      BY <3>1
    <3> QED BY <3>1, <3>2 DEF Entry
  <2>2. Voted(R, o, t, W) = [R EXCEPT ![<<o, t>>] = e]
    BY <1>2 DEF Voted
  <2> HIDE DEF e
  <2> QED BY <2>0, <2>1, <2>2
<1> QED BY <1>1, <1>2

\* What completeValidation may change, for the reports of V on t: the votes of
\* H in the mapped entry, the tasks of H, or an eviction.
Effect(t, o, H, V) ==
  /\ owner' \in {[owner EXCEPT ![t] = o], [owner EXCEPT ![t] = None]}
  /\ \A s \in Slot : raw'[s].pooled => raw[s].pooled
  /\ \A s \in Slot : raw'[s].votes \subseteq raw[s].votes \cup (IF s = <<o, t>> THEN Valid(t, H, V) ELSE {})
  /\ \A u \in Tx, v \in Validator : tasks'[u][v] # "none" =>
       /\ tasks[u][v] # "none" \/ (u = t /\ v \in H)
       /\ u = t => owner'[t] = o
  /\ clearing \subseteq clearing' /\ clearing' \subseteq clearing \cup {<<t, "all">>}

CastType ==
  /\ raw      \in [Slot -> Entry]
  /\ owner    \in [Tx -> Validator \cup {None}]
  /\ tasks    \in [Tx -> [Validator -> {"none", "open", "done"}]]
  /\ clearing \subseteq Tx \X {"map", "all"}
  /\ checking \subseteq Tx \X Validator

\* completeValidation has that effect, in the pool as it is or with a set
\* recorded in it.
LEMMA CastEffect ==
  ASSUME TypeOK, NEW t \in Tx, NEW o \in Validator \cup {None},
         NEW H \in SUBSET Validator, NEW V \in SUBSET Validator,
         NEW R \in [Slot -> Entry],
         \A s \in Slot : R[s].pooled = raw[s].pooled /\ R[s].votes = raw[s].votes,
         Cast(R, t, o, H, V)
  PROVE  CastType' /\ Effect(t, o, H, V)
<1> DEFINE valid == Valid(t, H, V)
           bad   == valid # {} /\ t \in keys /\ o # None /\ R[<<o, t>>].pooled
           held  == [v \in Validator |->
                       IF v \in valid THEN "done"
                       ELSE IF v \in H /\ tasks[t][v] = "none" THEN "open" ELSE tasks[t][v]]
<1>1. valid \in SUBSET Validator /\ valid \subseteq H
  BY DEF Valid
<1>2. /\ raw \in [Slot -> Entry] /\ owner \in [Tx -> Validator \cup {None}]
      /\ tasks \in [Tx -> [Validator -> {"none", "open", "done"}]]
      /\ clearing \subseteq Tx \X {"map", "all"} /\ checking \subseteq Tx \X Validator
  BY DEF TypeOK
<1>3. \/ /\ bad
         /\ raw'   = [R EXCEPT ![<<o, t>>] = NoEntry]
         /\ owner' = [owner EXCEPT ![t] = None]
         /\ tasks' = [tasks EXCEPT ![t] = NoTasks]
         /\ clearing' = clearing \cup {<<t, "all">>}
         /\ UNCHANGED checking
      \/ /\ raw'   = Voted(R, o, t, valid)
         /\ owner' = [owner EXCEPT ![t] = o]
         /\ tasks' = [tasks EXCEPT ![t] = held]
         /\ checking' = checking \cup ({t} \X valid)
         /\ UNCHANGED clearing
  BY Zenon DEF Cast
<1>4. CASE /\ bad
           /\ raw'   = [R EXCEPT ![<<o, t>>] = NoEntry]
           /\ owner' = [owner EXCEPT ![t] = None]
           /\ tasks' = [tasks EXCEPT ![t] = NoTasks]
           /\ clearing' = clearing \cup {<<t, "all">>}
           /\ UNCHANGED checking
  <2>1. /\ \A s \in Slot : raw'[s] = R[s] \/ raw'[s] = NoEntry
        /\ raw' \in [Slot -> Entry]
    BY <1>4, EntryFacts
  <2>2. NoTasks \in [Validator -> {"none", "open", "done"}] /\ \A v \in Validator : NoTasks[v] = "none"
    BY DEF NoTasks
  <2>3. CastType'
    BY <1>2, <1>4, <2>1, <2>2 DEF CastType
  <2>4. Effect(t, o, H, V)
    BY <1>2, <1>4, <2>1, <2>2, EntryFacts DEF Effect
  <2> QED BY <2>3, <2>4
<1>5. CASE /\ raw'   = Voted(R, o, t, valid)
           /\ owner' = [owner EXCEPT ![t] = o]
           /\ tasks' = [tasks EXCEPT ![t] = held]
           /\ checking' = checking \cup ({t} \X valid)
           /\ UNCHANGED clearing
  <2>1. /\ raw' \in [Slot -> Entry]
        /\ \A s \in Slot : /\ raw'[s].pooled = R[s].pooled
                           /\ raw'[s].votes \subseteq R[s].votes \cup (IF s = <<o, t>> THEN valid ELSE {})
    <3>1. raw' = Voted(R, o, t, valid)
      BY <1>5
    <3> HIDE DEF valid
    <3>2. /\ Voted(R, o, t, valid) \in [Slot -> Entry]
          /\ \A s \in Slot :
               /\ Voted(R, o, t, valid)[s].pooled = R[s].pooled
               /\ Voted(R, o, t, valid)[s].votes
                    \subseteq R[s].votes \cup (IF s = <<o, t>> THEN valid ELSE {})
      BY <1>1, VotedFacts
    <3> QED BY <3>1, <3>2
  <2>2. /\ held \in [Validator -> {"none", "open", "done"}]
        /\ \A v \in Validator : held[v] # "none" => tasks[t][v] # "none" \/ v \in H
    BY <1>1, <1>2
  <2> HIDE DEF held, valid
  <2>3. CastType'
    BY <1>1, <1>2, <1>5, <2>1, <2>2 DEF CastType
  <2>4. Effect(t, o, H, V)
    BY <1>2, <1>5, <2>1, <2>2 DEF Effect, valid
  <2> QED BY <2>3, <2>4
<1> QED BY <1>3, <1>4, <1>5

\* The sets that may be recorded.
LEMMA LeaderSetFacts ==
  ASSUME NEW l \in Validator, NEW L \in SUBSET Validator, NEW S \in LeaderSets(l, L)
  PROVE  S \in SUBSET Validator /\ l \in S /\ Cardinality(S) \in Nat /\ Cardinality(S) =< Required
<1>1. S \in SUBSET Validator /\ l \in S /\ Cardinality(S) = Lesser(Required, Cardinality(L \cup {l}))
  BY DEF LeaderSets
<1>2. Cardinality(L \cup {l}) \in Nat
  BY ValidatorsFinite
<1> QED BY <1>1, <1>2, BoundAssumption DEF Lesser

\* createValidationTasks records the set and has the effect of a validation by
\* the holders of a task and the validators of the set.
LEMMA AssignEffect ==
  ASSUME TypeOK, NEW t \in Tx, NEW o \in Validator, NEW S \in SUBSET Validator,
         NEW Late \in SUBSET Validator, Assign(t, o, S, Late)
  PROVE  /\ CastType'
         /\ \E V \in SUBSET Validator : Effect(t, o, Holders(t) \cup S, V)
         /\ leaders' = [leaders EXCEPT ![t] = S]
         /\ claimed' \subseteq Tx
<1> DEFINE mine == {Self} \cap {v \in S : t \notin claimed}
<1>1. mine \cup Late \in SUBSET Validator /\ Holders(t) \cup S \in SUBSET Validator
  BY DEF Holders
<1>2. /\ leaders' = [leaders EXCEPT ![t] = S]
      /\ claimed' = claimed \cup {t : v \in mine}
      /\ Cast(Recorded(o, t, S), t, o, Holders(t) \cup S, mine \cup Late)
  BY Zenon DEF Assign
<1>3. claimed' \subseteq Tx
  BY <1>2 DEF TypeOK
<1> HIDE DEF mine
<1>4. CastType' /\ Effect(t, o, Holders(t) \cup S, mine \cup Late)
  BY <1>1, <1>2, RecordedFacts, CastEffect
<1> QED BY <1>1, <1>2, <1>3, <1>4


\* The pool, the mapping and the tasks without the place <<l, t>>.
LEMMA RemoveEffect ==
  ASSUME TypeOK, NEW l \in Validator \cup {None}, NEW t \in Tx, Remove(l, t)
  PROVE  /\ \A s \in Slot : raw'[s] = IF s = <<l, t>> THEN NoEntry ELSE raw[s]
         /\ \A u \in Tx : owner'[u] = IF u = t /\ owner[t] = l THEN None ELSE owner[u]
         /\ \A u \in Tx : tasks'[u] = IF u = t /\ owner[t] = l THEN NoTasks ELSE tasks[u]
         /\ raw' \in [Slot -> Entry]
         /\ owner' \in [Tx -> Validator \cup {None}]
         /\ tasks' \in [Tx -> [Validator -> {"none", "open", "done"}]]
<1>1. /\ raw \in [Slot -> Entry] /\ owner \in [Tx -> Validator \cup {None}]
      /\ tasks \in [Tx -> [Validator -> {"none", "open", "done"}]]
  BY DEF TypeOK
<1>2. NoTasks \in [Validator -> {"none", "open", "done"}]
  BY DEF NoTasks
<1>3. raw' = [raw EXCEPT ![<<l, t>>] = NoEntry]
  BY DEF Remove
<1>4. /\ \A s \in Slot : raw'[s] = IF s = <<l, t>> THEN NoEntry ELSE raw[s]
      /\ raw' \in [Slot -> Entry]
  BY <1>1, <1>3, EntryFacts
<1>5. /\ \A u \in Tx : owner'[u] = IF u = t /\ owner[t] = l THEN None ELSE owner[u]
      /\ owner' \in [Tx -> Validator \cup {None}]
  BY <1>1 DEF Remove
<1>6. /\ \A u \in Tx : tasks'[u] = IF u = t /\ owner[t] = l THEN NoTasks ELSE tasks[u]
      /\ tasks' \in [Tx -> [Validator -> {"none", "open", "done"}]]
  BY <1>1, <1>2 DEF Remove
<1> QED BY <1>4, <1>5, <1>6

\* At least one vote is required, so what has enough of them is mapped.
LEMMA NeedFacts ==
  ASSUME TypeOK, NEW t \in Tx
  PROVE  /\ Need(t) \in Nat /\ Need(t) >= 1 /\ Count(t) \in Nat
         /\ Count(t) >= Need(t) => /\ owner[t] \in Validator
                                   /\ raw[<<owner[t], t>>].votes # {}
<1>1. leaders[t] \in SUBSET Validator /\ owner[t] \in Validator \cup {None}
  BY DEF TypeOK
<1>2. Need(t) \in Nat /\ Need(t) >= 1
  <2>1. CASE leaders[t] = {}
    BY <2>1 DEF Need
  <2>2. CASE leaders[t] # {}
    <3>1. Cardinality(leaders[t]) \in Nat /\ Cardinality(leaders[t]) # 0
      BY <1>1, <2>2, ValidatorsFinite, FS_EmptySet
    <3> QED BY <2>2, <3>1, BoundAssumption DEF Need, Lesser
  <2> QED BY <2>1, <2>2
<1>3. CASE owner[t] = None
  BY <1>2, <1>3 DEF Count
<1>4. CASE owner[t] # None
  <2>1. raw[<<owner[t], t>>].votes \in SUBSET Validator
    BY <1>1, <1>4, EntryFacts DEF TypeOK, Slot
  <2>2. Count(t) = Cardinality(raw[<<owner[t], t>>].votes) /\ Count(t) \in Nat
    BY <1>4, <2>1, ValidatorsFinite DEF Count
  <2> QED BY <1>1, <1>2, <1>4, <2>1, <2>2, FS_EmptySet
<1> QED BY <1>3, <1>4

\* A move takes a mapped entry with votes out of the pool.
LEMMA MoveEffect ==
  ASSUME TypeOK, NEW t \in Tx, Count(t) >= Need(t), Move(t)
  PROVE  /\ owner[t] \in Validator
         /\ raw[<<owner[t], t>>].votes # {}
         /\ processed' = processed \cup {t}
         /\ moves' = [moves EXCEPT ![t] = Lesser(2, moves[t] + 1)]
         /\ moves' \in [Tx -> 0 .. 2] /\ processing' \subseteq Row
         /\ Remove(owner[t], t)
<1>1. /\ processed' = processed \cup {t}
      /\ moves' = [moves EXCEPT ![t] = Lesser(2, moves[t] + 1)]
      /\ processing' = processing \cup {[tx |-> t, n |-> moves'[t], stage |-> "moving"]}
      /\ Remove(owner[t], t)
  BY DEF Move
<1>2. moves \in [Tx -> 0 .. 2] /\ processing \subseteq Row
  BY DEF TypeOK
<1>3. moves' \in [Tx -> 0 .. 2] /\ moves'[t] \in 1 .. 2
  BY <1>1, <1>2 DEF Lesser
<1>4. processing' \subseteq Row
  BY <1>1, <1>2, <1>3 DEF Row
<1> QED BY <1>1, <1>3, <1>4, NeedFacts

-----------------------------------------------------------------------------
(* Types.                                                                  *)

LEMMA TypeInit == Init => TypeOK
<1> SUFFICES ASSUME Init PROVE TypeOK
  OBVIOUS
<1>1. raw \in [Slot -> Entry]
  BY EntryFacts DEF Init
<1>2. tasks \in [Tx -> [Validator -> {"none", "open", "done"}]]
  BY DEF Init, NoTasks
<1> QED BY <1>1, <1>2, BoundAssumption DEF Init, TypeOK

\* The arrivals keep the types.
LEMMA TypeArrive ==
  ASSUME TypeOK,
         \/ \E t \in Tx : Submit(t) \/ LearnKey(t)
         \/ \E l \in Submitter, t \in Tx : \E S \in Broadcast(l) : Receive(l, t, S)
         \/ \E j \in jobs : AddRaw(j)
  PROVE  TypeOK'
<1>1. ASSUME NEW t \in Tx, Submit(t) PROVE TypeOK'
  <2>1. jobs' \subseteq Job
    BY <1>1 DEF TypeOK, Submit, Job, Validator
  <2>2. submits' \in 0 .. MaxSubmits
    BY <1>1, BoundAssumption DEF TypeOK, Submit
  <2>3. locked' \subseteq {From[u] : u \in Tx}
    BY <1>1 DEF TypeOK, Submit
  <2> QED BY <1>1, <2>1, <2>2, <2>3 DEF TypeOK, Submit
<1>2. ASSUME NEW t \in Tx, LearnKey(t) PROVE TypeOK'
  BY <1>2 DEF TypeOK, LearnKey, history
<1>3. ASSUME NEW l \in Submitter, NEW t \in Tx, NEW S \in Broadcast(l), Receive(l, t, S) PROVE TypeOK'
  <2>1. l \in Validator /\ S \in SUBSET Validator
    BY PeerAssumption, LeaderSetFacts DEF Broadcast, Validator
  <2>2. jobs' \subseteq Job
    BY <1>3, <2>1 DEF TypeOK, Receive, Job
  <2>3. ingested' \subseteq Slot
    BY <1>3, <2>1 DEF TypeOK, Receive, Slot
  <2>4. applied' \subseteq Tx \X Validator /\ pending' \subseteq Tx \X Validator
    BY <1>3 DEF TypeOK, Receive, Buffered
  <2>5. locked' \subseteq {From[u] : u \in Tx}
    BY <1>3 DEF TypeOK, Receive
  <2> QED BY <1>3, <2>2, <2>3, <2>4, <2>5 DEF TypeOK, Receive
<1>4. ASSUME NEW j \in jobs, AddRaw(j) PROVE TypeOK'
  <2>1. j \in Job /\ <<j.sub, j.tx>> \in Slot
    BY DEF TypeOK, Job, Slot
  <2>2. raw' \in [Slot -> Entry]
    BY <1>4, <2>1, EntryFacts DEF TypeOK, AddRaw
  <2>3. \A st \in {"again", "save"} : [j EXCEPT !.stage = st] \in Job
    BY <2>1 DEF Job
  <2>4. jobs' \subseteq Job
    BY <1>4, <2>3 DEF TypeOK, AddRaw
  <2> QED BY <1>4, <2>2, <2>4 DEF TypeOK, AddRaw, history
<1> QED BY <1>1, <1>2, <1>3, <1>4


\* A validation keeps the types.
LEMMA TypeValidate ==
  ASSUME TypeOK,
         \/ \E j \in jobs : Register(j)
         \/ \E t \in Tx, v \in Peer : Report(t, v)
         \/ \E t \in Tx : WorkerDrain(t)
         \/ \E l \in Validator, t \in Tx : Recover(l, t)
  PROVE  TypeOK'
<1>0. \A t \in Tx : /\ Holders(t) \in SUBSET Validator
                    /\ owner[t] \in Validator \cup {None}
                    /\ Buffered(t) \in SUBSET Validator
  BY DEF Holders, TypeOK, Buffered
<1>a. \A L \in Live : L \in SUBSET Validator
  BY DEF Live, Validator
<1>b. raw \in [Slot -> Entry]
  BY DEF TypeOK
<1>1. ASSUME NEW j \in jobs, Register(j) PROVE TypeOK'
  <2>1. j \in Job /\ j.sub \in Validator /\ j.tx \in Tx /\ j.set \in SUBSET Validator
    BY DEF TypeOK, Job
  <2> DEFINE late == IF j.sub = Self THEN {} ELSE Buffered(j.tx)
  <2>2. PICK L \in Live : \E S \in (IF j.set = {} THEN LeaderSets(j.sub, L) ELSE {j.set}) :
                            Assign(j.tx, j.sub, S, late)
    BY <1>1 DEF Register
  <2>3. PICK S \in (IF j.set = {} THEN LeaderSets(j.sub, L) ELSE {j.set}) : Assign(j.tx, j.sub, S, late)
    BY <2>2
  <2>4. S \in SUBSET Validator /\ late \in SUBSET Validator
    BY <1>0, <1>a, <2>1, LeaderSetFacts
  <2>6. applied' \subseteq Tx \X Validator /\ pending' \subseteq Tx \X Validator
    BY <1>1, <2>1, <2>4 DEF TypeOK, Register
  <2> HIDE DEF late
  <2>5. CastType' /\ leaders' = [leaders EXCEPT ![j.tx] = S] /\ claimed' \subseteq Tx
    BY <2>1, <2>3, <2>4, AssignEffect
  <2>7. leaders' \in [Tx -> SUBSET Validator] /\ jobs' \subseteq Job
    BY <1>1, <2>1, <2>4, <2>5 DEF TypeOK, Register
  <2> QED BY <1>1, <2>5, <2>6, <2>7 DEF TypeOK, Register, CastType
<1>2. ASSUME NEW t \in Tx, NEW v \in Peer, Report(t, v) PROVE TypeOK'
  <2>1. v \in Validator
    BY DEF Validator
  <2>2. CastType'
    <3>1. CASE Cast(raw, t, owner[t], Holders(t), {v})
      BY <1>0, <1>b, <2>1, <3>1, CastEffect
    <3>2. CASE UNCHANGED <<raw, owner, tasks, clearing, checking>>
      BY <3>2 DEF TypeOK, CastType
    <3> QED BY <1>2, <3>1, <3>2 DEF Report
  <2>3. applied' \subseteq Tx \X Validator /\ pending' \subseteq Tx \X Validator
    BY <1>2, <2>1 DEF TypeOK, Report
  <2> QED BY <1>2, <2>2, <2>3 DEF TypeOK, Report, CastType, history
<1>3. ASSUME NEW t \in Tx, WorkerDrain(t) PROVE TypeOK'
  <2>1. {Self} \ {v \in {Self} : t \in claimed} \in SUBSET Validator
    BY DEF Validator
  <2>2. CastType'
    BY <1>0, <1>3, <1>b, <2>1, CastEffect DEF WorkerDrain
  <2> QED BY <1>3, <2>2 DEF TypeOK, WorkerDrain, CastType, history
<1>4. ASSUME NEW l \in Validator, NEW t \in Tx, Recover(l, t) PROVE TypeOK'
  <2> DEFINE o == IF owner[t] = None THEN l ELSE owner[t]
             late == {}
  <2>1. o \in Validator /\ late \in SUBSET Validator
    BY <1>0
  <2>2. PICK L \in Live : \E S \in LeaderSets(o, L) : Assign(t, o, S, late)
    BY <1>4 DEF Recover
  <2>3. PICK S \in LeaderSets(o, L) : Assign(t, o, S, late)
    BY <2>2
  <2> HIDE DEF o, late
  <2>4. S \in SUBSET Validator
    BY <1>a, <2>1, LeaderSetFacts
  <2>5. CastType' /\ leaders' = [leaders EXCEPT ![t] = S] /\ claimed' \subseteq Tx
    BY <2>1, <2>3, <2>4, AssignEffect
  <2> QED BY <1>4, <2>4, <2>5 DEF TypeOK, Recover, CastType, history
<1> QED BY <1>1, <1>2, <1>3, <1>4

\* A move and its tail keep the types.
LEMMA TypeMove ==
  ASSUME TypeOK,
         \/ \E t \in Tx, v \in Validator : Check(t, v)
         \/ \E l \in Validator, t \in Tx : Promote(l, t)
         \/ \E r \in processing : MoveEnd(r) \/ Finalize(r)
  PROVE  TypeOK'
<1>1. ASSUME NEW t \in Tx, NEW v \in Validator, Check(t, v) PROVE TypeOK'
  <2>1. CASE Count(t) >= Need(t) /\ Move(t)
    <3>1. /\ processed' \subseteq Tx /\ processing' \subseteq Row /\ moves' \in [Tx -> 0 .. 2]
          /\ owner[t] \in Validator /\ Remove(owner[t], t)
      BY <2>1, MoveEffect DEF TypeOK
    <3>2. /\ raw' \in [Slot -> Entry]
          /\ owner' \in [Tx -> Validator \cup {None}]
          /\ tasks' \in [Tx -> [Validator -> {"none", "open", "done"}]]
      BY <3>1, RemoveEffect
    <3> QED BY <1>1, <3>1, <3>2 DEF TypeOK, Check
  <2>2. CASE UNCHANGED <<raw, owner, tasks, processed, processing, moves>>
    BY <1>1, <2>2 DEF TypeOK, Check
  <2> QED BY <1>1, <2>1, <2>2 DEF Check
<1>2. ASSUME NEW l \in Validator, NEW t \in Tx, Promote(l, t) PROVE TypeOK'
  <2>1. /\ processed' \subseteq Tx /\ processing' \subseteq Row /\ moves' \in [Tx -> 0 .. 2]
        /\ owner[t] \in Validator /\ Remove(owner[t], t)
    BY <1>2, MoveEffect DEF TypeOK, Promote
  <2>2. /\ raw' \in [Slot -> Entry]
        /\ owner' \in [Tx -> Validator \cup {None}]
        /\ tasks' \in [Tx -> [Validator -> {"none", "open", "done"}]]
    BY <2>1, RemoveEffect
  <2> QED BY <1>2, <2>1, <2>2 DEF TypeOK, Promote
<1>3. ASSUME NEW r \in processing, MoveEnd(r) PROVE TypeOK'
  <2>1. r \in Row /\ [r EXCEPT !.stage = "final"] \in Row
    BY DEF TypeOK, Row
  <2>2. NoTasks \in [Validator -> {"none", "open", "done"}]
    BY DEF NoTasks
  <2>3. processing' \subseteq Row
    BY <1>3, <2>1 DEF TypeOK, MoveEnd
  <2>4. /\ owner' \in [Tx -> Validator \cup {None}]
        /\ tasks' \in [Tx -> [Validator -> {"none", "open", "done"}]]
    BY <1>3, <2>2 DEF TypeOK, MoveEnd
  <2> QED BY <1>3, <2>3, <2>4 DEF TypeOK, MoveEnd, history
<1>4. ASSUME NEW r \in processing, Finalize(r) PROVE TypeOK'
  BY <1>4 DEF TypeOK, Finalize, history
<1> QED BY <1>1, <1>2, <1>3, <1>4

\* An eviction and its tail keep the types.
LEMMA TypeEvict ==
  ASSUME TypeOK,
         \/ \E c \in clearing : ClearEnd(c)
         \/ \E l \in Validator, t \in Tx :
              \/ Drain(l, t) \/ Reap(l, t) \/ BoundSweep(l, t)
              \/ \E j \in jobs : CapSweep(j, l, t)
  PROVE  TypeOK'
<1>1. ASSUME NEW c \in clearing, ClearEnd(c) PROVE TypeOK'
  <2>1. NoTasks \in [Validator -> {"none", "open", "done"}]
    BY DEF NoTasks
  <2>2. /\ owner' \in [Tx -> Validator \cup {None}]
        /\ tasks' \in [Tx -> [Validator -> {"none", "open", "done"}]]
    BY <1>1, <2>1 DEF TypeOK, ClearEnd
  <2> QED BY <1>1, <2>2 DEF TypeOK, ClearEnd, history
<1>2. ASSUME NEW l \in Validator, NEW t \in Tx, Drain(l, t) PROVE TypeOK'
  BY <1>2, RemoveEffect DEF TypeOK, Drain, history
<1>3. ASSUME NEW l \in Validator, NEW t \in Tx, Reap(l, t) PROVE TypeOK'
  BY <1>3, RemoveEffect DEF TypeOK, Reap, history
<1>4. ASSUME NEW l \in Validator, NEW t \in Tx, BoundSweep(l, t) PROVE TypeOK'
  BY <1>4, RemoveEffect DEF TypeOK, BoundSweep, history
<1>5. ASSUME NEW l \in Validator, NEW t \in Tx, NEW j \in jobs, CapSweep(j, l, t) PROVE TypeOK'
  BY <1>5, RemoveEffect DEF TypeOK, CapSweep, memory, history
<1> QED BY <1>1, <1>2, <1>3, <1>4, <1>5

\* A restart keeps the types.
LEMMA TypeCrash ==
  ASSUME TypeOK, Crash
  PROVE  TypeOK'
<1>1. PICK K \in SUBSET Pooled, noTask, noVote \in SUBSET checking :
        /\ raw' = [s \in Slot |->
                    IF s \in K
                    THEN [raw[s] EXCEPT !.votes = {v \in @ : <<s[2], v>> \notin noVote}]
                    ELSE NoEntry]
        /\ tasks' = [t \in Tx |->
             IF \E s \in K : s[2] = t
             THEN [v \in Validator |->
                     IF <<t, v>> \in noTask /\ tasks[t][v] = "done" THEN "open" ELSE tasks[t][v]]
             ELSE NoTasks]
  BY DEF Crash
<1>2. ASSUME NEW s \in K
      PROVE  [raw[s] EXCEPT !.votes = {v \in @ : <<s[2], v>> \notin noVote}] \in Entry
  <2>1. raw[s] \in [pooled : {TRUE}, votes : SUBSET Validator, saved : SUBSET Validator]
    BY EntryFacts DEF Pooled, TypeOK
  <2>2. {v \in raw[s].votes : <<s[2], v>> \notin noVote} \in SUBSET Validator
    BY <2>1
  <2> QED BY <2>1, <2>2 DEF Entry
<1>3. raw' \in [Slot -> Entry]
  BY <1>1, <1>2, EntryFacts
<1>4. tasks' \in [Tx -> [Validator -> {"none", "open", "done"}]]
  BY <1>1 DEF TypeOK, NoTasks
<1>5. /\ owner' \in [Tx -> Validator \cup {None}]
      /\ leaders' \in [Tx -> SUBSET Validator]
  BY DEF Crash
<1>6. crashes' \in 0 .. MaxCrashes
  BY BoundAssumption DEF TypeOK, Crash
<1> QED BY <1>3, <1>4, <1>5, <1>6 DEF TypeOK, Crash

LEMMA TypeStep == TypeOK /\ [Next]_vars => TypeOK'
<1> SUFFICES ASSUME TypeOK, [Next]_vars PROVE TypeOK'
  OBVIOUS
<1>1. CASE Next
  BY <1>1, TypeArrive, TypeValidate, TypeMove, TypeEvict, TypeCrash DEF Next
<1>2. CASE UNCHANGED vars
  BY <1>2 DEF TypeOK, vars, memory, history
<1> QED BY <1>1, <1>2

\* Every reachable state of the pipeline has the shape the code keeps.
THEOREM WorkflowTypeCorrect == Spec => []TypeOK
<1> QED BY TypeInit, TypeStep, PTL DEF Spec


-----------------------------------------------------------------------------
(* The steps by what they do to the pool, the mapping and the tasks.       *)

\* Entries, mappings and tasks only go.
Shrinks ==
  /\ \A s \in Slot : raw'[s] = raw[s] \/ raw'[s] = NoEntry
  /\ \A u \in Tx : owner'[u] = owner[u] \/ owner'[u] = None
  /\ \A u \in Tx, v \in Validator : tasks'[u][v] # "none" => tasks[u][v] # "none"

Handed == <<ingested, submits, crashes>>
Moving == <<processed, moves>>

\* A mapping goes with the tasks or after a reaping, and only a pooled entry
\* is reaped, one that is not being saved.
Tidy ==
  /\ \A u \in Tx : owner'[u] # owner[u] =>
       <<u, "map">> \in clearing \/ \A v \in Validator : tasks'[u][v] = "none"
  /\ \A u \in Tx : <<u, "map">> \in clearing' \ clearing =>
       \E l \in Validator :
         /\ raw[<<l, u>>].pooled /\ ~ raw'[<<l, u>>].pooled
         /\ owner[u] = l => owner'[u] = None
         /\ \A j \in jobs : <<j.sub, j.tx, j.stage>> # <<l, u, "save">>

Quiet == Shrinks /\ Tidy /\ UNCHANGED <<jobs, leaders, Handed, Moving>>

\* Reports on t count in the entry it is mapped to.
Counted(t) ==
  /\ \E V \in SUBSET Validator : Effect(t, owner[t], Holders(t), V)
  /\ UNCHANGED <<jobs, leaders, Handed, Moving>>

\* The admission j ends with the recording of a set.
Registered(j) ==
  /\ \E S, V \in SUBSET Validator :
       /\ Cardinality(S) =< Required \/ S = j.set
       /\ Effect(j.tx, j.sub, Holders(j.tx) \cup S, V)
       /\ leaders' = [leaders EXCEPT ![j.tx] = S]
  /\ jobs' = jobs \ {j}
  /\ UNCHANGED <<Handed, Moving>>

\* The recovery sweep records another set for t, which it found in l's place.
Redrawn(l, t) ==
  /\ Armed /\ raw[<<l, t>>].pooled
  /\ \E S, V \in SUBSET Validator :
       /\ Effect(t, IF owner[t] = None THEN l ELSE owner[t], Holders(t) \cup S, V)
       /\ leaders' = [leaders EXCEPT ![t] = S]
  /\ UNCHANGED <<jobs, Handed, Moving>>

\* Enough votes on t, which goes on to the ledger.
Passed(t) ==
  /\ Count(t) >= Need(t)
  /\ Move(t)
  /\ UNCHANGED <<jobs, leaders, clearing, Handed>>

\* Every step is an arrival, a restart, or one of these.
LEMMA StepKinds ==
  ASSUME TypeOK, Next
  PROVE  \/ Quiet
         \/ \E t \in Tx : Submit(t) \/ Counted(t) \/ Passed(t)
         \/ \E l \in Submitter, t \in Tx : \E S \in Broadcast(l) : Receive(l, t, S)
         \/ \E j \in jobs : AddRaw(j) \/ Registered(j)
         \/ \E l \in Validator, t \in Tx : Redrawn(l, t)
         \/ Crash
<1>0. /\ raw \in [Slot -> Entry] /\ owner \in [Tx -> Validator \cup {None}]
      /\ tasks \in [Tx -> [Validator -> {"none", "open", "done"}]]
      /\ \A t \in Tx : Holders(t) \in SUBSET Validator
      /\ \A t \in Tx : Buffered(t) \in SUBSET Validator
      /\ \A L \in Live : L \in SUBSET Validator
      /\ \A v \in Validator : NoTasks[v] = "none"
  <2>1. \A L \in Live : L \in SUBSET Validator
    BY DEF Live, Validator
  <2>2. \A t \in Tx : Holders(t) \in SUBSET Validator /\ Buffered(t) \in SUBSET Validator
    BY DEF Holders, Buffered
  <2> QED BY <2>1, <2>2 DEF TypeOK, NoTasks
<1>1. ASSUME NEW t \in Tx, NEW l \in Validator, Remove(l, t),
             UNCHANGED <<jobs, leaders, Handed, Moving>>,
             \/ clearing' \subseteq clearing \cup {<<t, "all">>}
             \/ /\ clearing' = clearing \cup {<<t, "map">>}
                /\ Old(l, t)
      PROVE  Quiet
  <2>1. Shrinks
    BY <1>0, <1>1, RemoveEffect DEF Shrinks
  <2>2. \A u \in Tx : owner'[u] # owner[u] => \A v \in Validator : tasks'[u][v] = "none"
    BY <1>0, <1>1, RemoveEffect
  <2>3. <<l, t>> \in Slot /\ raw'[<<l, t>>] = NoEntry /\ (owner[t] = l => owner'[t] = None)
    BY <1>1, RemoveEffect DEF Slot
  <2>4. ASSUME NEW u \in Tx, <<u, "map">> \in clearing' \ clearing
        PROVE  u = t /\ Old(l, t)
    BY <1>1, <2>4
  <2>5. Old(l, t) => raw[<<l, t>>].pooled /\ \A j \in jobs : <<j.sub, j.tx, j.stage>> # <<l, t, "save">>
    BY DEF Old
  <2>6. Tidy
    BY <2>2, <2>3, <2>4, <2>5, EntryFacts DEF Tidy
  <2> QED BY <1>1, <2>1, <2>6 DEF Quiet
<1>2. ASSUME NEW t \in Tx, LearnKey(t) PROVE Quiet
  BY <1>2 DEF LearnKey, Quiet, Shrinks, Tidy, Handed, Moving, history
<1>3. ASSUME NEW t \in Tx, WorkerDrain(t) PROVE Counted(t)
  <2>1. {Self} \ {v \in {Self} : t \in claimed} \in SUBSET Validator
    BY DEF Validator
  <2>2. Effect(t, owner[t], Holders(t), {Self} \ {v \in {Self} : t \in claimed})
    BY <1>0, <1>3, <2>1, CastEffect DEF WorkerDrain
  <2> QED BY <1>3, <2>1, <2>2 DEF Counted, WorkerDrain, Handed, Moving, history
<1>4. ASSUME NEW r \in processing, MoveEnd(r) \/ Finalize(r) PROVE Quiet
  BY <1>0, <1>4 DEF MoveEnd, Finalize, Quiet, Shrinks, Tidy, Handed, Moving, history
<1>5. ASSUME NEW c \in clearing, ClearEnd(c) PROVE Quiet
  <2>1. c[1] \in Tx /\ (c = <<c[1], "map">> \/ c[2] = "all")
    BY DEF TypeOK
  <2>2. /\ UNCHANGED raw /\ clearing' \subseteq clearing
        /\ owner' = [owner EXCEPT ![c[1]] = None]
        /\ tasks' = IF c[2] = "all" THEN [tasks EXCEPT ![c[1]] = NoTasks] ELSE tasks
    BY <1>5 DEF ClearEnd
  <2>3. Shrinks
    BY <1>0, <2>1, <2>2 DEF Shrinks
  <2>4. Tidy
    BY <1>0, <2>1, <2>2 DEF Tidy
  <2> QED BY <1>5, <2>3, <2>4 DEF ClearEnd, Quiet, Handed, Moving, history
<1>6. ASSUME NEW j \in jobs, Register(j) PROVE Registered(j)
  <2>1. j \in Job /\ j.sub \in Validator /\ j.tx \in Tx /\ j.set \in SUBSET Validator
    BY DEF TypeOK, Job
  <2> DEFINE late == IF j.sub = Self THEN {} ELSE Buffered(j.tx)
  <2>2. PICK L \in Live : \E S \in (IF j.set = {} THEN LeaderSets(j.sub, L) ELSE {j.set}) :
                            Assign(j.tx, j.sub, S, late)
    BY <1>6 DEF Register
  <2>3. PICK S \in (IF j.set = {} THEN LeaderSets(j.sub, L) ELSE {j.set}) : Assign(j.tx, j.sub, S, late)
    BY <2>2
  <2>4. /\ S \in SUBSET Validator /\ late \in SUBSET Validator
        /\ Cardinality(S) =< Required \/ S = j.set
    BY <1>0, <2>1, LeaderSetFacts
  <2> HIDE DEF late
  <2>5. /\ \E V \in SUBSET Validator : Effect(j.tx, j.sub, Holders(j.tx) \cup S, V)
        /\ leaders' = [leaders EXCEPT ![j.tx] = S]
    BY <2>1, <2>3, <2>4, AssignEffect
  <2>6. jobs' = jobs \ {j} /\ UNCHANGED <<Handed, Moving>>
    BY <1>6 DEF Register, Handed, Moving
  <2> QED BY <2>4, <2>5, <2>6 DEF Registered
<1>7. ASSUME NEW t \in Tx, NEW v \in Peer, Report(t, v) PROVE Counted(t) \/ Quiet
  <2>1. CASE Cast(raw, t, owner[t], Holders(t), {v})
    <3>1. {v} \in SUBSET Validator
      BY DEF Validator
    <3>2. Effect(t, owner[t], Holders(t), {v})
      BY <1>0, <2>1, <3>1, CastEffect
    <3> QED BY <1>7, <3>1, <3>2 DEF Counted, Report, Handed, Moving, history
  <2>2. CASE UNCHANGED <<raw, owner, tasks, clearing, checking>>
    BY <1>7, <2>2 DEF Report, Quiet, Shrinks, Tidy, Handed, Moving, history
  <2> QED BY <1>7, <2>1, <2>2 DEF Report
<1>8. ASSUME NEW t \in Tx, NEW v \in Validator, Check(t, v) PROVE Passed(t) \/ Quiet
  <2>1. CASE Count(t) >= Need(t) /\ Move(t)
    BY <1>8, <2>1 DEF Passed, Check, Handed
  <2>2. CASE UNCHANGED <<raw, owner, tasks, processed, processing, moves>>
    BY <1>8, <2>2 DEF Check, Quiet, Shrinks, Tidy, Handed, Moving
  <2> QED BY <1>8, <2>1, <2>2 DEF Check
<1>9. ASSUME NEW l \in Validator, NEW t \in Tx, Recover(l, t) PROVE Redrawn(l, t)
  <2> DEFINE o == IF owner[t] = None THEN l ELSE owner[t]
             late == {}
  <2>1. o \in Validator /\ late \in SUBSET Validator
    BY <1>0
  <2>2. PICK L \in Live : \E S \in LeaderSets(o, L) : Assign(t, o, S, late)
    BY <1>9 DEF Recover
  <2>3. PICK S \in LeaderSets(o, L) : Assign(t, o, S, late)
    BY <2>2
  <2> HIDE DEF o, late
  <2>4. S \in SUBSET Validator
    BY <1>0, <2>1, LeaderSetFacts
  <2>5. /\ \E V \in SUBSET Validator : Effect(t, o, Holders(t) \cup S, V)
        /\ leaders' = [leaders EXCEPT ![t] = S]
    BY <2>1, <2>3, <2>4, AssignEffect
  <2>6. Armed /\ raw[<<l, t>>].pooled /\ UNCHANGED <<jobs, Handed, Moving>>
    BY <1>9 DEF Recover, Handed, Moving, history
  <2> QED BY <2>4, <2>5, <2>6 DEF Redrawn, o
<1>10. ASSUME NEW l \in Validator, NEW t \in Tx, Promote(l, t) PROVE Passed(t)
  BY <1>10 DEF Promote, Passed, Handed
<1>11. ASSUME NEW l \in Validator, NEW t \in Tx,
              \/ Drain(l, t) \/ Reap(l, t) \/ BoundSweep(l, t)
              \/ \E j \in jobs : CapSweep(j, l, t)
       PROVE  Quiet
  <2>1. Remove(l, t) /\ UNCHANGED <<jobs, leaders, Handed, Moving>>
    BY <1>11 DEF Drain, Reap, BoundSweep, CapSweep, Handed, Moving, memory, history
  <2>2. \/ clearing' \subseteq clearing \cup {<<t, "all">>}
        \/ /\ clearing' = clearing \cup {<<t, "map">>}
           /\ Old(l, t)
    BY <1>11 DEF Drain, Reap, BoundSweep, CapSweep, memory
  <2> QED BY <1>1, <2>1, <2>2
<1> QED
  BY <1>2, <1>3, <1>4, <1>5, <1>6, <1>7, <1>8, <1>9, <1>10, <1>11 DEF Next


-----------------------------------------------------------------------------
(* At most one move.                                                       *)

\* Only finitely many moves are counted, and the first one is the only one if
\* the transaction was not processed before.
LEMMA MovesFrame ==
  ASSUME TypeOK, MovesInv, NEW t \in Tx, t \notin processed,
         processed' = processed \cup {t},
         moves' = [moves EXCEPT ![t] = Lesser(2, moves[t] + 1)]
  PROVE  MovesInv'
BY DEF TypeOK, MovesInv, Lesser

LEMMA OnePlaceFrame ==
  ASSUME TypeOK, OnePlaceInv,
         \A t \in Tx : owner'[t] \in {owner[t], None} \cup Source,
         \A l \in Validator, t \in Tx : raw'[<<l, t>>].pooled => raw[<<l, t>>].pooled \/ l \in Source,
         \A j \in jobs' : j.sub \in Source,
         \A l \in Validator, t \in processed : raw'[<<l, t>>].votes = {},
         UNCHANGED Moving
  PROVE  OnePlaceInv'
BY DEF OnePlaceInv, MovesInv, Moving

LEMMA SourceFacts == Source \subseteq Validator
BY PeerAssumption DEF Source, Validator

\* With one source, what is processed has no votes left that a second move
\* could count: there is no other entry, and votes on it no longer count.
LEMMA OnePlaceStep ==
  ASSUME TypeOK, OneSource, OnePlaceInv, Next
  PROVE  OnePlaceInv'
<1>0. /\ raw \in [Slot -> Entry] /\ owner \in [Tx -> Validator \cup {None}]
      /\ processed \subseteq Tx
      /\ \A l \in Validator, t \in Tx : <<l, t>> \in Slot
      /\ \A j \in jobs : j.sub \in Validator /\ j.tx \in Tx
  BY DEF TypeOK, Slot, Job
<1>a. ASSUME NEW t \in Tx, NEW o \in Validator \cup {None}, o \in {owner[t], None} \cup Source,
             NEW H \in SUBSET Validator, NEW V \in SUBSET Validator, Effect(t, o, H, V),
             jobs' \subseteq jobs, UNCHANGED Moving
      PROVE  OnePlaceInv'
  <2>1. \A u \in Tx : owner'[u] \in {owner[u], None} \cup Source
    BY <1>0, <1>a DEF Effect
  <2>2. \A l \in Validator, u \in Tx : raw'[<<l, u>>].pooled => raw[<<l, u>>].pooled
    BY <1>0, <1>a DEF Effect
  <2>3. ASSUME NEW l \in Validator, NEW u \in processed PROVE raw'[<<l, u>>].votes = {}
    <3>1. <<l, u>> \in Slot /\ raw[<<l, u>>].votes = {}
      BY <1>0, <2>3 DEF OnePlaceInv
    <3>2. raw'[<<l, u>>].votes \subseteq raw[<<l, u>>].votes
                                        \cup (IF <<l, u>> = <<o, t>> THEN Valid(t, H, V) ELSE {})
      BY <1>a, <3>1 DEF Effect
    <3>3. u = t => Valid(t, H, V) = {}
      BY <2>3 DEF Valid
    <3> QED BY <3>1, <3>2, <3>3
  <2>4. \A j \in jobs' : j.sub \in Source
    BY <1>a DEF OnePlaceInv
  <2> QED BY <1>a, <2>1, <2>2, <2>3, <2>4, OnePlaceFrame
<1>1. CASE Quiet
  BY <1>0, <1>1, EntryFacts, OnePlaceFrame DEF Quiet, Shrinks, OnePlaceInv
<1>2. ASSUME NEW t \in Tx, Submit(t) PROVE OnePlaceInv'
  <2>1. MaxSubmits > 0
    BY <1>2, BoundAssumption DEF Submit, TypeOK
  <2>2. Self \in Source
    BY <2>1 DEF Source
  <2>3. \A j \in jobs' : j.sub \in Source
    BY <1>2, <2>2 DEF Submit, OnePlaceInv
  <2> QED BY <1>2, <2>3, OnePlaceFrame DEF Submit, Moving, OnePlaceInv
<1>3. ASSUME NEW l \in Submitter, NEW t \in Tx, NEW S \in Broadcast(l), Receive(l, t, S) PROVE OnePlaceInv'
  <2>1. \A j \in jobs' : j.sub \in Source
    BY <1>3 DEF Receive, OnePlaceInv, Source
  <2> QED BY <1>3, <2>1, OnePlaceFrame DEF Receive, Moving, OnePlaceInv
<1>4. ASSUME NEW j \in jobs, AddRaw(j) PROVE OnePlaceInv'
  <2>1. /\ raw' = [raw EXCEPT ![<<j.sub, j.tx>>] = NewEntry]
        /\ \E st \in {"again", "save"} : jobs' = (jobs \ {j}) \cup {[j EXCEPT !.stage = st]}
        /\ UNCHANGED <<owner, Moving>>
    BY <1>4 DEF AddRaw, Moving, history
  <2>2. \A st \in {"again", "save"} : [j EXCEPT !.stage = st].sub = j.sub
    BY DEF TypeOK, Job
  <2>3. \A k \in jobs' : k.sub \in Source
    BY <2>1, <2>2 DEF OnePlaceInv
  <2>4. /\ \A l \in Validator, t \in Tx : raw'[<<l, t>>].pooled => raw[<<l, t>>].pooled \/ l \in Source
        /\ \A l \in Validator, t \in processed : raw'[<<l, t>>].votes = {}
    BY <1>0, <2>1, EntryFacts DEF OnePlaceInv
  <2> QED BY <2>1, <2>3, <2>4, OnePlaceFrame
<1>5. ASSUME NEW j \in jobs, Registered(j) PROVE OnePlaceInv'
  <2>1. j.sub \in Source /\ Holders(j.tx) \in SUBSET Validator
    BY DEF OnePlaceInv, Holders
  <2>2. PICK S, V \in SUBSET Validator : Effect(j.tx, j.sub, Holders(j.tx) \cup S, V)
    BY <1>5 DEF Registered
  <2> QED BY <1>0, <1>5, <1>a, <2>1, <2>2 DEF Registered
<1>6. ASSUME NEW t \in Tx, Counted(t) PROVE OnePlaceInv'
  <2>1. Holders(t) \in SUBSET Validator
    BY DEF Holders
  <2> QED BY <1>0, <1>6, <1>a, <2>1 DEF Counted
<1>7. ASSUME NEW l \in Validator, NEW t \in Tx, Redrawn(l, t) PROVE OnePlaceInv'
  <2> DEFINE o == IF owner[t] = None THEN l ELSE owner[t]
  <2>1. l \in Source /\ Holders(t) \in SUBSET Validator
    BY <1>7 DEF OnePlaceInv, Holders, Redrawn
  <2>2. PICK S, V \in SUBSET Validator : Effect(t, o, Holders(t) \cup S, V)
    BY <1>7 DEF Redrawn
  <2>3. o \in Validator \cup {None} /\ o \in {owner[t], None} \cup Source
    BY <1>0, <2>1
  <2> HIDE DEF o
  <2> QED BY <1>7, <1>a, <2>1, <2>2, <2>3 DEF Redrawn
<1>8. ASSUME NEW t \in Tx, Passed(t) PROVE OnePlaceInv'
  <2> DEFINE o == owner[t]
  <2>1. /\ o \in Validator /\ raw[<<o, t>>].votes # {}
        /\ processed' = processed \cup {t}
        /\ moves' = [moves EXCEPT ![t] = Lesser(2, moves[t] + 1)]
        /\ Remove(o, t)
    BY <1>8, MoveEffect DEF Passed
  <2>2. t \notin processed
    BY <1>0, <2>1 DEF OnePlaceInv
  <2>3. MovesInv'
    BY <2>1, <2>2, MovesFrame DEF OnePlaceInv
  <2>4. o \in Source
    BY <1>0, <2>1, NameAssumption DEF OnePlaceInv
  <2> HIDE DEF o
  <2>5. /\ \A s \in Slot : raw'[s] = IF s = <<o, t>> THEN NoEntry ELSE raw[s]
        /\ \A u \in Tx : owner'[u] = owner[u] \/ owner'[u] = None
    BY <2>1, RemoveEffect
  <2>6. ASSUME NEW l \in Validator, NEW u \in processed' PROVE raw'[<<l, u>>].votes = {}
    <3>1. u \in Tx /\ <<l, u>> \in Slot
      BY <1>0, <2>1
    <3>2. CASE u \in processed
      BY <2>5, <3>1, <3>2, EntryFacts DEF OnePlaceInv
    <3>3. CASE u = t
      <4>1. CASE l = o
        BY <2>5, <3>1, <3>3, <4>1, EntryFacts
      <4>2. CASE l # o
        <5>1. ~ raw[<<l, u>>].pooled
          BY <2>4, <3>1, <4>2 DEF OnePlaceInv, OneSource
        <5>2. raw[<<l, u>>].votes = {}
          BY <1>0, <3>1, <5>1, EntryFacts
        <5> QED BY <2>5, <3>1, <3>3, <4>2, <5>2
      <4> QED BY <4>1, <4>2
    <3> QED BY <2>1, <2>6, <3>2, <3>3
  <2>7. \A l \in Validator, u \in Tx : raw'[<<l, u>>].pooled => raw[<<l, u>>].pooled
    BY <1>0, <2>5, EntryFacts
  <2> QED BY <1>8, <2>3, <2>5, <2>6, <2>7 DEF OnePlaceInv, Passed
<1>9. CASE Crash
  <2>1. PICK K \in SUBSET Pooled, noTask, noVote \in SUBSET checking :
          /\ raw' = [s \in Slot |->
                      IF s \in K
                      THEN [raw[s] EXCEPT !.votes = {v \in @ : <<s[2], v>> \notin noVote}]
                      ELSE NoEntry]
          /\ \A t \in Tx :
               LET at == {s \in K : s[2] = t}
               IN  owner'[t] \in (IF at = {} THEN {None} ELSE {s[1] : s \in at})
    BY <1>9 DEF Crash
  <2>2. \A l \in Validator, t \in Tx : <<l, t>> \in K => l \in Source
    BY <2>1 DEF Pooled, OnePlaceInv
  <2>3. ASSUME NEW t \in Tx PROVE owner'[t] \in Source \cup {None}
    <3>1. \A s \in {s \in K : s[2] = t} : s[1] \in Source
      BY <2>1, <2>2 DEF Pooled, Slot
    <3>2. \/ owner'[t] = None
          \/ owner'[t] \in {s[1] : s \in {s \in K : s[2] = t}}
      BY <2>1
    <3> QED BY <3>1, <3>2
  <2>4. \A l \in Validator, t \in Tx : raw'[<<l, t>>].pooled => l \in Source
    BY <1>0, <2>1, <2>2, EntryFacts
  <2>5. jobs' = {} /\ processed' = {} /\ moves' = [t \in Tx |-> 0]
    BY <1>9 DEF Crash
  <2> QED BY <2>3, <2>4, <2>5 DEF OnePlaceInv, MovesInv
<1> QED BY <1>1, <1>2, <1>3, <1>4, <1>5, <1>6, <1>7, <1>8, <1>9, StepKinds

-----------------------------------------------------------------------------
(* One admission for each transaction and submitter.                       *)

LEMMA ArrivedFrame ==
  ASSUME ArrivedInv, UNCHANGED Handed, jobs' \subseteq jobs,
         \A l \in Validator, t \in Tx :
           raw'[<<l, t>>].pooled \/ owner'[t] = l => Arrived(l, t)
  PROVE  ArrivedInv'
BY DEF ArrivedInv, Arrived, Handed

\* Whatever is pooled, mapped or under way was handed over, once.
LEMMA ArrivedStep ==
  ASSUME TypeOK, HandedOnce, ArrivedInv, Next
  PROVE  ArrivedInv'
<1>0. /\ raw \in [Slot -> Entry] /\ owner \in [Tx -> Validator \cup {None}]
      /\ \A l \in Validator, t \in Tx : <<l, t>> \in Slot
      /\ jobs \subseteq Job
      /\ \A j \in jobs : j.sub \in Validator /\ j.tx \in Tx
      /\ None \notin Validator
      /\ submits \in Nat /\ MaxSubmits \in Nat
  BY NameAssumption, BoundAssumption DEF TypeOK, Slot, Job
<1>1. CASE Quiet
  BY <1>0, <1>1, EntryFacts, ArrivedFrame DEF Quiet, Shrinks, ArrivedInv
<1>a. ASSUME NEW t \in Tx, NEW o \in Validator \cup {None}, o = None \/ Arrived(o, t),
             NEW H \in SUBSET Validator, NEW V \in SUBSET Validator, Effect(t, o, H, V),
             jobs' \subseteq jobs, UNCHANGED Handed
      PROVE  ArrivedInv'
  <2>1. ASSUME NEW l \in Validator, NEW u \in Tx, raw'[<<l, u>>].pooled \/ owner'[u] = l
        PROVE  Arrived(l, u)
    <3>1. raw'[<<l, u>>].pooled => raw[<<l, u>>].pooled
      BY <1>0, <1>a DEF Effect
    <3>2. owner'[u] = l => owner[u] = l \/ (u = t /\ l = o)
      BY <1>0, <1>a DEF Effect
    <3> QED BY <1>0, <1>a, <2>1, <3>1, <3>2 DEF ArrivedInv
  <2> QED BY <1>a, <2>1, ArrivedFrame
<1>2. ASSUME NEW t \in Tx, Submit(t) PROVE ArrivedInv'
  <2>1. submits = 0 /\ submits' = 1
    BY <1>0, <1>2 DEF Submit, HandedOnce
  <2>2. \A j \in jobs : j.sub # Self
    <3>1. ~ (submits > 0)
      BY <2>1
    <3>2. \A u \in Tx : ~ Arrived(Self, u)
      BY <3>1 DEF Arrived
    <3>3. \A j \in jobs : Arrived(j.sub, j.tx)
      BY DEF ArrivedInv
    <3> QED BY <1>0, <3>2, <3>3
  <2> DEFINE n == [sub |-> Self, tx |-> t, set |-> {}, stage |-> "lock"]
  <2>3. jobs' = jobs \cup {n} /\ UNCHANGED <<raw, owner, ingested, crashes>>
    BY <1>2 DEF Submit
  <2>n. n.sub = Self /\ n.tx = t
    OBVIOUS
  <2> HIDE DEF n
  <2>4. \A l \in Validator, u \in Tx : Arrived(l, u) => Arrived(l, u)'
    BY <2>1, <2>3 DEF Arrived
  <2>5. Arrived(Self, t)'
    BY <2>1 DEF Arrived
  <2>6. \A j \in jobs' : Arrived(j.sub, j.tx)'
    BY <1>0, <2>3, <2>n, <2>4, <2>5 DEF ArrivedInv
  <2>7. \A j, k \in jobs' : j.sub = k.sub /\ j.tx = k.tx => j = k
    BY <2>2, <2>3, <2>n DEF ArrivedInv
  <2> QED BY <2>3, <2>4, <2>6, <2>7 DEF ArrivedInv
<1>3. ASSUME NEW l \in Submitter, NEW t \in Tx, NEW S \in Broadcast(l), Receive(l, t, S)
      PROVE  ArrivedInv'
  <2>1. l \in Validator /\ l # Self
    BY NameAssumption, PeerAssumption DEF Validator
  <2>2. /\ <<l, t>> \notin ingested /\ ingested' = ingested \cup {<<l, t>>}
        /\ jobs' \subseteq jobs \cup {[sub |-> l, tx |-> t, set |-> S, stage |-> "lock"]}
        /\ UNCHANGED <<raw, owner, submits, crashes>>
    BY <1>3 DEF Receive
  <2>3. \A j \in jobs : ~ (j.sub = l /\ j.tx = t)
    BY <2>1, <2>2 DEF ArrivedInv, Arrived
  <2>4. \A m \in Validator, u \in Tx : Arrived(m, u) => Arrived(m, u)'
    BY <2>2 DEF Arrived
  <2>5. Arrived(l, t)'
    BY <2>1, <2>2 DEF Arrived
  <2>6. \A j \in jobs' : Arrived(j.sub, j.tx)'
    BY <1>0, <2>2, <2>4, <2>5 DEF ArrivedInv
  <2>7. \A j, k \in jobs' : j.sub = k.sub /\ j.tx = k.tx => j = k
    BY <2>2, <2>3 DEF ArrivedInv
  <2> QED BY <2>2, <2>4, <2>6, <2>7 DEF ArrivedInv
<1>4. ASSUME NEW j \in jobs, AddRaw(j) PROVE ArrivedInv'
  <2>1. /\ raw' = [raw EXCEPT ![<<j.sub, j.tx>>] = NewEntry]
        /\ \E st \in {"again", "save"} : jobs' = (jobs \ {j}) \cup {[j EXCEPT !.stage = st]}
        /\ UNCHANGED <<owner, Handed>>
    BY <1>4 DEF AddRaw, Handed, history
  <2>2. \A st \in {"again", "save"} :
          [j EXCEPT !.stage = st].sub = j.sub /\ [j EXCEPT !.stage = st].tx = j.tx
    BY <1>0 DEF Job
  <2>3. \A l \in Validator, u \in Tx : Arrived(l, u)' = Arrived(l, u)
    BY <2>1 DEF Handed, Arrived
  <2>4. \A k \in jobs' : Arrived(k.sub, k.tx)
    BY <2>1, <2>2 DEF ArrivedInv
  <2>5. \A i, k \in jobs' : i.sub = k.sub /\ i.tx = k.tx => i = k
    BY <2>1, <2>2 DEF ArrivedInv
  <2>6. \A l \in Validator, u \in Tx : raw'[<<l, u>>].pooled \/ owner'[u] = l => Arrived(l, u)
    BY <1>0, <2>1 DEF ArrivedInv
  <2>7. \A k \in jobs' : k.sub \in Validator /\ k.tx \in Tx
    BY <1>0, <2>1, <2>2
  <2> QED BY <2>1, <2>3, <2>4, <2>5, <2>6, <2>7 DEF ArrivedInv, Handed
<1>5. ASSUME NEW j \in jobs, Registered(j) PROVE ArrivedInv'
  <2>1. j.sub \in Validator /\ j.tx \in Tx /\ Arrived(j.sub, j.tx) /\ Holders(j.tx) \in SUBSET Validator
    BY <1>0 DEF ArrivedInv, Holders
  <2>2. PICK S, V \in SUBSET Validator : Effect(j.tx, j.sub, Holders(j.tx) \cup S, V)
    BY <1>5 DEF Registered
  <2> QED BY <1>5, <1>a, <2>1, <2>2 DEF Registered
<1>6. ASSUME NEW t \in Tx, Counted(t) PROVE ArrivedInv'
  <2>1. Holders(t) \in SUBSET Validator
    BY DEF Holders
  <2>2. owner[t] = None \/ Arrived(owner[t], t)
    BY <1>0 DEF ArrivedInv
  <2> QED BY <1>0, <1>6, <1>a, <2>1, <2>2 DEF Counted
<1>7. ASSUME NEW l \in Validator, NEW t \in Tx, Redrawn(l, t) PROVE ArrivedInv'
  <2> DEFINE o == IF owner[t] = None THEN l ELSE owner[t]
  <2>1. Holders(t) \in SUBSET Validator
    BY DEF Holders
  <2>2. o \in Validator \cup {None} /\ Arrived(o, t)
    BY <1>0, <1>7 DEF ArrivedInv, Redrawn
  <2>3. PICK S, V \in SUBSET Validator : Effect(t, o, Holders(t) \cup S, V)
    BY <1>7 DEF Redrawn
  <2> HIDE DEF o
  <2> QED BY <1>7, <1>a, <2>1, <2>2, <2>3 DEF Redrawn
<1>8. ASSUME NEW t \in Tx, Passed(t) PROVE ArrivedInv'
  <2>1. owner[t] \in Validator \cup {None} /\ Remove(owner[t], t)
    BY <1>8, MoveEffect DEF Passed
  <2>2. \A l \in Validator, u \in Tx : raw'[<<l, u>>].pooled \/ owner'[u] = l => Arrived(l, u)
    BY <1>0, <2>1, RemoveEffect, EntryFacts DEF ArrivedInv
  <2> QED BY <1>8, <2>2, ArrivedFrame DEF Passed
<1>9. CASE Crash
  BY <1>9 DEF Crash, ArrivedInv, HandedOnce
<1> QED BY <1>1, <1>2, <1>3, <1>4, <1>5, <1>6, <1>7, <1>8, <1>9, StepKinds


\* Without a restart and while the leads stay, the place in which a transaction
\* was processed gets no further votes: it is not admitted there again, and no
\* sweep maps it there.
LEMMA VotesStep ==
  ASSUME TypeOK, HandedOnce, Steady, ArrivedInv, VotesInv, Next
  PROVE  VotesInv'
<1>0. /\ raw \in [Slot -> Entry] /\ owner \in [Tx -> Validator \cup {None}]
      /\ \A l \in Validator, t \in Tx : <<l, t>> \in Slot
      /\ jobs \subseteq Job
      /\ \A j \in jobs : j.sub \in Validator /\ j.tx \in Tx
      /\ None \notin Validator
      /\ processed \subseteq Tx
      /\ submits \in Nat /\ MaxSubmits \in Nat
  BY NameAssumption, BoundAssumption DEF TypeOK, Slot, Job
<1>b. ~ Armed
  BY DEF Armed, Steady, ArrivedInv
\* A place whose submitter has not handed the transaction over is untouched.
<1>c. ASSUME NEW l \in Validator, NEW t \in Tx, ~ Arrived(l, t)
      PROVE  raw[<<l, t>>].votes = {} /\ owner[t] # l
  BY <1>0, <1>c, EntryFacts DEF ArrivedInv
<1>1. CASE Quiet
  <2>1. \A s \in Slot : raw[s].votes = {} => raw'[s].votes = {}
    BY <1>1, EntryFacts DEF Quiet, Shrinks
  <2>2. /\ \A u \in Tx : owner'[u] = owner[u] \/ owner'[u] = None
        /\ UNCHANGED <<jobs, processed, moves>>
    BY <1>1 DEF Quiet, Shrinks, Moving
  <2> QED BY <1>0, <2>1, <2>2 DEF VotesInv, MovesInv
<1>2. ASSUME NEW t \in Tx, Submit(t) PROVE VotesInv'
  <2>1. ~ (submits > 0)
    BY <1>0, <1>2 DEF Submit, HandedOnce
  <2>2. ~ Arrived(Self, t) /\ Self \in Validator
    BY <2>1 DEF Arrived, Validator
  <2> DEFINE n == [sub |-> Self, tx |-> t, set |-> {}, stage |-> "lock"]
  <2>3. jobs' = jobs \cup {n} /\ UNCHANGED <<raw, owner, processed, moves>>
    BY <1>2 DEF Submit
  <2>4. n.sub = Self /\ n.tx = t
    OBVIOUS
  <2> HIDE DEF n
  <2>5. \A j \in jobs' : raw[<<j.sub, j.tx>>].votes = {} /\ owner[j.tx] # j.sub
    BY <1>c, <2>2, <2>3, <2>4 DEF VotesInv
  <2> QED BY <2>3, <2>5 DEF VotesInv, MovesInv
<1>3. ASSUME NEW l \in Submitter, NEW t \in Tx, NEW S \in Broadcast(l), Receive(l, t, S)
      PROVE  VotesInv'
  <2>1. l \in Validator /\ l # Self
    BY NameAssumption, PeerAssumption DEF Validator
  <2>2. /\ <<l, t>> \notin ingested
        /\ jobs' \subseteq jobs \cup {[sub |-> l, tx |-> t, set |-> S, stage |-> "lock"]}
        /\ UNCHANGED <<raw, owner, processed, moves>>
    BY <1>3 DEF Receive
  <2>3. ~ Arrived(l, t)
    BY <2>1, <2>2 DEF Arrived
  <2>4. \A j \in jobs' : raw[<<j.sub, j.tx>>].votes = {} /\ owner[j.tx] # j.sub
    BY <1>c, <2>1, <2>2, <2>3 DEF VotesInv
  <2> QED BY <2>2, <2>4 DEF VotesInv, MovesInv
<1>4. ASSUME NEW j \in jobs, AddRaw(j) PROVE VotesInv'
  <2>1. /\ raw' = [raw EXCEPT ![<<j.sub, j.tx>>] = NewEntry]
        /\ \E st \in {"again", "save"} : jobs' = (jobs \ {j}) \cup {[j EXCEPT !.stage = st]}
        /\ UNCHANGED <<owner, processed, moves>>
    BY <1>4 DEF AddRaw, history
  <2>2. \A st \in {"again", "save"} :
          [j EXCEPT !.stage = st].sub = j.sub /\ [j EXCEPT !.stage = st].tx = j.tx
    BY <1>0 DEF Job
  <2>3. \A s \in Slot : raw[s].votes = {} => raw'[s].votes = {}
    BY <1>0, <2>1, EntryFacts
  <2>4. \A k \in jobs' : \E i \in jobs : k.sub = i.sub /\ k.tx = i.tx
    BY <2>1, <2>2
  <2> QED BY <1>0, <2>1, <2>3, <2>4 DEF VotesInv, MovesInv
<1>a. ASSUME NEW t \in Tx, NEW o \in Validator \cup {None},
             NEW H \in SUBSET Validator, NEW V \in SUBSET Validator, Effect(t, o, H, V),
             o = owner[t] \/ (raw[<<o, t>>].votes = {} /\ o \in Validator),
             jobs' \subseteq jobs, \A k \in jobs' : k.tx = t => k.sub # o,
             UNCHANGED Moving
      PROVE  VotesInv'
  <2>1. ASSUME NEW l \in Validator, NEW u \in Tx, <<l, u>> # <<o, t>>, raw[<<l, u>>].votes = {}
        PROVE  raw'[<<l, u>>].votes = {}
    BY <1>0, <1>a, <2>1 DEF Effect
  <2>2. \A u \in Tx : owner'[u] = owner[u] \/ owner'[u] = None \/ (u = t /\ owner'[u] = o)
    BY <1>0, <1>a DEF Effect
  <2>3. \A k \in jobs' : raw'[<<k.sub, k.tx>>].votes = {} /\ owner'[k.tx] # k.sub
    <3>1. \A k \in jobs' : <<k.sub, k.tx>> # <<o, t>>
      BY <1>a
    <3> QED BY <1>0, <1>a, <2>1, <2>2, <3>1 DEF VotesInv
  <2>4. ASSUME NEW l \in Validator, NEW u \in processed, owner'[u] = l
        PROVE  raw'[<<l, u>>].votes = {}
    <3>1. u \in Tx /\ <<l, u>> \in Slot
      BY <1>0
    <3>2. CASE <<l, u>> = <<o, t>>
      <4>1. Valid(t, H, V) = {}
        BY <2>4, <3>2 DEF Valid
      <4>2. raw[<<l, u>>].votes = {}
        BY <1>a, <2>4, <3>2 DEF VotesInv
      <4> QED BY <1>a, <3>1, <4>1, <4>2 DEF Effect
    <3>3. CASE <<l, u>> # <<o, t>>
      <4>1. owner[u] = l
        BY <1>0, <2>2, <2>4, <3>1, <3>3
      <4> QED BY <2>1, <2>4, <3>1, <3>3, <4>1 DEF VotesInv
    <3> QED BY <3>2, <3>3
  <2> QED BY <1>a, <2>3, <2>4 DEF VotesInv, MovesInv, Moving
<1>5. ASSUME NEW j \in jobs, Registered(j) PROVE VotesInv'
  <2>1. /\ j.sub \in Validator /\ j.tx \in Tx /\ Holders(j.tx) \in SUBSET Validator
        /\ raw[<<j.sub, j.tx>>].votes = {}
    BY <1>0 DEF VotesInv, Holders
  <2>2. PICK S, V \in SUBSET Validator : Effect(j.tx, j.sub, Holders(j.tx) \cup S, V)
    BY <1>5 DEF Registered
  <2>3. \A k \in jobs' : k.tx = j.tx => k.sub # j.sub
    BY <1>5 DEF Registered, ArrivedInv
  <2> QED BY <1>5, <1>a, <2>1, <2>2, <2>3 DEF Registered
<1>6. ASSUME NEW t \in Tx, Counted(t) PROVE VotesInv'
  <2>1. Holders(t) \in SUBSET Validator
    BY DEF Holders
  <2>2. \A k \in jobs' : k.tx = t => k.sub # owner[t]
    BY <1>6 DEF Counted, VotesInv
  <2> QED BY <1>0, <1>6, <1>a, <2>1, <2>2 DEF Counted
<1>7. ASSUME NEW l \in Validator, NEW t \in Tx, Redrawn(l, t) PROVE VotesInv'
  BY <1>7, <1>b DEF Redrawn
<1>8. ASSUME NEW t \in Tx, Passed(t) PROVE VotesInv'
  <2> DEFINE o == owner[t]
  <2>1. /\ o \in Validator /\ raw[<<o, t>>].votes # {}
        /\ processed' = processed \cup {t}
        /\ moves' = [moves EXCEPT ![t] = Lesser(2, moves[t] + 1)]
        /\ Remove(o, t) /\ UNCHANGED jobs
    BY <1>8, MoveEffect DEF Passed
  <2>2. t \notin processed
    BY <2>1 DEF VotesInv
  <2>3. MovesInv'
    BY <2>1, <2>2, MovesFrame DEF VotesInv
  <2>4. o = owner[t]
    OBVIOUS
  <2> HIDE DEF o
  <2>5. /\ \A s \in Slot : raw'[s] = IF s = <<o, t>> THEN NoEntry ELSE raw[s]
        /\ \A u \in Tx : owner'[u] = IF u = t THEN None ELSE owner[u]
    BY <2>1, <2>4, RemoveEffect
  <2>6. \A s \in Slot : raw[s].votes = {} => raw'[s].votes = {}
    BY <2>5, EntryFacts
  <2>7. \A k \in jobs' : raw'[<<k.sub, k.tx>>].votes = {} /\ owner'[k.tx] # k.sub
    BY <1>0, <2>1, <2>5, <2>6 DEF VotesInv
  <2>8. ASSUME NEW l \in Validator, NEW u \in processed', owner'[u] = l
        PROVE  raw'[<<l, u>>].votes = {}
    <3>1. u \in Tx /\ <<l, u>> \in Slot
      BY <1>0, <2>1
    <3>2. u # t /\ owner[u] = l
      BY <1>0, <2>5, <2>8, <3>1
    <3>3. u \in processed
      BY <2>1, <3>2
    <3>4. raw[<<l, u>>].votes = {}
      BY <3>2, <3>3 DEF VotesInv
    <3> QED BY <2>6, <3>1, <3>4
  <2> QED BY <2>3, <2>7, <2>8 DEF VotesInv
<1>9. CASE Crash
  BY <1>9 DEF Crash, ArrivedInv, HandedOnce
<1> QED BY <1>1, <1>2, <1>3, <1>4, <1>5, <1>6, <1>7, <1>8, <1>9, StepKinds

-----------------------------------------------------------------------------
(* Tasks only for mapped transactions.                                     *)

LEMMA ReapFrame ==
  ASSUME ReapInv,
         \A u \in Tx : owner'[u] \in Source \cup {None},
         \A l \in Validator, u \in Tx : raw'[<<l, u>>].pooled => raw[<<l, u>>].pooled,
         \A j \in jobs : j.sub \in Validator /\ j.tx \in Tx,
         jobs' \subseteq jobs, UNCHANGED Handed,
         \A u \in Tx : <<u, "map">> \in clearing' => <<u, "map">> \in clearing /\ Holders(u)' = {},
         TasksMapped'
  PROVE  ReapInv'
<1>1. \A l \in Validator, u \in Tx : Arrived(l, u)' = Arrived(l, u)
  BY DEF Arrived, Handed
<1>2. Source \subseteq Validator
  BY SourceFacts
<1> QED BY <1>1, <1>2 DEF ReapInv

\* With one source that hands over once, the late deletion of a reaped entry's
\* mapping meets no tasks: the transaction does not come back.
LEMMA ReapStep ==
  ASSUME TypeOK, OneSource, HandedOnce, ArrivedInv, ReapInv, Next
  PROVE  ReapInv'
<1>0. /\ raw \in [Slot -> Entry] /\ owner \in [Tx -> Validator \cup {None}]
      /\ tasks \in [Tx -> [Validator -> {"none", "open", "done"}]]
      /\ \A l \in Validator, t \in Tx : <<l, t>> \in Slot
      /\ jobs \subseteq Job
      /\ \A j \in jobs : j.sub \in Validator /\ j.tx \in Tx /\ j.stage \in {"lock", "save", "again"}
      /\ None \notin Validator /\ Source \subseteq Validator
      /\ submits \in Nat /\ MaxSubmits \in Nat
  BY NameAssumption, BoundAssumption, SourceFacts DEF TypeOK, Slot, Job
\* What has not arrived from a source can be handed over: nothing of it is left.
<1>c. ASSUME NEW l \in Source, NEW t \in Tx, ~ Arrived(l, t)
      PROVE  ~ raw[<<l, t>>].pooled /\ <<t, "map">> \notin clearing
  BY <1>0, <1>c DEF ArrivedInv, ReapInv
<1>1. CASE Quiet
  <2>1. /\ \A l \in Validator, u \in Tx : raw'[<<l, u>>].pooled => raw[<<l, u>>].pooled
        /\ \A u \in Tx : owner'[u] \in {owner[u], None}
        /\ \A u \in Tx : Holders(u)' \subseteq Holders(u)
    BY <1>0, <1>1, EntryFacts DEF Quiet, Shrinks, Holders
  <2>2. /\ UNCHANGED <<jobs, Handed>>
        /\ \A l \in Validator, u \in Tx : Arrived(l, u)' = Arrived(l, u)
    BY <1>1 DEF Quiet, Handed, Arrived
  <2>3. TasksMapped'
    <3>1. ASSUME NEW u \in Tx, Holders(u)' # {} PROVE owner'[u] # None
      <4>1. Holders(u) # {} /\ owner[u] # None
        BY <2>1, <3>1 DEF ReapInv, TasksMapped
      <4>2. <<u, "map">> \notin clearing
        BY <4>1 DEF ReapInv
      <4>3. owner'[u] = owner[u]
        BY <1>1, <3>1, <4>2 DEF Quiet, Tidy, Holders
      <4> QED BY <4>1, <4>3
    <3> QED BY <3>1 DEF TasksMapped
  <2>4. ASSUME NEW u \in Tx, <<u, "map">> \in clearing'
        PROVE  /\ \A l \in Source : Arrived(l, u) /\ ~ raw'[<<l, u>>].pooled
               /\ \A j \in jobs : j.tx # u
               /\ Holders(u)' = {}
    <3>1. CASE <<u, "map">> \in clearing
      BY <1>0, <2>1, <3>1 DEF ReapInv
    <3>2. CASE <<u, "map">> \notin clearing
      <4>1. PICK l \in Validator :
              /\ raw[<<l, u>>].pooled /\ ~ raw'[<<l, u>>].pooled
              /\ owner[u] = l => owner'[u] = None
              /\ \A j \in jobs : <<j.sub, j.tx, j.stage>> # <<l, u, "save">>
        BY <1>1, <2>4, <3>2 DEF Quiet, Tidy
      <4>2. l \in Source /\ \A m \in Source : m = l
        BY <4>1 DEF ReapInv, OneSource
      <4>3. Arrived(l, u)
        BY <4>1 DEF ArrivedInv
      <4>4. \A j \in jobs : j.tx # u
        BY <1>0, <4>1, <4>2 DEF ReapInv
      <4>5. owner[u] \in {l, None}
        BY <4>2 DEF ReapInv
      <4>6. owner'[u] = None
        BY <2>1, <4>1, <4>5
      <4> QED BY <2>3, <4>1, <4>2, <4>3, <4>4, <4>6 DEF TasksMapped
    <3> QED BY <3>1, <3>2
  <2>5. \A u \in Tx : owner'[u] \in Source \cup {None}
    BY <2>1 DEF ReapInv
  <2> QED BY <1>0, <2>1, <2>2, <2>3, <2>4, <2>5 DEF ReapInv
<1>2. ASSUME NEW t \in Tx, Submit(t) PROVE ReapInv'
  <2>1. ~ (submits > 0)
    BY <1>0, <1>2 DEF Submit, HandedOnce
  <2>2. Self \in Source
    BY <1>0, <1>2 DEF Submit, Source
  <2>3. ~ Arrived(Self, t)
    BY <2>1 DEF Arrived
  <2>4. ~ raw[<<Self, t>>].pooled /\ <<t, "map">> \notin clearing
    BY <1>c, <2>2, <2>3
  <2> DEFINE n == [sub |-> Self, tx |-> t, set |-> {}, stage |-> "lock"]
  <2>5. /\ jobs' = jobs \cup {n} /\ submits' = submits + 1
        /\ UNCHANGED <<raw, owner, tasks, clearing, ingested>>
    BY <1>2 DEF Submit
  <2>6. n.sub = Self /\ n.tx = t /\ n.stage = "lock"
    OBVIOUS
  <2> HIDE DEF n
  <2>7. \A l \in Validator, u \in Tx : Arrived(l, u) => Arrived(l, u)'
    BY <1>0, <2>5 DEF Arrived
  <2>8. TasksMapped' /\ \A u \in Tx : Holders(u)' = Holders(u)
    BY <2>5 DEF ReapInv, TasksMapped, Holders
  <2>9. \A u \in Tx : <<u, "map">> \in clearing =>
          \A j \in jobs' : j.tx # u
    BY <2>4, <2>5, <2>6 DEF ReapInv
  <2> QED BY <1>0, <2>2, <2>4, <2>5, <2>6, <2>7, <2>8, <2>9 DEF ReapInv
<1>3. ASSUME NEW l \in Submitter, NEW t \in Tx, NEW S \in Broadcast(l), Receive(l, t, S)
      PROVE  ReapInv'
  <2>1. l \in Source /\ l \in Validator /\ l # Self
    BY NameAssumption, PeerAssumption DEF Validator, Source
  <2> DEFINE n == [sub |-> l, tx |-> t, set |-> S, stage |-> "lock"]
  <2>2. /\ <<l, t>> \notin ingested /\ ingested \subseteq ingested'
        /\ jobs' \subseteq jobs \cup {n}
        /\ UNCHANGED <<raw, owner, tasks, clearing, submits>>
    BY <1>3 DEF Receive
  <2>3. ~ Arrived(l, t)
    BY <2>1, <2>2 DEF Arrived
  <2>4. ~ raw[<<l, t>>].pooled /\ <<t, "map">> \notin clearing
    BY <1>c, <2>1, <2>3
  <2>6. n.sub = l /\ n.tx = t /\ n.stage = "lock"
    OBVIOUS
  <2> HIDE DEF n
  <2>7. \A m \in Validator, u \in Tx : Arrived(m, u) => Arrived(m, u)'
    BY <2>2 DEF Arrived
  <2>8. TasksMapped' /\ \A u \in Tx : Holders(u)' = Holders(u)
    BY <2>2 DEF ReapInv, TasksMapped, Holders
  <2>9. \A u \in Tx : <<u, "map">> \in clearing =>
          \A j \in jobs' : j.tx # u
    BY <2>2, <2>4, <2>6 DEF ReapInv
  <2> QED BY <1>0, <2>1, <2>2, <2>4, <2>6, <2>7, <2>8, <2>9 DEF ReapInv
<1>4. ASSUME NEW j \in jobs, AddRaw(j) PROVE ReapInv'
  <2>1. j \in Job /\ j.stage = "lock" /\ ~ raw[<<j.sub, j.tx>>].pooled
    BY <1>0, <1>4 DEF AddRaw, ReapInv
  <2> DEFINE n == [j EXCEPT !.stage = "save"]
  <2>2. /\ raw' = [raw EXCEPT ![<<j.sub, j.tx>>] = NewEntry]
        /\ jobs' = (jobs \ {j}) \cup {n}
        /\ UNCHANGED <<owner, tasks, clearing, Handed>>
    BY <1>4, <2>1 DEF AddRaw, Handed, history
  <2>3. n.sub = j.sub /\ n.tx = j.tx /\ n.stage = "save"
    BY <2>1 DEF Job
  <2> HIDE DEF n
  <2>4. \A k \in jobs' : k = n \/ (k \in jobs /\ <<k.sub, k.tx>> # <<j.sub, j.tx>>)
    BY <2>2 DEF ArrivedInv
  <2>5. \A l \in Validator, u \in Tx : <<l, u>> # <<j.sub, j.tx>> => raw'[<<l, u>>] = raw[<<l, u>>]
    BY <1>0, <2>2
  <2>6. \A k \in jobs' : /\ k.sub \in Source /\ k.stage # "again"
                         /\ k.stage = "lock" => ~ raw'[<<k.sub, k.tx>>].pooled
    <3>1. ASSUME NEW k \in jobs, <<k.sub, k.tx>> # <<j.sub, j.tx>>
          PROVE  /\ k.sub \in Source /\ k.stage # "again"
                 /\ k.stage = "lock" => ~ raw'[<<k.sub, k.tx>>].pooled
      BY <1>0, <2>5, <3>1 DEF ReapInv
    <3>2. n.sub \in Source /\ n.stage # "again" /\ n.stage # "lock"
      BY <2>3 DEF ReapInv
    <3> QED BY <2>4, <3>1, <3>2
  <2>7. \A l \in Validator, u \in Tx : raw'[<<l, u>>].pooled => l \in Source
    BY <2>5 DEF ReapInv
  <2>8. TasksMapped' /\ \A u \in Tx : Holders(u)' = Holders(u)
    BY <2>2 DEF ReapInv, TasksMapped, Holders
  <2>9. \A l \in Validator, u \in Tx : Arrived(l, u)' = Arrived(l, u)
    BY <2>2 DEF Handed, Arrived
  <2>10. ASSUME NEW u \in Tx, <<u, "map">> \in clearing'
         PROVE  /\ \A l \in Source : Arrived(l, u)' /\ ~ raw'[<<l, u>>].pooled
                /\ \A k \in jobs' : k.tx # u
                /\ Holders(u)' = {}
    <3>1. /\ \A l \in Source : Arrived(l, u) /\ ~ raw[<<l, u>>].pooled
          /\ \A k \in jobs : k.tx # u
          /\ Holders(u) = {}
      BY <2>2, <2>10 DEF ReapInv
    <3> QED BY <1>0, <2>3, <2>4, <2>5, <2>8, <2>9, <3>1
  <2> QED BY <2>2, <2>6, <2>7, <2>8, <2>10 DEF ReapInv
<1>a. ASSUME NEW t \in Tx, NEW o \in Validator \cup {None}, o \in Source \cup {None},
             NEW H \in SUBSET Validator, NEW V \in SUBSET Validator, Effect(t, o, H, V),
             Holders(t) \subseteq H,
             o = None \/ <<t, "map">> \in clearing => H = {},
             jobs' \subseteq jobs, UNCHANGED Handed
      PROVE  ReapInv'
  <2>1. /\ \A u \in Tx : owner'[u] = owner[u] \/ owner'[u] = None \/ (u = t /\ owner'[u] = o)
        /\ \A u \in Tx : u # t => owner'[u] = owner[u]
        /\ \A l \in Validator, u \in Tx : raw'[<<l, u>>].pooled => raw[<<l, u>>].pooled
        /\ \A u \in Tx : Holders(u)' \subseteq (IF u = t THEN H ELSE Holders(u))
        /\ Holders(t)' # {} => owner'[t] = o
        /\ \A u \in Tx : <<u, "map">> \in clearing' => <<u, "map">> \in clearing
    <3>1. /\ \A u \in Tx : owner'[u] = owner[u] \/ owner'[u] = None \/ (u = t /\ owner'[u] = o)
          /\ \A u \in Tx : u # t => owner'[u] = owner[u]
          /\ \A l \in Validator, u \in Tx : raw'[<<l, u>>].pooled => raw[<<l, u>>].pooled
      BY <1>0, <1>a DEF Effect
    <3>2. /\ \A u \in Tx : Holders(u)' \subseteq (IF u = t THEN H ELSE Holders(u))
          /\ Holders(t)' # {} => owner'[t] = o
      BY <1>0, <1>a DEF Effect, Holders
    <3>3. \A u \in Tx : <<u, "map">> \in clearing' => <<u, "map">> \in clearing
      BY <1>a DEF Effect
    <3> QED BY <3>1, <3>2, <3>3
  <2>2. TasksMapped'
    <3>1. ASSUME NEW u \in Tx, Holders(u)' # {} PROVE owner'[u] # None
      <4>1. CASE u = t
        BY <1>a, <2>1, <3>1, <4>1
      <4>2. CASE u # t
        BY <2>1, <3>1, <4>2 DEF ReapInv, TasksMapped
      <4> QED BY <4>1, <4>2
    <3> QED BY <3>1 DEF TasksMapped
  <2>3. \A u \in Tx : <<u, "map">> \in clearing' => <<u, "map">> \in clearing /\ Holders(u)' = {}
    BY <1>a, <2>1 DEF ReapInv
  <2>4. \A u \in Tx : owner'[u] \in Source \cup {None}
    BY <1>a, <2>1 DEF ReapInv
  <2> QED BY <1>0, <1>a, <2>1, <2>2, <2>3, <2>4, ReapFrame
<1>5. ASSUME NEW j \in jobs, Registered(j) PROVE ReapInv'
  <2>1. /\ j.sub \in Source /\ j.sub \in Validator /\ j.tx \in Tx
        /\ Holders(j.tx) \in SUBSET Validator
        /\ <<j.tx, "map">> \notin clearing
    BY <1>0 DEF ReapInv, Holders
  <2>2. PICK S, V \in SUBSET Validator : Effect(j.tx, j.sub, Holders(j.tx) \cup S, V)
    BY <1>5 DEF Registered
  <2> QED BY <1>0, <1>5, <1>a, <2>1, <2>2 DEF Registered
<1>6. ASSUME NEW t \in Tx, Counted(t) PROVE ReapInv'
  <2>1. /\ Holders(t) \in SUBSET Validator /\ owner[t] \in Source \cup {None}
        /\ owner[t] = None \/ <<t, "map">> \in clearing => Holders(t) = {}
    BY DEF Holders, ReapInv, TasksMapped
  <2> QED BY <1>0, <1>6, <1>a, <2>1 DEF Counted
<1>7. ASSUME NEW l \in Validator, NEW t \in Tx, Redrawn(l, t) PROVE ReapInv'
  <2> DEFINE o == IF owner[t] = None THEN l ELSE owner[t]
  <2>1. Holders(t) \in SUBSET Validator /\ <<t, "map">> \notin clearing
    BY <1>7 DEF Holders, ReapInv, Redrawn
  <2>2. o \in Source /\ o \in Validator
    BY <1>0, <1>7 DEF ReapInv, Redrawn
  <2>3. PICK S, V \in SUBSET Validator : Effect(t, o, Holders(t) \cup S, V)
    BY <1>7 DEF Redrawn
  <2> HIDE DEF o
  <2> QED BY <1>0, <1>7, <1>a, <2>1, <2>2, <2>3 DEF Redrawn
<1>8. ASSUME NEW t \in Tx, Passed(t) PROVE ReapInv'
  <2>1. /\ owner[t] \in Validator \cup {None} /\ Remove(owner[t], t)
        /\ UNCHANGED <<jobs, clearing, Handed>>
    BY <1>8, MoveEffect DEF Passed
  <2>2. /\ \A l \in Validator, u \in Tx : raw'[<<l, u>>].pooled => raw[<<l, u>>].pooled
        /\ \A u \in Tx : owner'[u] = IF u = t THEN None ELSE owner[u]
        /\ \A u \in Tx : tasks'[u] = IF u = t THEN NoTasks ELSE tasks[u]
    BY <1>0, <2>1, RemoveEffect, EntryFacts
  <2>3. \A u \in Tx : Holders(u)' = IF u = t THEN {} ELSE Holders(u)
    BY <2>2 DEF Holders, NoTasks
  <2>4. TasksMapped'
    BY <2>2, <2>3 DEF ReapInv, TasksMapped
  <2>5. /\ \A u \in Tx : owner'[u] \in Source \cup {None}
        /\ \A u \in Tx : <<u, "map">> \in clearing' => <<u, "map">> \in clearing /\ Holders(u)' = {}
    BY <2>1, <2>2, <2>3 DEF ReapInv
  <2> QED BY <1>0, <2>1, <2>2, <2>4, <2>5, ReapFrame
<1>9. CASE Crash
  BY <1>9 DEF Crash, ArrivedInv, HandedOnce
<1> QED BY <1>1, <1>2, <1>3, <1>4, <1>5, <1>6, <1>7, <1>8, <1>9, StepKinds

-----------------------------------------------------------------------------
(* Votes only of the recorded set.                                         *)

LEMMA AssignedFrame ==
  ASSUME AssignedInv, ArrivedInv,
         \A u \in Tx : owner'[u] \in Source \cup {None},
         \A l \in Validator, u \in Tx : raw'[<<l, u>>].pooled => l \in Source,
         jobs' \subseteq jobs, UNCHANGED <<leaders, Handed>>,
         \A u \in Tx : Holders(u)' \subseteq leaders[u],
         \A l \in Validator, u \in Tx : raw'[<<l, u>>].votes \subseteq leaders[u]
  PROVE  AssignedInv'
<1>1. \A l \in Validator, u \in Tx : Arrived(l, u)' = Arrived(l, u)
  BY DEF Arrived, Handed
<1>2. Source \subseteq Validator
  BY SourceFacts
<1> QED BY <1>1, <1>2 DEF AssignedInv, Handed

\* While the leads stay, a source that hands over once has one set recorded for
\* each transaction, which only grows into tasks and votes of its members.
LEMMA AssignedStep ==
  ASSUME TypeOK, OneSource, HandedOnce, Steady, ArrivedInv, AssignedInv, Next
  PROVE  AssignedInv'
<1>0. /\ raw \in [Slot -> Entry] /\ owner \in [Tx -> Validator \cup {None}]
      /\ tasks \in [Tx -> [Validator -> {"none", "open", "done"}]]
      /\ leaders \in [Tx -> SUBSET Validator]
      /\ \A l \in Validator, t \in Tx : <<l, t>> \in Slot
      /\ jobs \subseteq Job
      /\ \A j \in jobs : j.sub \in Validator /\ j.tx \in Tx
      /\ None \notin Validator /\ Source \subseteq Validator
      /\ submits \in Nat /\ MaxSubmits \in Nat /\ Required \in Nat
  BY NameAssumption, BoundAssumption, SourceFacts DEF TypeOK, Slot, Job
<1>b. ~ Armed
  BY DEF Armed, Steady, ArrivedInv
<1>1. CASE Quiet
  <2>1. /\ \A l \in Validator, u \in Tx : raw'[<<l, u>>].pooled => raw[<<l, u>>].pooled
        /\ \A l \in Validator, u \in Tx : raw'[<<l, u>>].votes \subseteq raw[<<l, u>>].votes
        /\ \A u \in Tx : owner'[u] \in {owner[u], None}
        /\ \A u \in Tx : Holders(u)' \subseteq Holders(u)
    BY <1>0, <1>1, EntryFacts DEF Quiet, Shrinks, Holders
  <2>2. /\ \A u \in Tx : Holders(u)' \subseteq leaders[u]
        /\ \A l \in Validator, u \in Tx : raw'[<<l, u>>].votes \subseteq leaders[u]
        /\ \A u \in Tx : owner'[u] \in Source \cup {None}
        /\ \A l \in Validator, u \in Tx : raw'[<<l, u>>].pooled => l \in Source
    BY <2>1 DEF AssignedInv
  <2>3. jobs' \subseteq jobs /\ UNCHANGED <<leaders, Handed>>
    BY <1>1 DEF Quiet
  <2> QED BY <2>2, <2>3, AssignedFrame
<1>2. ASSUME NEW t \in Tx, Submit(t) PROVE AssignedInv'
  <2>1. ~ (submits > 0)
    BY <1>0, <1>2 DEF Submit, HandedOnce
  <2>2. Self \in Source
    BY <1>0, <1>2 DEF Submit, Source
  <2>3. leaders[t] = {}
    BY <2>1, <2>2 DEF Arrived, AssignedInv
  <2> DEFINE n == [sub |-> Self, tx |-> t, set |-> {}, stage |-> "lock"]
  <2>5. /\ jobs' = jobs \cup {n} /\ submits' = submits + 1
        /\ UNCHANGED <<raw, owner, tasks, leaders, ingested>>
    BY <1>2 DEF Submit
  <2>6. n.sub = Self /\ n.tx = t /\ Cardinality(n.set) =< Required
    BY <1>0, FS_EmptySet
  <2> HIDE DEF n
  <2>7. \A l \in Source, u \in Tx : Arrived(l, u) => Arrived(l, u)'
    BY <1>0, <2>5 DEF Arrived
  <2>8. \A u \in Tx : Holders(u)' = Holders(u)
    BY <2>5 DEF Holders
  <2>9. \A j \in jobs' : j.sub \in Source /\ leaders[j.tx] = {} /\ Cardinality(j.set) =< Required
    BY <2>2, <2>3, <2>5, <2>6 DEF AssignedInv
  <2> QED BY <2>5, <2>7, <2>8, <2>9 DEF AssignedInv
<1>3. ASSUME NEW l \in Submitter, NEW t \in Tx, NEW S \in Broadcast(l), Receive(l, t, S)
      PROVE  AssignedInv'
  <2>1. l \in Source /\ l \in Validator /\ l # Self
    BY NameAssumption, PeerAssumption DEF Validator, Source
  <2> DEFINE n == [sub |-> l, tx |-> t, set |-> S, stage |-> "lock"]
  <2>2. /\ <<l, t>> \notin ingested /\ ingested \subseteq ingested'
        /\ jobs' \subseteq jobs \cup {n}
        /\ UNCHANGED <<raw, owner, tasks, leaders, submits>>
    BY <1>3 DEF Receive
  <2>3. leaders[t] = {}
    BY <2>1, <2>2 DEF Arrived, AssignedInv
  <2>4. Cardinality(S) =< Required
    BY <2>1, LeaderSetFacts DEF Broadcast
  <2>6. n.sub = l /\ n.tx = t /\ Cardinality(n.set) =< Required
    BY <2>4
  <2> HIDE DEF n
  <2>7. \A m \in Source, u \in Tx : Arrived(m, u) => Arrived(m, u)'
    BY <2>2 DEF Arrived
  <2>8. \A u \in Tx : Holders(u)' = Holders(u)
    BY <2>2 DEF Holders
  <2>9. \A j \in jobs' : j.sub \in Source /\ leaders[j.tx] = {} /\ Cardinality(j.set) =< Required
    BY <2>1, <2>2, <2>3, <2>6 DEF AssignedInv
  <2> QED BY <2>2, <2>7, <2>8, <2>9 DEF AssignedInv
<1>4. ASSUME NEW j \in jobs, AddRaw(j) PROVE AssignedInv'
  <2>1. /\ raw' = [raw EXCEPT ![<<j.sub, j.tx>>] = NewEntry]
        /\ \E st \in {"again", "save"} : jobs' = (jobs \ {j}) \cup {[j EXCEPT !.stage = st]}
        /\ UNCHANGED <<owner, tasks, leaders, Handed>>
    BY <1>4 DEF AddRaw, Handed, history
  <2>2. \A st \in {"again", "save"} :
          /\ [j EXCEPT !.stage = st].sub = j.sub /\ [j EXCEPT !.stage = st].tx = j.tx
          /\ [j EXCEPT !.stage = st].set = j.set
    BY <1>0 DEF Job
  <2>3. \A k \in jobs' : k.sub \in Source /\ leaders[k.tx] = {} /\ Cardinality(k.set) =< Required
    BY <2>1, <2>2 DEF AssignedInv
  <2>4. \A l \in Validator, u \in Tx :
          /\ raw'[<<l, u>>].votes \subseteq raw[<<l, u>>].votes
          /\ raw'[<<l, u>>].pooled => raw[<<l, u>>].pooled \/ l = j.sub
    BY <1>0, <2>1, EntryFacts
  <2>5. /\ j.sub \in Source
        /\ \A l \in Validator, u \in Tx :
             raw[<<l, u>>].votes \subseteq leaders[u] /\ (raw[<<l, u>>].pooled => l \in Source)
    BY DEF AssignedInv
  <2>6. /\ \A l \in Validator, u \in Tx : raw'[<<l, u>>].votes \subseteq leaders[u]
        /\ \A l \in Validator, u \in Tx : raw'[<<l, u>>].pooled => l \in Source
    BY <2>4, <2>5
  <2>7. /\ \A u \in Tx : Holders(u)' = Holders(u)
        /\ \A l \in Source, u \in Tx : Arrived(l, u)' = Arrived(l, u)
    BY <2>1 DEF Handed, Arrived, Holders
  <2>8. \A u \in Tx :
          /\ Cardinality(leaders'[u]) =< Required
          /\ leaders'[u] # {} => \A l \in Source : Arrived(l, u)'
          /\ Holders(u)' \subseteq leaders'[u]
    BY <2>1, <2>7 DEF AssignedInv
  <2>9. \A u \in Tx : owner'[u] \in Source \cup {None}
    BY <2>1 DEF AssignedInv
  <2> QED BY <2>1, <2>3, <2>6, <2>8, <2>9 DEF AssignedInv
<1>5. ASSUME NEW j \in jobs, Registered(j) PROVE AssignedInv'
  <2>1. /\ j.sub \in Source /\ j.sub \in Validator /\ j.tx \in Tx
        /\ leaders[j.tx] = {} /\ Cardinality(j.set) =< Required
        /\ Arrived(j.sub, j.tx)
        /\ Holders(j.tx) = {}
        /\ \A l \in Validator : raw[<<l, j.tx>>].votes = {}
    BY <1>0 DEF AssignedInv, ArrivedInv
  <2> DEFINE t == j.tx
             o == j.sub
             none == {}
  <2>2. PICK S, V \in SUBSET Validator :
          /\ Cardinality(S) =< Required
          /\ Effect(t, o, none \cup S, V)
          /\ leaders' = [leaders EXCEPT ![t] = S]
    BY <1>5, <2>1 DEF Registered
  <2>3. jobs' = jobs \ {j} /\ UNCHANGED Handed
    BY <1>5 DEF Registered
  <2>4. /\ t \in Tx /\ o \in Source /\ o \in Validator /\ none = {}
        /\ Arrived(o, t) /\ \A l \in Validator : raw[<<l, t>>].votes = {}
        /\ \A u \in Tx : Holders(u) \subseteq leaders[u]
        /\ leaders[t] = {}
    BY <2>1 DEF AssignedInv
  <2>5. \A k \in jobs' : k.tx # t
    BY <2>3 DEF AssignedInv, ArrivedInv, OneSource
  <2> HIDE DEF t, o, none
  <2>6. \A u \in Tx : leaders'[u] = IF u = t THEN S ELSE leaders[u]
    BY <1>0, <2>2
  <2>7. ASSUME NEW u \in Tx PROVE Holders(u)' \subseteq leaders'[u]
    <3>1. Holders(u)' \subseteq Holders(u) \cup (IF u = t THEN none \cup S ELSE {})
      BY <2>2 DEF Effect, Holders
    <3> QED BY <2>4, <2>6, <3>1
  <2>8. ASSUME NEW l \in Validator, NEW u \in Tx PROVE raw'[<<l, u>>].votes \subseteq leaders'[u]
    <3>1. raw'[<<l, u>>].votes
            \subseteq raw[<<l, u>>].votes \cup (IF <<l, u>> = <<o, t>> THEN Valid(t, none \cup S, V) ELSE {})
      BY <1>0, <2>2 DEF Effect
    <3>2. Valid(t, none \cup S, V) \subseteq S
      BY <2>4 DEF Valid
    <3>3. u # t => raw[<<l, u>>].votes \subseteq leaders[u]
      BY DEF AssignedInv
    <3> QED BY <2>4, <2>6, <3>1, <3>2, <3>3
  <2>9. /\ \A u \in Tx : owner'[u] \in {owner[u], None, o}
        /\ \A l \in Validator, u \in Tx : raw'[<<l, u>>].pooled => raw[<<l, u>>].pooled
    BY <1>0, <2>2 DEF Effect
  <2>10. ASSUME NEW u \in Tx
         PROVE  /\ Cardinality(leaders'[u]) =< Required
                /\ leaders'[u] # {} => \A l \in Source : Arrived(l, u)'
    <3>1. \A l \in Source : Arrived(l, u)' = Arrived(l, u)
      BY <2>3 DEF Arrived, Handed
    <3> QED BY <2>2, <2>4, <2>6, <3>1 DEF AssignedInv, OneSource
  <2>11. \A k \in jobs' : k.sub \in Source /\ leaders'[k.tx] = {} /\ Cardinality(k.set) =< Required
    BY <1>0, <2>3, <2>5, <2>6 DEF AssignedInv
  <2>12. /\ \A u \in Tx : owner'[u] \in Source \cup {None}
         /\ \A l \in Validator, u \in Tx : raw'[<<l, u>>].pooled => l \in Source
    BY <2>4, <2>9 DEF AssignedInv
  <2> QED BY <2>7, <2>8, <2>10, <2>11, <2>12 DEF AssignedInv
<1>6. ASSUME NEW t \in Tx, Counted(t) PROVE AssignedInv'
  <2> DEFINE o == owner[t]
             H == Holders(t)
  <2>1. /\ H \in SUBSET Validator /\ o \in Validator \cup {None} /\ o = owner[t] /\ H = Holders(t)
        /\ H \subseteq leaders[t]
    BY <1>0 DEF Holders, AssignedInv
  <2>2. PICK V \in SUBSET Validator : Effect(t, o, H, V)
    BY <1>6 DEF Counted
  <2>3. UNCHANGED <<jobs, leaders, Handed>>
    BY <1>6 DEF Counted
  <2> HIDE DEF o, H
  <2>4. /\ \A u \in Tx : owner'[u] \in {owner[u], None}
        /\ \A l \in Validator, u \in Tx : raw'[<<l, u>>].pooled => raw[<<l, u>>].pooled
    BY <1>0, <2>1, <2>2 DEF Effect
  <2>5. \A u \in Tx : Holders(u)' \subseteq Holders(u)
    BY <2>1, <2>2 DEF Effect, Holders
  <2>6. ASSUME NEW l \in Validator, NEW u \in Tx PROVE raw'[<<l, u>>].votes \subseteq leaders[u]
    <3>1. raw'[<<l, u>>].votes
            \subseteq raw[<<l, u>>].votes \cup (IF <<l, u>> = <<o, t>> THEN Valid(t, H, V) ELSE {})
      BY <1>0, <2>2 DEF Effect
    <3>2. Valid(t, H, V) \subseteq leaders[t]
      BY <2>1 DEF Valid
    <3>3. raw[<<l, u>>].votes \subseteq leaders[u]
      BY DEF AssignedInv
    <3> QED BY <3>1, <3>2, <3>3
  <2>7. /\ \A u \in Tx : owner'[u] \in Source \cup {None}
        /\ \A l \in Validator, u \in Tx : raw'[<<l, u>>].pooled => l \in Source
        /\ \A u \in Tx : Holders(u)' \subseteq leaders[u]
    BY <2>4, <2>5 DEF AssignedInv
  <2> QED BY <2>3, <2>6, <2>7, AssignedFrame
<1>7. ASSUME NEW l \in Validator, NEW t \in Tx, Redrawn(l, t) PROVE AssignedInv'
  BY <1>7, <1>b DEF Redrawn
<1>8. ASSUME NEW t \in Tx, Passed(t) PROVE AssignedInv'
  <2>1. /\ owner[t] \in Validator \cup {None} /\ Remove(owner[t], t)
        /\ UNCHANGED <<jobs, leaders, Handed>>
    BY <1>8, MoveEffect DEF Passed
  <2>2. /\ \A l \in Validator, u \in Tx : raw'[<<l, u>>].pooled => raw[<<l, u>>].pooled
        /\ \A l \in Validator, u \in Tx : raw'[<<l, u>>].votes \subseteq raw[<<l, u>>].votes
        /\ \A u \in Tx : owner'[u] \in {owner[u], None}
        /\ \A u \in Tx : tasks'[u] \in {NoTasks, tasks[u]}
    <3>1. \A s \in Slot : raw'[s] \in {NoEntry, raw[s]}
      BY <2>1, RemoveEffect
    <3>2. \A u \in Tx : owner'[u] \in {owner[u], None} /\ tasks'[u] \in {NoTasks, tasks[u]}
      BY <2>1, RemoveEffect
    <3> QED BY <1>0, <3>1, <3>2, EntryFacts
  <2>3. \A u \in Tx : Holders(u)' \subseteq Holders(u)
    BY <2>2 DEF Holders, NoTasks
  <2>4. /\ \A u \in Tx : Holders(u)' \subseteq leaders[u]
        /\ \A l \in Validator, u \in Tx : raw'[<<l, u>>].votes \subseteq leaders[u]
        /\ \A u \in Tx : owner'[u] \in Source \cup {None}
        /\ \A l \in Validator, u \in Tx : raw'[<<l, u>>].pooled => l \in Source
    BY <2>2, <2>3 DEF AssignedInv
  <2> QED BY <2>1, <2>4, AssignedFrame
<1>9. CASE Crash
  BY <1>9 DEF Crash, ArrivedInv, HandedOnce
<1> QED BY <1>1, <1>2, <1>3, <1>4, <1>5, <1>6, <1>7, <1>8, <1>9, StepKinds

\* Then as many votes as the set requires are the votes of the set.
LEMMA AttestedMove ==
  ASSUME TypeOK, AssignedInv, NEW t \in Tx, Count(t) >= Need(t)
  PROVE  leaders[t] \subseteq raw[<<owner[t], t>>].votes
<1> DEFINE S == leaders[t]
           W == raw[<<owner[t], t>>].votes
<1>1. owner[t] \in Validator /\ owner[t] # None
  BY NeedFacts, NameAssumption
<1>2. W \subseteq S /\ S \in SUBSET Validator /\ Cardinality(S) =< Required
  BY <1>1 DEF AssignedInv, TypeOK
<1>3. IsFiniteSet(S) /\ Cardinality(S) \in Nat /\ Cardinality(W) \in Nat
  BY <1>2, ValidatorsFinite
<1>4. CASE S = {}
  BY <1>4
<1>5. CASE S # {}
  <2>1. Need(t) = Cardinality(S)
    BY <1>2, <1>3, <1>5, BoundAssumption DEF Need, Lesser
  <2>2. Count(t) = Cardinality(W)
    BY <1>1 DEF Count
  <2>3. Cardinality(W) =< Cardinality(S)
    BY <1>2, <1>3, FS_Subset
  <2>4. Cardinality(W) = Cardinality(S)
    BY <1>3, <2>1, <2>2, <2>3
  <2> HIDE DEF S, W
  <2>5. S = W
    BY <1>2, <1>3, <2>4, FS_Subset
  <2> QED BY <2>5 DEF S, W
<1> QED BY <1>4, <1>5

\* Only a move adds to what is processed.
LEMMA AttestedNext ==
  ASSUME TypeOK, AssignedInv, Next
  PROVE  AttestedStep
<1>1. CASE Quiet
  BY <1>1 DEF Quiet, Moving, AttestedStep
<1>2. ASSUME NEW t \in Tx, Submit(t) \/ Counted(t) PROVE AttestedStep
  BY <1>2 DEF Submit, Counted, Moving, AttestedStep
<1>3. ASSUME NEW l \in Submitter, NEW t \in Tx, NEW S \in Broadcast(l), Receive(l, t, S) PROVE AttestedStep
  BY <1>3 DEF Receive, AttestedStep
<1>4. ASSUME NEW j \in jobs, AddRaw(j) \/ Registered(j) PROVE AttestedStep
  BY <1>4 DEF AddRaw, Registered, Moving, AttestedStep
<1>5. ASSUME NEW l \in Validator, NEW t \in Tx, Redrawn(l, t) PROVE AttestedStep
  BY <1>5 DEF Redrawn, Moving, AttestedStep
<1>6. ASSUME NEW t \in Tx, Passed(t) PROVE AttestedStep
  BY <1>6, AttestedMove DEF Passed, Move, AttestedStep
<1>7. CASE Crash
  BY <1>7 DEF Crash, AttestedStep
<1> QED BY <1>1, <1>2, <1>3, <1>4, <1>5, <1>6, <1>7, StepKinds

-----------------------------------------------------------------------------
(* The theorems.                                                           *)

LEMMA InitialInvs == Init => OnePlaceInv /\ ArrivedInv /\ VotesInv
<1> SUFFICES ASSUME Init PROVE OnePlaceInv /\ ArrivedInv /\ VotesInv
  OBVIOUS
<1>1. /\ \A l \in Validator, t \in Tx : <<l, t>> \in Slot
      /\ \A s \in Slot : raw[s] = NoEntry
      /\ \A t \in Tx : owner[t] = None /\ moves[t] = 0
      /\ jobs = {} /\ processed = {} /\ crashes = 0 /\ None \notin Validator
  BY NameAssumption DEF Init, Slot
<1> QED BY <1>1, EntryFacts DEF OnePlaceInv, ArrivedInv, VotesInv, MovesInv

\* A transaction reaches the ledger at most once between two boots: through
\* every sweep, eviction, late report, restart and change of the live leads
\* when one source hands transactions over, and from any number of sources
\* when none hands one over twice and the leads stay.
THEOREM MovedOnceHolds ==
  ASSUME OneSource \/ (HandedOnce /\ Steady)
  PROVE  Spec => []MovedOnce
<1>1. MovesInv => MovedOnce
  BY DEF MovesInv, MovedOnce
<1>2. CASE OneSource
  <2>1. Init => OnePlaceInv
    BY InitialInvs
  <2>2. OnePlaceInv /\ TypeOK /\ [Next]_vars => OnePlaceInv'
    <3>1. ASSUME OnePlaceInv, UNCHANGED vars PROVE OnePlaceInv'
      BY <3>1 DEF OnePlaceInv, MovesInv, vars, memory, history
    <3> QED BY <1>2, <3>1, OnePlaceStep
  <2>3. OnePlaceInv => MovedOnce
    BY <1>1 DEF OnePlaceInv
  <2> QED BY <2>1, <2>2, <2>3, WorkflowTypeCorrect, PTL DEF Spec
<1>3. CASE HandedOnce /\ Steady
  <2>1. Init => ArrivedInv /\ VotesInv
    BY InitialInvs
  <2>2. (ArrivedInv /\ VotesInv) /\ TypeOK /\ [Next]_vars => (ArrivedInv /\ VotesInv)'
    <3>1. ASSUME ArrivedInv, UNCHANGED vars PROVE ArrivedInv'
      BY <3>1 DEF ArrivedInv, Arrived, vars, memory, history
    <3>2. ASSUME VotesInv, UNCHANGED vars PROVE VotesInv'
      BY <3>2 DEF VotesInv, MovesInv, vars, memory, history
    <3> QED BY <1>3, <3>1, <3>2, ArrivedStep, VotesStep
  <2>3. VotesInv => MovedOnce
    BY <1>1 DEF VotesInv
  <2> QED BY <2>1, <2>2, <2>3, WorkflowTypeCorrect, PTL DEF Spec
<1> QED BY <1>2, <1>3


\* A node that gets every transaction from one source, once, has validation
\* tasks only for what is mapped to a submitter, whichever sweep or eviction
\* took it and however the live leads change.
THEOREM TasksMappedHolds ==
  ASSUME OneSource, HandedOnce
  PROVE  Spec => []TasksMapped
<1>1. Init => ArrivedInv /\ ReapInv
  <2>1. Init => ReapInv
    <3> SUFFICES ASSUME Init PROVE ReapInv
      OBVIOUS
    <3>1. /\ \A l \in Validator, t \in Tx : <<l, t>> \in Slot
          /\ \A s \in Slot : raw[s] = NoEntry
          /\ \A t \in Tx : owner[t] = None /\ Holders(t) = {}
          /\ jobs = {} /\ clearing = {}
      BY DEF Init, Slot, Holders, NoTasks
    <3> QED BY <3>1, EntryFacts DEF ReapInv, TasksMapped
  <2> QED BY <2>1, InitialInvs
<1>2. (ArrivedInv /\ ReapInv) /\ TypeOK /\ [Next]_vars => (ArrivedInv /\ ReapInv)'
  <2>1. ASSUME ArrivedInv, UNCHANGED vars PROVE ArrivedInv'
    BY <2>1 DEF ArrivedInv, Arrived, vars, memory, history
  <2>2. ASSUME ReapInv, UNCHANGED vars PROVE ReapInv'
    BY <2>2 DEF ReapInv, TasksMapped, Holders, Arrived, vars, memory, history
  <2> QED BY <2>1, <2>2, ArrivedStep, ReapStep
<1>3. ReapInv => TasksMapped
  BY DEF ReapInv
<1> QED BY <1>1, <1>2, <1>3, WorkflowTypeCorrect, PTL DEF Spec

\* On such a node, while the live leads stay, a transaction moves only when
\* every validator of its recorded set has voted for it.
THEOREM AttestedHolds ==
  ASSUME OneSource, HandedOnce, Steady
  PROVE  Spec => Attested
<1>1. Init => ArrivedInv /\ AssignedInv
  <2>1. Init => AssignedInv
    <3> SUFFICES ASSUME Init PROVE AssignedInv
      OBVIOUS
    <3>1. /\ \A l \in Validator, t \in Tx : <<l, t>> \in Slot
          /\ \A s \in Slot : raw[s] = NoEntry
          /\ \A t \in Tx : owner[t] = None /\ Holders(t) = {} /\ leaders[t] = {}
          /\ jobs = {}
      BY DEF Init, Slot, Holders, NoTasks
    <3>2. \A t \in Tx : Cardinality(leaders[t]) =< Required
      BY <3>1, FS_EmptySet, BoundAssumption
    <3> QED BY <3>1, <3>2, EntryFacts DEF AssignedInv
  <2> QED BY <2>1, InitialInvs
<1>2. (ArrivedInv /\ AssignedInv) /\ TypeOK /\ [Next]_vars => (ArrivedInv /\ AssignedInv)'
  <2>1. ASSUME ArrivedInv, UNCHANGED vars PROVE ArrivedInv'
    BY <2>1 DEF ArrivedInv, Arrived, vars, memory, history
  <2>2. ASSUME AssignedInv, UNCHANGED vars PROVE AssignedInv'
    BY <2>2 DEF AssignedInv, Holders, Arrived, vars, memory, history
  <2> QED BY <2>1, <2>2, ArrivedStep, AssignedStep
<1>3. AssignedInv /\ TypeOK /\ [Next]_vars => [AttestedStep]_vars
  BY AttestedNext
<1> QED BY <1>1, <1>2, <1>3, WorkflowTypeCorrect, PTL DEF Spec, Attested


=============================================================================
