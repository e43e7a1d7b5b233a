--------------------------- MODULE ServicesProofs ---------------------------
(***************************************************************************)
(* Invariants of the processes around the chain, for all values of their   *)
(* constants.  The parts of MCServices share no variable, so each proof    *)
(* first reduces the collection to the specification of its part.          *)
(***************************************************************************)
EXTENDS MCServices, FiniteSetTheorems, TLAPS

----------------------------------------------------------------------------
(* Updates                                                                  *)

LEMMA UpdatesPart == Spec => Updates!ReleaseSpec
<1>1. Init => Updates!Init
  BY DEF Init
<1>2. [Next]_vars => [Updates!Next]_(Updates!releaseVars)
  BY DEF Next, vars, updatesVars, Updates!releaseVars
<1> QED
  BY <1>1, <1>2, PTL DEF Spec, Updates!ReleaseSpec

\* What a version may be: none, one that was released, or a mixture on disk.
ReleasedInv == published \in Updates!Version /\ Updates!OnlyReleased

LEMMA ReleasedInit == Updates!Init => ReleasedInv
BY ReleaseAssumption DEF Updates!Init, ReleasedInv, Updates!OnlyReleased, Updates!Version, Updates!Mixed

\* The release source answers with what was released last or, off the track, with what is no version.
LEMMA RegistryAnswers ==
  ASSUME ReleasedInv, NEW v, v = 0 \/ v = Updates!registry, Updates!onTrack(v)
  PROVE  v = published
BY ReleaseAssumption DEF ReleasedInv, Updates!registry, Updates!onTrack, Updates!Version

LEMMA ReleasedNext == ReleasedInv /\ [Updates!Next]_(Updates!releaseVars) => ReleasedInv'
<1> SUFFICES ASSUME ReleasedInv, [Updates!Next]_(Updates!releaseVars) PROVE ReleasedInv'
  OBVIOUS
<1>1. /\ published \in Nat /\ published <= MaxVersion /\ 0 < published
      /\ {latest, suspendedAt, diskVersion, updatesRunning} \subseteq {Updates!Mixed} \cup 0 .. published
  BY ReleaseAssumption DEF ReleasedInv, Updates!OnlyReleased, Updates!Version
<1>2. ASSUME published' \in Updates!Version, published <= published',
             {latest', suspendedAt', diskVersion', updatesRunning'}
               \subseteq {Updates!Mixed, 0, published, latest, suspendedAt, diskVersion, updatesRunning}
      PROVE  ReleasedInv'
  BY <1>1, <1>2, ReleaseAssumption DEF ReleasedInv, Updates!OnlyReleased, Updates!Version
<1>3. published \in Updates!Version
  BY DEF ReleasedInv
<1>4. CASE UNCHANGED <<published, latest, suspendedAt, diskVersion, updatesRunning>>
  BY <1>1, <1>2, <1>3, <1>4
<1>5. CASE Updates!Publish
  BY <1>1, <1>2, <1>5, ReleaseAssumption DEF Updates!Publish, Updates!Version
<1>6. ASSUME NEW ok \in BOOLEAN, Updates!Fetch(ok) PROVE ReleasedInv'
  <2> DEFINE v == IF ok THEN Updates!registry ELSE 0
  <2>1. /\ latest' = (IF Updates!Behind(v) THEN v ELSE 0) /\ suspendedAt' = (IF Updates!Behind(v) THEN v ELSE 0)
        /\ UNCHANGED <<published, diskVersion, updatesRunning>>
    BY <1>6 DEF Updates!Fetch
  <2>2. Updates!Behind(v) => v = published
    BY RegistryAnswers DEF Updates!Behind
  <2> HIDE DEF v
  <2> QED
    BY <1>1, <1>2, <1>3, <2>1, <2>2
<1>7. ASSUME NEW ok \in BOOLEAN, Updates!SelfHeal(ok) PROVE ReleasedInv'
  <2> DEFINE v == IF ok THEN Updates!registry ELSE 0
  <2>1. /\ (Updates!onTrack(v) /\ latest' = v) \/ latest' = latest
        /\ UNCHANGED <<published, suspendedAt, diskVersion, updatesRunning>>
    BY <1>7 DEF Updates!SelfHeal
  <2>2. Updates!onTrack(v) => v = published
    BY RegistryAnswers
  <2> HIDE DEF v
  <2> QED
    BY <1>1, <1>2, <1>3, <2>1, <2>2
<1>8. ASSUME NEW tree \in Updates!Version \cup {Updates!Mixed}, Updates!NpmEnds(tree) PROVE ReleasedInv'
  BY <1>1, <1>2, <1>3, <1>8 DEF Updates!NpmEnds
<1>9. CASE Updates!Exits \/ Updates!Boot \/ Updates!ParentDeath \/ Updates!OtherDies
  BY <1>1, <1>2, <1>3, <1>9 DEF Updates!Exits, Updates!Boot, Updates!ParentDeath, Updates!OtherDies
<1>10. CASE Updates!OtherEnds
  <2>1. /\ diskVersion' \in {Updates!Mixed, diskVersion} \/ (Updates!onTrack(Updates!registry) /\ diskVersion' = Updates!registry)
        /\ UNCHANGED <<published, latest, suspendedAt, updatesRunning>>
    BY <1>10 DEF Updates!OtherEnds
  <2>2. Updates!onTrack(Updates!registry) => Updates!registry = published
    BY RegistryAnswers
  <2> QED
    BY <1>1, <1>2, <1>3, <2>1, <2>2
<1> QED
  BY <1>4, <1>5, <1>6, <1>7, <1>8, <1>9, <1>10
     DEF Updates!Next, Updates!releaseVars, Updates!MoveTag, Updates!PeerClaims, Updates!Pass, Updates!Poll, Updates!Prepare,
         Updates!GraceEnds, Updates!Lock, Updates!Unlink, Updates!Decide, Updates!Detach, Updates!LauncherGoes,
         Updates!OtherInstalls

\* Claims a node looked at since one was confirmed: the waits between them double up to the poll, and the
\* next look waits for the last of them to be over.
Paced(wait, seen, due) ==
  /\ seen # <<>> => /\ wait[1] = MinWait
                    /\ due.wait = Updates!Longer(wait[Len(seen)])
                    /\ due.nextAt = seen[Len(seen)] + wait[Len(seen)]
  /\ \A i \in 1 .. Len(seen) - 1 : wait[i + 1] = Updates!Longer(wait[i]) /\ seen[i + 1] - seen[i] >= wait[i]
PacedInv ==
  /\ looks \in Seq(Nat) /\ lookClock \in Nat
  /\ trigger \in [wait : MinWait .. MaxWait, nextAt : Nat, highest : Int, known : Int]
  /\ looks = <<>> => trigger.wait = MinWait
  /\ trigger.nextAt = 0 => looks = <<>>
  /\ \E wait \in [1 .. Len(looks) -> MinWait .. MaxWait] : Paced(wait, looks, trigger)

LEMMA FreshTrigger ==
  /\ Updates!NewTrigger \in [wait : MinWait .. MaxWait, nextAt : Nat, highest : Int, known : Int]
  /\ Updates!NewTrigger.wait = MinWait /\ Updates!NewTrigger.nextAt = 0
BY ReleaseAssumption DEF Updates!NewTrigger

\* With no look to go by there is nothing to pace.
LEMMA NoLooks ==
  ASSUME looks = <<>>, lookClock \in Nat, trigger.wait = MinWait,
         trigger \in [wait : MinWait .. MaxWait, nextAt : Nat, highest : Int, known : Int]
  PROVE  PacedInv
<1>1. Len(looks) = 0 /\ looks \in Seq(Nat)
  OBVIOUS
<1> DEFINE none == [i \in 1 .. 0 |-> MinWait]
<1>2. none \in [1 .. Len(looks) -> MinWait .. MaxWait] /\ Paced(none, looks, trigger)
  BY <1>1 DEF Paced
<1> HIDE DEF none
<1> QED
  BY <1>1, <1>2 DEF PacedInv

LEMMA PacedInit == Updates!Init => PacedInv
BY NoLooks, FreshTrigger DEF Updates!Init

LEMMA PacedNext == ReleasedInv /\ PacedInv /\ [Updates!Next]_(Updates!releaseVars) => PacedInv'
<1> SUFFICES ASSUME ReleasedInv, PacedInv, [Updates!Next]_(Updates!releaseVars) PROVE PacedInv'
  OBVIOUS
<1> USE DEF PacedInv
<1>1. CASE UNCHANGED <<trigger, looks>> /\ lookClock' \in {lookClock, lookClock + 1}
  BY <1>1
<1>2. ASSUME looks' = <<>>, lookClock' = lookClock, trigger'.wait = MinWait,
             trigger' \in [wait : MinWait .. MaxWait, nextAt : Nat, highest : Int, known : Int]
      PROVE  PacedInv'
  <2>1. Len(looks') = 0 /\ looks' \in Seq(Nat)
    BY <1>2
  <2> DEFINE none == [i \in 1 .. 0 |-> MinWait]
  <2>2. none \in [1 .. Len(looks') -> MinWait .. MaxWait] /\ Paced(none, looks', trigger')
    BY <1>2, <2>1 DEF Paced
  <2> HIDE DEF none
  <2> QED
    BY <1>2, <2>1, <2>2
<1>3. CASE Updates!Boot
  BY <1>2, <1>3, FreshTrigger DEF Updates!Boot
<1>4. ASSUME NEW ok \in BOOLEAN, Updates!Fetch(ok) PROVE PacedInv'
  <2> DEFINE v == IF ok THEN Updates!registry ELSE 0
             t == Updates!Settled(v)
  <2>1. /\ trigger' = IF v = 0 THEN trigger ELSE t
        /\ looks' = IF v > 0 /\ t.nextAt = 0 THEN <<>> ELSE looks
        /\ lookClock' = lookClock
    BY <1>4 DEF Updates!Fetch
  <2>2. v \in Nat
    BY ReleaseAssumption DEF ReleasedInv, Updates!registry, Updates!Version
  <2>3. /\ t \in [wait : MinWait .. MaxWait, nextAt : Nat, highest : Int, known : Int]
        /\ \/ t.wait = MinWait /\ t.nextAt = 0 /\ v > 0
           \/ t.wait = trigger.wait /\ t.nextAt = trigger.nextAt
    <3> DEFINE known == IF Updates!onTrack(v) /\ v > updatesRunning THEN v ELSE trigger.known
    <3>1. known \in Int
      BY <2>2
    <3>2. \/ /\ trigger.highest > 0 /\ v >= trigger.highest
             /\ t = [wait |-> MinWait, nextAt |-> 0, highest |-> 0, known |-> known]
          \/ t = [trigger EXCEPT !.known = known]
      BY DEF Updates!Settled
    <3> HIDE DEF known, t, v
    <3>3. CASE trigger.highest > 0 /\ v >= trigger.highest /\ t = [wait |-> MinWait, nextAt |-> 0, highest |-> 0, known |-> known]
      BY <2>2, <3>1, <3>3, ReleaseAssumption
    <3>4. CASE t = [trigger EXCEPT !.known = known]
      BY <3>1, <3>4
    <3> QED
      BY <3>2, <3>3, <3>4
  <2> HIDE DEF t, v
  <2>4. CASE trigger' = t /\ looks' = <<>> /\ t.wait = MinWait
    BY <1>2, <2>1, <2>3, <2>4
  <2>5. CASE trigger'.wait = trigger.wait /\ trigger'.nextAt = trigger.nextAt /\ looks' = looks
    BY <2>1, <2>3, <2>5 DEF Paced
  <2> QED
    BY <2>1, <2>3, <2>4, <2>5
<1>5. ASSUME NEW v \in Updates!Version \cup {OffTrack}, Updates!PeerClaims(v), ~Updates!LooksNow PROVE PacedInv'
  <2>1. /\ trigger' = [trigger EXCEPT !.highest = IF v > trigger.highest THEN v ELSE trigger.highest]
        /\ UNCHANGED <<looks, lookClock>>
    BY <1>5 DEF Updates!PeerClaims
  <2>2. (IF v > trigger.highest THEN v ELSE trigger.highest) \in Int
    BY ReleaseAssumption DEF Updates!Version
  <2>3. /\ trigger' \in [wait : MinWait .. MaxWait, nextAt : Nat, highest : Int, known : Int]
        /\ trigger'.wait = trigger.wait /\ trigger'.nextAt = trigger.nextAt
    BY <2>1, <2>2
  <2> QED
    BY <2>1, <2>3 DEF Paced
<1>6. ASSUME NEW v \in Updates!Version \cup {OffTrack}, Updates!PeerClaims(v), Updates!LooksNow PROVE PacedInv'
  <2> DEFINE n == Len(looks)
  <2>1. /\ trigger' = [trigger EXCEPT !.highest = IF v > trigger.highest THEN v ELSE trigger.highest,
                                      !.nextAt = lookClock + trigger.wait, !.wait = Updates!Longer(@)]
        /\ looks' = Append(looks, lookClock) /\ lookClock' = lookClock
        /\ lookClock >= trigger.nextAt
    BY <1>6 DEF Updates!PeerClaims, Updates!LooksNow
  <2>2. v \in Int /\ Updates!Longer(trigger.wait) \in MinWait .. MaxWait
    BY ReleaseAssumption DEF Updates!Version, Updates!Longer
  <2>3. /\ trigger' \in [wait : MinWait .. MaxWait, nextAt : Nat, highest : Int, known : Int]
        /\ trigger'.wait = Updates!Longer(trigger.wait)
        /\ trigger'.nextAt = lookClock + trigger.wait /\ trigger'.nextAt # 0
    <3>1. (IF v > trigger.highest THEN v ELSE trigger.highest) \in Int
      BY <2>2
    <3>2. lookClock + trigger.wait \in Nat \ {0}
      BY ReleaseAssumption
    <3> QED
      BY <2>1, <2>2, <3>1, <3>2
  <2>4. /\ n \in Nat /\ looks' \in Seq(Nat) /\ Len(looks') = n + 1 /\ looks'[n + 1] = lookClock
        /\ \A i \in 1 .. n : looks'[i] = looks[i]
        /\ n = 0 <=> looks = <<>>
        /\ looks' # <<>>
    BY <2>1
  <2>5. PICK wait \in [1 .. n -> MinWait .. MaxWait] : Paced(wait, looks, trigger)
    OBVIOUS
  <2> DEFINE longer == [i \in 1 .. n + 1 |-> IF i = n + 1 THEN trigger.wait ELSE wait[i]]
  <2>6. /\ longer \in [1 .. n + 1 -> MinWait .. MaxWait] /\ longer[n + 1] = trigger.wait
        /\ \A i \in 1 .. n : longer[i] = wait[i]
    BY <2>4
  <2> HIDE DEF longer, n
  <2>7. longer[1] = MinWait
    BY <2>4, <2>5, <2>6 DEF Paced, n
  <2>8. ASSUME NEW i \in 1 .. n
        PROVE  longer[i + 1] = Updates!Longer(longer[i]) /\ looks'[i + 1] - looks'[i] >= longer[i]
    <3>1. CASE i = n
      BY <2>1, <2>4, <2>5, <2>6, <3>1 DEF Paced, n
    <3>2. CASE i # n
      <4>1. i \in 1 .. n - 1 /\ i + 1 \in 1 .. n
        BY <2>4, <3>2
      <4> QED
        BY <2>4, <2>5, <2>6, <4>1 DEF Paced, n
    <3> QED
      BY <3>1, <3>2
  <2>9. Paced(longer, looks', trigger')
    BY <2>3, <2>4, <2>6, <2>7, <2>8 DEF Paced, Updates!Longer
  <2> QED
    BY <2>1, <2>3, <2>4, <2>6, <2>9 DEF PacedInv
<1> QED
  BY <1>1, <1>3, <1>4, <1>5, <1>6
     DEF Updates!Next, Updates!releaseVars, Updates!Publish, Updates!MoveTag, Updates!Pass, Updates!Poll, Updates!SelfHeal,
         Updates!Prepare, Updates!GraceEnds, Updates!Lock, Updates!Unlink, Updates!NpmEnds, Updates!Decide, Updates!Exits,
         Updates!Detach, Updates!LauncherGoes, Updates!ParentDeath, Updates!OtherInstalls, Updates!OtherDies,
         Updates!OtherEnds


\* An exit that leaves the restart to an owner is decided while there is one, and only a detach takes it away.
OwnerInv ==
  /\ owner \in [kind : {"launcher", "pm2", "nobody"}, alive : BOOLEAN, detached : BOOLEAN]
  /\ stage = "closing" /\ mode = "exit" => Updates!Owned \/ lateDetach
  /\ Updates!NotStranded

LEMMA OwnerNext == OwnerInv /\ [Updates!Next]_(Updates!releaseVars) => OwnerInv'
<1> SUFFICES ASSUME OwnerInv, [Updates!Next]_(Updates!releaseVars) PROVE OwnerInv'
  OBVIOUS
<1> USE DEF OwnerInv, Updates!NotStranded, Updates!Owned
<1>1. CASE UNCHANGED <<owner, stranded, lateDetach>> /\ (stage' # "closing" \/ UNCHANGED <<stage, mode>>)
  BY <1>1
<1>2. CASE Updates!Decide
  BY <1>2 DEF Updates!Decide, Updates!RestartMode
<1>3. CASE Updates!Exits
  BY <1>3 DEF Updates!Exits
<1>4. CASE Updates!Boot
  BY <1>4 DEF Updates!Boot
<1>5. CASE Updates!Detach
  <2>1. owner' \in [kind : {"launcher", "pm2", "nobody"}, alive : BOOLEAN, detached : BOOLEAN]
    BY <1>5 DEF Updates!Detach
  <2> QED
    BY <1>5, <2>1 DEF Updates!Detach
<1>6. CASE Updates!LauncherGoes
  <2>1. owner' \in [kind : {"launcher", "pm2", "nobody"}, alive : BOOLEAN, detached : BOOLEAN]
    BY <1>6 DEF Updates!LauncherGoes
  <2>2. owner'.kind = owner.kind /\ owner'.detached = owner.detached
    BY <1>6 DEF Updates!LauncherGoes
  <2> QED
    BY <1>6, <2>1, <2>2 DEF Updates!LauncherGoes
<1>7. CASE Updates!Publish \/ Updates!MoveTag \/ Updates!Pass \/ Updates!Poll \/ Updates!GraceEnds \/ UNCHANGED Updates!releaseVars
  BY <1>1, <1>7 DEF Updates!Publish, Updates!MoveTag, Updates!Pass, Updates!Poll, Updates!GraceEnds, Updates!releaseVars
<1>8. CASE \/ \E v \in Updates!Version \cup {OffTrack} : Updates!PeerClaims(v)
           \/ \E ok \in BOOLEAN : Updates!Fetch(ok) \/ Updates!SelfHeal(ok)
  BY <1>1, <1>8 DEF Updates!PeerClaims, Updates!Fetch, Updates!SelfHeal
<1>9. CASE Updates!Prepare \/ Updates!Lock \/ Updates!Unlink \/ \E t \in Updates!Version \cup {Updates!Mixed} : Updates!NpmEnds(t)
  BY <1>1, <1>9 DEF Updates!Prepare, Updates!Lock, Updates!Unlink, Updates!NpmEnds
<1>10. CASE Updates!ParentDeath \/ Updates!OtherInstalls \/ Updates!OtherDies \/ Updates!OtherEnds
  BY <1>1, <1>10 DEF Updates!ParentDeath, Updates!OtherInstalls, Updates!OtherDies, Updates!OtherEnds
<1> QED
  BY <1>2, <1>3, <1>4, <1>5, <1>6, <1>7, <1>8, <1>9, <1>10 DEF Updates!Next

\* The lock names whoever runs npm, until a live one is unlinked.
NpmInv == npmRaced \in BOOLEAN /\ (npmRaced \/ ((stage = "npm" => npmLock = "node") /\ (otherAt = "npm" => npmLock = "other")))

LEMMA NpmNext == NpmInv /\ [Updates!Next]_(Updates!releaseVars) => NpmInv'
<1> SUFFICES ASSUME NpmInv, [Updates!Next]_(Updates!releaseVars) PROVE NpmInv'
  OBVIOUS
<1> USE DEF NpmInv
<1>1. CASE UNCHANGED <<npmRaced, npmLock, otherAt>> /\ (stage' # "npm" \/ UNCHANGED stage)
  BY <1>1
<1>2. CASE Updates!Lock
  BY <1>2 DEF Updates!Lock
<1>3. CASE Updates!Unlink
  BY <1>3 DEF Updates!Unlink
<1>4. ASSUME NEW t, Updates!NpmEnds(t) PROVE NpmInv'
  BY <1>4 DEF Updates!NpmEnds
<1>5. CASE Updates!ParentDeath
  BY <1>5 DEF Updates!ParentDeath
<1>6. CASE Updates!OtherInstalls
  BY <1>6 DEF Updates!OtherInstalls
<1>7. CASE Updates!OtherDies
  BY <1>7 DEF Updates!OtherDies
<1>8. CASE Updates!OtherEnds
  BY <1>8 DEF Updates!OtherEnds
<1>9. CASE Updates!Publish \/ Updates!MoveTag \/ Updates!Pass \/ Updates!Poll \/ Updates!GraceEnds \/ UNCHANGED Updates!releaseVars
  BY <1>1, <1>9 DEF Updates!Publish, Updates!MoveTag, Updates!Pass, Updates!Poll, Updates!GraceEnds, Updates!releaseVars
<1>10. CASE \/ \E v \in Updates!Version \cup {OffTrack} : Updates!PeerClaims(v)
            \/ \E ok \in BOOLEAN : Updates!Fetch(ok) \/ Updates!SelfHeal(ok)
  BY <1>1, <1>10 DEF Updates!PeerClaims, Updates!Fetch, Updates!SelfHeal
<1>11. CASE Updates!Prepare \/ Updates!Decide \/ Updates!Exits \/ Updates!Boot \/ Updates!Detach \/ Updates!LauncherGoes
  BY <1>1, <1>11 DEF Updates!Prepare, Updates!Decide, Updates!Exits, Updates!Boot, Updates!Detach, Updates!LauncherGoes
<1> QED
  BY <1>2, <1>3, <1>4, <1>5, <1>6, <1>7, <1>8, <1>9, <1>10, <1>11 DEF Updates!Next

\* A node runs only what was released on its track, its looks for unconfirmed claims thin out, no update leaves
\* it down with nobody to start it, and one npm at a time writes the installation (startOta, PeerReleaseTrigger,
\* otaRestartMode and acquireInstallLock).
THEOREM UpdatesSoundHolds == Spec => []UpdatesSound
<1> DEFINE UpdatesInv == ReleasedInv /\ PacedInv /\ OwnerInv /\ NpmInv
<1>1. Updates!Init => UpdatesInv
  <2>1. Updates!Init => OwnerInv /\ NpmInv
    BY DEF Updates!Init, OwnerInv, NpmInv, Updates!NotStranded
  <2> QED
    BY <2>1, ReleasedInit, PacedInit
<1>2. UpdatesInv /\ [Updates!Next]_(Updates!releaseVars) => UpdatesInv'
  BY ReleasedNext, PacedNext, OwnerNext, NpmNext
<1>3. UpdatesInv => UpdatesSound
  <2>1. PacedInv => Updates!LooksThinOut
    BY DEF PacedInv, Paced, Updates!LooksThinOut
  <2> QED
    BY <2>1 DEF ReleasedInv, OwnerInv, NpmInv, Updates!OneNpm, UpdatesSound
<1> QED
  BY <1>1, <1>2, <1>3, UpdatesPart, PTL DEF Updates!ReleaseSpec


----------------------------------------------------------------------------
(* The tiers of the mempool                                                 *)

LEMMA PoolPart == Spec => Pool!TierSpec
<1>1. Init => Pool!Init
  BY DEF Init
<1>2. [Next]_vars => [Pool!Next]_(Pool!tierVars)
  BY DEF Next, vars, tiersVars, Pool!tierVars
<1> QED
  BY <1>1, <1>2, PTL DEF Spec, Pool!TierSpec

TaskState == {"none", "open", "complete"}
TaskWrite == [l : Leader, t : Tx, val : TaskState]

TiersTyped ==
  /\ tasks \in [Leader -> [Tx -> TaskState]] /\ taskRow \in [Leader -> [Tx -> TaskState]]
  /\ byTx \in [Tx -> SUBSET Leader]
  /\ writes \in Seq(TaskWrite)
  /\ txAt \in [Tx -> Int] /\ tiersNow \in Nat
  /\ rawTx \subseteq Tx /\ processingTx \subseteq Tx /\ txRow \subseteq Tx

\* No write on its way is of this task.
Untouched(ws, l, t) == \A i \in 1 .. Len(ws) : ~(ws[i].l = l /\ ws[i].t = t)

\* What the rows will be once the writes have ended: a task no write is of has its row, and the last write
\* of any other is what the task is.
WillFollow(ws, row, ts) ==
  \A l \in Leader, t \in Tx :
    /\ Untouched(ws, l, t) => row[l][t] = ts[l][t]
    /\ \A i \in 1 .. Len(ws) :
         /\ ws[i].l = l /\ ws[i].t = t
         /\ \A j \in i + 1 .. Len(ws) : ~(ws[j].l = l /\ ws[j].t = t)
         => ws[i].val = ts[l][t]

TiersInv == TiersTyped /\ Pool!TasksOfPooled /\ Pool!OneTier /\ Pool!LocksFollow /\ WillFollow(writes, taskRow, tasks)

LEMMA PoolCardinality == \A S : Pool!Cardinality(S) = Cardinality(S)
BY DEF Cardinality, Pool!Cardinality

\* A transaction's tasks are persisted with one write for each leader.
LEMMA PersistAllWrites ==
  ASSUME NEW t \in Tx, NEW after \in [Leader -> [Tx -> TaskState]]
  PROVE  LET ws == Pool!PersistAll(t, after)
         IN  /\ ws \in Seq(TaskWrite)
             /\ \A i \in 1 .. Len(ws) : ws[i].t = t /\ ws[i].val = after[ws[i].l][t]
             /\ \A l \in Leader : \E i \in 1 .. Len(ws) : ws[i].l = l
<1> DEFINE n == Cardinality(Leader)
           ls == CHOOSE s \in [1 .. n -> Leader] : \A a, b \in DOMAIN s : a # b => s[a] # s[b]
           ws == [i \in 1 .. n |-> [l |-> ls[i], t |-> t, val |-> after[ls[i]][t]]]
<1>1. n \in Nat /\ ExistsBijection(1 .. n, Leader)
  BY FS_CardinalityType, LeaderAssumption
<1>2. \E s \in [1 .. n -> Leader] : \A a, b \in DOMAIN s : a # b => s[a] # s[b]
  <2>1. PICK s \in Bijection(1 .. n, Leader) : TRUE
    BY <1>1 DEF ExistsBijection
  <2> HIDE DEF n
  <2> QED
    BY <2>1 DEF Bijection, Injection, IsInjective
<1>3. ls \in [1 .. n -> Leader] /\ \A a, b \in DOMAIN ls : a # b => ls[a] # ls[b]
  BY <1>2
<1>4. Pool!PersistAll(t, after) = ws
  <2>1. DOMAIN ls = 1 .. n
    BY <1>3
  <2>2. Pool!PersistAll(t, after) = [i \in DOMAIN ls |-> [l |-> ls[i], t |-> t, val |-> after[ls[i]][t]]]
    BY PoolCardinality, Zenon DEF Pool!PersistAll
  <2> HIDE DEF ls
  <2> QED
    BY <2>1, <2>2
<1> HIDE DEF ls
<1>5. ls \in Injection(1 .. n, Leader)
  <2> HIDE DEF n
  <2> QED
    BY <1>3 DEF Injection, IsInjective
<1>6. IsFiniteSet(1 .. n) /\ Cardinality(1 .. n) = n
  BY <1>1, FS_Interval
<1> HIDE DEF n
<1>7. ls \in Surjection(1 .. n, Leader)
  BY <1>5, <1>6, FS_Injection, LeaderAssumption DEF n
<1>8. /\ ws \in Seq(TaskWrite) /\ Len(ws) = n
      /\ \A i \in 1 .. n : ws[i].l = ls[i] /\ ws[i].t = t /\ ws[i].val = after[ls[i]][t]
  BY <1>1, <1>3 DEF TaskWrite
<1> HIDE DEF ws
<1>9. \A l \in Leader : \E i \in 1 .. n : ls[i] = l
  BY <1>7 DEF Surjection
<1> QED
  BY <1>4, <1>8, <1>9

\* Writes that bring the rows to other tasks are put behind those that bring them to the old ones.
LEMMA WritesBehind ==
  ASSUME NEW ws \in Seq(TaskWrite), NEW us \in Seq(TaskWrite), NEW row, NEW ts, NEW after,
         WillFollow(ws, row, ts),
         \A i \in 1 .. Len(us) : us[i].val = after[us[i].l][us[i].t],
         \A l \in Leader, t \in Tx : Untouched(us, l, t) => after[l][t] = ts[l][t]
  PROVE  ws \o us \in Seq(TaskWrite) /\ WillFollow(ws \o us, row, after)
<1> DEFINE all == ws \o us
           m == Len(ws)
           n == Len(us)
<1>1. /\ all \in Seq(TaskWrite) /\ m \in Nat /\ n \in Nat /\ Len(all) = m + n
      /\ \A i \in 1 .. m : all[i] = ws[i]
      /\ \A i \in 1 .. n : all[m + i] = us[i]
  OBVIOUS
<1> HIDE DEF all
<1> SUFFICES ASSUME NEW l \in Leader, NEW t \in Tx
             PROVE  /\ Untouched(all, l, t) => row[l][t] = after[l][t]
                    /\ \A i \in 1 .. Len(all) :
                         /\ all[i].l = l /\ all[i].t = t
                         /\ \A j \in i + 1 .. Len(all) : ~(all[j].l = l /\ all[j].t = t)
                         => all[i].val = after[l][t]
  BY <1>1 DEF WillFollow, all
<1>2. ASSUME NEW i \in 1 .. n PROVE m + i \in 1 .. Len(all) /\ all[m + i] = us[i]
  BY <1>1
<1>3. ASSUME NEW i \in 1 .. m PROVE i \in 1 .. Len(all) /\ all[i] = ws[i]
  BY <1>1
<1>4. ASSUME Untouched(all, l, t) PROVE row[l][t] = after[l][t]
  <2>1. Untouched(us, l, t)
    BY <1>2, <1>4 DEF Untouched
  <2>2. Untouched(ws, l, t)
    BY <1>3, <1>4 DEF Untouched
  <2> QED
    BY <2>1, <2>2 DEF WillFollow
<1>5. ASSUME NEW i \in 1 .. Len(all), all[i].l = l, all[i].t = t,
             \A j \in i + 1 .. Len(all) : ~(all[j].l = l /\ all[j].t = t)
      PROVE  all[i].val = after[l][t]
  <2>1. CASE i \in 1 .. m
    <3>1. Untouched(us, l, t)
      <4> SUFFICES ASSUME NEW k \in 1 .. n, us[k].l = l, us[k].t = t PROVE FALSE
        BY DEF Untouched
      <4>1. m + k \in i + 1 .. Len(all) /\ all[m + k] = us[k]
        BY <1>1, <2>1
      <4> QED
        BY <1>5, <4>1
    <3>2. \A j \in i + 1 .. m : ~(ws[j].l = l /\ ws[j].t = t)
      <4> SUFFICES ASSUME NEW j \in i + 1 .. m, ws[j].l = l, ws[j].t = t PROVE FALSE
        OBVIOUS
      <4>1. j \in i + 1 .. Len(all) /\ all[j] = ws[j]
        BY <1>1, <2>1
      <4> QED
        BY <1>5, <4>1
    <3>3. ws[i].l = l /\ ws[i].t = t /\ all[i].val = ws[i].val
      BY <1>3, <1>5, <2>1
    <3>4. ws[i].val = ts[l][t]
      BY <2>1, <3>2, <3>3 DEF WillFollow
    <3> QED
      BY <3>1, <3>3, <3>4
  <2>2. CASE i \notin 1 .. m
    <3>1. i - m \in 1 .. n /\ all[i] = us[i - m]
      <4>1. i - m \in 1 .. n /\ m + (i - m) = i
        BY <1>1, <2>2
      <4> QED
        BY <1>2, <4>1
    <3> QED
      BY <1>5, <3>1
  <2> QED
    BY <2>1, <2>2
<1> QED
  BY <1>4, <1>5

\* The oldest write done, the others still lead to the same tasks.
LEMMA OldestWritten ==
  ASSUME NEW ws \in Seq(TaskWrite), NEW row \in [Leader -> [Tx -> TaskState]], NEW ts, ws # <<>>, WillFollow(ws, row, ts)
  PROVE  /\ Tail(ws) \in Seq(TaskWrite)
         /\ [row EXCEPT ![Head(ws).l][Head(ws).t] = Head(ws).val] \in [Leader -> [Tx -> TaskState]]
         /\ WillFollow(Tail(ws), [row EXCEPT ![Head(ws).l][Head(ws).t] = Head(ws).val], ts)
<1> DEFINE w == ws[1]
           rest == Tail(ws)
           n == Len(rest)
           done == [row EXCEPT ![Head(ws).l][Head(ws).t] = Head(ws).val]
<1>1. /\ rest \in Seq(TaskWrite) /\ n \in Nat /\ Len(ws) = n + 1 /\ Head(ws) = w
      /\ w \in TaskWrite
      /\ \A i \in 1 .. n : i + 1 \in 1 .. Len(ws) /\ rest[i] = ws[i + 1]
  OBVIOUS
<1>2. w.l \in Leader /\ w.t \in Tx /\ w.val \in TaskState
  BY <1>1 DEF TaskWrite
<1>3. /\ done \in [Leader -> [Tx -> TaskState]]
      /\ \A l \in Leader, t \in Tx : done[l][t] = IF l = w.l /\ t = w.t THEN w.val ELSE row[l][t]
  <2> HIDE DEF w, rest
  <2> QED
    BY <1>1, <1>2
<1> HIDE DEF done, rest, w
<1> SUFFICES ASSUME NEW l \in Leader, NEW t \in Tx
             PROVE  /\ Untouched(rest, l, t) => done[l][t] = ts[l][t]
                    /\ \A i \in 1 .. n :
                         /\ rest[i].l = l /\ rest[i].t = t
                         /\ \A j \in i + 1 .. n : ~(rest[j].l = l /\ rest[j].t = t)
                         => rest[i].val = ts[l][t]
  <2>1. WillFollow(rest, done, ts)
    BY DEF WillFollow
  <2> QED
    BY <1>1, <1>3, <2>1 DEF rest, done
<1>4. ASSUME Untouched(rest, l, t) PROVE done[l][t] = ts[l][t]
  <2>1. \A j \in 2 .. Len(ws) : ~(ws[j].l = l /\ ws[j].t = t)
    <3> SUFFICES ASSUME NEW j \in 2 .. Len(ws), ws[j].l = l, ws[j].t = t PROVE FALSE
      OBVIOUS
    <3>1. j - 1 \in 1 .. n /\ rest[j - 1] = ws[j]
      BY <1>1
    <3> QED
      BY <1>4, <3>1 DEF Untouched
  <2>2. CASE w.l = l /\ w.t = t
    <3>1. 1 \in 1 .. Len(ws) /\ 1 + 1 = 2
      BY <1>1
    <3>2. w.val = ts[l][t]
      BY <2>1, <2>2, <3>1 DEF WillFollow, w
    <3> QED
      BY <1>3, <2>2, <3>2
  <2>3. CASE ~(w.l = l /\ w.t = t)
    <3>1. Untouched(ws, l, t)
      <4> SUFFICES ASSUME NEW j \in 1 .. Len(ws), ws[j].l = l, ws[j].t = t PROVE FALSE
        BY DEF Untouched
      <4>1. j = 1 \/ j \in 2 .. Len(ws)
        BY <1>1
      <4> QED
        BY <2>1, <2>3, <4>1 DEF w
    <3> QED
      BY <1>3, <2>3, <3>1 DEF WillFollow
  <2> QED
    BY <2>2, <2>3
<1>5. ASSUME NEW i \in 1 .. n, rest[i].l = l, rest[i].t = t, \A j \in i + 1 .. n : ~(rest[j].l = l /\ rest[j].t = t)
      PROVE  rest[i].val = ts[l][t]
  <2>1. \A j \in i + 2 .. Len(ws) : ~(ws[j].l = l /\ ws[j].t = t)
    <3> SUFFICES ASSUME NEW j \in i + 2 .. Len(ws), ws[j].l = l, ws[j].t = t PROVE FALSE
      OBVIOUS
    <3>1. j - 1 \in i + 1 .. n /\ j - 1 \in 1 .. n /\ (j - 1) + 1 = j
      BY <1>1
    <3> QED
      BY <1>1, <1>5, <3>1
  <2>2. i + 1 \in 1 .. Len(ws) /\ (i + 1) + 1 = i + 2 /\ rest[i] = ws[i + 1]
    BY <1>1
  <2> QED
    BY <1>5, <2>1, <2>2 DEF WillFollow
<1> QED
  BY <1>4, <1>5


\* The writes of one transaction's tasks go behind the others, and the tasks of that transaction alone have changed.
LEMMA PersistedBehind ==
  ASSUME TiersInv, NEW t \in Tx, NEW after \in [Leader -> [Tx -> TaskState]], NEW next,
         \A l \in Leader : next[l][t] = after[l][t] /\ \A o \in Tx \ {t} : next[l][o] = tasks[l][o]
  PROVE  /\ writes \o Pool!PersistAll(t, after) \in Seq(TaskWrite)
         /\ WillFollow(writes \o Pool!PersistAll(t, after), taskRow, next)
<1> DEFINE us == Pool!PersistAll(t, after)
<1>1. /\ us \in Seq(TaskWrite)
      /\ \A i \in 1 .. Len(us) : us[i].t = t /\ us[i].val = after[us[i].l][t]
      /\ \A l \in Leader : \E i \in 1 .. Len(us) : us[i].l = l
  BY PersistAllWrites
<1> HIDE DEF us
<1>2. \A i \in 1 .. Len(us) : us[i].l \in Leader
  <2>1. \A i \in 1 .. Len(us) : us[i] \in TaskWrite
    BY <1>1
  <2> QED
    BY <2>1 DEF TaskWrite
<1>3. \A i \in 1 .. Len(us) : us[i].val = next[us[i].l][us[i].t]
  BY <1>1, <1>2
<1>4. ASSUME NEW l \in Leader, NEW o \in Tx, Untouched(us, l, o) PROVE next[l][o] = tasks[l][o]
  BY <1>1, <1>4 DEF Untouched
<1>5. writes \in Seq(TaskWrite) /\ WillFollow(writes, taskRow, tasks)
  BY DEF TiersInv, TiersTyped
<1>6. writes \o us \in Seq(TaskWrite) /\ WillFollow(writes \o us, taskRow, next)
  BY <1>1, <1>3, <1>4, <1>5, WritesBehind
<1> QED
  BY <1>6 DEF us

\* Submission indexes the transaction's tasks for every lead.
LEMMA IndexedTasks ==
  ASSUME TiersInv, NEW t \in Tx
  PROVE  /\ Pool!Indexed(t) \in [Leader -> [Tx -> TaskState]]
         /\ \A l \in Leader : /\ Pool!Indexed(t)[l][t] # "none"
                              /\ \A o \in Tx \ {t} : Pool!Indexed(t)[l][o] = tasks[l][o]
BY DEF Pool!Indexed, Pool!NoTask, TiersInv, TiersTyped, TaskState

\* What leaves the raw pool leaves both indexes.
LEMMA ClearedTasks ==
  ASSUME TiersInv, NEW t \in Tx, Pool!clearTasksForRawTx(t)
  PROVE  /\ tasks' \in [Leader -> [Tx -> TaskState]] /\ byTx' \in [Tx -> SUBSET Leader]
         /\ \A l \in Leader : tasks'[l][t] = "none" /\ \A o \in Tx \ {t} : tasks'[l][o] = tasks[l][o]
         /\ byTx'[t] = {} /\ \A o \in Tx \ {t} : byTx'[o] = byTx[o]
         /\ writes' \in Seq(TaskWrite) /\ WillFollow(writes', taskRow, tasks')
<1>1. /\ tasks' = [l \in Leader |-> [tasks[l] EXCEPT ![t] = "none"]]
      /\ byTx' = [byTx EXCEPT ![t] = {}]
      /\ writes' = writes \o Pool!PersistAll(t, Pool!NoTasks)
  BY DEF Pool!clearTasksForRawTx, Pool!Forget, Pool!NoTask
<1>2. /\ tasks' \in [Leader -> [Tx -> TaskState]] /\ byTx' \in [Tx -> SUBSET Leader]
      /\ \A l \in Leader : tasks'[l][t] = "none" /\ \A o \in Tx \ {t} : tasks'[l][o] = tasks[l][o]
      /\ byTx'[t] = {} /\ \A o \in Tx \ {t} : byTx'[o] = byTx[o]
  BY <1>1 DEF TiersInv, TiersTyped, TaskState
<1>3. /\ Pool!NoTasks \in [Leader -> [Tx -> TaskState]]
      /\ \A l \in Leader : Pool!NoTasks[l][t] = "none"
  BY DEF Pool!NoTasks, Pool!NoTask, TaskState
<1>4. \A l \in Leader : tasks'[l][t] = Pool!NoTasks[l][t] /\ \A o \in Tx \ {t} : tasks'[l][o] = tasks[l][o]
  BY <1>2, <1>3
<1>5. /\ writes \o Pool!PersistAll(t, Pool!NoTasks) \in Seq(TaskWrite)
      /\ WillFollow(writes \o Pool!PersistAll(t, Pool!NoTasks), taskRow, tasks')
  BY <1>3, <1>4, PersistedBehind, Zenon
<1> QED
  BY <1>1, <1>2, <1>5, Zenon

LEMMA TiersInit == Pool!Init => TiersInv
<1> SUFFICES ASSUME Pool!Init PROVE TiersInv
  OBVIOUS
<1> USE DEF Pool!Init
<1>1. TiersTyped
  BY DEF TiersTyped, Pool!NoTasks, Pool!NoTask, Pool!NoTime, TaskState, TaskWrite
<1>2. Pool!TasksOfPooled /\ Pool!OneTier /\ Pool!LocksFollow
  <2>1. Pool!TasksOfPooled
    BY DEF Pool!TasksOfPooled, Pool!NoTasks, Pool!NoTask
  <2>2. Pool!OneTier /\ Pool!LocksFollow
    BY DEF Pool!OneTier, Pool!LocksFollow, Pool!InFlight, Pool!NoTime
  <2> QED
    BY <2>1, <2>2
<1>3. WillFollow(writes, taskRow, tasks)
  BY DEF WillFollow, Untouched
<1> QED
  BY <1>1, <1>2, <1>3 DEF TiersInv

LEMMA SubmitKeeps == ASSUME TiersInv, NEW t \in Tx, Pool!Submit(t) PROVE TiersInv'
<1>1. /\ tasks' = Pool!Indexed(t) /\ byTx' = [byTx EXCEPT ![t] = Leader]
      /\ writes' = writes \o Pool!PersistAll(t, Pool!Indexed(t))
      /\ UNCHANGED <<taskRow, processingTx, txAt, txRow, tiersNow, unlockedEarly>>
      /\ t \notin processingTx /\ txAt[t] = Pool!NoTime
      /\ lockedUtxo' = lockedUtxo \cup {Sender[t]} /\ lockRow' = lockedUtxo'
      /\ \/ rawTx' = rawTx /\ rawRow' = rawRow /\ stray' = stray \cup {t} /\ leaked' = leaked \cup {Sender[t]}
         \/ rawTx' = rawTx \cup {t} /\ rawRow' = rawRow \cup {t} /\ stray' = stray \ {t} /\ leaked' = leaked
  BY DEF Pool!Submit, Pool!Lock, Pool!_saveRawTx
<1>2. writes' \in Seq(TaskWrite) /\ WillFollow(writes', taskRow', tasks')
  BY <1>1, IndexedTasks, PersistedBehind
<1>3. TiersTyped'
  BY <1>1, <1>2, IndexedTasks DEF TiersInv, TiersTyped
<1>4. Pool!TasksOfPooled'
  BY <1>1, IndexedTasks DEF TiersInv, TiersTyped, Pool!TasksOfPooled, Pool!NoTask
<1>5. Pool!OneTier'
  BY <1>1 DEF TiersInv, TiersTyped, Pool!OneTier, Pool!InFlight
<1>6. Pool!LocksFollow'
  BY <1>1 DEF TiersInv, Pool!LocksFollow, Pool!InFlight
<1> QED
  BY <1>2, <1>3, <1>4, <1>5, <1>6 DEF TiersInv

LEMMA MoveKeeps == ASSUME TiersInv, NEW t \in Tx, Pool!Move(t) PROVE TiersInv'
<1>1. /\ Pool!clearTasksForRawTx(t) /\ t \in rawTx
      /\ rawTx' = rawTx \ {t} /\ rawRow' = rawRow \ {t}
      /\ UNCHANGED <<taskRow, txAt, txRow, tiersNow, leaked, stray>>
      /\ \/ processingTx' = processingTx \cup {t} /\ UNCHANGED <<lockedUtxo, lockRow, unlockedEarly>>
         \/ /\ lockedUtxo' = lockedUtxo \ {Sender[t]} /\ lockRow' = lockedUtxo'
            /\ unlockedEarly' = unlockedEarly \cup {Sender[t]} /\ processingTx' = processingTx
  BY DEF Pool!Move, Pool!Unlock, Pool!_deleteRawTx
<1>2. WillFollow(writes', taskRow', tasks')
  BY <1>1, ClearedTasks
<1>3. TiersTyped'
  BY <1>1, ClearedTasks DEF TiersInv, TiersTyped
<1>4. Pool!TasksOfPooled'
  BY <1>1, ClearedTasks DEF TiersInv, Pool!TasksOfPooled, Pool!NoTask
<1>5. Pool!OneTier'
  BY <1>1 DEF TiersInv, TiersTyped, Pool!OneTier, Pool!InFlight
<1>6. Pool!LocksFollow'
  BY <1>1 DEF TiersInv, Pool!LocksFollow, Pool!InFlight
<1> QED
  BY <1>2, <1>3, <1>4, <1>5, <1>6 DEF TiersInv

LEMMA EvictKeeps == ASSUME TiersInv, NEW t \in Tx, Pool!Evict(t) PROVE TiersInv'
<1>1. /\ Pool!clearTasksForRawTx(t) /\ t \in rawTx
      /\ rawTx' = rawTx \ {t} /\ rawRow' = rawRow \ {t} /\ leaked' = leaked \cup {Sender[t]}
      /\ UNCHANGED <<taskRow, txAt, txRow, tiersNow, stray, lockedUtxo, lockRow, processingTx, unlockedEarly>>
  BY DEF Pool!Evict, Pool!_deleteRawTx
<1>2. WillFollow(writes', taskRow', tasks')
  BY <1>1, ClearedTasks
<1>3. TiersTyped'
  BY <1>1, ClearedTasks DEF TiersInv, TiersTyped
<1>4. Pool!TasksOfPooled'
  BY <1>1, ClearedTasks DEF TiersInv, Pool!TasksOfPooled, Pool!NoTask
<1>5. Pool!OneTier'
  BY <1>1 DEF TiersInv, TiersTyped, Pool!OneTier, Pool!InFlight
<1>6. Pool!LocksFollow'
  BY <1>1 DEF TiersInv, Pool!LocksFollow, Pool!InFlight
<1> QED
  BY <1>2, <1>3, <1>4, <1>5, <1>6 DEF TiersInv


LEMMA CompleteKeeps == ASSUME TiersInv, NEW l \in Leader, NEW t \in Tx, Pool!completeTask(l, t) PROVE TiersInv'
<1> DEFINE w == [l |-> l, t |-> t, val |-> "complete"]
<1>1. /\ tasks' = [tasks EXCEPT ![l][t] = "complete"] /\ writes' = Append(writes, w) /\ tasks[l][t] = "open"
      /\ UNCHANGED <<rawTx, rawRow, byTx, taskRow, lockedUtxo, lockRow, processingTx, txAt, txRow, tiersNow, unlockedEarly,
                     leaked, stray>>
  BY DEF Pool!completeTask
<1>2. w \in TaskWrite /\ w.l = l /\ w.t = t /\ w.val = "complete"
  BY DEF TaskWrite, TaskState
<1> HIDE DEF w
<1>3. /\ tasks' \in [Leader -> [Tx -> TaskState]] /\ tasks'[l][t] = "complete"
      /\ \A k \in Leader, o \in Tx : ~(k = l /\ o = t) => tasks'[k][o] = tasks[k][o]
  BY <1>1 DEF TiersInv, TiersTyped, TaskState
<1>4. writes' \in Seq(TaskWrite) /\ WillFollow(writes', taskRow', tasks')
  <2> DEFINE us == <<w>>
  <2>1. us \in Seq(TaskWrite) /\ Len(us) = 1 /\ us[1] = w
    BY <1>2
  <2>2. writes \in Seq(TaskWrite) /\ WillFollow(writes, taskRow, tasks) /\ writes' = writes \o us
    BY <1>1, <1>2 DEF TiersInv, TiersTyped
  <2> HIDE DEF us
  <2>3. \A i \in 1 .. Len(us) : us[i].val = tasks'[us[i].l][us[i].t]
    BY <1>2, <1>3, <2>1
  <2>4. \A k \in Leader, o \in Tx : Untouched(us, k, o) => tasks'[k][o] = tasks[k][o]
    BY <1>2, <1>3, <2>1 DEF Untouched
  <2>5. writes \o us \in Seq(TaskWrite) /\ WillFollow(writes \o us, taskRow, tasks')
    BY <2>1, <2>2, <2>3, <2>4, WritesBehind
  <2> QED
    BY <1>1, <2>2, <2>5, Zenon
<1>5. TiersTyped'
  BY <1>1, <1>3, <1>4 DEF TiersInv, TiersTyped
<1>6. Pool!TasksOfPooled'
  <2>1. \A k \in Leader, o \in Tx : tasks'[k][o] # "none" <=> tasks[k][o] # "none"
    BY <1>1, <1>3
  <2> QED
    BY <1>1, <2>1 DEF TiersInv, Pool!TasksOfPooled, Pool!NoTask
<1>7. Pool!OneTier' /\ Pool!LocksFollow'
  BY <1>1 DEF TiersInv, Pool!OneTier, Pool!LocksFollow, Pool!InFlight
<1> QED
  BY <1>4, <1>5, <1>6, <1>7 DEF TiersInv

LEMMA FinalizeKeeps == ASSUME TiersInv, NEW t \in Tx, Pool!Finalize(t) PROVE TiersInv'
<1>1. /\ txAt' = [txAt EXCEPT ![t] = tiersNow] /\ txRow' = txRow \cup {t} /\ processingTx' = processingTx \ {t}
      /\ lockedUtxo' = lockedUtxo \ {Sender[t]} /\ lockRow' = lockedUtxo' /\ unlockedEarly' = unlockedEarly \cup {Sender[t]}
      /\ UNCHANGED <<rawTx, rawRow, tasks, byTx, taskRow, writes, tiersNow, leaked, stray>> /\ t \in processingTx
  BY DEF Pool!Finalize, Pool!Unlock, Pool!_saveTx
<1>2. TiersTyped'
  BY <1>1 DEF TiersInv, TiersTyped
<1>3. Pool!TasksOfPooled' /\ WillFollow(writes', taskRow', tasks')
  BY <1>1 DEF TiersInv, Pool!TasksOfPooled
<1>4. Pool!OneTier'
  <2>1. txAt'[t] = tiersNow /\ tiersNow # Pool!NoTime /\ \A o \in Tx \ {t} : txAt'[o] = txAt[o]
    BY <1>1 DEF TiersInv, TiersTyped, Pool!NoTime
  <2> QED
    BY <1>1, <2>1 DEF TiersInv, TiersTyped, Pool!OneTier, Pool!InFlight
<1>5. Pool!LocksFollow'
  BY <1>1 DEF TiersInv, Pool!LocksFollow, Pool!InFlight
<1> QED
  BY <1>2, <1>3, <1>4, <1>5 DEF TiersInv

LEMMA SweepKeeps == ASSUME TiersInv, Pool!Sweep PROVE TiersInv'
<1>1. PICK old \in SUBSET Tx :
        /\ txAt' = [t \in Tx |-> IF t \in old THEN Pool!NoTime ELSE txAt[t]] /\ txRow' = txRow \ old
        /\ UNCHANGED <<rawTx, rawRow, tasks, byTx, taskRow, writes, lockedUtxo, lockRow, processingTx, tiersNow, unlockedEarly,
                       leaked, stray>>
  BY DEF Pool!Sweep
<1>2. TiersTyped'
  BY <1>1 DEF TiersInv, TiersTyped, Pool!NoTime
<1>3. Pool!TasksOfPooled' /\ WillFollow(writes', taskRow', tasks') /\ Pool!LocksFollow'
  BY <1>1 DEF TiersInv, Pool!TasksOfPooled, Pool!LocksFollow, Pool!InFlight
<1>4. Pool!OneTier'
  BY <1>1 DEF TiersInv, TiersTyped, Pool!OneTier, Pool!InFlight
<1> QED
  BY <1>2, <1>3, <1>4 DEF TiersInv

LEMMA FlushKeeps == ASSUME TiersInv, Pool!Flush PROVE TiersInv'
<1>1. /\ writes # <<>> /\ writes' = Tail(writes)
      /\ taskRow' = [taskRow EXCEPT ![Head(writes).l][Head(writes).t] = Head(writes).val]
      /\ UNCHANGED <<rawTx, rawRow, tasks, byTx, lockedUtxo, lockRow, processingTx, txAt, txRow, tiersNow, unlockedEarly,
                     leaked, stray>>
  BY DEF Pool!Flush
<1>2. writes' \in Seq(TaskWrite) /\ taskRow' \in [Leader -> [Tx -> TaskState]] /\ WillFollow(writes', taskRow', tasks)
  BY <1>1, OldestWritten DEF TiersInv, TiersTyped
<1>3. TiersTyped'
  BY <1>1, <1>2 DEF TiersInv, TiersTyped
<1>4. Pool!TasksOfPooled' /\ Pool!OneTier' /\ Pool!LocksFollow'
  BY <1>1 DEF TiersInv, Pool!TasksOfPooled, Pool!OneTier, Pool!LocksFollow, Pool!InFlight
<1> QED
  BY <1>1, <1>2, <1>3, <1>4 DEF TiersInv

LEMMA CrashKeeps == ASSUME TiersInv, Pool!Crash PROVE TiersInv'
<1>1. /\ rawTx' = rawRow /\ UNCHANGED <<rawRow, lockRow, txRow, tiersNow, unlockedEarly>>
      /\ tasks' = [l \in Leader |-> [t \in Tx |-> Pool!Kept(l, t)]] /\ taskRow' = tasks'
      /\ byTx' = [t \in Tx |-> {l \in Leader : Pool!Kept(l, t) # Pool!NoTask}]
      /\ writes' = <<>> /\ lockedUtxo' = lockRow /\ processingTx' = {}
      /\ txAt' = [t \in Tx |-> IF t \in txRow THEN tiersNow ELSE Pool!NoTime]
      /\ leaked' = leaked \cup {Sender[t] : t \in processingTx} /\ stray' = {}
  BY DEF Pool!Crash
<1>2. \A l \in Leader, t \in Tx : Pool!Kept(l, t) \in TaskState /\ (Pool!Kept(l, t) # Pool!NoTask => t \in rawRow)
  BY DEF Pool!Kept, Pool!NoTask, TiersInv, TiersTyped, TaskState
<1>3. TiersTyped'
  <2>1. tasks' \in [Leader -> [Tx -> TaskState]] /\ taskRow' = tasks' /\ byTx' \in [Tx -> SUBSET Leader]
    BY <1>1, <1>2
  <2>2. writes' \in Seq(TaskWrite) /\ txAt' \in [Tx -> Int] /\ tiersNow' \in Nat
    BY <1>1 DEF TiersInv, TiersTyped, Pool!NoTime
  <2>3. rawTx' \subseteq Tx /\ processingTx' \subseteq Tx /\ txRow' \subseteq Tx
    BY <1>1 DEF TiersInv, TiersTyped, Pool!OneTier
  <2> QED
    BY <2>1, <2>2, <2>3 DEF TiersTyped
<1>4. Pool!TasksOfPooled'
  BY <1>1, <1>2 DEF Pool!TasksOfPooled
<1>5. Pool!OneTier'
  <2>1. tiersNow # Pool!NoTime
    BY DEF TiersInv, TiersTyped, Pool!NoTime
  <2> QED
    BY <1>1, <2>1 DEF TiersInv, TiersTyped, Pool!OneTier, Pool!InFlight
<1>6. Pool!LocksFollow'
  BY <1>1 DEF TiersInv, Pool!LocksFollow, Pool!InFlight, Pool!OneTier
<1>7. WillFollow(writes', taskRow', tasks')
  BY <1>1 DEF WillFollow
<1> QED
  BY <1>3, <1>4, <1>5, <1>6, <1>7 DEF TiersInv

\* Through every move, eviction, sweep and restart the tiers of the mempool agree with each other, with the tasks and
\* the locks and, once the writes under way have ended, with their rows (mempool.js, validation-tasks.js).
THEOREM TiersSoundHolds == Spec => []TiersSound
<1>1. TiersInv /\ [Pool!Next]_(Pool!tierVars) => TiersInv'
  <2> SUFFICES ASSUME TiersInv, [Pool!Next]_(Pool!tierVars) PROVE TiersInv'
    OBVIOUS
  <2>1. CASE Pool!Pass \/ UNCHANGED Pool!tierVars
    <3>1. /\ tiersNow' \in Nat
          /\ UNCHANGED <<rawTx, rawRow, tasks, byTx, taskRow, writes, lockedUtxo, lockRow, processingTx, txAt, txRow,
                         unlockedEarly, leaked, stray>>
      BY <2>1 DEF Pool!Pass, Pool!tierVars, TiersInv, TiersTyped
    <3> QED
      BY <3>1 DEF TiersInv, TiersTyped, Pool!TasksOfPooled, Pool!OneTier, Pool!LocksFollow, Pool!InFlight
  <2> QED
    BY <2>1, SubmitKeeps, MoveKeeps, FinalizeKeeps, EvictKeeps, CompleteKeeps, SweepKeeps, FlushKeeps, CrashKeeps
       DEF Pool!Next
<1>2. TiersInv => TiersSound
  <2>1. TiersInv /\ writes = <<>> => taskRow = tasks
    <3> SUFFICES ASSUME TiersInv, writes = <<>> PROVE taskRow = tasks
      OBVIOUS
    <3>1. \A l \in Leader, t \in Tx : Untouched(writes, l, t)
      BY DEF Untouched
    <3> QED
      BY <3>1 DEF TiersInv, TiersTyped, WillFollow
  <2> QED
    BY <2>1 DEF TiersInv, TiersSound, Pool!TiersSound, Pool!RowsFollow
<1> QED
  BY <1>1, <1>2, TiersInit, PoolPart, PTL DEF Pool!TierSpec


----------------------------------------------------------------------------
(* Jobs of the compute market                                               *)

LEMMA JobsPart == Spec => Jobs!ComputeSpec
<1>1. Init => Jobs!Init
  BY DEF Init
<1>2. [Next]_vars => [Jobs!Next]_(Jobs!computeVars)
  BY DEF Next, vars, computeVars, Jobs!computeVars
<1> QED
  BY <1>1, <1>2, PTL DEF Spec, Jobs!ComputeSpec

LEMMA JobsCardinality == \A S : Jobs!Cardinality(S) = Cardinality(S) /\ (Jobs!IsFiniteSet(S) <=> IsFiniteSet(S))
BY DEF Cardinality, Jobs!Cardinality, IsFiniteSet, Jobs!IsFiniteSet

Worker == [at : {"check", "run", "posted", "gone"}, run : Nat, job : Task, clock : 0 .. Deadline, pages : 0 .. MaxPages,
           message : {"none", "denied", "error", "ok", "exit"}]
Outcome == {"done", "killed", "refused"}

\* Only a module that was let in runs, and it has memory only if it declares some.
LetIn(w) == w.at = "run" => /\ Jobs!MemoryAllowed(w.job) /\ Jobs!ImportsAllowed(w.job)
                            /\ w.pages > 0 => w.job.memory.count # 0

JobsTyped ==
  /\ worker \in [Slot -> {Jobs!NoWorker} \cup Worker] /\ settled \in [Slot -> {"none"} \cup Outcome]
  /\ jobsStarted \in Nat /\ computeJobsRun \in Nat
  /\ finishes \subseteq Nat \X Outcome /\ bills \subseteq Nat \X (0 .. Deadline) \X (0 .. MaxPages)

\* The runs under way are distinct, and one that is not settled has no finish.
RunsApart ==
  \A s \in Slot : worker[s] \in Worker =>
    /\ LetIn(worker[s]) /\ worker[s].run <= jobsStarted
    /\ settled[s] = "none" => \A f \in finishes : f[1] # worker[s].run
    /\ \A o \in Slot : worker[o] \in Worker /\ worker[o].run = worker[s].run => o = s

\* A run has one finish, and a bill only with it.
BilledWithFinish ==
  /\ \A f \in finishes : f[1] <= jobsStarted
  /\ \A f, g \in finishes : f[1] = g[1] => f = g
  /\ \A b \in bills : \E f \in finishes : f[1] = b[1]
  /\ \A b, d \in bills : b[1] = d[1] => b = d
  /\ IsFiniteSet(bills) /\ computeJobsRun = Cardinality(bills)

JobsInv == JobsTyped /\ RunsApart /\ BilledWithFinish

LEMMA JobsInit == Jobs!Init => JobsInv
BY FS_EmptySet DEF Jobs!Init, JobsInv, JobsTyped, RunsApart, BilledWithFinish, Jobs!NoWorker, Worker

LEMMA NoneIsNoWorker == Jobs!NoWorker \notin Worker /\ Jobs!NoWorker.at = "none"
<1>1. Jobs!NoWorker.at = "none"
  BY DEF Jobs!NoWorker
<1>2. \A w \in Worker : w.at # "none"
  BY DEF Worker
<1> QED
  BY <1>1, <1>2

\* A worker that is anywhere but nowhere is one.
LEMMA AWorker == ASSUME JobsInv, NEW s \in Slot, worker[s].at # "none" PROVE worker[s] \in Worker
BY NoneIsNoWorker DEF JobsInv, JobsTyped

\* A worker that goes on with its job, its outcome as it was, or for good.
LEMMA WorkerMoves ==
  ASSUME JobsInv, NEW s \in Slot, worker[s] \in Worker, NEW w \in {Jobs!NoWorker} \cup Worker,
         w \in Worker => w.run = worker[s].run /\ LetIn(w),
         worker' = [worker EXCEPT ![s] = w], UNCHANGED <<settled, computeJobsRun, jobsStarted, bills, finishes>>
  PROVE  JobsInv'
<1>1. JobsTyped'
  BY DEF JobsInv, JobsTyped
<1>2. worker'[s] = w /\ \A o \in Slot \ {s} : worker'[o] = worker[o]
  BY DEF JobsInv, JobsTyped
<1>3. RunsApart'
  BY <1>2 DEF JobsInv, RunsApart
<1>4. BilledWithFinish'
  BY DEF JobsInv, BilledWithFinish
<1> QED
  BY <1>1, <1>3, <1>4 DEF JobsInv

\* The first end of a run finishes it and bills it at most once.
LEMMA RunSettles ==
  ASSUME JobsInv, NEW s \in Slot, worker[s] \in Worker, settled[s] = "none", NEW w \in Worker,
         w.run = worker[s].run, LetIn(w), worker' = [worker EXCEPT ![s] = w], jobsStarted' = jobsStarted,
         NEW outcome \in Outcome, NEW cpu \in 0 .. Deadline, NEW pages \in 0 .. MaxPages,
         Jobs!Settle(s, outcome, cpu, pages)
  PROVE  JobsInv'
<1> DEFINE run == worker[s].run
           bill == <<run, cpu, pages>>
<1>1. /\ settled' = [settled EXCEPT ![s] = outcome] /\ finishes' = finishes \cup {<<run, outcome>>}
      /\ \/ computeJobsRun' = computeJobsRun + 1 /\ bills' = bills \cup {bill}
         \/ computeJobsRun' = computeJobsRun /\ bills' = bills
  BY DEF Jobs!Settle
<1>2. /\ run \in Nat /\ run <= jobsStarted /\ \A f \in finishes : f[1] # run
  BY DEF JobsInv, RunsApart, Worker
<1>3. bill \in Nat \X (0 .. Deadline) \X (0 .. MaxPages) /\ bill[1] = run
  BY <1>2
<1>4. \A b \in bills : b[1] # run
  BY <1>2 DEF JobsInv, BilledWithFinish
<1>5. worker'[s] = w /\ \A o \in Slot \ {s} : worker'[o] = worker[o] /\ settled'[o] = settled[o]
  BY <1>1 DEF JobsInv, JobsTyped
<1>6. settled'[s] = outcome /\ outcome # "none"
  BY <1>1 DEF JobsInv, JobsTyped, Outcome
<1>7. JobsTyped'
  BY <1>1, <1>2, <1>3 DEF JobsInv, JobsTyped
<1>8. RunsApart'
  <2>1. \A o \in Slot \ {s} : worker[o] \in Worker => worker[o].run # run
    BY DEF JobsInv, RunsApart
  <2> HIDE DEF run
  <2>2. \A f \in finishes' : f \in finishes \/ f[1] = run
    BY <1>1
  <2>3. ASSUME NEW o \in Slot, worker'[o] \in Worker
        PROVE  /\ LetIn(worker'[o]) /\ worker'[o].run <= jobsStarted
               /\ settled'[o] = "none" => \A f \in finishes' : f[1] # worker'[o].run
               /\ \A p \in Slot : worker'[p] \in Worker /\ worker'[p].run = worker'[o].run => p = o
    <3>1. worker'[s].run = run
      BY <1>5 DEF run
    <3>2. CASE o = s
      BY <1>2, <1>5, <1>6, <2>1, <3>1, <3>2
    <3>3. CASE o # s
      <4>1. worker'[o] = worker[o] /\ settled'[o] = settled[o] /\ worker[o].run # run
        BY <1>5, <2>1, <2>3, <3>3
      <4>2. /\ LetIn(worker[o]) /\ worker[o].run <= jobsStarted
            /\ settled[o] = "none" => \A f \in finishes : f[1] # worker[o].run
            /\ \A p \in Slot : worker[p] \in Worker /\ worker[p].run = worker[o].run => p = o
        BY <2>3, <4>1 DEF JobsInv, RunsApart
      <4>3. \A p \in Slot : worker'[p] \in Worker /\ worker'[p].run = worker'[o].run => p = o
        BY <1>5, <3>1, <4>1, <4>2
      <4> QED
        BY <2>2, <4>1, <4>2, <4>3
    <3> QED
      BY <3>2, <3>3
  <2> QED
    BY <2>3 DEF RunsApart, LetIn
<1>9. BilledWithFinish'
  <2> HIDE DEF run
  <2>1. <<run, outcome>>[1] = run
    OBVIOUS
  <2> HIDE DEF bill
  <2>2. /\ \A f \in finishes' : f[1] <= jobsStarted
        /\ \A f, g \in finishes' : f[1] = g[1] => f = g
    BY <1>1, <1>2, <2>1 DEF JobsInv, BilledWithFinish
  <2>3. \A b \in bills' : \E f \in finishes' : f[1] = b[1]
    BY <1>1, <1>3, <2>1 DEF JobsInv, BilledWithFinish
  <2>4. \A b, d \in bills' : b[1] = d[1] => b = d
    BY <1>1, <1>3, <1>4 DEF JobsInv, BilledWithFinish
  <2>5. IsFiniteSet(bills') /\ computeJobsRun' = Cardinality(bills')
    <3>1. bill \notin bills
      BY <1>3, <1>4
    <3> QED
      BY <1>1, <3>1, FS_AddElement DEF JobsInv, BilledWithFinish
  <2> QED
    BY <2>2, <2>3, <2>4, <2>5 DEF BilledWithFinish
<1> QED
  BY <1>7, <1>8, <1>9 DEF JobsInv


LEMMA ExecuteKeeps == ASSUME JobsInv, NEW s \in Slot, NEW j \in Task, Jobs!Execute(s, j) PROVE JobsInv'
<1> DEFINE w == [at |-> "check", run |-> jobsStarted + 1, job |-> j, clock |-> 0, pages |-> 0, message |-> "none"]
<1>1. /\ worker' = [worker EXCEPT ![s] = w] /\ settled' = [settled EXCEPT ![s] = "none"]
      /\ jobsStarted' = jobsStarted + 1 /\ UNCHANGED <<computeJobsRun, bills, finishes>>
  BY DEF Jobs!Execute
<1>2. w \in Worker /\ w.run = jobsStarted + 1 /\ LetIn(w)
  BY TaskAssumption DEF JobsInv, JobsTyped, Worker, LetIn
<1> HIDE DEF w
<1>3. JobsTyped'
  BY <1>1, <1>2 DEF JobsInv, JobsTyped
<1>4. worker'[s] = w /\ \A o \in Slot \ {s} : worker'[o] = worker[o] /\ settled'[o] = settled[o]
  BY <1>1 DEF JobsInv, JobsTyped
<1>5. \A o \in Slot : worker[o] \in Worker => worker[o].run \in Nat /\ worker[o].run <= jobsStarted
  BY DEF JobsInv, RunsApart, Worker
<1>6. \A f \in finishes : f[1] # jobsStarted + 1
  BY DEF JobsInv, JobsTyped, BilledWithFinish
<1>7. RunsApart'
  <2>1. ASSUME NEW o \in Slot, worker'[o] \in Worker
        PROVE  /\ LetIn(worker'[o]) /\ worker'[o].run <= jobsStarted'
               /\ settled'[o] = "none" => \A f \in finishes' : f[1] # worker'[o].run
               /\ \A p \in Slot : worker'[p] \in Worker /\ worker'[p].run = worker'[o].run => p = o
    <3>1. jobsStarted \in Nat
      BY DEF JobsInv, JobsTyped
    <3>2. CASE o = s
      BY <1>1, <1>2, <1>4, <1>5, <1>6, <3>1, <3>2
    <3>3. CASE o # s
      <4>1. /\ LetIn(worker[o]) /\ worker[o].run <= jobsStarted
            /\ settled[o] = "none" => \A f \in finishes : f[1] # worker[o].run
            /\ \A p \in Slot : worker[p] \in Worker /\ worker[p].run = worker[o].run => p = o
        BY <1>4, <2>1, <3>3 DEF JobsInv, RunsApart
      <4> QED
        BY <1>1, <1>2, <1>4, <1>5, <2>1, <3>1, <3>3, <4>1
    <3> QED
      BY <3>2, <3>3
  <2> QED
    BY <2>1 DEF RunsApart, LetIn
<1>8. BilledWithFinish'
  <2>1. \A f \in finishes : f[1] \in Nat /\ jobsStarted \in Nat
    BY DEF JobsInv, JobsTyped
  <2> QED
    BY <1>1, <2>1 DEF JobsInv, BilledWithFinish
<1> QED
  BY <1>3, <1>7, <1>8 DEF JobsInv

\* What a worker is made of.
LEMMA WorkerFields ==
  ASSUME NEW w \in Worker
  PROVE  w.job \in Task /\ w.clock \in 0 .. Deadline /\ w.pages \in 0 .. MaxPages /\ w.run \in Nat
BY DEF Worker

LEMMA PostKeeps ==
  ASSUME JobsInv, NEW s \in Slot, worker[s].at # "none", NEW m \in {"none", "denied", "error", "ok", "exit"}, Jobs!Post(s, m),
         UNCHANGED <<settled, computeJobsRun, jobsStarted, bills, finishes>>
  PROVE  JobsInv'
<1> DEFINE w == [worker[s] EXCEPT !.at = "posted", !.message = m]
<1>1. worker' = [worker EXCEPT ![s] = w]
  BY DEF Jobs!Post
<1>2. worker[s] \in Worker
  BY AWorker
<1>3. w \in Worker /\ w.run = worker[s].run /\ w.at = "posted"
  BY <1>2 DEF Worker
<1> HIDE DEF w
<1> QED
  BY <1>1, <1>2, <1>3, WorkerMoves DEF LetIn

LEMMA CheckKeeps == ASSUME JobsInv, NEW s \in Slot, Jobs!Check(s) PROVE JobsInv'
<1>1. worker[s].at = "check" /\ worker[s] \in Worker /\ UNCHANGED <<settled, computeJobsRun, jobsStarted, bills, finishes>>
  BY AWorker DEF Jobs!Check
<1>2. CASE Jobs!MemoryAllowed(worker[s].job) /\ Jobs!ImportsAllowed(worker[s].job)
  <2> DEFINE p == IF worker[s].job.memory.count = 0 THEN 0 ELSE 1
             w == [worker[s] EXCEPT !.at = "run", !.pages = p]
  <2>1. worker' = [worker EXCEPT ![s] = w]
    BY <1>2 DEF Jobs!Check
  <2>2. p \in 0 .. MaxPages /\ (p > 0 => worker[s].job.memory.count # 0)
    BY TaskAssumption
  <2> HIDE DEF p
  <2>3. w \in Worker /\ w.run = worker[s].run /\ w.at = "run" /\ w.job = worker[s].job /\ w.pages = p
    BY <1>1, <2>2 DEF Worker
  <2> HIDE DEF w
  <2>4. LetIn(w)
    BY <1>2, <2>2, <2>3 DEF LetIn
  <2> QED
    BY <1>1, <2>1, <2>3, <2>4, WorkerMoves
<1>3. CASE ~(Jobs!MemoryAllowed(worker[s].job) /\ Jobs!ImportsAllowed(worker[s].job))
  BY <1>1, <1>3, PostKeeps DEF Jobs!Check
<1> QED
  BY <1>2, <1>3

LEMMA RunKeeps == ASSUME JobsInv, NEW s \in Slot, NEW grow \in BOOLEAN, Jobs!Run(s, grow) PROVE JobsInv'
<1> DEFINE w0 == worker[s]
           p == IF grow /\ w0.pages > 0 /\ w0.pages < w0.job.memory.max THEN w0.pages + 1 ELSE w0.pages
           w == [w0 EXCEPT !.clock = w0.clock + 1, !.pages = p]
<1>1. /\ w0.at = "run" /\ w0.clock < Deadline /\ w0 \in Worker
      /\ UNCHANGED <<settled, computeJobsRun, jobsStarted, bills, finishes>>
  BY AWorker DEF Jobs!Run
<1>2. worker' = [worker EXCEPT ![s] = w]
  BY DEF Jobs!Run
<1>3. LetIn(w0)
  BY <1>1 DEF JobsInv, RunsApart
<1>4. /\ w0.job \in Task /\ w0.clock \in 0 .. Deadline /\ w0.pages \in 0 .. MaxPages
  BY <1>1, WorkerFields
<1> HIDE DEF w0
<1>5. /\ Jobs!MemoryAllowed(w0.job) /\ Jobs!ImportsAllowed(w0.job) /\ (w0.pages > 0 => w0.job.memory.count # 0)
  BY <1>1, <1>3 DEF LetIn
<1>6. w0.pages > 0 => w0.job.memory.max \in 0 .. MaxPages
  BY <1>5 DEF Jobs!MemoryAllowed
<1>7. p \in 0 .. MaxPages /\ (p > 0 => w0.pages > 0) /\ w0.clock + 1 \in 0 .. Deadline
  BY <1>1, <1>4, <1>6, TaskAssumption
<1> HIDE DEF p
<1>8. w \in Worker /\ w.run = w0.run /\ w.at = "run" /\ w.job = w0.job /\ w.pages = p
  BY <1>1, <1>4, <1>7 DEF Worker
<1> HIDE DEF w
<1>9. LetIn(w)
  BY <1>5, <1>7, <1>8 DEF LetIn
<1> QED
  BY <1>1, <1>2, <1>8, <1>9, WorkerMoves DEF w0

LEMMA ReturnKeeps == ASSUME JobsInv, NEW s \in Slot, Jobs!Return(s) \/ Jobs!Exit(s) PROVE JobsInv'
<1>1. CASE Jobs!Return(s)
  BY <1>1, PostKeeps DEF Jobs!Return
<1>2. CASE Jobs!Exit(s)
  BY <1>2, PostKeeps DEF Jobs!Exit, Jobs!Post
<1> QED
  BY <1>1, <1>2

LEMMA MessageKeeps == ASSUME JobsInv, NEW s \in Slot, Jobs!OnMessage(s) PROVE JobsInv'
<1> DEFINE w == [worker[s] EXCEPT !.at = "gone"]
           outcome == IF worker[s].message = "ok" THEN "done" ELSE "refused"
<1>1. /\ worker' = [worker EXCEPT ![s] = w] /\ jobsStarted' = jobsStarted /\ worker[s] \in Worker
      /\ \/ settled[s] = "none" /\ Jobs!Settle(s, outcome, worker[s].clock, Jobs!Metered(worker[s]))
         \/ UNCHANGED <<settled, computeJobsRun, bills, finishes>>
  BY AWorker DEF Jobs!OnMessage, Jobs!Fresh
<1>2. w \in Worker /\ w.run = worker[s].run /\ w.at = "gone"
  BY <1>1 DEF Worker
<1>3. outcome \in Outcome /\ worker[s].clock \in 0 .. Deadline /\ Jobs!Metered(worker[s]) \in 0 .. MaxPages
  <2>1. worker[s].clock \in 0 .. Deadline /\ worker[s].pages \in 0 .. MaxPages
    BY <1>1, WorkerFields
  <2>2. Jobs!Metered(worker[s]) \in 0 .. MaxPages
    BY <2>1, TaskAssumption DEF Jobs!Metered
  <2> QED
    BY <2>1, <2>2 DEF Outcome
<1>4. LetIn(w)
  BY <1>2 DEF LetIn
<1> HIDE DEF w, outcome
<1>5. CASE UNCHANGED <<settled, computeJobsRun, bills, finishes>>
  BY <1>1, <1>2, <1>4, <1>5, WorkerMoves
<1>6. CASE settled[s] = "none" /\ Jobs!Settle(s, outcome, worker[s].clock, Jobs!Metered(worker[s]))
  BY <1>1, <1>2, <1>3, <1>4, <1>6, RunSettles
<1> QED
  BY <1>1, <1>5, <1>6

LEMMA DeadlineKeeps == ASSUME JobsInv, NEW s \in Slot, Jobs!OnDeadline(s) PROVE JobsInv'
<1> DEFINE a == IF worker[s].at = "posted" THEN "posted" ELSE "gone"
           w == [worker[s] EXCEPT !.at = a]
<1>1. /\ worker' = [worker EXCEPT ![s] = w] /\ jobsStarted' = jobsStarted /\ worker[s] \in Worker
      /\ settled[s] = "none" /\ Jobs!Settle(s, "killed", Deadline, MaxPages)
  BY AWorker DEF Jobs!OnDeadline
<1>2. w \in Worker /\ w.run = worker[s].run /\ w.at # "run"
  BY <1>1 DEF Worker
<1>3. "killed" \in Outcome /\ Deadline \in 0 .. Deadline /\ MaxPages \in 0 .. MaxPages
  BY TaskAssumption DEF Outcome
<1> HIDE DEF w
<1> QED
  BY <1>1, <1>2, <1>3, RunSettles DEF LetIn

LEMMA RespondKeeps == ASSUME JobsInv, NEW s \in Slot, Jobs!Respond(s) PROVE JobsInv'
<1>1. /\ worker' = [worker EXCEPT ![s] = Jobs!NoWorker] /\ worker[s] \in Worker
      /\ UNCHANGED <<settled, computeJobsRun, jobsStarted, bills, finishes>>
  BY AWorker DEF Jobs!Respond
<1> QED
  BY <1>1, NoneIsNoWorker, WorkerMoves

\* A job is finished and billed once, for no more than the deadline and the cap, whichever of its answer, its deadline
\* and its crash comes first, and it runs with no import and no memory it was not given (compute.js, compute-node.js).
THEOREM ComputeSoundHolds == Spec => []ComputeSound
<1>1. JobsInv /\ [Jobs!Next]_(Jobs!computeVars) => JobsInv'
  <2> SUFFICES ASSUME JobsInv, [Jobs!Next]_(Jobs!computeVars) PROVE JobsInv'
    OBVIOUS
  <2>1. CASE UNCHANGED Jobs!computeVars
    BY <2>1 DEF Jobs!computeVars, JobsInv, JobsTyped, RunsApart, BilledWithFinish
  <2> QED
    BY <2>1, ExecuteKeeps, CheckKeeps, RunKeeps, ReturnKeeps, MessageKeeps, DeadlineKeeps, RespondKeeps DEF Jobs!Next
<1>2. JobsInv => ComputeSound
  <2> SUFFICES ASSUME JobsInv PROVE Jobs!BilledOnce /\ Jobs!Isolated
    BY DEF ComputeSound
  <2>1. \A b \in bills : b[2] <= Deadline /\ b[3] <= MaxPages
    BY TaskAssumption DEF JobsInv, JobsTyped
  <2>2. Jobs!BilledOnce
    BY <2>1, JobsCardinality DEF JobsInv, BilledWithFinish, Jobs!BilledOnce
  <2>3. Jobs!Isolated
    <3> SUFFICES ASSUME NEW s \in Slot, worker[s].at = "run"
                 PROVE  worker[s].job.imports \subseteq HostGives \cup Allowed /\ worker[s].pages <= MaxPages
      BY DEF Jobs!Isolated
    <3>1. worker[s] \in Worker /\ LetIn(worker[s])
      BY AWorker DEF JobsInv, RunsApart
    <3> QED
      <4>1. worker[s].pages \in 0 .. MaxPages
        BY <3>1, WorkerFields
      <4> QED
        BY <3>1, <4>1, TaskAssumption DEF LetIn, Jobs!ImportsAllowed
  <2> QED
    BY <2>2, <2>3
<1> QED
  BY <1>1, <1>2, JobsInit, JobsPart, PTL DEF Jobs!ComputeSpec


----------------------------------------------------------------------------
(* The processes of one machine                                             *)

LEMMA ProcessesPart == Spec => Processes!DaemonSpec
<1>1. Init => Processes!Init
  BY DEF Init
<1>2. [Next]_vars => [Processes!Next]_(Processes!daemonVars)
  BY DEF Next, vars, daemonVars, Processes!daemonVars
<1> QED
  BY <1>1, <1>2, PTL DEF Spec, Processes!DaemonSpec

Past == {"boot", "opened", "probe", "bind"} \cup Processes!Serving
Place == {"new", "stale", "lock", "fill", "inspect", "steal", "boot", "opened", "probe", "bind", "up", "closing", "closed",
          "unfiled", "unbound", "dead"}
DaemonTyped ==
  /\ pc \in [Pid -> Place] /\ holds \in [Pid -> BOOLEAN] /\ machineLock \in [by : Nat, written : BOOLEAN]
  /\ pidFile \in [Processes!Dir -> Nat] /\ sockFile \in [Processes!Dir -> Nat]

\* Until a live lock is taken for stale, whoever is past the lock has it, and so is alone.
LockHeld ==
  colocated \/ lockRaced \/
    \A p \in Pid : /\ pc[p] = "fill" => machineLock.by = p
                   /\ pc[p] \in Past => machineLock.by = p /\ machineLock.written /\ holds[p]

\* And its files are its own from the moment it writes them.
FilesMine ==
  colocated \/ lockRaced \/
    \A p \in Pid : /\ pc[p] = "up" => sockFile[dir[p]] = p
                   /\ pc[p] \in {"probe", "bind", "up"} => pidFile[dir[p]] = p \/ pidRaced

DaemonInv == DaemonTyped /\ LockHeld /\ FilesMine

LEMMA DaemonInit == Processes!Init => DaemonInv
<1> SUFFICES ASSUME Processes!Init PROVE DaemonInv
  OBVIOUS
<1>1. DaemonTyped
  BY DEF Processes!Init, DaemonTyped, Place, Processes!NoLock, Processes!None
<1>2. \A p \in Pid : pc[p] = "new"
  BY DEF Processes!Init
<1> QED
  BY <1>1, <1>2 DEF DaemonInv, LockHeld, FilesMine, Past, Processes!Serving

\* A process that goes from one place to another.
LEMMA Goes ==
  ASSUME DaemonTyped, NEW p \in Pid, NEW at, Processes!Goto(p, at)
  PROVE  pc'[p] = at /\ \A q \in Pid \ {p} : pc'[q] = pc[q]
BY DEF DaemonTyped, Processes!Goto

LEMMA DaemonTypedNext == DaemonTyped /\ [Processes!Next]_(Processes!daemonVars) => DaemonTyped'
<1> SUFFICES ASSUME DaemonTyped, [Processes!Next]_(Processes!daemonVars) PROVE DaemonTyped'
  OBVIOUS
<1> USE DEF DaemonTyped, Place
<1>0. \A p \in Pid : p \in Nat
  BY PidAssumption
<1>1. ASSUME NEW p \in Pid, NEW at \in Place, Processes!Goto(p, at) PROVE pc' \in [Pid -> Place]
  BY <1>1 DEF Processes!Goto
<1>2. ASSUME NEW p \in Pid
      PROVE  /\ Processes!Mine(pidFile, p) \in [Processes!Dir -> Nat] /\ Processes!Gone(pidFile, p) \in [Processes!Dir -> Nat]
             /\ Processes!Mine(sockFile, p) \in [Processes!Dir -> Nat] /\ Processes!Gone(sockFile, p) \in [Processes!Dir -> Nat]
             /\ Processes!Released(p) \in [by : Nat, written : BOOLEAN]
  BY <1>0 DEF Processes!Mine, Processes!Gone, Processes!Released, Processes!None, Processes!NoLock
<1>3. CASE UNCHANGED Processes!daemonVars
  BY <1>3 DEF Processes!daemonVars
<1>4. ASSUME NEW p \in Pid, Processes!Start(p) \/ Processes!DropPid(p) PROVE DaemonTyped'
  <2>1. pc' \in [Pid -> Place]
    BY <1>4 DEF Processes!Start, Processes!DropPid, Processes!Goto
  <2> QED
    BY <1>2, <1>4, <2>1 DEF Processes!Start, Processes!DropPid
<1>5. ASSUME NEW p \in Pid, Processes!TakeLock(p) PROVE DaemonTyped'
  <2>1. [by |-> p, written |-> FALSE] \in [by : Nat, written : BOOLEAN]
    BY <1>0
  <2>2. machineLock' \in [by : Nat, written : BOOLEAN]
    BY <1>5, <2>1 DEF Processes!TakeLock
  <2>3. pc' \in [Pid -> Place]
    BY <1>5 DEF Processes!TakeLock, Processes!Goto
  <2> QED
    BY <1>5, <2>2, <2>3 DEF Processes!TakeLock
<1>6. ASSUME NEW p \in Pid, Processes!FillLock(p) PROVE DaemonTyped'
  <2>1. machineLock' \in [by : Nat, written : BOOLEAN] /\ holds' \in [Pid -> BOOLEAN]
    BY <1>6 DEF Processes!FillLock
  <2> QED
    BY <1>1, <1>6, <2>1 DEF Processes!FillLock
<1>7. ASSUME NEW p \in Pid, Processes!Inspect(p) \/ Processes!Steal(p) \/ Processes!GiveUp(p) PROVE DaemonTyped'
  <2>1. pc' \in [Pid -> Place]
    BY <1>7 DEF Processes!Inspect, Processes!Steal, Processes!GiveUp, Processes!Goto
  <2>2. Processes!NoLock \in [by : Nat, written : BOOLEAN]
    BY DEF Processes!NoLock, Processes!None
  <2> QED
    BY <1>7, <2>1, <2>2 DEF Processes!Inspect, Processes!Steal, Processes!GiveUp
<1>8. ASSUME NEW p \in Pid, Processes!OpenStore(p) \/ Processes!WritePid(p) PROVE DaemonTyped'
  BY <1>1, <1>2, <1>8 DEF Processes!OpenStore, Processes!WritePid, Processes!Exits
<1>9. ASSUME NEW p \in Pid, Processes!ProbeLiveOwner(p) \/ Processes!Listen(p) PROVE DaemonTyped'
  BY <1>1, <1>2, <1>9 DEF Processes!ProbeLiveOwner, Processes!Listen, Processes!Exits
<1>10. ASSUME NEW p \in Pid, Processes!Shutdown(p) \/ Processes!StopCore(p) \/ Processes!DropFiles(p) PROVE DaemonTyped'
  BY <1>1, <1>2, <1>10 DEF Processes!Shutdown, Processes!StopCore, Processes!DropFiles
<1>11. ASSUME NEW p \in Pid, Processes!DropSocket(p) \/ Processes!ReleaseMachineLock(p) \/ Processes!Kill(p) PROVE DaemonTyped'
  BY <1>1, <1>2, <1>11 DEF Processes!DropSocket, Processes!ReleaseMachineLock, Processes!Kill, Processes!Exits
<1>12. ASSUME NEW d \in Processes!Dir, Processes!StopClears(d) PROVE DaemonTyped'
  BY <1>12 DEF Processes!StopClears, Processes!None
<1> QED
  BY <1>3, <1>4, <1>5, <1>6, <1>7, <1>8, <1>9, <1>10, <1>11, <1>12 DEF Processes!Next

LEMMA LockHeldNext == DaemonTyped /\ LockHeld /\ [Processes!Next]_(Processes!daemonVars) => LockHeld'
<1> SUFFICES ASSUME DaemonTyped, LockHeld, [Processes!Next]_(Processes!daemonVars), ~colocated', ~lockRaced' PROVE LockHeld'
  BY DEF LockHeld
<1> USE DEF LockHeld, Past, Processes!Serving
<1>0. /\ \A p \in Pid : p # Processes!None
      /\ \A p \in Pid : pc[p] \in {"fill"} \cup Past => Processes!isAlive(p)
  BY PidAssumption DEF Processes!None, Processes!isAlive
<1>1. CASE UNCHANGED Processes!daemonVars
  BY <1>1 DEF Processes!daemonVars
<1>2. ASSUME NEW p \in Pid, Processes!Start(p) \/ Processes!DropPid(p) PROVE LockHeld'
  BY <1>2, Goes DEF Processes!Start, Processes!DropPid
<1>3. ASSUME NEW p \in Pid, Processes!TakeLock(p) PROVE LockHeld'
  BY <1>0, <1>3, Goes DEF Processes!TakeLock, Processes!NoLock
<1>4. ASSUME NEW p \in Pid, Processes!FillLock(p) PROVE LockHeld'
  <2>1. machineLock.by = p /\ pc'[p] = "boot" /\ \A q \in Pid \ {p} : pc'[q] = pc[q]
    BY <1>4, Goes DEF Processes!FillLock
  <2>2. machineLock'.by = p /\ machineLock'.written
    BY <1>4, <2>1 DEF Processes!FillLock, DaemonTyped
  <2>3. holds'[p] = TRUE
    BY <1>4 DEF Processes!FillLock, DaemonTyped
  <2> QED
    BY <1>4, <2>1, <2>2, <2>3 DEF Processes!FillLock
<1>5. ASSUME NEW p \in Pid, Processes!Inspect(p) PROVE LockHeld'
  BY <1>5, Goes DEF Processes!Inspect
<1>6. ASSUME NEW p \in Pid, Processes!Steal(p) PROVE LockHeld'
  <2>1. ~Processes!isAlive(machineLock.by)
    BY <1>6 DEF Processes!Steal
  <2>2. \A q \in Pid : pc[q] \notin {"fill"} \cup Past
    BY <1>0, <1>6, <2>1 DEF Processes!Steal
  <2>3. pc'[p] = "lock" /\ \A q \in Pid \ {p} : pc'[q] = pc[q]
    BY <1>6, Goes DEF Processes!Steal
  <2> QED
    BY <2>2, <2>3
<1>7. ASSUME NEW p \in Pid, Processes!GiveUp(p) PROVE LockHeld'
  BY <1>7 DEF Processes!GiveUp
<1>8. ASSUME NEW p \in Pid, pc[p] \in Past, Processes!Exits(p), holds' = holds, colocated' = colocated, lockRaced' = lockRaced
      PROVE LockHeld'
  <2>1. \A q \in Pid \ {p} : pc[q] \notin {"fill"} \cup Past
    BY <1>8
  <2> QED
    BY <1>8, <2>1, Goes DEF Processes!Exits
<1>9. ASSUME NEW p \in Pid, NEW at \in Past, pc[p] \in Past, Processes!Goto(p, at),
             UNCHANGED <<holds, colocated, lockRaced, machineLock>>
      PROVE LockHeld'
  BY <1>9, Goes
<1>10. ASSUME NEW p \in Pid, Processes!OpenStore(p) \/ Processes!WritePid(p) PROVE LockHeld'
  BY <1>8, <1>9, <1>10 DEF Processes!OpenStore, Processes!WritePid
<1>11. ASSUME NEW p \in Pid, Processes!ProbeLiveOwner(p) \/ Processes!Listen(p) PROVE LockHeld'
  BY <1>8, <1>9, <1>11 DEF Processes!ProbeLiveOwner, Processes!Listen
<1>12. ASSUME NEW p \in Pid, Processes!Shutdown(p) \/ Processes!StopCore(p) \/ Processes!DropFiles(p) PROVE LockHeld'
  BY <1>9, <1>12 DEF Processes!Shutdown, Processes!StopCore, Processes!DropFiles
<1>13. ASSUME NEW p \in Pid, Processes!DropSocket(p) \/ Processes!ReleaseMachineLock(p) PROVE LockHeld'
  BY <1>8, <1>9, <1>13 DEF Processes!DropSocket, Processes!ReleaseMachineLock
<1>14. ASSUME NEW p \in Pid, Processes!Kill(p) PROVE LockHeld'
  BY <1>14, Goes DEF Processes!Kill
<1>15. ASSUME NEW d \in Processes!Dir, Processes!StopClears(d) PROVE LockHeld'
  BY <1>15 DEF Processes!StopClears
<1> QED
  BY <1>1, <1>2, <1>3, <1>4, <1>5, <1>6, <1>7, <1>10, <1>11, <1>12, <1>13, <1>14, <1>15 DEF Processes!Next


LEMMA FilesMineNext == DaemonInv /\ [Processes!Next]_(Processes!daemonVars) => FilesMine'
<1> SUFFICES ASSUME DaemonInv, [Processes!Next]_(Processes!daemonVars), ~colocated', ~lockRaced' PROVE FilesMine'
  BY DEF FilesMine
<1> USE DEF FilesMine
<1>0. /\ DaemonTyped /\ LockHeld /\ FilesMine /\ \A p \in Pid : dir[p] \in Processes!Dir
      /\ \A p \in Pid : p # Processes!None
  BY PidAssumption DEF DaemonInv, Processes!Dir, Processes!None
<1>1. CASE UNCHANGED Processes!daemonVars
  BY <1>0, <1>1 DEF Processes!daemonVars
<1>2. ASSUME NEW p \in Pid, NEW at, Processes!Goto(p, at), at \notin {"probe", "bind", "up"},
             UNCHANGED <<colocated, lockRaced, pidFile, sockFile, pidRaced>>
      PROVE FilesMine'
  BY <1>0, <1>2, Goes
<1>3. ASSUME NEW p \in Pid, Processes!Start(p) PROVE FilesMine'
  BY <1>2, <1>3 DEF Processes!Start
<1>4. ASSUME NEW p \in Pid, Processes!DropPid(p) PROVE FilesMine'
  <2>1. /\ pc[p] = "stale" /\ pc'[p] = "lock" /\ \A q \in Pid \ {p} : pc'[q] = pc[q]
        /\ pidFile' = [pidFile EXCEPT ![dir[p]] = Processes!None]
        /\ pidRaced' = (pidRaced \/ Processes!isAlive(pidFile[dir[p]]))
        /\ UNCHANGED <<colocated, lockRaced, sockFile>>
    BY <1>0, <1>4, Goes DEF Processes!DropPid, Processes!Gone
  <2>2. ASSUME NEW q \in Pid, pc'[q] \in {"probe", "bind", "up"} PROVE pidFile'[dir[q]] = q \/ pidRaced'
    <3>1. pc[q] = pc'[q] /\ (pidFile[dir[q]] = q \/ pidRaced)
      BY <1>0, <2>1, <2>2
    <3>2. Processes!isAlive(q)
      BY <1>0, <2>2, <3>1 DEF Processes!isAlive
    <3> QED
      BY <1>0, <2>1, <3>1, <3>2 DEF DaemonTyped
  <2> QED
    BY <1>0, <2>1, <2>2
<1>5. ASSUME NEW p \in Pid, Processes!TakeLock(p) PROVE FilesMine'
  BY <1>2, <1>5 DEF Processes!TakeLock
<1>6. ASSUME NEW p \in Pid, Processes!FillLock(p) \/ Processes!Inspect(p) PROVE FilesMine'
  BY <1>2, <1>6 DEF Processes!FillLock, Processes!Inspect
<1>7. ASSUME NEW p \in Pid, Processes!Steal(p) PROVE FilesMine'
  <2>1. pc'[p] = "lock" /\ \A q \in Pid \ {p} : pc'[q] = pc[q]
    BY <1>0, <1>7, Goes DEF Processes!Steal
  <2>2. ~lockRaced /\ UNCHANGED <<colocated, pidFile, sockFile, pidRaced>>
    BY <1>7 DEF Processes!Steal
  <2> QED
    BY <1>0, <2>1, <2>2
<1>8. ASSUME NEW p \in Pid, Processes!GiveUp(p) PROVE FilesMine'
  BY <1>8 DEF Processes!GiveUp
\* From here on the process is past the lock, so no other has files.
<1>9. ASSUME NEW p \in Pid, pc[p] \in Past, UNCHANGED <<colocated, lockRaced>>, NEW at, Processes!Goto(p, at),
             at = "up" => sockFile'[dir[p]] = p,
             at \in {"probe", "bind", "up"} => pidFile'[dir[p]] = p \/ pidRaced'
      PROVE FilesMine'
  <2>1. \A q \in Pid \ {p} : pc[q] \notin Past
    BY <1>0, <1>9 DEF LockHeld
  <2>2. pc'[p] = at /\ \A q \in Pid \ {p} : pc'[q] = pc[q]
    BY <1>0, <1>9, Goes
  <2> QED
    BY <1>9, <2>1, <2>2 DEF Past, Processes!Serving
<1>10. ASSUME NEW p \in Pid, Processes!OpenStore(p) PROVE FilesMine'
  BY <1>2, <1>10 DEF Processes!OpenStore, Processes!Exits
<1>11. ASSUME NEW p \in Pid, Processes!WritePid(p) PROVE FilesMine'
  <2>1. pidFile'[dir[p]] = p
    BY <1>0, <1>11 DEF Processes!WritePid, Processes!Mine, DaemonTyped
  <2> QED
    BY <1>9, <1>11, <2>1 DEF Processes!WritePid, Past
<1>12. ASSUME NEW p \in Pid, Processes!ProbeLiveOwner(p) PROVE FilesMine'
  <2>1. pidFile'[dir[p]] = p \/ pidRaced'
    BY <1>0, <1>12 DEF Processes!ProbeLiveOwner
  <2> QED
    BY <1>9, <1>12, <2>1 DEF Processes!ProbeLiveOwner, Past, Processes!Exits
<1>13. ASSUME NEW p \in Pid, Processes!Listen(p) PROVE FilesMine'
  <2>1. sockFile'[dir[p]] = p /\ (pidFile'[dir[p]] = p \/ pidRaced')
    BY <1>0, <1>13 DEF Processes!Listen, Processes!Mine, DaemonTyped
  <2> QED
    BY <1>9, <1>13, <2>1 DEF Processes!Listen, Past
<1>14. ASSUME NEW p \in Pid, Processes!Shutdown(p) \/ Processes!StopCore(p) \/ Processes!DropFiles(p) PROVE FilesMine'
  BY <1>9, <1>14 DEF Processes!Shutdown, Processes!StopCore, Processes!DropFiles, Past, Processes!Serving
<1>15. ASSUME NEW p \in Pid, Processes!DropSocket(p) \/ Processes!ReleaseMachineLock(p) PROVE FilesMine'
  BY <1>9, <1>15 DEF Processes!DropSocket, Processes!ReleaseMachineLock, Processes!Exits, Past, Processes!Serving
<1>16. ASSUME NEW p \in Pid, Processes!Kill(p) PROVE FilesMine'
  BY <1>2, <1>16 DEF Processes!Kill
<1>17. ASSUME NEW d \in Processes!Dir, Processes!StopClears(d) PROVE FilesMine'
  <2>1. \A q \in Pid : pc[q] \in {"probe", "bind", "up"} => Processes!isAlive(q)
    BY <1>0 DEF Processes!isAlive
  <2> QED
    BY <1>0, <1>17, <2>1 DEF Processes!StopClears, DaemonTyped
<1> QED
  BY <1>1, <1>3, <1>4, <1>5, <1>6, <1>7, <1>8, <1>10, <1>11, <1>12, <1>13, <1>14, <1>15, <1>16, <1>17 DEF Processes!Next

LEMMA DaemonNext == DaemonInv /\ [Processes!Next]_(Processes!daemonVars) => DaemonInv'
BY DaemonTypedNext, LockHeldNext, FilesMineNext DEF DaemonInv

\* One process is past the lock, and the one that is up has its files.
LEMMA DaemonSound == DaemonInv => Processes!OneNode /\ Processes!Reachable
<1> SUFFICES ASSUME DaemonInv PROVE Processes!OneNode /\ Processes!Reachable
  OBVIOUS
<1>1. Processes!OneNode
  BY DEF DaemonInv, LockHeld, Past, Processes!OneNode
<1>2. Processes!Reachable
  BY DEF DaemonInv, FilesMine, Processes!Reachable
<1> QED
  BY <1>1, <1>2

----------------------------------------------------------------------------
(* The life of a node                                                       *)

LEMMA NodePart == Spec => Node!NodeSpec
<1>1. Init => Node!Init
  BY DEF Init
<1>2. [Next]_vars => [Node!Next]_(Node!nodeVars)
  BY DEF Next, vars, nodeVars, Node!nodeVars
<1> QED
  BY <1>1, <1>2, PTL DEF Spec, Node!NodeSpec

NodeTyped ==
  /\ stores \in [Node!Store -> {"opening", "open", "closed"}]
  /\ busy \in [Node!Job -> {"no", "yes", "late", "suspended"}]
  /\ nodeTimers \subseteq {"presence", "leadWatch", "retry", "seal", "reap"}

\* What start() and stop() have done by now.
Started ==
  /\ nodeBoot \in {"built", "bound", "network", "refused", "roles", "running", "stopping", "closed"}
  /\ xid = IF nodeBoot = "built" THEN "none" ELSE "keystore"
  /\ self \in {"none", "keystore"}
  /\ nodeBoot \in {"refused", "roles", "running"} => Node!StoresJoined
  /\ nodeBoot \in {"stopping", "closed"} => \A s \in Node!Store : stores[s] # "opening"
  /\ served => nodeBoot = "running"
  /\ nodeGossip => nodeBoot \in {"refused", "roles", "running", "stopping", "closed"}
  /\ nodeTimers # {} => nodeBoot \in {"running", "stopping", "closed"}
  /\ nodeBoot \in {"stopping", "closed"} => ~validationWorker /\ ~leadWorker /\ nodeTimers \subseteq {"reap"}
  /\ nodeBoot \in {"roles", "running"} =>
       /\ ~Node!ContractsRefused /\ (computeNode <=> Node!role("compute"))
       /\ contractHost <=> Node!role("compute") /\ Node!role("contracts")

\* Work begins over stores that are read; what began late is the reaper's, what began suspended is none of those
\* that look at the suspension.
WorkHeld ==
  /\ \A j \in Node!Job : /\ busy[j] # "no" => \A s \in Node!Store : stores[s] # "opening"
                         /\ busy[j] = "late" => j = "reap"
                         /\ busy[j] = "suspended" => j \notin {"submit", "retry", "seal"}
  /\ \A w \in wrote : w[3] # "opening" /\ (w[2] = "late" => w[1] = "reap")
                      /\ (w[2] = "suspended" => w[1] \notin {"submit", "retry", "seal"})

NodeInv == NodeTyped /\ Started /\ WorkHeld


LEMMA NodeInit == Node!Init => NodeInv
BY DEF Node!Init, NodeInv, NodeTyped, Started, WorkHeld, Node!All, Node!Store, Node!Job, Node!StoresJoined

LEMMA NodeNext == NodeInv /\ [Node!Next]_(Node!nodeVars) => NodeInv'
<1> SUFFICES ASSUME NodeInv, [Node!Next]_(Node!nodeVars) PROVE NodeInv'
  OBVIOUS
<1> USE DEF NodeInv
<1>1. ASSUME UNCHANGED <<stores, busy, wrote>> PROVE WorkHeld'
  BY <1>1 DEF WorkHeld
<1>2. CASE UNCHANGED Node!nodeVars
  BY <1>2 DEF Node!nodeVars, NodeTyped, Started, WorkHeld, Node!StoresJoined, Node!ContractsRefused, Node!role
<1>3. ASSUME NEW s \in Node!Store, Node!StoreOpens(s) PROVE NodeInv'
  <2>1. /\ stores[s] = "opening" /\ stores' = [stores EXCEPT ![s] = "open"]
        /\ UNCHANGED <<roles, nodeBoot, xid, self, nodeGossip, computeNode, contractHost, validationWorker, leadWorker, nodeTimers,
                       busy, served, wrote>>
    BY <1>3 DEF Node!StoreOpens
  <2>2. NodeTyped' /\ \A o \in Node!Store : stores'[o] = IF o = s THEN "open" ELSE stores[o]
    BY <2>1 DEF NodeTyped
  <2>3. Started'
    BY <2>1, <2>2 DEF Started, Node!StoresJoined, Node!ContractsRefused, Node!role
  <2>4. WorkHeld'
    BY <2>1, <2>2 DEF WorkHeld
  <2> QED
    BY <2>2, <2>3, <2>4
<1>4. ASSUME NEW s \in Node!Store, Node!Close(s) PROVE NodeInv'
  <2>1. /\ nodeBoot = "stopping" /\ stores' = [stores EXCEPT ![s] = "closed"] /\ nodeBoot' \in {"stopping", "closed"}
        /\ UNCHANGED <<roles, xid, self, nodeGossip, computeNode, contractHost, validationWorker, leadWorker, nodeTimers,
                       busy, served, wrote>>
    BY <1>4 DEF Node!Close
  <2>2. NodeTyped' /\ \A o \in Node!Store : stores'[o] = IF o = s THEN "closed" ELSE stores[o]
    BY <2>1 DEF NodeTyped
  <2>3. Started'
    BY <2>1, <2>2 DEF Started
  <2>4. WorkHeld'
    BY <2>1, <2>2 DEF WorkHeld
  <2> QED
    BY <2>2, <2>3, <2>4
<1>5. CASE Node!SetIdentity \/ Node!StartNetwork
  <2>1. NodeTyped' /\ WorkHeld'
    BY <1>1, <1>5 DEF Node!SetIdentity, Node!StartNetwork, NodeTyped
  <2>2. Started'
    BY <1>5 DEF Node!SetIdentity, Node!StartNetwork, Started
  <2> QED
    BY <2>1, <2>2
<1>6. CASE Node!BuildRoles
  <2>1. NodeTyped' /\ WorkHeld'
    BY <1>1, <1>6 DEF Node!BuildRoles, NodeTyped
  <2>2. Started'
    BY <1>6 DEF Node!BuildRoles, Started, Node!StoresJoined, Node!ContractsRefused, Node!role
  <2> QED
    BY <2>1, <2>2
<1>7. CASE Node!Wire
  <2>1. NodeTyped' /\ WorkHeld'
    BY <1>1, <1>7 DEF Node!Wire, NodeTyped
  <2>2. Started'
    BY <1>7 DEF Node!Wire, Started, Node!StoresJoined, Node!ContractsRefused, Node!role, Node!IdentityAtStart
  <2> QED
    BY <2>1, <2>2
<1>8. CASE Node!Serve \/ Node!Suspend
  <2>1. NodeTyped' /\ WorkHeld'
    BY <1>1, <1>8 DEF Node!Serve, Node!Suspend, NodeTyped
  <2>2. Started'
    BY <1>8 DEF Node!Serve, Node!Suspend, Started, Node!StoresJoined, Node!ContractsRefused, Node!role
  <2> QED
    BY <2>1, <2>2
<1>9. CASE Node!Stop
  <2>1. NodeTyped' /\ WorkHeld'
    BY <1>1, <1>9 DEF Node!Stop, NodeTyped
  <2>2. Started'
    BY <1>9 DEF Node!Stop, Started, NodeTyped, Node!StoresJoined, Node!StopClears
  <2> QED
    BY <2>1, <2>2
<1>10. CASE Node!Exit
  <2>1. NodeTyped' /\ WorkHeld'
    BY <1>10 DEF Node!Exit, Node!Fresh, NodeTyped, WorkHeld, Node!All
  <2>2. Started'
    BY <1>10 DEF Node!Exit, Node!Fresh, Started
  <2> QED
    BY <2>1, <2>2
<1>11. ASSUME NEW j \in Node!Job, Node!Begin(j) PROVE NodeInv'
  <2> DEFINE how == IF nodeBoot \in {"stopping", "closed"} THEN "late" ELSE IF suspended THEN "suspended" ELSE "yes"
  <2>1. /\ Node!May(j) /\ busy' = [busy EXCEPT ![j] = how]
        /\ UNCHANGED <<roles, nodeBoot, stores, xid, self, nodeGossip, computeNode, contractHost, validationWorker, leadWorker,
                       nodeTimers, served, wrote>>
    BY <1>11 DEF Node!Begin
  <2>2. how \in {"yes", "late", "suspended"} /\ (how = "late" => nodeBoot \in {"stopping", "closed"}) /\ (how = "suspended" => suspended)
    OBVIOUS
  <2> HIDE DEF how
  <2>3. NodeTyped' /\ busy'[j] = how /\ \A o \in Node!Job \ {j} : busy'[o] = busy[o]
    BY <2>1, <2>2 DEF NodeTyped
  <2>4. Started'
    BY <2>1 DEF Started, Node!StoresJoined, Node!ContractsRefused, Node!role
  <2>5. nodeBoot \in {"refused", "roles", "running", "stopping", "closed"}
    BY <2>1 DEF Node!May, Node!MaySubmit, Node!Job, Started
  <2>6. \A s \in Node!Store : stores[s] # "opening"
    BY <2>5 DEF Started, Node!StoresJoined
  <2>7. how = "late" => j = "reap"
    BY <2>1, <2>2 DEF Node!May, Node!MaySubmit, Node!Job, Started
  <2>8. how = "suspended" => j \notin {"submit", "retry", "seal"}
    BY <2>1, <2>2 DEF Node!May, Node!MaySubmit
  <2>9. WorkHeld'
    BY <2>1, <2>3, <2>6, <2>7, <2>8 DEF WorkHeld
  <2> QED
    BY <2>3, <2>4, <2>9
<1>12. ASSUME NEW j \in Node!Job, Node!End(j) PROVE NodeInv'
  <2>1. /\ busy[j] # "no" /\ busy' = [busy EXCEPT ![j] = "no"]
        /\ wrote' = wrote \cup {<<j, busy[j], stores["ledger"]>>, <<j, busy[j], stores["state"]>>}
        /\ UNCHANGED <<roles, nodeBoot, stores, xid, self, nodeGossip, computeNode, contractHost, validationWorker, leadWorker,
                       nodeTimers, served>>
    BY <1>12 DEF Node!End
  <2>2. NodeTyped' /\ \A o \in Node!Job : busy'[o] = IF o = j THEN "no" ELSE busy[o]
    BY <2>1 DEF NodeTyped
  <2>3. Started'
    BY <2>1 DEF Started, Node!StoresJoined, Node!ContractsRefused, Node!role
  <2>4. \A w \in wrote' : w \in wrote \/ (w[1] = j /\ w[2] = busy[j] /\ \E s \in Node!Store : w[3] = stores[s])
    BY <2>1 DEF Node!Store
  <2>5. WorkHeld'
    BY <2>1, <2>2, <2>4 DEF WorkHeld
  <2> QED
    BY <2>2, <2>3, <2>5
<1> QED
  BY <1>2, <1>3, <1>4, <1>5, <1>6, <1>7, <1>8, <1>9, <1>10, <1>11, <1>12 DEF Node!Next

\* At most one process writes a store and a node that is up can be reached, whatever order processes start, stop and
\* clear stale files in; and a node starts nothing before its stores are read, leaves nothing running after stop
\* and holds back what looks at its suspension (xmbl-node.js, core/index.js).
THEOREM LifecycleSoundHolds == Spec => []LifecycleSound
<1>1. NodeInv => Node!NodeSound
  <2> SUFFICES ASSUME NodeInv PROVE Node!NodeSound
    OBVIOUS
  <2>1. Node!ReadyFirst
    BY DEF NodeInv, Started, WorkHeld, Node!ReadyFirst
  <2>2. Node!QuietAfterStop /\ Node!HeldBack
    BY DEF NodeInv, WorkHeld, Node!QuietAfterStop, Node!HeldBack
  <2>3. Node!AddressKept /\ Node!NotHalfOn
    BY DEF NodeInv, Started, Node!AddressKept, Node!NotHalfOn, Node!ContractsRefused
  <2> QED
    BY <2>1, <2>2, <2>3 DEF Node!NodeSound
<1>2. DaemonInv /\ NodeInv => LifecycleSound
  BY <1>1, DaemonSound DEF LifecycleSound
<1> QED
  BY <1>2, ProcessesPart, DaemonInit, DaemonNext, NodePart, NodeInit, NodeNext, PTL DEF Processes!DaemonSpec, Node!NodeSpec

----------------------------------------------------------------------------
(* The mesh                                                                 *)

LEMMA NetPart == Spec => Net!NetSpec
<1>1. Init => Net!Init
  BY DEF Init
<1>2. [Next]_vars => [Net!Next]_(Net!netVars)
  BY DEF Next, vars, networkVars, Net!netVars
<1> QED
  BY <1>1, <1>2, PTL DEF Spec, Net!NetSpec

\* The given addresses stay, and what answered at one is at its box; the file is whole from the first save on; a
\* node that is down holds and tracks nothing.
NetInv ==
  /\ nodeUp \in BOOLEAN /\ saved \in BOOLEAN /\ lateConnect \in BOOLEAN
  /\ Given \ {Self} \subseteq addrs
  /\ \A b \in Given : resolved[b] # Net!None => resolved[b].box = b
  /\ DOMAIN resolved = Given
  /\ saved => file.whole
  /\ ~nodeUp => held = {} /\ connections = {}
  /\ Net!Tracked

LEMMA NetInit == Net!Init => NetInv
BY DEF Net!Init, NetInv, Net!NotMine, Net!Tracked

LEMMA NetOpens ==
  ASSUME NEW p, NetInv, nodeUp, Net!Opens(p)
  PROVE  nodeUp' \in BOOLEAN /\ (~nodeUp' => held' = {} /\ connections' = {}) /\ (lateConnect \/ connections' = held')
BY DEF NetInv, Net!Opens, Net!Dies, Net!Tracked

LEMMA NetNext == NetInv /\ [Net!Next]_(Net!netVars) => NetInv'
<1> SUFFICES ASSUME NetInv, [Net!Next]_(Net!netVars) PROVE NetInv'
  OBVIOUS
<1> USE DEF NetInv, Net!Tracked
<1>1. CASE UNCHANGED Net!netVars
  BY <1>1 DEF Net!netVars
<1>2. CASE Net!Round \/ Net!SaveTmp
  BY <1>2 DEF Net!Round, Net!SaveTmp, Net!Busy
<1>11. CASE Net!Connected
  <2>1. /\ nodeUp /\ UNCHANGED <<nodeUp, addrs, resolved, file, saved, held>>
        /\ lateConnect' \in BOOLEAN
        /\ lateConnect' \/ (~lateConnect /\ connecting \in held)
        /\ connections' = connections \/ connections' = connections \cup {connecting}
    BY <1>11 DEF Net!Connected, Net!Busy
  <2> QED
    BY <2>1
<1>3. ASSUME NEW t \in pending, Net!Answered(t) PROVE NetInv'
  <2>1. nodeUp /\ UNCHANGED <<addrs, saved, file, lateConnect>>
    BY <1>3 DEF Net!Answered, Net!Busy
  <2>2. nodeUp' \in BOOLEAN /\ (~nodeUp' => held' = {} /\ connections' = {}) /\ (lateConnect \/ connections' = held')
    <3>1. Net!Opens(Net!Peer(t.box))
      BY <1>3 DEF Net!Answered
    <3> QED
      BY <2>1, <3>1, NetOpens
  <2>3. resolved' = resolved \/ resolved' = [resolved EXCEPT ![t.box] = Net!Peer(t.box)]
    BY <1>3 DEF Net!Answered
  <2>4. Net!Peer(t.box).box = t.box
    BY DEF Net!Peer
  <2>5. DOMAIN resolved' = Given /\ \A b \in Given : resolved'[b] # Net!None => resolved'[b].box = b
    BY <2>3, <2>4
  <2> QED
    BY <2>1, <2>2, <2>5
<1>4. ASSUME NEW t \in pending, Net!NotAnswered(t) \/ Net!SelfDialed(t) PROVE NetInv'
  BY <1>4 DEF Net!NotAnswered, Net!SelfDialed, Net!Busy, Net!GivenLeft
<1>5. ASSUME NEW b \in Net!Other, Net!Discovered(b) \/ Net!Inbound(b) PROVE NetInv'
  <2>1. nodeUp /\ UNCHANGED <<addrs, resolved, saved, file, lateConnect>> /\ Net!Opens(Net!Peer(b))
    BY <1>5 DEF Net!Discovered, Net!Inbound, Net!Busy
  <2> QED
    BY <2>1, NetOpens
<1>6. ASSUME NEW b \in Net!Other, Net!Connect(b) PROVE NetInv'
  BY <1>6 DEF Net!Connect, Net!Dies, Net!Busy
<1>7. ASSUME NEW b \in Net!Other, Net!Leaves(b) \/ \E k \in 1 .. MaxKey : Net!Returns(b, k) PROVE NetInv'
  BY <1>7 DEF Net!Leaves, Net!Returns, Net!Busy
<1>8. CASE Net!Rotate \/ Net!Rename
  BY <1>8 DEF Net!Rotate, Net!Rename, Net!Renamed, Net!Whole
<1>9. CASE Net!Death
  BY <1>9 DEF Net!Death, Net!Dies
<1>10. CASE Net!Boot
  BY <1>10 DEF Net!Boot, Net!NotMine
<1> QED
  BY <1>1, <1>2, <1>3, <1>4, <1>5, <1>6, <1>7, <1>8, <1>9, <1>10, <1>11 DEF Net!Next

\* A given address that is not held is among the candidates: it is there, under what answered or its first key.
LEMMA NetSound == NetInv => Net!BookSurvives /\ Net!StillDialing /\ Net!Tracked
<1> SUFFICES ASSUME NetInv PROVE Net!BookSurvives /\ Net!StillDialing /\ Net!Tracked
  OBVIOUS
<1>1. ASSUME NEW b \in Given \ {Self}, ~\E p \in held : p.box = b PROVE \E t \in Net!Candidates : t.box = b
  <2> DEFINE id == IF resolved[b] # Net!None THEN resolved[b] ELSE [box |-> b, key |-> 1]
             t == [box |-> b, id |-> id, given |-> TRUE]
  <2>1. t \in Net!FromGiven
    BY DEF NetInv, Net!FromGiven
  <2>2. id.box = b
    BY DEF NetInv
  <2>3. t.id = id /\ t.box = b
    OBVIOUS
  <2> HIDE DEF id
  <2>4. t.id \notin held
    BY <1>1, <2>2, <2>3
  <2>5. t \in Net!Candidates
    BY <2>1, <2>4 DEF Net!Candidates
  <2> QED
    BY <2>3, <2>5
<1> QED
  BY <1>1 DEF NetInv, Net!BookSurvives, Net!StillDialing
----------------------------------------------------------------------------
(* The walk                                                                 *)

LEMMA WalkPart == Spec => Walks!WalkSpec
<1>1. Init => Walks!Init
  BY DEF Init
<1>2. [Next]_vars => [Walks!Next]_(Walks!walkVars)
  BY DEF Next, vars, walkVars, Walks!walkVars
<1> QED
  BY <1>1, <1>2, PTL DEF Spec, Walks!WalkSpec

LEMMA WalkCardinality == \A S : Walks!Cardinality(S) = Cardinality(S)
BY DEF Walks!Cardinality, Cardinality, Walks!IsFiniteSet, IsFiniteSet

Waits == {c \in Consumer : consumer[c] = "waiting"}
In == {c \in Consumer : consumer[c] # "out"}

\* A loop that does not run is off, one that runs has its controller or was aborted; a consumer has one to come.
WalkInv ==
  /\ consumer \in [Consumer -> {"out", "waiting", "holding"}]
  /\ walking \in BOOLEAN /\ controller \in BOOLEAN /\ aborted \in BOOLEAN /\ shutDown \in BOOLEAN /\ listeners \in Int
  /\ ~walking <=> loop = "off"
  /\ walking => controller \/ aborted
  /\ In # {} /\ ~shutDown => walking
  /\ listeners = Cardinality(Waits) + (IF loop \in {"pause", "held"} THEN 1 ELSE 0)

LEMMA Walkers == (Walks!walkers > 0 <=> In # {}) /\ (Walks!walkers = 0 <=> In = {}) /\ Walks!walkers \in Nat
<1>1. IsFiniteSet(In)
  BY ConsumerAssumption, FS_Subset DEF In
<1>2. Walks!walkers = Cardinality(In)
  BY WalkCardinality DEF Walks!walkers, In
<1> QED
  BY <1>1, <1>2, FS_CardinalityType, FS_EmptySet

LEMMA WalkInit == Walks!Init => WalkInv
<1> SUFFICES ASSUME Walks!Init PROVE WalkInv
  OBVIOUS
<1>1. Waits = {} /\ In = {}
  BY DEF Walks!Init, Waits, In
<1>2. Cardinality(Waits) = 0
  BY <1>1, FS_EmptySet
<1>3. /\ ~walking /\ ~controller /\ ~aborted /\ ~shutDown /\ listeners = 0 /\ loop = "off"
      /\ walking \in BOOLEAN /\ controller \in BOOLEAN /\ aborted \in BOOLEAN /\ shutDown \in BOOLEAN
      /\ consumer \in [Consumer -> {"out", "waiting", "holding"}]
  BY DEF Walks!Init
<1> QED
  BY <1>1, <1>2, <1>3 DEF WalkInv

\* Who begins and who ends to wait, as numbers.
LEMMA WaitCounts ==
  /\ Cardinality(Waits) \in Nat
  /\ \A c \in Consumer : /\ c \notin Waits => Cardinality(Waits \cup {c}) = Cardinality(Waits) + 1
                         /\ c \in Waits => Cardinality(Waits \ {c}) = Cardinality(Waits) - 1
  /\ Cardinality({}) = 0
<1>1. IsFiniteSet(Waits)
  BY ConsumerAssumption, FS_Subset DEF Waits
<1> QED
  BY <1>1, FS_CardinalityType, FS_AddElement, FS_RemoveElement, FS_EmptySet

\* What startWalk leaves behind.
LEMMA Starts ==
  ASSUME Walks!Started
  PROVE  /\ walking' = TRUE /\ controller' = TRUE /\ aborted' = FALSE /\ loop' = "first"
BY DEF Walks!Started

LEMMA WalkNext == WalkInv /\ [Walks!Next]_(Walks!walkVars) => WalkInv'
<1> SUFFICES ASSUME WalkInv, [Walks!Next]_(Walks!walkVars) PROVE WalkInv'
  OBVIOUS
<1>1. CASE UNCHANGED Walks!walkVars
  BY <1>1 DEF Walks!walkVars, WalkInv, Waits, In
<1>2. ASSUME NEW c \in Consumer, Walks!Walk(c) PROVE WalkInv'
  <2>1. /\ Waits' = Waits \cup {c} /\ c \notin Waits /\ listeners' = listeners + 1
        /\ consumer' \in [Consumer -> {"out", "waiting", "holding"}] /\ UNCHANGED shutDown
    BY <1>2 DEF Walks!Walk, Waits, WalkInv
  <2>2. walking' \in BOOLEAN /\ controller' \in BOOLEAN /\ aborted' \in BOOLEAN /\ walking' /\ (controller' \/ aborted')
        /\ (~walking' <=> loop' = "off") /\ (loop' \in {"pause", "held"} <=> loop \in {"pause", "held"})
    <3>1. CASE walking
      BY <1>2, <3>1 DEF Walks!Walk, Walks!Kept, WalkInv
    <3>2. CASE ~walking
      <4>1. Walks!Started
        BY <1>2, <3>2 DEF Walks!Walk
      <4> QED
        BY <3>2, <4>1, Starts DEF WalkInv
    <3> QED
      BY <3>1, <3>2
  <2> QED
    BY <2>1, <2>2, WaitCounts DEF WalkInv
<1>3. ASSUME NEW c \in Consumer, Walks!Again(c) PROVE WalkInv'
  <2>1. Waits' = Waits \cup {c} /\ c \notin Waits /\ In' = In
    BY <1>3 DEF Walks!Again, Waits, In, WalkInv
  <2> QED
    BY <1>3, <2>1, WaitCounts DEF Walks!Again, WalkInv
<1>4. ASSUME NEW c \in Consumer, Walks!Leave(c) PROVE WalkInv'
  <2>1. In' \subseteq In /\ consumer' \in [Consumer -> {"out", "waiting", "holding"}]
    BY <1>4 DEF Walks!Leave, In, WalkInv
  <2>2. UNCHANGED <<walking, loop, shutDown>>
    BY <1>4 DEF Walks!Leave
  <2>3. \E last \in BOOLEAN : aborted' = (aborted \/ (last /\ controller)) /\ controller' = (controller /\ ~last)
    <3> DEFINE last == \A d \in Consumer \ {c} : consumer[d] = "out"
    <3>1. aborted' = (aborted \/ (last /\ controller)) /\ controller' = (controller /\ ~last)
      BY <1>4 DEF Walks!Leave
    <3> HIDE DEF last
    <3>2. CASE last
      BY <3>1, <3>2
    <3>3. CASE ~last
      BY <3>1, <3>3
    <3> QED
      BY <3>2, <3>3
  <2>4. listeners' = Cardinality(Waits') + (IF loop' \in {"pause", "held"} THEN 1 ELSE 0) /\ listeners' \in Int
    <3>1. CASE consumer[c] = "waiting"
      <4>1. Waits' = Waits \ {c} /\ c \in Waits /\ listeners' = listeners - 1
        BY <1>4, <3>1 DEF Walks!Leave, Waits, WalkInv
      <4> QED
        BY <2>2, <4>1, WaitCounts DEF WalkInv
    <3>2. CASE consumer[c] # "waiting"
      <4>1. Waits' = Waits /\ listeners' = listeners
        BY <1>4, <3>2 DEF Walks!Leave, Waits, WalkInv
      <4> QED
        BY <2>2, <4>1 DEF WalkInv
    <3> QED
      BY <3>1, <3>2
  <2> QED
    BY <2>1, <2>2, <2>3, <2>4 DEF WalkInv
<1>5. CASE Walks!Head
  <2>1. UNCHANGED <<consumer, walking, aborted, controller, shutDown>> /\ loop \in {"first", "head"}
    BY <1>5 DEF Walks!Head
  <2>2. \/ loop' \in {"ended", "query"} /\ UNCHANGED listeners
        \/ loop' = "pause" /\ listeners' = listeners + 1
    BY <1>5 DEF Walks!Head
  <2> QED
    BY <2>1, <2>2, WaitCounts DEF WalkInv, Waits, In
<1>6. CASE Walks!PauseEnds \/ Walks!HeldEnds
  <2>1. /\ UNCHANGED <<consumer, walking, aborted, controller, shutDown>> /\ loop \in {"pause", "held"}
        /\ loop' \in {"ended", "query"} /\ listeners' = listeners - 1
    BY <1>6 DEF Walks!PauseEnds, Walks!HeldEnds
  <2> QED
    BY <2>1, WaitCounts DEF WalkInv, Waits, In
<1>7. ASSUME NEW fresh \in BOOLEAN, Walks!Turn(fresh) PROVE WalkInv'
  <2>1. Waits' = {} /\ In' = In /\ consumer' \in [Consumer -> {"out", "waiting", "holding"}]
    BY <1>7 DEF Walks!Turn, WalkInv, Waits, In
  <2>2. /\ loop = "query" /\ UNCHANGED <<walking, aborted, controller, shutDown>>
        /\ \/ loop' = "held" /\ listeners' = listeners - Cardinality(Waits) + 1
           \/ loop' = "query" /\ listeners' = listeners - Cardinality(Waits) + 0
    BY <1>7, WalkCardinality DEF Walks!Turn, Waits
  <2> QED
    BY <2>1, <2>2, WaitCounts DEF WalkInv
<1>8. ASSUME NEW fresh \in BOOLEAN, NEW failed \in BOOLEAN, Walks!QueryEnds(fresh, failed) PROVE WalkInv'
  <2>1. loop = "query" /\ loop' \in {"ended", "head"} /\ UNCHANGED <<walking, shutDown>>
    BY <1>8 DEF Walks!QueryEnds
  <2>2. CASE failed /\ ~Walks!Signalled
    <3>1. Waits' = {} /\ In' \subseteq In /\ consumer' \in [Consumer -> {"out", "waiting", "holding"}]
      BY <1>8, <2>2 DEF Walks!QueryEnds, WalkInv, Waits, In
    <3>2. listeners' = listeners - Cardinality(Waits)
      BY <1>8, <2>2, WalkCardinality DEF Walks!QueryEnds, Waits
    <3>3. \E last \in BOOLEAN : aborted' = (aborted \/ last) /\ controller' = (controller /\ ~last)
      <4> DEFINE last == Waits # {} /\ Walks!walkers = Walks!Cardinality(Waits)
      <4>1. aborted' = (aborted \/ last) /\ controller' = (controller /\ ~last)
        BY <1>8, <2>2 DEF Walks!QueryEnds, Waits
      <4> HIDE DEF last
      <4>2. CASE last
        BY <4>1, <4>2
      <4>3. CASE ~last
        BY <4>1, <4>3
      <4> QED
        BY <4>2, <4>3
    <3> QED
      BY <2>1, <3>1, <3>2, <3>3, WaitCounts DEF WalkInv
  <2>3. CASE ~(failed /\ ~Walks!Signalled)
    <3>1. UNCHANGED <<consumer, listeners, aborted, controller>>
      BY <1>8, <2>3 DEF Walks!QueryEnds
    <3> QED
      BY <2>1, <3>1 DEF WalkInv, Waits, In
  <2> QED
    BY <2>2, <2>3
<1>9. CASE Walks!LoopEnds
  <2>1. UNCHANGED <<consumer, listeners, shutDown>> /\ loop = "ended"
    BY <1>9 DEF Walks!LoopEnds
  <2>2. CASE Walks!Restarts
    <3>1. Walks!Started
      BY <1>9, <2>2 DEF Walks!LoopEnds
    <3> QED
      BY <2>1, <3>1, Starts DEF WalkInv, Waits, In
  <2>3. CASE ~Walks!Restarts
    <3>1. walking' = FALSE /\ loop' = "off" /\ UNCHANGED <<aborted, controller>>
      BY <1>9, <2>3 DEF Walks!LoopEnds
    <3>2. In = {} \/ shutDown
      BY <2>3, Walkers DEF Walks!Restarts, WalkInv
    <3> QED
      BY <2>1, <3>1, <3>2 DEF WalkInv, Waits, In
  <2> QED
    BY <2>2, <2>3
<1>10. CASE Walks!ShutDown
  BY <1>10 DEF Walks!ShutDown, WalkInv, Waits, In
<1> QED
  BY <1>1, <1>2, <1>3, <1>4, <1>5, <1>6, <1>7, <1>8, <1>9, <1>10 DEF Walks!Next

LEMMA WalkSound == WalkInv => Walks!WalkServed /\ Walks!NoLeak
<1> SUFFICES ASSUME WalkInv PROVE Walks!WalkServed /\ Walks!NoLeak
  OBVIOUS
<1>1. Walks!WalkServed
  BY Walkers DEF WalkInv, Walks!WalkServed
<1>2. Walks!NoLeak
  BY WalkCardinality DEF WalkInv, Walks!NoLeak, Waits
<1> QED
  BY <1>1, <1>2

----------------------------------------------------------------------------
(* A validator's reports                                                    *)

LEMMA ReportsPart == Spec => Batches!GossipSpec
<1>1. Init => Batches!Init
  BY DEF Init
<1>2. [Next]_vars => [Batches!Next]_(Batches!gossipVars)
  BY DEF Next, vars, gossipVars, Batches!gossipVars
<1> QED
  BY <1>1, <1>2, PTL DEF Spec, Batches!GossipSpec

LEMMA ItemsCardinality == \A S : Batches!Cardinality(S) = Cardinality(S)
BY DEF Batches!Cardinality, Cardinality, Batches!IsFiniteSet, IsFiniteSet

Item == [kind : {"raw_tx", "validation_report"}, tx : GossipTx, ts : Nat]
Reports(t, i) == i.kind = "validation_report" /\ i.tx = t

ReportsTyped ==
  /\ gossipMinted \in Nat /\ batchOk \in BOOLEAN /\ exposed \in BOOLEAN
  /\ task \in [GossipTx -> {"none", "open", "complete"}] /\ myReports \in [GossipTx -> Nat]
  /\ \A p \in Old : caps[p] \in {"unheard", "old"}
  /\ DOMAIN caps = GossipPeer
  /\ outbox \subseteq Item /\ wire \subseteq [to : GossipPeer, items : SUBSET Item]
  /\ \A i \in outbox : i.kind = "validation_report" => i.ts > 0
  /\ \A m \in wire : \A i \in m.items : i.kind = "validation_report" => i.ts > 0
  /\ pendingReports \in [GossipPeer -> [GossipTx -> Nat]] /\ counted \in [GossipPeer -> [GossipTx -> Nat]]

\* Whatever speaks of t speaks of v: the store, the reports on their way and what each peer has. Before the task
\* is complete nothing does.
Only(t, v) ==
  /\ task[t] # "complete" => v = 0
  /\ myReports[t] \in {0, v}
  /\ \A i \in outbox : Reports(t, i) => i.ts = v
  /\ \A m \in wire : \A i \in m.items : Reports(t, i) => i.ts = v
  /\ \A p \in GossipPeer : pendingReports[p][t] \in {0, v} /\ counted[p][t] \in {0, v}

OneValue == \A t \in GossipTx \ remade : \E v \in Nat : Only(t, v)

\* What may become a batch was allowed to, which exposed the peers not heard from if any cannot read it.
Allows ==
  /\ outbox # {} \/ batchOk => exposed \/ Old = {}
  /\ \A m \in wire : m.to \in Old /\ Cardinality(m.items) > 1 => exposed

ReportsInv == ReportsTyped /\ OneValue /\ Allows

LEMMA ReportsInit == Batches!Init => ReportsInv
<1> SUFFICES ASSUME Batches!Init PROVE ReportsInv
  OBVIOUS
<1>1. ReportsTyped
  BY OldAssumption DEF Batches!Init, ReportsTyped, Batches!PerTx, Batches!PerPeer
<1>2. \A t \in GossipTx : Only(t, 0)
  BY DEF Batches!Init, Only, Batches!PerTx, Batches!PerPeer
<1>3. Allows
  BY DEF Batches!Init, Allows
<1> QED
  BY <1>1, <1>2, <1>3 DEF ReportsInv, OneValue

LEMMA PublishSends ==
  ASSUME ReportsInv, NEW items \in SUBSET Item, \A i \in items : i.kind = "validation_report" => i.ts > 0,
         Batches!Publish(items), UNCHANGED <<batchOk, exposed>>
  PROVE  /\ outbox' \subseteq outbox \cup items
         /\ \A m \in wire' : m \in wire \/ (m \in [to : GossipPeer, items : SUBSET Item] /\ m.items \subseteq items)
         /\ Allows'
<1>1. CASE batchOk
  <2>1. outbox' = outbox \cup items /\ wire' = wire
    BY <1>1 DEF Batches!Publish
  <2> QED
    BY <1>1, <2>1 DEF ReportsInv, Allows
<1>2. CASE ~batchOk
  <2>1. outbox' = outbox /\ wire' = wire \cup UNION {Batches!Sent({i}) : i \in items}
    BY <1>2 DEF Batches!Publish
  <2>2. \A m \in wire' : m \in wire \/ \E i \in items : \E p \in GossipPeer : m = [to |-> p, items |-> {i}]
    BY <2>1 DEF Batches!Sent
  <2>3. \A i : Cardinality({i}) = 1
    BY FS_Singleton
  <2>4. \A m \in wire' : m \in wire \/ (m \in [to : GossipPeer, items : SUBSET Item] /\ m.items \subseteq items
                                       /\ Cardinality(m.items) = 1)
    <3>1. ASSUME NEW i \in items, NEW p \in GossipPeer, NEW m, m = [to |-> p, items |-> {i}]
          PROVE  m \in [to : GossipPeer, items : SUBSET Item] /\ m.items \subseteq items /\ Cardinality(m.items) = 1
      <4>1. {i} \in SUBSET Item /\ m.items = {i}
        BY <3>1
      <4> QED
        BY <2>3, <3>1, <4>1
    <3> QED
      BY <2>2, <3>1
  <2>5. Allows'
    <3>1. \A m \in wire' : m.to \in Old /\ Cardinality(m.items) > 1 => exposed'
      BY <2>4 DEF ReportsInv, Allows
    <3>2. outbox' # {} \/ batchOk' => exposed' \/ Old = {}
      BY <2>1 DEF ReportsInv, Allows
    <3> QED
      BY <3>1, <3>2 DEF Allows
  <2> QED
    BY <2>1, <2>4, <2>5
<1> QED
  BY <1>1, <1>2

\* A step that sends what speaks of the values there are keeps both.
LEMMA PublishKeeps ==
  ASSUME ReportsInv, NEW items \in SUBSET Item, \A i \in items : i.kind = "validation_report" => i.ts > 0,
         Batches!Publish(items), UNCHANGED <<batchOk, exposed, caps, pendingReports, counted>>,
         gossipMinted' \in Nat,
         task' \in [GossipTx -> {"none", "open", "complete"}], myReports' \in [GossipTx -> Nat]
  PROVE  ReportsTyped' /\ Allows'
<1>1. outbox' \subseteq Item /\ wire' \subseteq [to : GossipPeer, items : SUBSET Item]
  BY PublishSends DEF ReportsInv, ReportsTyped
<1>2. \A i \in outbox' : i.kind = "validation_report" => i.ts > 0
  BY PublishSends DEF ReportsInv, ReportsTyped
<1>3. \A m \in wire' : \A i \in m.items : i.kind = "validation_report" => i.ts > 0
  BY PublishSends DEF ReportsInv, ReportsTyped
<1>4. Allows'
  BY PublishSends
<1> QED
  BY <1>1, <1>2, <1>3, <1>4 DEF ReportsInv, ReportsTyped

LEMMA PublishSpeaks ==
  ASSUME ReportsInv, NEW items \in SUBSET Item, \A i \in items : i.kind = "validation_report" => i.ts > 0,
         Batches!Publish(items), UNCHANGED <<batchOk, exposed, pendingReports, counted>>,
         NEW t \in GossipTx, NEW v \in Nat, Only(t, v) \/ Only(t, 0),
         task'[t] # "complete" => v = 0, myReports'[t] \in {0, v}, \A i \in items : Reports(t, i) => i.ts = v
  PROVE  Only(t, v)'
<1>1. \A i \in outbox : Reports(t, i) => i.ts = v
  BY DEF Only, ReportsInv, ReportsTyped, Reports
<1>2. \A m \in wire : \A i \in m.items : Reports(t, i) => i.ts = v
  BY DEF Only, ReportsInv, ReportsTyped, Reports
<1>3. \A i \in outbox' : Reports(t, i) => i.ts = v
  BY <1>1, PublishSends
<1>4. \A m \in wire' : \A i \in m.items : Reports(t, i) => i.ts = v
  BY <1>2, PublishSends
<1>5. \A p \in GossipPeer : pendingReports'[p][t] \in {0, v} /\ counted'[p][t] \in {0, v}
  BY DEF Only
<1> QED
  BY <1>3, <1>4, <1>5 DEF Only, Reports

LEMMA ValidateKeeps == ASSUME ReportsInv, NEW t \in GossipTx, Batches!Validate(t) PROVE ReportsInv'
<1>0. PICK ts \in Nat : ts = gossipMinted + 1
  BY DEF ReportsInv, ReportsTyped
<1>1. /\ task[t] = "open" /\ gossipMinted' = ts /\ ts \in Nat /\ ts > 0
      /\ task' = [task EXCEPT ![t] = "complete"] /\ myReports' = [myReports EXCEPT ![t] = ts]
      /\ Batches!Publish({Batches!Rep(t, ts)}) /\ UNCHANGED <<batchOk, exposed, caps, pendingReports, counted, remade>>
  BY <1>0 DEF Batches!Validate, ReportsInv, ReportsTyped
<1>2. Batches!Rep(t, ts) \in Item /\ Batches!Rep(t, ts).ts = ts /\ Batches!Rep(t, ts).tx = t
  BY <1>1 DEF Batches!Rep, Item
<1>3. ReportsTyped' /\ Allows'
  <2>1. task' \in [GossipTx -> {"none", "open", "complete"}] /\ myReports' \in [GossipTx -> Nat]
    BY <1>1 DEF ReportsInv, ReportsTyped
  <2> QED
    BY <1>1, <1>2, <2>1, PublishKeeps
<1>4. ASSUME NEW u \in GossipTx \ remade' PROVE \E v \in Nat : Only(u, v)'
  <2>1. PICK v \in Nat : Only(u, v)
    BY <1>1, <1>4 DEF ReportsInv, OneValue
  <2>2. CASE u = t
    <3>1. v = 0
      BY <1>1, <2>1, <2>2 DEF Only
    <3>2. task'[u] = "complete" /\ myReports'[u] = ts
      BY <1>1, <2>2 DEF ReportsInv, ReportsTyped
    <3>3. Only(u, 0) /\ \A i \in {Batches!Rep(t, ts)} : Reports(u, i) => i.ts = ts
      BY <1>2, <2>1, <3>1
    <3>4. Only(u, ts)'
      BY <1>1, <1>2, <3>2, <3>3, PublishSpeaks
    <3> QED
      BY <1>1, <3>4
  <2>3. CASE u # t
    <3>1. task'[u] = task[u] /\ myReports'[u] = myReports[u]
      BY <1>1, <2>3 DEF ReportsInv, ReportsTyped
    <3>2. \A i \in {Batches!Rep(t, ts)} : Reports(u, i) => i.ts = v
      BY <1>2, <2>3 DEF Reports
    <3>3. (task'[u] # "complete" => v = 0) /\ myReports'[u] \in {0, v}
      BY <2>1, <3>1 DEF Only
    <3>4. Only(u, v)'
      BY <1>1, <1>2, <2>1, <3>2, <3>3, PublishSpeaks
    <3> QED
      BY <3>4
  <2> QED
    BY <2>2, <2>3
<1> QED
  BY <1>3, <1>4 DEF ReportsInv, OneValue

LEMMA RetryKeeps == ASSUME ReportsInv, NEW t \in GossipTx, Batches!Retry(t) PROVE ReportsInv'
<1> DEFINE items == {Batches!Raw(t)} \cup Batches!Reattest(t)
<1>1. Batches!Publish(items) /\ UNCHANGED <<gossipMinted, task, myReports, batchOk, exposed, caps, pendingReports, counted, remade>>
  BY DEF Batches!Retry
<1>2. \A i \in items : i \in Item /\ i.tx = t /\ (i.kind = "validation_report" => i.ts = myReports[t] /\ i.ts > 0)
  BY DEF Batches!Raw, Batches!Rep, Batches!Reattest, Item, ReportsInv, ReportsTyped
<1> HIDE DEF items
<1>3. ReportsTyped' /\ Allows'
  BY <1>1, <1>2, PublishKeeps DEF ReportsInv, ReportsTyped
<1>4. ASSUME NEW u \in GossipTx \ remade' PROVE \E v \in Nat : Only(u, v)'
  <2>1. PICK v \in Nat : Only(u, v)
    BY <1>1, <1>4 DEF ReportsInv, OneValue
  <2>2. (task'[u] # "complete" => v = 0) /\ myReports'[u] \in {0, v}
    BY <1>1, <2>1 DEF Only
  <2>3. \A i \in items : Reports(u, i) => i.ts = v
    BY <1>2, <2>1 DEF Reports, Only
  <2>4. Only(u, v)'
    BY <1>1, <1>2, <2>1, <2>2, <2>3, PublishSpeaks
  <2> QED
    BY <2>4
<1> QED
  BY <1>3, <1>4 DEF ReportsInv, OneValue

\* What a peer makes of what it reads: what it had, or a report it read.
LEMMA DeliverKeeps == ASSUME ReportsInv, NEW m \in wire, Batches!Deliver(m) PROVE ReportsInv'
<1> DEFINE p == m.to
           R == Batches!Read(m)
           seen == [t \in GossipTx |-> {i.ts : i \in {x \in R : x.kind = "validation_report" /\ x.tx = t}}]
<1>1. m \in [to : GossipPeer, items : SUBSET Item] /\ p \in GossipPeer
  BY DEF ReportsInv, ReportsTyped
<1>2. R \subseteq m.items
  BY DEF Batches!Read
<1>3. \A t \in GossipTx : \A ts \in seen[t] : ts \in Nat /\ \E i \in m.items : Reports(t, i) /\ i.ts = ts
  BY <1>1, <1>2 DEF Reports, Item
<1>4. /\ UNCHANGED <<caps, batchOk, task, gossipMinted, myReports, outbox, exposed, remade>> /\ wire' = wire \ {m}
      /\ counted' = [q \in GossipPeer |-> counted'[q]] /\ pendingReports' = [q \in GossipPeer |-> pendingReports'[q]]
      /\ \A q \in GossipPeer : q # p => counted'[q] = counted[q] /\ pendingReports'[q] = pendingReports[q]
      /\ counted'[p] = [t \in GossipTx |-> counted'[p][t]] /\ pendingReports'[p] = [t \in GossipTx |-> pendingReports'[p][t]]
      /\ \A t \in GossipTx :
           /\ counted'[p][t] \in {counted[p][t], pendingReports[p][t], 0} \/ counted'[p][t] \in seen[t]
           /\ pendingReports'[p][t] \in {pendingReports[p][t], 0} \/ pendingReports'[p][t] \in seen[t]
  <2> DEFINE known == hasTx[p] \cup {i.tx : i \in {x \in R : x.kind = "raw_tx"}}
             C == [t \in GossipTx |-> IF counted[p][t] > 0 \/ t \notin known THEN counted[p][t]
                            ELSE IF pendingReports[p][t] > 0 THEN pendingReports[p][t]
                            ELSE IF seen[t] # {} THEN CHOOSE ts \in seen[t] : TRUE ELSE 0]
             P == [t \in GossipTx |-> IF t \in known THEN 0
                            ELSE IF pendingReports[p][t] = 0 /\ seen[t] # {} THEN CHOOSE ts \in seen[t] : TRUE
                            ELSE pendingReports[p][t]]
  <2>1. /\ counted' = [counted EXCEPT ![p] = C] /\ pendingReports' = [pendingReports EXCEPT ![p] = P]
        /\ UNCHANGED <<caps, batchOk, task, gossipMinted, myReports, outbox, exposed, remade>> /\ wire' = wire \ {m}
    BY DEF Batches!Deliver
  <2>2. \A t \in GossipTx : seen[t] # {} => (CHOOSE ts \in seen[t] : TRUE) \in seen[t]
    OBVIOUS
  <2> HIDE DEF seen, known
  <2>3. \A t \in GossipTx : /\ C[t] \in {counted[p][t], pendingReports[p][t], 0} \/ C[t] \in seen[t]
                            /\ P[t] \in {pendingReports[p][t], 0} \/ P[t] \in seen[t]
    BY <2>2
  <2>4. C = [t \in GossipTx |-> C[t]] /\ P = [t \in GossipTx |-> P[t]]
    OBVIOUS
  <2> HIDE DEF C, P
  <2> QED
    BY <1>1, <2>1, <2>3, <2>4 DEF ReportsInv, ReportsTyped
<1> HIDE DEF seen, p, R
<1>5. ReportsTyped'
  <2>1. \A t \in GossipTx : counted'[p][t] \in Nat /\ pendingReports'[p][t] \in Nat
    BY <1>1, <1>3, <1>4 DEF ReportsInv, ReportsTyped
  <2>2. counted'[p] \in [GossipTx -> Nat] /\ pendingReports'[p] \in [GossipTx -> Nat]
    BY <1>4, <2>1
  <2>3. counted' \in [GossipPeer -> [GossipTx -> Nat]] /\ pendingReports' \in [GossipPeer -> [GossipTx -> Nat]]
    <3>1. \A q \in GossipPeer : counted'[q] \in [GossipTx -> Nat] /\ pendingReports'[q] \in [GossipTx -> Nat]
      BY <1>4, <2>2 DEF ReportsInv, ReportsTyped
    <3> QED
      BY <1>4, <3>1
  <2> QED
    BY <1>4, <2>3 DEF ReportsInv, ReportsTyped
<1>6. ASSUME NEW t \in GossipTx \ remade' PROVE \E v \in Nat : Only(t, v)'
  <2>1. PICK v \in Nat : Only(t, v)
    BY <1>4, <1>6 DEF ReportsInv, OneValue
  <2>2. counted'[p][t] \in {0, v} /\ pendingReports'[p][t] \in {0, v}
    BY <1>1, <1>3, <1>4, <2>1 DEF Only
  <2>3. Only(t, v)'
    BY <1>4, <2>1, <2>2 DEF Only
  <2> QED
    BY <2>3
<1>7. Allows'
  BY <1>4 DEF ReportsInv, Allows
<1> QED
  BY <1>5, <1>6, <1>7 DEF ReportsInv, OneValue

LEMMA ReportsNext == ReportsInv /\ [Batches!Next]_(Batches!gossipVars) => ReportsInv'
<1> SUFFICES ASSUME ReportsInv, [Batches!Next]_(Batches!gossipVars) PROVE ReportsInv'
  OBVIOUS
<1>1. CASE UNCHANGED Batches!gossipVars
  BY <1>1 DEF Batches!gossipVars, ReportsInv, ReportsTyped, OneValue, Only, Allows
<1>2. CASE Batches!CanBatch
  <2>1. /\ UNCHANGED <<caps, task, gossipMinted, myReports, outbox, wire, pendingReports, counted, remade>>
        /\ batchOk' \in BOOLEAN /\ exposed' \in BOOLEAN /\ (exposed => exposed')
        /\ batchOk' => exposed' \/ Old = {}
    <3>1. /\ batchOk' = Batches!everyLivePeerHas
          /\ exposed' = (exposed \/ (batchOk' /\ \E p \in Old : caps[p] = "unheard"))
          /\ UNCHANGED <<caps, task, gossipMinted, myReports, outbox, wire, pendingReports, counted, remade>>
      BY <1>2 DEF Batches!CanBatch
    <3>2. Batches!everyLivePeerHas => Old = {} \/ \E p \in Old : caps[p] = "unheard"
      BY OldAssumption DEF Batches!everyLivePeerHas, ReportsInv, ReportsTyped
    <3>3. Batches!everyLivePeerHas \in BOOLEAN
      BY DEF Batches!everyLivePeerHas
    <3> QED
      BY <3>1, <3>2, <3>3
  <2>2. ReportsTyped' /\ OneValue'
    BY <2>1 DEF ReportsInv, ReportsTyped, OneValue, Only
  <2>3. Allows'
    BY <2>1 DEF ReportsInv, Allows, ReportsTyped
  <2> QED
    BY <2>2, <2>3 DEF ReportsInv
<1>3. CASE Batches!Flush
  <2>1. /\ outbox # {} /\ outbox' = {} /\ wire' = wire \cup Batches!Flushed(outbox)
        /\ UNCHANGED <<caps, batchOk, task, gossipMinted, myReports, pendingReports, counted, exposed, remade>>
    BY <1>3 DEF Batches!Flush
  <2>2. \A m \in wire' : m \in wire \/ \E p \in GossipPeer : m = [to |-> p, items |-> outbox]
    BY <2>1 DEF Batches!Flushed, Batches!Sent
  <2>3. \A m \in wire' : m \in wire \/ (m \in [to : GossipPeer, items : SUBSET Item] /\ m.items = outbox)
    BY <2>2 DEF ReportsInv, ReportsTyped
  <2>4. ReportsTyped'
    BY <2>1, <2>3 DEF ReportsInv, ReportsTyped
  <2>5. OneValue'
    BY <2>1, <2>3 DEF ReportsInv, OneValue, Only
  <2>6. Allows'
    BY <2>1, <2>3 DEF ReportsInv, Allows, ReportsTyped
  <2> QED
    BY <2>4, <2>5, <2>6 DEF ReportsInv
<1>4. CASE Batches!Restart
  <2>1. /\ caps' = Batches!PerPeer("unheard") /\ batchOk' = FALSE /\ outbox' = {} /\ myReports' = Batches!PerTx(0)
        /\ UNCHANGED <<task, gossipMinted, wire, pendingReports, counted, exposed, remade>>
    BY <1>4 DEF Batches!Restart
  <2>2. ReportsTyped'
    BY <2>1, OldAssumption DEF ReportsInv, ReportsTyped, Batches!PerPeer, Batches!PerTx
  <2>3. OneValue'
    BY <2>1 DEF ReportsInv, OneValue, Only, Batches!PerTx
  <2>4. Allows'
    BY <2>1 DEF ReportsInv, Allows
  <2> QED
    BY <2>2, <2>3, <2>4 DEF ReportsInv
<1>5. ASSUME NEW p \in GossipPeer, Batches!Presence(p) PROVE ReportsInv'
  <2>1. /\ caps' = [caps EXCEPT ![p] = IF @ = "unheard" THEN Batches!release(p) ELSE "unheard"]
        /\ UNCHANGED <<batchOk, task, gossipMinted, myReports, outbox, wire, pendingReports, counted, exposed, remade>>
    BY <1>5 DEF Batches!Presence
  <2>2. \A q \in Old : caps'[q] \in {"unheard", "old"}
    BY <2>1, OldAssumption DEF ReportsInv, ReportsTyped, Batches!release
  <2> QED
    BY <2>1, <2>2 DEF ReportsInv, ReportsTyped, OneValue, Only, Allows
<1>6. ASSUME NEW t \in GossipTx, NEW S \in SUBSET GossipPeer, Batches!Ingest(t, S) PROVE ReportsInv'
  <2>1. /\ task[t] = "none" /\ task' = [task EXCEPT ![t] = "open"]
        /\ UNCHANGED <<caps, batchOk, gossipMinted, myReports, outbox, wire, pendingReports, counted, exposed, remade>>
    BY <1>6 DEF Batches!Ingest
  <2>2. \A u \in GossipTx : task'[u] # "complete" => task[u] # "complete"
    BY <2>1 DEF ReportsInv, ReportsTyped
  <2>3. ReportsTyped'
    BY <2>1 DEF ReportsInv, ReportsTyped
  <2> QED
    BY <2>1, <2>2, <2>3 DEF ReportsInv, OneValue, Only, Allows
<1>7. ASSUME NEW t \in GossipTx, Batches!Evict(t) PROVE ReportsInv'
  <2>1. /\ task' = [task EXCEPT ![t] = "none"] /\ myReports' = [myReports EXCEPT ![t] = 0] /\ remade' = remade \cup {t}
        /\ UNCHANGED <<caps, batchOk, gossipMinted, outbox, wire, pendingReports, counted, exposed>>
    BY <1>7 DEF Batches!Evict
  <2>2. \A u \in GossipTx \ remade' : u \in GossipTx \ remade /\ task'[u] = task[u] /\ myReports'[u] = myReports[u]
    BY <2>1 DEF ReportsInv, ReportsTyped
  <2>3. ReportsTyped'
    BY <2>1 DEF ReportsInv, ReportsTyped
  <2> QED
    BY <2>1, <2>2, <2>3 DEF ReportsInv, OneValue, Only, Allows
<1> QED
  BY <1>1, <1>2, <1>3, <1>4, <1>5, <1>6, <1>7, ValidateKeeps, RetryKeeps, DeliverKeeps DEF Batches!Next

LEMMA ReportsSound == ReportsInv => Batches!OneTimestamp /\ Batches!ReadableBatches
<1> SUFFICES ASSUME ReportsInv PROVE Batches!OneTimestamp /\ Batches!ReadableBatches
  OBVIOUS
<1>1. Batches!OneTimestamp
  BY DEF ReportsInv, OneValue, Only, Batches!OneTimestamp, ReportsTyped
<1>2. ASSUME NEW m \in wire, Batches!Read(m) # m.items PROVE exposed
  <2>1. Batches!release(m.to) = "old" /\ Cardinality(m.items) > 1
    BY <1>2, ItemsCardinality DEF Batches!Read
  <2>2. m.to \in Old
    BY <2>1 DEF Batches!release
  <2> QED
    BY <2>1, <2>2 DEF ReportsInv, Allows
<1> QED
  BY <1>1, <1>2 DEF Batches!ReadableBatches

\* The address book survives a death during its save, given addresses keep being dialled and the connections counted are
\* those held (discovery.js, peer-cache.js, node.js); a walk serves every consumer and leaks no listener
\* (random-walk-leak.js); a validator gives a transaction one timestamp, and a batch goes only to who reads it unless
\* a peer had not been heard from (gossip.js, validation-retry.js).
THEOREM MeshSoundHolds == Spec => []MeshSound
<1>1. NetInv /\ WalkInv /\ ReportsInv => MeshSound
  BY NetSound, WalkSound, ReportsSound DEF MeshSound
<1> QED
  BY <1>1, NetPart, NetInit, NetNext, WalkPart, WalkInit, WalkNext, ReportsPart, ReportsInit, ReportsNext, PTL
  DEF Net!NetSpec, Walks!WalkSpec, Batches!GossipSpec

----------------------------------------------------------------------------
(* The desktop application.  A call that stops the core has ended the      *)
(* balance interval before its first await; while starts and stops do not  *)
(* meet, the flag and the network agree whenever no stop is under way.     *)

LEMMA DeskPart == Spec => Desk!DeskSpec
<1>1. Init => Desk!Init
  BY DEF Init
<1>2. [Next]_vars => [Desk!Next]_(Desk!deskVars)
  BY DEF Next, vars, desktopVars, Desk!deskVars
<1> QED
  BY <1>1, <1>2, PTL DEF Spec, Desk!DeskSpec

DeskCall == [op : {"free", "start", "stop", "send"}, at : 0 .. 3]
StopUnderWay == \E c \in Call : call[c].op = "stop"

DeskTyped ==
  /\ desktopBoot \in {"loading", "network", "identity", "core", "ready"}
  /\ desktopRunning \in BOOLEAN /\ net \in BOOLEAN /\ ledgerOpen \in BOOLEAN /\ balanceTimer \in BOOLEAN
  /\ call \in [Call -> DeskCall]
  /\ \A c \in Call : call[c].op = "stop" => call[c].at > 0
  /\ quitting \in {"no", "asked", "begun"}
  /\ told \in {"none", "up", "down"}
  /\ desktopRaced \in BOOLEAN

\* Until the core is ready it has no call and no window, and each stage of the boot is over its predecessors.
Booting ==
  /\ desktopBoot # "ready" =>
       /\ \A c \in Call : call[c].op = "free"
       /\ windows = {} /\ quitting = "no" /\ told = "none"
  /\ desktopBoot \in {"loading", "network"} => ~net
  /\ desktopBoot \in {"identity", "core"} => net
  /\ desktopRunning => desktopBoot \in {"core", "ready"}
  /\ desktopBoot = "core" => desktopRunning

\* The database is closed, and the interval ended, by a stop only.
Closed ==
  /\ desktopBoot # "loading" /\ ~ledgerOpen => told # "none" \/ StopUnderWay
  /\ StopUnderWay => ~balanceTimer
  /\ desktopBoot = "ready" /\ ~desktopRunning => ~balanceTimer
  /\ told = "down" => ~balanceTimer

\* One stop, and no start beside it; outside it the flag is that of the network, and the answer is the last one's.
Ordered ==
  ~desktopRaced /\ quitting = "no" =>
    /\ \A c, d \in Call : c # d /\ call[c].op = "stop" => call[d].op \notin {"start", "stop"}
    /\ \A c \in Call : call[c].op = "stop" /\ call[c].at > 1 => ~net
    /\ ~StopUnderWay /\ desktopBoot = "ready" =>
         /\ desktopRunning = net
         /\ told = "up" => net
         /\ told = "down" /\ net => \E c \in Call : call[c].op = "start"

DeskInv == DeskTyped /\ Booting /\ Closed /\ Ordered

LEMMA DeskInit == Desk!Init => DeskInv
<1> SUFFICES ASSUME Desk!Init PROVE DeskInv
  OBVIOUS
<1>1. \A c \in Call : call[c].op = "free"
  BY DEF Desk!Init, Desk!Free
<1>2. call \in [Call -> DeskCall]
  BY DEF Desk!Init, Desk!Free, DeskCall
<1> QED
  BY <1>1, <1>2 DEF Desk!Init, DeskInv, DeskTyped, Booting, Closed, Ordered, StopUnderWay

LEMMA DeskNext == DeskInv /\ [Desk!Next]_(Desk!deskVars) => DeskInv'
<1> SUFFICES ASSUME DeskInv, [Desk!Next]_(Desk!deskVars) PROVE DeskInv'
  OBVIOUS
<1> USE DEF DeskInv, DeskTyped, Booting, Closed, Ordered, StopUnderWay, Desk!coreVars
<1>1. CASE UNCHANGED Desk!deskVars
  BY <1>1 DEF Desk!deskVars
<1>2. CASE Desk!LoadModules
  <2>1. /\ desktopBoot = "loading" /\ desktopBoot' = "network" /\ ledgerOpen' = TRUE /\ ~desktopRunning
        /\ UNCHANGED <<desktopRunning, net, balanceTimer, call, windows, quitting, told, desktopRaced>>
    BY <1>2 DEF Desk!LoadModules
  <2>2. \A c \in Call : call[c].op = "free"
    BY <2>1
  <2> QED
    BY <2>1, <2>2
<1>3. CASE Desk!StartNetwork \/ Desk!Identify
  <2>1. /\ desktopBoot \in {"network", "identity"} /\ desktopBoot' \in {"identity", "core"}
        /\ net' \in BOOLEAN /\ net' /\ desktopRunning' \in BOOLEAN /\ balanceTimer' \in BOOLEAN
        /\ desktopRunning' <=> desktopBoot' = "core"
        /\ UNCHANGED <<ledgerOpen, call, windows, quitting, told, desktopRaced>>
    <3>1. CASE Desk!StartNetwork
      BY <3>1 DEF Desk!StartNetwork
    <3>2. CASE Desk!Identify
      BY <3>2 DEF Desk!Identify
    <3> QED
      BY <1>3, <3>1, <3>2
  <2>2. \A c \in Call : call[c].op = "free"
    BY <2>1
  <2> QED
    BY <2>1, <2>2
<1>4. CASE Desk!Ready
  BY <1>4 DEF Desk!Ready
<1>5. CASE Desk!OpenWindow \/ Desk!Exit
  BY <1>5 DEF Desk!OpenWindow, Desk!Exit
<1>6. CASE Desk!BeforeQuit
  BY <1>6 DEF Desk!BeforeQuit
<1>7. ASSUME NEW mac \in BOOLEAN, Desk!CloseWindow(mac) PROVE DeskInv'
  <2>1. desktopBoot = "ready" /\ quitting' \in {"no", "asked", "begun"} /\ (quitting' = "no" => quitting = "no")
        /\ UNCHANGED <<Desk!coreVars, call, told, desktopRaced>>
    BY <1>7 DEF Desk!CloseWindow
  <2> QED
    BY <2>1
<1>8. ASSUME NEW c \in Call, Desk!StartNode(c) PROVE DeskInv'
  <2>1. /\ desktopBoot = "ready" /\ call[c].op = "free"
        /\ desktopRaced' = (desktopRaced \/ StopUnderWay \/ quitting # "no")
        /\ UNCHANGED <<Desk!coreVars, windows, quitting>>
    BY <1>8 DEF Desk!StartNode, Desk!Arrives, Desk!Stopping, Desk!Free
  <2>2. CASE desktopRunning /\ told' = "up" /\ call' = call
    BY <2>1, <2>2
  <2>3. CASE ~desktopRunning /\ call' = [call EXCEPT ![c] = [op |-> "start", at |-> 0]] /\ told' = told
    <3>1. call' \in [Call -> DeskCall] /\ call'[c].op = "start" /\ \A d \in Call \ {c} : call'[d] = call[d]
      BY <2>3 DEF DeskCall
    <3>2. StopUnderWay' <=> StopUnderWay
      BY <2>1, <3>1
    <3> QED
      BY <2>1, <2>3, <3>1, <3>2
  <2> QED
    BY <1>8, <2>2, <2>3 DEF Desk!StartNode
<1>9. ASSUME NEW c \in Call, Desk!Started(c) PROVE DeskInv'
  <2>1. /\ call[c].op = "start" /\ call' = [call EXCEPT ![c] = Desk!Free]
        /\ net' /\ desktopRunning' /\ told' = "up"
        /\ UNCHANGED <<desktopBoot, ledgerOpen, balanceTimer, windows, quitting, desktopRaced>>
    BY <1>9 DEF Desk!Started
  <2>2. call' \in [Call -> DeskCall] /\ call'[c].op = "free" /\ \A d \in Call \ {c} : call'[d] = call[d]
    BY <2>1 DEF DeskCall, Desk!Free
  <2>3. StopUnderWay' <=> StopUnderWay
    BY <2>1, <2>2
  <2>4. desktopBoot = "ready" /\ net' = TRUE /\ desktopRunning' = TRUE
    BY <2>1, <1>9 DEF Desk!Started
  <2> QED
    BY <2>1, <2>2, <2>3, <2>4
<1>10. ASSUME NEW c \in Call, Desk!StopNode(c) PROVE DeskInv'
  <2>1. /\ desktopBoot = "ready" /\ call[c].op = "free"
        /\ desktopRaced' = (desktopRaced \/ (\E d \in Call : call[d].op \in {"start", "stop"}) \/ quitting # "no")
        /\ UNCHANGED <<desktopBoot, desktopRunning, net, ledgerOpen, windows, quitting>>
    BY <1>10 DEF Desk!StopNode, Desk!Arrives, Desk!Stopping, Desk!Starting, Desk!Free
  <2>2. CASE ~desktopRunning /\ told' = "down" /\ call' = call /\ balanceTimer' = balanceTimer
    BY <2>1, <2>2
  <2>3. CASE desktopRunning /\ call' = [call EXCEPT ![c] = [op |-> "stop", at |-> 1]] /\ balanceTimer' = FALSE /\ told' = told
    <3>1. call' \in [Call -> DeskCall] /\ call'[c] = [op |-> "stop", at |-> 1] /\ \A d \in Call \ {c} : call'[d] = call[d]
      BY <2>3 DEF DeskCall
    <3>2. ~desktopRaced' /\ quitting' = "no" => \A d \in Call : call[d].op \notin {"start", "stop"}
      BY <2>1
    <3>3. DeskTyped'
      <4>1. desktopRaced' \in BOOLEAN /\ balanceTimer' \in BOOLEAN
        BY <2>1, <2>3
      <4>2. \A d \in Call : call'[d].op = "stop" => call'[d].at > 0
        BY <3>1
      <4> QED
        BY <2>1, <2>3, <3>1, <4>1, <4>2
    <3>4. Booting' /\ Closed'
      BY <2>1, <2>3, <3>1
    <3>5. Ordered'
      BY <2>1, <3>1, <3>2
    <3> QED
      BY <3>3, <3>4, <3>5
  <2> QED
    BY <1>10, <2>2, <2>3 DEF Desk!StopNode, Desk!TimerStopped
<1>11. ASSUME NEW c \in Call, Desk!Stopped(c) PROVE DeskInv'
  <2> DEFINE at == call[c].at
  <2>1. /\ call[c].op = "stop" /\ at \in 1 .. 3 /\ call[c] \in DeskCall
        /\ net' = (at # 1 /\ net) /\ ledgerOpen' = (at # 2 /\ ledgerOpen) /\ desktopRunning' = (at # 3 /\ desktopRunning)
        /\ told' = IF at = 3 THEN "down" ELSE told
        /\ UNCHANGED <<desktopBoot, balanceTimer, windows, quitting, desktopRaced>>
    BY <1>11 DEF Desk!Stopped, Desk!Stops, Desk!FlagAfter, DeskCall
  <2>2. /\ desktopBoot = "ready"
        /\ net' \in BOOLEAN /\ ledgerOpen' \in BOOLEAN /\ desktopRunning' \in BOOLEAN
    BY <2>1
  <2>3. CASE at = 3
    <3>1. call' = [call EXCEPT ![c] = Desk!Free]
      BY <1>11, <2>3 DEF Desk!Stopped
    <3>2. call' \in [Call -> DeskCall] /\ call'[c].op = "free" /\ \A d \in Call \ {c} : call'[d] = call[d]
      BY <3>1 DEF DeskCall, Desk!Free
    <3>3. ~desktopRaced /\ quitting = "no" => ~net' /\ ~desktopRunning' /\ \A d \in Call \ {c} : call[d].op # "stop"
      BY <2>1, <2>3
    <3>4. DeskTyped'
      BY <2>1, <2>2, <2>3, <3>2
    <3>5. Booting' /\ Closed'
      BY <2>1, <2>2, <2>3, <3>2
    <3>6. Ordered'
      BY <2>1, <2>2, <2>3, <3>2, <3>3
    <3> QED
      BY <3>4, <3>5, <3>6
  <2>4. CASE at # 3
    <3>1. [op |-> "stop", at |-> at + 1] \in DeskCall /\ [op |-> "stop", at |-> at + 1].op = "stop"
          /\ [op |-> "stop", at |-> at + 1].at = at + 1
      BY <2>1, <2>4 DEF DeskCall
    <3>2. \A d \in Call : call'[d] = IF d = c THEN [op |-> "stop", at |-> at + 1] ELSE call[d]
      BY <1>11, <2>4 DEF Desk!Stopped
    <3>3. call' \in [Call -> DeskCall] /\ call'[c].op = "stop" /\ call'[c].at > 0 /\ call'[c].at > 1
          /\ \A d \in Call \ {c} : call'[d] = call[d]
      <4>1. call' \in [Call -> DeskCall]
        BY <1>11, <2>4, <3>1 DEF Desk!Stopped
      <4> QED
        BY <2>1, <3>1, <3>2, <4>1
    <3>4. StopUnderWay' /\ StopUnderWay
      BY <2>1, <3>3
    <3>5. ~desktopRaced /\ quitting = "no" => ~net'
      BY <2>1
    <3>6. DeskTyped'
      <4>1. \A d \in Call : call'[d].op = "stop" => call'[d].at > 0
        BY <3>3
      <4>2. told' = told
        BY <2>1, <2>4
      <4> QED
        BY <2>1, <2>2, <3>3, <4>1, <4>2
    <3>7. Booting' /\ Closed'
      BY <2>1, <2>2, <2>4, <3>3, <3>4
    <3>8. Ordered'
      BY <2>1, <3>3, <3>4, <3>5
    <3> QED
      BY <3>6, <3>7, <3>8
  <2> QED
    BY <2>3, <2>4
<1>12. ASSUME NEW c \in Call, Desk!Send(c) \/ Desk!Sent(c) PROVE DeskInv'
  <2>1. /\ desktopBoot = "ready" /\ call[c].op \notin {"start", "stop"}
        /\ call' \in [Call -> DeskCall] /\ call'[c].op \in {"free", "send"} /\ \A d \in Call \ {c} : call'[d] = call[d]
    BY <1>12 DEF Desk!Send, Desk!Arrives, Desk!Sent, Desk!Free, DeskCall
  <2>2. /\ desktopRaced \in BOOLEAN /\ desktopRaced' = desktopRaced
        /\ UNCHANGED <<desktopBoot, desktopRunning, net, ledgerOpen, balanceTimer, windows, quitting, told>>
    BY <1>12 DEF Desk!Send, Desk!Arrives, Desk!Sent
  <2> QED
    BY <2>1, <2>2
<1> QED
  BY <1>1, <1>2, <1>3, <1>4, <1>5, <1>6, <1>7, <1>8, <1>9, <1>10, <1>11, <1>12 DEF Desk!Next

LEMMA DeskSound == DeskInv => Desk!DesktopSound
BY DEF DeskInv, DeskTyped, Booting, Closed, Ordered, StopUnderWay, Desk!DesktopSound, Desk!AsTold, Desk!InOrder,
  Desk!isRunning, Desk!Stopping

----------------------------------------------------------------------------
(* The simulator.  While no call overtook a start, one start runs over     *)
(* idle intervals, and what the intervals have begun finds leaders.  In    *)
(* its first start there is one consensus, which knows its leaders.        *)

LEMMA SimPart == Spec => Sim!SimSpec
<1>1. Init => Sim!SimInit
  BY DEF Init
<1>2. [Next]_vars => [Sim!SimNext]_(Sim!simVars)
  BY DEF Next, vars, simulatorVars, Sim!simVars
<1> QED
  BY <1>1, <1>2, PTL DEF Spec, Sim!SimSpec

SimTx == [at : {"unmade", "raw", "refused", "direct", "processing", "final", "missed"}, inst : Nat, done : Nat, due : Nat]

SimTyped ==
  /\ guard \in BOOLEAN /\ simulatorRunning \in BOOLEAN /\ overtaken \in BOOLEAN
  /\ simulatorCalls \in [Call -> {Sim!Idle, Sim!Importing} \cup 0 .. InitialIds]
  /\ ids \in Nat /\ leaders \in Nat /\ inst \in Nat /\ simulatorStarts \in Nat /\ validated \in Nat
  /\ simulatorTimers \in [Sim!Kind -> Nat]
  /\ inflight \in [Sim!Kind -> Nat]
  /\ tx \in [SimulatorTx -> SimTx]

Alone == \A c, d \in Call : Sim!Starting(c) /\ Sim!Starting(d) => c = d

\* Without an overtaken start: intervals run only in a simulator that does, after its start, each once.
Undisturbed ==
  ~overtaken =>
    /\ Alone
    /\ Sim!SomeStart => simulatorRunning
    /\ ~simulatorRunning \/ Sim!SomeStart => \A k \in Sim!Kind : simulatorTimers[k] = 0
    /\ \A k \in Sim!Kind : simulatorTimers[k] <= 1
    /\ InitialIds > 0 => \A k \in Sim!Kind : simulatorTimers[k] > 0 \/ inflight[k] > 0 => leaders > 0
    /\ \A t \in SimulatorTx : tx[t].at = "direct" => tx[t].inst = 0

\* A start has made the identities it counts, and leaders are some of those made; nothing is signed without one.
Made ==
  /\ \A c \in Call : simulatorCalls[c] <= ids
  /\ leaders > 0 => ids > 0
  /\ InitialIds = 0 => ids = 0 /\ inflight["tx"] = 0 /\ inflight["diff"] = 0

\* Before the first start nothing is there; in the first one there is one consensus, and by the time it takes
\* a transaction it has its leaders, so that no task of it is lost.
FirstStart ==
  simulatorStarts <= 1 /\ InitialIds >= Sim!Leading =>
    /\ Alone
    /\ simulatorStarts = 0 => ~Sim!SomeStart /\ have = {} /\ inst = 0 /\ leaders = 0
    /\ \A c \in Call : simulatorCalls[c] = Sim!Importing => have = {} /\ inst = 0
    /\ IF "xpc" \in have THEN inst = 1 ELSE inst = 0
    /\ Sim!SomeStart => leaders = 0
    /\ leaders > 0 /\ "xpc" \in have => inst \in leadersSet
    /\ \A t \in SimulatorTx : tx[t].at \in {"raw", "processing", "final"} => leaders > 0 /\ "xpc" \in have /\ tx[t].inst = inst
    /\ \A t \in SimulatorTx : tx[t].at = "raw" => tx[t].due > 0 /\ tx[t].done + tx[t].due = Sim!Leading
    /\ \A t \in SimulatorTx : tx[t].at # "missed"

Finals == {t \in SimulatorTx : tx[t].at = "final"}

Counted ==
  /\ \A t \in SimulatorTx : tx[t].at # "raw" => tx[t].due = 0
  /\ \A t \in SimulatorTx : tx[t].at = "raw" => tx[t].done + tx[t].due <= Sim!Leading
  /\ guard => \A t \in SimulatorTx : tx[t].at \notin {"raw", "processing", "final"}
  /\ IsFiniteSet(Finals)
  /\ validated = Cardinality(Finals)

SimInv == SimTyped /\ Undisturbed /\ Made /\ FirstStart /\ Counted

LEMMA SimCardinality == \A S : Sim!Cardinality(S) = Cardinality(S)
BY DEF Sim!Cardinality, Cardinality, Sim!IsFiniteSet, IsFiniteSet

LEMMA SimInitially == Sim!SimInit => SimInv
<1> SUFFICES ASSUME Sim!SimInit PROVE SimInv
  OBVIOUS
<1>1. /\ \A c \in Call : simulatorCalls[c] = Sim!Idle
      /\ \A k \in Sim!Kind : simulatorTimers[k] = 0 /\ inflight[k] = 0
      /\ \A t \in SimulatorTx : tx[t] = Sim!Unmade
  BY DEF Sim!SimInit
<1>2. ~Sim!SomeStart
  BY <1>1 DEF Sim!SomeStart, Sim!Starting
<1>3. tx \in [SimulatorTx -> SimTx]
  BY DEF Sim!SimInit, Sim!Unmade, SimTx
<1>4. \A t \in SimulatorTx : tx[t].at = "unmade" /\ tx[t].due = 0
  BY <1>1 DEF Sim!Unmade
<1>5. Finals = {}
  BY <1>4 DEF Finals
<1>6. IsFiniteSet(Finals) /\ validated = Cardinality(Finals)
  BY <1>5, FS_EmptySet DEF Sim!SimInit
<1>7. SimTyped
  BY <1>3 DEF Sim!SimInit, SimTyped
<1>8. Undisturbed /\ Made /\ FirstStart /\ Counted
  BY <1>1, <1>2, <1>4, <1>6, IdentitiesAssumption
  DEF Sim!SimInit, Undisturbed, Made, FirstStart, Counted, Alone, Sim!Starting, Sim!Idle, Sim!Importing, Sim!Kind
<1> QED
  BY <1>7, <1>8 DEF SimInv

LEMMA SimNextKeeps == SimInv /\ [Sim!SimNext]_(Sim!simVars) => SimInv'
<1> SUFFICES ASSUME SimInv, [Sim!SimNext]_(Sim!simVars) PROVE SimInv'
  OBVIOUS
<1> USE IdentitiesAssumption DEF SimInv
<1>1. CASE UNCHANGED Sim!simVars
  BY <1>1 DEF Sim!simVars, SimTyped, Undisturbed, Made, FirstStart, Counted, Alone, Finals, Sim!SomeStart, Sim!Starting
<1>2. ASSUME NEW c \in Call, Sim!Start(c) PROVE SimInv'
  <2>1. /\ ~simulatorRunning /\ simulatorRunning' = TRUE /\ simulatorCalls[c] = Sim!Idle
        /\ simulatorCalls' = [simulatorCalls EXCEPT ![c] = Sim!Importing]
        /\ overtaken' = (overtaken \/ Sim!SomeStart) /\ simulatorStarts' = simulatorStarts + 1
        /\ UNCHANGED <<guard, ids, leaders, have, inst, leadersSet, simulatorTimers, inflight, tx, validated>>
    BY <1>2 DEF Sim!Start, Sim!Starting
  <2>2. /\ simulatorCalls' \in [Call -> {Sim!Idle, Sim!Importing} \cup 0 .. InitialIds]
        /\ simulatorCalls'[c] = Sim!Importing /\ \A d \in Call \ {c} : simulatorCalls'[d] = simulatorCalls[d]
    BY <2>1 DEF SimTyped
  <2>3. SimTyped' /\ Made' /\ Counted'
    BY <2>1, <2>2 DEF SimTyped, Made, Counted, Finals, Sim!Importing, Sim!Idle
  <2>4. ~Sim!SomeStart => Alone' /\ Sim!SomeStart'
    BY <2>1, <2>2 DEF Alone, Sim!SomeStart, Sim!Starting, Sim!Importing, Sim!Idle
  <2>5. Undisturbed'
    BY <2>1, <2>2, <2>4 DEF Undisturbed, SimTyped
  <2>6. FirstStart'
    BY <2>1, <2>2, <2>4 DEF FirstStart, SimTyped, Sim!Leading, Sim!SomeStart, Sim!Starting
  <2> QED
    BY <2>3, <2>5, <2>6
<1>3. ASSUME NEW c \in Call, Sim!InitializeModules(c) PROVE SimInv'
  <2>1. PICK S \in Available : have' = have \cup S /\ inst' = IF "xpc" \in S THEN inst + 1 ELSE inst
    BY <1>3 DEF Sim!InitializeModules
  <2>2. /\ simulatorCalls[c] = Sim!Importing /\ simulatorCalls' = [simulatorCalls EXCEPT ![c] = 0]
        /\ UNCHANGED <<guard, simulatorRunning, ids, leaders, leadersSet, simulatorTimers, inflight, tx, simulatorStarts, validated, overtaken>>
    BY <1>3 DEF Sim!InitializeModules
  <2>3. /\ simulatorCalls' \in [Call -> {Sim!Idle, Sim!Importing} \cup 0 .. InitialIds]
        /\ simulatorCalls'[c] = 0 /\ \A d \in Call \ {c} : simulatorCalls'[d] = simulatorCalls[d]
    BY <2>2 DEF SimTyped
  <2>4. \A d \in Call : Sim!Starting(d)' <=> Sim!Starting(d)
    BY <2>2, <2>3 DEF Sim!Starting, Sim!Importing, Sim!Idle
  <2>5. (Alone' <=> Alone) /\ (Sim!SomeStart' <=> Sim!SomeStart) /\ Sim!SomeStart
    BY <2>2, <2>4 DEF Alone, Sim!SomeStart, Sim!Starting, Sim!Importing, Sim!Idle
  <2>6. SimTyped' /\ Made' /\ Counted'
    BY <2>1, <2>2, <2>3 DEF SimTyped, Made, Counted, Finals
  <2>7. Undisturbed'
    BY <2>2, <2>5 DEF Undisturbed
  <2>8. FirstStart'
    BY <2>1, <2>2, <2>3, <2>4, <2>5 DEF FirstStart, SimTyped, Alone, Sim!Starting, Sim!Importing, Sim!Idle
  <2> QED
    BY <2>6, <2>7, <2>8
<1>4. ASSUME NEW c \in Call, Sim!CreateIdentity(c) PROVE SimInv'
  <2>1. /\ simulatorCalls[c] \in 0 .. (InitialIds - 1) /\ ids' = ids + 1
        /\ simulatorCalls' = [simulatorCalls EXCEPT ![c] = simulatorCalls[c] + 1]
        /\ UNCHANGED <<guard, simulatorRunning, leaders, have, inst, leadersSet, simulatorTimers, inflight, tx, simulatorStarts, validated, overtaken>>
    BY <1>4 DEF Sim!CreateIdentity
  <2>2. /\ simulatorCalls' \in [Call -> {Sim!Idle, Sim!Importing} \cup 0 .. InitialIds]
        /\ simulatorCalls'[c] = simulatorCalls[c] + 1 /\ \A d \in Call \ {c} : simulatorCalls'[d] = simulatorCalls[d]
    BY <2>1 DEF SimTyped
  <2>3. \A d \in Call : /\ Sim!Starting(d)' <=> Sim!Starting(d)
                        /\ simulatorCalls'[d] = Sim!Importing <=> simulatorCalls[d] = Sim!Importing
    BY <2>1, <2>2 DEF Sim!Starting, Sim!Idle, Sim!Importing
  <2>4. (Alone' <=> Alone) /\ (Sim!SomeStart' <=> Sim!SomeStart) /\ Sim!SomeStart
    BY <2>1, <2>3 DEF Alone, Sim!SomeStart, Sim!Starting, Sim!Idle
  <2>5. SimTyped' /\ Counted'
    BY <2>1, <2>2 DEF SimTyped, Counted, Finals
  <2>6. Made'
    <3>1. \A d \in Call : simulatorCalls[d] \in Int /\ simulatorCalls[d] <= ids
      BY DEF SimTyped, Made, Sim!Idle, Sim!Importing
    <3> QED
      BY <2>1, <2>2, <3>1 DEF Made, SimTyped
  <2>7. Undisturbed'
    BY <2>1, <2>4 DEF Undisturbed
  <2>8. FirstStart'
    BY <2>1, <2>3, <2>4 DEF FirstStart
  <2> QED
    BY <2>5, <2>6, <2>7, <2>8
<1>5. ASSUME NEW c \in Call, Sim!Generate(c) PROVE SimInv'
  <2>1. /\ simulatorCalls[c] = InitialIds /\ simulatorCalls' = [simulatorCalls EXCEPT ![c] = Sim!Idle]
        /\ leaders' = IF ids < 5 THEN ids ELSE 5
        /\ leadersSet' = IF "xpc" \in have /\ ids >= Sim!Leading THEN leadersSet \cup {inst} ELSE leadersSet
        /\ simulatorTimers' = [k \in Sim!Kind |-> simulatorTimers[k] + 1]
        /\ UNCHANGED <<guard, simulatorRunning, ids, have, inst, inflight, tx, simulatorStarts, validated, overtaken>>
    BY <1>5 DEF Sim!Generate
  <2>2. /\ simulatorCalls' \in [Call -> {Sim!Idle, Sim!Importing} \cup 0 .. InitialIds]
        /\ simulatorCalls'[c] = Sim!Idle /\ \A d \in Call \ {c} : simulatorCalls'[d] = simulatorCalls[d]
    BY <2>1 DEF SimTyped
  <2>3. Sim!SomeStart
    BY <2>1 DEF Sim!SomeStart, Sim!Starting, Sim!Idle
  <2>4. Alone => Alone' /\ ~Sim!SomeStart'
    BY <2>1, <2>2 DEF Alone, Sim!SomeStart, Sim!Starting, Sim!Idle
  <2>5. SimTyped' /\ Made' /\ Counted'
    BY <2>1, <2>2 DEF SimTyped, Made, Counted, Finals, Sim!Idle
  <2>6. leaders > 0 => leaders' > 0
    BY <2>1 DEF Made, SimTyped
  <2>7. InitialIds > 0 => leaders' > 0
    BY <2>1 DEF SimTyped, Made
  <2>8. Undisturbed'
    BY <2>1, <2>3, <2>4, <2>6, <2>7 DEF Undisturbed, SimTyped
  <2>9. InitialIds <= ids
    BY <2>1 DEF Made
  <2>10. FirstStart'
    BY <2>1, <2>2, <2>3, <2>4, <2>9 DEF FirstStart, SimTyped, Sim!Leading, Sim!Idle, Sim!Importing
  <2> QED
    BY <2>5, <2>8, <2>10
<1>6. ASSUME Sim!Halt PROVE SimInv'
  <2>1. /\ simulatorRunning /\ simulatorRunning' = FALSE
        /\ simulatorTimers' = [k \in Sim!Kind |-> 0] /\ overtaken' = (overtaken \/ Sim!SomeStart)
        /\ UNCHANGED <<guard, simulatorCalls, ids, leaders, have, inst, leadersSet, inflight, tx, simulatorStarts, validated>>
    BY <1>6 DEF Sim!Halt, Sim!Cleared
  <2>2. (Alone' <=> Alone) /\ (Sim!SomeStart' <=> Sim!SomeStart)
    BY <2>1 DEF Alone, Sim!SomeStart, Sim!Starting
  <2>3. SimTyped' /\ Made' /\ Counted'
    <3>1. overtaken' \in BOOLEAN
      BY <2>1
    <3>2. simulatorTimers' \in [Sim!Kind -> Nat]
      BY <2>1 DEF SimTyped
    <3>3. SimTyped'
      BY <2>1, <3>1, <3>2 DEF SimTyped
    <3>4. Made' /\ Counted'
      BY <2>1 DEF Made, Counted, Finals
    <3> QED
      BY <3>3, <3>4
  <2>4. Undisturbed'
    <3> SUFFICES ASSUME ~overtaken' PROVE Undisturbed'
      BY DEF Undisturbed
    <3>1. ~overtaken /\ ~Sim!SomeStart
      BY <2>1
    <3>2. /\ Alone /\ ~Sim!SomeStart
          /\ \A k \in Sim!Kind : simulatorTimers'[k] <= 1 /\ simulatorTimers'[k] = 0
          /\ InitialIds > 0 => \A k \in Sim!Kind : simulatorTimers'[k] > 0 \/ inflight[k] > 0 => leaders > 0
          /\ \A t \in SimulatorTx : tx[t].at = "direct" => tx[t].inst = 0
      BY <2>1, <3>1 DEF Undisturbed, SimTyped
    <3> QED
      BY <2>1, <2>2, <3>2 DEF Undisturbed
  <2>5. FirstStart'
    BY <2>1, <2>2 DEF FirstStart
  <2> QED
    BY <2>3, <2>4, <2>5
<1>7. ASSUME Sim!Resume PROVE SimInv'
  <2>1. /\ ~simulatorRunning /\ simulatorRunning' = TRUE
        /\ simulatorTimers' = [k \in Sim!Kind |-> simulatorTimers[k] + (IF k \in Sim!Resumed THEN 1 ELSE 0)]
        /\ overtaken' = (overtaken \/ leaders = 0)
        /\ UNCHANGED <<guard, simulatorCalls, ids, leaders, have, inst, leadersSet, inflight, tx, simulatorStarts, validated>>
    BY <1>7 DEF Sim!Resume
  <2>2. (Alone' <=> Alone) /\ (Sim!SomeStart' <=> Sim!SomeStart)
    BY <2>1 DEF Alone, Sim!SomeStart, Sim!Starting
  <2>3. SimTyped' /\ Made' /\ Counted'
    <3>1. overtaken' \in BOOLEAN
      BY <2>1
    <3>2. simulatorTimers' \in [Sim!Kind -> Nat]
      BY <2>1 DEF SimTyped
    <3>3. SimTyped'
      BY <2>1, <3>1, <3>2 DEF SimTyped
    <3>4. Made' /\ Counted'
      BY <2>1 DEF Made, Counted, Finals
    <3> QED
      BY <3>3, <3>4
  <2>4. Undisturbed'
    <3> SUFFICES ASSUME ~overtaken' PROVE Undisturbed'
      BY DEF Undisturbed
    <3>1. ~overtaken /\ leaders # 0
      BY <2>1
    <3>2. /\ Alone
          /\ \A k \in Sim!Kind : simulatorTimers'[k] <= 1
          /\ InitialIds > 0 => \A k \in Sim!Kind : simulatorTimers'[k] > 0 \/ inflight[k] > 0 => leaders > 0
          /\ \A t \in SimulatorTx : tx[t].at = "direct" => tx[t].inst = 0
      BY <2>1, <3>1 DEF Undisturbed, SimTyped
    <3> QED
      BY <2>1, <2>2, <3>2 DEF Undisturbed
  <2>5. FirstStart'
    BY <2>1, <2>2 DEF FirstStart
  <2> QED
    BY <2>3, <2>4, <2>5
<1>8. ASSUME NEW k \in Sim!Kind, Sim!Tick(k) PROVE SimInv'
  <2>1. /\ k \in Sim!Resumed /\ simulatorTimers[k] > 0 /\ ids >= Sim!Needs(k) /\ inflight' = [inflight EXCEPT ![k] = 1]
        /\ UNCHANGED <<guard, simulatorRunning, simulatorCalls, ids, leaders, have, inst, leadersSet, simulatorTimers, tx, simulatorStarts, validated, overtaken>>
    BY <1>8 DEF Sim!Tick
  <2>2. k \in {"tx", "diff"} => ids > 0
    BY <2>1 DEF Sim!Needs, SimTyped
  <2>3. (Alone' <=> Alone) /\ (Sim!SomeStart' <=> Sim!SomeStart)
    BY <2>1 DEF Alone, Sim!SomeStart, Sim!Starting
  <2>4. inflight' \in [Sim!Kind -> Nat] /\ \A l \in Sim!Kind \ {k} : inflight'[l] = inflight[l]
    BY <2>1 DEF SimTyped
  <2>5. SimTyped' /\ Made' /\ Counted'
    BY <2>1, <2>2, <2>4 DEF SimTyped, Made, Counted, Finals, Sim!Kind
  <2>6. ~overtaken /\ InitialIds > 0 => \A l \in Sim!Kind : inflight'[l] > 0 => leaders > 0
    BY <2>1, <2>4 DEF Undisturbed
  <2>7. Undisturbed' /\ FirstStart'
    BY <2>1, <2>3, <2>6 DEF Undisturbed, FirstStart
  <2> QED
    BY <2>5, <2>7
<1>9. ASSUME NEW t \in SimulatorTx, NEW k \in Sim!Kind, Sim!Create(k, t) PROVE SimInv'
  <2>1. /\ k \in {"tx", "diff"} /\ inflight[k] > 0 /\ inflight' = [inflight EXCEPT ![k] = 0]
        /\ tx[t] = Sim!Unmade /\ tx' = [tx EXCEPT ![t] = Sim!Submitted]
        /\ UNCHANGED <<guard, simulatorRunning, simulatorCalls, ids, leaders, have, inst, leadersSet, simulatorTimers, simulatorStarts, validated, overtaken>>
    BY <1>9 DEF Sim!Create
  <2>2. /\ Sim!Submitted \in SimTx /\ Sim!Submitted.at \in {"raw", "refused", "direct"} /\ Sim!Submitted.done = 0
        /\ Sim!Submitted.at = "raw" => /\ "xpc" \in have /\ leaders > 0 /\ ~guard
                                       /\ Sim!Submitted.inst = inst /\ Sim!Submitted.due = Sim!Leading
        /\ Sim!Submitted.at # "raw" => Sim!Submitted.due = 0
        /\ leaders > 0 /\ Sim!Submitted.at = "direct" => Sim!Submitted.inst = 0
    BY DEF Sim!Submitted, Sim!Consensus, SimTx, SimTyped, Sim!Leading
  <2>3. /\ tx' \in [SimulatorTx -> SimTx] /\ tx'[t] = Sim!Submitted /\ tx[t].at = "unmade"
        /\ \A u \in SimulatorTx \ {t} : tx'[u] = tx[u]
    BY <2>1, <2>2 DEF SimTyped, Sim!Unmade
  <2>4. (Alone' <=> Alone) /\ (Sim!SomeStart' <=> Sim!SomeStart)
    BY <2>1 DEF Alone, Sim!SomeStart, Sim!Starting
  <2>5. inflight' \in [Sim!Kind -> Nat] /\ inflight'[k] = 0 /\ \A l \in Sim!Kind \ {k} : inflight'[l] = inflight[l]
    BY <2>1 DEF SimTyped
  <2>6. SimTyped' /\ Made'
    BY <2>1, <2>3, <2>5 DEF SimTyped, Made, Sim!Kind
  <2>7. Finals' = Finals
    BY <2>2, <2>3 DEF Finals
  <2>8. Counted'
    BY <2>1, <2>2, <2>3, <2>7 DEF Counted, Sim!Leading
  <2>9. ~overtaken => leaders > 0
    BY <2>1 DEF Undisturbed, Made, SimTyped
  <2>10. Undisturbed'
    BY <2>1, <2>2, <2>3, <2>4, <2>5, <2>9 DEF Undisturbed, Sim!Kind
  <2>11. FirstStart'
    BY <2>1, <2>2, <2>3, <2>4 DEF FirstStart, Sim!Leading
  <2> QED
    BY <2>6, <2>8, <2>10, <2>11
<1>10. ASSUME Sim!StorageOperation \/ Sim!ComputeOperation PROVE SimInv'
  <2>1. /\ UNCHANGED <<guard, simulatorRunning, simulatorCalls, ids, leaders, have, inst, leadersSet, simulatorTimers, tx, simulatorStarts, validated, overtaken>>
        /\ \E k \in {"storage", "compute"} : inflight[k] > 0
    BY <1>10 DEF Sim!StorageOperation, Sim!ComputeOperation
  <2>2. /\ inflight' \in [Sim!Kind -> Nat]
        /\ \A k \in Sim!Kind : inflight'[k] > 0 => inflight[k] > 0 \/ (k = "diff" /\ ids > 0)
    <3>1. CASE Sim!StorageOperation
      BY <3>1 DEF Sim!StorageOperation, SimTyped, Sim!Kind
    <3>2. CASE Sim!ComputeOperation
      <4>1. PICK diff \in {0, 1} : /\ diff = 1 => ids > 0
                                   /\ inflight' = [inflight EXCEPT !["compute"] = 0, !["diff"] = inflight["diff"] + diff]
        BY <3>2 DEF Sim!ComputeOperation
      <4> QED
        BY <4>1 DEF SimTyped, Sim!Kind
    <3> QED
      BY <1>10, <3>1, <3>2
  <2>3. (Alone' <=> Alone) /\ (Sim!SomeStart' <=> Sim!SomeStart)
    BY <2>1 DEF Alone, Sim!SomeStart, Sim!Starting
  <2>4. SimTyped' /\ Made' /\ Counted'
    BY <2>1, <2>2 DEF SimTyped, Made, Counted, Finals, Sim!Kind
  <2>5. ~overtaken /\ InitialIds > 0 => leaders > 0
    BY <2>1 DEF Undisturbed, Sim!Kind
  <2>6. Undisturbed' /\ FirstStart'
    BY <2>1, <2>2, <2>3, <2>5 DEF Undisturbed, FirstStart
  <2> QED
    BY <2>4, <2>6
<1>11. ASSUME NEW t \in SimulatorTx, Sim!CompleteTask(t) PROVE SimInv'
  <2> DEFINE ok == tx[t].inst \in leadersSet /\ tx[t].inst = inst
             done == tx[t].done + (IF ok THEN 1 ELSE 0)
             now == [at |-> IF done = Sim!Leading THEN "processing" ELSE tx[t].at, inst |-> tx[t].inst, done |-> done, due |-> tx[t].due - 1]
  <2>1. /\ tx[t].due > 0 /\ tx' = [tx EXCEPT ![t] = now]
        /\ UNCHANGED <<guard, simulatorRunning, simulatorCalls, ids, leaders, have, inst, leadersSet, simulatorTimers, inflight, simulatorStarts, validated, overtaken>>
    BY <1>11 DEF Sim!CompleteTask, Sim!Known
  <2>2. tx[t] \in SimTx /\ tx[t].at = "raw" /\ tx[t].done + tx[t].due <= 3
    BY <2>1 DEF SimTyped, Counted, Sim!Leading
  <2>3. now \in SimTx /\ now.at \in {"raw", "processing"} /\ (now.at = "processing" => now.due = 0)
        /\ now.done + now.due <= 3 /\ now.inst = tx[t].inst
    BY <2>1, <2>2 DEF SimTx, Sim!Leading
  <2>4. ok /\ tx[t].done + tx[t].due = 3 /\ now.at = "raw" => now.due > 0 /\ now.done + now.due = 3
    BY <2>1, <2>2, <2>3 DEF SimTx, Sim!Leading
  <2> HIDE DEF now
  <2>5. tx' \in [SimulatorTx -> SimTx] /\ tx'[t] = now /\ \A u \in SimulatorTx \ {t} : tx'[u] = tx[u]
    BY <2>1, <2>3 DEF SimTyped
  <2>6. (Alone' <=> Alone) /\ (Sim!SomeStart' <=> Sim!SomeStart)
    BY <2>1 DEF Alone, Sim!SomeStart, Sim!Starting
  <2>7. SimTyped' /\ Made'
    BY <2>1, <2>5 DEF SimTyped, Made
  <2>8. Finals' = Finals
    BY <2>2, <2>3, <2>5 DEF Finals
  <2>9. Counted'
    BY <2>1, <2>2, <2>3, <2>5, <2>8 DEF Counted, Sim!Leading
  <2>10. Undisturbed'
    BY <2>1, <2>3, <2>5, <2>6 DEF Undisturbed
  <2>11. FirstStart'
    BY <2>1, <2>2, <2>3, <2>4, <2>5, <2>6 DEF FirstStart, Sim!Leading
  <2> QED
    BY <2>7, <2>9, <2>10, <2>11
<1>12. ASSUME NEW t \in SimulatorTx, Sim!AutoFinalize(t) PROVE SimInv'
  <2>1. /\ tx[t].at = "processing" /\ tx[t] \in SimTx
        /\ UNCHANGED <<guard, simulatorRunning, simulatorCalls, ids, leaders, have, inst, leadersSet, simulatorTimers, inflight, simulatorStarts, overtaken>>
    BY <1>12 DEF Sim!AutoFinalize, SimTyped
  <2>2. (Alone' <=> Alone) /\ (Sim!SomeStart' <=> Sim!SomeStart)
    BY <2>1 DEF Alone, Sim!SomeStart, Sim!Starting
  <2>3. ASSUME NEW to \in {"final", "missed"}, tx' = [tx EXCEPT ![t].at = to],
               to = "missed" => tx[t].inst # inst
        PROVE  /\ \A u \in SimulatorTx \ {t} : tx'[u] = tx[u]
               /\ tx' \in [SimulatorTx -> SimTx] /\ tx'[t].at = to /\ tx'[t].due = tx[t].due /\ tx'[t].inst = tx[t].inst
               /\ Undisturbed' /\ FirstStart'
    <3>1. /\ \A u \in SimulatorTx \ {t} : tx'[u] = tx[u]
          /\ tx'[t] = [tx[t] EXCEPT !.at = to] /\ tx' \in [SimulatorTx -> SimTx]
          /\ tx'[t].at = to /\ tx'[t].due = tx[t].due /\ tx'[t].inst = tx[t].inst
      BY <2>1, <2>3 DEF SimTyped, SimTx
    <3>2. Undisturbed' /\ FirstStart'
      BY <2>1, <2>2, <2>3, <3>1 DEF Undisturbed, FirstStart
    <3> QED
      BY <3>1, <3>2
  <2>4. CASE tx[t].inst = inst /\ tx' = [tx EXCEPT ![t].at = "final"] /\ validated' = validated + 1
    <3>1. SimTyped' /\ Made'
      BY <2>1, <2>3, <2>4 DEF SimTyped, Made
    <3>2. Finals' = Finals \cup {t} /\ t \notin Finals
      BY <2>1, <2>3, <2>4 DEF Finals
    <3>3. IsFiniteSet(Finals') /\ Cardinality(Finals') = Cardinality(Finals) + 1
      BY <3>2, FS_AddElement DEF Counted
    <3>4. Counted'
      BY <2>1, <2>3, <2>4, <3>3 DEF Counted
    <3> QED
      BY <2>3, <2>4, <3>1, <3>4
  <2>5. CASE tx[t].inst # inst /\ tx' = [tx EXCEPT ![t].at = "missed"] /\ validated' = validated
    <3>1. SimTyped' /\ Made'
      BY <2>1, <2>3, <2>5 DEF SimTyped, Made
    <3>2. Finals' = Finals
      BY <2>1, <2>3, <2>5 DEF Finals
    <3>3. Counted'
      BY <2>1, <2>3, <2>5, <3>2 DEF Counted
    <3> QED
      BY <2>3, <2>5, <3>1, <3>3
  <2> QED
    BY <1>12, <2>4, <2>5 DEF Sim!AutoFinalize
<1> QED
  BY <1>1, <1>2, <1>3, <1>4, <1>5, <1>6, <1>7, <1>8, <1>9, <1>10, <1>11, <1>12 DEF Sim!SimNext, Sim!Pause, Sim!Stop

LEMMA SimSound == SimInv => Sim!SimulatorSound
<1> SUFFICES ASSUME SimInv PROVE Sim!SimulatorSound
  OBVIOUS
<1>1. Sim!Quiet /\ Sim!ThroughConsensus
  BY DEF SimInv, Undisturbed, Sim!Quiet, Sim!ThroughConsensus
<1>2. Sim!NoneStranded
  BY IdentitiesAssumption DEF SimInv, SimTyped, FirstStart, Sim!NoneStranded, Sim!Stranded, Sim!Leading
<1>3. Sim!CountedOnce
  <2>1. validated = Sim!Cardinality({t \in SimulatorTx : tx[t].at = "final"})
    BY SimCardinality DEF SimInv, Counted, Finals
  <2>2. guard => Finals = {}
    BY DEF SimInv, Counted, Finals
  <2> QED
    BY <2>1, <2>2, FS_EmptySet DEF SimInv, Counted, Sim!CountedOnce
<1> QED
  BY <1>1, <1>2, <1>3 DEF Sim!SimulatorSound

----------------------------------------------------------------------------
(* The devnet and its bridge.  While no start was overlapped, a ledger     *)
(* that no bootstrap is filling is whole and verifies, and what is under   *)
(* way in it since the last disposal is between identities it knows.       *)

LEMMA DevPart == Spec => Sim!DevSpec
<1>1. Init => Sim!DevInit
  BY DEF Init
<1>2. [Next]_vars => [Sim!DevNext]_(Sim!devVars)
  BY DEF Next, vars, devnetVars, Sim!devVars, Sim!netVars, Sim!txVars, Sim!viewVars
<1> QED
  BY <1>1, <1>2, PTL DEF Spec, Sim!DevSpec

DevReq ==
  [op : {"free"}] \cup [op : {"boot"}, made : Nat]
    \cup [op : {"signing", "adding"}, id : Nat, from : Nat, to : Nat, on : Nat, at : Nat]
    \cup [op : {"answer"}, of : {"start", "stop", "status", "send"}, ok : BOOLEAN, value : Nat]
Transfer == [id : Nat, from : Nat, to : Nat, on : Nat, crossed : BOOLEAN]

InFlight(q) == q.op \in {"signing", "adding"}
Adding == {r \in Request : req[r].op = "adding"}
Known(s, a) == \E i \in 1 .. Len(s) : s[i] = a

DevTyped ==
  /\ devnetRunning \in BOOLEAN /\ nodeRunning \in BOOLEAN /\ overlapped \in BOOLEAN /\ disordered \in BOOLEAN
  /\ ledger \in Nat /\ ledgers \in Nat /\ devnetMinted \in Nat /\ seq \in Nat /\ disposals \in Nat
  /\ submitted \in Nat /\ landed \in Nat /\ rejected \in Nat
  /\ identities \in Seq(Nat) /\ applied \in Seq(Transfer) /\ req \in [Request -> DevReq]

\* What is numbered is numbered from 1, and nothing refers to what is not made yet.
Bounded ==
  /\ \A i \in 1 .. Len(identities) : identities[i] \in 1 .. devnetMinted
  /\ \A r \in Request : InFlight(req[r]) => /\ req[r].id \in 1 .. seq /\ req[r].at <= disposals
                                       /\ req[r].from <= devnetMinted /\ req[r].to <= devnetMinted
  /\ \A i \in 1 .. Len(applied) : /\ applied[i].id \in 1 .. seq /\ applied[i].on # 0
                                  /\ applied[i].from <= devnetMinted /\ applied[i].to <= devnetMinted

Bootstrapped ==
  ~overlapped =>
    /\ \A q, r \in Request : req[q].op = "boot" /\ req[r].op = "boot" => q = r
    /\ \A r \in Request : req[r].op = "boot" => ledger # 0 /\ req[r].made = Len(identities) /\ ~devnetRunning
    /\ ledger = 0 => Len(identities) = 0 /\ ~devnetRunning
    /\ ledger # 0 /\ ~Sim!Bootstrapping => Len(identities) = Wanted /\ ledger \in verifies

\* What is under way since the last disposal, and what has landed unverified.
Carried ==
  /\ ~overlapped => \A r \in Request : InFlight(req[r]) /\ req[r].at = disposals =>
       ledger # 0 /\ ~Sim!Bootstrapping /\ Known(identities, req[r].from) /\ (req[r].op = "adding" => req[r].on = ledger)
  /\ \A i \in 1 .. Len(applied) : applied[i].id \in unverified => overlapped \/ applied[i].crossed

Numbered ==
  /\ \A i, j \in 1 .. Len(applied) : i # j => applied[i].id # applied[j].id
  /\ \A q, r \in Request : InFlight(req[q]) /\ InFlight(req[r]) /\ q # r => req[q].id # req[r].id
  /\ \A r \in Request, i \in 1 .. Len(applied) : InFlight(req[r]) => applied[i].id # req[r].id
  /\ \A r \in Request : InFlight(req[r]) => req[r].id \notin unverified
  /\ \A id \in unverified : id \in 1 .. seq

Submissions ==
  /\ IsFiniteSet(Adding) /\ submitted = landed + rejected + Cardinality(Adding) /\ landed = Len(applied)

\* An identity of the present ledger is in no transfer of an earlier one.
Present ==
  ~overlapped =>
    /\ \A r \in Request : InFlight(req[r]) /\ (Known(identities, req[r].from) \/ Known(identities, req[r].to)) => req[r].at = disposals
    /\ \A i \in 1 .. Len(applied) : Known(identities, applied[i].from) \/ Known(identities, applied[i].to) => applied[i].on = ledger

Landed(s, id) == \E i \in 1 .. Len(s) : s[i].id = id
\* What the popup was told, or is about to be, has landed.
Told ==
  /\ \A id \in reported : Landed(applied, id)
  /\ \A r \in Request : req[r].op = "answer" /\ req[r].of = "send" /\ req[r].value # 0 => Landed(applied, req[r].value)

\* Message by message, the bridge's view follows the node; each answer tells of the node as it is.
Viewed ==
  ~disordered =>
    /\ \A q, r \in Request : req[q].op # "free" /\ req[r].op # "free" => q = r
    /\ \A r \in Request : req[r].op = "boot" => ledger # 0
    /\ (\A r \in Request : req[r].op = "free") => nodeRunning = devnetRunning
    /\ \A r \in Request : InFlight(req[r]) => nodeRunning = devnetRunning
    /\ \A r \in Request : req[r].op = "answer" =>
         /\ req[r].of = "start" => req[r].ok /\ devnetRunning
         /\ req[r].of = "stop" => req[r].ok /\ ~devnetRunning
         /\ req[r].of = "status" => req[r].ok /\ (req[r].value = 1 <=> devnetRunning)
         /\ req[r].of = "send" => nodeRunning = devnetRunning

DevInv == DevTyped /\ Bounded /\ Bootstrapped /\ Carried /\ Numbered /\ Submissions /\ Present /\ Told /\ Viewed

LEMMA DevSound == DevInv => Sim!DevnetSound
<1> SUFFICES ASSUME DevInv PROVE Sim!DevnetSound
  OBVIOUS
<1>1. Sim!AppliedVerified
  BY DEF DevInv, Carried, Sim!AppliedVerified
<1>2. Sim!RunningWhole
  BY DEF DevInv, Bootstrapped, Sim!RunningWhole, Sim!Bootstrapping
<1>3. Sim!Accounted
  BY SimCardinality DEF DevInv, Submissions, Numbered, Bounded, Adding, Sim!Accounted
<1>4. Sim!FreshAtZero
  <2> SUFFICES ASSUME NEW i \in 1 .. Len(identities), \A j \in 1 .. Len(applied) : applied[j].on # ledger, ~overlapped, devnetRunning
               PROVE Sim!balanceOf(identities[i]) = 0
    BY DEF Sim!FreshAtZero
  <2>1. \A j \in 1 .. Len(applied) : applied[j].to # identities[i] /\ applied[j].from # identities[i]
    BY DEF DevInv, Present, Known
  <2>2. /\ {j \in 1 .. Len(applied) : applied[j].to = identities[i]} = {}
        /\ {j \in 1 .. Len(applied) : applied[j].from = identities[i]} = {}
    BY <2>1
  <2>3. Cardinality({}) = 0
    BY FS_EmptySet
  <2> QED
    BY <2>2, <2>3, SimCardinality, 0 - 0 = 0 DEF Sim!balanceOf
<1>5. Sim!Truthful
  <2>1. (\A r \in Request : req[r] = Sim!Free) => \A r \in Request : req[r].op = "free"
    BY DEF Sim!Free
  <2> QED
    BY <2>1 DEF DevInv, Told, Viewed, Landed, Sim!Truthful
<1> QED
  BY <1>1, <1>2, <1>3, <1>4, <1>5 DEF Sim!DevnetSound

LEMMA DevInitially == Sim!DevInit => DevInv
<1> SUFFICES ASSUME Sim!DevInit PROVE DevInv
  OBVIOUS
<1>1. \A r \in Request : req[r].op = "free"
  BY DEF Sim!DevInit, Sim!Free
<1>2. Len(identities) = 0 /\ Len(applied) = 0 /\ identities \in Seq(Nat) /\ applied \in Seq(Transfer)
  BY DEF Sim!DevInit
<1>3. req \in [Request -> DevReq]
  BY DEF Sim!DevInit, Sim!Free, DevReq
<1>4. Adding = {}
  BY <1>1 DEF Adding
<1>5. Submissions
  BY <1>2, <1>4, FS_EmptySet DEF Sim!DevInit, Submissions
<1>6. DevTyped
  BY <1>2, <1>3 DEF Sim!DevInit, DevTyped
<1>7. Bounded /\ Bootstrapped /\ Carried /\ Numbered /\ Present
  BY <1>1, <1>2 DEF Sim!DevInit, Bounded, Bootstrapped, Carried, Numbered, Present, InFlight, Sim!Bootstrapping
<1>8. Told /\ Viewed
  BY <1>1, <1>2 DEF Sim!DevInit, Told, Viewed, InFlight
<1> QED
  BY <1>5, <1>6, <1>7, <1>8 DEF DevInv


LEMMA DevNextKeeps == DevInv /\ [Sim!DevNext]_(Sim!devVars) => DevInv'
<1> SUFFICES ASSUME DevInv, [Sim!DevNext]_(Sim!devVars) PROVE DevInv'
  OBVIOUS
<1> USE DEF DevInv
<1>1. CASE UNCHANGED Sim!devVars
  <2>1. UNCHANGED <<devnetRunning, ledger, ledgers, verifies, identities, devnetMinted, disposals, seq, applied, submitted, landed,
                    rejected, unverified, connected, nodeRunning, reported, overlapped, disordered, req>>
    BY <1>1 DEF Sim!devVars, Sim!netVars, Sim!txVars, Sim!viewVars
  <2>2. DevTyped' /\ Bounded'
    BY <2>1 DEF DevTyped, Bounded
  <2>3. Bootstrapped' /\ Carried'
    BY <2>1 DEF Bootstrapped, Carried, Sim!Bootstrapping
  <2>4. Numbered' /\ Submissions'
    BY <2>1 DEF Numbered, Submissions, Adding
  <2>5. Present'
    BY <2>1 DEF Present
  <2>6. Told' /\ Viewed'
    BY <2>1 DEF Told, Viewed
  <2> QED
    BY <2>2, <2>3, <2>4, <2>5, <2>6
<1>2. ASSUME NEW r \in Request, Sim!StartNode(r) PROVE DevInv'
  <2>1. /\ req[r].op = "free"
        /\ (\E q \in Request : req[q].op # "free") => disordered'
        /\ disordered => disordered'
        /\ overlapped' = (overlapped \/ Sim!Bootstrapping)
        /\ UNCHANGED <<verifies, identities, devnetMinted, disposals, seq, applied, submitted, landed, rejected, unverified,
                       connected, nodeRunning, reported>>
    <3>1. req[r] = Sim!Free /\ disordered' = (disordered \/ \E q \in Request : req[q] # Sim!Free)
      BY <1>2 DEF Sim!StartNode, Sim!Arrives
    <3>2. req[r].op = "free" /\ \A q \in Request : req[q].op # "free" => req[q] # Sim!Free
      BY <3>1 DEF Sim!Free
    <3>3. (\E q \in Request : req[q].op # "free") => disordered'
      BY <3>1, <3>2
    <3>4. disordered => disordered'
      BY <3>1
    <3> QED
      BY <3>2, <3>3, <3>4, <1>2 DEF Sim!StartNode, Sim!Arrives, Sim!txVars, Sim!viewVars
  <2>2. disordered' \in BOOLEAN /\ overlapped' \in BOOLEAN
    BY <1>2 DEF Sim!StartNode, Sim!Arrives
  <2>3. CASE devnetRunning \/ ledger # 0
    <3>1. /\ devnetRunning' = TRUE /\ ledger' = ledger /\ ledgers' = ledgers
          /\ req' = [req EXCEPT ![r] = Sim!Answer("start", TRUE, 0)]
      BY <1>2, <2>3 DEF Sim!StartNode
    <3>2. /\ req' \in [Request -> DevReq] /\ \A q \in Request \ {r} : req'[q] = req[q]
          /\ req'[r].op = "answer" /\ req'[r].of = "start" /\ req'[r].ok /\ req'[r].value = 0
      BY <3>1 DEF DevTyped, DevReq, Sim!Answer
    <3>3. (\A q \in Request : InFlight(req'[q]) <=> InFlight(req[q])) /\ Adding' = Adding /\ (Sim!Bootstrapping' <=> Sim!Bootstrapping)
      <4>1. \A q \in Request : InFlight(req'[q]) <=> InFlight(req[q])
        BY <2>1, <3>2 DEF InFlight
      <4>2. Adding' = Adding
        BY <2>1, <3>2 DEF Adding
      <4>3. Sim!Bootstrapping' <=> Sim!Bootstrapping
        BY <2>1, <3>2 DEF Sim!Bootstrapping
      <4> QED
        BY <4>1, <4>2, <4>3
    <3>4. DevTyped'
      BY <2>1, <2>2, <3>1, <3>2 DEF DevTyped
    <3>5. Bounded' /\ Numbered' /\ Submissions'
      BY <2>1, <3>1, <3>2, <3>3 DEF Bounded, Numbered, Submissions, InFlight
    <3>6. Bootstrapped'
      BY <2>1, <2>3, <3>1, <3>2, <3>3 DEF Bootstrapped, Sim!Bootstrapping
    <3>7. Carried' /\ Present'
      BY <2>1, <3>1, <3>2, <3>3 DEF Carried, Present, Known, InFlight
    <3>8. Told' /\ Viewed'
      <4>1. Told'
        BY <2>1, <3>1, <3>2, <3>3 DEF Told
      <4>2. Viewed'
        BY <2>1, <3>1, <3>2, <3>3 DEF Viewed, InFlight
      <4> QED
        BY <4>1, <4>2
    <3> QED
      BY <3>4, <3>5, <3>6, <3>7, <3>8
  <2>4. CASE ~devnetRunning /\ ledger = 0
    <3>1. /\ devnetRunning' = devnetRunning /\ ledger' = ledgers + 1 /\ ledgers' = ledgers + 1
          /\ req' = [req EXCEPT ![r] = [op |-> "boot", made |-> 0]]
      BY <1>2, <2>4 DEF Sim!StartNode
    <3>2. /\ req' \in [Request -> DevReq] /\ \A q \in Request \ {r} : req'[q] = req[q]
          /\ req'[r].op = "boot" /\ req'[r].made = 0
      BY <3>1 DEF DevTyped, DevReq
    <3>3. (\A q \in Request : InFlight(req'[q]) <=> InFlight(req[q])) /\ Adding' = Adding /\ Sim!Bootstrapping' /\ ledger' # 0
      BY <2>1, <3>1, <3>2 DEF InFlight, Adding, Sim!Bootstrapping, DevTyped
    <3>4. DevTyped'
      BY <2>1, <2>2, <3>1, <3>2 DEF DevTyped
    <3>5. Bounded' /\ Numbered' /\ Submissions'
      BY <2>1, <3>1, <3>2, <3>3 DEF Bounded, Numbered, Submissions, InFlight
    <3>6. Bootstrapped'
      BY <2>1, <2>4, <3>1, <3>2, <3>3 DEF Bootstrapped, Sim!Bootstrapping
    <3>7. Carried'
      BY <2>1, <2>4, <3>1, <3>2, <3>3 DEF Carried, InFlight
    <3>8. Present'
      <4>1. ~overlapped => \A a : ~Known(identities, a)
        BY <2>4 DEF Bootstrapped, Known
      <4> QED
        BY <2>1, <4>1 DEF Present
    <3>9. Told' /\ Viewed'
      <4>1. Told'
        BY <2>1, <3>1, <3>2, <3>3 DEF Told
      <4>2. Viewed'
        BY <2>1, <3>1, <3>2, <3>3 DEF Viewed, InFlight
      <4> QED
        BY <4>1, <4>2
    <3> QED
      BY <3>4, <3>5, <3>6, <3>7, <3>8, <3>9
  <2> QED
    BY <2>3, <2>4
<1>3. ASSUME NEW r \in Request, Sim!Mint(r) PROVE DevInv'
  <2>1. /\ req[r].op = "boot" /\ devnetMinted' = devnetMinted + 1 /\ identities' = Append(identities, devnetMinted + 1)
        /\ req' = [req EXCEPT ![r].made = req[r].made + 1]
        /\ UNCHANGED <<devnetRunning, ledger, verifies, ledgers, disposals, seq, applied, submitted, landed, rejected, unverified,
                       connected, nodeRunning, reported, overlapped, disordered>>
    BY <1>3 DEF Sim!Mint, Sim!txVars, Sim!viewVars
  <2>2. req[r] \in [op : {"boot"}, made : Nat]
    BY <2>1 DEF DevTyped, DevReq
  <2>3. [req[r] EXCEPT !.made = req[r].made + 1] = [op |-> "boot", made |-> req[r].made + 1]
    BY <2>2
  <2>4. /\ req' \in [Request -> DevReq] /\ \A q \in Request \ {r} : req'[q] = req[q]
        /\ req'[r].op = "boot" /\ req'[r].made = req[r].made + 1
    BY <2>1, <2>2, <2>3 DEF DevTyped, DevReq
  <2>5. (\A q \in Request : InFlight(req'[q]) <=> InFlight(req[q])) /\ Adding' = Adding /\ Sim!Bootstrapping' /\ Sim!Bootstrapping
    BY <2>1, <2>4 DEF InFlight, Adding, Sim!Bootstrapping
  <2>6. /\ identities' \in Seq(Nat) /\ Len(identities') = Len(identities) + 1
        /\ \A i \in 1 .. Len(identities) : identities'[i] = identities[i]
        /\ identities'[Len(identities) + 1] = devnetMinted + 1
    BY <2>1 DEF DevTyped
  <2>7. \A a : Known(identities', a) => Known(identities, a) \/ a = devnetMinted + 1
    <3>1. Len(identities) \in Nat
      BY DEF DevTyped
    <3>2. \A i \in 1 .. Len(identities') : i \in 1 .. Len(identities) \/ i = Len(identities) + 1
      BY <2>6, <3>1
    <3> QED
      BY <2>6, <3>2 DEF Known
  <2>8. DevTyped'
    BY <2>1, <2>4, <2>6 DEF DevTyped
  <2>9. Numbered' /\ Submissions'
    BY <2>1, <2>4, <2>5 DEF Numbered, Submissions, InFlight
  <2>10. Bounded'
    <3>1. \A q \in Request : InFlight(req[q]) => req[q].from \in Nat /\ req[q].to \in Nat
      BY DEF DevTyped, DevReq, InFlight
    <3>2. \A i \in 1 .. Len(applied) : applied[i] \in Transfer
      BY DEF DevTyped
    <3>3. \A i \in 1 .. Len(applied) : applied[i].from \in Nat /\ applied[i].to \in Nat
      BY <3>2 DEF Transfer
    <3>4. \A n \in Nat : n <= devnetMinted => n <= devnetMinted'
      BY <2>1 DEF DevTyped
    <3>5. \A i \in 1 .. Len(identities') : identities'[i] \in 1 .. devnetMinted'
      <4>1. Len(identities) \in Nat /\ devnetMinted \in Nat
        BY DEF DevTyped
      <4>2. \A i \in 1 .. Len(identities') : i \in 1 .. Len(identities) \/ i = Len(identities) + 1
        BY <2>6, <4>1
      <4>3. devnetMinted + 1 \in 1 .. (devnetMinted + 1) /\ \A n \in 1 .. devnetMinted : n \in 1 .. (devnetMinted + 1)
        BY <4>1
      <4> QED
        BY <2>1, <2>6, <4>2, <4>3 DEF Bounded
    <3>6. \A q \in Request : InFlight(req'[q]) => InFlight(req[q]) /\ req'[q] = req[q]
      BY <2>1, <2>4 DEF InFlight
    <3>7. \A i \in 1 .. Len(applied') : /\ applied'[i].id \in 1 .. seq' /\ applied'[i].on # 0
                                       /\ applied'[i].from <= devnetMinted' /\ applied'[i].to <= devnetMinted'
      BY <2>1, <3>3, <3>4 DEF Bounded
    <3>8. \A q \in Request : InFlight(req'[q]) => /\ req'[q].id \in 1 .. seq' /\ req'[q].at <= disposals'
                                                 /\ req'[q].from <= devnetMinted' /\ req'[q].to <= devnetMinted'
      BY <2>1, <3>1, <3>4, <3>6 DEF Bounded
    <3> QED
      BY <3>5, <3>7, <3>8 DEF Bounded
  <2>11. Bootstrapped'
    BY <2>1, <2>4, <2>5, <2>6 DEF Bootstrapped, Sim!Bootstrapping, DevTyped
  <2>12. Carried'
    BY <2>1, <2>4, <2>5 DEF Carried, InFlight
  <2>13. Present'
    <3>1. \A q \in Request : InFlight(req[q]) => req[q].from \in Nat /\ req[q].to \in Nat /\ req[q].from <= devnetMinted /\ req[q].to <= devnetMinted
      BY DEF DevTyped, DevReq, Bounded, InFlight
    <3>2. \A i \in 1 .. Len(applied) : applied[i].from \in Nat /\ applied[i].to \in Nat /\ applied[i].from <= devnetMinted /\ applied[i].to <= devnetMinted
      <4>1. \A i \in 1 .. Len(applied) : applied[i] \in Transfer
        BY DEF DevTyped
      <4> QED
        BY <4>1 DEF Transfer, Bounded
    <3>3. /\ \A q \in Request : InFlight(req[q]) => (Known(identities', req[q].from) => Known(identities, req[q].from)) /\ (Known(identities', req[q].to) => Known(identities, req[q].to))
          /\ \A i \in 1 .. Len(applied) : (Known(identities', applied[i].from) => Known(identities, applied[i].from)) /\ (Known(identities', applied[i].to) => Known(identities, applied[i].to))
      <4>1. \A n \in Nat : n <= devnetMinted => n # devnetMinted + 1
        BY DEF DevTyped
      <4> QED
        BY <2>7, <3>1, <3>2, <4>1
    <3> QED
      BY <2>1, <2>4, <2>5, <3>3 DEF Present, Known, InFlight
  <2>14. Told' /\ Viewed'
    <3>1. Told'
      BY <2>1, <2>4, <2>5 DEF Told
    <3>2. Viewed'
      BY <2>1, <2>4, <2>5 DEF Viewed, InFlight
    <3> QED
      BY <3>1, <3>2
  <2> QED
    BY <2>8, <2>9, <2>10, <2>11, <2>12, <2>13, <2>14
<1>4. ASSUME NEW r \in Request, Sim!Booted(r) PROVE DevInv'
  <2>1. /\ req[r].op = "boot" /\ req[r].made = Wanted /\ verifies' = verifies \cup ({ledger} \ {0})
        /\ devnetRunning' = (devnetRunning \/ ledger # 0)
        /\ req' = [req EXCEPT ![r] = Sim!Answer("start", ledger # 0, 0)]
        /\ UNCHANGED <<ledger, identities, devnetMinted, ledgers, disposals, seq, applied, submitted, landed, rejected, unverified,
                       connected, nodeRunning, reported, overlapped, disordered>>
    BY <1>4 DEF Sim!Booted, Sim!VerifiedFromNow, Sim!txVars, Sim!viewVars
  <2>2. (ledger # 0) \in BOOLEAN /\ devnetRunning' \in BOOLEAN
    BY <2>1
  <2>3. /\ req' \in [Request -> DevReq] /\ \A q \in Request \ {r} : req'[q] = req[q]
        /\ req'[r].op = "answer" /\ req'[r].of = "start" /\ req'[r].value = 0
    BY <2>1, <2>2 DEF DevTyped, DevReq, Sim!Answer
  <2>4. req'[r].ok <=> ledger # 0
    BY <2>1 DEF DevTyped, Sim!Answer
  <2>5. (\A q \in Request : InFlight(req'[q]) <=> InFlight(req[q])) /\ Adding' = Adding /\ Sim!Bootstrapping
    BY <2>1, <2>3 DEF InFlight, Adding, Sim!Bootstrapping
  <2>6. DevTyped'
    BY <2>1, <2>2, <2>3 DEF DevTyped
  <2>7. Bounded' /\ Numbered' /\ Submissions'
    BY <2>1, <2>3, <2>5 DEF Bounded, Numbered, Submissions, InFlight
  <2>8. Bootstrapped'
    BY <2>1, <2>3, <2>5 DEF Bootstrapped, Sim!Bootstrapping
  <2>9. Carried'
    BY <2>1, <2>3, <2>5 DEF Carried, InFlight
  <2>10. Present'
    BY <2>1, <2>3, <2>5 DEF Present, Known, InFlight
  <2>11. Told' /\ Viewed'
    <3>1. Told'
      BY <2>1, <2>3, <2>4, <2>5 DEF Told
    <3>2. Viewed'
      BY <2>1, <2>3, <2>4, <2>5 DEF Viewed, InFlight
    <3> QED
      BY <3>1, <3>2
  <2> QED
    BY <2>6, <2>7, <2>8, <2>9, <2>10, <2>11
<1>5. ASSUME NEW r \in Request, Sim!StopNode(r) PROVE DevInv'
  <2>1. /\ req[r].op = "free"
        /\ (\E q \in Request : req[q].op # "free") => disordered'
        /\ disordered => disordered'
        /\ devnetRunning' = FALSE /\ req' = [req EXCEPT ![r] = Sim!Answer("stop", TRUE, 0)]
        /\ UNCHANGED <<ledger, ledgers, verifies, identities, devnetMinted, disposals, seq, applied, submitted, landed, rejected, unverified,
                       connected, nodeRunning, reported, overlapped>>
    <3>1. req[r] = Sim!Free /\ disordered' = (disordered \/ \E q \in Request : req[q] # Sim!Free)
      BY <1>5 DEF Sim!StopNode, Sim!Arrives
    <3>2. req[r].op = "free" /\ \A q \in Request : req[q].op # "free" => req[q] # Sim!Free
      BY <3>1 DEF Sim!Free
    <3>3. (\E q \in Request : req[q].op # "free") => disordered'
      BY <3>1, <3>2
    <3>4. disordered => disordered'
      BY <3>1
    <3> QED
      BY <3>2, <3>3, <3>4, <1>5 DEF Sim!StopNode, Sim!Arrives, Sim!txVars, Sim!viewVars
  <2>2. disordered' \in BOOLEAN
    BY <1>5 DEF Sim!StopNode, Sim!Arrives
  <2>3. /\ req' \in [Request -> DevReq] /\ \A q \in Request \ {r} : req'[q] = req[q]
        /\ req'[r].op = "answer" /\ req'[r].of = "stop" /\ req'[r].ok /\ req'[r].value = 0
    BY <2>1 DEF DevTyped, DevReq, Sim!Answer
  <2>4. (\A q \in Request : InFlight(req'[q]) <=> InFlight(req[q])) /\ Adding' = Adding /\ (Sim!Bootstrapping' <=> Sim!Bootstrapping)
    BY <2>1, <2>3 DEF InFlight, Adding, Sim!Bootstrapping
  <2>5. DevTyped'
    BY <2>1, <2>2, <2>3 DEF DevTyped
  <2>6. Bounded' /\ Numbered' /\ Submissions'
    BY <2>1, <2>3, <2>4 DEF Bounded, Numbered, Submissions, InFlight
  <2>7. Bootstrapped'
    BY <2>1, <2>3, <2>4 DEF Bootstrapped, Sim!Bootstrapping
  <2>8. Carried' /\ Present'
    BY <2>1, <2>3, <2>4 DEF Carried, Present, Known, InFlight
  <2>9. Told' /\ Viewed'
    <3>1. Told'
      BY <2>1, <2>3, <2>4 DEF Told
    <3>2. Viewed'
      BY <2>1, <2>3, <2>4 DEF Viewed, InFlight
    <3> QED
      BY <3>1, <3>2
  <2> QED
    BY <2>5, <2>6, <2>7, <2>8, <2>9
<1>6. ASSUME NEW r \in Request, Sim!Status(r) PROVE DevInv'
  <2>1. /\ req[r].op = "free"
        /\ (\E q \in Request : req[q].op # "free") => disordered'
        /\ disordered => disordered'
        /\ req' = [req EXCEPT ![r] = Sim!Answer("status", TRUE, IF devnetRunning THEN 1 ELSE 0)]
        /\ UNCHANGED <<devnetRunning, ledger, ledgers, verifies, identities, devnetMinted, disposals, seq, applied, submitted, landed,
                       rejected, unverified, connected, nodeRunning, reported, overlapped>>
    <3>1. req[r] = Sim!Free /\ disordered' = (disordered \/ \E q \in Request : req[q] # Sim!Free)
      BY <1>6 DEF Sim!Status, Sim!Arrives
    <3>2. req[r].op = "free" /\ \A q \in Request : req[q].op # "free" => req[q] # Sim!Free
      BY <3>1 DEF Sim!Free
    <3>3. (\E q \in Request : req[q].op # "free") => disordered'
      BY <3>1, <3>2
    <3>4. disordered => disordered'
      BY <3>1
    <3> QED
      BY <3>2, <3>3, <3>4, <1>6 DEF Sim!Status, Sim!Arrives, Sim!netVars, Sim!txVars, Sim!viewVars
  <2>2. disordered' \in BOOLEAN
    BY <1>6 DEF Sim!Status, Sim!Arrives
  <2>3. /\ req' \in [Request -> DevReq] /\ \A q \in Request \ {r} : req'[q] = req[q]
        /\ req'[r].op = "answer" /\ req'[r].of = "status" /\ req'[r].ok /\ (req'[r].value = 1 <=> devnetRunning)
    BY <2>1 DEF DevTyped, DevReq, Sim!Answer
  <2>4. (\A q \in Request : InFlight(req'[q]) <=> InFlight(req[q])) /\ Adding' = Adding /\ (Sim!Bootstrapping' <=> Sim!Bootstrapping)
    BY <2>1, <2>3 DEF InFlight, Adding, Sim!Bootstrapping
  <2>5. DevTyped'
    BY <2>1, <2>2, <2>3 DEF DevTyped
  <2>6. Bounded' /\ Numbered' /\ Submissions'
    BY <2>1, <2>3, <2>4 DEF Bounded, Numbered, Submissions, InFlight
  <2>7. Bootstrapped'
    BY <2>1, <2>3, <2>4 DEF Bootstrapped, Sim!Bootstrapping
  <2>8. Carried' /\ Present'
    BY <2>1, <2>3, <2>4 DEF Carried, Present, Known, InFlight
  <2>9. Told' /\ Viewed'
    <3>1. Told'
      BY <2>1, <2>3, <2>4 DEF Told
    <3>2. Viewed'
      BY <2>1, <2>3, <2>4 DEF Viewed, InFlight
    <3> QED
      BY <3>1, <3>2
  <2> QED
    BY <2>5, <2>6, <2>7, <2>8, <2>9
<1>7. ASSUME Sim!Dispose PROVE DevInv'
  <2>1. /\ disposals' = disposals + 1 /\ devnetRunning' = FALSE /\ ledger' = 0 /\ identities' = <<>>
        /\ overlapped' = (overlapped \/ Sim!Bootstrapping) /\ disordered' = TRUE
        /\ UNCHANGED <<verifies, devnetMinted, ledgers, req, seq, applied, submitted, landed, rejected, unverified,
                       connected, nodeRunning, reported>>
    BY <1>7 DEF Sim!Dispose, Sim!txVars, Sim!viewVars
  <2>2. overlapped' \in BOOLEAN /\ Len(identities') = 0 /\ identities' \in Seq(Nat)
    BY <2>1
  <2>3. (\A q \in Request : InFlight(req'[q]) <=> InFlight(req[q])) /\ Adding' = Adding /\ (Sim!Bootstrapping' <=> Sim!Bootstrapping)
    BY <2>1 DEF InFlight, Adding, Sim!Bootstrapping
  <2>4. DevTyped'
    <3>1. disordered' \in BOOLEAN /\ devnetRunning' \in BOOLEAN
      BY <2>1
    <3> QED
      BY <2>1, <2>2, <3>1 DEF DevTyped
  <2>5. \A q \in Request : InFlight(req[q]) => req[q].at \in Nat /\ req[q].at <= disposals
    BY DEF InFlight, DevTyped, DevReq, Bounded
  <2>6. Bounded' /\ Numbered' /\ Submissions'
    BY <2>1, <2>2, <2>3, <2>5 DEF Bounded, Numbered, Submissions, InFlight, DevTyped
  <2>7. Bootstrapped'
    BY <2>1, <2>2, <2>3 DEF Bootstrapped, Sim!Bootstrapping
  <2>8. Carried'
    BY <2>1, <2>3, <2>5 DEF Carried, InFlight, DevTyped
  <2>9. Present'
    BY <2>1, <2>2 DEF Present, Known
  <2>10. Told' /\ Viewed'
    <3>1. Told'
      BY <2>1 DEF Told
    <3>2. Viewed'
      BY <2>1 DEF Viewed, InFlight
    <3> QED
      BY <3>1, <3>2
  <2> QED
    BY <2>4, <2>6, <2>7, <2>8, <2>9, <2>10

<1>8. ASSUME NEW r \in Request, Sim!Send(r) PROVE DevInv'
  <2>1. /\ req[r].op = "free"
        /\ (\E q \in Request : req[q].op # "free") => disordered'
        /\ disordered => disordered'
        /\ UNCHANGED <<devnetRunning, ledger, ledgers, verifies, identities, devnetMinted, disposals, applied, submitted, landed,
                       rejected, unverified, connected, nodeRunning, reported, overlapped>>
    <3>1. req[r] = Sim!Free /\ disordered' = (disordered \/ \E q \in Request : req[q] # Sim!Free)
      BY <1>8 DEF Sim!Send, Sim!Arrives
    <3>2. req[r].op = "free" /\ \A q \in Request : req[q].op # "free" => req[q] # Sim!Free
      BY <3>1 DEF Sim!Free
    <3>3. (\E q \in Request : req[q].op # "free") => disordered'
      BY <3>1, <3>2
    <3>4. disordered => disordered'
      BY <3>1
    <3> QED
      BY <3>2, <3>3, <3>4, <1>8 DEF Sim!Send, Sim!Arrives, Sim!netVars, Sim!viewVars
  <2>2. disordered' \in BOOLEAN
    BY <1>8 DEF Sim!Send, Sim!Arrives
  <2>3. CASE devnetRunning /\ Len(identities) >= Sim!Wallet
    <3>1. PICK to \in Sim!Recipients :
            req' = [req EXCEPT ![r] = [op |-> "signing", id |-> seq', from |-> identities[Sim!Wallet], to |-> to, on |-> ledger, at |-> disposals]]
      BY <1>8, <2>3 DEF Sim!Send
    <3>2. seq' = seq + 1
      BY <1>8, <2>3 DEF Sim!Send
    <3>3. /\ identities[1] \in Nat /\ Known(identities, identities[1]) /\ identities[1] <= devnetMinted
          /\ to \in Nat /\ to <= devnetMinted
      BY <2>3 DEF DevTyped, Bounded, Known, Sim!Recipients, Sim!Wallet
    <3>4. /\ req' \in [Request -> DevReq] /\ \A q \in Request \ {r} : req'[q] = req[q]
          /\ req'[r].op = "signing" /\ req'[r].id = seq + 1 /\ req'[r].from = identities[1] /\ req'[r].to = to
          /\ req'[r].at = disposals
      BY <3>1, <3>2, <3>3 DEF DevTyped, DevReq, Sim!Wallet
    <3>5. /\ \A q \in Request \ {r} : InFlight(req'[q]) <=> InFlight(req[q])
          /\ InFlight(req'[r]) /\ ~InFlight(req[r]) /\ Adding' = Adding /\ (Sim!Bootstrapping' <=> Sim!Bootstrapping)
      BY <2>1, <3>4 DEF InFlight, Adding, Sim!Bootstrapping
    <3>6. ~overlapped => ledger # 0 /\ ~Sim!Bootstrapping
      BY <2>3 DEF Bootstrapped, Sim!Bootstrapping
    <3>7. DevTyped'
      BY <2>1, <2>2, <3>2, <3>4 DEF DevTyped
    <3>8. Bounded'
      <4>1. \A q \in Request \ {r} : InFlight(req[q]) => req[q].id \in 1 .. (seq + 1)
        BY DEF Bounded, DevTyped
      <4>2. \A i \in 1 .. Len(applied) : applied[i].id \in 1 .. (seq + 1)
        BY DEF Bounded, DevTyped
      <4> QED
        BY <2>1, <3>2, <3>3, <3>4, <3>5, <4>1, <4>2 DEF Bounded, InFlight, DevTyped
    <3>9. Numbered' /\ Submissions'
      <4>1. \A q \in Request : InFlight(req[q]) => req[q].id \in 1 .. seq
        BY DEF Bounded
      <4>2. \A i \in 1 .. Len(applied) : applied[i].id \in 1 .. seq
        BY DEF Bounded
      <4>3. seq + 1 \notin 1 .. seq /\ \A n \in 1 .. seq : n \in 1 .. (seq + 1)
        BY DEF DevTyped
      <4>4. Numbered'
        BY <2>1, <3>2, <3>4, <3>5, <4>1, <4>2, <4>3 DEF Numbered, InFlight
      <4> QED
        BY <2>1, <3>5, <4>4 DEF Submissions
    <3>10. Bootstrapped'
      BY <2>1, <3>4, <3>5 DEF Bootstrapped, Sim!Bootstrapping
    <3>11. Carried' /\ Present'
      BY <2>1, <3>3, <3>4, <3>5, <3>6 DEF Carried, Present, Known, InFlight
    <3>12. Told' /\ Viewed'
      <4>1. Told'
        BY <2>1, <3>4, <3>5 DEF Told
      <4>2. Viewed'
        BY <2>1, <3>4, <3>5 DEF Viewed, InFlight
      <4> QED
        BY <4>1, <4>2
    <3> QED
      BY <3>7, <3>8, <3>9, <3>10, <3>11, <3>12
  <2>4. CASE ~(devnetRunning /\ Len(identities) >= Sim!Wallet)
    <3>1. seq' = seq /\ req' = [req EXCEPT ![r] = Sim!Answer("send", FALSE, 0)]
      BY <1>8, <2>4 DEF Sim!Send
    <3>2. /\ req' \in [Request -> DevReq] /\ \A q \in Request \ {r} : req'[q] = req[q]
          /\ req'[r].op = "answer" /\ req'[r].of = "send" /\ req'[r].value = 0
      BY <3>1 DEF DevTyped, DevReq, Sim!Answer
    <3>3. (\A q \in Request : InFlight(req'[q]) <=> InFlight(req[q])) /\ Adding' = Adding /\ (Sim!Bootstrapping' <=> Sim!Bootstrapping)
      BY <2>1, <3>2 DEF InFlight, Adding, Sim!Bootstrapping
    <3>4. DevTyped'
      BY <2>1, <2>2, <3>1, <3>2 DEF DevTyped
    <3>5. Bounded' /\ Numbered' /\ Submissions'
      BY <2>1, <3>1, <3>2, <3>3 DEF Bounded, Numbered, Submissions, InFlight
    <3>6. Bootstrapped'
      BY <2>1, <3>2, <3>3 DEF Bootstrapped, Sim!Bootstrapping
    <3>7. Carried' /\ Present'
      BY <2>1, <3>2, <3>3 DEF Carried, Present, Known, InFlight
    <3>8. Told' /\ Viewed'
      <4>1. Told'
        BY <2>1, <3>2, <3>3 DEF Told
      <4>2. Viewed'
        BY <2>1, <3>2, <3>3 DEF Viewed, InFlight
      <4> QED
        BY <4>1, <4>2
    <3> QED
      BY <3>4, <3>5, <3>6, <3>7, <3>8
  <2> QED
    BY <2>3, <2>4
<1>9. ASSUME NEW r \in Request, Sim!Signed(r) PROVE DevInv'
  <2>1. /\ req[r].op = "signing" /\ submitted' = submitted + 1
        /\ req' = [req EXCEPT ![r].op = "adding", ![r].on = ledger]
        /\ UNCHANGED <<devnetRunning, ledger, ledgers, verifies, identities, devnetMinted, disposals, seq, applied, landed,
                       rejected, unverified, connected, nodeRunning, reported, overlapped, disordered>>
    BY <1>9 DEF Sim!Signed, Sim!netVars, Sim!viewVars
  <2>2. req[r] \in [op : {"signing", "adding"}, id : Nat, from : Nat, to : Nat, on : Nat, at : Nat]
    BY <2>1 DEF DevTyped, DevReq
  <2>3. /\ req' \in [Request -> DevReq] /\ \A q \in Request \ {r} : req'[q] = req[q]
        /\ req'[r].op = "adding" /\ req'[r].on = ledger
        /\ req'[r].id = req[r].id /\ req'[r].from = req[r].from /\ req'[r].to = req[r].to /\ req'[r].at = req[r].at
    BY <2>1, <2>2 DEF DevTyped, DevReq
  <2>4. /\ \A q \in Request : (InFlight(req'[q]) <=> InFlight(req[q])) /\ (req'[q].op = "boot" <=> req[q].op = "boot")
        /\ InFlight(req[r]) /\ Adding' = Adding \cup {r} /\ r \notin Adding /\ (Sim!Bootstrapping' <=> Sim!Bootstrapping)
    BY <2>1, <2>3 DEF InFlight, Adding, Sim!Bootstrapping
  <2>5. DevTyped'
    BY <2>1, <2>3 DEF DevTyped
  <2>6. Bounded' /\ Numbered'
    BY <2>1, <2>3, <2>4 DEF Bounded, Numbered, InFlight
  <2>7. Submissions'
    <3>1. IsFiniteSet(Adding') /\ Cardinality(Adding') = Cardinality(Adding) + 1 /\ Cardinality(Adding) \in Nat
      BY <2>4, FS_AddElement, FS_CardinalityType DEF Submissions
    <3> QED
      BY <2>1, <3>1 DEF Submissions, DevTyped
  <2>8. Bootstrapped'
    BY <2>1, <2>3, <2>4 DEF Bootstrapped, Sim!Bootstrapping
  <2>9. Carried' /\ Present'
    BY <2>1, <2>3, <2>4 DEF Carried, Present, Known, InFlight
  <2>10. Told' /\ Viewed'
    <3>1. Told'
      BY <2>1, <2>3, <2>4 DEF Told
    <3>2. Viewed'
      BY <2>1, <2>3, <2>4 DEF Viewed, InFlight
    <3> QED
      BY <3>1, <3>2
  <2> QED
    BY <2>5, <2>6, <2>7, <2>8, <2>9, <2>10
<1>10. ASSUME NEW r \in Request, Sim!Added(r) PROVE DevInv'
  <2>1. PICK q : q = req[r]
    OBVIOUS
  <2>2. /\ q.op = "adding" /\ InFlight(req[r])
        /\ UNCHANGED <<devnetRunning, ledger, ledgers, verifies, identities, devnetMinted, disposals, seq, submitted,
                       connected, nodeRunning, reported, overlapped, disordered>>
    BY <1>10, <2>1 DEF Sim!Added, Sim!netVars, Sim!viewVars, InFlight
  <2>3. /\ q \in [op : {"signing", "adding"}, id : Nat, from : Nat, to : Nat, on : Nat, at : Nat]
        /\ q.id \in Nat /\ q.from \in Nat /\ q.to \in Nat /\ q.on \in Nat /\ q.at \in Nat
    BY <2>1, <2>2 DEF DevTyped, DevReq
  <2>4. /\ q.id \in 1 .. seq /\ q.from <= devnetMinted /\ q.to <= devnetMinted /\ q.at <= disposals
        /\ q.id \notin unverified /\ (\A i \in 1 .. Len(applied) : applied[i].id # q.id)
        /\ \A p \in Request \ {r} : InFlight(req[p]) => req[p].id # q.id
    BY <2>1, <2>2 DEF Bounded, Numbered
  <2>5. IsFiniteSet(Adding \ {r}) /\ Cardinality(Adding \ {r}) = Cardinality(Adding) - 1 /\ Cardinality(Adding) \in Nat
        /\ Cardinality(Adding) > 0
    <3>1. r \in Adding /\ IsFiniteSet(Adding)
      BY <2>1, <2>2 DEF Adding, Submissions
    <3>2. IsFiniteSet(Adding \ {r}) /\ Cardinality(Adding \ {r}) = Cardinality(Adding) - 1 /\ Cardinality(Adding) \in Nat
      BY <3>1, FS_RemoveElement, FS_CardinalityType
    <3>3. Cardinality(Adding \ {r}) \in Nat
      BY <3>2, FS_CardinalityType
    <3> QED
      BY <3>2, <3>3
  <2>6. CASE /\ q.on # 0 /\ landed' = landed + 1 /\ rejected' = rejected
             /\ applied' = Append(applied, [id |-> q.id, from |-> q.from, to |-> q.to, on |-> q.on, crossed |-> disposals # q.at])
             /\ unverified' = IF Sim!Checked(q) THEN unverified ELSE unverified \cup {q.id}
             /\ req' = [req EXCEPT ![r] = Sim!Answer("send", TRUE, q.id)]
    <3>1. /\ req' \in [Request -> DevReq] /\ \A p \in Request \ {r} : req'[p] = req[p]
          /\ req'[r].op = "answer" /\ req'[r].of = "send" /\ req'[r].value = q.id
      BY <2>3, <2>6 DEF DevTyped, DevReq, Sim!Answer
    <3>2. /\ \A p \in Request \ {r} : InFlight(req'[p]) <=> InFlight(req[p])
          /\ ~InFlight(req'[r]) /\ Adding' = Adding \ {r} /\ (Sim!Bootstrapping' <=> Sim!Bootstrapping)
      BY <2>1, <2>2, <3>1 DEF InFlight, Adding, Sim!Bootstrapping
    <3>3. PICK a : a = [id |-> q.id, from |-> q.from, to |-> q.to, on |-> q.on, crossed |-> disposals # q.at]
      OBVIOUS
    <3>4. a \in Transfer /\ a.id = q.id /\ a.from = q.from /\ a.to = q.to /\ a.on = q.on
      BY <2>3, <3>3 DEF Transfer
    <3>5. a.crossed <=> disposals # q.at
      BY <3>3
    <3>6. /\ applied' \in Seq(Transfer) /\ Len(applied') = Len(applied) + 1 /\ applied'[Len(applied) + 1] = a
          /\ \A i \in 1 .. Len(applied) : applied'[i] = applied[i]
      BY <2>6, <3>3, <3>4 DEF DevTyped
    <3>7. DevTyped'
      <4>1. landed' \in Nat /\ rejected' \in Nat
        BY <2>6 DEF DevTyped
      <4> QED
        BY <2>2, <3>1, <3>6, <4>1 DEF DevTyped
    <3>8. Len(applied) \in Nat /\ \A i \in 1 .. Len(applied') : i \in 1 .. Len(applied) \/ i = Len(applied) + 1
      BY <3>6 DEF DevTyped
    <3>9. Bounded'
      <4>1. \A i \in 1 .. Len(applied') : /\ applied'[i].id \in 1 .. seq /\ applied'[i].on # 0
                                         /\ applied'[i].from <= devnetMinted /\ applied'[i].to <= devnetMinted
        <5>1. q.on # 0
          BY <2>6
        <5> QED
          BY <2>4, <3>4, <3>6, <3>8, <5>1 DEF Bounded
      <4> QED
        BY <2>2, <3>1, <3>2, <4>1 DEF Bounded
    <3>10. Numbered'
      <4>1. \A i, j \in 1 .. Len(applied') : i # j => applied'[i].id # applied'[j].id
        BY <2>4, <3>4, <3>6, <3>8 DEF Numbered
      <4>2. \A p \in Request \ {r}, i \in 1 .. Len(applied') : InFlight(req[p]) => applied'[i].id # req[p].id
        BY <2>4, <3>4, <3>6, <3>8 DEF Numbered
      <4>3. \A p \in Request \ {r} : InFlight(req[p]) => req[p].id \notin unverified'
        BY <2>4, <2>6 DEF Numbered
      <4>4. \A id \in unverified' : id \in 1 .. seq
        BY <2>4, <2>6 DEF Numbered
      <4> QED
        BY <2>2, <3>1, <3>2, <4>1, <4>2, <4>3, <4>4 DEF Numbered, InFlight
    <3>11. Submissions'
      BY <2>2, <2>5, <2>6, <3>2, <3>6 DEF Submissions, DevTyped
    <3>12. Bootstrapped'
      BY <2>2, <3>1, <3>2 DEF Bootstrapped, Sim!Bootstrapping
    <3>13. Carried'
      <4>1. q.id \in unverified' => overlapped \/ disposals # q.at
        BY <2>1, <2>2, <2>4, <2>6 DEF Carried, Bootstrapped, Sim!Checked, Known
      <4>2. \A i \in 1 .. Len(applied) : applied[i].id \in unverified' => applied[i].id \in unverified
        BY <2>4, <2>6
      <4>3. \A i \in 1 .. Len(applied') : applied'[i].id \in unverified' => overlapped' \/ applied'[i].crossed
        BY <2>2, <3>4, <3>5, <3>6, <3>8, <4>1, <4>2 DEF Carried
      <4> QED
        BY <2>2, <3>1, <3>2, <4>3 DEF Carried, InFlight, Known
    <3>14. Present'
      <4>1. ~overlapped /\ (Known(identities, q.from) \/ Known(identities, q.to)) => q.on = ledger
        BY <2>1, <2>2 DEF Present, Carried
      <4> QED
        BY <2>2, <3>1, <3>2, <3>4, <3>6, <3>8, <4>1 DEF Present, Known, InFlight
    <3>15. Told'
      <4>1. \A id : Landed(applied, id) => Landed(applied', id)
        BY <3>6, <3>8 DEF Landed
      <4>2. Landed(applied', q.id)
        BY <3>4, <3>6, <3>8 DEF Landed
      <4>3. \A p \in Request : req'[p].op = "answer" /\ req'[p].of = "send" /\ req'[p].value # 0 => Landed(applied', req'[p].value)
        BY <2>2, <3>1, <4>1, <4>2 DEF Told
      <4>4. \A id \in reported' : Landed(applied', id)
        BY <2>2, <4>1 DEF Told
      <4> QED
        BY <4>3, <4>4 DEF Told
    <3>16. Viewed'
      BY <2>1, <2>2, <3>1, <3>2 DEF Viewed, InFlight
    <3> QED
      BY <3>7, <3>9, <3>10, <3>11, <3>12, <3>13, <3>14, <3>15, <3>16
  <2>7. CASE rejected' = rejected + 1 /\ req' = [req EXCEPT ![r] = Sim!Answer("send", TRUE, 0)] /\ UNCHANGED <<landed, applied, unverified>>
    <3>1. /\ req' \in [Request -> DevReq] /\ \A p \in Request \ {r} : req'[p] = req[p]
          /\ req'[r].op = "answer" /\ req'[r].of = "send" /\ req'[r].value = 0
      BY <2>7 DEF DevTyped, DevReq, Sim!Answer
    <3>2. /\ \A p \in Request \ {r} : InFlight(req'[p]) <=> InFlight(req[p])
          /\ ~InFlight(req'[r]) /\ Adding' = Adding \ {r} /\ (Sim!Bootstrapping' <=> Sim!Bootstrapping)
      BY <2>1, <2>2, <3>1 DEF InFlight, Adding, Sim!Bootstrapping
    <3>3. DevTyped'
      <4>1. rejected' \in Nat
        BY <2>7 DEF DevTyped
      <4> QED
        BY <2>2, <2>7, <3>1, <4>1 DEF DevTyped
    <3>4. Bounded' /\ Numbered'
      BY <2>2, <2>7, <3>1, <3>2 DEF Bounded, Numbered, InFlight
    <3>5. Submissions'
      <4>1. rejected' = rejected + 1 /\ landed' = landed /\ applied' = applied
        BY <2>7
      <4>2. submitted' = landed' + rejected' + Cardinality(Adding')
        <5>1. submitted = landed + rejected + Cardinality(Adding) /\ landed \in Nat /\ rejected \in Nat
          BY DEF Submissions, DevTyped
        <5>2. Cardinality(Adding') = Cardinality(Adding) - 1
          BY <2>5, <3>2
        <5> QED
          BY <2>2, <2>5, <4>1, <5>1, <5>2
      <4> QED
        BY <2>5, <3>2, <4>1, <4>2 DEF Submissions
    <3>6. Bootstrapped'
      BY <2>2, <3>1, <3>2 DEF Bootstrapped, Sim!Bootstrapping
    <3>7. Carried' /\ Present'
      BY <2>2, <2>7, <3>1, <3>2 DEF Carried, Present, Known, InFlight
    <3>8. Told' /\ Viewed'
      <4>1. Told'
        BY <2>1, <2>2, <2>7, <3>1, <3>2 DEF Told
      <4>2. Viewed'
        BY <2>1, <2>2, <2>7, <3>1, <3>2 DEF Viewed, InFlight
      <4> QED
        BY <4>1, <4>2
    <3> QED
      BY <3>3, <3>4, <3>5, <3>6, <3>7, <3>8
  <2> QED
    BY <1>10, <2>1, <2>6, <2>7 DEF Sim!Added, Sim!Lands
<1>11. ASSUME NEW r \in Request, Sim!Receive(r) PROVE DevInv'
  <2>1. PICK a : a = req[r]
    OBVIOUS
  <2>2. /\ a.op = "answer" /\ req' = [req EXCEPT ![r] = Sim!Free]
        /\ nodeRunning' = IF a.ok THEN Sim!Shown(a) ELSE nodeRunning
        /\ reported' = IF a.of = "send" /\ a.value # 0 THEN reported \cup {a.value} ELSE reported
        /\ UNCHANGED <<devnetRunning, ledger, ledgers, verifies, identities, devnetMinted, disposals, seq, applied, submitted, landed,
                       rejected, unverified, overlapped, disordered>>
    BY <1>11, <2>1 DEF Sim!Receive, Sim!netVars, Sim!txVars
  <2>3. a.of \in {"start", "stop", "status", "send"}
    BY <2>1, <2>2 DEF DevTyped, DevReq
  <2>4. nodeRunning' \in BOOLEAN
    BY <2>2 DEF Sim!Shown, DevTyped
  <2>5. req' \in [Request -> DevReq] /\ req'[r].op = "free" /\ \A p \in Request \ {r} : req'[p] = req[p]
    BY <2>2 DEF DevTyped, DevReq, Sim!Free
  <2>6. (\A p \in Request : InFlight(req'[p]) <=> InFlight(req[p])) /\ Adding' = Adding /\ (Sim!Bootstrapping' <=> Sim!Bootstrapping)
    BY <2>1, <2>2, <2>5 DEF InFlight, Adding, Sim!Bootstrapping
  <2>7. DevTyped'
    BY <2>2, <2>4, <2>5 DEF DevTyped
  <2>8. Bounded' /\ Numbered' /\ Submissions'
    BY <2>2, <2>5, <2>6 DEF Bounded, Numbered, Submissions, InFlight
  <2>9. Bootstrapped'
    BY <2>2, <2>5, <2>6 DEF Bootstrapped, Sim!Bootstrapping
  <2>10. Carried' /\ Present'
    BY <2>2, <2>5, <2>6 DEF Carried, Present, Known, InFlight
  <2>11. Told' /\ Viewed'
    <3>1. \A id \in reported' : Landed(applied, id)
      BY <2>1, <2>2 DEF Told
    <3>2. ~disordered => (nodeRunning' <=> devnetRunning) /\ \A p \in Request \ {r} : req[p].op = "free"
      <4> SUFFICES ASSUME ~disordered PROVE (nodeRunning' <=> devnetRunning) /\ \A p \in Request \ {r} : req[p].op = "free"
        OBVIOUS
      <4>1. \A p \in Request \ {r} : req[p].op = "free"
        BY <2>1, <2>2 DEF Viewed
      <4>2. CASE a.of = "start"
        BY <2>1, <2>2, <4>2 DEF Viewed, Sim!Shown
      <4>3. CASE a.of = "stop"
        BY <2>1, <2>2, <4>3 DEF Viewed, Sim!Shown
      <4>4. CASE a.of = "status"
        BY <2>1, <2>2, <4>4 DEF Viewed, Sim!Shown
      <4>5. CASE a.of = "send"
        BY <2>1, <2>2, <4>5 DEF Viewed, Sim!Shown
      <4> QED
        BY <2>3, <4>1, <4>2, <4>3, <4>4, <4>5
    <3>3. ~disordered => nodeRunning' = devnetRunning
      BY <2>4, <3>2 DEF DevTyped
    <3>4. Told'
      BY <2>2, <2>5, <3>1 DEF Told
    <3>5. Viewed'
      BY <2>2, <2>5, <3>2, <3>3 DEF Viewed, InFlight
    <3> QED
      BY <3>4, <3>5
  <2> QED
    BY <2>7, <2>8, <2>9, <2>10, <2>11
<1>12. ASSUME NEW r \in Request, Sim!Lost(r) PROVE DevInv'
  <2>1. /\ req[r].op = "answer" /\ req' = [req EXCEPT ![r] = Sim!Free] /\ disordered' = TRUE
        /\ nodeRunning' = (nodeRunning /\ req[r].of # "status")
        /\ UNCHANGED <<devnetRunning, ledger, ledgers, verifies, identities, devnetMinted, disposals, seq, applied, submitted, landed,
                       rejected, unverified, reported, overlapped>>
    BY <1>12 DEF Sim!Lost, Sim!netVars, Sim!txVars
  <2>2. nodeRunning' \in BOOLEAN
    BY <2>1
  <2>3. req' \in [Request -> DevReq] /\ req'[r].op = "free" /\ \A p \in Request \ {r} : req'[p] = req[p]
    BY <2>1 DEF DevTyped, DevReq, Sim!Free
  <2>4. (\A p \in Request : InFlight(req'[p]) <=> InFlight(req[p])) /\ Adding' = Adding /\ (Sim!Bootstrapping' <=> Sim!Bootstrapping)
    BY <2>1, <2>3 DEF InFlight, Adding, Sim!Bootstrapping
  <2>5. DevTyped'
    BY <2>1, <2>2, <2>3 DEF DevTyped
  <2>6. Bounded' /\ Numbered' /\ Submissions'
    BY <2>1, <2>3, <2>4 DEF Bounded, Numbered, Submissions, InFlight
  <2>7. Bootstrapped'
    BY <2>1, <2>3, <2>4 DEF Bootstrapped, Sim!Bootstrapping
  <2>8. Carried' /\ Present'
    BY <2>1, <2>3, <2>4 DEF Carried, Present, Known, InFlight
  <2>9. Told' /\ Viewed'
    <3>1. Told'
      BY <2>1, <2>3 DEF Told
    <3>2. Viewed'
      BY <2>1, <2>3 DEF Viewed, InFlight
    <3> QED
      BY <3>1, <3>2
  <2> QED
    BY <2>5, <2>6, <2>7, <2>8, <2>9
<1> QED
  BY <1>1, <1>2, <1>3, <1>4, <1>5, <1>6, <1>7, <1>8, <1>9, <1>10, <1>11, <1>12 DEF Sim!DevNext


\* The tools around a node, as simulator.js, devnet.js with devnet-rpc.js and background.js, and xmbl-core.js with main.js
\* run them: whatever order calls, timers, answers and disposals come in, the simulator counts each transaction once and
\* strands none in its first start, the devnet applies nothing unverified and tells nothing that did not land, and the
\* desktop application shows the node as it was last told.
THEOREM ToolsSoundHolds == Spec => []ToolsSound
<1>1. Spec => []DeskInv
  BY DeskPart, DeskInit, DeskNext, PTL DEF Desk!DeskSpec
<1>2. Spec => []SimInv
  BY SimPart, SimInitially, SimNextKeeps, PTL DEF Sim!SimSpec
<1>3. Spec => []DevInv
  BY DevPart, DevInitially, DevNextKeeps, PTL DEF Sim!DevSpec
<1>4. DeskInv /\ SimInv /\ DevInv => ToolsSound
  BY DeskSound, SimSound, DevSound DEF ToolsSound
<1> QED
  BY <1>1, <1>2, <1>3, <1>4, PTL

=============================================================================
