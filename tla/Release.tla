------------------------------- MODULE Release -------------------------------
(***************************************************************************)
(* The over-the-air update of a node: the look at the release source, on   *)
(* a timer or because a peer claims a newer version, the suspension, the   *)
(* install under its lock beside another installer, and the restart by     *)
(* whoever owns the process (release.js, startOta and                      *)
(* selfHealFromBadInstall of bin/xmbl-node.js).                            *)
(***************************************************************************)
EXTENDS Integers, Sequences

CONSTANTS
  MaxVersion,   \* versions 1 .. MaxVersion are on the track
  OffTrack,     \* a version of another line
  Broken,       \* versions that do not boot
  MinWait, MaxWait,     \* minMs and maxMs of the trigger
  MaxClock, MaxLooks

VARIABLES
  published,    \* the newest version on the track
  tagOff,       \* the release tag points off the track
  running,      \* CORE_VERSION of the process, 0 when there is none
  diskVersion,  \* the eight packages on disk: a version, or Mixed
  stage,        \* where the check is
  latest,       \* the answer the check works with
  suspendedAt,  \* core.suspended: the version it is behind, 0 when it is not suspended
  graceOver,    \* XMBL_OTA_GRACE_MS since the node knew
  owner,        \* who started the process: kind, still its parent, detached
  mode,         \* how the process will restart
  npmLock,      \* the install lock: who wrote it, "dead" for a crash's leftover
  otherAt,      \* the coordinator's own install
  trigger,      \* PeerReleaseTrigger
  lookClock, looks,     \* the time, and the times of peer-triggered looks since the wait was reset
  npmRaced,     \* history: a live install's lock was removed as stale
  stranded,     \* history: an exit for a restart with nobody to restart
  lateDetach    \* history: a detach was answered after the way to restart had been decided

releaseVars == <<published, tagOff, running, diskVersion, stage, latest, suspendedAt, graceOver, owner, mode, npmLock, otherAt,
                 trigger, lookClock, looks, npmRaced, stranded, lateDetach>>

Mixed == -1
Version == 1 .. MaxVersion
onTrack(v) == v \in Version
NewTrigger == [wait |-> MinWait, nextAt |-> 0, highest |-> 0, known |-> 0]

Init ==
  /\ published = 1 /\ tagOff = FALSE /\ running = 1 /\ diskVersion = 1
  /\ stage = "idle" /\ latest = 0 /\ suspendedAt = 0 /\ graceOver = FALSE
  /\ owner \in [kind : {"launcher", "pm2", "nobody"}, alive : {TRUE}, detached : {FALSE}]
  /\ mode = "none" /\ npmLock \in {"none", "dead"} /\ otherAt = "idle"
  /\ trigger = NewTrigger /\ lookClock = 0 /\ looks = <<>>
  /\ npmRaced = FALSE /\ stranded = FALSE /\ lateDetach = FALSE

\* What the release source answers.
registry == IF tagOff THEN OffTrack ELSE published

\* The release source moves on, or its tag is pointed off the track and back.
Publish ==
  /\ published < MaxVersion /\ published' = published + 1
  /\ UNCHANGED <<tagOff, running, diskVersion, stage, latest, suspendedAt, graceOver, owner, mode, npmLock, otherAt, trigger,
                 lookClock, looks, npmRaced, stranded, lateDetach>>
MoveTag ==
  /\ tagOff' = ~tagOff
  /\ UNCHANGED <<published, running, diskVersion, stage, latest, suspendedAt, graceOver, owner, mode, npmLock, otherAt,
                 trigger, lookClock, looks, npmRaced, stranded, lateDetach>>

Pass ==
  /\ lookClock < MaxClock /\ lookClock' = lookClock + 1
  /\ UNCHANGED <<published, tagOff, running, diskVersion, stage, latest, suspendedAt, graceOver, owner, mode, npmLock, otherAt,
                 trigger, looks, npmRaced, stranded, lateDetach>>

\* run: one check at a time, from the timer.
Poll ==
  /\ stage = "idle" /\ running > 0
  /\ stage' = "fetch"
  /\ UNCHANGED <<published, tagOff, running, diskVersion, latest, suspendedAt, graceOver, owner, mode, npmLock, otherAt, trigger,
                 lookClock, looks, npmRaced, stranded, lateDetach>>

\* offer: a version on the track, newer than ours and than the one confirmed; it makes the node look once the wait is over.
Offered(v) == onTrack(v) /\ v > running /\ v > trigger.known
LooksNow == lookClock >= trigger.nextAt

\* The wait after a claim that has yet to be confirmed.
Longer(wait) == IF 2 * wait < MaxWait THEN 2 * wait ELSE MaxWait

\* onPeerRelease: a peer's claim, true or not, is remembered, and looked at if it is time.
PeerClaims(v) ==
  /\ running > 0 /\ Offered(v)
  /\ LET highest == IF v > trigger.highest THEN v ELSE trigger.highest IN
     \/ /\ ~LooksNow
        /\ trigger' = [trigger EXCEPT !.highest = highest]
        /\ UNCHANGED <<looks, stage>>
     \/ /\ LooksNow /\ Len(looks) < MaxLooks
        /\ trigger' = [trigger EXCEPT !.highest = highest, !.nextAt = lookClock + trigger.wait, !.wait = Longer(@)]
        /\ looks' = Append(looks, lookClock)
        /\ stage' = IF stage = "idle" THEN "fetch" ELSE stage
  /\ UNCHANGED <<published, tagOff, running, diskVersion, latest, suspendedAt, graceOver, owner, mode, npmLock, otherAt, lookClock,
                 npmRaced, stranded, lateDetach>>

\* settle: an answer as high as what was claimed resets the wait, whatever its track.
Settled(v) ==
  LET known == IF onTrack(v) /\ v > running THEN v ELSE trigger.known
  IN  IF trigger.highest > 0 /\ v >= trigger.highest
      THEN [wait |-> MinWait, nextAt |-> 0, highest |-> 0, known |-> known]
      ELSE [trigger EXCEPT !.known = known]

\* otaDecision: unknown and off the track are never behind.
Behind(v) == onTrack(v) /\ running < v

\* The source answers, or cannot be reached (0); suspend when behind, resume otherwise.
Fetch(ok) ==
  /\ stage = "fetch"
  /\ LET v == IF ok THEN registry ELSE 0 IN
     /\ trigger' = IF v = 0 THEN trigger ELSE Settled(v)
     /\ looks' = IF v > 0 /\ Settled(v).nextAt = 0 THEN <<>> ELSE looks
     /\ latest' = IF Behind(v) THEN v ELSE 0
     /\ suspendedAt' = IF Behind(v) THEN v ELSE 0
     /\ stage' = IF Behind(v) THEN "behind" ELSE "idle"
     /\ graceOver' = (graceOver /\ Behind(v))
  /\ UNCHANGED <<published, tagOff, running, diskVersion, owner, mode, npmLock, otherAt, lookClock, npmRaced, stranded,
                 lateDetach>>

\* Mutant: what the process was started as decides, not who owns it now.
RestartModeAtBoot == IF owner.kind \in {"launcher", "pm2"} THEN "exit" ELSE "respawn"
\* otaRestartMode.
RestartMode ==
  IF owner.kind = "launcher" THEN (IF owner.alive /\ ~owner.detached THEN "exit" ELSE "respawn")
  ELSE IF owner.kind = "pm2" THEN "exit" ELSE "respawn"

\* On disk already: restart. A coordinator that owns the node gets its grace; then room and the lock.
Prepare ==
  /\ stage = "behind"
  /\ \/ diskVersion = latest /\ stage' = "landed"
     \/ /\ diskVersion # latest /\ owner.kind = "launcher" /\ RestartMode = "exit" /\ ~graceOver
        /\ stage' = "idle"                 \* look again before the grace ends
     \/ /\ diskVersion # latest /\ (owner.kind # "launcher" \/ RestartMode # "exit" \/ graceOver)
        /\ stage' \in {"lock", "idle"}     \* installPreflight finds room, or refuses
  /\ UNCHANGED <<published, tagOff, running, diskVersion, latest, suspendedAt, graceOver, owner, mode, npmLock, otherAt, trigger,
                 lookClock, looks, npmRaced, stranded, lateDetach>>

GraceEnds ==
  /\ suspendedAt > 0 /\ ~graceOver /\ graceOver' = TRUE
  /\ UNCHANGED <<published, tagOff, running, diskVersion, stage, latest, suspendedAt, owner, mode, npmLock, otherAt, trigger,
                 lookClock, looks, npmRaced, stranded, lateDetach>>

\* acquireInstallLock: exclusive create, or a look at the holder; stale ones are unlinked and retried.
Lock ==
  /\ stage = "lock"
  /\ \/ npmLock = "none" /\ npmLock' = "node" /\ stage' = "npm"
     \/ npmLock = "other" /\ stage' = "idle" /\ UNCHANGED npmLock
     \/ npmLock = "dead" /\ stage' = "unlink" /\ UNCHANGED npmLock
  /\ UNCHANGED <<published, tagOff, running, diskVersion, latest, suspendedAt, graceOver, owner, mode, otherAt, trigger, lookClock,
                 looks, npmRaced, stranded, lateDetach>>

Unlink ==
  /\ stage = "unlink"
  /\ npmRaced' = (npmRaced \/ npmLock = "other")
  /\ npmLock' = "none" /\ stage' = "lock"
  /\ UNCHANGED <<published, tagOff, running, diskVersion, latest, suspendedAt, graceOver, owner, mode, otherAt, trigger, lookClock,
                 looks, stranded, lateDetach>>

\* npm ends: the tree, not the exit code, says whether it landed; a failure is looked at again later.
NpmEnds(tree) ==
  /\ stage = "npm"
  /\ tree \in {latest, diskVersion, Mixed} /\ (otherAt = "npm" => tree = Mixed)
  /\ diskVersion' = tree
  /\ npmLock' = IF npmLock = "node" THEN "none" ELSE npmLock
  /\ stage' = IF tree = latest THEN "landed" ELSE IF running = 0 THEN "down" ELSE "idle"
  /\ UNCHANGED <<published, tagOff, running, latest, suspendedAt, graceOver, owner, mode, otherAt, trigger, lookClock, looks,
                 npmRaced, stranded, lateDetach>>

\* The way to restart is decided now; shutdown then awaits the socket, the metrics and the stores.
Decide ==
  /\ stage = "landed"
  /\ mode' = RestartMode /\ stage' = "closing"
  /\ UNCHANGED <<published, tagOff, running, diskVersion, latest, suspendedAt, graceOver, owner, npmLock, otherAt, trigger, lookClock,
                 looks, npmRaced, stranded, lateDetach>>

\* A launcher that died takes the node with it, so an exit it does not see strands nobody.
Owned == owner.kind = "pm2" \/ (owner.kind = "launcher" /\ ~owner.detached)
Exits ==
  /\ stage = "closing"
  /\ stage' = "down" /\ running' = 0 /\ suspendedAt' = 0 /\ graceOver' = FALSE
  /\ stranded' = (stranded \/ (mode = "exit" /\ ~Owned))
  /\ UNCHANGED <<published, tagOff, diskVersion, latest, owner, mode, npmLock, otherAt, trigger, lookClock, looks, 
                 npmRaced, lateDetach>>

\* The supervisor or the respawn boots what is on disk; respawnArgv and respawnEnv claim no supervisor.
Boot ==
  /\ stage = "down" /\ diskVersion \in Version
  /\ mode = "respawn" \/ (mode = "exit" /\ Owned /\ owner.alive)
  /\ running' = IF diskVersion \in Broken THEN 0 ELSE diskVersion
  /\ stage' = IF diskVersion \in Broken THEN "heal" ELSE "idle"
  /\ owner' = IF mode = "respawn" THEN [kind |-> "nobody", alive |-> TRUE, detached |-> FALSE] ELSE owner
  /\ latest' = 0 /\ trigger' = NewTrigger /\ looks' = <<>>
  /\ UNCHANGED <<published, tagOff, diskVersion, suspendedAt, graceOver, mode, npmLock, otherAt, lookClock,
                 npmRaced, stranded, lateDetach>>

\* selfHealFromBadInstall: only a newer version is worth installing.
SelfHeal(ok) ==
  /\ stage = "heal"
  /\ LET v == IF ok THEN registry ELSE 0 IN
     /\ IF onTrack(v) /\ diskVersion \in Version /\ v > diskVersion
        THEN latest' = v /\ stage' \in {"lock", "down"}
        ELSE stage' = "down" /\ UNCHANGED latest
  /\ UNCHANGED <<published, tagOff, running, diskVersion, suspendedAt, graceOver, owner, mode, npmLock, otherAt, trigger, lookClock,
                 looks, npmRaced, stranded, lateDetach>>

----------------------------------------------------------------------------
\* The coordinator: detaches the node before it restarts itself, dies, or installs the release too.
\* A connection that is open when shutdown begins still gets its answer.
Detach ==
  /\ owner.kind = "launcher" /\ owner.alive /\ ~owner.detached /\ running > 0
  /\ owner' = [owner EXCEPT !.detached = TRUE]
  /\ lateDetach' = (lateDetach \/ stage = "closing")
  /\ UNCHANGED <<published, tagOff, running, diskVersion, stage, latest, suspendedAt, graceOver, mode, npmLock, otherAt, trigger,
                 lookClock, looks, npmRaced, stranded>>

LauncherGoes ==
  /\ owner.kind = "launcher" /\ owner.alive
  /\ owner' = [owner EXCEPT !.alive = FALSE]
  /\ UNCHANGED <<published, tagOff, running, diskVersion, stage, latest, suspendedAt, graceOver, mode, npmLock, otherAt, trigger,
                 lookClock, looks, npmRaced, stranded, lateDetach>>

\* The watch on the launcher: no orphan, unless it was detached; shutdown runs once.
ParentDeath ==
  /\ running > 0 /\ owner.kind = "launcher" /\ ~owner.alive /\ ~owner.detached /\ stage # "closing"
  /\ npmLock' = IF npmLock = "node" THEN "dead" ELSE npmLock
  /\ running' = 0 /\ stage' = "ended" /\ suspendedAt' = 0
  /\ UNCHANGED <<published, tagOff, diskVersion, latest, graceOver, owner, mode, otherAt, trigger, lookClock, looks, 
                 npmRaced, stranded, lateDetach>>

OtherInstalls ==
  /\ otherAt = "idle" /\ onTrack(registry) /\ npmLock = "none" /\ diskVersion # registry
  /\ npmLock' = "other" /\ otherAt' = "npm"
  /\ UNCHANGED <<published, tagOff, running, diskVersion, stage, latest, suspendedAt, graceOver, owner, mode, trigger, lookClock, looks,
                 npmRaced, stranded, lateDetach>>

OtherDies ==
  /\ otherAt = "npm" /\ npmLock = "other"
  /\ npmLock' = "dead" /\ otherAt' = "gone" /\ diskVersion' = Mixed
  /\ UNCHANGED <<published, tagOff, running, stage, latest, suspendedAt, graceOver, owner, mode, trigger, lookClock, looks, 
                 npmRaced, stranded, lateDetach>>

OtherEnds ==
  /\ otherAt = "npm"
  /\ otherAt' = "idle" /\ npmLock' = IF npmLock = "other" THEN "none" ELSE npmLock
  /\ diskVersion' = IF stage = "npm" THEN Mixed ELSE IF onTrack(registry) THEN registry ELSE diskVersion
  /\ UNCHANGED <<published, tagOff, running, stage, latest, suspendedAt, graceOver, owner, mode, trigger, lookClock, looks, 
                 npmRaced, stranded, lateDetach>>

Next == \/ Publish \/ MoveTag \/ (\E v \in Version \cup {OffTrack} : PeerClaims(v))
        \/ Pass \/ Poll \/ (\E ok \in BOOLEAN : Fetch(ok) \/ SelfHeal(ok)) \/ Prepare \/ GraceEnds \/ Lock \/ Unlink
        \/ \E t \in Version \cup {Mixed} : NpmEnds(t)
        \/ Decide \/ Exits \/ Boot
        \/ Detach \/ LauncherGoes \/ ParentDeath \/ OtherInstalls \/ OtherDies \/ OtherEnds

ReleaseSpec == Init /\ [][Next]_releaseVars

----------------------------------------------------------------------------
\* "A PEER'S VERSION IS A REASON TO LOOK, NEVER THE ANSWER": whatever npm was run for, and whatever the
\* node suspends for, is at most what the release source published.
OnlyReleased == {latest, suspendedAt, diskVersion, running} \subseteq {Mixed} \cup 0 .. published

\* Claims that the release source does not confirm cost lookups that thin out: each wait is twice the one before, up
\* to the poll.
LooksThinOut ==
  \E wait \in [1 .. Len(looks) -> MinWait .. MaxWait] :
    /\ looks # <<>> => wait[1] = MinWait
    /\ \A i \in 1 .. Len(looks) - 1 : wait[i + 1] = Longer(wait[i]) /\ looks[i + 1] - looks[i] >= wait[i]

\* "exit 75 ... is right only while one still owns this process": no update leaves the node down with
\* nobody to start it, unless the launcher detached after the way to restart had been decided.
NotStranded == stranded => lateDetach

\* One npm at a time in the install root, unless a live lock was unlinked as stale.
OneNpm == npmRaced \/ ~(stage = "npm" /\ otherAt = "npm")
=============================================================================
