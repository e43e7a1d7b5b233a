---------------------------- MODULE LeaderElection ----------------------------
(***************************************************************************)
(* The leader election of consensus/src/leader-election.js: pulses counted *)
(* for each address until one comes too late, the mean response time kept  *)
(* as it is updated, and an election by score that holds for a rotation.   *)
(***************************************************************************)
EXTENDS Naturals, Sequences, FiniteSets

CONSTANTS
  Ip,
  Response,      \* response times; None is one that was not measured
  None,
  Timeout, Rotation,
  Seats,
  MaxNow, MaxPulses

VARIABLES
  now,
  uptime,        \* the sequence of [ip, at, count, num, den] in the order of first pulses; num/den is the mean
  currentLeaders, lastElection,
  pulses,        \* history: the pulses, oldest first: <<ip, time, response>>
  electedAt      \* history: when the leaders were elected, and the scores then

electVars == <<now, uptime, currentLeaders, lastElection, pulses, electedAt>>

Init == /\ now = 0 /\ uptime = <<>> /\ currentLeaders = <<>> /\ lastElection = 0 /\ pulses = <<>> /\ electedAt = 0

IndexOf(ip) == {i \in 1..Len(uptime) : uptime[i].ip = ip}
Fresh(ip, r) == [ip |-> ip, at |-> now, count |-> 1, num |-> IF r = None THEN 0 ELSE r, den |-> 1]

\* Mutant: the pulse that comes too late is one more of the same run.
LateNever(e) == FALSE
Late(e) == now - e.at > Timeout
\* The mean over count pulses; one that was not measured counts and leaves the mean.
Averaged(e, r) ==
  IF r = None THEN [e EXCEPT !.count = @ + 1, !.at = now]
  ELSE [ip |-> e.ip, at |-> now, count |-> e.count + 1,
        num |-> e.num * e.count + r * e.den, den |-> e.den * (e.count + 1)]
\* recordPulse
RecordPulse(ip, r) ==
  /\ Len(pulses) < MaxPulses /\ pulses' = Append(pulses, <<ip, now, r>>)
  /\ uptime' = IF IndexOf(ip) = {} THEN Append(uptime, Fresh(ip, r))
               ELSE [i \in DOMAIN uptime |-> IF i \notin IndexOf(ip) THEN uptime[i]
                                             ELSE IF Late(uptime[i]) THEN Fresh(ip, r) ELSE Averaged(uptime[i], r)]
  /\ UNCHANGED <<now, currentLeaders, lastElection, electedAt>>

\* _performElection: count / (mean + 1), higher first; a stable sort keeps the order of first pulses.
Above(a, b) == a.count * a.den * (b.num + b.den) > b.count * b.den * (a.num + a.den)
Before(i, j) == Above(uptime[i], uptime[j]) \/ (~Above(uptime[j], uptime[i]) /\ i < j)
Rank(i) == 1 + Cardinality({j \in 1..Len(uptime) : Before(j, i)})
Elected ==
  [n \in 1..(IF Len(uptime) < Seats THEN Len(uptime) ELSE Seats) |-> uptime[CHOOSE i \in 1..Len(uptime) : Rank(i) = n].ip]

\* electLeaders looks at the clock; forceElection does not.
Due == now - lastElection >= Rotation \/ currentLeaders = <<>>
ElectLeaders(force) ==
  /\ force \/ Due
  /\ currentLeaders' = Elected /\ lastElection' = now /\ electedAt' = Len(pulses)
  /\ UNCHANGED <<now, uptime, pulses>>

Pass == now < MaxNow /\ now' = now + 1 /\ UNCHANGED <<uptime, currentLeaders, lastElection, pulses, electedAt>>

Next == \/ Pass \/ (\E force \in BOOLEAN : ElectLeaders(force))
        \/ \E ip \in Ip, r \in Response : RecordPulse(ip, r)

ElectSpec == Init /\ [][Next]_electVars

----------------------------------------------------------------------------
\* The pulses of ip, which of them follow each other, and the last run without a gap beyond the timeout.
Of(ip) == {i \in 1..Len(pulses) : pulses[i][1] = ip}
Follows(ip, i, j) == i < j /\ \A k \in Of(ip) : ~(i < k /\ k < j)
LastRun(ip) ==
  {i \in Of(ip) : \A j, k \in Of(ip) : i <= j /\ Follows(ip, j, k) => pulses[k][2] - pulses[j][2] <= Timeout}
\* Response times added up, counted one by one.
Total(R) == Cardinality(UNION {{i} \X (1..pulses[i][3]) : i \in R})
\* What is kept of a node is its last run: how many pulses it has and, where all were measured, their mean.
KeepsLastRun ==
  \A i \in 1..Len(uptime) :
    LET e == uptime[i]
        run == LastRun(e.ip)
    IN  /\ e.count = Cardinality(run)
        /\ (\A j \in run : pulses[j][3] # None) => e.num * Cardinality(run) = Total(run) * e.den

\* An election seats the best runs: whoever is left out, in a full house or not, has no longer run than a
\* leader with no slower answers; nobody sits twice.
SeatsTheBest ==
  /\ \A a, b \in 1..Len(currentLeaders) : a # b => currentLeaders[a] # currentLeaders[b]
  /\ electedAt = Len(pulses) /\ currentLeaders # <<>> =>
       \A i, j \in 1..Len(uptime) :
         (\E n \in 1..Len(currentLeaders) : currentLeaders[n] = uptime[i].ip)
         /\ (\A n \in 1..Len(currentLeaders) : currentLeaders[n] # uptime[j].ip)
         => uptime[j].count <= uptime[i].count \/ uptime[j].num * uptime[i].den > uptime[i].num * uptime[j].den

\* The election: the two above.
ElectionSound == KeepsLastRun /\ SeatsTheBest
=============================================================================
