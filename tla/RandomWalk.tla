------------------------------ MODULE RandomWalk ------------------------------
(***************************************************************************)
(* The paced random walk that replaces libp2p's (random-walk-leak.js):     *)
(* one query loop shared by every consumer of walk(), started by the first *)
(* and aborted by the last, and a consumer that arrives while the loop is  *)
(* still winding down.                                                     *)
(***************************************************************************)
EXTENDS Integers, FiniteSets

CONSTANTS
  Consumer,         \* calls of walk()
  MinGap, MaxGap,   \* pauses, in units of minGapMs
  MaxIdle           \* bound on idle, past the one that reaches MaxGap

VARIABLES
  consumer,     \* each: "out", "waiting" for a peer, or "holding" one it yielded
  walking,      \* this.walking
  loop,         \* where the query loop is
  aborted,      \* the loop's walkController was aborted
  controller,   \* this.walkController is the loop's
  needNext,     \* this.needNext is unresolved
  idle,         \* queries in a row that found nobody new
  waited,       \* the last pause, 0 before the first query
  listeners,    \* abort listeners on the walk's signals
  shutDown

walkVars == <<consumer, walking, loop, aborted, controller, needNext, idle, waited, listeners, shutDown>>

walkers == Cardinality({c \in Consumer : consumer[c] # "out"})
Signalled == aborted \/ shutDown

Init ==
  /\ consumer = [c \in Consumer |-> "out"] /\ walking = FALSE /\ loop = "off"
  /\ aborted = FALSE /\ controller = FALSE /\ needNext = FALSE /\ idle = 0 /\ waited = 0
  /\ listeners = 0 /\ shutDown = FALSE

\* startWalk: a fresh controller and a loop that runs in a later turn.
Started == walking' = TRUE /\ loop' = "first" /\ aborted' = FALSE /\ controller' = TRUE /\ idle' = 0 /\ waited' = 0
Kept == UNCHANGED <<walking, loop, aborted, controller, idle, waited>>

\* walk: start the loop unless one is running; ask for the next peer; wait on listeners of its own.
Walk(c) ==
  /\ consumer[c] = "out" /\ ~shutDown
  /\ IF walking THEN Kept ELSE Started
  /\ consumer' = [consumer EXCEPT ![c] = "waiting"] /\ needNext' = TRUE /\ listeners' = listeners + 1
  /\ UNCHANGED shutDown

\* The consumer asks again: whoever paused the query lets it go on.
Again(c) ==
  /\ consumer[c] = "holding" /\ ~shutDown
  /\ consumer' = [consumer EXCEPT ![c] = "waiting"] /\ needNext' = TRUE /\ listeners' = listeners + 1
  /\ UNCHANGED <<walking, loop, aborted, controller, idle, waited, shutDown>>

\* The consumer stops: at its yield, by its own signal, or by a walk:error; the last one aborts the loop.
Leave(c) ==
  /\ consumer[c] # "out"
  /\ consumer' = [consumer EXCEPT ![c] = "out"]
  /\ listeners' = IF consumer[c] = "waiting" THEN listeners - 1 ELSE listeners
  /\ LET last == \A d \in Consumer \ {c} : consumer[d] = "out" IN
     /\ aborted' = (aborted \/ (last /\ controller))
     /\ controller' = (controller /\ ~last)
  /\ UNCHANGED <<walking, loop, needNext, idle, waited, shutDown>>

----------------------------------------------------------------------------
\* The head of the loop: the first query at once, each later one after its pause.
Gap == LET g == MinGap * 2 ^ idle IN IF g < MaxGap THEN g ELSE MaxGap
Head ==
  /\ loop \in {"first", "head"}
  /\ IF walkers = 0 \/ Signalled THEN loop' = "ended" /\ UNCHANGED <<waited, listeners>>
     ELSE IF loop = "first" THEN loop' = "query" /\ UNCHANGED <<waited, listeners>>
     ELSE loop' = "pause" /\ waited' = Gap /\ listeners' = listeners + 1
  /\ UNCHANGED <<consumer, walking, aborted, controller, needNext, idle, shutDown>>

\* pause: its time, or the abort; either way its listener goes.
PauseEnds ==
  /\ loop = "pause"
  /\ loop' = IF Signalled THEN "ended" ELSE "query"
  /\ listeners' = listeners - 1
  /\ UNCHANGED <<consumer, walking, aborted, controller, needNext, idle, waited, shutDown>>

\* The query turns up a peer; one consumer that has not asked again holds the query.
Turn(fresh) ==
  /\ loop = "query" /\ ~Signalled
  /\ consumer' = [c \in Consumer |-> IF consumer[c] = "waiting" THEN "holding" ELSE consumer[c]]
  /\ listeners' = listeners - Cardinality({c \in Consumer : consumer[c] = "waiting"}) + (IF walkers = 1 /\ needNext THEN 1 ELSE 0)
  /\ loop' = IF walkers = 1 /\ needNext THEN "held" ELSE "query"
  /\ idle' = IF fresh THEN 0 ELSE idle
  /\ UNCHANGED <<walking, aborted, controller, needNext, waited, shutDown>>

\* untilOrAbort: the next walk() resolves the old promise, or the loop is aborted.
HeldEnds ==
  /\ loop = "held" /\ (Signalled \/ \E c \in Consumer : consumer[c] = "waiting")
  /\ loop' = (IF Signalled THEN "ended" ELSE "query") /\ listeners' = listeners - 1
  /\ UNCHANGED <<consumer, walking, aborted, controller, needNext, idle, waited, shutDown>>

\* The query ends: with somebody new, with nobody new, or with an error its consumers get.
QueryEnds(fresh, failed) ==
  /\ loop = "query"
  /\ loop' = IF Signalled THEN "ended" ELSE "head"
  /\ idle' = IF fresh THEN 0 ELSE IF idle < MaxIdle THEN idle + 1 ELSE MaxIdle
  /\ IF failed /\ ~Signalled
     THEN LET hit == {c \in Consumer : consumer[c] = "waiting"} IN
          /\ consumer' = [c \in Consumer |-> IF c \in hit THEN "out" ELSE consumer[c]]
          /\ listeners' = listeners - Cardinality(hit)
          /\ aborted' = (aborted \/ (hit # {} /\ walkers = Cardinality(hit)))
          /\ controller' = (controller /\ ~(hit # {} /\ walkers = Cardinality(hit)))
     ELSE UNCHANGED <<consumer, listeners, aborted, controller>>
  /\ UNCHANGED <<walking, needNext, waited, shutDown>>

\* Mutant: the end of a loop does not look for consumers.
RestartsNever == FALSE
\* A walk() that arrived while this loop was winding down saw `walking` and did not start one.
Restarts == walkers > 0 /\ ~shutDown
LoopEnds ==
  /\ loop = "ended"
  /\ IF Restarts THEN Started
     ELSE walking' = FALSE /\ loop' = "off" /\ UNCHANGED <<aborted, controller, idle, waited>>
  /\ UNCHANGED <<consumer, needNext, listeners, shutDown>>

\* The node stops: every wait is aborted.
ShutDown ==
  /\ ~shutDown /\ shutDown' = TRUE
  /\ UNCHANGED <<consumer, walking, loop, aborted, controller, needNext, idle, waited, listeners>>

Next == \/ \E c \in Consumer : Walk(c) \/ Again(c) \/ Leave(c)
        \/ Head \/ PauseEnds \/ HeldEnds \/ LoopEnds \/ ShutDown
        \/ \E fresh \in BOOLEAN : Turn(fresh) \/ \E failed \in BOOLEAN : QueryEnds(fresh, failed)

WalkSpec == Init /\ [][Next]_walkVars

----------------------------------------------------------------------------
\* A consumer always has a loop that serves it or will be followed by one that does, and the loop is
\* reachable through this.walkController unless it is winding down.
WalkServed == walkers > 0 /\ ~shutDown => walking /\ (controller \/ aborted)

\* No listener outlives its wait: the leak this file plugs.
NoLeak == listeners = Cardinality({c \in Consumer : consumer[c] = "waiting"}) + (IF loop \in {"pause", "held"} THEN 1 ELSE 0)
=============================================================================
