------------------------------- MODULE Compute -------------------------------
(***************************************************************************)
(* Jobs of the compute market: the isolated runtime (compute.js) and the   *)
(* node that runs, counts and bills them (compute-node.js, pricing.js).    *)
(* The worker is a thread of its own: its message, its exit and the        *)
(* deadline reach the host in any order.                                   *)
(***************************************************************************)
EXTENDS Integers, FiniteSets

CONSTANTS
  Job,          \* [memory, imports, exported, does]: what a module declares and what its function does
  Slot,         \* jobs that may be under way at once
  MaxPages,     \* the memory cap in pages
  HostGives, Allowed,   \* imports the host module provides, imports on the allow-list
  Deadline,     \* maxTime
  MaxJobs

VARIABLES
  worker,       \* per slot: where the thread is and what it measured
  settled,      \* per slot: the outcome, once there is one
  computeJobsRun, jobsStarted,
  bills,        \* history: <<run, cpu, memory pages>> the node priced
  finishes      \* history: <<run, outcome>> handed to the caller

computeVars == <<worker, settled, computeJobsRun, jobsStarted, bills, finishes>>

NoWorker == [at |-> "none"]
Init ==
  /\ worker = [s \in Slot |-> NoWorker] /\ settled = [s \in Slot |-> "none"]
  /\ computeJobsRun = 0 /\ jobsStarted = 0 /\ bills = {} /\ finishes = {}

\* execute: a new worker with the module and the policy.
Execute(s, j) ==
  /\ worker[s] = NoWorker /\ jobsStarted < MaxJobs
  /\ worker' = [worker EXCEPT ![s] = [at |-> "check", run |-> jobsStarted + 1, job |-> j, clock |-> 0, pages |-> 0, message |-> "none"]]
  /\ settled' = [settled EXCEPT ![s] = "none"]
  /\ jobsStarted' = jobsStarted + 1
  /\ UNCHANGED <<computeJobsRun, bills, finishes>>

\* readMemoryLimits: at most one memory, not shared, with a maximum within the cap.
MemoryAllowed(j) ==
  j.memory.count = 0 \/ (j.memory.count = 1 /\ ~j.memory.shared /\ j.memory.max \in 0 .. MaxPages)

\* Mutant: an import is stubbed whether or not it is on the list.
ImportsAllowedAny(j) == TRUE
\* Deny by default: what the host provides, then what the list allows.
ImportsAllowed(j) == j.imports \subseteq HostGives \cup Allowed

Post(s, m) == worker' = [worker EXCEPT ![s].at = "posted", ![s].message = m]

\* The worker before the call: memory, imports, instantiation.
Check(s) ==
  /\ worker[s].at = "check"
  /\ IF MemoryAllowed(worker[s].job) /\ ImportsAllowed(worker[s].job)
     THEN worker' = [worker EXCEPT ![s].at = "run", ![s].pages = IF worker[s].job.memory.count = 0 THEN 0 ELSE 1]
     ELSE Post(s, "denied")
  /\ UNCHANGED <<settled, computeJobsRun, jobsStarted, bills, finishes>>

\* The guest runs: time passes, its memory grows up to its maximum, a stub traps.
Run(s, grow) ==
  /\ worker[s].at = "run" /\ worker[s].clock < Deadline
  /\ worker' = [worker EXCEPT ![s].clock = @ + 1,
                              ![s].pages = IF grow /\ @ > 0 /\ @ < worker[s].job.memory.max THEN @ + 1 ELSE @]
  /\ UNCHANGED <<settled, computeJobsRun, jobsStarted, bills, finishes>>

Stubbed(j) == j.imports \ HostGives # {}

Return(s) ==
  /\ worker[s].at = "run" /\ worker[s].job.does # "loops"
  /\ Post(s, IF worker[s].job.does = "traps" \/ Stubbed(worker[s].job) THEN "error" ELSE "ok")
  /\ UNCHANGED <<settled, computeJobsRun, jobsStarted, bills, finishes>>

\* The thread dies without a message, as when its heap limit is hit.
Exit(s) ==
  /\ worker[s].at \in {"check", "run"}
  /\ worker' = [worker EXCEPT ![s].at = "posted", ![s].message = "exit"]
  /\ UNCHANGED <<settled, computeJobsRun, jobsStarted, bills, finishes>>

\* What the metering reads: the memory exported as `memory`, or the one the host handed out.
Metered(w) == IF w.job.exported THEN w.pages ELSE 0

\* Mutant: finish settles again.
FreshAlways(s) == TRUE
\* finish: the first of message, error, exit and deadline, once.
Fresh(s) == settled[s] = "none"

\* runJob: a completed job is counted and priced as measured, a killed one at the maximum, any other
\* failure is neither.
Settle(s, outcome, cpu, pages) ==
  /\ settled' = [settled EXCEPT ![s] = outcome]
  /\ finishes' = finishes \cup {<<worker[s].run, outcome>>}
  /\ IF outcome \in {"done", "killed"}
     THEN computeJobsRun' = computeJobsRun + 1 /\ bills' = bills \cup {<<worker[s].run, cpu, pages>>}
     ELSE UNCHANGED <<computeJobsRun, bills>>

OnMessage(s) ==
  /\ worker[s].at = "posted"
  /\ IF Fresh(s)
     THEN Settle(s, IF worker[s].message = "ok" THEN "done" ELSE "refused", worker[s].clock, Metered(worker[s]))
     ELSE UNCHANGED <<settled, computeJobsRun, bills, finishes>>
  /\ worker' = [worker EXCEPT ![s].at = "gone"]
  /\ UNCHANGED jobsStarted

\* The timer terminates the thread, whatever it is doing or has already posted.
OnDeadline(s) ==
  /\ worker[s].at \in {"check", "run", "posted"}
  /\ worker[s].clock = Deadline \/ worker[s].at = "posted"
  /\ settled[s] = "none"
  /\ Settle(s, "killed", Deadline, MaxPages)
  /\ worker' = [worker EXCEPT ![s].at = IF @ = "posted" THEN "posted" ELSE "gone"]
  /\ UNCHANGED jobsStarted

\* runJob returns.
Respond(s) ==
  /\ worker[s].at = "gone"
  /\ worker' = [worker EXCEPT ![s] = NoWorker]
  /\ UNCHANGED <<settled, computeJobsRun, jobsStarted, bills, finishes>>

Next == \E s \in Slot :
          \/ \E j \in Job : Execute(s, j)
          \/ Check(s) \/ (\E grow \in BOOLEAN : Run(s, grow)) \/ Return(s) \/ Exit(s)
          \/ OnMessage(s) \/ OnDeadline(s) \/ Respond(s)

ComputeSpec == Init /\ [][Next]_computeVars

----------------------------------------------------------------------------
\* Every run ends one way and is billed once, for no more than the deadline and the cap, though the
\* message of the worker and the deadline race; the count of jobs is the count of bills.
BilledOnce ==
  /\ \A f, g \in finishes : f[1] = g[1] => f = g
  /\ \A b, d \in bills : b[1] = d[1] => b = d
  /\ \A b \in bills : b[2] <= Deadline /\ b[3] <= MaxPages
  /\ computeJobsRun = Cardinality(bills)

\* The guest runs with nothing it was not given: no import outside the list, no memory beyond the cap.
Isolated ==
  \A s \in Slot : worker[s].at = "run" =>
    worker[s].job.imports \subseteq HostGives \cup Allowed /\ worker[s].pages <= MaxPages
=============================================================================
