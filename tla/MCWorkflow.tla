------------------------------ MODULE MCWorkflow ------------------------------
(***************************************************************************)
(* Instances of Workflow for TLC.  Every transaction spends from the same  *)
(* address.                                                                *)
(*                                                                         *)
(* FlowSpec has three of them in one run, each behaviour in the one that   *)
(* Init chooses: "once", with the constants of the configuration, two      *)
(* peers and this node submit one transaction; "restart", one restart,     *)
(* restored tasks and a changing set of leads; "guarded", a pool over its  *)
(* cap with a forged and an abandoned transaction and every sweep.         *)
(* LiveSpec has the constants of its configuration, under fairness.        *)
(***************************************************************************)
EXTENDS Workflow

CONSTANTS u1, p1, p2, t1, t2

VARIABLE scenario

flowVars == <<scenario, vars>>

OneFrom == [t \in Tx |-> u1]

Rebooted == INSTANCE Workflow WITH
  Peer <- {p1, p2}, Tx <- {t1}, From <- [t \in {t1} |-> u1], Forged <- {}, Aged <- {},
  Submitter <- {p1}, Required <- 2, PeerMax <- 9, PoolMax <- 9, Churn <- TRUE, MaxSubmits <- 0, MaxCrashes <- 1

Guarded == INSTANCE Workflow WITH
  Peer <- {p1, p2}, Tx <- {t1, t2}, From <- [t \in {t1, t2} |-> u1], Forged <- {t1}, Aged <- {t1, t2},
  Submitter <- {p1}, Required <- 2, PeerMax <- 9, PoolMax <- 1, Churn <- FALSE, MaxSubmits <- 0, MaxCrashes <- 0

FlowInit ==
  \/ scenario = "once" /\ Init
  \/ scenario = "restart" /\ Rebooted!Init
  \/ scenario = "guarded" /\ Guarded!Init

FlowNext ==
  /\ UNCHANGED scenario
  /\ \/ scenario = "once" /\ Next
     \/ scenario = "restart" /\ Rebooted!Next
     \/ scenario = "guarded" /\ Guarded!Next

FlowSpec == FlowInit /\ [][FlowNext]_flowVars

LiveInit == Init /\ scenario = "live"
LiveNext == Next /\ UNCHANGED scenario
LiveSpec == LiveInit /\ [][LiveNext]_flowVars /\ Fairness

\* Validation tasks exist only for transactions that are mapped to a submitter, whichever sweep or
\* eviction took them: "A tx gone from the raw pool takes its tasks and its submitter mapping with it"
\* (workflow.js), for a node that gets each transaction from one submitter.
GuardedTasksMapped == scenario = "guarded" => Guarded!TasksMapped

\* A transaction moves only when every validator of its recorded set has voted for it: "only an
\* ASSIGNED leader's report counts toward the quorum" (core/index.js), for a node whose leads stay.
GuardedAttested == [][scenario = "guarded" => Guarded!AttestedStep]_flowVars
=============================================================================
