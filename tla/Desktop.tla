------------------------------- MODULE Desktop -------------------------------
(***************************************************************************)
(* The desktop app (desktop-app/main/main.js, src/core/xmbl-core.js): its  *)
(* boot, the node started and stopped from the window while an earlier     *)
(* call is still in its awaits, sends under way meanwhile, and the quit.   *)
(***************************************************************************)
EXTENDS Naturals, FiniteSets

CONSTANTS
  Call,          \* IPC calls that may be in flight
  MaxCalls, MaxWindows

VARIABLES
  boot,          \* "loading", "network", "identity", "core", "ready"
  running,       \* the core's flag
  net,           \* xn.started
  ledgerOpen,    \* the ledger's database
  gossip,        \* the topic is subscribed on the network that is up now
  balanceTimer, statusTimer,
  call,          \* Call -> [op, at]
  calls,
  windows,       \* open windows, of those made so far
  made,
  quitting, exited,
  told,          \* history: the last answer of startNode or stopNode: "up", "down", "none"
  raced          \* history: a start and a stop were in flight together

deskVars == <<boot, running, net, ledgerOpen, gossip, balanceTimer, statusTimer, call, calls, windows, made, quitting, exited, told, raced>>
coreVars == <<boot, running, net, ledgerOpen, gossip, balanceTimer, statusTimer>>

Free == [op |-> "free", at |-> 0]
Stopping == (\E c \in Call : call[c].op = "stop") \/ quitting # "no"
Starting == \E c \in Call : call[c].op = "start"

\* The two constructors: nothing is loaded.
Init ==
  /\ boot = "loading" /\ running = FALSE /\ net = FALSE /\ ledgerOpen = FALSE /\ gossip = FALSE
  /\ balanceTimer = FALSE /\ statusTimer = FALSE
  /\ call = [c \in Call |-> Free] /\ calls = 0 /\ windows = {} /\ made = 0 /\ quitting = "no" /\ exited = FALSE
  /\ told = "none" /\ raced = FALSE

\* _loadModules: the ledger is built and opens its database.
LoadModules ==
  /\ boot = "loading" /\ boot' = "network" /\ ledgerOpen' = TRUE
  /\ UNCHANGED <<running, net, gossip, balanceTimer, statusTimer, call, calls, windows, made, quitting, exited, told, raced>>
\* xn.start(), then the gossip, which subscribes because the network is up.
StartNetwork ==
  /\ boot = "network" /\ boot' = "identity" /\ net' = TRUE /\ gossip' = TRUE
  /\ UNCHANGED <<running, ledgerOpen, balanceTimer, statusTimer, call, calls, windows, made, quitting, exited, told, raced>>
\* The identity, the flag and the balance interval.
Identify ==
  /\ boot = "identity" /\ boot' = "core" /\ running' = TRUE /\ balanceTimer' = TRUE
  /\ UNCHANGED <<net, ledgerOpen, gossip, statusTimer, call, calls, windows, made, quitting, exited, told, raced>>
\* main.js after core.init(): the IPC, the app's handlers and the status interval.
Ready ==
  /\ boot = "core" /\ boot' = "ready" /\ statusTimer' = TRUE
  /\ UNCHANGED <<running, net, ledgerOpen, gossip, balanceTimer, call, calls, windows, made, quitting, exited, told, raced>>

----------------------------------------------------------------------------
Arrives(c, op) ==
  /\ boot = "ready" /\ ~exited /\ call[c] = Free /\ calls < MaxCalls /\ calls' = calls + 1
  /\ raced' = (raced \/ (op = "start" /\ Stopping) \/ (op = "stop" /\ (Starting \/ Stopping)))

\* startNode: a core that still says it runs answers at once; else the network is started again. The ledger's
\* database, the gossip's subscription and the balance interval are not.
StartNode(c) ==
  /\ Arrives(c, "start")
  /\ IF running
     THEN told' = "up" /\ UNCHANGED call
     ELSE call' = [call EXCEPT ![c] = [op |-> "start", at |-> 0]] /\ UNCHANGED told
  /\ UNCHANGED <<coreVars, windows, made, quitting, exited>>
Started(c) ==
  /\ call[c].op = "start" /\ call' = [call EXCEPT ![c] = Free]
  /\ net' = TRUE /\ running' = TRUE /\ told' = "up"
  /\ UNCHANGED <<boot, ledgerOpen, gossip, balanceTimer, statusTimer, calls, windows, made, quitting, exited, raced>>

\* Mutant: the interval runs on.
TimerStoppedNot == balanceTimer
TimerStopped == FALSE
\* stopNode: the interval at once, then the network, the ledger's database, and the flag last.
StopNode(c) ==
  /\ Arrives(c, "stop")
  /\ IF running
     THEN call' = [call EXCEPT ![c] = [op |-> "stop", at |-> 1]] /\ balanceTimer' = TimerStopped /\ UNCHANGED told
     ELSE told' = "down" /\ UNCHANGED <<call, balanceTimer>>
  /\ UNCHANGED <<boot, running, net, ledgerOpen, gossip, statusTimer, windows, made, quitting, exited>>
\* Mutant: the flag is left when the network is down.
FlagAfterKept(step) == running
FlagAfter(step) == step # 3 /\ running
\* One of the three awaits of stop() is over.
Stops(step) ==
  /\ net' = (step # 1 /\ net) /\ gossip' = (step # 1 /\ gossip)
  /\ ledgerOpen' = (step # 2 /\ ledgerOpen)
  /\ running' = FlagAfter(step)
Stopped(c) ==
  /\ call[c].op = "stop" /\ Stops(call[c].at)
  /\ call' = [call EXCEPT ![c] = IF @.at = 3 THEN Free ELSE [op |-> "stop", at |-> @.at + 1]]
  /\ told' = IF call[c].at = 3 THEN "down" ELSE told
  /\ UNCHANGED <<boot, balanceTimer, statusTimer, calls, windows, made, quitting, exited, raced>>

----------------------------------------------------------------------------
\* sendTransaction: signed, then given to the consensus, the gossip and the ledger in turn. The body is of
\* type 'transfer' and has no xid: the consensus answers null, the gossip publishes it if it can, the ledger
\* throws, and the window is told so.
Send(c) ==
  /\ Arrives(c, "send") /\ call' = [call EXCEPT ![c] = [op |-> "send", at |-> 1]]
  /\ UNCHANGED <<coreVars, windows, made, quitting, exited, told>>
Sent(c) ==
  /\ call[c].op = "send"
  /\ call' = [call EXCEPT ![c] = IF @.at = 2 THEN Free ELSE [@ EXCEPT !.at = 2]]
  /\ UNCHANGED <<coreVars, calls, windows, made, quitting, exited, told, raced>>

\* createWindow at whenReady, on activate, and from the tray when there is none.
OpenWindow ==
  /\ boot = "ready" /\ quitting = "no" /\ windows = {} /\ made < MaxWindows
  /\ made' = made + 1 /\ windows' = {made + 1}
  /\ UNCHANGED <<coreVars, call, calls, quitting, exited, told, raced>>
\* closed; with no window left the app quits on every platform but one.
CloseWindow(mac) ==
  /\ windows # {} /\ windows' = {}
  /\ quitting' = IF mac THEN quitting ELSE IF quitting = "no" THEN "asked" ELSE quitting
  /\ UNCHANGED <<coreVars, call, calls, made, exited, told, raced>>
\* before-quit: the status interval, and core.stop() begun; nothing waits for it.
BeforeQuit ==
  /\ quitting = "asked" /\ quitting' = "begun"
  /\ statusTimer' = FALSE /\ balanceTimer' = (balanceTimer /\ ~running)
  /\ raced' = (raced \/ Starting \/ \E c \in Call : call[c].op = "stop")
  /\ UNCHANGED <<boot, running, net, ledgerOpen, gossip, call, calls, windows, made, exited, told>>
Exit ==
  /\ quitting = "begun" /\ ~exited /\ exited' = TRUE
  /\ UNCHANGED <<coreVars, call, calls, windows, made, quitting, told, raced>>

Next == \/ LoadModules \/ StartNetwork \/ Identify \/ Ready \/ OpenWindow \/ BeforeQuit \/ Exit
        \/ (\E mac \in BOOLEAN : CloseWindow(mac))
        \/ \E c \in Call : StartNode(c) \/ Started(c) \/ StopNode(c) \/ Stopped(c) \/ Send(c) \/ Sent(c)

DeskSpec == Init /\ [][Next]_deskVars

----------------------------------------------------------------------------
\* isRunning: what getNodeStatus and the status update report.
isRunning == running /\ net

\* startNode and stopNode: at rest the node is as the last answer said, unless a start met a stop in its
\* awaits: start() then answered from a flag that stop() was about to clear.
AsTold ==
  ~raced /\ quitting = "no" /\ (\A c \in Call : call[c].op \notin {"start", "stop"})
    => /\ told = "up" => isRunning
       /\ told = "down" => ~isRunning /\ ~net

\* The core's order: nobody is told that the node runs over a ledger that was never opened, and the balance
\* interval ends with the first stop.
InOrder ==
  /\ isRunning => boot \in {"core", "ready"} /\ (ledgerOpen \/ told # "none" \/ Stopping)
  /\ balanceTimer => told # "down"

\* The desktop app: the two above.
DesktopSound == AsTold /\ InOrder
=============================================================================
