------------------------------- MODULE Daemon -------------------------------
(***************************************************************************)
(* Starting, stopping and dying of xmbl-node processes on one machine:     *)
(* the pidfile, the machine lock, the store and the control socket, which  *)
(* every process reads and writes in steps of its own (bin/xmbl-node.js,   *)
(* createControlServer).  A process identifier is used once.               *)
(***************************************************************************)
EXTENDS Naturals

CONSTANTS
  Pid,          \* the processes that may start
  dir           \* the data_dir of each

VARIABLES
  colocated,    \* XMBL_ALLOW_COLOCATED_NODES
  pc,           \* where each process is
  tries,        \* attempts at the machine lock
  holds,        \* machineLockHeld
  machineLock,  \* the lock file: [by, written], written FALSE between its creation and its bytes
  pidFile, sockFile, store,   \* per directory: the pid named, the process bound, the process that has it open
  lockRaced,    \* history: a live process's lock was taken for stale, or the attempts ran out
  pidRaced      \* history: the pidfile of a live process was removed as stale

daemonVars == <<colocated, pc, tries, holds, machineLock, pidFile, sockFile, store, lockRaced, pidRaced>>

None == 0
Dir == {dir[p] : p \in Pid}
NoLock == [by |-> None, written |-> FALSE]

Init ==
  /\ colocated \in BOOLEAN
  /\ pc = [p \in Pid |-> "new"]
  /\ tries = [p \in Pid |-> 0] /\ holds = [p \in Pid |-> FALSE]
  /\ machineLock = NoLock
  /\ pidFile = [d \in Dir |-> None] /\ sockFile = [d \in Dir |-> None] /\ store = [d \in Dir |-> None]
  /\ lockRaced = FALSE /\ pidRaced = FALSE

isAlive(p) == p # None /\ pc[p] \notin {"new", "dead"}
Goto(p, at) == pc' = [pc EXCEPT ![p] = at]
Mine(f, p) == [f EXCEPT ![dir[p]] = p]
Gone(f, p) == [f EXCEPT ![dir[p]] = None]
Serving == {"up", "closing", "closed", "unfiled", "unbound"}

\* The exit handler: only a lock that is still ours.
Released(p) == IF holds[p] /\ machineLock = [by |-> p, written |-> TRUE] THEN NoLock ELSE machineLock

\* A process that exits by itself runs the handler; the system closes its store.
Exits(p) ==
  /\ Goto(p, "dead")
  /\ machineLock' = Released(p)
  /\ store' = [d \in Dir |-> IF store[d] = p THEN None ELSE store[d]]

\* cmdStart: a live pid ends it, a dead one is to be cleared.
Start(p) ==
  /\ pc[p] = "new"
  /\ LET existing == pidFile[dir[p]] IN
     Goto(p, IF existing = None THEN (IF colocated THEN "boot" ELSE "lock")
             ELSE IF isAlive(existing) THEN "dead" ELSE "stale")
  /\ UNCHANGED <<colocated, tries, holds, machineLock, pidFile, sockFile, store, lockRaced, pidRaced>>

DropPid(p) ==
  /\ pc[p] = "stale"
  /\ pidFile' = Gone(pidFile, p)
  /\ pidRaced' = (pidRaced \/ isAlive(pidFile[dir[p]]))
  /\ Goto(p, IF colocated THEN "boot" ELSE "lock")
  /\ UNCHANGED <<colocated, tries, holds, machineLock, sockFile, store, lockRaced>>

\* Mutant: the file is opened for writing without O_EXCL.
TakeLockShared(p) ==
  /\ pc[p] = "lock" /\ tries[p] < 2
  /\ machineLock' = [by |-> p, written |-> FALSE] /\ Goto(p, "fill")
  /\ UNCHANGED <<colocated, tries, holds, pidFile, sockFile, store, lockRaced, pidRaced>>

\* The exclusive create; EEXIST leads to a look at the holder.
TakeLock(p) ==
  /\ pc[p] = "lock" /\ tries[p] < 2
  /\ \/ /\ machineLock = NoLock
        /\ machineLock' = [by |-> p, written |-> FALSE] /\ Goto(p, "fill")
     \/ machineLock # NoLock /\ Goto(p, "inspect") /\ UNCHANGED machineLock
  /\ UNCHANGED <<colocated, tries, holds, pidFile, sockFile, store, lockRaced, pidRaced>>

\* The bytes of the lock: they go to the file that was created, whether or not the path still names it.
FillLock(p) ==
  /\ pc[p] = "fill"
  /\ machineLock' = IF machineLock.by = p THEN [machineLock EXCEPT !.written = TRUE] ELSE machineLock
  /\ holds' = [holds EXCEPT ![p] = TRUE]
  /\ Goto(p, "boot")
  /\ UNCHANGED <<colocated, tries, pidFile, sockFile, store, lockRaced, pidRaced>>

\* A readable lock of a live process ends the start; anything else is stale.
Inspect(p) ==
  /\ pc[p] = "inspect"
  /\ Goto(p, IF machineLock.written /\ isAlive(machineLock.by) THEN "dead" ELSE "steal")
  /\ UNCHANGED <<colocated, tries, holds, machineLock, pidFile, sockFile, store, lockRaced, pidRaced>>

Steal(p) ==
  /\ pc[p] = "steal"
  /\ machineLock' = NoLock
  /\ lockRaced' = (lockRaced \/ isAlive(machineLock.by))
  /\ tries' = [tries EXCEPT ![p] = @ + 1]
  /\ Goto(p, "lock")
  /\ UNCHANGED <<colocated, holds, pidFile, sockFile, store, pidRaced>>

\* After two attempts the start goes on without the lock.
GiveUp(p) ==
  /\ pc[p] = "lock" /\ tries[p] = 2
  /\ lockRaced' = TRUE
  /\ Goto(p, "boot")
  /\ UNCHANGED <<colocated, tries, holds, machineLock, pidFile, sockFile, store, pidRaced>>

\* core.start and the open of the ledger's store, which one process at a time can have open.
OpenStore(p) ==
  /\ pc[p] = "boot"
  /\ \/ /\ store[dir[p]] = None
        /\ store' = Mine(store, p) /\ Goto(p, "opened")
        /\ UNCHANGED machineLock
     \/ store[dir[p]] # None /\ Exits(p)
  /\ UNCHANGED <<colocated, tries, holds, pidFile, sockFile, lockRaced, pidRaced>>

\* The pidfile and the status file are written, then the socket path is probed.
WritePid(p) ==
  /\ pc[p] = "opened"
  /\ pidFile' = Mine(pidFile, p)
  /\ Goto(p, "probe")
  /\ UNCHANGED <<colocated, tries, holds, machineLock, sockFile, store, lockRaced, pidRaced>>

\* probeLiveOwner: whoever accepts on the path ends the boot.
ProbeLiveOwner(p) ==
  /\ pc[p] = "probe"
  /\ LET owner == sockFile[dir[p]] IN
     IF owner # None /\ isAlive(owner) /\ pc[owner] = "up"
     THEN Exits(p)
     ELSE Goto(p, "bind") /\ UNCHANGED <<machineLock, store>>
  /\ UNCHANGED <<colocated, tries, holds, pidFile, sockFile, lockRaced, pidRaced>>

\* rmSync of the corpse, and listen.
Listen(p) ==
  /\ pc[p] = "bind"
  /\ sockFile' = Mine(sockFile, p)
  /\ Goto(p, "up")
  /\ UNCHANGED <<colocated, tries, holds, machineLock, pidFile, store, lockRaced, pidRaced>>

\* shutdown, on a signal, `stop` of whoever the pidfile names, the loss of the launcher or an update:
\* the server is closed, which unlinks its path.
Shutdown(p) ==
  /\ pc[p] = "up"
  /\ sockFile' = IF sockFile[dir[p]] = p THEN Gone(sockFile, p) ELSE sockFile
  /\ Goto(p, "closing")
  /\ UNCHANGED <<colocated, tries, holds, machineLock, pidFile, store, lockRaced, pidRaced>>

\* Mutant: the lock is released before the files are removed.
StopCoreUnlocked(p) ==
  /\ pc[p] = "closing"
  /\ store' = Gone(store, p) /\ machineLock' = Released(p)
  /\ Goto(p, "closed")
  /\ UNCHANGED <<colocated, tries, holds, pidFile, sockFile, lockRaced, pidRaced>>

StopCore(p) ==
  /\ pc[p] = "closing"
  /\ store' = Gone(store, p)
  /\ Goto(p, "closed")
  /\ UNCHANGED <<colocated, tries, holds, machineLock, pidFile, sockFile, lockRaced, pidRaced>>

DropFiles(p) ==
  /\ pc[p] = "closed"
  /\ pidFile' = Gone(pidFile, p)
  /\ Goto(p, "unfiled")
  /\ UNCHANGED <<colocated, tries, holds, machineLock, sockFile, store, lockRaced, pidRaced>>

DropSocket(p) ==
  /\ pc[p] = "unfiled"
  /\ sockFile' = Gone(sockFile, p)
  /\ Goto(p, "unbound")
  /\ UNCHANGED <<colocated, tries, holds, machineLock, pidFile, store, lockRaced, pidRaced>>

ReleaseMachineLock(p) ==
  /\ pc[p] = "unbound"
  /\ Exits(p)
  /\ UNCHANGED <<colocated, tries, holds, pidFile, sockFile, lockRaced, pidRaced>>

\* SIGKILL: every file stays.
Kill(p) ==
  /\ isAlive(p)
  /\ Goto(p, "dead")
  /\ store' = [d \in Dir |-> IF store[d] = p THEN None ELSE store[d]]
  /\ UNCHANGED <<colocated, tries, holds, machineLock, pidFile, sockFile, lockRaced, pidRaced>>

\* cmdStop beside no live node clears the pidfile it read.
StopClears(d) ==
  /\ pidFile[d] # None /\ ~isAlive(pidFile[d])
  /\ pidFile' = [pidFile EXCEPT ![d] = None]
  /\ UNCHANGED <<colocated, pc, tries, holds, machineLock, sockFile, store, lockRaced, pidRaced>>

Next == \/ \E p \in Pid :
             \/ Start(p) \/ DropPid(p) \/ TakeLock(p) \/ FillLock(p) \/ Inspect(p) \/ Steal(p) \/ GiveUp(p)
             \/ OpenStore(p) \/ WritePid(p) \/ ProbeLiveOwner(p) \/ Listen(p)
             \/ Shutdown(p) \/ StopCore(p) \/ DropFiles(p) \/ DropSocket(p) \/ ReleaseMachineLock(p) \/ Kill(p)
        \/ \E d \in Dir : StopClears(d)

DaemonSpec == Init /\ [][Next]_daemonVars

----------------------------------------------------------------------------
\* "ONE NODE PER MACHINE": unless co-location was asked for or a live lock was taken for stale, no two
\* processes are past the machine lock, through every order of starts, kills and shutdowns.
OneNode ==
  colocated \/ lockRaced \/
    \A p, q \in Pid : p # q => ~(pc[p] \in {"boot", "opened", "probe", "bind"} \cup Serving
                                 /\ pc[q] \in {"boot", "opened", "probe", "bind"} \cup Serving)

\* A node that is up can be reached: the socket path leads to it and the pidfile names it, whatever
\* other process starts, fails, stops or dies beside it (a stale pidfile that two starts clear apart).
Reachable ==
  colocated \/ lockRaced \/
    \A p \in Pid : pc[p] = "up" => sockFile[dir[p]] = p /\ (pidFile[dir[p]] = p \/ pidRaced)
=============================================================================
