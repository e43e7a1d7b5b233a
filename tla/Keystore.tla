------------------------------ MODULE Keystore ------------------------------
(***************************************************************************)
(* agent-keystore.js: processes on one box share the master key file and   *)
(* one xmbl.json per agent.  The first use creates the master key with an  *)
(* exclusive create and writes its bytes afterwards; identities are made   *)
(* after an existence check and an await, and land by rename.  A process   *)
(* may die between any two file operations.                                *)
(***************************************************************************)
EXTENDS Naturals, FiniteSets

CONSTANTS
  Proc, Agent,
  MaxEnsure,    \* bound on calls of ensureAgentIdentity
  MaxDeath      \* bound on processes that die

VARIABLES
  masterFile,   \* the key file: "none", "empty" (created, no bytes yet), or the key of a process
  agentFile,    \* xmbl.json per agent: the identity and the key its secret is encrypted under
  proc,         \* where each process is in ensureAgentIdentity
  answers,      \* history: agent -> the identities some call returned
  overlapped,   \* history: agents whose creations overlapped
  ensures, deaths

keystoreVars == <<masterFile, agentFile, proc, answers, overlapped, ensures, deaths>>

NoFile == [id |-> 0, under |-> "none"]
Resting == [at |-> "idle"]

Init ==
  /\ masterFile = "none"
  /\ agentFile = [a \in Agent |-> NoFile]
  /\ proc = [p \in Proc |-> Resting]
  /\ answers = [a \in Agent |-> {}]
  /\ overlapped = {} /\ ensures = 0 /\ deaths = 0

Go(p, step) == proc' = [proc EXCEPT ![p] = step]
Answered(a, id) == answers' = [answers EXCEPT ![a] = @ \cup {id}]

\* Mutant: the file is not looked for.
EnsureAlways(p, a) ==
  /\ proc[p] = Resting
  /\ ensures < MaxEnsure
  /\ ensures' = ensures + 1
  /\ Go(p, [at |-> "master", agent |-> a, id |-> ensures'])
  /\ UNCHANGED <<masterFile, agentFile, answers, overlapped, deaths>>

\* ensureAgentIdentity: a file that is there is returned untouched; else a new identity is under way.
Ensure(p, a) ==
  /\ proc[p] = Resting
  /\ ensures < MaxEnsure
  /\ ensures' = ensures + 1
  /\ IF agentFile[a] # NoFile
     THEN Answered(a, agentFile[a].id) /\ UNCHANGED <<proc, overlapped>>
     ELSE /\ Go(p, [at |-> "master", agent |-> a, id |-> ensures'])
          /\ overlapped' = IF \E q \in Proc : proc[q] # Resting /\ proc[q].agent = a
                           THEN overlapped \cup {a} ELSE overlapped
          /\ UNCHANGED answers
  /\ UNCHANGED <<masterFile, agentFile, deaths>>

\* loadMasterKey: a key file that exists is read (one without its bytes does not decode: the call
\* throws); none leads to the exclusive create.
LoadMaster(p) ==
  LET v == proc[p]
  IN  /\ v.at = "master"
      /\ Go(p, CASE masterFile = "none" -> [v EXCEPT !.at = "exclusive"]
                 [] masterFile = "empty" -> Resting
                 [] OTHER -> [at |-> "create", agent |-> v.agent, id |-> v.id, key |-> masterFile])
      /\ UNCHANGED <<masterFile, agentFile, answers, overlapped, ensures, deaths>>

\* Mutant: last writer wins, as with a temporary file and a rename.
CreateMasterRename(p) ==
  LET v == proc[p]
  IN  /\ v.at = "exclusive"
      /\ masterFile' = p
      /\ Go(p, [at |-> "create", agent |-> v.agent, id |-> v.id, key |-> p])
      /\ UNCHANGED <<agentFile, answers, overlapped, ensures, deaths>>

\* writeFileSync with flag wx, the open: exactly one creator; a loser adopts.
CreateMaster(p) ==
  LET v == proc[p]
  IN  /\ v.at = "exclusive"
      /\ IF masterFile = "none"
         THEN masterFile' = "empty" /\ Go(p, [v EXCEPT !.at = "bytes"])
         ELSE Go(p, [v EXCEPT !.at = "adopt"]) /\ UNCHANGED masterFile
      /\ UNCHANGED <<agentFile, answers, overlapped, ensures, deaths>>

\* ... and the write of its bytes.
WriteMaster(p) ==
  LET v == proc[p]
  IN  /\ v.at = "bytes"
      /\ masterFile' = p
      /\ Go(p, [at |-> "create", agent |-> v.agent, id |-> v.id, key |-> p])
      /\ UNCHANGED <<agentFile, answers, overlapped, ensures, deaths>>

\* adoptMasterKey: read until the bytes are there, or throw after the last of the retries.
AdoptMaster(p) ==
  LET v == proc[p]
  IN  /\ v.at = "adopt"
      /\ \/ /\ masterFile # "empty"
            /\ Go(p, [at |-> "create", agent |-> v.agent, id |-> v.id, key |-> masterFile])
         \/ /\ masterFile = "empty"
            /\ Go(p, Resting)
      /\ UNCHANGED <<masterFile, agentFile, answers, overlapped, ensures, deaths>>

\* After Identity.create: encryptSecret, and writeFileAtomic renames over whatever is there now.
WriteIdentity(p) ==
  LET v == proc[p]
  IN  /\ v.at = "create"
      /\ agentFile' = [agentFile EXCEPT ![v.agent] = [id |-> v.id, under |-> v.key]]
      /\ Answered(v.agent, v.id)
      /\ Go(p, Resting)
      /\ UNCHANGED <<masterFile, overlapped, ensures, deaths>>

Die(p) ==
  /\ proc[p] # Resting
  /\ deaths < MaxDeath
  /\ deaths' = deaths + 1
  /\ Go(p, Resting)
  /\ UNCHANGED <<masterFile, agentFile, answers, overlapped, ensures>>

Next == \E p \in Proc :
          \/ \E a \in Agent : Ensure(p, a)
          \/ LoadMaster(p) \/ CreateMaster(p) \/ WriteMaster(p) \/ AdoptMaster(p)
          \/ WriteIdentity(p) \/ Die(p)

KeystoreSpec == Init /\ [][Next]_keystoreVars

----------------------------------------------------------------------------
\* decryptSecret of loadAgentIdentity works for whoever reads the master key file now.
CanLoad(a) == masterFile = agentFile[a].under

\* Every identity that reached the disk can be loaded, whichever processes raced for the first key
\* and wherever one of them died.
Loadable == \A a \in Agent : agentFile[a] # NoFile => CanLoad(a)

\* The identity a call returned stays the agent's, unless creations of the same agent overlapped.
Untouched == \A a \in Agent \ overlapped : answers[a] \subseteq {agentFile[a].id}
=============================================================================
