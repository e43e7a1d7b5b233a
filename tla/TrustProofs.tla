---------------------------- MODULE TrustProofs ----------------------------
(***************************************************************************)
(* Proofs about the parts of MCTrust, for every value of the constants the *)
(* configuration gives.  A step of the collection is a step of the part    *)
(* that Init chose and leaves the variables of the others alone, so each   *)
(* part's specification holds of the collection, and its invariant is      *)
(* proved of its own steps.                                                *)
(***************************************************************************)
EXTENDS MCTrust, FiniteSetTheorems, TLAPS

----------------------------------------------------------------------------
(* Key files                                                                *)

\* The collection runs the key files as their own specification does.
LEMMA KeysPart == Spec => Keys!KeystoreSpec
<1>1. Init => Keys!Init
  BY DEF Init
<1>2. [Next]_vars => [Keys!Next]_(Keys!keystoreVars)
  BY DEF Next, vars, keystoreVars, Keys!keystoreVars
<1> QED
  BY <1>1, <1>2, PTL DEF Spec, Keys!KeystoreSpec

\* What a process that is creating an identity knows: who it is for, and at the last stage the key.
Stages == [at : {"master", "exclusive", "bytes", "adopt"}, agent : Agent, id : Nat]
            \cup [at : {"create"}, agent : Agent, id : Nat, key : Proc]

KeysTyped ==
  /\ masterFile \in {"none", "empty"} \cup Proc
  /\ agentFile \in [Agent -> {Keys!NoFile} \cup [id : Nat, under : Proc]]
  /\ proc \in [Proc -> {Keys!Resting} \cup Stages]
  /\ answers \in [Agent -> SUBSET Nat]
  /\ overlapped \subseteq Agent
  /\ ensures \in Nat

\* There is one master key: who has read it read the one on disk, who is to write its bytes is alone,
\* and what is on disk is encrypted under it.
OneMaster ==
  /\ \A p \in Proc :
       /\ proc[p].at = "create" => masterFile = proc[p].key
       /\ proc[p].at = "bytes" => masterFile = "empty" /\ \A q \in Proc : proc[q].at = "bytes" => q = p
       /\ proc[p].at = "adopt" => masterFile # "none"
  /\ \A a \in Agent : agentFile[a] # Keys!NoFile => masterFile = agentFile[a].under

\* Two processes create one agent's identity only if that is recorded, and who is creating the only
\* one found no file; an answer names an identity on disk.
OneCreator ==
  /\ \A p, q \in Proc :
       p # q /\ proc[p] # Keys!Resting /\ proc[q] # Keys!Resting /\ proc[p].agent = proc[q].agent
         => proc[p].agent \in overlapped
  /\ \A p \in Proc : proc[p] # Keys!Resting /\ proc[p].agent \notin overlapped => agentFile[proc[p].agent] = Keys!NoFile
  /\ \A a \in Agent : agentFile[a] = Keys!NoFile => answers[a] = {}

KeysInv == KeysTyped /\ OneMaster /\ OneCreator /\ Keys!Untouched

LEMMA KeysInit == Keys!Init => KeysInv
<1> SUFFICES ASSUME Keys!Init PROVE KeysInv
  OBVIOUS
<1>1. KeysTyped
  BY DEF Keys!Init, KeysTyped, Keys!NoFile, Keys!Resting
<1>2. OneMaster /\ OneCreator
  BY DEF Keys!Init, OneMaster, OneCreator, Keys!NoFile, Keys!Resting
<1>3. Keys!Untouched
  BY DEF Keys!Init, Keys!Untouched
<1> QED
  BY <1>1, <1>2, <1>3 DEF KeysInv

\* A stage is none of the resting state, and its fields are what Stages says.
LEMMA StageFields ==
  ASSUME KeysTyped, NEW p \in Proc, proc[p] # Keys!Resting
  PROVE  /\ proc[p] \in Stages /\ proc[p].agent \in Agent /\ proc[p].id \in Nat
         /\ proc[p].at = "create" => proc[p].key \in Proc
         /\ proc[p].at # "create" => proc[p] \in [at : {"master", "exclusive", "bytes", "adopt"}, agent : Agent, id : Nat]
BY DEF KeysTyped, Stages

\* A process that goes on for the same agent, or gives up, creates nothing.
LEMMA SameCreator ==
  ASSUME KeysInv, NEW p \in Proc, NEW step, proc[p] # Keys!Resting,
         step = Keys!Resting \/ (step \in Stages /\ step.agent = proc[p].agent),
         proc' = [proc EXCEPT ![p] = step], UNCHANGED <<agentFile, answers, overlapped, ensures>>
  PROVE  OneCreator' /\ Keys!Untouched' /\ (masterFile' \in {"none", "empty"} \cup Proc => KeysTyped')
<1>1. OneCreator'
  BY DEF KeysInv, KeysTyped, OneCreator
<1>2. Keys!Untouched'
  BY DEF KeysInv, Keys!Untouched
<1>3. masterFile' \in {"none", "empty"} \cup Proc => KeysTyped'
  BY DEF KeysInv, KeysTyped
<1> QED
  BY <1>1, <1>2, <1>3

LEMMA KeysNext == KeysInv /\ [Keys!Next]_(Keys!keystoreVars) => KeysInv'
<1> SUFFICES ASSUME KeysInv, [Keys!Next]_(Keys!keystoreVars) PROVE KeysInv'
  OBVIOUS
<1> USE DEF KeysInv, Keys!Go, Keys!Answered
<1>1. CASE UNCHANGED Keys!keystoreVars
  BY <1>1 DEF Keys!keystoreVars, KeysTyped, OneMaster, OneCreator, Keys!Untouched
<1>2. ASSUME NEW p \in Proc, NEW a \in Agent, Keys!Ensure(p, a) PROVE KeysInv'
  <2>1. CASE agentFile[a] # Keys!NoFile
    <3>1. agentFile[a].id \in Nat
      BY <2>1 DEF KeysTyped
    <3>2. KeysTyped'
      BY <1>2, <2>1, <3>1 DEF Keys!Ensure, KeysTyped
    <3>3. OneMaster'
      BY <1>2, <2>1 DEF Keys!Ensure, OneMaster
    <3>4. OneCreator'
      BY <1>2, <2>1 DEF Keys!Ensure, OneCreator, KeysTyped
    <3>5. Keys!Untouched'
      BY <1>2, <2>1 DEF Keys!Ensure, Keys!Untouched, KeysTyped
    <3> QED
      BY <3>2, <3>3, <3>4, <3>5
  <2>2. CASE agentFile[a] = Keys!NoFile
    <3> DEFINE step == [at |-> "master", agent |-> a, id |-> ensures']
    <3>1. step.at = "master" /\ step.agent = a /\ step # Keys!Resting /\ proc[p] = Keys!Resting
      BY <1>2 DEF Keys!Ensure, Keys!Resting
    <3>2. step \in Stages
      BY <1>2 DEF Keys!Ensure, Stages, KeysTyped
    <3>3. /\ proc' = [proc EXCEPT ![p] = step]
          /\ overlapped' = IF \E q \in Proc : proc[q] # Keys!Resting /\ proc[q].agent = a THEN overlapped \cup {a} ELSE overlapped
          /\ UNCHANGED <<masterFile, agentFile, answers>>
          /\ ensures' \in Nat
      BY <1>2, <2>2 DEF Keys!Ensure, KeysTyped
    <3> HIDE DEF step
    <3>4. KeysTyped'
      BY <3>2, <3>3 DEF KeysTyped
    <3>5. OneMaster'
      BY <3>1, <3>3 DEF OneMaster, KeysTyped, Keys!Resting
    <3>6. OneCreator'
      BY <2>2, <3>1, <3>3 DEF OneCreator, KeysTyped
    <3>7. Keys!Untouched'
      BY <3>3 DEF Keys!Untouched
    <3> QED
      BY <3>4, <3>5, <3>6, <3>7
  <2> QED
    BY <2>1, <2>2
<1>3. ASSUME NEW p \in Proc, Keys!LoadMaster(p) PROVE KeysInv'
  <2> DEFINE v == proc[p]
             step == CASE masterFile = "none" -> [v EXCEPT !.at = "exclusive"]
                       [] masterFile = "empty" -> Keys!Resting
                       [] OTHER -> [at |-> "create", agent |-> v.agent, id |-> v.id, key |-> masterFile]
  <2>1. /\ v.at = "master" /\ v # Keys!Resting
        /\ proc' = [proc EXCEPT ![p] = step]
        /\ UNCHANGED <<masterFile, agentFile, answers, overlapped, ensures>>
    BY <1>3 DEF Keys!LoadMaster, Keys!Resting
  <2>2. v \in [at : {"master", "exclusive", "bytes", "adopt"}, agent : Agent, id : Nat]
    BY <2>1, StageFields
  <2>3. masterFile \in {"none", "empty"} \cup Proc
    BY DEF KeysTyped
  <2>4. step = Keys!Resting \/ (step \in Stages /\ step.agent = v.agent /\ step.at \in {"exclusive", "create"})
    BY <2>2, <2>3 DEF Stages
  <2>5. step # Keys!Resting /\ step.at = "create" => masterFile = step.key
    BY <2>2, <2>3 DEF Keys!Resting
  <2> HIDE DEF v, step
  <2>6. OneCreator' /\ Keys!Untouched' /\ KeysTyped'
    BY <2>1, <2>3, <2>4, SameCreator DEF v
  <2>7. OneMaster'
    BY <2>1, <2>4, <2>5 DEF OneMaster, KeysTyped, Keys!Resting
  <2> QED
    BY <2>6, <2>7
<1>4. ASSUME NEW p \in Proc, Keys!CreateMaster(p) PROVE KeysInv'
  <2> DEFINE v == proc[p]
             step == [v EXCEPT !.at = IF masterFile = "none" THEN "bytes" ELSE "adopt"]
  <2>1. /\ v.at = "exclusive" /\ v # Keys!Resting
        /\ proc' = [proc EXCEPT ![p] = step]
        /\ masterFile' = IF masterFile = "none" THEN "empty" ELSE masterFile
        /\ UNCHANGED <<agentFile, answers, overlapped, ensures>>
    BY <1>4 DEF Keys!CreateMaster, Keys!Resting
  <2>2. v \in [at : {"master", "exclusive", "bytes", "adopt"}, agent : Agent, id : Nat]
    BY <2>1, StageFields
  <2>3. step \in Stages /\ step.agent = v.agent /\ step.at = IF masterFile = "none" THEN "bytes" ELSE "adopt"
    BY <2>2 DEF Stages
  <2> HIDE DEF v, step
  <2>4. masterFile' \in {"none", "empty"} \cup Proc
    BY <2>1 DEF KeysTyped
  <2>5. OneCreator' /\ Keys!Untouched' /\ KeysTyped'
    BY <2>1, <2>3, <2>4, SameCreator DEF v
  <2>6. ASSUME NEW a \in Agent, agentFile[a] # Keys!NoFile PROVE agentFile[a].under \in Proc
    BY <2>6 DEF KeysTyped
  <2>7. CASE masterFile = "none"
    <3>1. \A q \in Proc : proc[q].at # "create" /\ proc[q].at # "bytes"
      <4>1. ASSUME NEW q \in Proc, proc[q].at = "create" PROVE FALSE
        <5>1. proc[q] # Keys!Resting
          BY <4>1 DEF Keys!Resting
        <5>2. proc[q].key \in Proc
          BY <4>1, <5>1, StageFields
        <5> QED
          BY <4>1, <5>2, <2>7, ProcAssumption DEF OneMaster
      <4> QED
        BY <4>1, <2>7 DEF OneMaster
    <3>2. \A a \in Agent : agentFile[a] = Keys!NoFile
      BY <2>6, <2>7, ProcAssumption DEF OneMaster
    <3> QED
      BY <2>1, <2>3, <2>5, <2>7, <3>1, <3>2 DEF OneMaster, KeysTyped
  <2>8. CASE masterFile # "none"
    <3>1. OneMaster'
      BY <2>1, <2>3, <2>8 DEF OneMaster, KeysTyped
    <3> QED
      BY <2>5, <3>1
  <2> QED
    BY <2>7, <2>8
<1>5. ASSUME NEW p \in Proc, Keys!WriteMaster(p) PROVE KeysInv'
  <2> DEFINE v == proc[p]
             step == [at |-> "create", agent |-> v.agent, id |-> v.id, key |-> p]
  <2>1. /\ v.at = "bytes" /\ v # Keys!Resting
        /\ proc' = [proc EXCEPT ![p] = step]
        /\ masterFile' = p
        /\ UNCHANGED <<agentFile, answers, overlapped, ensures>>
    BY <1>5 DEF Keys!WriteMaster, Keys!Resting
  <2>2. v.agent \in Agent /\ v.id \in Nat
    BY <2>1, StageFields
  <2>3. step \in Stages /\ step.agent = v.agent /\ step.at = "create" /\ step.key = p
    BY <2>2 DEF Stages
  <2> HIDE DEF v, step
  <2>4. OneCreator' /\ Keys!Untouched' /\ KeysTyped'
    BY <2>1, <2>3, SameCreator DEF v
  <2>5. masterFile = "empty" /\ \A q \in Proc : proc[q].at = "bytes" => q = p
    BY <2>1 DEF OneMaster, v
  <2>6. \A q \in Proc : proc[q].at # "create"
    <3> SUFFICES ASSUME NEW q \in Proc, proc[q].at = "create" PROVE FALSE
      OBVIOUS
    <3>1. proc[q] # Keys!Resting
      BY DEF Keys!Resting
    <3>2. proc[q].key \in Proc
      BY <3>1, StageFields
    <3> QED
      BY <2>5, <3>2, ProcAssumption DEF OneMaster
  <2>7. \A a \in Agent : agentFile[a] = Keys!NoFile
    <3> SUFFICES ASSUME NEW a \in Agent, agentFile[a] # Keys!NoFile PROVE FALSE
      OBVIOUS
    <3>1. agentFile[a].under \in Proc
      BY DEF KeysTyped
    <3> QED
      BY <2>5, <3>1, ProcAssumption DEF OneMaster
  <2>8. OneMaster'
    BY <2>1, <2>3, <2>5, <2>6, <2>7, ProcAssumption DEF OneMaster, KeysTyped
  <2> QED
    BY <2>4, <2>8
<1>6. ASSUME NEW p \in Proc, Keys!AdoptMaster(p) PROVE KeysInv'
  <2> DEFINE v == proc[p]
             step == [at |-> "create", agent |-> v.agent, id |-> v.id, key |-> masterFile]
  <2>1. /\ v.at = "adopt" /\ v # Keys!Resting
        /\ UNCHANGED <<masterFile, agentFile, answers, overlapped, ensures>>
        /\ \/ masterFile # "empty" /\ proc' = [proc EXCEPT ![p] = step]
           \/ proc' = [proc EXCEPT ![p] = Keys!Resting]
    BY <1>6 DEF Keys!AdoptMaster, Keys!Resting
  <2>2. v.agent \in Agent /\ v.id \in Nat
    BY <2>1, StageFields
  <2>3. masterFile # "none" /\ masterFile \in {"none", "empty"} \cup Proc
    BY <2>1 DEF OneMaster, KeysTyped, v
  <2>4. CASE masterFile # "empty" /\ proc' = [proc EXCEPT ![p] = step]
    <3>1. step \in Stages /\ step.agent = v.agent /\ step.at = "create" /\ step.key = masterFile
      BY <2>2, <2>3, <2>4 DEF Stages
    <3> HIDE DEF v, step
    <3>2. OneCreator' /\ Keys!Untouched' /\ KeysTyped'
      BY <2>1, <2>3, <2>4, <3>1, SameCreator DEF v
    <3>3. OneMaster'
      BY <2>1, <2>4, <3>1 DEF OneMaster, KeysTyped
    <3> QED
      BY <3>2, <3>3
  <2>5. CASE proc' = [proc EXCEPT ![p] = Keys!Resting]
    <3>1. OneCreator' /\ Keys!Untouched' /\ KeysTyped'
      BY <2>1, <2>3, <2>5, SameCreator DEF v
    <3>2. OneMaster'
      BY <2>1, <2>5 DEF OneMaster, KeysTyped, Keys!Resting
    <3> QED
      BY <3>1, <3>2
  <2> QED
    BY <2>1, <2>4, <2>5
<1>7. ASSUME NEW p \in Proc, Keys!WriteIdentity(p) PROVE KeysInv'
  <2> DEFINE v == proc[p]
             file == [id |-> v.id, under |-> v.key]
  <2>1. /\ v.at = "create" /\ v # Keys!Resting
        /\ agentFile' = [agentFile EXCEPT ![v.agent] = file]
        /\ answers' = [answers EXCEPT ![v.agent] = @ \cup {v.id}]
        /\ proc' = [proc EXCEPT ![p] = Keys!Resting]
        /\ UNCHANGED <<masterFile, overlapped, ensures>>
    BY <1>7 DEF Keys!WriteIdentity, Keys!Resting
  <2>2. v.agent \in Agent /\ v.id \in Nat /\ v.key \in Proc
    BY <2>1, StageFields
  <2>3. file \in [id : Nat, under : Proc] /\ file.id = v.id /\ file.under = v.key /\ file # Keys!NoFile
    BY <2>2, ProcAssumption DEF Keys!NoFile
  <2>4. masterFile = v.key
    BY <2>1 DEF OneMaster
  <2> HIDE DEF file
  <2>5. KeysTyped'
    BY <2>1, <2>2, <2>3 DEF KeysTyped
  <2>6. OneMaster'
    BY <2>1, <2>2, <2>3, <2>4 DEF OneMaster, KeysTyped, Keys!Resting
  <2>7. OneCreator'
    BY <2>1, <2>2, <2>3 DEF OneCreator, KeysTyped
  <2>8. Keys!Untouched'
    <3>1. v.agent \notin overlapped => answers[v.agent] = {}
      BY <2>1, <2>2 DEF OneCreator
    <3> QED
      BY <2>1, <2>2, <2>3, <3>1 DEF Keys!Untouched, KeysTyped
  <2> QED
    BY <2>5, <2>6, <2>7, <2>8
<1>8. ASSUME NEW p \in Proc, Keys!Die(p) PROVE KeysInv'
  <2>1. /\ proc[p] # Keys!Resting
        /\ proc' = [proc EXCEPT ![p] = Keys!Resting]
        /\ UNCHANGED <<masterFile, agentFile, answers, overlapped, ensures>>
    BY <1>8 DEF Keys!Die
  <2>2. OneCreator' /\ Keys!Untouched' /\ KeysTyped'
    BY <2>1, SameCreator DEF KeysTyped
  <2>3. OneMaster'
    BY <2>1 DEF OneMaster, KeysTyped, Keys!Resting
  <2> QED
    BY <2>2, <2>3
<1> QED
  BY <1>1, <1>2, <1>3, <1>4, <1>5, <1>6, <1>7, <1>8 DEF Keys!Next

\* agent-keystore.js: every identity that reached the disk decrypts under the master key there, and
\* one that a call returned stays the agent's, for any number of processes, agents and deaths.
THEOREM IdentityKeptHolds == Spec => []IdentityKept
<1>1. KeysInv => IdentityKept
  BY DEF KeysInv, OneMaster, IdentityKept, Keys!Loadable, Keys!CanLoad
<1>2. Spec => []KeysInv
  BY KeysPart, KeysInit, KeysNext, PTL DEF Keys!KeystoreSpec
<1> QED
  BY <1>1, <1>2, PTL

----------------------------------------------------------------------------
(* Settlement keys                                                          *)

LEMMA EscrowPart == Spec => Escrow!SettlementSpec
<1>1. Init => Escrow!Init
  BY DEF Init
<1>2. [Next]_vars => [Escrow!Next]_(Escrow!settlementVars)
  BY DEF Next, vars, settlementVars, Escrow!settlementVars
<1> QED
  BY <1>1, <1>2, PTL DEF Spec, Escrow!SettlementSpec

\* What the released key signs for is the account the payer was told of, on every chain: the address
\* is taken over what the chain itself hashes, in whichever form newKey hands the key out.
LEMMA AddressIsAccount ==
  ASSUME NEW c \in Escrow!Chain, NEW sk
  PROVE  Escrow!address(c, Escrow!PublicKey(sk, c)) = Escrow!Account(c, sk)
BY DEF Escrow!Chain, Escrow!Chains, Escrow!address, Escrow!PublicKey, Escrow!Account

Addresses == [chain : Escrow!Chain, sk : Nat, over : {"point", "compressed", "ed25519"}]
Metas == [contract : Authorising, chain : Escrow!Chain, address : Addresses]
Envelopes == [alg : {"seal"}, to : Holder, n : Nat, receiver : Holder, meta : Metas, sk : Nat,
              tag : Holder \X (Holder \X Metas)]

\* The tag, the holder of the key and the sealed secret are what sealChainKey made of them, whatever was
\* rewritten beside them.
TagHolds ==
  envelope # Escrow!NoEnvelope =>
    /\ envelope \in Envelopes
    /\ funded \in Metas
    /\ Ring[envelope.to] >= MinSealN
    /\ envelope.tag = <<envelope.to, <<envelope.to, funded>>>>
    /\ funded.address = Escrow!Account(funded.chain, envelope.sk)

\* A release came from the envelope as it is.
ReleasedHere ==
  released.ok =>
    /\ envelope # Escrow!NoEnvelope
    /\ released.chain \in Escrow!Chain
    /\ released.by = envelope.to /\ released.by = envelope.receiver
    /\ released.contract = funded.contract
    /\ released.sk = envelope.sk
    /\ released.address = Escrow!Account(released.chain, released.sk)

EscrowInv == minted \in Nat /\ TagHolds /\ ReleasedHere

LEMMA EscrowNext == EscrowInv /\ [Escrow!Next]_(Escrow!settlementVars) => EscrowInv'
<1> SUFFICES ASSUME EscrowInv, [Escrow!Next]_(Escrow!settlementVars) PROVE EscrowInv'
  OBVIOUS
<1> USE DEF EscrowInv
<1>1. CASE UNCHANGED Escrow!settlementVars
  BY <1>1 DEF Escrow!settlementVars, TagHolds, ReleasedHere
<1>2. ASSUME NEW c \in Escrow!Chain, NEW r \in Holder, NEW k \in Authorising, Escrow!SealChainKey(c, r, k)
      PROVE  EscrowInv'
  <2> DEFINE meta == [contract |-> k, chain |-> c, address |-> Escrow!address(c, Escrow!PublicKey(minted', c))]
             made == [alg |-> "seal", to |-> r, n |-> Ring[r], receiver |-> r, meta |-> meta,
                      sk |-> minted', tag |-> <<r, <<r, meta>>>>]
  <2>1. envelope' = made /\ funded' = meta /\ released' = Escrow!NoRelease /\ minted' \in Nat /\ Ring[r] >= MinSealN
    BY <1>2 DEF Escrow!SealChainKey, Escrow!aadBytes, Escrow!Sealable
  <2>2. meta.address = Escrow!Account(c, minted') /\ meta.chain = c
    BY AddressIsAccount
  <2>3. Escrow!Account(c, minted') \in Addresses
    BY <2>1 DEF Addresses, Escrow!Account, Escrow!Chain, Escrow!Chains
  <2>4. meta \in Metas
    BY <2>2, <2>3 DEF Metas
  <2> HIDE DEF meta
  <2>5. /\ made \in Envelopes /\ made.to = r /\ made.sk = minted' /\ made.tag = <<r, <<r, meta>>>>
    BY <2>1, <2>4, RingAssumption DEF Envelopes
  <2> HIDE DEF made
  <2>6. TagHolds'
    BY <2>1, <2>2, <2>4, <2>5 DEF TagHolds
  <2>7. ReleasedHere'
    BY <2>1 DEF ReleasedHere, Escrow!NoRelease
  <2> QED
    BY <2>1, <2>6, <2>7
<1>3. ASSUME envelope.alg = "seal", NEW e \in Escrow!Rewritten, Escrow!Rewrite(e) PROVE EscrowInv'
  <2>1. envelope # Escrow!NoEnvelope
    BY <1>3 DEF Escrow!NoEnvelope
  <2>2. envelope \in Envelopes
    BY <2>1 DEF TagHolds
  <2> DEFINE Sealed == e \in Envelopes /\ e.to = envelope.to /\ e.tag = envelope.tag /\ e.sk = envelope.sk
  <2>3. Sealed
    <3>1. ASSUME NEW r \in Holder, e = [envelope EXCEPT !.receiver = r] PROVE Sealed
      BY <2>2, <3>1 DEF Envelopes
    <3>2. ASSUME NEW r \in Holder, e = [envelope EXCEPT !.n = Ring[r]] PROVE Sealed
      BY <2>2, <3>2, RingAssumption DEF Envelopes
    <3>3. ASSUME NEW k \in Authorising, e = [envelope EXCEPT !.meta.contract = k] PROVE Sealed
      BY <2>2, <3>3 DEF Envelopes, Metas
    <3>4. ASSUME NEW c \in Escrow!Chain, e = [envelope EXCEPT !.meta.chain = c] PROVE Sealed
      BY <2>2, <3>4 DEF Envelopes, Metas
    <3> QED
      BY <3>1, <3>2, <3>3, <3>4 DEF Escrow!Rewritten
  <2>4. envelope' = e /\ released' = Escrow!NoRelease /\ UNCHANGED <<funded, minted>>
    BY <1>3 DEF Escrow!Rewrite
  <2>5. TagHolds'
    BY <2>1, <2>3, <2>4 DEF TagHolds
  <2>6. ReleasedHere'
    BY <2>4 DEF ReleasedHere, Escrow!NoRelease
  <2> QED
    BY <2>4, <2>5, <2>6
<1>4. ASSUME NEW c \in Escrow!Chain, NEW h \in Holder, Escrow!ReleaseAndSign(c, h) PROVE EscrowInv'
  <2>1. envelope.alg = "seal" /\ UNCHANGED <<envelope, funded, minted>>
    BY <1>4 DEF Escrow!ReleaseAndSign
  <2>2. envelope # Escrow!NoEnvelope /\ TagHolds'
    BY <2>1 DEF Escrow!NoEnvelope, TagHolds
  <2>3. CASE ~Escrow!openSecret(h, envelope)
    <3>1. released' = Escrow!NoRelease
      BY <1>4, <2>3 DEF Escrow!ReleaseAndSign
    <3> QED
      BY <2>1, <2>2, <3>1 DEF ReleasedHere, Escrow!NoRelease
  <2>4. CASE Escrow!openSecret(h, envelope)
    <3> DEFINE answer == [ok |-> TRUE, chain |-> c, by |-> h, contract |-> envelope.meta.contract,
                          address |-> Escrow!address(c, Escrow!PublicKey(envelope.sk, c)), sk |-> envelope.sk]
    <3>1. released' = answer
      BY <1>4, <2>4 DEF Escrow!ReleaseAndSign
    <3>2. envelope.to = h /\ envelope.receiver = h /\ envelope.meta = funded
      BY <2>2, <2>4 DEF TagHolds, Escrow!openSecret, Escrow!aadBytes
    <3>3. answer.address = Escrow!Account(c, envelope.sk)
      BY AddressIsAccount
    <3>4. ReleasedHere'
      BY <2>1, <2>2, <3>1, <3>2, <3>3 DEF ReleasedHere
    <3> QED
      BY <2>1, <2>2, <3>4
  <2> QED
    BY <2>3, <2>4
<1> QED
  BY <1>1, <1>2, <1>3, <1>4 DEF Escrow!Next

\* settlement.js: a payer's address is one the sealed key controls on its chain, and a release needs the
\* receiver, the ring and the authorisation the key was sealed with, for any holders, rings and rewrites.
THEOREM FundedIsSweepableHolds == Spec => []FundedIsSweepable
<1>1. Escrow!Init => EscrowInv
  BY DEF Escrow!Init, EscrowInv, TagHolds, ReleasedHere, Escrow!NoRelease
<1>2. EscrowInv => FundedIsSweepable
  <2> SUFFICES ASSUME EscrowInv PROVE Escrow!FundedIsSweepable /\ Escrow!ReleaseBound
    BY DEF FundedIsSweepable
  <2> QED
    BY DEF EscrowInv, TagHolds, ReleasedHere, Escrow!FundedIsSweepable, Escrow!ReleaseBound
<1>3. Spec => []EscrowInv
  BY <1>1, EscrowPart, EscrowNext, PTL DEF Escrow!SettlementSpec
<1> QED
  BY <1>2, <1>3, PTL


----------------------------------------------------------------------------
(* Delegation                                                               *)

LEMMA AuthorityPart == Spec => Authority!DelegationSpec
<1>1. Init => Authority!Init
  BY DEF Init
<1>2. [Next]_vars => [Authority!Next]_(Authority!delegationVars)
  BY DEF Next, vars, delegationVars, Authority!delegationVars
<1> QED
  BY <1>1, <1>2, PTL DEF Spec, Authority!DelegationSpec

Verifying == [at : {"chain", "action"}, pres : Authority!Presentation, now : Nat, live : BOOLEAN]
Entry(pair) == [token |-> pair[1], nonce |-> pair[2], exp |-> pair[1].exp]

AuthorityTyped ==
  /\ clock \in Nat
  /\ used \subseteq {Entry(pair) : pair \in Authority!Pair}
  /\ call \in [Call -> {Authority!NoCall} \cup Verifying]
  /\ granted \in [Authority!Pair -> Nat]

\* A pair that authorised is still in the registry, or its token has expired, so that whoever still
\* presents it is excused.
Remembered ==
  \A pair \in Authority!Pair \ excused :
    \/ granted[pair] = 0
    \/ granted[pair] = 1 /\ (Entry(pair) \in used \/ clock > pair[1].exp)

\* A call that began under a burned token finds it burned.
Stopped == \A c \in Call : call[c].at = "chain" /\ ~call[c].live => call[c].pres.token \in burned

AuthorityInv == AuthorityTyped /\ Remembered /\ Stopped /\ Authority!Delegated /\ Authority!BurnedStops

LEMMA EntryFields ==
  ASSUME NEW pair \in Authority!Pair
  PROVE  /\ pair[1] \in Token /\ pair[2] \in Nonce /\ pair[1].exp \in Nat
         /\ Entry(pair).token = pair[1] /\ Entry(pair).nonce = pair[2] /\ Entry(pair).exp = pair[1].exp
         /\ pair = <<pair[1], pair[2]>>
BY ValidityAssumption DEF Authority!Pair, Entry

\* What a sweep takes has expired.
LEMMA SweptExpired ==
  ASSUME NEW u, NEW e \in u
  PROVE  e \in Authority!Swept(u) \/ (e.exp # 0 /\ ~(e.exp >= clock))
BY DEF Authority!Swept

LEMMA SweptWithin == ASSUME NEW u PROVE Authority!Swept(u) \subseteq u
BY DEF Authority!Swept

LEMMA AuthorityInit == Authority!Init => AuthorityInv
<1> SUFFICES ASSUME Authority!Init PROVE AuthorityInv
  OBVIOUS
<1>1. AuthorityTyped
  BY DEF Authority!Init, AuthorityTyped
<1>2. Remembered /\ Stopped /\ Authority!Delegated /\ Authority!BurnedStops
  BY DEF Authority!Init, Remembered, Stopped, Authority!Delegated, Authority!BurnedStops, Authority!NoCall
<1> QED
  BY <1>1, <1>2 DEF AuthorityInv

\* A call that ends or is dropped leaves the statements about calls to the others.
LEMMA CallEnds ==
  ASSUME AuthorityInv, NEW c \in Call, call' = [call EXCEPT ![c] = Authority!NoCall], burned' = burned
  PROVE  Stopped' /\ Authority!Delegated' /\ Authority!BurnedStops' /\ call' \in [Call -> {Authority!NoCall} \cup Verifying]
<1>1. call' \in [Call -> {Authority!NoCall} \cup Verifying]
  BY DEF AuthorityInv, AuthorityTyped
<1>2. \A d \in Call : call'[d] = call[d] \/ call'[d].at = "idle"
  BY DEF AuthorityInv, AuthorityTyped, Authority!NoCall
<1>3. Stopped'
  BY <1>2 DEF AuthorityInv, Stopped
<1>4. Authority!Delegated'
  BY <1>2 DEF AuthorityInv, Authority!Delegated
<1>5. Authority!BurnedStops'
  BY <1>2 DEF AuthorityInv, Authority!BurnedStops
<1> QED
  BY <1>1, <1>3, <1>4, <1>5

LEMMA AuthorityNext == AuthorityInv /\ [Authority!Next]_(Authority!delegationVars) => AuthorityInv'
<1> SUFFICES ASSUME AuthorityInv, [Authority!Next]_(Authority!delegationVars) PROVE AuthorityInv'
  OBVIOUS
<1> USE DEF AuthorityInv
<1>1. CASE UNCHANGED Authority!delegationVars
  BY <1>1 DEF Authority!delegationVars, AuthorityTyped, Remembered, Stopped, Authority!Delegated, Authority!BurnedStops
<1>2. ASSUME NEW c \in Call, NEW p \in Authority!Presentation, Authority!Verify(c, p) PROVE AuthorityInv'
  <2> DEFINE begun == [at |-> "chain", pres |-> p, now |-> clock, live |-> p.token \notin burned]
  <2>1. call' = [call EXCEPT ![c] = begun] /\ UNCHANGED <<clock, used, burned, granted, excused>>
    BY <1>2 DEF Authority!Verify
  <2>2. begun \in Verifying
    BY DEF Verifying, AuthorityTyped
  <2>3. begun.at = "chain" /\ (~begun.live => begun.pres.token \in burned)
    OBVIOUS
  <2> HIDE DEF begun
  <2>4. AuthorityTyped'
    BY <2>1, <2>2 DEF AuthorityTyped
  <2>5. Remembered'
    BY <2>1 DEF Remembered
  <2>6. \A d \in Call : call'[d] = IF d = c THEN begun ELSE call[d]
    BY <2>1 DEF AuthorityTyped
  <2>7. Stopped'
    BY <2>1, <2>3, <2>6 DEF Stopped
  <2>8. Authority!Delegated'
    BY <2>3, <2>6 DEF Authority!Delegated
  <2>9. Authority!BurnedStops'
    BY <2>3, <2>6 DEF Authority!BurnedStops
  <2> QED
    BY <2>4, <2>5, <2>7, <2>8, <2>9
<1>3. ASSUME NEW c \in Call, Authority!CheckChain(c) PROVE AuthorityInv'
  <2> DEFINE v == call[c]
             passed == [v EXCEPT !.at = "action"]
             holds == Authority!GrantHolds(v.pres, v.now) /\ Authority!TokenHolds(v.pres, v.now) /\ v.pres.token \notin burned
  <2>1. /\ v.at = "chain"
        /\ call' = [call EXCEPT ![c] = IF holds THEN passed ELSE Authority!NoCall]
        /\ UNCHANGED <<clock, used, burned, granted, excused>>
    BY <1>3 DEF Authority!CheckChain
  <2>2. v \in Verifying
    BY <2>1 DEF AuthorityTyped, Authority!NoCall
  <2>3. Remembered'
    BY <2>1 DEF Remembered
  <2>4. CASE ~holds
    <3>1. call' = [call EXCEPT ![c] = Authority!NoCall]
      BY <2>1, <2>4
    <3>2. AuthorityTyped'
      BY <2>1, <3>1, CallEnds DEF AuthorityTyped
    <3> QED
      BY <2>1, <2>3, <3>1, <3>2, CallEnds
  <2>5. CASE holds
    <3>1. passed \in Verifying /\ passed.at = "action" /\ passed.pres = v.pres /\ passed.now = v.now /\ passed.live = v.live
      BY <2>2 DEF Verifying
    <3>2. v.live
      BY <2>1, <2>5 DEF Stopped
    <3>3. v.pres.grant \in Grant /\ v.pres.token \in Token /\ v.now \in Nat
      BY <2>2 DEF Verifying, Authority!Presentation
    <3>4. /\ v.pres.action \in v.pres.token.grant.scope \cap v.pres.token.scope
          /\ v.pres.token.grant.root = Root /\ v.pres.token.grant.by = Root
      BY <2>5 DEF Authority!GrantHolds, Authority!TokenHolds
    <3>5. v.now <= v.pres.token.grant.exp /\ v.now <= v.pres.token.exp
      BY <2>5, <3>3, ValidityAssumption DEF Authority!GrantHolds, Authority!TokenHolds
    <3>6. call' = [call EXCEPT ![c] = passed]
      BY <2>1, <2>5
    <3> HIDE DEF passed, holds
    <3>7. \A d \in Call : call'[d] = IF d = c THEN passed ELSE call[d]
      BY <3>6 DEF AuthorityTyped
    <3>8. AuthorityTyped'
      BY <2>1, <3>1, <3>6 DEF AuthorityTyped
    <3>9. Stopped'
      BY <2>1, <3>1, <3>7 DEF Stopped
    <3>10. Authority!Delegated'
      BY <3>1, <3>4, <3>5, <3>7 DEF Authority!Delegated
    <3>11. Authority!BurnedStops'
      BY <3>1, <3>2, <3>7 DEF Authority!BurnedStops
    <3> QED
      BY <2>3, <3>8, <3>9, <3>10, <3>11
  <2> QED
    BY <2>4, <2>5
<1>4. ASSUME NEW c \in Call, Authority!Authorise(c) PROVE AuthorityInv'
  <2> DEFINE v == call[c]
             pair == <<v.pres.token, v.pres.nonce>>
             after == used \cup {Entry(pair)}
             fresh == Authority!ActionHolds(v.pres) /\ ~\E e \in used : e.token = pair[1] /\ e.nonce = pair[2]
  <2>1. v.at = "action" /\ call' = [call EXCEPT ![c] = Authority!NoCall] /\ UNCHANGED <<clock, burned>>
    BY <1>4 DEF Authority!Authorise
  <2>2. pair \in Authority!Pair
    BY <2>1 DEF AuthorityTyped, Authority!NoCall, Verifying, Authority!Presentation, Authority!Pair
  <2>3. CASE ~fresh
    <3>1. UNCHANGED <<used, granted, excused>>
      BY <1>4, <2>3 DEF Authority!Authorise
    <3>2. AuthorityTyped' /\ Remembered'
      BY <2>1, <3>1, CallEnds DEF AuthorityTyped, Remembered
    <3> QED
      BY <2>1, <3>2, CallEnds
  <2>4. CASE fresh
    <3>1. /\ used' = Authority!Swept(after)
          /\ granted' = [granted EXCEPT ![pair] = @ + 1]
          /\ excused' = IF clock > pair[1].exp THEN excused \cup {pair} ELSE excused
      BY <1>4, <2>4 DEF Authority!Authorise, Authority!Consumed, Entry
    <3>2. Entry(pair) \notin used
      BY <2>2, <2>4, EntryFields
    <3> HIDE DEF pair, after, fresh, v
    <3>3. used' \subseteq {Entry(q) : q \in Authority!Pair}
      BY <2>2, <3>1, SweptWithin DEF AuthorityTyped, after
    <3>4. granted' \in [Authority!Pair -> Nat]
      BY <2>2, <3>1 DEF AuthorityTyped
    <3>5. AuthorityTyped'
      BY <2>1, <3>3, <3>4, CallEnds DEF AuthorityTyped
    <3>6. Remembered'
      <4> SUFFICES ASSUME NEW q \in Authority!Pair, q \notin excused'
                   PROVE  granted'[q] = 0 \/ (granted'[q] = 1 /\ (Entry(q) \in used' \/ clock > q[1].exp))
        BY <2>1 DEF Remembered
      <4>1. Entry(q) \in after => Entry(q) \in used' \/ clock > q[1].exp
        BY <3>1, SweptExpired, EntryFields DEF AuthorityTyped
      <4>2. CASE q = pair
        <5>1. ~(clock > pair[1].exp) /\ pair \notin excused
          BY <3>1, <4>2
        <5>2. granted[pair] = 0
          BY <2>2, <3>2, <5>1 DEF Remembered
        <5> QED
          BY <2>2, <3>1, <4>1, <4>2, <5>2 DEF AuthorityTyped, after
      <4>3. CASE q # pair
        <5>1. granted'[q] = granted[q] /\ q \notin excused
          BY <2>2, <3>1, <4>3 DEF AuthorityTyped
        <5>2. granted[q] = 0 \/ (granted[q] = 1 /\ (Entry(q) \in used \/ clock > q[1].exp))
          BY <5>1 DEF Remembered
        <5>3. Entry(q) \in used => Entry(q) \in after
          BY DEF after
        <5> QED
          BY <4>1, <5>1, <5>2, <5>3
      <4> QED
        BY <4>2, <4>3
    <3> QED
      BY <2>1, <3>5, <3>6, CallEnds
  <2> QED
    BY <2>3, <2>4
<1>5. ASSUME NEW t \in Token, Authority!Burn(t) PROVE AuthorityInv'
  BY <1>5 DEF Authority!Burn, AuthorityTyped, Remembered, Stopped, Authority!Delegated, Authority!BurnedStops
<1>6. CASE Authority!Tick
  <2>1. UNCHANGED <<used, burned, call, granted, excused>> /\ clock' = clock + 1
    BY <1>6 DEF Authority!Tick
  <2>2. AuthorityTyped' /\ Stopped' /\ Authority!Delegated' /\ Authority!BurnedStops'
    BY <2>1 DEF AuthorityTyped, Stopped, Authority!Delegated, Authority!BurnedStops
  <2>3. \A pair \in Authority!Pair : clock > pair[1].exp => clock + 1 > pair[1].exp
    BY EntryFields DEF AuthorityTyped
  <2>4. Remembered'
    BY <2>1, <2>3 DEF Remembered
  <2> QED
    BY <2>2, <2>4
<1>7. CASE Authority!Restart
  <2>1. /\ call' = [c \in Call |-> Authority!NoCall]
        /\ used' = IF durable THEN used ELSE {}
        /\ excused' = IF durable THEN excused ELSE excused \cup {pair \in Authority!Pair : granted[pair] > 0}
        /\ UNCHANGED <<clock, burned, granted>>
    BY <1>7 DEF Authority!Restart
  <2>2. AuthorityTyped'
    BY <2>1 DEF AuthorityTyped
  <2>3. Remembered'
    BY <2>1 DEF Remembered, AuthorityTyped
  <2>4. Stopped' /\ Authority!Delegated' /\ Authority!BurnedStops'
    BY <2>1 DEF Stopped, Authority!Delegated, Authority!BurnedStops, Authority!NoCall
  <2> QED
    BY <2>2, <2>3, <2>4
<1> QED
  BY <1>1, <1>2, <1>3, <1>4, <1>5, <1>6, <1>7 DEF Authority!Next

\* delegation.js: a signed action authorises once, by a chain that held when the call began, and never
\* under a token burned before it; for any grants and tokens, overlapping calls and restarts, with
\* either registry.
THEOREM AuthorisedOnceHolds == Spec => []AuthorisedOnce
<1>1. AuthorityInv => AuthorisedOnce
  <2> SUFFICES ASSUME AuthorityInv PROVE Authority!OncePerNonce /\ Authority!Delegated /\ Authority!BurnedStops
    BY DEF AuthorisedOnce
  <2>1. Authority!OncePerNonce
    BY DEF AuthorityInv, AuthorityTyped, Remembered, Authority!OncePerNonce
  <2> QED
    BY <2>1 DEF AuthorityInv
<1>2. Spec => []AuthorityInv
  BY AuthorityPart, AuthorityInit, AuthorityNext, PTL DEF Authority!DelegationSpec
<1> QED
  BY <1>1, <1>2, PTL


----------------------------------------------------------------------------
(* Contracts of the control socket                                          *)

LEMMA OpsPart == Spec => Socket!OpsSpec
<1>1. Init => Socket!OpsInit
  BY DEF Init
<1>2. [Next]_vars => [Socket!OpsNext]_(Socket!opsVars)
  BY DEF Next, vars, opsVars, Socket!opsVars
<1> QED
  BY <1>1, <1>2, PTL DEF Spec, Socket!OpsSpec

\* The blocks of a deployment and of a receipt.
Deployment(m, g) == [type |-> "contract", row |-> <<m, g>>]
Receipt(m, k) == [type |-> "state_diff", row |-> <<m, k>>]

OpsTyped ==
  /\ counter \in [Module -> [StateKey -> Nat]]
  /\ bumps \in [Module -> [StateKey -> Nat]]
  /\ unanchored \in BOOLEAN
  /\ deployRows \subseteq Module \X BOOLEAN
  /\ receiptRows \subseteq Module \X StateKey
  /\ anchoring \subseteq {Deployment(row[1], row[2]) : row \in Module \X BOOLEAN}
                  \cup {Receipt(row[1], row[2]) : row \in Module \X StateKey}
  /\ DOMAIN registry \subseteq Module
  /\ \A m \in DOMAIN registry : registry[m] \in [gated : BOOLEAN, footprint : SUBSET StateKey]

\* A contract with a block is held; one that was deployed once is held with the gate of every block
\* it has, written or on its way.
GateAgrees ==
  \A m \in Module, g \in BOOLEAN : <<m, g>> \in deployRows \/ Deployment(m, g) \in anchoring =>
    /\ m \in DOMAIN registry
    /\ m \notin redeployed => registry[m].gated = g

\* While nothing was lost, a contract that was deployed once has a block of its deployment and one of
\* every key it ever counted in, and those keys are its footprint.
BlocksAgree ==
  ~unanchored => \A m \in Module \ redeployed :
    /\ counter[m] = bumps[m]
    /\ m \in DOMAIN registry =>
         <<m, registry[m].gated>> \in deployRows \/ Deployment(m, registry[m].gated) \in anchoring
    /\ \A k \in StateKey : counter[m][k] # 0 =>
         /\ m \in DOMAIN registry /\ k \in registry[m].footprint
         /\ <<m, k>> \in receiptRows \/ Receipt(m, k) \in anchoring

OpsInv == OpsTyped /\ GateAgrees /\ BlocksAgree

LEMMA BlockFields ==
  /\ \A m, g : Deployment(m, g).type = "contract" /\ Deployment(m, g).row = <<m, g>>
  /\ \A m, k : Receipt(m, k).type = "state_diff" /\ Receipt(m, k).row = <<m, k>>
  /\ \A m, g, n, h : Deployment(m, g) = Deployment(n, h) <=> m = n /\ g = h
  /\ \A m, k, n, j : Receipt(m, k) = Receipt(n, j) <=> m = n /\ k = j
  /\ \A m, g, n, k : Deployment(m, g) # Receipt(n, k)
BY DEF Deployment, Receipt

LEMMA OpsInitial == Socket!OpsInit => OpsInv
<1> SUFFICES ASSUME Socket!OpsInit PROVE OpsInv
  OBVIOUS
<1>1. OpsTyped
  <2>1. DOMAIN registry = {}
    BY DEF Socket!OpsInit
  <2>2. counter \in [Module -> [StateKey -> Nat]] /\ bumps = counter
    BY DEF Socket!OpsInit
  <2> QED
    BY <2>1, <2>2 DEF Socket!OpsInit, OpsTyped
<1>2. GateAgrees /\ BlocksAgree
  BY DEF Socket!OpsInit, GateAgrees, BlocksAgree
<1> QED
  BY <1>1, <1>2 DEF OpsInv

LEMMA OpsNext == OpsInv /\ [Socket!OpsNext]_(Socket!opsVars) => OpsInv'
<1> SUFFICES ASSUME OpsInv, [Socket!OpsNext]_(Socket!opsVars) PROVE OpsInv'
  OBVIOUS
<1> USE DEF OpsInv
<1>1. CASE UNCHANGED Socket!opsVars
  BY <1>1 DEF Socket!opsVars, OpsTyped, GateAgrees, BlocksAgree
<1>2. ASSUME NEW m \in Module, NEW g \in BOOLEAN, Socket!Deploy(m, g) PROVE OpsInv'
  <2> DEFINE entry == [gated |-> g, footprint |-> {}]
  <2> DEFINE now == Socket!Held(m, entry)
  <2>1. /\ registry' = now
        /\ anchoring' = anchoring \cup {Deployment(m, g)}
        /\ redeployed' = IF m \in DOMAIN registry THEN redeployed \cup {m} ELSE redeployed
        /\ UNCHANGED <<deployRows, receiptRows, counter, bumps, unanchored>>
    BY <1>2 DEF Socket!Deploy, Socket!Registered, Deployment
  <2>2. entry.gated = g /\ entry.footprint = {}
    OBVIOUS
  <2>0. /\ DOMAIN now = DOMAIN registry \cup {m} /\ now[m] = entry
        /\ \A x \in DOMAIN registry : x # m => now[x] = registry[x]
    BY DEF Socket!Held
  <2>7. entry \in [gated : BOOLEAN, footprint : SUBSET StateKey]
    OBVIOUS
  <2> HIDE DEF entry, now
  <2>3. /\ DOMAIN registry' = DOMAIN registry \cup {m} /\ registry'[m] = entry
        /\ \A x \in DOMAIN registry : x # m => registry'[x] = registry[x]
    BY <2>0, <2>1
  <2>4. OpsTyped'
    <3>1. Deployment(m, g) \in {Deployment(row[1], row[2]) : row \in Module \X BOOLEAN}
      <4>1. <<m, g>> \in Module \X BOOLEAN /\ <<m, g>>[1] = m /\ <<m, g>>[2] = g
        OBVIOUS
      <4> QED
        BY <4>1
    <3> QED
      BY <2>1, <2>3, <2>7, <3>1 DEF OpsTyped
  <2>5. GateAgrees'
    BY <2>1, <2>2, <2>3, BlockFields DEF GateAgrees
  <2>6. BlocksAgree'
    BY <2>1, <2>2, <2>3, BlockFields DEF BlocksAgree
  <2> QED
    BY <2>4, <2>5, <2>6
<1>3. ASSUME NEW m \in Module, NEW k \in StateKey, Socket!SettlementSeal(m, k) PROVE OpsInv'
  BY <1>3 DEF Socket!SettlementSeal, OpsTyped, GateAgrees, BlocksAgree
<1>4. ASSUME NEW m \in Module, NEW k \in StateKey, NEW a \in BOOLEAN, Socket!CallContract(m, k, a) PROVE OpsInv'
  <2> DEFINE entry == [registry[m] EXCEPT !.footprint = @ \cup {k}]
  <2>1. /\ m \in DOMAIN registry
        /\ counter' = [counter EXCEPT ![m][k] = Socket!Read(m, k) + 1]
        /\ bumps' = [bumps EXCEPT ![m][k] = @ + 1]
        /\ registry' = [registry EXCEPT ![m].footprint = @ \cup {k}]
        /\ anchoring' = anchoring \cup {Receipt(m, k)}
        /\ UNCHANGED <<deployRows, receiptRows, redeployed, unanchored>>
    BY <1>4 DEF Socket!CallContract, Socket!Registered, Receipt
  <2>2. /\ DOMAIN registry' = DOMAIN registry
        /\ registry'[m].gated = registry[m].gated /\ registry'[m].footprint = registry[m].footprint \cup {k}
        /\ \A x \in DOMAIN registry : x # m => registry'[x] = registry[x]
        /\ \A x \in DOMAIN registry : registry'[x] \in [gated : BOOLEAN, footprint : SUBSET StateKey]
    BY <2>1 DEF OpsTyped
  <2>3. Socket!Read(m, k) \in Nat
    BY DEF Socket!Read, OpsTyped
  <2>4. OpsTyped'
    <3>1. Receipt(m, k) \in {Receipt(row[1], row[2]) : row \in Module \X StateKey}
      <4>1. <<m, k>> \in Module \X StateKey /\ <<m, k>>[1] = m /\ <<m, k>>[2] = k
        OBVIOUS
      <4> QED
        BY <4>1
    <3>2. counter' \in [Module -> [StateKey -> Nat]] /\ bumps' \in [Module -> [StateKey -> Nat]]
      BY <2>1, <2>3 DEF OpsTyped
    <3> QED
      BY <2>1, <2>2, <3>1, <3>2 DEF OpsTyped
  <2>5. GateAgrees'
    BY <2>1, <2>2, BlockFields DEF GateAgrees
  <2>6. BlocksAgree'
    <3> SUFFICES ASSUME ~unanchored, NEW n \in Module \ redeployed
                 PROVE  /\ counter'[n] = bumps'[n]
                        /\ n \in DOMAIN registry' =>
                             <<n, registry'[n].gated>> \in deployRows' \/ Deployment(n, registry'[n].gated) \in anchoring'
                        /\ \A j \in StateKey : counter'[n][j] # 0 =>
                             /\ n \in DOMAIN registry' /\ j \in registry'[n].footprint
                             /\ <<n, j>> \in receiptRows' \/ Receipt(n, j) \in anchoring'
      BY <2>1 DEF BlocksAgree
    <3>1. n \in DOMAIN registry' =>
            <<n, registry'[n].gated>> \in deployRows' \/ Deployment(n, registry'[n].gated) \in anchoring'
      BY <2>1, <2>2 DEF BlocksAgree
    <3>2. CASE n # m
      BY <2>1, <2>2, <3>1, <3>2 DEF BlocksAgree, OpsTyped
    <3>3. CASE n = m
      <4>1. Socket!Read(m, k) = counter[m][k]
        BY <3>3 DEF Socket!Read, BlocksAgree, OpsTyped
      <4>2. counter[m] = bumps[m]
        BY <3>3 DEF BlocksAgree
      <4>3. counter'[m] = bumps'[m]
        BY <2>1, <4>1, <4>2 DEF OpsTyped
      <4>4. \A j \in StateKey : j # k => counter'[m][j] = counter[m][j]
        BY <2>1 DEF OpsTyped
      <4> QED
        BY <2>1, <2>2, <3>1, <3>3, <4>3, <4>4 DEF BlocksAgree
    <3> QED
      BY <3>2, <3>3
  <2> QED
    BY <2>4, <2>5, <2>6
<1>5. ASSUME NEW b \in anchoring, NEW refused \in BOOLEAN, Socket!AnchorContractTx(b, refused) PROVE OpsInv'
  <2>1. /\ anchoring' = anchoring \ {b}
        /\ deployRows' = IF b.type = "contract" /\ ~refused THEN deployRows \cup {b.row} ELSE deployRows
        /\ receiptRows' = IF b.type = "state_diff" /\ ~refused THEN receiptRows \cup {b.row} ELSE receiptRows
        /\ unanchored' = (unanchored \/ (refused /\ ~Socket!Written(b)))
        /\ UNCHANGED <<registry, counter, bumps, redeployed>>
    BY <1>5 DEF Socket!AnchorContractTx
  <2>2. CASE \E m \in Module, g \in BOOLEAN : b = Deployment(m, g)
    <3>1. PICK m \in Module, g \in BOOLEAN : b = Deployment(m, g)
      BY <2>2
    <3>2. /\ deployRows' = IF refused THEN deployRows ELSE deployRows \cup {<<m, g>>}
          /\ receiptRows' = receiptRows
          /\ unanchored' = (unanchored \/ (refused /\ <<m, g>> \notin deployRows))
      <4>1. b.type = "contract" /\ b.row = <<m, g>>
        BY <3>1, BlockFields
      <4>2. Socket!Written(b) <=> <<m, g>> \in deployRows
        BY <4>1 DEF Socket!Written
      <4>3. unanchored' = (unanchored \/ (refused /\ <<m, g>> \notin deployRows))
        BY <2>1, <4>2, Zenon
      <4> QED
        BY <2>1, <4>1, <4>3
    <3>4. OpsTyped'
      BY <2>1, <3>2 DEF OpsTyped
    <3>5. GateAgrees'
      BY <2>1, <3>1, <3>2, BlockFields DEF GateAgrees
    <3>6. BlocksAgree'
      <4> SUFFICES ASSUME ~unanchored', NEW n \in Module \ redeployed
                   PROVE  /\ counter[n] = bumps[n]
                          /\ n \in DOMAIN registry =>
                               <<n, registry[n].gated>> \in deployRows' \/ Deployment(n, registry[n].gated) \in anchoring'
                          /\ \A j \in StateKey : counter[n][j] # 0 =>
                               /\ n \in DOMAIN registry /\ j \in registry[n].footprint
                               /\ <<n, j>> \in receiptRows' \/ Receipt(n, j) \in anchoring'
        BY <2>1 DEF BlocksAgree
      <4>1. ~unanchored
        BY <3>2
      <4>2. n \in DOMAIN registry =>
              <<n, registry[n].gated>> \in deployRows' \/ Deployment(n, registry[n].gated) \in anchoring'
        BY <2>1, <3>1, <3>2, <4>1, BlockFields DEF BlocksAgree
      <4>3. ASSUME NEW j \in StateKey, counter[n][j] # 0
            PROVE  <<n, j>> \in receiptRows' \/ Receipt(n, j) \in anchoring'
        <5>1. <<n, j>> \in receiptRows \/ Receipt(n, j) \in anchoring
          BY <4>1, <4>3 DEF BlocksAgree
        <5>2. Receipt(n, j) # b
          BY <3>1, BlockFields
        <5> QED
          BY <2>1, <3>2, <5>1, <5>2
      <4> QED
        BY <4>1, <4>2, <4>3 DEF BlocksAgree
    <3> QED
      BY <3>4, <3>5, <3>6
  <2>3. CASE \E m \in Module, k \in StateKey : b = Receipt(m, k)
    <3>1. PICK m \in Module, k \in StateKey : b = Receipt(m, k)
      BY <2>3
    <3>2. /\ receiptRows' = IF refused THEN receiptRows ELSE receiptRows \cup {<<m, k>>}
          /\ deployRows' = deployRows
          /\ unanchored' = (unanchored \/ (refused /\ <<m, k>> \notin receiptRows))
      <4>1. b.type = "state_diff" /\ b.row = <<m, k>>
        BY <3>1, BlockFields
      <4>2. Socket!Written(b) <=> <<m, k>> \in receiptRows
        BY <4>1 DEF Socket!Written
      <4>3. unanchored' = (unanchored \/ (refused /\ <<m, k>> \notin receiptRows))
        BY <2>1, <4>2, Zenon
      <4> QED
        BY <2>1, <4>1, <4>3
    <3>3. OpsTyped'
      BY <2>1, <3>2 DEF OpsTyped
    <3>4. GateAgrees'
      BY <2>1, <3>1, <3>2, BlockFields DEF GateAgrees
    <3>5. BlocksAgree'
      <4> SUFFICES ASSUME ~unanchored', NEW n \in Module \ redeployed
                   PROVE  /\ counter[n] = bumps[n]
                          /\ n \in DOMAIN registry =>
                               <<n, registry[n].gated>> \in deployRows' \/ Deployment(n, registry[n].gated) \in anchoring'
                          /\ \A j \in StateKey : counter[n][j] # 0 =>
                               /\ n \in DOMAIN registry /\ j \in registry[n].footprint
                               /\ <<n, j>> \in receiptRows' \/ Receipt(n, j) \in anchoring'
        BY <2>1 DEF BlocksAgree
      <4>1. ~unanchored
        BY <3>2
      <4>2. n \in DOMAIN registry =>
              <<n, registry[n].gated>> \in deployRows' \/ Deployment(n, registry[n].gated) \in anchoring'
        BY <2>1, <3>1, <3>2, <4>1, BlockFields DEF BlocksAgree
      <4>3. ASSUME NEW j \in StateKey, counter[n][j] # 0
            PROVE  <<n, j>> \in receiptRows' \/ Receipt(n, j) \in anchoring'
        <5>1. <<n, j>> \in receiptRows \/ Receipt(n, j) \in anchoring
          BY <4>1, <4>3 DEF BlocksAgree
        <5>2. Receipt(n, j) = b => <<n, j>> = <<m, k>> /\ (refused => <<m, k>> \in receiptRows)
          BY <3>1, <3>2, BlockFields
        <5> QED
          BY <2>1, <3>2, <5>1, <5>2
      <4> QED
        BY <4>1, <4>2, <4>3 DEF BlocksAgree
    <3> QED
      BY <3>3, <3>4, <3>5
  <2>4. (\E m \in Module, g \in BOOLEAN : b = Deployment(m, g)) \/ (\E m \in Module, k \in StateKey : b = Receipt(m, k))
    BY DEF OpsTyped
  <2> QED
    BY <2>2, <2>3, <2>4
<1>6. ASSUME NEW last \in BOOLEAN, Socket!Restart(last) PROVE OpsInv'
  <2>1. /\ registry' = [m \in {row[1] : row \in deployRows} |->
                          [gated |-> Socket!ReplayedGate(m, last), footprint |-> Socket!Footprint(m)]]
        /\ unanchored' = (unanchored \/ \E b \in anchoring : ~Socket!Written(b))
        /\ anchoring' = {}
        /\ UNCHANGED <<deployRows, receiptRows, counter, bumps, redeployed>>
    BY <1>6 DEF Socket!Restart
  <2>2. \A m \in DOMAIN registry' : /\ registry'[m].gated = Socket!ReplayedGate(m, last)
                                    /\ registry'[m].footprint = Socket!Footprint(m)
    BY <2>1
  <2>3. \A m : m \in DOMAIN registry' <=> \E g \in BOOLEAN : <<m, g>> \in deployRows
    <3>1. \A row \in deployRows : row[1] \in Module /\ row[2] \in BOOLEAN /\ row = <<row[1], row[2]>>
      BY DEF OpsTyped
    <3>2. \A m, g : <<m, g>>[1] = m
      OBVIOUS
    <3>3. DOMAIN registry' = {row[1] : row \in deployRows}
      BY <2>1
    <3>4. ASSUME NEW m, m \in DOMAIN registry' PROVE \E g \in BOOLEAN : <<m, g>> \in deployRows
      BY <3>1, <3>3, <3>4
    <3>5. ASSUME NEW m, NEW g \in BOOLEAN, <<m, g>> \in deployRows PROVE m \in DOMAIN registry'
      BY <3>2, <3>3, <3>5
    <3> QED
      BY <3>4, <3>5
  <2>4. OpsTyped'
    <3>1. DOMAIN registry' \subseteq Module
      <4> SUFFICES ASSUME NEW m \in DOMAIN registry' PROVE m \in Module
        OBVIOUS
      <4>1. PICK g \in BOOLEAN : <<m, g>> \in deployRows
        BY <2>3
      <4>2. <<m, g>> \in Module \X BOOLEAN
        BY <4>1 DEF OpsTyped
      <4> QED
        BY <4>2
    <3>2. \A m : Socket!ReplayedGate(m, last) \in BOOLEAN /\ Socket!Footprint(m) \subseteq StateKey
      BY DEF Socket!ReplayedGate, Socket!Footprint
    <3>3. unanchored' \in BOOLEAN
      BY <2>1
    <3>4. \A m \in DOMAIN registry' : registry'[m] \in [gated : BOOLEAN, footprint : SUBSET StateKey]
      BY <2>1, <3>2
    <3> QED
      BY <2>1, <3>1, <3>3, <3>4 DEF OpsTyped
  <2>5. \A m \in Module \ redeployed : m \in DOMAIN registry' =>
          m \in DOMAIN registry /\ registry'[m].gated = registry[m].gated /\ <<m, registry[m].gated>> \in deployRows
    <3> SUFFICES ASSUME NEW m \in Module \ redeployed, m \in DOMAIN registry'
                 PROVE  m \in DOMAIN registry /\ registry'[m].gated = registry[m].gated /\ <<m, registry[m].gated>> \in deployRows
      OBVIOUS
    <3>1. PICK g \in BOOLEAN : <<m, g>> \in deployRows
      BY <2>3
    <3>2. m \in DOMAIN registry /\ registry[m].gated = g
      BY <3>1 DEF GateAgrees
    <3>3. <<m, ~g>> \notin deployRows
      <4>1. (~g) \in BOOLEAN /\ (~g) # g
        OBVIOUS
      <4> QED
        BY <3>2, <4>1 DEF GateAgrees
    <3>4. Socket!ReplayedGate(m, last) = g
      <4>1. CASE last = g
        BY <3>1, <4>1 DEF Socket!ReplayedGate
      <4>2. CASE last = ~g
        BY <3>3, <4>2 DEF Socket!ReplayedGate
      <4> QED
        BY <4>1, <4>2
    <3> QED
      BY <2>2, <3>1, <3>2, <3>4
  <2>6. GateAgrees'
    BY <2>1, <2>3, <2>5, <1>6 DEF GateAgrees
  <2>7. BlocksAgree'
    <3> SUFFICES ASSUME ~unanchored', NEW m \in Module \ redeployed
                 PROVE  /\ counter'[m] = bumps'[m]
                        /\ m \in DOMAIN registry' => <<m, registry'[m].gated>> \in deployRows'
                        /\ \A k \in StateKey : counter'[m][k] # 0 =>
                             m \in DOMAIN registry' /\ k \in registry'[m].footprint /\ <<m, k>> \in receiptRows'
      BY <2>1 DEF BlocksAgree
    <3>1. ~unanchored /\ \A b \in anchoring : Socket!Written(b)
      BY <2>1
    <3>2. /\ \A g \in BOOLEAN : Deployment(m, g) \in anchoring => <<m, g>> \in deployRows
          /\ \A k \in StateKey : Receipt(m, k) \in anchoring => <<m, k>> \in receiptRows
      BY <3>1, BlockFields DEF Socket!Written
    <3>3. m \in DOMAIN registry => m \in DOMAIN registry'
      BY <2>3, <3>1, <3>2 DEF BlocksAgree, OpsTyped
    <3>4. \A k \in StateKey : counter[m][k] # 0 => m \in DOMAIN registry /\ <<m, k>> \in receiptRows
      BY <3>1, <3>2 DEF BlocksAgree
    <3>5. m \in DOMAIN registry' => <<m, registry'[m].gated>> \in deployRows
      BY <2>5
    <3>6. \A k \in StateKey : <<m, k>> \in receiptRows => k \in Socket!Footprint(m)
      BY DEF Socket!Footprint
    <3>7. counter[m] = bumps[m]
      BY <3>1 DEF BlocksAgree
    <3> QED
      BY <2>1, <2>2, <3>3, <3>4, <3>5, <3>6, <3>7
  <2> QED
    BY <2>4, <2>6, <2>7
<1> QED
  BY <1>1, <1>2, <1>3, <1>4, <1>5, <1>6 DEF Socket!OpsNext

----------------------------------------------------------------------------
(* Wiring of contracts                                                      *)

LEMMA LinksPart == Spec => Host!LinkSpec
<1>1. Init => Host!LinkInit
  BY DEF Init
<1>2. [Next]_vars => [Host!LinkNext]_(Host!linkVars)
  BY DEF Next, vars, linksVars, Host!linkVars
<1> QED
  BY <1>1, <1>2, PTL DEF Spec, Host!LinkSpec

Wired == [deployed : {TRUE}, kind : Kind, peers : Seq(Code), reads : SUBSET Host!Reads]

\* A linked peer is deployed.
PeersDeployed ==
  \A c \in Host!deployed : \A i \in 1 .. Len(contracts[c].peers) : contracts[c].peers[i] \in Host!deployed

LinksInv == contracts \in [Code -> {Host!None} \cup Wired] /\ PeersDeployed /\ Host!ReadsResolve /\ Host!SameAbi

\* A contract that is deployed is wired, and its peers are contracts.
LEMMA WiredFields ==
  ASSUME LinksInv
  PROVE  /\ Host!deployed \subseteq Code
         /\ \A c \in Host!deployed :
              /\ contracts[c] \in Wired /\ contracts[c].kind \in Kind
              /\ contracts[c].peers \in Seq(Code) /\ contracts[c].reads \subseteq Host!Reads
              /\ \A i \in 1 .. Len(contracts[c].peers) : contracts[c].peers[i] \in Code
         /\ \A c \in Code \ Host!deployed : contracts[c] = Host!None
<1>1. Host!deployed \subseteq Code /\ \A c \in Host!deployed : contracts[c] \in Wired
  BY DEF LinksInv, Host!deployed, Host!None
<1>2. \A c \in Code \ Host!deployed : contracts[c] = Host!None
  BY DEF LinksInv, Host!deployed, Wired
<1>3. ASSUME NEW c \in Host!deployed
      PROVE  /\ contracts[c].kind \in Kind /\ contracts[c].peers \in Seq(Code) /\ contracts[c].reads \subseteq Host!Reads
             /\ \A i \in 1 .. Len(contracts[c].peers) : contracts[c].peers[i] \in Code
  <2>1. contracts[c].kind \in Kind /\ contracts[c].peers \in Seq(Code) /\ contracts[c].reads \subseteq Host!Reads
    BY <1>1 DEF Wired
  <2> QED
    BY <2>1
<1> QED
  BY <1>1, <1>2, <1>3

LEMMA LinksNext == LinksInv /\ [Host!LinkNext]_(Host!linkVars) => LinksInv'
<1> SUFFICES ASSUME LinksInv, [Host!LinkNext]_(Host!linkVars) PROVE LinksInv'
  OBVIOUS
<1>1. CASE UNCHANGED Host!linkVars
  BY <1>1 DEF Host!linkVars, LinksInv, PeersDeployed, Host!deployed, Host!ReadsResolve, Host!Staged, Host!SameAbi
<1>2. ASSUME NEW c \in Code, NEW k \in Kind, Host!Deploy(c, k) PROVE LinksInv'
  <2> DEFINE entry == [deployed |-> TRUE, kind |-> k, peers |-> <<>>, reads |-> {}]
             linked == {d \in Host!deployed : \E i \in 1..Len(contracts[d].peers) : contracts[d].peers[i] = c}
  <2>1. /\ contracts' = [contracts EXCEPT ![c] = entry]
        /\ disturbed' = disturbed \cup linked /\ remade' = remade \cup linked
    BY <1>2 DEF Host!Deploy
  <2>2. entry \in Wired /\ entry.deployed /\ Len(entry.peers) = 0 /\ entry.reads = {}
    BY DEF Wired
  <2> HIDE DEF entry
  <2>3. \A d \in Code : contracts'[d] = IF d = c THEN entry ELSE contracts[d]
    BY <2>1 DEF LinksInv
  <2>4. contracts' \in [Code -> {Host!None} \cup Wired]
    BY <2>1, <2>2 DEF LinksInv
  <2>5. Host!deployed' = Host!deployed \cup {c}
    BY <2>2, <2>3 DEF Host!deployed
  <2>6. \A d \in Host!deployed' : d # c => d \in Host!deployed /\ contracts'[d] = contracts[d]
    BY <2>3, <2>5, WiredFields
  <2>7. \A d \in Host!deployed : d # c /\ d \notin linked =>
          \A i \in 1 .. Len(contracts[d].peers) :
            contracts[d].peers[i] \in Code /\ contracts[d].peers[i] # c
            /\ contracts'[contracts[d].peers[i]] = contracts[contracts[d].peers[i]]
    BY <2>3, WiredFields
  <2>8. PeersDeployed'
    BY <2>2, <2>3, <2>5, <2>6 DEF PeersDeployed, LinksInv
  <2>9. Host!ReadsResolve'
    <3> SUFFICES ASSUME NEW d \in Host!deployed', d \notin disturbed', contracts'[d].kind.wordAbi, NEW r \in contracts'[d].reads
                 PROVE  /\ r[1] < Len(contracts'[d].peers)
                        /\ r[2] < contracts'[contracts'[d].peers[r[1] + 1]].kind.fields
      BY DEF Host!ReadsResolve, Host!Staged
    <3>1. d # c /\ d \in Host!deployed /\ contracts'[d] = contracts[d]
      BY <2>2, <2>3, <2>6
    <3>2. r[1] < Len(contracts[d].peers) /\ r[2] < contracts[contracts[d].peers[r[1] + 1]].kind.fields
      BY <2>1, <3>1 DEF LinksInv, Host!ReadsResolve, Host!Staged
    <3>3. r[1] + 1 \in 1 .. Len(contracts[d].peers)
      <4>1. r[1] \in 0 .. 1 /\ contracts[d].peers \in Seq(Code)
        BY <3>1, WiredFields DEF Host!Reads
      <4> QED
        BY <3>2, <4>1
    <3> QED
      BY <2>1, <2>7, <3>1, <3>2, <3>3
  <2>10. Host!SameAbi'
    <3> SUFFICES ASSUME NEW d \in Host!deployed', d \notin remade', NEW i \in 1 .. Len(contracts'[d].peers)
                 PROVE  contracts'[contracts'[d].peers[i]].kind.wordAbi = contracts'[d].kind.wordAbi
      BY DEF Host!SameAbi
    <3>1. d # c /\ d \in Host!deployed /\ contracts'[d] = contracts[d]
      BY <2>2, <2>3, <2>6
    <3> QED
      BY <2>1, <2>7, <3>1 DEF LinksInv, Host!SameAbi
  <2> QED
    BY <2>4, <2>8, <2>9, <2>10 DEF LinksInv
<1>3. ASSUME NEW c \in Code, NEW np \in BOOLEAN, NEW nr \in BOOLEAN, NEW e \in Code, NEW r \in Host!Reads,
             Host!Link(c, np, <<e>>, nr, {r})
      PROVE  LinksInv'
  <2> DEFINE ps == IF np THEN <<e>> ELSE contracts[c].peers
             ok == contracts[c].kind.wordAbi => Host!ReadResolves(ps, r)
             reads == IF nr /\ ok THEN {r} ELSE contracts[c].reads
  <2>1. /\ c \in Host!deployed
        /\ ~(np /\ Host!PeersRefused(c, <<e>>))
        /\ contracts' = [contracts EXCEPT ![c].peers = ps, ![c].reads = reads]
        /\ disturbed' = IF nr /\ ok THEN disturbed \ {c} ELSE IF np THEN disturbed \cup {c} ELSE disturbed
        /\ remade' = IF np THEN remade \ {c} ELSE remade
    BY <1>3 DEF Host!Link
  <2>2. ps \in Seq(Code) /\ reads \subseteq Host!Reads
    BY <2>1, WiredFields
  <2>3. /\ contracts[c] \in Wired /\ contracts[c].kind \in Kind
    BY <2>1, WiredFields
  <2>4. np => contracts[e].deployed /\ contracts[e].kind.wordAbi = contracts[c].kind.wordAbi
    <3>1. Len(<<e>>) = 1 /\ <<e>>[1] = e /\ 1 \in 1 .. 1
      OBVIOUS
    <3> QED
      BY <2>1, <3>1 DEF Host!PeersRefused
  <2>5. \A i \in 1 .. Len(ps) : ps[i] \in Host!deployed
    <3>1. CASE np
      BY <2>4, <3>1 DEF Host!deployed
    <3>2. CASE ~np
      BY <2>1, <3>2 DEF LinksInv, PeersDeployed
    <3> QED
      BY <3>1, <3>2
  <2>6. /\ contracts'[c] \in Wired /\ contracts'[c].deployed
        /\ contracts'[c].kind = contracts[c].kind /\ contracts'[c].peers = ps /\ contracts'[c].reads = reads
    BY <2>1, <2>2, <2>3 DEF LinksInv, Wired
  <2>7. nr /\ ok /\ contracts[c].kind.wordAbi =>
          /\ r[1] < Len(ps) /\ r[2] < contracts[ps[r[1] + 1]].kind.fields
    BY DEF Host!ReadResolves, Host!InFields
  <2>8. \A i \in 1 .. Len(ps) : np => ps[i] = e
    OBVIOUS
  <2>9. c \in disturbed \/ (nr /\ ok) \/ np \/ (ps = contracts[c].peers /\ reads = contracts[c].reads)
    OBVIOUS
  <2>10. ps = contracts[c].peers \/ np
    OBVIOUS
  <2> DEFINE checked == nr /\ ok
  <2>11. /\ checked => reads = {r}
         /\ ~checked => reads = contracts[c].reads
         /\ disturbed' = IF checked THEN disturbed \ {c} ELSE IF np THEN disturbed \cup {c} ELSE disturbed
         /\ checked \in BOOLEAN
    BY <2>1
  <2>12. \A d \in Code : d # c => contracts'[d] = contracts[d]
    BY <2>1 DEF LinksInv
  <2>13. contracts' \in [Code -> {Host!None} \cup Wired]
    BY <2>1, <2>6, <2>12 DEF LinksInv
  <2> HIDE DEF ps, ok, reads, checked
  <2>14. \A d \in Code : contracts'[d].deployed = contracts[d].deployed /\ contracts'[d].kind = contracts[d].kind
    BY <2>1, <2>6, <2>12, WiredFields DEF Host!deployed, Wired
  <2>15. Host!deployed' = Host!deployed
    BY <2>14 DEF Host!deployed
  <2>16. PeersDeployed'
    BY <2>1, <2>5, <2>6, <2>12, <2>15, WiredFields DEF PeersDeployed, LinksInv
  <2>17. Host!ReadsResolve'
    <3> SUFFICES ASSUME NEW d \in Host!deployed', d \notin disturbed', contracts'[d].kind.wordAbi, NEW q \in contracts'[d].reads
                 PROVE  /\ q[1] < Len(contracts'[d].peers)
                        /\ q[2] < contracts'[contracts'[d].peers[q[1] + 1]].kind.fields
      BY DEF Host!ReadsResolve, Host!Staged
    <3>1. d \in Host!deployed /\ d \in Code
      BY <2>15, WiredFields
    <3>2. \A j \in 1 .. Len(contracts'[d].peers) : contracts'[d].peers[j] \in Code
      BY <2>5, <2>6, <2>12, <3>1, WiredFields
    <3>3. contracts'[d].reads \subseteq Host!Reads /\ contracts'[d].peers \in Seq(Code)
      BY <2>2, <2>6, <2>12, <3>1, WiredFields
    <3>4. q[1] < Len(contracts'[d].peers) /\ q[2] < contracts[contracts'[d].peers[q[1] + 1]].kind.fields
      <4>1. CASE d = c /\ checked
        BY <2>3, <2>6, <2>7, <2>11, <4>1 DEF checked
      <4>2. CASE d = c /\ ~checked
        <5>1. ~np /\ d \notin disturbed
          BY <2>11, <4>2
        <5> QED
          BY <2>6, <2>10, <2>11, <3>1, <4>2, <5>1 DEF LinksInv, Host!ReadsResolve, Host!Staged
      <4>3. CASE d # c
        BY <2>11, <2>12, <3>1, <4>3 DEF LinksInv, Host!ReadsResolve, Host!Staged
      <4> QED
        BY <4>1, <4>2, <4>3
    <3>5. q[1] + 1 \in 1 .. Len(contracts'[d].peers)
      BY <3>3, <3>4 DEF Host!Reads
    <3> QED
      BY <2>14, <3>2, <3>4, <3>5
  <2>18. Host!SameAbi'
    <3> SUFFICES ASSUME NEW d \in Host!deployed', d \notin remade', NEW i \in 1 .. Len(contracts'[d].peers)
                 PROVE  contracts'[contracts'[d].peers[i]].kind.wordAbi = contracts'[d].kind.wordAbi
      BY DEF Host!SameAbi
    <3>1. d \in Host!deployed /\ d \in Code /\ contracts'[d].kind = contracts[d].kind
      BY <2>14, <2>15, WiredFields
    <3>2. contracts'[d].peers[i] \in Code
      BY <2>5, <2>6, <2>12, <3>1, WiredFields
    <3>3. contracts[contracts'[d].peers[i]].kind.wordAbi = contracts[d].kind.wordAbi
      <4>1. CASE d = c /\ np
        BY <2>4, <2>6, <2>8, <4>1
      <4>2. CASE d = c /\ ~np
        BY <2>1, <2>6, <2>10, <3>1, <4>2 DEF LinksInv, Host!SameAbi
      <4>3. CASE d # c
        BY <2>1, <2>12, <3>1, <4>3 DEF LinksInv, Host!SameAbi
      <4> QED
        BY <4>1, <4>2, <4>3
    <3> QED
      BY <2>14, <3>1, <3>2, <3>3
  <2> QED
    BY <2>13, <2>16, <2>17, <2>18 DEF LinksInv
<1> QED
  BY <1>1, <1>2, <1>3 DEF Host!LinkNext

\* control-socket.js and contract-host.js: counters and gates of contracts deployed once come back, and
\* what a contract may read of a peer is there, for any modules, keys, bytes and kinds.
THEOREM ContractsSurviveHolds == Spec => []ContractsSurvive
<1>1. OpsInv => Socket!CounterSurvives
  BY DEF OpsInv, BlocksAgree, Socket!CounterSurvives
<1>2. OpsInv => Socket!GateSurvives
  <2> SUFFICES ASSUME OpsInv PROVE Socket!GateSurvives
    OBVIOUS
  <2>1. \A row \in deployRows : row[1] \in Module /\ row[2] \in BOOLEAN /\ row = <<row[1], row[2]>>
    BY DEF OpsInv, OpsTyped
  <2> QED
    BY <2>1 DEF OpsInv, GateAgrees, Socket!GateSurvives, Socket!Registered
<1>3. LinksInv => Host!LinksSound
  BY DEF LinksInv, Host!LinksSound
<1>4. Host!LinkInit => LinksInv
  BY DEF Host!LinkInit, LinksInv, PeersDeployed, Host!deployed, Host!ReadsResolve, Host!SameAbi, Host!None
<1>5. Spec => []OpsInv
  BY OpsPart, OpsInitial, OpsNext, PTL DEF Socket!OpsSpec
<1>6. Spec => []LinksInv
  BY <1>4, LinksPart, LinksNext, PTL DEF Host!LinkSpec
<1>7. OpsInv /\ LinksInv => ContractsSurvive
  BY <1>1, <1>2, <1>3 DEF ContractsSurvive
<1> QED
  BY <1>5, <1>6, <1>7, PTL


----------------------------------------------------------------------------
(* Signed transactions                                                      *)

LEMMA SignaturesPart == Spec => Signatures!SigningSpec
<1>1. Init => Signatures!Init
  BY DEF Init
<1>2. [Next]_vars => [Signatures!Next]_(Signatures!signingVars)
  BY DEF Next, vars, signingVars, Signatures!signingVars
<1> QED
  BY <1>1, <1>2, PTL DEF Spec, Signatures!SigningSpec

Messages == [from : KeyName, body : Body \cup {"probe"}]
Marks == [by : KeyName, scheme : Scheme, over : Messages]
Travelling == [from : KeyName, body : Body, publicKey : KeyName \cup {"none"}, sig : Marks]
MemoKeys == Scheme \X KeyName \X Marks \X Messages

\* The answer the primitive gives for what a key of the memo holds.
TrueAnswer(k) == Signatures!Genuine(k[4], k[3], k[2], k[1])

\* The memo holds answers of the primitive only.
MemoTrue == verifyMemo \in Seq({[key |-> k, ok |-> TrueAnswer(k)] : k \in MemoKeys})

\* What travels carries the signature it was given, which is one over its first content by the key the
\* identity holds.
SignedOnce ==
  signed # Signatures!NoSigned \/ origin # Signatures!NoSigned =>
    /\ signed \in Travelling
    /\ origin.from = signer.pub /\ origin.body \in Body
    /\ signed.sig = Signatures!Signature(signer.priv, signer.scheme, [from |-> origin.from, body |-> origin.body])

\* What the last verification and the last self-test said.
AnswersTrue ==
  /\ lastVerify.ok = lastVerify.fresh
  /\ lastVerify.ok => signed.body = origin.body /\ signed.from = origin.from
  /\ selfTest # "unknown" => (selfTest = "can" <=> signer.priv = signer.pub)

SigningInv ==
  /\ signer \in [pub : KeyName, priv : KeyName, scheme : Scheme]
  /\ MemoTrue /\ SignedOnce /\ AnswersTrue

\* What the memo answers is what the primitive answers, and it stays that way.
LEMMA MemoAnswers ==
  ASSUME MemoTrue, NEW k \in MemoKeys
  PROVE  /\ Signatures!Answer(k, TrueAnswer(k)) = TrueAnswer(k)
         /\ verifyMemo' = Signatures!Remember(k, TrueAnswer(k)) => MemoTrue'
<1> DEFINE Entries == {[key |-> q, ok |-> TrueAnswer(q)] : q \in MemoKeys}
<1>1. \A e \in Entries : e.ok = TrueAnswer(e.key)
  OBVIOUS
<1>2. verifyMemo \in Seq(Entries)
  BY DEF MemoTrue
<1>3. [key |-> k, ok |-> TrueAnswer(k)] \in Entries
  OBVIOUS
<1> DEFINE entry == [key |-> k, ok |-> TrueAnswer(k)]
<1> HIDE DEF Entries
<1>4. Signatures!Answer(k, TrueAnswer(k)) = TrueAnswer(k)
  <2>1. CASE Signatures!Known(k)
    <3> DEFINE i == CHOOSE j \in DOMAIN verifyMemo : verifyMemo[j].key = k
    <3>1. i \in DOMAIN verifyMemo /\ verifyMemo[i].key = k
      BY <2>1 DEF Signatures!Known
    <3>2. verifyMemo[i] \in Entries
      BY <1>2, <3>1
    <3> QED
      BY <1>1, <2>1, <3>1, <3>2 DEF Signatures!Answer
  <2>2. CASE ~Signatures!Known(k)
    BY <2>2 DEF Signatures!Answer
  <2> QED
    BY <2>1, <2>2
<1>5. Signatures!Remember(k, TrueAnswer(k)) \in Seq(Entries)
  <2>0. entry \in Entries
    BY <1>3
  <2> HIDE DEF entry
  <2>1. Append(verifyMemo, entry) \in Seq(Entries) /\ Len(Append(verifyMemo, entry)) > 0
    BY <1>2, <2>0
  <2>2. Tail(Append(verifyMemo, entry)) \in Seq(Entries)
    BY <2>1
  <2> QED
    BY <1>2, <2>1, <2>2 DEF Signatures!Remember, entry
<1> QED
  BY <1>4, <1>5 DEF MemoTrue, Entries

LEMMA SigningInit == Signatures!Init => SigningInv
<1> SUFFICES ASSUME Signatures!Init PROVE SigningInv
  OBVIOUS
<1>1. signer \in [pub : KeyName, priv : KeyName, scheme : Scheme]
  BY DEF Signatures!Init
<1>2. MemoTrue
  BY DEF Signatures!Init, MemoTrue
<1>3. SignedOnce /\ AnswersTrue
  BY DEF Signatures!Init, SignedOnce, AnswersTrue, Signatures!NoVerify
<1> QED
  BY <1>1, <1>2, <1>3 DEF SigningInv

LEMMA SigningNext == SigningInv /\ [Signatures!Next]_(Signatures!signingVars) => SigningInv'
<1> SUFFICES ASSUME SigningInv, [Signatures!Next]_(Signatures!signingVars) PROVE SigningInv'
  OBVIOUS
<1> USE DEF SigningInv
<1>1. CASE UNCHANGED Signatures!signingVars
  BY <1>1 DEF Signatures!signingVars, MemoTrue, SignedOnce, AnswersTrue
<1>2. ASSUME NEW b \in Body, Signatures!SignTransaction(b) PROVE SigningInv'
  <2> DEFINE content == [from |-> signer.pub, body |-> b]
             mark == [by |-> signer.priv, scheme |-> signer.scheme, over |-> content]
             made == [from |-> signer.pub, body |-> b, publicKey |-> "none", sig |-> mark]
  <2>1. /\ signed' = made /\ origin' = made
        /\ lastVerify' = Signatures!NoVerify /\ UNCHANGED <<signer, verifyMemo, selfTest>>
    BY <1>2 DEF Signatures!SignTransaction, Signatures!Signature, Signatures!signingMessage, Signatures!deriveAddress
  <2>2. content \in Messages
    BY DEF Messages
  <2> HIDE DEF content
  <2>3. mark \in Marks
    BY <2>2 DEF Marks
  <2> HIDE DEF mark
  <2>4. made \in Travelling /\ made.from = signer.pub /\ made.body = b /\ made.sig = mark
    BY <2>3 DEF Travelling
  <2> HIDE DEF made
  <2>5. SignedOnce'
    BY <2>1, <2>4 DEF SignedOnce, Signatures!Signature, mark, content
  <2>6. AnswersTrue'
    BY <2>1 DEF AnswersTrue, Signatures!NoVerify
  <2> QED
    BY <2>1, <2>5, <2>6 DEF MemoTrue
<1>3. ASSUME NEW field \in {"body", "from", "publicKey"}, NEW v \in Body \cup KeyName,
             field = "body" => v \in Body, field # "body" => v \in KeyName, Signatures!Carry(field, v)
      PROVE  SigningInv'
  <2>1. /\ signed # Signatures!NoSigned /\ signed' = [signed EXCEPT ![field] = v]
        /\ lastVerify' = Signatures!NoVerify /\ UNCHANGED <<signer, origin, verifyMemo, selfTest>>
    BY <1>3 DEF Signatures!Carry
  <2>2. signed' \in Travelling /\ signed'.sig = signed.sig
    BY <1>3, <2>1 DEF SignedOnce, Travelling
  <2>3. SignedOnce'
    BY <2>1, <2>2 DEF SignedOnce
  <2>4. AnswersTrue'
    BY <2>1 DEF AnswersTrue, Signatures!NoVerify
  <2> QED
    BY <2>1, <2>3, <2>4 DEF MemoTrue
<1>4. ASSUME NEW p \in KeyName, NEW s \in Scheme, Signatures!VerifyTransaction(p, s) PROVE SigningInv'
  <2> DEFINE m == Signatures!signingMessage(signed)
             k == <<s, p, signed.sig, m>>
             real == TrueAnswer(k)
  <2>1. real = Signatures!Genuine(m, signed.sig, p, s)
    BY DEF TrueAnswer
  <2>2. /\ signed # Signatures!NoSigned
        /\ verifyMemo' = Signatures!Remember(k, real)
        /\ lastVerify' = [ok |-> Signatures!Answer(k, real) /\ p = signed.from, fresh |-> real /\ p = signed.from]
        /\ UNCHANGED <<signer, signed, origin, selfTest>>
    BY <1>4, <2>1 DEF Signatures!VerifyTransaction, Signatures!verifyKey, Signatures!deriveAddress
  <2>3. signed \in Travelling /\ signed.sig \in Marks /\ m \in Messages
    BY <2>2 DEF SignedOnce, Travelling, Messages, Signatures!signingMessage
  <2>4. k \in MemoKeys
    BY <2>3 DEF MemoKeys
  <2>5. Signatures!Answer(k, real) = real /\ MemoTrue'
    BY <2>2, <2>4, MemoAnswers
  <2>6. real => m = [from |-> origin.from, body |-> origin.body]
    <3>1. signed.sig.over = [from |-> origin.from, body |-> origin.body]
      BY <2>2 DEF SignedOnce, Signatures!Signature
    <3>2. real => signed.sig.over = m
      BY <2>1 DEF Signatures!Genuine
    <3> QED
      BY <3>1, <3>2
  <2>7. real => signed.from = origin.from /\ signed.body = origin.body
    BY <2>6 DEF Signatures!signingMessage
  <2>8. SignedOnce'
    BY <2>2 DEF SignedOnce
  <2> HIDE DEF real, k, m
  <2>9. AnswersTrue'
    BY <2>2, <2>5, <2>7 DEF AnswersTrue
  <2> QED
    BY <2>2, <2>5, <2>8, <2>9
<1>5. CASE Signatures!VerifySigning
  <2> DEFINE probe == [from |-> signer.pub, body |-> "probe"]
             mark == Signatures!Signature(signer.priv, signer.scheme, probe)
             k == <<signer.scheme, signer.pub, mark, probe>>
             real == TrueAnswer(k)
  <2>1. real = Signatures!Genuine(probe, mark, signer.pub, signer.scheme)
    BY DEF TrueAnswer
  <2>2. /\ selfTest' = IF Signatures!Answer(k, real) THEN "can" ELSE "cannot"
        /\ verifyMemo' = Signatures!Remember(k, real)
        /\ UNCHANGED <<signer, signed, origin, lastVerify>>
    BY <1>5, <2>1 DEF Signatures!VerifySigning, Signatures!verifyKey, Signatures!deriveAddress
  <2>3. probe \in Messages
    BY DEF Messages
  <2>4. mark \in Marks
    BY <2>3 DEF Marks, Signatures!Signature
  <2>5. k \in MemoKeys
    BY <2>3, <2>4 DEF MemoKeys
  <2>6. Signatures!Answer(k, real) = real /\ MemoTrue'
    BY <2>2, <2>5, MemoAnswers
  <2>7. real <=> signer.priv = signer.pub
    BY <2>1 DEF Signatures!Genuine, Signatures!Signature
  <2>8. SignedOnce'
    BY <2>2 DEF SignedOnce
  <2> HIDE DEF real, k
  <2>9. AnswersTrue'
    BY <2>2, <2>6, <2>7 DEF AnswersTrue
  <2> QED
    BY <2>2, <2>6, <2>8, <2>9
<1> QED
  BY <1>1, <1>2, <1>3, <1>4, <1>5 DEF Signatures!Next

\* identity.js and signer.js: what is accepted is as it was signed, the self-test foretells the answer, and
\* the memo changes none, for any keys, contents, schemes and size of the memo.
THEOREM AcceptedAsSignedHolds == Spec => []AcceptedAsSigned
<1>1. SigningInv => Signatures!MemoTransparent /\ Signatures!AcceptedAsSigned
  <2> SUFFICES ASSUME SigningInv PROVE Signatures!MemoTransparent /\ Signatures!AcceptedAsSigned
    OBVIOUS
  <2>1. Signatures!MemoTransparent
    BY DEF SigningInv, AnswersTrue, Signatures!MemoTransparent
  <2>2. ASSUME origin # Signatures!NoSigned, signed.body = origin.body, signed.from = origin.from
        PROVE  Signatures!Genuine(Signatures!signingMessage(signed), signed.sig, signer.pub, signer.scheme)
                 <=> signer.priv = signer.pub
    BY <2>2 DEF SigningInv, SignedOnce, Signatures!Genuine, Signatures!Signature, Signatures!signingMessage
  <2>3. Signatures!AcceptedAsSigned
    BY <2>2 DEF SigningInv, AnswersTrue, Signatures!AcceptedAsSigned
  <2> QED
    BY <2>1, <2>3
<1>2. Spec => []SigningInv
  BY SignaturesPart, SigningInit, SigningNext, PTL DEF Signatures!SigningSpec
<1>3. SigningInv => AcceptedAsSigned
  BY <1>1 DEF AcceptedAsSigned
<1> QED
  BY <1>2, <1>3, PTL


----------------------------------------------------------------------------
(* The control socket                                                       *)

LEMMA SocketPart == Spec => Socket!CtlSpec
<1>1. Init => Socket!Init
  BY DEF Init
<1>2. [Next]_vars => [Socket!Next]_(Socket!ctlVars)
  BY DEF Next, vars, socketVars, Socket!ctlVars
<1> QED
  BY <1>1, <1>2, PTL DEF Spec, Socket!CtlSpec

Operations == {"rebuild", "apply", "evict", "backfill", "failed"}
Writes == [op : Operations, set : SUBSET Anchor, key : Operations \X SUBSET Anchor,
           at : {"begun", "reseal", "fill", "tree", "settle", "refused"}, todo : SUBSET Anchor]
Readings == [at : {"scan", "sign"}, root : SUBSET Anchor, height : Int, clean : BOOLEAN]
SignedReplies == [signed : {TRUE}, height : Int, root : SUBSET Anchor]
Repeats == [signed : {FALSE}, unchanged : Operations]

SocketTyped ==
  /\ blockRows \subseteq Anchor /\ treeKeys \subseteq Anchor /\ gone \subseteq Anchor
  /\ IsFiniteSet(blockRows)
  /\ chainCount \in Int
  /\ writing \in {Socket!NoWrite} \cup Writes
  /\ reader \in [{"client", "settle"} -> {Socket!NoReading} \cup Readings]
  /\ settledChain \in {Socket!NoChain} \cup SignedReplies
  /\ reply \in {Socket!NoChain} \cup SignedReplies \cup Repeats
  /\ leftBy \in (SUBSET Anchor) \X (SUBSET Anchor)
  /\ scanRaced \in BOOLEAN /\ threw \in BOOLEAN

\* Evicted anchors are out of the rows, and out of the tree unless the eviction has yet to get there; what a
\* rebuild has yet to write back is none of them.
Evicting == writing.op = "evict" /\ writing.at = "tree"
EvictedOut ==
  /\ gone \cap blockRows = {}
  /\ gone \cap treeKeys \subseteq (IF Evicting THEN writing.set ELSE {})
  /\ writing.op = "rebuild" /\ writing.at = "reseal" => writing.todo \cap gone = {}

\* The count of block rows is one to be taken anew, or right, or one that the write under way will drop.
Dropping == Evicting \/ (writing.op = "rebuild" /\ writing.at \in {"reseal", "fill"})
CountRight ==
  /\ ~scanRaced => \A r \in {"client", "settle"} : reader[r].at = "scan" => reader[r].height = Cardinality(blockRows)
  /\ ~scanRaced /\ ~threw => chainCount = Socket!Unknown \/ chainCount = Cardinality(blockRows) \/ Dropping

\* With no write changing them the height and the root are a pair that was held, and a reading no write
\* started under names such a pair.
PairsHeld ==
  /\ writing = Socket!NoWrite \/ writing.at = "settle" => <<Cardinality(blockRows), treeKeys>> \in heldPairs
  /\ reader["settle"] # Socket!NoReading =>
       writing # Socket!NoWrite /\ writing.at = "settle" /\ reader["settle"].clean
  /\ ~scanRaced /\ ~threw =>
       /\ \A r \in {"client", "settle"} : reader[r] # Socket!NoReading /\ reader[r].clean =>
            <<reader[r].height, reader[r].root>> \in heldPairs
       /\ settledChain.signed => <<settledChain.height, settledChain.root>> \in heldPairs
       /\ reply.signed => <<reply.height, reply.root>> \in heldPairs

\* Since the last write that is remembered only admissions happened, and they only added rows.
LeftThere ==
  /\ writing # Socket!NoWrite => lastApplied = Socket!NoWrite /\ "unchanged" \notin DOMAIN reply
  /\ lastApplied # Socket!NoWrite =>
       lastApplied.held = Cardinality(leftBy[1]) /\ lastApplied.root = leftBy[2] /\ leftBy[1] \subseteq blockRows
  /\ Socket!UnchangedIsTrue

SocketInv == SocketTyped /\ EvictedOut /\ CountRight /\ PairsHeld /\ LeftThere

\* What tells the kinds of a record apart.
LEMMA SocketKinds ==
  /\ \A w \in Writes : w # Socket!NoWrite /\ w.op # "none"
  /\ Socket!NoWrite.op = "none"
  /\ \A w \in Readings : w # Socket!NoReading /\ w.at # "idle"
  /\ Socket!NoReading.at = "idle"
  /\ \A w \in SignedReplies : w.signed /\ "unchanged" \notin DOMAIN w
  /\ \A w \in Repeats : ~w.signed
  /\ ~Socket!NoChain.signed /\ "unchanged" \notin DOMAIN Socket!NoChain
<1>1. Socket!NoWrite.op = "none" /\ \A w \in Writes : w.op # "none"
  BY DEF Writes, Operations, Socket!NoWrite
<1>2. Socket!NoReading.at = "idle" /\ \A w \in Readings : w.at # "idle"
  BY DEF Readings, Socket!NoReading
<1>3. \A w \in SignedReplies : w.signed /\ DOMAIN w = {"signed", "height", "root"}
  BY DEF SignedReplies
<1>4. \A w \in Repeats : ~w.signed
  BY DEF Repeats
<1>5. ~Socket!NoChain.signed /\ DOMAIN Socket!NoChain = {"signed"}
  BY DEF Socket!NoChain
<1> QED
  BY <1>1, <1>2, <1>3, <1>4, <1>5

\* The socket's cardinality is the one of the theorems.
LEMMA SameCardinality == \A S : Socket!Cardinality(S) = Cardinality(S)
BY DEF Cardinality, Socket!Cardinality

LEMMA SocketInitial == Socket!Init => SocketInv
<1> SUFFICES ASSUME Socket!Init PROVE SocketInv
  OBVIOUS
<1> USE DEF Socket!Init
<1>1. IsFiniteSet({}) /\ Cardinality({}) = 0
  BY FS_EmptySet
<1>2. SocketTyped
  <2>1. reader \in [{"client", "settle"} -> {Socket!NoReading} \cup Readings]
    OBVIOUS
  <2>2. chainCount \in Int
    BY DEF Socket!Unknown
  <2>3. blockRows = {} /\ IsFiniteSet(blockRows)
    BY <1>1
  <2> QED
    BY <2>1, <2>2, <2>3 DEF SocketTyped
<1>3. writing.op = "none" /\ ~settledChain.signed /\ ~reply.signed /\ "unchanged" \notin DOMAIN reply
  BY SocketKinds
<1>4. \A r \in {"client", "settle"} : reader[r] = Socket!NoReading /\ reader[r].at = "idle"
  BY SocketKinds
<1>5. EvictedOut
  BY <1>3 DEF EvictedOut, Evicting
<1>6. CountRight
  BY <1>4 DEF CountRight, Socket!Unknown
<1>7. PairsHeld
  BY <1>1, <1>3, <1>4 DEF PairsHeld
<1>8. LeftThere
  BY <1>3 DEF LeftThere, Socket!UnchangedIsTrue
<1> QED
  BY <1>2, <1>5, <1>6, <1>7, <1>8 DEF SocketInv

\* The steps that leave the rows, the readings, the count and the answers alone keep what is said of those.
LEMMA OnlyStage ==
  ASSUME SocketInv, NEW w \in Writes, writing \in Writes, writing' = w,
         UNCHANGED <<blockRows, gone, chainCount, lastApplied, reader, settledChain, reply, leftBy, scanRaced, threw>>,
         heldPairs \subseteq heldPairs', treeKeys' \subseteq Anchor,
         w.at # "settle", reader["settle"] = Socket!NoReading,
         Dropping => Dropping'
  PROVE  SocketTyped' /\ CountRight' /\ PairsHeld' /\ LeftThere'
<1> USE DEF SocketInv
<1>1. writing # Socket!NoWrite /\ w # Socket!NoWrite
  BY SocketKinds
<1>2. SocketTyped'
  BY DEF SocketTyped
<1>3. CountRight'
  BY DEF CountRight
<1>4. PairsHeld'
  BY <1>1 DEF PairsHeld
<1>5. LeftThere'
  BY <1>1 DEF LeftThere, Socket!UnchangedIsTrue
<1> QED
  BY <1>2, <1>3, <1>4, <1>5

\* A write that is under way: its fields, and what is not going on beside it.
LEMMA WriteFields ==
  ASSUME SocketInv, writing.op # "none"
  PROVE  /\ writing \in Writes /\ writing # Socket!NoWrite
         /\ writing.set \subseteq Anchor /\ writing.todo \subseteq Anchor
         /\ lastApplied = Socket!NoWrite /\ "unchanged" \notin DOMAIN reply
         /\ writing.at # "settle" => reader["settle"] = Socket!NoReading
<1>1. writing \in Writes /\ writing # Socket!NoWrite
  BY SocketKinds DEF SocketInv, SocketTyped
<1>2. writing.set \subseteq Anchor /\ writing.todo \subseteq Anchor
  BY <1>1 DEF Writes
<1> QED
  BY <1>1, <1>2 DEF SocketInv, PairsHeld, LeftThere

LEMMA BeginStep ==
  ASSUME SocketInv, NEW op \in Operations, NEW S \in SUBSET Anchor, Socket!Begin(op, S)
  PROVE  SocketInv'
<1> USE DEF SocketInv
<1> DEFINE key == Socket!writeKey(op, S)
<1>1. /\ writing = Socket!NoWrite
      /\ UNCHANGED <<blockRows, treeKeys, gone, chainCount, settledChain, leftBy, heldPairs, scanRaced, threw>>
  BY DEF Socket!Begin
<1>2. writing.op = "none" /\ reader["settle"] = Socket!NoReading
  BY <1>1, SocketKinds DEF PairsHeld
<1>3. CASE Socket!SameAsApplied(key)
  <2> DEFINE answer == [signed |-> FALSE, unchanged |-> op]
  <2>1. reply' = answer /\ UNCHANGED <<writing, lastApplied, reader>>
    BY <1>3 DEF Socket!Begin
  <2>2. answer \in Repeats /\ ~answer.signed
    BY DEF Repeats
  <2>3. lastApplied # Socket!NoWrite /\ lastApplied.held = Cardinality(blockRows) /\ lastApplied.root = treeKeys
    <3> DEFINE applied(k, h, t) == [key |-> k, held |-> h, root |-> t]
    <3>1. \A k, h, t : applied(k, h, t).held = h /\ applied(k, h, t).root = t
      OBVIOUS
    <3>2. lastApplied # Socket!NoWrite /\ lastApplied = applied(key, Cardinality(blockRows), treeKeys)
      BY <1>3, SameCardinality DEF Socket!SameAsApplied, Socket!Height
    <3> HIDE DEF applied, key
    <3> QED
      BY <3>1, <3>2
  <2>4. leftBy[1] = blockRows /\ leftBy[2] = treeKeys
    <3>1. IsFiniteSet(blockRows) /\ leftBy[1] \in SUBSET blockRows /\ Cardinality(leftBy[1]) = Cardinality(blockRows)
      BY <2>3 DEF LeftThere, SocketTyped
    <3> QED
      BY <2>3, <3>1, FS_Subset DEF LeftThere
  <2>5. <<blockRows, treeKeys>> = leftBy
    BY <2>4 DEF SocketTyped
  <2> HIDE DEF answer
  <2>6. SocketTyped'
    BY <1>1, <2>1, <2>2 DEF SocketTyped
  <2>7. EvictedOut' /\ CountRight'
    BY <1>1, <2>1 DEF EvictedOut, CountRight, Evicting, Dropping
  <2>8. PairsHeld'
    BY <1>1, <2>1, <2>2 DEF PairsHeld
  <2>9. LeftThere'
    BY <1>1, <2>1, <2>5 DEF LeftThere, Socket!UnchangedIsTrue
  <2> QED
    BY <2>6, <2>7, <2>8, <2>9
<1>4. CASE ~Socket!SameAsApplied(key)
  <2> DEFINE w == [op |-> op, set |-> S, key |-> key, at |-> "begun", todo |-> {}]
  <2>1. /\ lastApplied' = Socket!NoWrite /\ writing' = w
        /\ reader' = Socket!Spanned /\ reply' = Socket!NoChain
    BY <1>4 DEF Socket!Begin
  <2>2. key \in Operations \X SUBSET Anchor
    BY DEF Socket!writeKey, Socket!dropEvicted
  <2> HIDE DEF key
  <2>3. w \in Writes /\ w.op = op /\ w.at = "begun"
    BY <2>2 DEF Writes
  <2> HIDE DEF w
  <2>4. \A r \in {"client", "settle"} :
          /\ reader[r] = Socket!NoReading => reader'[r] = Socket!NoReading
          /\ reader[r] # Socket!NoReading => /\ reader'[r] \in Readings /\ ~reader'[r].clean
                                             /\ reader'[r].at = reader[r].at /\ reader'[r].height = reader[r].height
    BY <2>1 DEF SocketTyped, Socket!Spanned, Readings
  <2>5. reader' \in [{"client", "settle"} -> {Socket!NoReading} \cup Readings]
    <3>1. DOMAIN reader = {"client", "settle"}
      BY DEF SocketTyped
    <3>2. reader' = [r \in {"client", "settle"} |-> reader'[r]]
      BY <2>1, <3>1 DEF Socket!Spanned
    <3> QED
      BY <2>4, <3>2
  <2>6. SocketTyped'
    BY <1>1, <2>1, <2>3, <2>5 DEF SocketTyped
  <2>7. EvictedOut'
    BY <1>1, <1>2, <2>1, <2>3 DEF EvictedOut, Evicting
  <2>8. CountRight'
    BY <1>1, <1>2, <2>4 DEF CountRight, Evicting, Dropping, SocketTyped
  <2>9. PairsHeld'
    BY <1>1, <1>2, <2>1, <2>3, <2>4, SocketKinds DEF PairsHeld
  <2>10. LeftThere'
    BY <1>1, <2>1, SocketKinds DEF LeftThere, Socket!UnchangedIsTrue
  <2> QED
    BY <2>6, <2>7, <2>8, <2>9, <2>10
<1> QED
  BY <1>3, <1>4

\* A step that changes the rows makes a count under way one that raced.
LEMMA Raced ==
  ASSUME Socket!ScanRace, SocketTyped
  PROVE  /\ scanRaced => scanRaced'
         /\ scanRaced' \in BOOLEAN
         /\ blockRows' # blockRows /\ ~scanRaced' => \A r \in {"client", "settle"} : reader[r].at # "scan"
<1>1. DOMAIN reader = {"client", "settle"}
  BY DEF SocketTyped
<1>2. scanRaced' <=> (scanRaced \/ (blockRows' # blockRows /\ \E r \in DOMAIN reader : reader[r].at = "scan"))
  BY DEF Socket!ScanRace
<1>3. scanRaced' \in BOOLEAN
  BY DEF Socket!ScanRace
<1> QED
  BY <1>1, <1>2, <1>3

\* The stage of a write that changes rows: the count it leaves is the one it will drop.
LEMMA RowsStage ==
  ASSUME SocketInv, NEW w \in Writes, writing \in Writes, writing' = w, Socket!ScanRace,
         UNCHANGED <<treeKeys, lastApplied, reader, settledChain, reply, leftBy, heldPairs, threw>>,
         blockRows' \subseteq Anchor, IsFiniteSet(blockRows'), chainCount' \in Int, gone' \subseteq Anchor,
         w.at # "settle", writing.at # "settle", Dropping' \/ (UNCHANGED <<blockRows, chainCount>> /\ ~Dropping)
  PROVE  SocketTyped' /\ CountRight' /\ PairsHeld' /\ LeftThere'
<1> USE DEF SocketInv
<1>1. writing # Socket!NoWrite /\ w # Socket!NoWrite
  BY SocketKinds
<1>2. (scanRaced => scanRaced') /\ scanRaced' \in BOOLEAN
  BY Raced
<1>3. SocketTyped'
  BY <1>2 DEF SocketTyped
<1>4. CountRight'
  <2>1. ~scanRaced' => \A r \in {"client", "settle"} : reader[r].at = "scan" => reader[r].height = Cardinality(blockRows')
    BY <1>2, Raced DEF CountRight
  <2>2. ~scanRaced' /\ ~threw' => chainCount' = Socket!Unknown \/ chainCount' = Cardinality(blockRows') \/ Dropping'
    BY <1>2 DEF CountRight
  <2> QED
    BY <2>1, <2>2 DEF CountRight
<1>5. PairsHeld'
  BY <1>1, <1>2 DEF PairsHeld
<1>6. LeftThere'
  BY <1>1 DEF LeftThere, Socket!UnchangedIsTrue
<1> QED
  BY <1>3, <1>4, <1>5, <1>6

LEMMA WipeStep == ASSUME SocketInv, Socket!Wipe PROVE SocketInv'
<1> USE DEF SocketInv
<1>1. /\ writing.op = "rebuild" /\ writing.at = "begun"
      /\ Socket!ScanRace
      /\ UNCHANGED <<treeKeys, gone, chainCount, lastApplied, reader, settledChain, reply, leftBy, heldPairs, threw>>
  BY DEF Socket!Wipe
<1>2. writing \in Writes /\ writing.set \subseteq Anchor
  BY <1>1, WriteFields
<1>3. CASE blockRows' = blockRows /\ writing' = [writing EXCEPT !.at = "refused"]
  <2>1. writing' \in Writes /\ writing'.op = "rebuild" /\ writing'.at = "refused"
    BY <1>1, <1>2, <1>3 DEF Writes
  <2>2. SocketTyped' /\ CountRight' /\ PairsHeld' /\ LeftThere'
    BY <1>1, <1>2, <1>3, <2>1, RowsStage DEF SocketTyped, Dropping, Evicting
  <2>3. EvictedOut'
    BY <1>1, <1>3, <2>1 DEF EvictedOut, Evicting
  <2> QED
    BY <2>2, <2>3
<1>4. CASE blockRows' = {} /\ writing' = [writing EXCEPT !.at = "reseal", !.todo = writing.set \ gone]
  <2>1. writing' \in Writes /\ writing'.op = "rebuild" /\ writing'.at = "reseal" /\ writing'.todo = writing.set \ gone
    BY <1>1, <1>2, <1>4 DEF Writes
  <2>2. SocketTyped' /\ CountRight' /\ PairsHeld' /\ LeftThere'
    BY <1>1, <1>2, <1>4, <2>1, RowsStage, FS_EmptySet DEF SocketTyped, Dropping
  <2>3. EvictedOut'
    BY <1>1, <1>4, <2>1 DEF EvictedOut, Evicting
  <2> QED
    BY <2>2, <2>3
<1> QED
  BY <1>3, <1>4 DEF Socket!Wipe, Socket!Step

LEMMA ResealStep == ASSUME SocketInv, NEW a \in Anchor, Socket!Reseal(a) PROVE SocketInv'
<1> USE DEF SocketInv
<1>1. /\ writing.op = "rebuild" /\ writing.at = "reseal" /\ a \in writing.todo
      /\ blockRows' = blockRows \cup {a}
      /\ chainCount' = IF a \in blockRows THEN chainCount ELSE Socket!Bumped
      /\ writing' = [writing EXCEPT !.todo = @ \ {a}]
      /\ Socket!ScanRace
      /\ UNCHANGED <<treeKeys, gone, lastApplied, reader, settledChain, reply, leftBy, heldPairs, threw>>
  BY DEF Socket!Reseal, Socket!Step
<1>2. writing \in Writes
  BY <1>1, WriteFields
<1>3. writing' \in Writes /\ writing'.op = "rebuild" /\ writing'.at = "reseal" /\ writing'.todo = writing.todo \ {a}
  BY <1>1, <1>2 DEF Writes
<1>4. IsFiniteSet(blockRows') /\ blockRows' \subseteq Anchor
  BY <1>1, FS_AddElement DEF SocketTyped
<1>5. chainCount' \in Int
  BY <1>1 DEF SocketTyped, Socket!Bumped, Socket!Unknown
<1>6. SocketTyped' /\ CountRight' /\ PairsHeld' /\ LeftThere'
  BY <1>1, <1>2, <1>3, <1>4, <1>5, RowsStage DEF SocketTyped, Dropping
<1>7. EvictedOut'
  BY <1>1, <1>3 DEF EvictedOut, Evicting
<1> QED
  BY <1>6, <1>7

LEMMA EvictLedgerStep == ASSUME SocketInv, Socket!EvictLedger PROVE SocketInv'
<1> USE DEF SocketInv
<1>1. /\ writing.op = "evict" /\ writing.at = "begun"
      /\ gone' = gone \cup writing.set /\ blockRows' = blockRows \ writing.set
      /\ writing' = [writing EXCEPT !.at = "tree"]
      /\ Socket!ScanRace
      /\ UNCHANGED <<treeKeys, chainCount, lastApplied, reader, settledChain, reply, leftBy, heldPairs, threw>>
  BY DEF Socket!EvictLedger, Socket!Step
<1>2. writing \in Writes /\ writing.set \subseteq Anchor
  BY <1>1, WriteFields
<1>3. writing' \in Writes /\ writing'.op = "evict" /\ writing'.at = "tree" /\ writing'.set = writing.set
  BY <1>1, <1>2 DEF Writes
<1>4. IsFiniteSet(blockRows') /\ blockRows' \subseteq Anchor /\ gone' \subseteq Anchor
  BY <1>1, <1>2, FS_Difference DEF SocketTyped
<1>5. SocketTyped' /\ CountRight' /\ PairsHeld' /\ LeftThere'
  BY <1>1, <1>2, <1>3, <1>4, RowsStage DEF SocketTyped, Dropping, Evicting
<1>6. EvictedOut'
  BY <1>1, <1>3 DEF EvictedOut, Evicting
<1> QED
  BY <1>5, <1>6

LEMMA ClearTreeStep == ASSUME SocketInv, Socket!ClearTree PROVE SocketInv'
<1> USE DEF SocketInv
<1>1. /\ \/ writing.op = "rebuild" /\ writing.at = "reseal"
         \/ writing.op = "apply" /\ writing.at = "begun"
      /\ treeKeys' = {} /\ writing' = [writing EXCEPT !.at = "fill"]
      /\ UNCHANGED <<blockRows, gone, chainCount, lastApplied, reader, settledChain, reply, leftBy, heldPairs, scanRaced, threw>>
  BY DEF Socket!ClearTree, Socket!Step
<1>2. writing \in Writes /\ reader["settle"] = Socket!NoReading
  BY <1>1, WriteFields
<1>3. writing' \in Writes /\ writing'.op = writing.op /\ writing'.at = "fill"
  BY <1>1, <1>2 DEF Writes
<1>4. SocketTyped' /\ CountRight' /\ PairsHeld' /\ LeftThere'
  BY <1>1, <1>2, <1>3, OnlyStage DEF Dropping, Evicting
<1>5. EvictedOut'
  BY <1>1, <1>3 DEF EvictedOut, Evicting
<1> QED
  BY <1>4, <1>5

\* The step that ends what a write changes: from there on the height and the root are held together.
LEMMA SettleStage ==
  ASSUME SocketInv, NEW w \in Writes, writing.op # "none", writing.at # "settle", writing' = w, w.at = "settle",
         UNCHANGED <<blockRows, gone, lastApplied, reader, settledChain, reply, leftBy, scanRaced>>,
         treeKeys' \subseteq Anchor, chainCount' \in Int,
         heldPairs' = heldPairs \cup {<<Cardinality(blockRows), treeKeys'>>},
         threw => threw', threw' \in BOOLEAN,
         ~scanRaced /\ ~threw' => (chainCount' = Socket!Unknown \/ chainCount' = Cardinality(blockRows))
  PROVE  SocketTyped' /\ CountRight' /\ PairsHeld' /\ LeftThere'
<1> USE DEF SocketInv
<1>1. /\ w # Socket!NoWrite /\ writing # Socket!NoWrite /\ reader["settle"] = Socket!NoReading
      /\ lastApplied = Socket!NoWrite /\ "unchanged" \notin DOMAIN reply
  BY WriteFields, SocketKinds
<1>2. SocketTyped'
  BY DEF SocketTyped
<1>3. CountRight'
  BY DEF CountRight
<1>4. PairsHeld'
  BY <1>1 DEF PairsHeld
<1>5. LeftThere'
  BY <1>1 DEF LeftThere, Socket!UnchangedIsTrue
<1> QED
  BY <1>2, <1>3, <1>4, <1>5

LEMMA ThrowStep == ASSUME SocketInv, Socket!Throw PROVE SocketInv'
<1> USE DEF SocketInv
<1>1. /\ writing.op = "rebuild" /\ writing.at = "reseal"
      /\ writing' = [writing EXCEPT !.at = "settle", !.op = "failed"] /\ threw' = TRUE
      /\ heldPairs' = heldPairs \cup {<<Cardinality(blockRows), treeKeys>>}
      /\ UNCHANGED <<blockRows, treeKeys, gone, chainCount, lastApplied, reader, settledChain, reply, leftBy, scanRaced>>
  BY SameCardinality DEF Socket!Throw, Socket!Step, Socket!Settled
<1>2. writing \in Writes
  BY <1>1, WriteFields
<1>3. writing' \in Writes /\ writing'.op = "failed" /\ writing'.at = "settle"
  BY <1>1, <1>2 DEF Writes, Operations
<1>4. SocketTyped' /\ CountRight' /\ PairsHeld' /\ LeftThere'
  BY <1>1, <1>3, SettleStage DEF SocketTyped
<1>5. EvictedOut'
  BY <1>1, <1>3 DEF EvictedOut, Evicting
<1> QED
  BY <1>4, <1>5

LEMMA FillTreeStep == ASSUME SocketInv, Socket!FillTree PROVE SocketInv'
<1> USE DEF SocketInv
<1>1. /\ writing.op \in {"rebuild", "apply"} /\ writing.at = "fill"
      /\ treeKeys' = treeKeys \cup (writing.set \ gone)
      /\ chainCount' = IF writing.op = "rebuild" THEN Socket!Unknown ELSE chainCount
      /\ writing' = [writing EXCEPT !.at = "settle"]
      /\ heldPairs' = heldPairs \cup {<<Cardinality(blockRows), treeKeys'>>}
      /\ UNCHANGED <<blockRows, gone, lastApplied, reader, settledChain, reply, leftBy, scanRaced, threw>>
  BY SameCardinality DEF Socket!FillTree, Socket!Step, Socket!Settled, Socket!dropEvicted
<1>2. writing \in Writes /\ writing.set \subseteq Anchor
  BY <1>1, WriteFields
<1>3. writing' \in Writes /\ writing'.op = writing.op /\ writing'.at = "settle"
  BY <1>1, <1>2 DEF Writes
<1>4. treeKeys' \subseteq Anchor /\ chainCount' \in Int
  BY <1>1, <1>2 DEF SocketTyped, Socket!Unknown
<1>5. ~scanRaced /\ ~threw' => (chainCount' = Socket!Unknown \/ chainCount' = Cardinality(blockRows))
  BY <1>1 DEF CountRight, Dropping, Evicting
<1>6. threw' \in BOOLEAN
  BY <1>1 DEF SocketTyped
<1>7. SocketTyped' /\ CountRight' /\ PairsHeld' /\ LeftThere'
  BY <1>1, <1>3, <1>4, <1>5, <1>6, SettleStage
<1>8. EvictedOut'
  BY <1>1, <1>3 DEF EvictedOut, Evicting
<1> QED
  BY <1>7, <1>8

LEMMA BackfillStep == ASSUME SocketInv, Socket!Backfill PROVE SocketInv'
<1> USE DEF SocketInv
<1>1. /\ writing.op = "backfill" /\ writing.at = "begun"
      /\ treeKeys' = treeKeys \cup blockRows
      /\ writing' = [writing EXCEPT !.at = "settle"]
      /\ heldPairs' = heldPairs \cup {<<Cardinality(blockRows), treeKeys'>>}
      /\ UNCHANGED <<blockRows, gone, chainCount, lastApplied, reader, settledChain, reply, leftBy, scanRaced, threw>>
  BY SameCardinality DEF Socket!Backfill, Socket!Step, Socket!Settled
<1>2. writing \in Writes
  BY <1>1, WriteFields
<1>3. writing' \in Writes /\ writing'.op = "backfill" /\ writing'.at = "settle"
  BY <1>1, <1>2 DEF Writes
<1>4. treeKeys' \subseteq Anchor /\ chainCount' \in Int /\ threw' \in BOOLEAN
  BY <1>1 DEF SocketTyped
<1>5. ~scanRaced /\ ~threw' => (chainCount' = Socket!Unknown \/ chainCount' = Cardinality(blockRows))
  BY <1>1 DEF CountRight, Dropping, Evicting
<1>6. SocketTyped' /\ CountRight' /\ PairsHeld' /\ LeftThere'
  BY <1>1, <1>3, <1>4, <1>5, SettleStage
<1>7. EvictedOut'
  BY <1>1, <1>3 DEF EvictedOut, Evicting
<1> QED
  BY <1>6, <1>7

LEMMA EvictTreeStep == ASSUME SocketInv, Socket!EvictTree PROVE SocketInv'
<1> USE DEF SocketInv
<1>1. /\ writing.op = "evict" /\ writing.at = "tree"
      /\ treeKeys' = treeKeys \ writing.set /\ chainCount' = Socket!Unknown
      /\ writing' = [writing EXCEPT !.at = "settle"]
      /\ heldPairs' = heldPairs \cup {<<Cardinality(blockRows), treeKeys'>>}
      /\ UNCHANGED <<blockRows, gone, lastApplied, reader, settledChain, reply, leftBy, scanRaced, threw>>
  BY SameCardinality DEF Socket!EvictTree, Socket!Step, Socket!Settled, Socket!DropCount
<1>2. writing \in Writes
  BY <1>1, WriteFields
<1>3. writing' \in Writes /\ writing'.op = "evict" /\ writing'.at = "settle"
  BY <1>1, <1>2 DEF Writes
<1>4. treeKeys' \subseteq Anchor /\ chainCount' \in Int /\ threw' \in BOOLEAN
  BY <1>1 DEF SocketTyped, Socket!Unknown
<1>5. SocketTyped' /\ CountRight' /\ PairsHeld' /\ LeftThere'
  BY <1>1, <1>3, <1>4, SettleStage
<1>6. EvictedOut'
  BY <1>1, <1>3 DEF EvictedOut, Evicting
<1> QED
  BY <1>5, <1>6

LEMMA ReadChainStep == ASSUME SocketInv, NEW r \in {"client", "settle"}, Socket!ReadChain(r) PROVE SocketInv'
<1> USE DEF SocketInv
<1> DEFINE read == [at |-> IF chainCount = Socket!Unknown THEN "scan" ELSE "sign", root |-> treeKeys,
                    height |-> IF chainCount = Socket!Unknown THEN Cardinality(blockRows) ELSE chainCount,
                    clean |-> r = "settle" \/ writing = Socket!NoWrite]
<1>1. /\ reader' = [reader EXCEPT ![r] = read]
      /\ r = "settle" => writing # Socket!NoWrite /\ writing.at = "settle"
      /\ UNCHANGED <<blockRows, treeKeys, gone, chainCount, writing, lastApplied, settledChain, reply, leftBy,
                     heldPairs, scanRaced, threw>>
  BY SameCardinality DEF Socket!ReadChain, Socket!Height
<1>2. Cardinality(blockRows) \in Int
  BY FS_CardinalityType DEF SocketTyped
<1>3. read \in Readings
  BY <1>2 DEF SocketTyped, Readings
<1>4. read.at = "scan" => read.height = Cardinality(blockRows)
  OBVIOUS
<1>5. read.clean => (r = "settle" \/ writing = Socket!NoWrite)
  OBVIOUS
<1>6. r = "settle" => read.clean
  OBVIOUS
<1>7. ~scanRaced /\ ~threw /\ read.clean => <<read.height, read.root>> \in heldPairs
  <2> SUFFICES ASSUME ~scanRaced, ~threw, read.clean PROVE <<read.height, read.root>> \in heldPairs
    OBVIOUS
  <2>1. writing = Socket!NoWrite \/ writing.at = "settle"
    BY <1>1, <1>5
  <2>2. ~Dropping
    BY <2>1, SocketKinds DEF Dropping, Evicting
  <2>3. read.height = Cardinality(blockRows) /\ read.root = treeKeys
    BY <2>2 DEF CountRight
  <2> HIDE DEF read
  <2> QED
    BY <2>1, <2>3 DEF PairsHeld
<1> HIDE DEF read
<1>8. /\ reader' \in [{"client", "settle"} -> {Socket!NoReading} \cup Readings]
      /\ reader'[r] = read /\ \A q \in {"client", "settle"} \ {r} : reader'[q] = reader[q]
  BY <1>1, <1>3 DEF SocketTyped
<1>9. SocketTyped'
  BY <1>1, <1>8 DEF SocketTyped
<1>10. EvictedOut'
  BY <1>1 DEF EvictedOut, Evicting
<1>11. CountRight'
  BY <1>1, <1>4, <1>8 DEF CountRight, Dropping, Evicting
<1>12. PairsHeld'
  BY <1>1, <1>6, <1>7, <1>8 DEF PairsHeld
<1>13. LeftThere'
  BY <1>1 DEF LeftThere, Socket!UnchangedIsTrue
<1> QED
  BY <1>9, <1>10, <1>11, <1>12, <1>13

LEMMA ScannedStep == ASSUME SocketInv, NEW r \in {"client", "settle"}, Socket!Scanned(r) PROVE SocketInv'
<1> USE DEF SocketInv
<1>1. /\ reader[r].at = "scan" /\ chainCount' = reader[r].height
      /\ reader' = [reader EXCEPT ![r].at = "sign"]
      /\ UNCHANGED <<blockRows, treeKeys, gone, writing, lastApplied, settledChain, reply, leftBy, heldPairs,
                     scanRaced, threw>>
  BY DEF Socket!Scanned
<1>2. reader[r] \in Readings /\ reader[r] # Socket!NoReading
  BY <1>1, SocketKinds DEF SocketTyped
<1>3. /\ reader'[r] \in Readings /\ reader'[r].at = "sign" /\ reader'[r].height = reader[r].height
      /\ reader'[r].root = reader[r].root /\ reader'[r].clean = reader[r].clean
      /\ \A q \in {"client", "settle"} \ {r} : reader'[q] = reader[q]
      /\ reader' \in [{"client", "settle"} -> {Socket!NoReading} \cup Readings]
  BY <1>1, <1>2 DEF SocketTyped, Readings
<1>4. chainCount' \in Int
  BY <1>1, <1>2 DEF Readings
<1>5. SocketTyped'
  BY <1>1, <1>3, <1>4 DEF SocketTyped
<1>6. EvictedOut'
  BY <1>1 DEF EvictedOut, Evicting
<1>7. CountRight'
  BY <1>1, <1>3 DEF CountRight, Dropping, Evicting
<1>8. PairsHeld'
  BY <1>1, <1>2, <1>3 DEF PairsHeld
<1>9. LeftThere'
  BY <1>1 DEF LeftThere, Socket!UnchangedIsTrue
<1> QED
  BY <1>5, <1>6, <1>7, <1>8, <1>9


LEMMA AnswerChainStep == ASSUME SocketInv, Socket!AnswerChain PROVE SocketInv'
<1> USE DEF SocketInv
<1> DEFINE now == Socket!Reading("client")
<1>1. /\ reader["client"].at = "sign"
      /\ reader' = [reader EXCEPT !["client"] = Socket!NoReading]
      /\ \/ reader["client"].clean /\ settledChain' = now /\ reply' = now
         \/ settledChain' = settledChain /\ reply' = Socket!NoChain
      /\ UNCHANGED <<blockRows, treeKeys, gone, chainCount, writing, lastApplied, leftBy, heldPairs, scanRaced, threw>>
  BY DEF Socket!AnswerChain, Socket!Kept
<1>2. reader["client"] \in Readings /\ reader["client"] # Socket!NoReading
  BY <1>1, SocketKinds DEF SocketTyped
<1>3. now \in SignedReplies /\ now.height = reader["client"].height /\ now.root = reader["client"].root
  BY <1>2 DEF Socket!Reading, SignedReplies, Readings
<1>4. /\ reader'["client"] = Socket!NoReading /\ reader'["settle"] = reader["settle"]
      /\ reader' \in [{"client", "settle"} -> {Socket!NoReading} \cup Readings]
  BY <1>1 DEF SocketTyped
<1> HIDE DEF now
<1>5. SocketTyped'
  BY <1>1, <1>3, <1>4 DEF SocketTyped
<1>6. EvictedOut'
  BY <1>1 DEF EvictedOut, Evicting
<1>7. CountRight'
  BY <1>1, <1>4, SocketKinds DEF CountRight, Dropping, Evicting
<1>8. ~Socket!NoChain.signed /\ "unchanged" \notin DOMAIN Socket!NoChain /\ "unchanged" \notin DOMAIN now
  BY <1>3, SocketKinds
<1>9. PairsHeld'
  BY <1>1, <1>2, <1>3, <1>4, <1>8 DEF PairsHeld
<1>10. LeftThere'
  BY <1>1, <1>8 DEF LeftThere, Socket!UnchangedIsTrue
<1> QED
  BY <1>5, <1>6, <1>7, <1>9, <1>10

LEMMA AnswerSettledStep == ASSUME SocketInv, Socket!AnswerSettled PROVE SocketInv'
<1> USE DEF SocketInv
<1>1. /\ reply' = settledChain /\ settledChain # Socket!NoChain
      /\ UNCHANGED <<blockRows, treeKeys, gone, chainCount, writing, lastApplied, reader, settledChain, leftBy,
                     heldPairs, scanRaced, threw>>
  BY DEF Socket!AnswerSettled
<1>2. settledChain \in SignedReplies /\ "unchanged" \notin DOMAIN settledChain
  BY <1>1, SocketKinds DEF SocketTyped
<1>3. SocketTyped'
  BY <1>1 DEF SocketTyped
<1>4. EvictedOut' /\ CountRight'
  BY <1>1 DEF EvictedOut, CountRight, Dropping, Evicting
<1>5. PairsHeld'
  BY <1>1 DEF PairsHeld
<1>6. LeftThere'
  BY <1>1, <1>2 DEF LeftThere, Socket!UnchangedIsTrue
<1> QED
  BY <1>3, <1>4, <1>5, <1>6

LEMMA EndWriteStep == ASSUME SocketInv, Socket!EndWrite PROVE SocketInv'
<1> USE DEF SocketInv
<1> DEFINE now == Socket!Reading("settle")
           applied == [key |-> writing.key, held |-> Cardinality(blockRows), root |-> treeKeys]
<1>1. /\ writing.op # "none" /\ writing.at \in {"settle", "refused"}
      /\ leftBy' = <<blockRows, treeKeys>> /\ writing' = Socket!NoWrite
      /\ heldPairs' = heldPairs \cup {<<Cardinality(blockRows), treeKeys>>}
      /\ UNCHANGED <<blockRows, treeKeys, gone, chainCount, reply, scanRaced, threw>>
  BY SameCardinality DEF Socket!EndWrite, Socket!Settled
<1>2. \/ /\ writing.at = "settle" /\ reader["settle"].at = "sign" /\ settledChain' = now
         /\ reader' = [reader EXCEPT !["settle"] = Socket!NoReading]
         /\ lastApplied' = applied \/ lastApplied' = Socket!NoWrite
      \/ writing.at = "refused" /\ UNCHANGED <<settledChain, reader, lastApplied>>
  BY SameCardinality DEF Socket!EndWrite, Socket!Height
<1>3. /\ lastApplied = Socket!NoWrite /\ "unchanged" \notin DOMAIN reply
      /\ writing.at # "settle" => reader["settle"] = Socket!NoReading
  BY <1>1, WriteFields
<1>4. Socket!NoWrite.op = "none" /\ "unchanged" \notin DOMAIN reply'
  BY <1>1, <1>3, SocketKinds
<1>5. applied.held = Cardinality(blockRows) /\ applied.root = treeKeys
  OBVIOUS
<1> HIDE DEF applied
<1>6. leftBy' \in (SUBSET Anchor) \X (SUBSET Anchor) /\ leftBy'[1] = blockRows' /\ leftBy'[2] = treeKeys'
  BY <1>1 DEF SocketTyped
<1>7. LeftThere'
  BY <1>1, <1>2, <1>3, <1>4, <1>5, <1>6 DEF LeftThere, Socket!UnchangedIsTrue
<1>8. EvictedOut'
  BY <1>1, <1>4 DEF EvictedOut, Evicting
<1>9. CASE writing.at = "refused"
  <2>1. SocketTyped'
    BY <1>1, <1>2, <1>6, <1>9 DEF SocketTyped
  <2>2. CountRight'
    BY <1>1, <1>2, <1>9 DEF CountRight, Dropping, Evicting
  <2>3. PairsHeld'
    BY <1>1, <1>2, <1>3, <1>9 DEF PairsHeld
  <2> QED
    BY <1>7, <1>8, <2>1, <2>2, <2>3
<1>10. CASE writing.at = "settle"
  <2>1. /\ reader["settle"].at = "sign" /\ settledChain' = now
        /\ reader' = [reader EXCEPT !["settle"] = Socket!NoReading]
    BY <1>2, <1>10
  <2>2. reader["settle"] \in Readings /\ reader["settle"] # Socket!NoReading
    BY <2>1, SocketKinds DEF SocketTyped
  <2>3. now \in SignedReplies /\ now.height = reader["settle"].height /\ now.root = reader["settle"].root
    BY <2>2 DEF Socket!Reading, SignedReplies, Readings
  <2>4. /\ reader'["settle"] = Socket!NoReading /\ reader'["client"] = reader["client"]
        /\ reader' \in [{"client", "settle"} -> {Socket!NoReading} \cup Readings]
    BY <2>1 DEF SocketTyped
  <2> HIDE DEF now
  <2>5. SocketTyped'
    BY <1>1, <1>6, <2>1, <2>3, <2>4 DEF SocketTyped
  <2>6. CountRight'
    BY <1>1, <1>10, <2>4, SocketKinds DEF CountRight, Dropping, Evicting
  <2>7. PairsHeld'
    BY <1>1, <2>1, <2>2, <2>3, <2>4 DEF PairsHeld
  <2> QED
    BY <1>7, <1>8, <2>5, <2>6, <2>7
<1> QED
  BY <1>1, <1>9, <1>10

LEMMA AdmitStep == ASSUME SocketInv, NEW a \in Anchor, Socket!Admit(a) PROVE SocketInv'
<1> USE DEF SocketInv
<1>1. /\ a \notin gone /\ a \notin blockRows
      /\ blockRows' = blockRows \cup {a} /\ treeKeys' = treeKeys \cup {a}
      /\ chainCount' = Socket!Bumped /\ Socket!ScanRace
      /\ reply' = IF reply.signed THEN reply ELSE Socket!NoChain
      /\ UNCHANGED <<gone, writing, lastApplied, reader, settledChain, leftBy, threw>>
  BY DEF Socket!Admit
<1>2. /\ heldPairs \subseteq heldPairs'
      /\ writing = Socket!NoWrite \/ writing.at = "settle" => <<Cardinality(blockRows'), treeKeys'>> \in heldPairs'
  BY SameCardinality DEF Socket!Admit, Socket!Settled
<1>3. IsFiniteSet(blockRows') /\ Cardinality(blockRows') = Cardinality(blockRows) + 1
  BY <1>1, FS_AddElement DEF SocketTyped
<1>4. (scanRaced => scanRaced') /\ scanRaced' \in BOOLEAN
  BY <1>1, Raced
<1>5. ~scanRaced' => \A r \in {"client", "settle"} : reader[r].at # "scan"
  <2>1. blockRows' # blockRows
    BY <1>1
  <2> QED
    BY <1>1, <2>1, Raced
<1>6. /\ "unchanged" \notin DOMAIN reply'
      /\ reply' \in {Socket!NoChain} \cup SignedReplies
      /\ reply'.signed => reply' = reply /\ reply.signed
  <2>1. CASE reply.signed
    <3>1. reply \in SignedReplies
      BY <2>1, SocketKinds DEF SocketTyped
    <3> QED
      BY <1>1, <2>1, <3>1, SocketKinds
  <2>2. CASE ~reply.signed
    BY <1>1, <2>2, SocketKinds
  <2> QED
    BY <2>1, <2>2
<1>7. chainCount' \in Int
  BY <1>1 DEF SocketTyped, Socket!Bumped, Socket!Unknown
<1>8. SocketTyped'
  BY <1>1, <1>3, <1>4, <1>6, <1>7 DEF SocketTyped
<1>9. EvictedOut'
  BY <1>1 DEF EvictedOut, Evicting
<1>10. CountRight'
  <2>1. ~scanRaced' /\ ~threw' =>
          (chainCount' = Socket!Unknown \/ chainCount' = Cardinality(blockRows') \/ Dropping')
    BY <1>1, <1>3, <1>4 DEF CountRight, Dropping, Evicting, Socket!Bumped
  <2> QED
    BY <1>1, <1>5, <2>1 DEF CountRight
<1>11. PairsHeld'
  BY <1>1, <1>2, <1>4, <1>6 DEF PairsHeld
<1>12. LeftThere'
  BY <1>1, <1>6 DEF LeftThere, Socket!UnchangedIsTrue
<1> QED
  BY <1>8, <1>9, <1>10, <1>11, <1>12

LEMMA SocketNext == SocketInv /\ [Socket!Next]_(Socket!ctlVars) => SocketInv'
<1> SUFFICES ASSUME SocketInv, [Socket!Next]_(Socket!ctlVars) PROVE SocketInv'
  OBVIOUS
<1>1. CASE UNCHANGED Socket!ctlVars
  BY <1>1 DEF SocketInv, SocketTyped, EvictedOut, CountRight, PairsHeld, LeftThere, Evicting, Dropping,
              Socket!UnchangedIsTrue, Socket!ctlVars
<1>2. ASSUME NEW op \in {"rebuild", "apply"}, NEW S \in SUBSET Anchor \ {{}}, Socket!Begin(op, S) PROVE SocketInv'
  BY <1>2, BeginStep DEF Operations
<1>3. ASSUME NEW a \in Anchor, Socket!Begin("evict", {a}) PROVE SocketInv'
  BY <1>3, BeginStep DEF Operations
<1>4. CASE Socket!Begin("backfill", {})
  BY <1>4, BeginStep DEF Operations
<1>5. CASE Socket!Wipe
  BY <1>5, WipeStep
<1>6. CASE Socket!Throw
  BY <1>6, ThrowStep
<1>7. CASE Socket!ClearTree
  BY <1>7, ClearTreeStep
<1>8. CASE Socket!FillTree
  BY <1>8, FillTreeStep
<1>9. CASE Socket!Backfill
  BY <1>9, BackfillStep
<1>10. CASE Socket!EvictLedger
  BY <1>10, EvictLedgerStep
<1>11. CASE Socket!EvictTree
  BY <1>11, EvictTreeStep
<1>12. ASSUME NEW a \in Anchor, Socket!Reseal(a) PROVE SocketInv'
  BY <1>12, ResealStep
<1>13. ASSUME NEW a \in Anchor, Socket!Admit(a) PROVE SocketInv'
  BY <1>13, AdmitStep
<1>14. DOMAIN reader = {"client", "settle"}
  BY DEF SocketInv, SocketTyped
<1>15. ASSUME NEW r \in DOMAIN reader, Socket!ReadChain(r) PROVE SocketInv'
  BY <1>14, <1>15, ReadChainStep
<1>16. ASSUME NEW r \in DOMAIN reader, Socket!Scanned(r) PROVE SocketInv'
  BY <1>14, <1>16, ScannedStep
<1>17. CASE Socket!AnswerChain
  BY <1>17, AnswerChainStep
<1>18. CASE Socket!AnswerSettled
  BY <1>18, AnswerSettledStep
<1>19. CASE Socket!EndWrite
  BY <1>19, EndWriteStep
<1> QED
  BY <1>1, <1>2, <1>3, <1>4, <1>5, <1>6, <1>7, <1>8, <1>9, <1>10, <1>11, <1>12, <1>13, <1>15, <1>16, <1>17, <1>18, <1>19
     DEF Socket!Next

\* The replies of the control socket stay true across writes and admissions: a signed chain is one the
\* node held, what was evicted is out of both stores whenever no write is under way, and a repeat that is
\* answered without a write finds the stores as that write left them.
THEOREM SocketSoundHolds == Spec => []SocketSound
<1>1. SocketInv => SocketSound
  <2> SUFFICES ASSUME SocketInv PROVE Socket!SignedIsHeld /\ Socket!EvictedGone /\ Socket!UnchangedIsTrue
    BY DEF SocketSound
  <2> USE DEF SocketInv
  <2>1. Socket!SignedIsHeld
    BY DEF PairsHeld, Socket!SignedIsHeld, Socket!OnlyHeldSigned
  <2>2. Socket!EvictedGone
    <3> SUFFICES ASSUME writing = Socket!NoWrite PROVE gone \cap (blockRows \cup treeKeys) = {}
      BY DEF Socket!EvictedGone
    <3>1. ~Evicting
      BY SocketKinds DEF Evicting
    <3> QED
      BY <3>1 DEF EvictedOut
  <2> QED
    BY <2>1, <2>2 DEF LeftThere
<1> QED
  BY <1>1, SocketPart, SocketInitial, SocketNext, PTL DEF Socket!CtlSpec


----------------------------------------------------------------------------
(* Calls of contracts                                                       *)

\* What a call keeps while its frames run, over the coins C there are.
FrameRec(C) ==
  [at : {"stage", "run", "check"}, overlay : [Contract -> Nat \cup {-1}], queue : Seq(Contract), inputs : SUBSET C,
   fee : Nat, frames : Nat, read : Nat, spent : SUBSET C, outs : Seq([from : Contract, amount : Nat \ {0}]),
   ran : [Contract -> Nat]]
\* What is left to insert, and what the call keeps meanwhile.
InsertRec(C) ==
  [what : {"spend"}, id : C]
    \cup [what : {"utxo"}, id : [out : [from : Contract, amount : Nat \ {0}], of : SUBSET C, i : Nat]]
    \cup [what : {"slot"}, id : Contract, value : Nat]
ApplyRec(C) ==
  [at : {"apply"}, todo : Seq(InsertRec(C)), ran : [Contract -> Nat], spent : SUBSET C,
   outs : Seq([from : Contract, amount : Nat \ {0}]), fee : Nat]

HostTyped ==
  /\ slot \in [Contract -> Nat] /\ framesDone \in [Contract -> Nat]
  /\ fees \in Nat /\ callsOverlap \in BOOLEAN /\ appliesOverlap \in BOOLEAN
  /\ hostCall \in [Caller -> {Host!NoHostCall} \cup FrameRec(coins) \cup ApplyRec(coins)]
  /\ IsFiniteSet(coins) /\ spentMark \subseteq coins
  /\ \A u \in coins : u.out.amount \in Nat

\* A call that runs has a next frame, and one that was run has a slot to write.
Shaped(v) ==
  /\ v.at \in {"stage", "run"} => v.queue # <<>>
  /\ v.at \in {"run", "check"} => v.frames # 0
  /\ v.at = "check" => \E k \in Contract : v.overlay[k] # -1

AllShaped == \A c \in Caller : Shaped(hostCall[c])

\* What a sequence holds; the marks and the coins there are once inserts E are in; and the fee a call
\* owes until it is done.
Elems(t) == {t[i] : i \in 1 .. Len(t)}
MarkOf(M, E) == M \cup {w.id : w \in {x \in E : x.what = "spend"}}
CoinsOf(C, E) == C \cup {w.id : w \in {x \in E : x.what = "utxo"}}
Due(v) == IF v.spent # {} \/ v.outs # <<>> THEN v.fee ELSE 0

\* The coins C of which M are spent are worth what there was, but for what was paid; and what a call
\* made came of coins that are spent, so that no call makes it again.
Balanced(C, M, paid) ==
  /\ Host!Worth(C \ M) + paid = Host!Worth(Coin)
  /\ \A u \in C : u \in Coin \/ (u.of # {} /\ u.of \subseteq M)

\* While no two calls were applied at once, value is kept when none is being applied, and will be once
\* the rest of the one that is has been inserted.
ValueKept ==
  /\ \A c, d \in Caller : hostCall[c].at = "apply" /\ hostCall[d].at = "apply" => c = d
  /\ (\A c \in Caller : hostCall[c].at # "apply") => Balanced(coins, spentMark, fees)
  /\ \A c \in Caller : hostCall[c].at = "apply" =>
       Balanced(CoinsOf(coins, Elems(hostCall[c].todo)), MarkOf(spentMark, Elems(hostCall[c].todo)),
                fees + Due(hostCall[c]))
ValueOk == ~appliesOverlap => ValueKept

\* A frame of the call has run; the overlay counts the frames of the call on top of the slots s; and
\* the inserts E that are left, or are in, make the slots count the frames.
Started(v) == v.at \in {"run", "check", "apply"} \/ (v.at = "stage" /\ v.frames # 0)

Tracks(v, s) ==
  /\ \A k \in Contract : v.overlay[k] = IF v.ran[k] = 0 THEN -1 ELSE s[k] + v.ran[k]
  /\ v.at = "run" => v.read = s[Head(v.queue)] + v.ran[Head(v.queue)]
  /\ v.at = "stage" /\ v.frames = 0 => \A k \in Contract : v.ran[k] = 0

Pending(E) == {w \in E : w.what = "slot"}
Lands(E, ran, s, done) ==
  /\ \A w \in Pending(E) : w.value = done[w.id] + ran[w.id]
  /\ \A k \in Contract : s[k] = done[k] + ran[k] \/ \E w \in Pending(E) : w.id = k

\* While no two calls ran at once, at most one has started, and the slots count the frames of those
\* that are done, or will with the rest of the one that is being applied.
FramesKept ==
  /\ \A c, d \in Caller : Started(hostCall[c]) /\ Started(hostCall[d]) => c = d
  /\ (\A c \in Caller : hostCall[c].at # "apply") => slot = framesDone
  /\ \A c \in Caller : hostCall[c].at \in {"stage", "run", "check"} => Tracks(hostCall[c], slot)
  /\ \A c \in Caller : hostCall[c].at = "apply" => Lands(Elems(hostCall[c].todo), hostCall[c].ran, slot, framesDone)
FramesOk == ~callsOverlap => FramesKept

HostInv == HostTyped /\ AllShaped /\ ValueOk /\ FramesOk

\* The units of value of a set of coins, and those of a sequence of outputs.
Units(C) == UNION {{u} \X (1 .. u.out.amount) : u \in C}
UnitsOf(s) == UNION {{i} \X (1 .. s[i].amount) : i \in 1 .. Len(s)}

\* The coins that outs become when spent is what the call spent.
Minted(outs, spent) == {[out |-> outs[i], of |-> spent, i |-> i] : i \in 1 .. Len(outs)}

\* Cardinality in the module of the host is the one of the finite sets.
LEMMA HostCardinality == \A S : Host!Cardinality(S) = Cardinality(S)
  BY DEF Host!Cardinality, Cardinality, Host!IsFiniteSet, IsFiniteSet

\* The worth of coins, and the sum of outputs, count their units.
LEMMA WorthIsUnits ==
  /\ \A C : Host!Worth(C) = Cardinality(Units(C))
  /\ \A s : Host!SumOf(s) = Cardinality(UnitsOf(s))
  BY HostCardinality DEF Host!Worth, Host!SumOf, Units, UnitsOf

\* What a sequence of a set holds is of the set; and so of a sequence of outputs.
LEMMA ItemOf ==
  ASSUME NEW S, NEW s \in Seq(S), NEW i \in 1 .. Len(s)
  PROVE  s[i] \in S
  OBVIOUS

LEMMA OutsTyped ==
  \A K : \A outs \in Seq([from : K, amount : Nat \ {0}]) :
    /\ Len(outs) \in Nat
    /\ \A i \in 1 .. Len(outs) : outs[i] \in [from : K, amount : Nat \ {0}]
<1> SUFFICES ASSUME NEW K, NEW outs \in Seq([from : K, amount : Nat \ {0}])
             PROVE  /\ Len(outs) \in Nat
                    /\ \A i \in 1 .. Len(outs) : outs[i] \in [from : K, amount : Nat \ {0}]
  OBVIOUS
<1> DEFINE T == [from : K, amount : Nat \ {0}]
<1> HIDE DEF T
<1>1. outs \in Seq(T)
  BY DEF T
<1>2. Len(outs) \in Nat /\ \A i \in 1 .. Len(outs) : outs[i] \in T
  BY <1>1
<1> QED
  BY <1>2 DEF T

\* A family of finite sets over a finite set has a finite union.
LEMMA UnitsFinite ==
  ASSUME NEW C, IsFiniteSet(C), \A u \in C : u.out.amount \in Nat
  PROVE  IsFiniteSet(Units(C))
<1> DEFINE row == [u \in C |-> {u} \X (1 .. u.out.amount)]
           rows == {{u} \X (1 .. u.out.amount) : u \in C}
<1>1. row \in Surjection(C, rows)
  BY DEF Surjection
<1>2. IsFiniteSet(rows)
  BY <1>1, FS_Surjection DEF ExistsSurjection
<1>3. \A T \in rows : IsFiniteSet(T)
  <2> TAKE T \in rows
  <2>1. PICK u \in C : T = {u} \X (1 .. u.out.amount)
    OBVIOUS
  <2>2. u.out.amount \in Int
    OBVIOUS
  <2>3. IsFiniteSet({u})
    BY FS_Singleton
  <2>4. IsFiniteSet(1 .. u.out.amount)
    BY <2>2, FS_Interval
  <2> QED
    BY <2>1, <2>3, <2>4, FS_Product
<1> QED
  BY <1>2, <1>3, FS_UNION DEF Units

\* The units of finitely many outputs are finitely many.
LEMMA UnitsOfFinite ==
  ASSUME NEW K, NEW s \in Seq([from : K, amount : Nat \ {0}])
  PROVE  IsFiniteSet(UnitsOf(s))
<1> DEFINE row == [i \in 1 .. Len(s) |-> {i} \X (1 .. s[i].amount)]
           rows == {{i} \X (1 .. s[i].amount) : i \in 1 .. Len(s)}
<1>0. Len(s) \in Nat /\ IsFiniteSet(1 .. Len(s))
  BY FS_Interval
<1>1. row \in Surjection(1 .. Len(s), rows)
  BY DEF Surjection
<1>2. IsFiniteSet(rows)
  BY <1>0, <1>1, FS_Surjection DEF ExistsSurjection
<1>3. \A T \in rows : IsFiniteSet(T)
  <2> TAKE T \in rows
  <2>1. PICK i \in 1 .. Len(s) : T = {i} \X (1 .. s[i].amount)
    OBVIOUS
  <2>2. s[i] \in [from : K, amount : Nat \ {0}]
    BY ItemOf
  <2>3. s[i].amount \in Int
    BY <2>2
  <2>4. IsFiniteSet({i})
    BY FS_Singleton
  <2>5. IsFiniteSet(1 .. s[i].amount)
    <3>1. \A n \in Int : IsFiniteSet(1 .. n)
      BY FS_Interval
    <3> QED
      BY <2>3, <3>1
  <2> QED
    BY <2>1, <2>4, <2>5, FS_Product
<1> QED
  BY <1>2, <1>3, FS_UNION DEF UnitsOf

\* The worth of coins and of other coins is the sum of their worths.
LEMMA WorthAdds ==
  ASSUME NEW C, NEW D, IsFiniteSet(C), IsFiniteSet(D), C \cap D = {},
         \A u \in C \cup D : u.out.amount \in Nat
  PROVE  /\ Host!Worth(C \cup D) = Host!Worth(C) + Host!Worth(D)
         /\ Host!Worth(C) \in Nat /\ Host!Worth(D) \in Nat
<1>1. Units(C \cup D) = Units(C) \cup Units(D)
  BY DEF Units
<1>2. Units(C) \cap Units(D) = {}
  BY DEF Units
<1>3. IsFiniteSet(Units(C)) /\ IsFiniteSet(Units(D))
  BY UnitsFinite
<1>4. Cardinality(Units(C) \cup Units(D)) = Cardinality(Units(C)) + Cardinality(Units(D)) - Cardinality({})
  BY <1>2, <1>3, FS_Union
<1>5. Cardinality(Units(C)) \in Nat /\ Cardinality(Units(D)) \in Nat
  BY <1>3, FS_CardinalityType
<1> QED
  <2>1. Cardinality({}) = 0
    BY FS_EmptySet
  <2>2. /\ Host!Worth(C) = Cardinality(Units(C)) /\ Host!Worth(D) = Cardinality(Units(D))
        /\ Host!Worth(C \cup D) = Cardinality(Units(C \cup D))
    BY WorthIsUnits
  <2>3. Cardinality(Units(C \cup D)) = Cardinality(Units(C) \cup Units(D))
    BY <1>1
  <2>4. Cardinality(Units(C \cup D)) = Cardinality(Units(C)) + Cardinality(Units(D))
    BY <2>3, <1>4, <1>5, <2>1
  <2> QED
    BY <2>2, <2>4, <1>5

\* The coins a call makes are worth its outputs.
LEMMA MintedWorth ==
  ASSUME NEW K, NEW outs \in Seq([from : K, amount : Nat \ {0}]), NEW spent
  PROVE  /\ Host!Worth(Minted(outs, spent)) = Host!SumOf(outs)
         /\ Host!SumOf(outs) \in Nat
         /\ IsFiniteSet(Minted(outs, spent))
<1> DEFINE made(i) == [out |-> outs[i], of |-> spent, i |-> i]
<1> DEFINE f == [x \in UnitsOf(outs) |-> <<made(x[1]), x[2]>>]
<1> DEFINE g == [i \in 1 .. Len(outs) |-> made(i)]
<1>0. \A i \in 1 .. Len(outs) : outs[i] \in [from : K, amount : Nat \ {0}]
  BY ItemOf
<1>1. \A i \in 1 .. Len(outs) : outs[i].amount \in Nat /\ made(i).out.amount = outs[i].amount /\ made(i).i = i
  BY <1>0
<1>2. \A x \in UnitsOf(outs) : x = <<x[1], x[2]>> /\ x[1] \in 1 .. Len(outs) /\ x[2] \in 1 .. outs[x[1]].amount
  BY DEF UnitsOf
<1>3. \A i \in 1 .. Len(outs) : \A n \in 1 .. outs[i].amount : <<i, n>> \in UnitsOf(outs)
  BY DEF UnitsOf
<1>4. \A i \in 1 .. Len(outs) : \A n \in 1 .. outs[i].amount : <<made(i), n>> \in Units(Minted(outs, spent))
  BY <1>1 DEF Units, Minted
<1>5. \A y \in Units(Minted(outs, spent)) : \E i \in 1 .. Len(outs) : \E n \in 1 .. outs[i].amount : y = <<made(i), n>>
  BY <1>1 DEF Units, Minted
<1>6. f \in Bijection(UnitsOf(outs), Units(Minted(outs, spent)))
  <2>1. f \in [UnitsOf(outs) -> Units(Minted(outs, spent))]
    BY <1>2, <1>4
  <2>2. ASSUME NEW x \in UnitsOf(outs), NEW y \in UnitsOf(outs), f[x] = f[y]  PROVE x = y
    <3>1. made(x[1]) = made(y[1]) /\ x[2] = y[2]
      BY <2>2
    <3>2. x[1] = y[1]
      BY <3>1, <1>1, <1>2
    <3> QED
      BY <3>1, <3>2, <1>2
  <2>3. ASSUME NEW y \in Units(Minted(outs, spent))  PROVE \E x \in UnitsOf(outs) : f[x] = y
    <3>1. PICK i \in 1 .. Len(outs) : \E n \in 1 .. outs[i].amount : y = <<made(i), n>>
      BY <1>5
    <3>2. PICK n \in 1 .. outs[i].amount : y = <<made(i), n>>
      BY <3>1
    <3>3. <<i, n>> \in UnitsOf(outs) /\ f[<<i, n>>] = <<made(i), n>>
      BY <1>3
    <3> QED
      BY <3>2, <3>3
  <2> HIDE DEF f
  <2> QED
    BY <2>1, <2>2, <2>3 DEF Bijection, Injection, Surjection, IsInjective
<1>7. IsFiniteSet(UnitsOf(outs))
  BY UnitsOfFinite
<1>8. Cardinality(Units(Minted(outs, spent))) = Cardinality(UnitsOf(outs))
  BY <1>6, <1>7, FS_Bijection DEF ExistsBijection
<1>9. Cardinality(UnitsOf(outs)) \in Nat
  BY <1>7, FS_CardinalityType
<1>10. IsFiniteSet(Minted(outs, spent))
  <2>1. g \in Surjection(1 .. Len(outs), Minted(outs, spent))
    BY DEF Surjection, Minted
  <2>2. IsFiniteSet(1 .. Len(outs))
    BY FS_Interval
  <2> QED
    BY <2>1, <2>2, FS_Surjection DEF ExistsSurjection
<1> QED
  BY <1>8, <1>9, <1>10, WorthIsUnits

\* Outputs of no worth are none.
LEMMA SumOfNone ==
  ASSUME NEW K, NEW outs \in Seq([from : K, amount : Nat \ {0}]), Host!SumOf(outs) = 0
  PROVE  outs = <<>>
<1>6. \A i \in 1 .. Len(outs) : outs[i] \in [from : K, amount : Nat \ {0}]
  BY OutsTyped
<1>1. UnitsOf(outs) = {}
  BY UnitsOfFinite, WorthIsUnits, FS_EmptySet
<1> SUFFICES ASSUME outs # <<>> PROVE FALSE
  OBVIOUS
<1>5. 1 \in 1 .. Len(outs)
  OBVIOUS
<1>4. outs[1] \in [from : K, amount : Nat \ {0}]
  BY <1>5, <1>6
<1>2. outs[1].amount \in Nat \ {0}
  BY <1>4
<1>3. <<1, 1>> \in UnitsOf(outs)
  BY <1>2, <1>5 DEF UnitsOf
<1> QED
  BY <1>1, <1>3

\* No coins are worth nothing.
LEMMA WorthOfNone == Host!Worth({}) = 0
<1>1. Units({}) = {}
  BY DEF Units
<1> QED
  BY <1>1, WorthIsUnits, FS_EmptySet

\* A sequence that SetToSeq makes of a finite set has its elements.
LEMMA SetToSeqHas ==
  ASSUME NEW S, IsFiniteSet(S)
  PROVE  Host!SetToSeq(S) \in Seq(S) /\ Elems(Host!SetToSeq(S)) = S
<1> DEFINE n == Cardinality(S)
           q == Host!SetToSeq(S)
<1>1. n \in Nat /\ ExistsBijection(1 .. n, S)
  BY FS_CardinalityType
<1>2. PICK f : f \in Bijection(1 .. n, S)
  BY <1>1 DEF ExistsBijection
<1>3. f \in [1 .. n -> S] /\ \A a, b \in DOMAIN f : f[a] = f[b] => a = b
  BY <1>2 DEF Bijection, Injection, Surjection, IsInjective
<1>4. q = CHOOSE g \in [1 .. n -> S] : \A a, b \in DOMAIN g : g[a] = g[b] => a = b
  BY HostCardinality DEF Host!SetToSeq, Host!IsInjective
<1>5. q \in [1 .. n -> S] /\ \A a, b \in 1 .. n : q[a] = q[b] => a = b
  BY <1>3, <1>4
<1>6. q \in Seq(S) /\ Len(q) = n
  BY <1>1, <1>5
<1>7. q \in Surjection(1 .. n, S)
  <2>1. q \in Injection(1 .. n, S)
    BY <1>5 DEF Injection, IsInjective
  <2>2. IsFiniteSet(1 .. n) /\ Cardinality(1 .. n) = n
    BY <1>1, FS_Interval
  <2> QED
    BY <2>1, <2>2, FS_Injection
<1>8. Elems(q) = S
  <2>1. \A t \in S : \E i \in 1 .. n : q[i] = t
    BY <1>7 DEF Surjection
  <2> QED
    BY <2>1, <1>5, <1>6 DEF Elems
<1> QED
  BY <1>6, <1>8

\* What a sequence holds, put together and taken apart.
LEMMA ElemsOf ==
  /\ Elems(<<>>) = {}
  /\ \A S : \A s, t \in Seq(S) : Elems(s \o t) = Elems(s) \cup Elems(t)
  /\ \A S : \A s \in Seq(S) : s # <<>> =>
       Elems(s) = {Head(s)} \cup Elems(Tail(s)) /\ Head(s) \in S /\ Tail(s) \in Seq(S)
<1>1. Elems(<<>>) = {}
  BY DEF Elems
<1>2. ASSUME NEW S, NEW s \in Seq(S), NEW t \in Seq(S)  PROVE Elems(s \o t) = Elems(s) \cup Elems(t)
  <2>1. Elems(s \o t) \subseteq Elems(s) \cup Elems(t)
    BY DEF Elems
  <2>2. Elems(s) \subseteq Elems(s \o t)
    <3> SUFFICES ASSUME NEW x \in Elems(s) PROVE x \in Elems(s \o t)
      OBVIOUS
    <3>1. PICK i \in 1 .. Len(s) : x = s[i]
      BY DEF Elems
    <3>2. i \in 1 .. Len(s \o t) /\ (s \o t)[i] = x
      BY <3>1
    <3> QED
      BY <3>2 DEF Elems
  <2>3. Elems(t) \subseteq Elems(s \o t)
    <3> SUFFICES ASSUME NEW x \in Elems(t) PROVE x \in Elems(s \o t)
      OBVIOUS
    <3>1. PICK i \in 1 .. Len(t) : x = t[i]
      BY DEF Elems
    <3>2. Len(s) + i \in 1 .. Len(s \o t) /\ (s \o t)[Len(s) + i] = x
      BY <3>1
    <3> QED
      BY <3>2 DEF Elems
  <2> QED
    BY <2>1, <2>2, <2>3
<1>3. ASSUME NEW S, NEW s \in Seq(S), s # <<>>
      PROVE  Elems(s) = {Head(s)} \cup Elems(Tail(s)) /\ Head(s) \in S /\ Tail(s) \in Seq(S)
  <2>1. Head(s) \in S /\ Tail(s) \in Seq(S) /\ Head(s) = s[1] /\ 1 \in 1 .. Len(s)
    BY <1>3
  <2>2. \A i \in 1 .. Len(Tail(s)) : Tail(s)[i] = s[i + 1] /\ i + 1 \in 1 .. Len(s)
    BY <1>3
  <2>3. \A i \in 1 .. Len(s) : i = 1 \/ (i - 1 \in 1 .. Len(Tail(s)) /\ Tail(s)[i - 1] = s[i])
    BY <1>3
  <2> QED
    BY <2>1, <2>2, <2>3 DEF Elems
<1> QED
  BY <1>1, <1>2, <1>3

\* The inserts of a call that was checked are its spends, its outputs and its slots.
LEMMA InsertsHave ==
  ASSUME NEW C, NEW v \in FrameRec(C), IsFiniteSet(C), IsFiniteSet(Contract)
  PROVE  /\ Host!Inserts(v) \in Seq(InsertRec(C))
         /\ Elems(Host!Inserts(v)) =
              {[what |-> "spend", id |-> u] : u \in v.spent}
                \cup {[what |-> "utxo", id |-> m] : m \in Minted(v.outs, v.spent)}
                \cup {[what |-> "slot", id |-> k, value |-> v.overlay[k]] :
                        k \in {x \in Contract : v.overlay[x] # -1}}
<1> DEFINE spends == {[what |-> "spend", id |-> u] : u \in v.spent}
           made == [i \in 1 .. Len(v.outs) |->
                      [what |-> "utxo", id |-> [out |-> v.outs[i], of |-> v.spent, i |-> i]]]
           writes == {[what |-> "slot", id |-> k, value |-> v.overlay[k]] : k \in {x \in Contract : v.overlay[x] # -1}}
           R == InsertRec(C)
<1>0. v.spent \subseteq C /\ v.overlay \in [Contract -> Nat \cup {-1}]
  /\ v.outs \in Seq([from : Contract, amount : Nat \ {0}])
  BY DEF FrameRec
<1>1. IsFiniteSet(spends)
  <2>1. [u \in v.spent |-> [what |-> "spend", id |-> u]] \in Surjection(v.spent, spends)
    BY DEF Surjection
  <2>2. IsFiniteSet(v.spent)
    BY <1>0, FS_Subset
  <2> QED
    BY <2>1, <2>2, FS_Surjection
<1>2. IsFiniteSet(writes)
  <2> DEFINE K == {x \in Contract : v.overlay[x] # -1}
  <2>1. [k \in K |-> [what |-> "slot", id |-> k, value |-> v.overlay[k]]] \in Surjection(K, writes)
    BY DEF Surjection
  <2>2. IsFiniteSet(K)
    BY FS_Subset
  <2> QED
    BY <2>1, <2>2, FS_Surjection
<1>3. spends \subseteq R
  BY <1>0 DEF InsertRec
<1>4. writes \subseteq R
  BY <1>0 DEF InsertRec
<1>5. made \in Seq(R) /\ Len(made) = Len(v.outs)
  <2>1. \A i \in 1 .. Len(v.outs) : v.outs[i] \in [from : Contract, amount : Nat \ {0}] /\ i \in Nat
    BY <1>0, OutsTyped
  <2>2. \A i \in 1 .. Len(v.outs) : [out |-> v.outs[i], of |-> v.spent, i |-> i]
          \in [out : [from : Contract, amount : Nat \ {0}], of : SUBSET C, i : Nat]
    BY <1>0, <2>1
  <2>3. \A i \in 1 .. Len(v.outs) : [what |-> "utxo", id |-> [out |-> v.outs[i], of |-> v.spent, i |-> i]] \in R
    BY <2>2 DEF InsertRec
  <2> HIDE DEF R
  <2>4. Len(v.outs) \in Nat
    BY <1>0
  <2> QED
    BY <2>3, <2>4
<1>6. Elems(made) = {[what |-> "utxo", id |-> m] : m \in Minted(v.outs, v.spent)}
  BY <1>5 DEF Elems, Minted
<1>7. /\ Host!SetToSeq(spends) \in Seq(R) /\ Elems(Host!SetToSeq(spends)) = spends
      /\ Host!SetToSeq(writes) \in Seq(R) /\ Elems(Host!SetToSeq(writes)) = writes
  <2>1. \A S : S \subseteq R => \A s \in Seq(S) : s \in Seq(R)
    OBVIOUS
  <2>2. Host!SetToSeq(spends) \in Seq(spends) /\ Host!SetToSeq(writes) \in Seq(writes)
    BY <1>1, <1>2, SetToSeqHas
  <2>3. Elems(Host!SetToSeq(spends)) = spends /\ Elems(Host!SetToSeq(writes)) = writes
    BY <1>1, <1>2, SetToSeqHas
  <2> HIDE DEF R, spends, writes
  <2> QED
    BY <1>3, <1>4, <2>1, <2>2, <2>3
<1>8. Host!Inserts(v) = Host!SetToSeq(spends) \o made \o Host!SetToSeq(writes)
  BY DEF Host!Inserts, Host!Unwritten
<1> HIDE DEF R, spends, writes, made
<1>9. Host!SetToSeq(spends) \o made \in Seq(R)
  BY <1>5, <1>7
<1>10. /\ Host!Inserts(v) \in Seq(R)
       /\ Elems(Host!Inserts(v)) = Elems(Host!SetToSeq(spends)) \cup Elems(made) \cup Elems(Host!SetToSeq(writes))
  <2>1. \A s, t \in Seq(R) : Elems(s \o t) = Elems(s) \cup Elems(t) /\ s \o t \in Seq(R)
    BY ElemsOf
  <2>2. Elems(Host!SetToSeq(spends) \o made) = Elems(Host!SetToSeq(spends)) \cup Elems(made)
    BY <1>5, <1>7, <2>1
  <2> QED
    BY <1>5, <1>7, <1>8, <1>9, <2>1, <2>2
<1> QED
  BY <1>6, <1>7, <1>10 DEF R, spends, writes

\* A record over some coins is one over more.
LEMMA MoreCoins ==
  ASSUME NEW C, NEW D, C \subseteq D
  PROVE  FrameRec(C) \subseteq FrameRec(D) /\ ApplyRec(C) \subseteq ApplyRec(D)
<1>1. FrameRec(C) \subseteq FrameRec(D)
  BY DEF FrameRec
<1>2. InsertRec(C) \subseteq InsertRec(D)
  BY DEF InsertRec
<1>3. \A S, T : S \subseteq T => Seq(S) \subseteq Seq(T)
  OBVIOUS
<1>4. Seq(InsertRec(C)) \subseteq Seq(InsertRec(D))
  BY <1>2, <1>3
<1>5. ApplyRec(C) \subseteq ApplyRec(D)
  BY <1>4 DEF ApplyRec
<1> QED
  BY <1>1, <1>5

\* An insert takes what it is for from what is left: the marks and the coins there will be stay.
LEMMA InsertedKeeps ==
  ASSUME NEW C, NEW M \in SUBSET C, NEW w \in InsertRec(C), NEW E
  PROVE  /\ MarkOf(IF w.what = "spend" THEN M \cup {w.id} ELSE M, E) = MarkOf(M, {w} \cup E)
         /\ CoinsOf(IF w.what = "utxo" THEN C \cup {w.id} ELSE C, E) = CoinsOf(C, {w} \cup E)
  BY DEF MarkOf, CoinsOf

\* An insert keeps the types of what it writes.
LEMMA InsertedTyped ==
  ASSUME HostTyped, NEW w \in InsertRec(coins), Host!Inserted(w)
  PROVE  /\ slot' \in [Contract -> Nat]
         /\ coins \subseteq coins' /\ IsFiniteSet(coins') /\ spentMark' \subseteq coins'
         /\ \A u \in coins' : u.out.amount \in Nat
<1>1. slot' \in [Contract -> Nat]
  BY DEF HostTyped, Host!Inserted, InsertRec
<1>2. coins \subseteq coins' /\ spentMark' \subseteq coins'
  BY DEF HostTyped, Host!Inserted, InsertRec
<1>3. IsFiniteSet(coins')
  BY FS_AddElement DEF HostTyped, Host!Inserted
<1>4. \A u \in coins' : u.out.amount \in Nat
  <2>1. CASE w.what = "utxo"
    <3>1. w.id.out.amount \in Nat
      BY <2>1 DEF InsertRec
    <3> QED
      BY <2>1, <3>1 DEF HostTyped, Host!Inserted
  <2>2. CASE w.what # "utxo"
    BY <2>2 DEF HostTyped, Host!Inserted
  <2> QED
    BY <2>1, <2>2
<1> QED
  BY <1>1, <1>2, <1>3, <1>4

\* What is checked and applied alone keeps the value there is.
LEMMA BalancedByCheck ==
  ASSUME NEW C, NEW M \in SUBSET C, NEW v \in FrameRec(C), NEW paid \in Nat, IsFiniteSet(C), HostAssumption,
         \A u \in C : u.out.amount \in Nat,
         Balanced(C, M, paid),
         v.spent # {} \/ v.outs # <<>> =>
           v.spent \cap M = {} /\ Host!Worth(v.spent) = Host!SumOf(v.outs) + v.fee
  PROVE  Balanced(CoinsOf(C, Elems(Host!Inserts(v))), MarkOf(M, Elems(Host!Inserts(v))), paid + Due(v))
<1> DEFINE New == Minted(v.outs, v.spent)
           spends == {[what |-> "spend", id |-> u] : u \in v.spent}
           mints == {[what |-> "utxo", id |-> m] : m \in New}
           writes == {[what |-> "slot", id |-> k, value |-> v.overlay[k]] : k \in {x \in Contract : v.overlay[x] # -1}}
           E == Elems(Host!Inserts(v))
<1>1. E = spends \cup mints \cup writes
  BY InsertsHave DEF HostAssumption
<1>2. MarkOf(M, E) = M \cup v.spent
  <2>1. {x \in E : x.what = "spend"} = spends
    BY <1>1
  <2>2. {w.id : w \in spends} = v.spent
    <3>1. \A w \in spends : w.id \in v.spent
      OBVIOUS
    <3>2. \A u \in v.spent : [what |-> "spend", id |-> u] \in spends /\ [what |-> "spend", id |-> u].id = u
      OBVIOUS
    <3> HIDE DEF spends
    <3>3. \A u \in v.spent : \E w \in spends : w.id = u
      BY <3>2
    <3> QED
      BY <3>1, <3>3
  <2> HIDE DEF spends, E
  <2> QED
    BY <2>1, <2>2 DEF MarkOf
<1>3. CoinsOf(C, E) = C \cup New
  <2>1. {x \in E : x.what = "utxo"} = mints
    BY <1>1
  <2> HIDE DEF New
  <2>2. {w.id : w \in mints} = New
    <3>1. \A w \in mints : w.id \in New
      OBVIOUS
    <3>2. \A m \in New : [what |-> "utxo", id |-> m] \in mints /\ [what |-> "utxo", id |-> m].id = m
      OBVIOUS
    <3> HIDE DEF mints
    <3>3. \A m \in New : \E w \in mints : w.id = m
      BY <3>2
    <3> QED
      BY <3>1, <3>3
  <2> HIDE DEF mints, E
  <2> QED
    BY <2>1, <2>2 DEF CoinsOf
<1>4. /\ v.spent \subseteq C /\ v.outs \in Seq([from : Contract, amount : Nat \ {0}]) /\ v.fee \in Nat
  BY DEF FrameRec
<1>5. /\ Host!Worth(New) = Host!SumOf(v.outs) /\ Host!SumOf(v.outs) \in Nat /\ IsFiniteSet(New)
  BY <1>4, MintedWorth
<1>6. \A m \in New : m.of = v.spent /\ m.out.amount \in Nat
  BY <1>4, OutsTyped DEF Minted
<1> HIDE DEF New, E
<1>7. CASE v.spent = {} /\ v.outs = <<>>
  <2>1. New = {}
    BY <1>7 DEF New, Minted
  <2>2. Due(v) = 0
    BY <1>7 DEF Due
  <2>3. paid + Due(v) = paid
    BY <2>2
  <2>4. CoinsOf(C, E) = C /\ MarkOf(M, E) = M
    BY <1>2, <1>3, <1>7, <2>1
  <2>5. Balanced(CoinsOf(C, E), MarkOf(M, E), paid + Due(v))
    BY <2>3, <2>4
  <2> QED
    BY <2>5 DEF E
<1>8. CASE v.spent # {} \/ v.outs # <<>>
  <2>1. v.spent \cap M = {} /\ Host!Worth(v.spent) = Host!SumOf(v.outs) + v.fee /\ Due(v) = v.fee
    BY <1>8 DEF Due
  <2>2. v.spent # {}
    <3> SUFFICES ASSUME v.spent = {} PROVE FALSE
      OBVIOUS
    <3>1. Host!SumOf(v.outs) = 0
      BY <2>1, <1>4, <1>5, WorthOfNone
    <3> QED
      BY <3>1, <1>4, <1>8, SumOfNone
  <2>3. New \cap C = {}
    <3> SUFFICES ASSUME NEW m \in New, m \in C PROVE FALSE
      OBVIOUS
    <3>1. m.of = v.spent /\ m \notin Coin
      BY <1>6, <2>2 DEF HostAssumption
    <3>2. m.of \subseteq M
      BY <3>1 DEF Balanced
    <3> QED
      BY <3>1, <3>2, <2>1, <2>2
  <2> DEFINE Rest == (C \ M) \ v.spent
  <2>4. IsFiniteSet(Rest) /\ IsFiniteSet(v.spent)
    BY <1>4, FS_Subset, FS_Difference
  <2>5. /\ C \ M = Rest \cup v.spent
        /\ (C \cup New) \ (M \cup v.spent) = Rest \cup New
    BY <1>4, <2>1, <2>3
  <2>6. Rest \cap v.spent = {} /\ Rest \cap New = {} /\ Rest \subseteq C
    BY <2>3
  <2> HIDE DEF Rest
  <2>7. /\ Host!Worth(Rest \cup v.spent) = Host!Worth(Rest) + Host!Worth(v.spent)
        /\ Host!Worth(Rest) \in Nat /\ Host!Worth(v.spent) \in Nat
    BY <1>4, <2>4, <2>6, WorthAdds
  <2>8. Host!Worth(Rest \cup New) = Host!Worth(Rest) + Host!Worth(New)
    BY <1>4, <1>5, <1>6, <2>4, <2>6, WorthAdds
  <2>9. Host!Worth((C \cup New) \ (M \cup v.spent)) + (paid + Due(v)) = Host!Worth(C \ M) + paid
    <3>1. Host!Worth((C \cup New) \ (M \cup v.spent)) = Host!Worth(Rest) + Host!SumOf(v.outs)
      BY <1>5, <2>5, <2>8
    <3>3. Host!Worth(C \ M) = Host!Worth(Rest) + (Host!SumOf(v.outs) + v.fee)
      BY <2>1, <2>5, <2>7
    <3>2. Host!Worth(Rest) \in Nat /\ Host!SumOf(v.outs) \in Nat /\ v.fee \in Nat /\ Due(v) = v.fee
      BY <1>4, <1>5, <2>1, <2>7
    <3> QED
      BY <3>1, <3>2, <3>3
  <2>10. \A u \in C \cup New : u \in Coin \/ (u.of # {} /\ u.of \subseteq M \cup v.spent)
    BY <1>6, <2>2 DEF Balanced
  <2>11. Balanced(C \cup New, M \cup v.spent, paid + Due(v))
    BY <2>9, <2>10 DEF Balanced
  <2> QED
    BY <1>2, <1>3, <2>11 DEF E
<1> QED
  BY <1>7, <1>8

\* An insert of a slot lands it.
LEMMA LandsOn ==
  ASSUME NEW C, NEW w \in InsertRec(C), NEW E, NEW ran \in [Contract -> Nat], NEW s \in [Contract -> Nat],
         NEW done \in [Contract -> Nat], Lands({w} \cup E, ran, s, done)
  PROVE  Lands(E, ran, IF w.what = "slot" THEN [s EXCEPT ![w.id] = w.value] ELSE s, done)
<1> DEFINE s2 == IF w.what = "slot" THEN [s EXCEPT ![w.id] = w.value] ELSE s
<1>1. \A x \in Pending(E) : x \in Pending({w} \cup E)
  BY DEF Pending
<1>2. ASSUME NEW k \in Contract  PROVE s2[k] = done[k] + ran[k] \/ \E x \in Pending(E) : x.id = k
  <2>1. CASE w.what = "slot" /\ w.id = k
    <3>1. w \in Pending({w} \cup E) /\ w.value = done[k] + ran[k]
      BY <2>1 DEF Lands, Pending
    <3> QED
      BY <2>1, <3>1
  <2>2. CASE ~(w.what = "slot" /\ w.id = k)
    <3>1. s2[k] = s[k]
      BY <2>2
    <3>2. \A x \in Pending({w} \cup E) : x.id = k => x \in Pending(E)
      BY <2>2 DEF Pending
    <3> QED
      BY <3>1, <3>2 DEF Lands
  <2> QED
    BY <2>1, <2>2
<1> QED
  BY <1>1, <1>2 DEF Lands

\* The slots that a call is about to write are those its frames ran in.
LEMMA LandsAtCheck ==
  ASSUME NEW C, NEW v \in FrameRec(C), IsFiniteSet(C), HostAssumption, NEW s \in [Contract -> Nat], Tracks(v, s)
  PROVE  Lands(Elems(Host!Inserts(v)), v.ran, s, s)
<1> DEFINE K == {x \in Contract : v.overlay[x] # -1}
           write(k) == [what |-> "slot", id |-> k, value |-> v.overlay[k]]
<1>1. Pending(Elems(Host!Inserts(v))) = {write(k) : k \in K}
  BY InsertsHave DEF HostAssumption, Pending
<1>2. v.ran \in [Contract -> Nat] /\ v.overlay \in [Contract -> Nat \cup {-1}]
  BY DEF FrameRec
<1>3. \A k \in K : v.overlay[k] = s[k] + v.ran[k]
  BY <1>2 DEF Tracks
<1>4. \A k \in Contract \ K : v.ran[k] = 0
  BY <1>2 DEF Tracks
<1>5. \A k \in Contract : s[k] = s[k] + v.ran[k] \/ k \in K
  BY <1>2, <1>4
<1>6. \A k \in K : write(k).id = k /\ write(k).value = s[k] + v.ran[k]
  BY <1>3
<1> HIDE DEF K, write
<1>7. \A w \in Pending(Elems(Host!Inserts(v))) : w.value = s[w.id] + v.ran[w.id]
  BY <1>1, <1>6
<1>8. \A k \in K : \E w \in Pending(Elems(Host!Inserts(v))) : w.id = k
  BY <1>1, <1>6
<1> QED
  BY <1>5, <1>7, <1>8 DEF Lands

\* No call is under way at first, and nothing is spent.
LEMMA HostInit == Init => HostInv
<1> SUFFICES ASSUME Init PROVE HostInv
  OBVIOUS
<1>1. Host!Init
  BY DEF Init
<1>2. HostTyped
  BY <1>1, HostAssumption DEF HostTyped, Host!Init, HostAssumption
<1>3. AllShaped
  BY <1>1 DEF AllShaped, Shaped, Host!Init, Host!NoHostCall
<1>4. ValueOk
  <2>1. Coin \ {} = Coin
    OBVIOUS
  <2>2. Balanced(coins, spentMark, fees)
    <3>1. Host!Worth(Coin) \in Nat
      <4>1. IsFiniteSet({}) /\ Coin \cap {} = {}
        BY FS_EmptySet
      <4> QED
        BY <4>1, HostAssumption, WorthAdds DEF HostAssumption
    <3> QED
      BY <1>1, <2>1, <3>1 DEF Balanced, Host!Init
  <2> QED
    BY <1>1, <2>2 DEF ValueOk, ValueKept, Host!Init, Host!NoHostCall
<1>5. FramesOk
  BY <1>1 DEF FramesOk, FramesKept, Started, Host!Init, Host!NoHostCall
<1> QED
  BY <1>2, <1>3, <1>4, <1>5 DEF HostInv

\* A call that is not being applied moves on, or stops: nothing that is kept changes.
LEMMA Moved ==
  ASSUME HostInv, NEW c \in Caller, NEW v \in {Host!NoHostCall} \cup FrameRec(coins), Shaped(v),
         hostCall[c].at # "apply", hostCall' = [hostCall EXCEPT ![c] = v], callsOverlap' \in BOOLEAN,
         UNCHANGED <<slot, coins, spentMark, framesDone, fees, appliesOverlap>>
  PROVE  (HostTyped /\ AllShaped /\ ValueOk)'
<1>1. v.at # "apply"
  BY DEF FrameRec, Host!NoHostCall
<1>2. HostTyped'
  BY DEF HostInv, HostTyped
<1>3. /\ hostCall'[c] = v
      /\ \A d \in Caller \ {c} : hostCall'[d] = hostCall[d]
  BY DEF HostInv, HostTyped
<1>4. AllShaped'
  <2>1. \A d \in Caller : Shaped(hostCall'[d])
    BY <1>3 DEF HostInv, AllShaped
  <2> QED
    BY <2>1 DEF AllShaped, Shaped
<1>5. \A d \in Caller : /\ hostCall'[d].at = "apply" <=> hostCall[d].at = "apply"
                        /\ hostCall'[d].at = "apply" => hostCall'[d] = hostCall[d]
  BY <1>1, <1>3
<1>6. ValueOk'
  <2> SUFFICES ASSUME ~appliesOverlap' PROVE ValueKept'
    BY DEF ValueOk
  <2>1. ValueKept
    BY DEF HostInv, ValueOk
  <2>2. \A d, e \in Caller : hostCall'[d].at = "apply" /\ hostCall'[e].at = "apply" => d = e
    BY <2>1, <1>5 DEF ValueKept
  <2>3. (\A d \in Caller : hostCall'[d].at # "apply") => Balanced(coins', spentMark', fees')
    BY <2>1, <1>5 DEF ValueKept
  <2>4. \A d \in Caller : hostCall'[d].at = "apply" =>
          Balanced(CoinsOf(coins', Elems(hostCall'[d].todo)), MarkOf(spentMark', Elems(hostCall'[d].todo)),
                   fees' + Due(hostCall'[d]))
    BY <2>1, <1>5 DEF ValueKept
  <2> QED
    BY <2>2, <2>3, <2>4 DEF ValueKept, Balanced, CoinsOf, MarkOf, Due, Elems
<1> QED
  BY <1>2, <1>4, <1>6

\* And its frames count as they did, if what it read is what is there, and it starts alone.
LEMMA MovedFrames ==
  ASSUME HostInv, NEW c \in Caller, NEW v \in {Host!NoHostCall} \cup FrameRec(coins),
         hostCall[c].at # "apply", hostCall' = [hostCall EXCEPT ![c] = v],
         UNCHANGED <<slot, framesDone>>,
         ~callsOverlap' =>
           /\ ~callsOverlap
           /\ Started(v) => Started(hostCall[c]) \/ \A d \in Caller \ {c} : hostCall[d] = Host!NoHostCall
           /\ v # Host!NoHostCall => Tracks(v, slot)
  PROVE  FramesOk'
<1> SUFFICES ASSUME ~callsOverlap' PROVE FramesKept'
  BY DEF FramesOk
<1>1. FramesKept
  BY DEF HostInv, FramesOk
<1>2. v.at # "apply" /\ ~Started(Host!NoHostCall) /\ Host!NoHostCall.at = "idle"
  BY DEF FrameRec, Host!NoHostCall, Started
<1>3. /\ hostCall'[c] = v
      /\ \A d \in Caller \ {c} : hostCall'[d] = hostCall[d]
  BY DEF HostInv, HostTyped
<1>4. \A d, e \in Caller : Started(hostCall'[d]) /\ Started(hostCall'[e]) => d = e
  BY <1>1, <1>2, <1>3 DEF FramesKept
<1>5. (\A d \in Caller : hostCall'[d].at # "apply") => slot' = framesDone'
  BY <1>1, <1>2, <1>3 DEF FramesKept
<1>6. \A d \in Caller : hostCall'[d].at \in {"stage", "run", "check"} => Tracks(hostCall'[d], slot')
  BY <1>1, <1>2, <1>3 DEF FramesKept
<1>7. \A d \in Caller : hostCall'[d].at = "apply" =>
        Lands(Elems(hostCall'[d].todo), hostCall'[d].ran, slot', framesDone')
  BY <1>1, <1>2, <1>3 DEF FramesKept
<1> QED
  BY <1>4, <1>5, <1>6, <1>7 DEF FramesKept, Started, Tracks, Lands, Elems, Pending

\* A call stops, and leaves no trace.
LEMMA HostReverts ==
  ASSUME HostInv, NEW c \in Caller, hostCall[c].at # "apply", Host!Reverted(c),
         UNCHANGED <<callsOverlap, appliesOverlap>>
  PROVE  HostInv'
<1>1. hostCall' = [hostCall EXCEPT ![c] = Host!NoHostCall]
  BY DEF Host!Reverted, Host!Goto
<1>2. Shaped(Host!NoHostCall) /\ ~Started(Host!NoHostCall)
  BY DEF Shaped, Started, Host!NoHostCall
<1>3. callsOverlap' \in BOOLEAN /\ (~callsOverlap' => ~callsOverlap)
  BY DEF HostInv, HostTyped
<1>4. (HostTyped /\ AllShaped /\ ValueOk)'
  BY <1>1, <1>2, <1>3, Moved DEF Host!Reverted
<1>5. FramesOk'
  BY <1>1, <1>2, <1>3, MovedFrames DEF Host!Reverted
<1> QED
  BY <1>4, <1>5 DEF HostInv

\* A call is refused, or waits to stage its first frame.
LEMMA HostCalls ==
  ASSUME HostInv, NEW c \in Caller, NEW k \in Contract, NEW ins \in SUBSET coins, NEW fee \in {0, 1},
         NEW a \in BOOLEAN, Host!CallContract(c, k, ins, fee, a)
  PROVE  HostInv'
<1>1. CASE k \in Gated /\ ~a
  <2>1. UNCHANGED <<slot, coins, spentMark, hostCall, framesDone, fees, callsOverlap, appliesOverlap>>
    BY <1>1 DEF Host!CallContract
  <2>2. HostTyped'
    BY <2>1 DEF HostInv, HostTyped
  <2>3. AllShaped'
    BY <2>1 DEF HostInv, AllShaped
  <2>4. ValueOk'
    BY <2>1 DEF HostInv, ValueOk, ValueKept
  <2>5. FramesOk'
    BY <2>1 DEF HostInv, FramesOk, FramesKept
  <2> QED
    BY <2>2, <2>3, <2>4, <2>5 DEF HostInv
<1>2. CASE ~(k \in Gated /\ ~a)
  <2> DEFINE v == [at |-> "stage", overlay |-> [x \in Contract |-> -1], queue |-> <<k>>,
                   inputs |-> ins, fee |-> fee, frames |-> 0, read |-> 0, spent |-> {}, outs |-> <<>>,
                   ran |-> [x \in Contract |-> 0]]
  <2>1. /\ hostCall' = [hostCall EXCEPT ![c] = v] /\ hostCall[c].at # "apply"
        /\ UNCHANGED <<slot, coins, spentMark, framesDone, fees, callsOverlap, appliesOverlap>>
    BY <1>2 DEF Host!CallContract, Host!Goto, Host!Busy, Host!NoHostCall, Host!Unwritten
  <2>2. v \in FrameRec(coins)
    <3>1. <<k>> \in Seq(Contract) /\ <<>> \in Seq([from : Contract, amount : Nat \ {0}])
      OBVIOUS
    <3> QED
      BY <3>1 DEF FrameRec
  <2>3. Shaped(v) /\ ~Started(v)
    BY DEF Shaped, Started
  <2>4. Tracks(v, slot)
    BY DEF Tracks
  <2>5. callsOverlap' \in BOOLEAN /\ (~callsOverlap' => ~callsOverlap)
    BY <2>1 DEF HostInv, HostTyped
  <2> HIDE DEF v
  <2>6. (HostTyped /\ AllShaped /\ ValueOk)'
    BY <2>1, <2>2, <2>3, <2>5, Moved
  <2>7. FramesOk'
    BY <2>1, <2>2, <2>3, <2>4, <2>5, MovedFrames
  <2> QED
    BY <2>6, <2>7 DEF HostInv
<1> QED
  BY <1>1, <1>2

\* A frame reads what is there; it is the only one that runs, unless that is recorded.
LEMMA HostStages ==
  ASSUME HostInv, NEW c \in Caller, Host!Stage(c)
  PROVE  HostInv'
<1> DEFINE v == hostCall[c]
           k == Head(v.queue)
<1>1. v \in FrameRec(coins) /\ v.at = "stage" /\ v.queue # <<>>
  BY DEF HostInv, HostTyped, Host!Stage, Host!NoHostCall, ApplyRec, AllShaped, Shaped
<1>2. CASE \/ v.frames >= MaxFrames
           \/ v.inputs \cap spentMark # {}
           \/ ~(v.inputs \subseteq coins)
  <2>1. Host!Reverted(c) /\ UNCHANGED <<callsOverlap, appliesOverlap>>
    BY <1>2 DEF Host!Stage
  <2> QED
    BY <1>1, <2>1, HostReverts
<1>3. CASE ~(\/ v.frames >= MaxFrames
             \/ v.inputs \cap spentMark # {}
             \/ ~(v.inputs \subseteq coins))
  <2>0. /\ hostCall' = [hostCall EXCEPT ![c] = [v EXCEPT !.at = "run", !.frames = @ + 1, !.read = Host!txGet(v, k)]]
        /\ callsOverlap' = (callsOverlap \/ \E d \in Caller \ {c} : Host!Busy(d))
        /\ UNCHANGED <<slot, coins, spentMark, framesDone, fees, appliesOverlap>>
    BY <1>3 DEF Host!Stage, Host!Goto
  <2>1. PICK u : u = [v EXCEPT !.at = "run", !.frames = @ + 1, !.read = Host!txGet(v, k)]
    OBVIOUS
  <2>2. k \in Contract /\ v.frames \in Nat /\ slot[k] \in Nat /\ v.overlay[k] \in Nat \cup {-1}
    BY <1>1 DEF FrameRec, HostInv, HostTyped
  <2>3. Host!txGet(v, k) \in Nat /\ Host!txGet(v, k) = IF v.overlay[k] # -1 THEN v.overlay[k] ELSE slot[k]
    BY <2>2 DEF Host!txGet, Host!Unwritten
  <2>4. u \in FrameRec(coins)
    <3>1. u = [at |-> "run", overlay |-> v.overlay, queue |-> v.queue, inputs |-> v.inputs, fee |-> v.fee,
               frames |-> v.frames + 1, read |-> Host!txGet(v, k), spent |-> v.spent, outs |-> v.outs, ran |-> v.ran]
      BY <1>1, <2>1 DEF FrameRec
    <3>2. v.frames + 1 \in Nat
      BY <2>2
    <3> QED
      BY <1>1, <2>3, <3>1, <3>2 DEF FrameRec
  <2>5. /\ u.at = "run" /\ u.queue = v.queue /\ u.frames # 0 /\ u.overlay = v.overlay /\ u.ran = v.ran
        /\ u.read = Host!txGet(v, k)
    BY <1>1, <2>1, <2>2 DEF FrameRec
  <2>6. Shaped(u)
    BY <1>1, <2>5 DEF Shaped
  <2>7. callsOverlap' \in BOOLEAN
    BY <2>0 DEF HostInv, HostTyped
  <2>8. hostCall' = [hostCall EXCEPT ![c] = u]
    BY <2>0, <2>1
  <2>9. ~callsOverlap' => ~callsOverlap /\ \A d \in Caller \ {c} : hostCall[d] = Host!NoHostCall
    BY <2>0 DEF Host!Busy
  <2>10. ~callsOverlap' => Tracks(u, slot)
    <3> SUFFICES ASSUME ~callsOverlap' PROVE Tracks(u, slot)
      OBVIOUS
    <3>1. Tracks(v, slot)
      BY <1>1, <2>9 DEF HostInv, FramesOk, FramesKept
    <3>2. v.ran \in [Contract -> Nat] /\ slot \in [Contract -> Nat]
      BY <1>1 DEF FrameRec, HostInv, HostTyped
    <3>3. u.read = slot[k] + v.ran[k]
      BY <2>2, <2>3, <2>5, <3>1, <3>2 DEF Tracks
    <3> QED
      BY <2>5, <3>1, <3>3 DEF Tracks
  <2>11. (HostTyped /\ AllShaped /\ ValueOk)'
    BY <1>1, <2>0, <2>4, <2>6, <2>7, <2>8, Moved
  <2>12. FramesOk'
    BY <1>1, <2>0, <2>4, <2>8, <2>9, <2>10, MovedFrames
  <2> QED
    BY <2>11, <2>12 DEF HostInv
<1> QED
  BY <1>2, <1>3

\* What the frame did goes to the overlay, which counts one frame more.
LEMMA HostFolds ==
  ASSUME HostInv, NEW c \in Caller, NEW spend \in SUBSET coins, NEW out \in Create, NEW send \in BOOLEAN,
         Host!Fold(c, spend, out, send)
  PROVE  HostInv'
<1> DEFINE v == hostCall[c]
           k == Head(v.queue)
           queue == Tail(v.queue) \o (IF send THEN <<Peer[k]>> ELSE <<>>)
<1>1. v \in FrameRec(coins) /\ v.at = "run" /\ v.queue # <<>> /\ v.frames # 0
  BY DEF HostInv, HostTyped, Host!Fold, Host!NoHostCall, ApplyRec, AllShaped, Shaped
<1>2. PICK u : u = [v EXCEPT !.at = IF queue = <<>> THEN "check" ELSE "stage",
                           !.overlay[k] = v.read + 1, !.queue = queue, !.inputs = {},
                           !.spent = @ \cup spend, !.ran[k] = @ + 1,
                           !.outs = IF out = 0 THEN @ ELSE Append(@, [from |-> k, amount |-> out])]
  OBVIOUS
<1>3. /\ hostCall' = [hostCall EXCEPT ![c] = u]
      /\ UNCHANGED <<slot, coins, spentMark, framesDone, fees, callsOverlap, appliesOverlap>>
  BY <1>2 DEF Host!Fold, Host!Goto
<1>4. /\ k \in Contract /\ v.read \in Nat /\ v.ran \in [Contract -> Nat] /\ v.overlay \in [Contract -> Nat \cup {-1}]
      /\ v.outs \in Seq([from : Contract, amount : Nat \ {0}]) /\ v.queue \in Seq(Contract)
  BY <1>1 DEF FrameRec
<1>5. queue \in Seq(Contract)
  BY <1>1, <1>4, HostAssumption DEF HostAssumption
<1>6. /\ u.at = IF queue = <<>> THEN "check" ELSE "stage"
      /\ u.overlay = [v.overlay EXCEPT ![k] = v.read + 1] /\ u.queue = queue /\ u.inputs = {}
      /\ u.spent = v.spent \cup spend /\ u.ran = [v.ran EXCEPT ![k] = v.ran[k] + 1]
      /\ u.outs = IF out = 0 THEN v.outs ELSE Append(v.outs, [from |-> k, amount |-> out])
      /\ u.frames = v.frames
  BY <1>1, <1>2 DEF FrameRec
<1> HIDE DEF queue
<1>7. u.outs \in Seq([from : Contract, amount : Nat \ {0}])
  <2>1. out \in Nat
    BY HostAssumption DEF HostAssumption
  <2>2. out # 0 => [from |-> k, amount |-> out] \in [from : Contract, amount : Nat \ {0}]
    BY <2>1, <1>4
  <2> DEFINE T == [from : Contract, amount : Nat \ {0}]
             o == [from |-> k, amount |-> out]
  <2>3. v.outs \in Seq(T) /\ (out # 0 => o \in T) /\ u.outs = IF out = 0 THEN v.outs ELSE Append(v.outs, o)
    BY <1>4, <1>6, <2>2
  <2> HIDE DEF T, o
  <2>4. u.outs \in Seq(T)
    BY <2>3
  <2> QED
    BY <2>4 DEF T
<1>8. u \in FrameRec(coins)
  <2>1. u.at \in {"stage", "run", "check"} /\ u.inputs \in SUBSET coins
    BY <1>6
  <2>3. u.spent \in SUBSET coins
    BY <1>1, <1>6 DEF FrameRec
  <2>4. u.overlay \in [Contract -> Nat \cup {-1}]
    BY <1>4, <1>6
  <2>5. u.ran \in [Contract -> Nat]
    BY <1>4, <1>6
  <2>2. u = [at |-> u.at, overlay |-> u.overlay, queue |-> u.queue, inputs |-> u.inputs, fee |-> v.fee,
             frames |-> v.frames, read |-> v.read, spent |-> u.spent, outs |-> u.outs, ran |-> u.ran]
    BY <1>1, <1>2 DEF FrameRec
  <2> QED
    <3>1. u.queue \in Seq(Contract) /\ v.fee \in Nat /\ v.frames \in Nat /\ v.read \in Nat
      BY <1>1, <1>5, <1>6 DEF FrameRec
    <3> QED
      BY <1>7, <2>1, <2>2, <2>3, <2>4, <2>5, <3>1 DEF FrameRec
<1>9. Shaped(u)
  BY <1>1, <1>4, <1>6 DEF Shaped
<1>10. callsOverlap' \in BOOLEAN /\ (~callsOverlap' => ~callsOverlap)
  BY <1>3 DEF HostInv, HostTyped
<1>11. Started(v) /\ u.at # "run" /\ u.frames # 0
  BY <1>1, <1>6 DEF Started
<1>12. ~callsOverlap' => Tracks(u, slot)
  <2> SUFFICES ASSUME ~callsOverlap' PROVE Tracks(u, slot)
    OBVIOUS
  <2>1. Tracks(v, slot)
    BY <1>1, <1>10 DEF HostInv, FramesOk, FramesKept
  <2>2. v.read = slot[k] + v.ran[k] /\ slot \in [Contract -> Nat]
    BY <1>1, <2>1 DEF Tracks, HostInv, HostTyped
  <2>3. \A x \in Contract : u.overlay[x] = IF u.ran[x] = 0 THEN -1 ELSE slot[x] + u.ran[x]
    <3> SUFFICES ASSUME NEW x \in Contract PROVE u.overlay[x] = IF u.ran[x] = 0 THEN -1 ELSE slot[x] + u.ran[x]
      OBVIOUS
    <3>1. CASE x = k
      <4>1. u.overlay[x] = v.read + 1 /\ u.ran[x] = v.ran[k] + 1 /\ v.ran[k] \in Nat /\ slot[x] = slot[k] /\ slot[k] \in Nat
        BY <3>1, <1>4, <1>6, <2>2
      <4> QED
        BY <4>1, <2>2
    <3>2. CASE x # k
      <4>1. u.overlay[x] = v.overlay[x] /\ u.ran[x] = v.ran[x]
        BY <3>2, <1>4, <1>6
      <4> QED
        BY <4>1, <2>1 DEF Tracks
    <3> QED
      BY <3>1, <3>2
  <2> QED
    BY <2>3, <1>11 DEF Tracks
<1>13. (HostTyped /\ AllShaped /\ ValueOk)'
  BY <1>1, <1>3, <1>8, <1>9, <1>10, Moved
<1>14. FramesOk'
  BY <1>1, <1>3, <1>8, <1>10, <1>11, <1>12, MovedFrames
<1> QED
  BY <1>13, <1>14 DEF HostInv

\* What a call that did not start tracks, it tracks whatever the slots are.
LEMMA TracksUnstarted ==
  ASSUME NEW v, NEW s, NEW s2, Tracks(v, s), v.at = "stage", ~Started(v)
  PROVE  Tracks(v, s2)
  BY DEF Tracks, Started

\* One insert of a call that is being applied, the first one or a later one.
LEMMA HostInserts ==
  ASSUME HostInv, NEW c \in Caller, NEW w \in InsertRec(coins), NEW u \in ApplyRec(coins),
         Host!Inserted(w), hostCall' = [hostCall EXCEPT ![c] = u],
         Started(hostCall[c]), UNCHANGED <<framesDone, fees, callsOverlap>>, appliesOverlap' \in BOOLEAN,
         ~appliesOverlap' =>
           /\ ~appliesOverlap
           /\ \A d \in Caller \ {c} : hostCall[d].at # "apply"
           /\ Balanced(CoinsOf(coins, {w} \cup Elems(u.todo)), MarkOf(spentMark, {w} \cup Elems(u.todo)), fees + Due(u)),
         ~callsOverlap => Lands({w} \cup Elems(u.todo), u.ran, slot, framesDone)
  PROVE  HostInv'
<1> DEFINE E == Elems(u.todo)
<1>1. /\ slot' \in [Contract -> Nat]
      /\ coins \subseteq coins' /\ IsFiniteSet(coins') /\ spentMark' \subseteq coins'
      /\ \A x \in coins' : x.out.amount \in Nat
  BY InsertedTyped DEF HostInv
<1>2. hostCall' \in [Caller -> {Host!NoHostCall} \cup FrameRec(coins') \cup ApplyRec(coins')]
  <2>1. PICK D : D = coins'
    OBVIOUS
  <2>2. FrameRec(coins) \subseteq FrameRec(D) /\ ApplyRec(coins) \subseteq ApplyRec(D)
    BY <1>1, <2>1, MoreCoins
  <2>3. hostCall' \in [Caller -> {Host!NoHostCall} \cup FrameRec(coins) \cup ApplyRec(coins)]
    BY DEF HostInv, HostTyped
  <2>4. hostCall' \in [Caller -> {Host!NoHostCall} \cup FrameRec(D) \cup ApplyRec(D)]
    BY <2>2, <2>3
  <2> QED
    BY <2>1, <2>4 DEF FrameRec, ApplyRec, InsertRec
<1>3. HostTyped'
  BY <1>1, <1>2 DEF HostInv, HostTyped
<1>4. /\ hostCall'[c] = u /\ u.at = "apply"
      /\ \A d \in Caller \ {c} : hostCall'[d] = hostCall[d]
  BY DEF HostInv, HostTyped, ApplyRec
<1>5. AllShaped'
  <2>1. \A d \in Caller : Shaped(hostCall'[d])
    BY <1>4 DEF HostInv, AllShaped, Shaped
  <2> QED
    BY <2>1 DEF AllShaped, Shaped
<1>6. ValueOk'
  <2> SUFFICES ASSUME ~appliesOverlap' PROVE ValueKept'
    BY DEF ValueOk
  <2>1. /\ MarkOf(spentMark', E) = MarkOf(spentMark, {w} \cup E)
        /\ CoinsOf(coins', E) = CoinsOf(coins, {w} \cup E)
    <3>1. /\ MarkOf(IF w.what = "spend" THEN spentMark \cup {w.id} ELSE spentMark, E) = MarkOf(spentMark, {w} \cup E)
          /\ CoinsOf(IF w.what = "utxo" THEN coins \cup {w.id} ELSE coins, E) = CoinsOf(coins, {w} \cup E)
      <4>1. spentMark \in SUBSET coins
        BY DEF HostInv, HostTyped
      <4>2. MarkOf(IF w.what = "spend" THEN spentMark \cup {w.id} ELSE spentMark, E) = MarkOf(spentMark, {w} \cup E)
        <5> HIDE DEF E
        <5> QED
          BY DEF MarkOf
      <4>3. CoinsOf(IF w.what = "utxo" THEN coins \cup {w.id} ELSE coins, E) = CoinsOf(coins, {w} \cup E)
        BY <4>1, InsertedKeeps
      <4> QED
        BY <4>2, <4>3
    <3>2. /\ spentMark' = IF w.what = "spend" THEN spentMark \cup {w.id} ELSE spentMark
          /\ coins' = IF w.what = "utxo" THEN coins \cup {w.id} ELSE coins
      BY DEF Host!Inserted
    <3> QED
      BY <3>1, <3>2 DEF MarkOf, CoinsOf
  <2>2. \A d \in Caller : hostCall'[d].at = "apply" => d = c
    BY <1>4
  <2>3. Balanced(CoinsOf(coins', E), MarkOf(spentMark', E), fees' + Due(u))
    BY <2>1
  <2>4. \A d \in Caller : hostCall'[d].at = "apply" =>
          Balanced(CoinsOf(coins', Elems(hostCall'[d].todo)), MarkOf(spentMark', Elems(hostCall'[d].todo)),
                   fees' + Due(hostCall'[d]))
    BY <1>4, <2>2, <2>3
  <2>5. \E d \in Caller : hostCall'[d].at = "apply"
    BY <1>4
  <2> QED
    BY <2>2, <2>4, <2>5 DEF ValueKept, Balanced, CoinsOf, MarkOf, Due, Elems
<1>7. FramesOk'
  <2> SUFFICES ASSUME ~callsOverlap' PROVE FramesKept'
    BY DEF FramesOk
  <2>1. FramesKept /\ ~callsOverlap
    BY DEF HostInv, FramesOk
  <2>2. \A d \in Caller \ {c} : ~Started(hostCall[d])
    BY <2>1 DEF FramesKept
  <2>3. \A d \in Caller : Started(hostCall'[d]) => d = c
    BY <1>4, <2>2
  <2>4. \A d \in Caller : hostCall'[d].at \in {"stage", "run", "check"} => Tracks(hostCall'[d], slot')
    <3> SUFFICES ASSUME NEW d \in Caller, hostCall'[d].at \in {"stage", "run", "check"}
                 PROVE  Tracks(hostCall'[d], slot')
      OBVIOUS
    <3>1. d # c /\ hostCall'[d] = hostCall[d] /\ ~Started(hostCall[d])
      BY <1>4, <2>2
    <3>2. hostCall[d].at = "stage" /\ Tracks(hostCall[d], slot)
      BY <3>1, <2>1 DEF Started, FramesKept
    <3>3. PICK s : s = slot'
      OBVIOUS
    <3>4. PICK v : v = hostCall[d]
      OBVIOUS
    <3>5. PICK s0 : s0 = slot
      OBVIOUS
    <3>6. Tracks(v, s)
      BY <3>1, <3>2, <3>4, <3>5, TracksUnstarted
    <3> QED
      BY <3>1, <3>3, <3>4, <3>6
  <2>5. Lands(E, u.ran, slot', framesDone')
    <3>1. u.ran \in [Contract -> Nat]
      BY DEF ApplyRec
    <3> QED
      BY <2>1, <3>1, LandsOn DEF HostInv, HostTyped, Host!Inserted
  <2>6. \A d \in Caller : hostCall'[d].at = "apply" =>
          Lands(Elems(hostCall'[d].todo), hostCall'[d].ran, slot', framesDone')
    BY <1>4, <2>3, <2>5 DEF Started
  <2>7. \E d \in Caller : hostCall'[d].at = "apply"
    BY <1>4
  <2> QED
    BY <2>3, <2>4, <2>6, <2>7 DEF FramesKept, Started, Tracks, Lands, Elems, Pending
<1> QED
  BY <1>3, <1>5, <1>6, <1>7 DEF HostInv

\* The check: in = out + fee, or nothing.
LEMMA HostChecks ==
  ASSUME HostInv, NEW c \in Caller, Host!Check(c)
  PROVE  HostInv'
<1> DEFINE v == hostCall[c]
           q == Host!Inserts(v)
<1>1. v \in FrameRec(coins) /\ v.at = "check" /\ Shaped(v)
  BY DEF HostInv, HostTyped, Host!Check, Host!NoHostCall, ApplyRec, AllShaped
<1>2. CASE ~Host!Conserved(v)
  <2>1. Host!Reverted(c) /\ UNCHANGED <<callsOverlap, appliesOverlap>>
    BY <1>2 DEF Host!Check
  <2> QED
    BY <1>1, <2>1, HostReverts
<1>3. CASE Host!Conserved(v)
  <2> DEFINE u == [at |-> "apply", todo |-> Tail(q), ran |-> v.ran, spent |-> v.spent, outs |-> v.outs, fee |-> v.fee]
  <2>1. /\ Host!Inserted(Head(q)) /\ hostCall' = [hostCall EXCEPT ![c] = u]
        /\ appliesOverlap' = (appliesOverlap \/ \E d \in Caller \ {c} : Host!Applying(d))
        /\ UNCHANGED <<framesDone, fees, callsOverlap>>
    BY <1>3 DEF Host!Check, Host!Goto
  <2>2. IsFiniteSet(coins) /\ IsFiniteSet(Contract)
    BY HostAssumption DEF HostInv, HostTyped, HostAssumption
  <2>3. /\ q \in Seq(InsertRec(coins))
        /\ \A k \in Contract : v.overlay[k] # -1 => [what |-> "slot", id |-> k, value |-> v.overlay[k]] \in Elems(q)
    BY <1>1, <2>2, InsertsHave
  <2>4. q # <<>>
    BY <1>1, <2>3, ElemsOf DEF Shaped
  <2> HIDE DEF q
  <2>5. Elems(q) = {Head(q)} \cup Elems(Tail(q)) /\ Head(q) \in InsertRec(coins) /\ Tail(q) \in Seq(InsertRec(coins))
    BY <2>3, <2>4, ElemsOf
  <2>6. u \in ApplyRec(coins) /\ u.todo = Tail(q) /\ u.ran = v.ran /\ Due(u) = Due(v)
    BY <1>1, <2>5 DEF FrameRec, ApplyRec, Due
  <2>7. Started(v)
    BY <1>1 DEF Started
  <2>8. appliesOverlap' \in BOOLEAN
    BY <2>1 DEF HostInv, HostTyped
  <2>9. ASSUME ~appliesOverlap'
        PROVE  /\ ~appliesOverlap
               /\ \A d \in Caller \ {c} : hostCall[d].at # "apply"
               /\ Balanced(CoinsOf(coins, Elems(q)), MarkOf(spentMark, Elems(q)), fees + Due(v))
    <3>1. ~appliesOverlap /\ \A d \in Caller : hostCall[d].at # "apply"
      BY <2>9, <2>1, <1>1 DEF Host!Applying
    <3>2. Balanced(coins, spentMark, fees)
      BY <3>1 DEF HostInv, ValueOk, ValueKept
    <3>3. /\ v.spent # {} \/ v.outs # <<>> =>
               v.spent \cap spentMark = {} /\ Host!Worth(v.spent) = Host!SumOf(v.outs) + v.fee
      BY <1>3 DEF Host!Conserved
    <3>4. spentMark \in SUBSET coins /\ fees \in Nat /\ \A x \in coins : x.out.amount \in Nat
      BY DEF HostInv, HostTyped
    <3> QED
      BY <1>1, <2>2, <3>1, <3>2, <3>3, <3>4, HostAssumption, BalancedByCheck DEF q
  <2>10. ASSUME ~callsOverlap  PROVE Lands(Elems(q), v.ran, slot, framesDone)
    <3>1. FramesKept /\ Tracks(v, slot) /\ slot \in [Contract -> Nat]
      BY <2>10, <1>1 DEF HostInv, FramesOk, FramesKept, HostTyped
    <3>2. \A d \in Caller : hostCall[d].at # "apply"
      BY <1>1, <2>7, <3>1 DEF FramesKept, Started
    <3>3. slot = framesDone
      BY <3>1, <3>2 DEF FramesKept
    <3>4. Lands(Elems(q), v.ran, slot, slot)
      BY <1>1, <2>2, <3>1, HostAssumption, LandsAtCheck DEF q
    <3> QED
      BY <3>3, <3>4
  <2> HIDE DEF u
  <2> QED
    BY <2>1, <2>5, <2>6, <2>7, <2>8, <2>9, <2>10, HostInserts
<1> QED
  BY <1>2, <1>3

\* A later insert, or the end of the call.
LEMMA HostApplies ==
  ASSUME HostInv, NEW c \in Caller, Host!Apply(c)
  PROVE  HostInv'
<1> DEFINE v == hostCall[c]
<1>1. v \in ApplyRec(coins) /\ v.at = "apply" /\ Started(v)
  <2>1. v.at = "apply" /\ v \in {Host!NoHostCall} \cup FrameRec(coins) \cup ApplyRec(coins)
    BY DEF HostInv, HostTyped, Host!Apply
  <2>2. v \notin FrameRec(coins) /\ v # Host!NoHostCall
    BY <2>1 DEF FrameRec, Host!NoHostCall
  <2> QED
    BY <2>1, <2>2 DEF Started
<1>2. CASE v.todo # <<>>
  <2> DEFINE u == [v EXCEPT !.todo = Tail(@)]
             w == Head(v.todo)
  <2>1. /\ Host!Inserted(w) /\ hostCall' = [hostCall EXCEPT ![c] = u]
        /\ UNCHANGED <<framesDone, fees, callsOverlap, appliesOverlap>>
    BY <1>2 DEF Host!Apply, Host!Goto
  <2>2. Elems(v.todo) = {w} \cup Elems(Tail(v.todo)) /\ w \in InsertRec(coins) /\ Tail(v.todo) \in Seq(InsertRec(coins))
    BY <1>1, <1>2, ElemsOf DEF ApplyRec
  <2>3. u \in ApplyRec(coins) /\ u.todo = Tail(v.todo) /\ u.ran = v.ran /\ Due(u) = Due(v)
    BY <1>1, <2>2 DEF ApplyRec, Due
  <2> HIDE DEF u, w
  <2>4. appliesOverlap' \in BOOLEAN
    BY <2>1 DEF HostInv, HostTyped
  <2>5. ASSUME ~appliesOverlap'
        PROVE  /\ ~appliesOverlap
               /\ \A d \in Caller \ {c} : hostCall[d].at # "apply"
               /\ Balanced(CoinsOf(coins, {w} \cup Elems(u.todo)), MarkOf(spentMark, {w} \cup Elems(u.todo)), fees + Due(u))
    <3>1. ~appliesOverlap /\ ValueKept
      BY <2>5, <2>1 DEF HostInv, ValueOk
    <3> QED
      BY <1>1, <2>2, <2>3, <3>1 DEF ValueKept
  <2>6. ASSUME ~callsOverlap  PROVE Lands({w} \cup Elems(u.todo), u.ran, slot, framesDone)
    BY <2>6, <1>1, <2>2, <2>3 DEF HostInv, FramesOk, FramesKept
  <2> QED
    BY <1>1, <2>1, <2>2, <2>3, <2>4, <2>5, <2>6, HostInserts
<1>3. CASE v.todo = <<>>
  <2>1. /\ hostCall' = [hostCall EXCEPT ![c] = Host!NoHostCall]
        /\ framesDone' = [k \in Contract |-> framesDone[k] + v.ran[k]] /\ fees' = fees + Due(v)
        /\ UNCHANGED <<slot, coins, spentMark, callsOverlap, appliesOverlap>>
    BY <1>3 DEF Host!Apply, Host!Goto, Host!Finished, Due
  <2>2. v.ran \in [Contract -> Nat] /\ Due(v) \in Nat
    BY <1>1 DEF ApplyRec, Due
  <2>3. HostTyped'
    <3>1. fees' \in Nat /\ framesDone' \in [Contract -> Nat]
      BY <2>1, <2>2 DEF HostInv, HostTyped
    <3>2. hostCall' \in [Caller -> {Host!NoHostCall} \cup FrameRec(coins) \cup ApplyRec(coins)]
      BY <2>1 DEF HostInv, HostTyped
    <3> QED
      BY <2>1, <3>1, <3>2 DEF HostInv, HostTyped
  <2>4. /\ hostCall'[c] = Host!NoHostCall /\ Host!NoHostCall.at = "idle" /\ ~Started(Host!NoHostCall)
        /\ \A d \in Caller \ {c} : hostCall'[d] = hostCall[d]
    BY <2>1 DEF HostInv, HostTyped, Host!NoHostCall, Started
  <2>5. AllShaped'
    <3>1. \A d \in Caller : Shaped(hostCall'[d])
      BY <2>4 DEF HostInv, AllShaped, Shaped
    <3> QED
      BY <3>1 DEF AllShaped, Shaped
  <2>6. Elems(v.todo) = {}
    BY <1>3, ElemsOf
  <2>7. ValueOk'
    <3> SUFFICES ASSUME ~appliesOverlap' PROVE ValueKept'
      BY DEF ValueOk
    <3>1. ValueKept
      BY <2>1 DEF HostInv, ValueOk
    <3>2. Balanced(CoinsOf(coins, {}), MarkOf(spentMark, {}), fees + Due(v))
      BY <1>1, <2>6, <3>1 DEF ValueKept
    <3>3. CoinsOf(coins, {}) = coins /\ MarkOf(spentMark, {}) = spentMark
      BY DEF CoinsOf, MarkOf
    <3>4. Balanced(coins', spentMark', fees')
      BY <2>1, <3>2, <3>3
    <3>5. \A d \in Caller : hostCall'[d].at # "apply"
      BY <1>1, <2>4, <3>1 DEF ValueKept
    <3> QED
      BY <3>4, <3>5 DEF ValueKept, Balanced
  <2>8. FramesOk'
    <3> SUFFICES ASSUME ~callsOverlap' PROVE FramesKept'
      BY DEF FramesOk
    <3>1. FramesKept
      BY <2>1 DEF HostInv, FramesOk
    <3>2. \A d \in Caller : ~Started(hostCall'[d])
      BY <1>1, <2>4, <3>1 DEF FramesKept
    <3>3. Lands({}, v.ran, slot, framesDone)
      BY <1>1, <2>6, <3>1 DEF FramesKept
    <3>4. slot' = framesDone'
      <4>1. \A k \in Contract : slot[k] = framesDone[k] + v.ran[k]
        BY <3>3 DEF Lands, Pending
      <4>2. slot = [k \in Contract |-> slot[k]]
        BY DEF HostInv, HostTyped
      <4> QED
        BY <2>1, <4>1, <4>2
    <3>5. \A d \in Caller : hostCall'[d].at \in {"stage", "run", "check"} => Tracks(hostCall'[d], slot')
      BY <2>1, <2>4, <3>1 DEF FramesKept
    <3>6. \A d \in Caller : hostCall'[d].at # "apply"
      BY <3>2 DEF Started
    <3> QED
      BY <3>2, <3>4, <3>5, <3>6 DEF FramesKept, Started, Tracks, Lands, Elems, Pending
  <2> QED
    BY <2>3, <2>5, <2>7, <2>8 DEF HostInv
<1> QED
  BY <1>2, <1>3

\* Every step of the calls.
LEMMA HostNext == HostInv /\ [Host!Next]_(Host!hostVars) => HostInv'
<1> SUFFICES ASSUME HostInv, [Host!Next]_(Host!hostVars) PROVE HostInv'
  OBVIOUS
<1>1. CASE UNCHANGED Host!hostVars
  <2>1. UNCHANGED <<slot, coins, spentMark, hostCall, framesDone, fees, callsOverlap, appliesOverlap>>
    BY <1>1 DEF Host!hostVars
  <2>2. HostTyped'
    BY <2>1 DEF HostInv, HostTyped
  <2>3. AllShaped'
    BY <2>1 DEF HostInv, AllShaped
  <2>4. ValueOk'
    BY <2>1 DEF HostInv, ValueOk, ValueKept
  <2>5. FramesOk'
    BY <2>1 DEF HostInv, FramesOk, FramesKept
  <2> QED
    BY <2>2, <2>3, <2>4, <2>5 DEF HostInv
<1>2. ASSUME NEW c \in Caller, NEW k \in Contract, NEW ins \in SUBSET coins, NEW fee \in {0, 1}, NEW a \in BOOLEAN,
             Host!CallContract(c, k, ins, fee, a)
      PROVE  HostInv'
  BY <1>2, HostCalls
<1>3. ASSUME NEW c \in Caller, NEW spend \in SUBSET coins, NEW out \in Create, NEW send \in BOOLEAN,
             Host!Fold(c, spend, out, send)
      PROVE  HostInv'
  BY <1>3, HostFolds
<1>4. ASSUME NEW c \in Caller, Host!Stage(c) \/ Host!Check(c) \/ Host!Apply(c)  PROVE HostInv'
  BY <1>4, HostStages, HostChecks, HostApplies
<1>5. ASSUME NEW c \in Caller, Host!Trap(c)  PROVE HostInv'
  BY <1>5, HostReverts DEF Host!Trap
<1> QED
  BY <1>1, <1>2, <1>3, <1>4, <1>5 DEF Host!Next

\* With none being applied the two parts are what was claimed.
LEMMA NoMintFollows == HostInv => NoMint
<1> SUFFICES ASSUME HostInv PROVE NoMint
  OBVIOUS
<1>1. Host!NoMint
  <2> SUFFICES ASSUME \A c \in Caller : hostCall[c].at # "apply", ~appliesOverlap
               PROVE  Host!Unspent + fees = Host!Worth(Coin)
    BY DEF Host!NoMint, Host!Quiet, Host!Applying
  <2> QED
    BY DEF HostInv, ValueOk, ValueKept, Balanced, Host!Unspent
<1>2. Host!FramesCount
  BY DEF HostInv, FramesOk, FramesKept, Host!FramesCount, Host!Quiet, Host!Applying
<1> QED
  BY <1>1, <1>2 DEF NoMint

\* Calls make no value and lose none of their frames, however many are under way, as long as no two were
\* applied at once, and no two ran at once.
THEOREM NoMintHolds == Spec => []NoMint
<1>1. Init => HostInv
  BY HostInit
<1>2. HostInv /\ [Next]_vars => HostInv'
  <2>1. [Next]_vars => [Host!Next]_(Host!hostVars)
    BY DEF Next, vars, hostVars, Host!hostVars
  <2> QED
    BY <2>1, HostNext
<1> QED
  BY <1>1, <1>2, NoMintFollows, PTL DEF Spec

=============================================================================
