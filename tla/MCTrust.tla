------------------------------ MODULE MCTrust ------------------------------
(***************************************************************************)
(* Identities, signatures, authorisations and contracts of a node, and the *)
(* control socket that serves them, on small instances.  They share no     *)
(* state, so each behaviour exercises one of them, the one Init chooses.   *)
(* The comment of each part, in the module it comes from, names the races  *)
(* that the part leaves out.  The parts that are proved about keep their   *)
(* constants, which the configuration gives values; the others have theirs *)
(* where they are instantiated.                                            *)
(***************************************************************************)
EXTENDS Integers, Sequences, FiniteSets, TLC

CONSTANTS
  Root, Aud, Grant, Token, Action, Nonce, Call, SweepEvery, MaxClock, MaxCalls, MaxRestart,  \* Delegation
  Proc, Agent, MaxEnsure, MaxDeath,                                   \* Keystore
  Holder, Ring, MinSealN, Authorising, MaxKey,                        \* Settlement
  KeyName, Body, Scheme, MemoMax,                                     \* Signing
  Contract, Gated, Peer, Coin, Create, Caller, MaxFrames, MaxHostCalls,  \* calls of ContractHost
  Code, Kind, MaxWirings,                                             \* and its wiring
  Anchor, MaxWrites, MaxAdmits, Faults,                               \* ControlSocket
  Module, StateKey, MaxOps, MaxRestarts                               \* its contract operations

VARIABLES
  focus,
  clock, durable, used, sweep, burned, call, granted, excused, callsMade, delegationRestarts,
  masterFile, agentFile, proc, answers, overlapped, ensures, deaths,
  envelope, funded, released, minted,
  signer, signed, origin, verifyMemo, lastVerify, selfTest,
  slot, coins, spentMark, hostCall, framesDone, fees, callsOverlap, appliesOverlap, hostCalls,
  guest, kv, meant, effects, host, handles,
  registry, deployRows, receiptRows, counter, anchoring, sealed, bumps, redeployed, unanchored, ops, reboots,
  contracts, wirings, disturbed, remade,
  blockRows, treeKeys, gone, chainCount, writing, lastApplied, reader, settledChain, reply, leftBy,
    heldPairs, scanRaced, threw, writeCount, admits

delegationVars == <<clock, durable, used, sweep, burned, call, granted, excused, callsMade,
    delegationRestarts>>
keystoreVars == <<masterFile, agentFile, proc, answers, overlapped, ensures, deaths>>
settlementVars == <<envelope, funded, released, minted>>
signingVars == <<signer, signed, origin, verifyMemo, lastVerify, selfTest>>
hostVars == <<slot, coins, spentMark, hostCall, framesDone, fees, callsOverlap, appliesOverlap, hostCalls>>
abiVars == <<guest, kv, meant, effects, host, handles>>
opsVars == <<registry, deployRows, receiptRows, counter, anchoring, sealed, bumps, redeployed,
    unanchored, ops, reboots>>
linksVars == <<contracts, wirings, disturbed, remade>>
socketVars == <<blockRows, treeKeys, gone, chainCount, writing, lastApplied, reader, settledChain, reply,
    leftBy, heldPairs, scanRaced, threw, writeCount, admits>>

\* A name of a process is not one of the two states of a key file without a key.
ASSUME ProcAssumption == "none" \notin Proc /\ "empty" \notin Proc

\* Dimensions of lattice keys are numbers.
ASSUME RingAssumption == Ring \in [Holder -> Nat] /\ MinSealN \in Nat

\* Times of validity are seconds.
ASSUME ValidityAssumption ==
  \A x \in Grant \cup Token : x.nbf \in Nat /\ x.exp \in Nat

\* A host knows finitely many contracts, and a contract's peer is one; amounts are numbers, and the coins there are at the start come from no other.
ASSUME HostAssumption ==
  /\ IsFiniteSet(Contract) /\ Peer \in [Contract -> Contract] /\ Create \subseteq Nat
  /\ IsFiniteSet(Coin) /\ \A u \in Coin : u.out.amount \in Nat /\ u.of = {}

\* What a deploy may say of the bytes.
ASSUME KindAssumption == Kind \subseteq [wordAbi : BOOLEAN, byteState : BOOLEAN, fields : Int]

Authority == INSTANCE Delegation WITH restarts <- delegationRestarts

Keys == INSTANCE Keystore

Escrow == INSTANCE Settlement WITH Contract <- Authorising

Signatures == INSTANCE Signing

Host == INSTANCE ContractHost

Imports == INSTANCE HostAbi WITH
  Base <- 2, WordBytes <- 2, MemBytes <- 3, Peers <- 2, Reads <- (<<0, 1>> :> <<1, 1>>), Proved <- {1},
  Inputs <- (1 :> 5), MaxEffects <- 1

Socket == INSTANCE ControlSocket WITH restarts <- reboots

Init ==
  /\ focus \in {"delegation", "keystore", "settlement", "signing", "host", "abi", "ops", "links", "socket"}
  /\ Authority!Init /\ Keys!Init /\ Escrow!Init /\ Signatures!Init /\ Host!Init /\ Imports!Init /\ Socket!OpsInit /\ Host!LinkInit /\ Socket!Init
  /\ focus # "delegation" => durable = FALSE
  /\ focus # "signing" => signer = CHOOSE pair \in [pub : KeyName, priv : KeyName, scheme : Scheme] : TRUE

Next ==
  /\ UNCHANGED focus
  /\ \/ /\ focus = "delegation" /\ Authority!Next
        /\ UNCHANGED <<keystoreVars, settlementVars, signingVars, hostVars, abiVars, opsVars, linksVars,
             socketVars>>
     \/ /\ focus = "keystore" /\ Keys!Next
        /\ UNCHANGED <<delegationVars, settlementVars, signingVars, hostVars, abiVars, opsVars,
             linksVars, socketVars>>
     \/ /\ focus = "settlement" /\ Escrow!Next
        /\ UNCHANGED <<delegationVars, keystoreVars, signingVars, hostVars, abiVars, opsVars, linksVars,
             socketVars>>
     \/ /\ focus = "signing" /\ Signatures!Next
        /\ UNCHANGED <<delegationVars, keystoreVars, settlementVars, hostVars, abiVars, opsVars,
             linksVars, socketVars>>
     \/ /\ focus = "host" /\ Host!Next
        /\ UNCHANGED <<delegationVars, keystoreVars, settlementVars, signingVars, abiVars, opsVars,
             linksVars, socketVars>>
     \/ /\ focus = "abi" /\ Imports!Next
        /\ UNCHANGED <<delegationVars, keystoreVars, settlementVars, signingVars, hostVars, opsVars,
             linksVars, socketVars>>
     \/ /\ focus = "ops" /\ Socket!OpsNext
        /\ UNCHANGED <<delegationVars, keystoreVars, settlementVars, signingVars, hostVars, abiVars,
             linksVars, socketVars>>
     \/ /\ focus = "links" /\ Host!LinkNext
        /\ UNCHANGED <<delegationVars, keystoreVars, settlementVars, signingVars, hostVars, abiVars,
             opsVars, socketVars>>
     \/ /\ focus = "socket" /\ Socket!Next
        /\ UNCHANGED <<delegationVars, keystoreVars, settlementVars, signingVars, hostVars, abiVars,
             opsVars, linksVars>>

vars == <<focus, delegationVars, keystoreVars, settlementVars, signingVars, hostVars, abiVars, opsVars,
    linksVars, socketVars>>

Spec == Init /\ [][Next]_vars

\* A signed action authorises once, though verifications overlap, entries are swept and the
\* registry restarts; what is authorised has a chain from the root that holds at that moment, and a
\* burned token authorises nothing more.
AuthorisedOnce == focus = "delegation" => Authority!OncePerNonce /\ Authority!Delegated /\ Authority!BurnedStops

\* Every identity on disk decrypts under the master key on disk, and one that was answered is never
\* replaced, though processes create both at once and die in between.
IdentityKept == focus = "keystore" => Keys!Loadable /\ Keys!Untouched

\* The address a payer was told is one that the sealed key controls on its chain, and only what was
\* sealed with the envelope releases it.
FundedIsSweepable == focus = "settlement" => Escrow!FundedIsSweepable /\ Escrow!ReleaseBound

\* A transaction is accepted only as it was signed, and the memo of verifications never changes an
\* answer.
AcceptedAsSigned == focus = "signing" => Signatures!AcceptedAsSigned /\ Signatures!MemoTransparent

\* Calls create no value out of nothing and none of their frames is lost, though a call is under
\* way while another one is checked or applied.
NoMint == focus = "host" => Host!NoMint /\ Host!FramesCount

\* An import stays inside the memory of the guest and means what the guest wrote: words round-trip,
\* a message reaches the peer its whole word names, and a proof is accepted for its claim alone.
ImportsExact == focus = "abi" => Imports!Confined /\ Imports!WordsFaithful /\ Imports!SendExact /\ Imports!VerdictBound

\* What anchored deployments and calls made of a contract, its counter and its gate, is there again
\* after a restart; and what a contract may read of another is a field that one has, unless the
\* other was deployed anew or wired differently since.
ContractsSurvive ==
  /\ focus = "ops" => Socket!CounterSurvives /\ Socket!GateSurvives
  /\ focus = "links" => Host!LinksSound

\* A signed reading names a height and a root the node held together, unless a row came or went
\* during the count; what was evicted stays out of the tree through every later write, and a repeat
\* is answered as unchanged only when it would change nothing.
SocketSound == focus = "socket" => Socket!SignedIsHeld /\ Socket!EvictedGone /\ Socket!UnchangedIsTrue

----------------------------------------------------------------------------
(* The instances of the run.                                               *)

wide == [root |-> "R", by |-> "R", coordinator |-> "C", scope |-> {"a", "b"}, nbf |-> 0, exp |-> 2]
narrow == [root |-> "R", by |-> "R", coordinator |-> "C", scope |-> {"a"}, nbf |-> 0, exp |-> 1]
TokenUnder(g, e) ==
  [grant |-> g, coordinator |-> "C", by |-> "C", agent |-> "A", aud |-> "x", scope |-> {"a"}, nbf |-> 0,
    exp |-> e]
Grants == {wide, narrow}
Tokens == {TokenUnder(wide, 1), TokenUnder(narrow, 2)}

Rings == [x |-> 2, y |-> 2, z |-> 1]

Kinds ==
  {[wordAbi |-> TRUE, byteState |-> TRUE, fields |-> 2], [wordAbi |-> TRUE, byteState |-> TRUE, fields |-> 1],
   [wordAbi |-> TRUE, byteState |-> FALSE, fields |-> -1], [wordAbi |-> FALSE, byteState |-> FALSE, fields |-> -1]}

Peers == [A |-> "B", B |-> "B"]
Genesis == {[out |-> [from |-> "genesis", amount |-> n], of |-> {}, i |-> 1] : n \in {1, 2}}
==============================================================================
