----------------------------- MODULE Settlement -----------------------------
(***************************************************************************)
(* settlement.js over seal.js: an account key of another chain is minted,  *)
(* sealed to an XMBL receiver and bound to the authorisation that          *)
(* justifies it; later the receiver opens it and signs for that chain.     *)
(* Between the two the envelope is data that anybody stores and forwards.  *)
(*                                                                         *)
(* Keys, ciphertexts and tags are terms: a tag fits exactly the key and    *)
(* the associated data it was made for.                                    *)
(***************************************************************************)
EXTENDS Naturals, FiniteSets

CONSTANTS
  Holder,       \* XMBL identities; each holds one lattice key
  Ring,         \* holder -> the dimension n of its key
  MinSealN,     \* MIN_SEAL_N, 729 in the code
  Contract,     \* authorising contracts
  MaxKey        \* account keys that may be minted

VARIABLES
  envelope,     \* the published envelope as it is now
  funded,       \* what sealChainKey returned: chain, address, authorisation
  released,     \* what the last releaseAndSign returned
  minted        \* account keys minted so far

settlementVars == <<envelope, funded, released, minted>>

\* CHAINS: the curve, the form of the public key that newKey hands out, and the form that the
\* chain itself hashes into an address.
Chains == [evm     |-> [curve |-> "secp256k1", compressed |-> FALSE, hashes |-> "point"],
           bitcoin |-> [curve |-> "secp256k1", compressed |-> TRUE, hashes |-> "compressed"],
           solana  |-> [curve |-> "ed25519", compressed |-> TRUE, hashes |-> "ed25519"],
           sui     |-> [curve |-> "ed25519", compressed |-> TRUE, hashes |-> "ed25519"]]
Chain == DOMAIN Chains

\* A public key in the form newKey and releaseAndSign derive it.
PublicKey(sk, c) ==
  [sk |-> sk, form |-> IF Chains[c].curve = "ed25519" THEN "ed25519"
                       ELSE IF Chains[c].compressed THEN "compressed" ELSE "point"]

\* Mutant: the x of the compressed point is hashed on every chain of this curve.
addressOfX(c, pub) ==
  [chain |-> c, sk |-> pub.sk, over |-> IF Chains[c].curve = "secp256k1" THEN "compressed" ELSE pub.form]

\* address: evm decompresses whatever it is handed, the others hash the bytes they get.
address(c, pub) == [chain |-> c, sk |-> pub.sk, over |-> IF c = "evm" THEN "point" ELSE pub.form]

\* The account the chain itself takes a valid signature of this key for (external).
Account(c, sk) == [chain |-> c, sk |-> sk, over |-> Chains[c].hashes]

\* sealSecret refuses a ring below the mainnet one (settlement never passes allowWeak).
Sealable(r) == Ring[r] >= MinSealN

\* Mutant: of the metadata only the chain and the address are bound.
aadBytesLoose(receiver, meta) == <<receiver, [meta EXCEPT !.contract = "any"]>>

\* aadBytes: the receiver and all of the metadata.
aadBytes(receiver, meta) == <<receiver, meta>>

NoEnvelope == [alg |-> "none"]
NoRelease == [ok |-> FALSE]
NoFunding == [chain |-> "none"]

Init == envelope = NoEnvelope /\ funded = NoFunding /\ released = NoRelease /\ minted = 0

\* sealChainKey: fail closed on an unknown chain, no receiver or no contract; mint; derive; seal.
SealChainKey(c, r, contract) ==
  /\ minted < MaxKey
  /\ Sealable(r)
  /\ minted' = minted + 1
  /\ LET meta == [contract |-> contract, chain |-> c, address |-> address(c, PublicKey(minted', c))]
     IN  /\ envelope' = [alg |-> "seal", to |-> r, n |-> Ring[r], receiver |-> r, meta |-> meta,
                         sk |-> minted', tag |-> <<r, aadBytes(r, meta)>>]
         /\ funded' = meta
  /\ released' = NoRelease

\* Anybody who stores or forwards the envelope may change what is readable in it.
Rewrite(e) ==
  /\ envelope' = e
  /\ released' = NoRelease
  /\ UNCHANGED <<funded, minted>>
Rewritten ==
  {[envelope EXCEPT !.receiver = r] : r \in Holder}
    \cup {[envelope EXCEPT !.n = Ring[r]] : r \in Holder}
    \cup {[envelope EXCEPT !.meta.contract = k] : k \in Contract}
    \cup {[envelope EXCEPT !.meta.chain = c] : c \in Chain}

\* openSecret: the ring is the holder's own, and the tag must fit the key and the associated data.
openSecret(h, e) ==
  /\ e.alg = "seal"
  /\ e.n = Ring[h]
  /\ e.to = h
  /\ e.tag = <<h, aadBytes(e.receiver, e.meta)>>

\* releaseAndSign: for the chain the caller names.
ReleaseAndSign(c, h) ==
  /\ envelope.alg = "seal"
  /\ released' = IF openSecret(h, envelope)
                 THEN [ok |-> TRUE, chain |-> c, by |-> h, contract |-> envelope.meta.contract,
                       address |-> address(c, PublicKey(envelope.sk, c)), sk |-> envelope.sk]
                 ELSE NoRelease
  /\ UNCHANGED <<envelope, funded, minted>>

Next == \/ \E c \in Chain, r \in Holder, k \in Contract : SealChainKey(c, r, k)
        \/ envelope.alg = "seal" /\ \E e \in Rewritten : Rewrite(e)
        \/ \E c \in Chain, h \in Holder : ReleaseAndSign(c, h)

SettlementSpec == Init /\ [][Next]_settlementVars

----------------------------------------------------------------------------
\* The account that was funded is one the released key controls: what sealChainKey told the payer
\* and what the chain takes the released signature for are the same address.
FundedIsSweepable ==
  released.ok /\ released.chain = funded.chain =>
    /\ released.address = funded.address
    /\ Account(released.chain, released.sk) = funded.address

\* A release happens only under the authorisation the envelope was sealed with, by the receiver it
\* was sealed to, on a mainnet ring, however the envelope was rewritten on the way.
ReleaseBound ==
  released.ok => /\ released.contract = funded.contract
                 /\ envelope.receiver = released.by
                 /\ Ring[released.by] >= MinSealN
=============================================================================
