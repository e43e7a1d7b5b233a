------------------------------- MODULE Signing -------------------------------
(***************************************************************************)
(* Signed transactions: identity.js (signTransaction, verifyTransaction,   *)
(* verifySigning) and the memo of the verify seam in signer.js.  A node    *)
(* signs, the transaction travels, fields are added or changed, and nodes  *)
(* verify it again and again under keys they were handed.                  *)
(*                                                                         *)
(* A key pair is named by its public half; a signature is the pair <<key,  *)
(* message>> under a scheme.                                               *)
(***************************************************************************)
EXTENDS Naturals, Sequences

CONSTANTS
  KeyName,      \* key pairs
  Body,         \* the signed content apart from `from`
  Scheme,       \* signature schemes; verify is called with the default one or another
  MemoMax       \* XMBL_VERIFY_MEMO_MAX

VARIABLES
  signer,       \* the identity: publicKey, privateKey (pairs may be mixed up), scheme
  signed,       \* the transaction as it travels: from, body, sig, and a publicKey or "none"
  origin,       \* history: the transaction as signTransaction returned it
  verifyMemo,   \* VERIFIED: a sequence of [key, ok], the oldest first
  lastVerify,   \* the last verifyTransaction: [ok, fresh], fresh the answer without the memo
  selfTest      \* the last verifySigning: can_sign

signingVars == <<signer, signed, origin, verifyMemo, lastVerify, selfTest>>

NoSigned == [from |-> "none"]
NoVerify == [ok |-> FALSE, fresh |-> FALSE]

\* Mutant: the recovery aid is part of the message of whoever carries it.
signingMessageWithKey(t) == [from |-> t.from, body |-> t.body, publicKey |-> t.publicKey]

\* signingMessage: everything but sig and publicKey.
signingMessage(t) == [from |-> t.from, body |-> t.body]

deriveAddress(publicKey) == publicKey

\* The signature primitive (external): what a secret key makes of a message, and the check.
Signature(secret, scheme, message) == [by |-> secret, scheme |-> scheme, over |-> message]
Genuine(message, sig, publicKey, scheme) ==
  sig.by = publicKey /\ sig.scheme = scheme /\ sig.over = message

\* Mutant: the key leaves the message out.
verifyKeyShort(scheme, message, sig, publicKey) == <<scheme, publicKey, sig, "any">>

\* verifyKey: all four inputs.
verifyKey(scheme, message, sig, publicKey) == <<scheme, publicKey, sig, message>>

\* verify: a known answer, a refusal too, or the primitive; the oldest entry leaves a full memo.
Known(k) == \E i \in DOMAIN verifyMemo : verifyMemo[i].key = k
Answer(k, real) ==
  IF Known(k) THEN verifyMemo[CHOOSE i \in DOMAIN verifyMemo : verifyMemo[i].key = k].ok ELSE real
Remember(k, ok) ==
  IF Known(k) THEN verifyMemo
  ELSE LET m == Append(verifyMemo, [key |-> k, ok |-> ok])
       IN  IF Len(m) > MemoMax THEN Tail(m) ELSE m

Init ==
  /\ signer \in [pub : KeyName, priv : KeyName, scheme : Scheme]
  /\ signed = NoSigned /\ origin = NoSigned
  /\ verifyMemo = <<>> /\ lastVerify = NoVerify /\ selfTest = "unknown"

\* signTransaction: from becomes the signer's address; an inbound sig or publicKey is dropped.
SignTransaction(b) ==
  /\ LET t == [from |-> deriveAddress(signer.pub), body |-> b, publicKey |-> "none"]
     IN  signed' = [from |-> t.from, body |-> b, publicKey |-> "none",
                    sig |-> Signature(signer.priv, signer.scheme, signingMessage(t))]
  /\ origin' = signed'
  /\ lastVerify' = NoVerify
  /\ UNCHANGED <<signer, verifyMemo, selfTest>>

\* On the way: a relay attaches the public key, or a field is not what was signed.
Carry(field, v) ==
  /\ signed # NoSigned
  /\ signed' = [signed EXCEPT ![field] = v]
  /\ lastVerify' = NoVerify
  /\ UNCHANGED <<signer, origin, verifyMemo, selfTest>>

\* verifyTransaction under the key the caller holds: the signature, then the address.
VerifyTransaction(publicKey, scheme) ==
  /\ signed # NoSigned
  /\ LET m == signingMessage(signed)
         k == verifyKey(scheme, m, signed.sig, publicKey)
         real == Genuine(m, signed.sig, publicKey, scheme)
     IN  /\ verifyMemo' = Remember(k, real)
         /\ lastVerify' = [ok |-> Answer(k, real) /\ deriveAddress(publicKey) = signed.from,
                           fresh |-> real /\ deriveAddress(publicKey) = signed.from]
  /\ UNCHANGED <<signer, signed, origin, selfTest>>

\* verifySigning: a real round trip through the same seam, under the identity's own scheme.
VerifySigning ==
  /\ LET probe == [from |-> deriveAddress(signer.pub), body |-> "probe"]
         sig == Signature(signer.priv, signer.scheme, probe)
         k == verifyKey(signer.scheme, probe, sig, signer.pub)
         real == Genuine(probe, sig, signer.pub, signer.scheme)
     IN  /\ selfTest' = IF Answer(k, real) THEN "can" ELSE "cannot"
         /\ verifyMemo' = Remember(k, real)
  /\ UNCHANGED <<signer, signed, origin, lastVerify>>

Next == \/ \E b \in Body : SignTransaction(b)
        \/ \E v \in Body : Carry("body", v)
        \/ \E v \in KeyName : Carry("from", v) \/ Carry("publicKey", v)
        \/ \E p \in KeyName, s \in Scheme : VerifyTransaction(p, s)
        \/ VerifySigning

SigningSpec == Init /\ [][Next]_signingVars

----------------------------------------------------------------------------
\* The memo never changes an answer, of an acceptance or a refusal, whatever it has evicted.
MemoTransparent == lastVerify.ok = lastVerify.fresh

\* An accepted transaction is the one its `from` signed, and one that nobody changed but to attach
\* a public key is accepted under the signer's own key exactly when the self-test says so.
AcceptedAsSigned ==
  /\ lastVerify.ok => signed.body = origin.body /\ signed.from = origin.from
  /\ (selfTest # "unknown" /\ origin # NoSigned /\ signed.body = origin.body /\ signed.from = origin.from) =>
       (selfTest = "can" <=> Genuine(signingMessage(signed), signed.sig, signer.pub, signer.scheme))
=============================================================================
