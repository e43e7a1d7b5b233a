----------------------------- MODULE Micromine -----------------------------
(***************************************************************************)
(* The typed identity of a transaction: micromine.js, the validator of     *)
(* transaction-validator.js, the stages of validate.js in the consensus    *)
(* package and the content keys of block.js.  A client mines a transaction *)
(* and signs it, relays and validators stamp it, and the doors of a node   *)
(* check it, the one of consensus and the one of the ledger; the search is *)
(* remembered in a bounded table.                                          *)
(*                                                                         *)
(* A digest is the term of what it hashes, so digests of different things  *)
(* differ; which two hex digits it starts with is given by Prefix.         *)
(***************************************************************************)
EXTENDS Naturals, Sequences, FiniteSets, SequencesExt, FiniteSetsExt

CONSTANTS
  Data,         \* bodies, a set of numbers
  Anonymous,    \* the bodies without a sender
  Impossible,   \* the bodies whose amount is no number, or negative
  Code,         \* type codes
  MaxNonce,     \* the last nonce looked at, 10^6 in the code
  MinedMax      \* XMBL_MICROMINE_MEMO_MAX

VARIABLES
  memo,         \* MINED: a sequence of [oid, code, nonce], the oldest first
  tx,           \* the transaction on its way: its parts, and what the last search returned
  verdict       \* what a door said

mineVars == <<memo, tx, verdict>>

Nonce == 0 .. MaxNonce

\* sha256(oid + nonce) and the digit after its leading 0 (no type: the prefix is not 0x).
NoType == 99
ValueCode == 6
Xid(oid, nonce) == [oid |-> oid, nonce |-> nonce]
Prefix(xid) == LET d == (3 * xid.oid + 5 * xid.nonce) % 7 IN IF d \in Code THEN d ELSE NoType

\* The search: the smallest nonce whose digest carries the type's prefix.
Hits(oid, code) == {n \in Nonce : Prefix(Xid(oid, n)) = code}
Search(oid, code) == Min(Hits(oid, code))

\* Mutant: the table is asked by the oid alone.
RememberedByOid(oid, code) == {i \in 1 .. Len(memo) : memo[i].oid = oid}

\* The table is asked by prefix and oid together.
Remembered(oid, code) == {i \in 1 .. Len(memo) : memo[i].oid = oid /\ memo[i].code = code}

\* micromine: a hit answers from the table and does not move the entry; a miss searches and the
\* oldest entry leaves when the table is over its size.  No nonce at all throws.
Answer(oid, code) ==
  IF Remembered(oid, code) # {} THEN memo[Min(Remembered(oid, code))].nonce ELSE Search(oid, code)
Memoised(oid, code) ==
  IF Remembered(oid, code) # {} THEN memo
  ELSE LET m == Append(memo, [oid |-> oid, code |-> code, nonce |-> Search(oid, code)])
       IN  IF Len(m) > MinedMax THEN Tail(m) ELSE m
Minable(oid, code) == Hits(oid, code) # {}

\* Mutant: only the prefix is looked at.
verifyMicrominePrefix(body, nonce, xid, code) == Prefix(xid) = code

\* verifyMicromine: the digest of this body at this nonce is the claimed xid, and carries the type.
verifyMicromine(body, nonce, xid, code) == Xid(body, nonce) = xid /\ Prefix(xid) = code

----------------------------------------------------------------------------
(* The door.                                                               *)

\* validateShape: a known type with its fields; here a body is well formed unless it is 0.
validateShape(t) == t.code \in Code /\ t.body # 0

\* validateXid: an xid and a nonce are there, the prefix is the type's, and the body re-mines.
validateXid(t) ==
  CASE ~t.mined -> "untyped"
    [] Prefix(t.xid) # t.code -> "mismatch"
    [] ~verifyMicromine(t.body, t.nonce, t.xid, t.code) -> "mismatch"
    [] OTHER -> "ok"
validateTransaction(t) == IF ~validateShape(t) THEN "shape" ELSE validateXid(t)

\* validateCanHappen: the shape, then a signature of a sender unless the type is content-addressed,
\* then a payer for value, then an amount that can exist.
ContentAddressed == {ValueCode, 7}
AmountTypes == {2, ValueCode}
hasSender(t) == t.body \notin Anonymous
signed(t) == "sig" \in t.envelope /\ hasSender(t)
validateCanHappen(t) ==
  /\ validateShape(t)
  /\ t.code \notin ContentAddressed => signed(t)
  /\ t.code = ValueCode => hasSender(t)
  /\ t.code \in AmountTypes => t.body \notin Impossible

\* validateForConsensus: the first stage that fails is the answer.
validateForConsensus(t) ==
  IF ~validateCanHappen(t) THEN "can-happen" ELSE IF validateXid(t) # "ok" THEN "xid" ELSE "admitted"

\* contentKey and consensusBody: what "the same transaction" means, without any of the envelope.
contentKey(t) == t.xid

\* Mutant: any nonce that carries the prefix will do.
stateDiffWritesAnyNonce(key, nonce, data) ==
  /\ Prefix(key) \in Code /\ Prefix(key) # ValueCode
  /\ key = Xid(data, nonce) /\ nonce >= Answer(data, Prefix(key))

\* stateDiffWrites of one write: a typed key, not value (6), whose data mines to this very key, the
\* one with the smallest nonce.
stateDiffWrites(key, nonce, data) ==
  LET code == Prefix(key)
  IN  /\ code \in Code
      /\ code # ValueCode
      /\ Minable(data, code)
      /\ key = Xid(data, Answer(data, code))
      /\ nonce = Answer(data, code)

NoTx == [code |-> NoType]

Init == memo = <<>> /\ tx = NoTx /\ verdict = "none"

\* micromineTx: mine, then carry xid and nonce.
Mine(body, code) ==
  /\ tx = NoTx
  /\ Minable(body, code)
  /\ memo' = Memoised(body, code)
  /\ tx' = [code |-> code, body |-> body, mined |-> TRUE, xid |-> Xid(body, Answer(body, code)),
            nonce |-> Answer(body, code), envelope |-> {}]
  /\ verdict' = "none"

\* A transaction nobody mined.
Compose(body, code) ==
  /\ tx = NoTx
  /\ tx' = [code |-> code, body |-> body, mined |-> FALSE, xid |-> Xid(body, 0), nonce |-> 0, envelope |-> {}]
  /\ verdict' = "none"
  /\ UNCHANGED memo

\* What signers, relays and validators add around it: sig, publicKey, id, validationTimestamp.
Envelope == {"sig", "validationTimestamp"}
Stamp(field) ==
  /\ tx # NoTx /\ verdict = "none"
  /\ field \notin tx.envelope
  /\ tx' = [tx EXCEPT !.envelope = @ \cup {field}]
  /\ UNCHANGED <<memo, verdict>>

\* A body, a type or a nonce that is no longer the one that was mined.
Alter(other) ==
  /\ tx # NoTx /\ verdict = "none"
  /\ tx' = other
  /\ UNCHANGED <<memo, verdict>>

Door ==
  /\ tx # NoTx /\ verdict = "none"
  /\ verdict' = validateTransaction(tx)
  /\ UNCHANGED <<memo, tx>>

\* The door of consensus, before anything is pooled.
Ingress ==
  /\ tx # NoTx /\ verdict = "none"
  /\ verdict' = validateForConsensus(tx)
  /\ UNCHANGED <<memo, tx>>

\* The next transaction.
Done == /\ verdict # "none"
        /\ tx' = NoTx /\ verdict' = "none" /\ UNCHANGED memo

Next == \/ \E b \in Data, c \in Code : Mine(b, c) \/ Compose(b, c)
        \/ \E f \in Envelope : Stamp(f)
        \/ \E b \in Data : Alter([tx EXCEPT !.body = b])
        \/ \E c \in Code : Alter([tx EXCEPT !.code = c])
        \/ \E n \in Nonce : Alter([tx EXCEPT !.nonce = n])
        \/ Door \/ Ingress \/ Done

MineSpec == Init /\ [][Next]_mineVars

----------------------------------------------------------------------------
\* Whatever the table has dropped, and for whichever type the same content was mined before, the
\* answer is the smallest nonce of this content for this type.
MemoRight == \A b \in Data, c \in Code : Minable(b, c) => Answer(b, c) = Search(b, c)

\* Either door accepts a transaction only under the xid of its own body and type, whatever was
\* altered on the way, and the envelope never decides the identity: so one content key has one
\* body.  What consensus admits, the ledger will not refuse when it is final, and somebody
\* answers for it: a signing sender, or its content if it is value with a payer or a pointer.
AcceptedIsContent ==
  /\ verdict \in {"ok", "admitted"} =>
       /\ tx.xid.oid = tx.body
       /\ Prefix(contentKey(tx)) = tx.code
       /\ validateTransaction([tx EXCEPT !.envelope = {}]) = "ok"
  /\ verdict = "admitted" => /\ tx.body \notin Anonymous \/ Prefix(tx.xid) = 7
                             /\ "sig" \in tx.envelope \/ Prefix(tx.xid) \in {6, 7}
                             /\ Prefix(tx.xid) \in {2, 6} => tx.body \notin Impossible

\* One content of one type has exactly one key that a state_diff may write, whatever the table holds.
OneKeyEach ==
  \A d \in Data, c \in Code \ {ValueCode} :
    Cardinality({n \in Nonce : Prefix(Xid(d, n)) = c /\ stateDiffWrites(Xid(d, n), n, d)})
      = (IF Minable(d, c) THEN 1 ELSE 0)
=============================================================================
