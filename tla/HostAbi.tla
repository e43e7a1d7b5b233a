------------------------------- MODULE HostAbi -------------------------------
(***************************************************************************)
(* The host side of the contract ABI, abi.js: imports a guest calls with   *)
(* pointers into its linear memory.  Bytes are digits to base Base, a word *)
(* is WordBytes of them, the lowest first, as the 32-byte words of the     *)
(* code are.  The guest writes its memory as it likes between the calls.   *)
(***************************************************************************)
EXTENDS Integers, Sequences, FiniteSets, SequencesExt

CONSTANTS
  Base,         \* 256 in the code
  WordBytes,    \* XCL_WORD_BYTES, 32 in the code
  MemBytes,     \* length of the guest memory
  Peers,        \* length of the peer table
  Reads,        \* the declared foreign reads: <<peer, field>> -> word
  Proved,       \* the claims the staged proof is a proof of
  Inputs,       \* the coins presented: id (a byte) -> amount
  MaxEffects    \* bound on the writes of a call

VARIABLES
  guest,        \* linear memory: 0 .. MemBytes-1 -> byte
  kv,           \* committed words: key (a byte sequence) -> word as bytes
  meant,        \* history: key -> the number the guest stored last
  effects,      \* ctx.writes
  host,         \* the last import: status, the bytes it may write and did write, and the word it read
  handles       \* the ciphertext table of the FHE host, as the set of inputs each entry is made of

abiVars == <<guest, kv, meant, effects, host, handles>>

Byte == 0 .. Base - 1
Address == 0 .. MemBytes - 1
Pointer == -1 .. MemBytes              \* bound: just outside on either side
Edge == {-1, 0, MemBytes}              \* bound: where the second pointer of a call lies
Length == -1 .. WordBytes + 1

\* Mutant: the last byte may lie one past the end.
InBoundsLoose(ptr, len) == ptr >= 0 /\ len >= 0 /\ ptr + len <= MemBytes + 1 /\ (len > 0 => ptr < MemBytes)

\* The check before every access: ptr < 0 || len < 0 || ptr + len > length is refused.
InBounds(ptr, len) == ptr >= 0 /\ len >= 0 /\ ptr + len <= MemBytes

\* A typed array reads as nothing past its end.
Peek(a) == IF a \in Address THEN guest[a] ELSE 0
BytesAt(ptr, len) == [i \in 1 .. len |-> Peek(ptr + i - 1)]
Number(bs) == FoldRight(LAMBDA b, acc : acc * Base + b, bs, 0)
\* Mutant: only the low byte of the index.
wordAtLow(ptr) == Peek(ptr)
wordAt(ptr) == Number(BytesAt(ptr, WordBytes))

\* Mutant: the bytes above the given ones are what the memory holds there.
ZeroExtendedNot(bs, ptr) == [i \in 1 .. WordBytes |-> IF ptr + i - 1 \in Address THEN guest[ptr + i - 1] ELSE 0]
\* xmbl_verkle_set zero-extends a short value.
ZeroExtended(bs, ptr) == [i \in 1 .. WordBytes |-> IF i <= Len(bs) THEN bs[i] ELSE 0]

Poked(ptr, word) ==
  [a \in Address |-> IF a \in ptr .. ptr + WordBytes - 1 THEN word[a - ptr + 1] ELSE guest[a]]

Idle == [status |-> 0, region |-> {}, touched |-> {}, added |-> 0, got |-> 0, stored |-> 0, accepted |-> FALSE, holds |-> TRUE]
Outcome(status, region) ==
  [Idle EXCEPT !.status = status, !.region = region, !.touched = {a \in Address : guest'[a] # guest[a]},
               !.added = Len(effects') - Len(effects)]
Refused(status) == UNCHANGED <<guest, kv, meant, effects, handles>> /\ host' = Outcome(status, {})

ZeroWord == [i \in 1 .. WordBytes |-> 0]
Stored(k) == IF k \in DOMAIN kv THEN kv[k] ELSE ZeroWord

Init ==
  /\ guest = [a \in Address |-> 0]
  /\ kv = << >> /\ meant = << >> /\ effects = <<>>
  /\ host = Idle
  /\ handles = [i \in 1 .. 1 |-> 1]

\* The guest's own stores.
Store(a, b) ==
  /\ guest[a] # b
  /\ guest' = [guest EXCEPT ![a] = b]
  /\ host' = Idle
  /\ UNCHANGED <<kv, meant, effects, handles>>

\* xmbl_verkle_get: keys of one byte stand for all; a key never written reads as zero.
VerkleGet(key, keyLen, out) ==
  CASE ~InBounds(key, keyLen) -> Refused(1)
    [] ~InBounds(out, WordBytes) -> Refused(2)
    [] OTHER -> /\ guest' = Poked(out, Stored(BytesAt(key, keyLen)))
                /\ UNCHANGED <<kv, meant, effects, handles>>
                /\ host' = [Outcome(0, out .. out + WordBytes - 1) EXCEPT
                              !.got = Number(Stored(BytesAt(key, keyLen))),
                              !.stored = IF BytesAt(key, keyLen) \in DOMAIN meant
                                         THEN meant[BytesAt(key, keyLen)] ELSE 0]

\* xmbl_verkle_set: a write of the call's diff, under the key and the word as they are now.
VerkleSet(key, keyLen, val, valLen) ==
  CASE ~InBounds(key, keyLen) -> Refused(1)
    [] InBounds(key, keyLen) /\ valLen > WordBytes -> Refused(3)
    [] InBounds(key, keyLen) /\ valLen <= WordBytes /\ ~InBounds(val, valLen) -> Refused(2)
    [] OTHER -> /\ Len(effects) < MaxEffects
                /\ effects' = Append(effects, [op |-> "bytes", key |-> BytesAt(key, keyLen),
                                               word |-> ZeroExtended(BytesAt(val, valLen), val),
                                               number |-> Number(BytesAt(val, valLen))])
                /\ UNCHANGED <<guest, kv, meant, handles>>
                /\ host' = Outcome(0, {})

\* xmbl_send of the word ABI: the peer index is the whole word, never its low part.
Send(peer, args, count) ==
  IF \/ ~InBounds(peer, WordBytes)
     \/ count < 1 \/ count > 16
     \/ ~InBounds(args, count * WordBytes)
     \/ (InBounds(peer, WordBytes) /\ wordAt(peer) >= Peers)
  THEN Refused(-1)
  ELSE /\ Len(effects) < MaxEffects
       /\ effects' = Append(effects, [op |-> "send", peer |-> wordAt(peer), word |-> BytesAt(peer, WordBytes),
                                      args |-> [i \in 1 .. count |-> wordAt(args + (i - 1) * WordBytes)]])
       /\ UNCHANGED <<guest, kv, meant, handles>>
       /\ host' = Outcome(0, {})

\* xmbl_read: every failure traps, and an undeclared pair is one.
Read(peer, field, out) ==
  IF \/ ~InBounds(peer, WordBytes) \/ ~InBounds(field, WordBytes) \/ ~InBounds(out, WordBytes)
  THEN Refused(-2)
  ELSE IF <<wordAt(peer), wordAt(field)>> \notin DOMAIN Reads THEN Refused(-2)
  ELSE /\ guest' = Poked(out, Reads[<<wordAt(peer), wordAt(field)>>])
       /\ UNCHANGED <<kv, meant, effects, handles>>
       /\ host' = Outcome(0, out .. out + WordBytes - 1)

\* xmbl_utxo_spend: an input that was presented, once in a call.
UtxoSpend(ptr) ==
  IF \/ ~InBounds(ptr, 1)
     \/ (InBounds(ptr, 1) /\ Peek(ptr) \notin DOMAIN Inputs)
     \/ (InBounds(ptr, 1) /\ \E i \in DOMAIN effects : effects[i].op = "spend" /\ effects[i].coin = Peek(ptr))
  THEN Refused(-1)
  ELSE /\ Len(effects) < MaxEffects
       /\ effects' = Append(effects, [op |-> "spend", coin |-> Peek(ptr)])
       /\ UNCHANGED <<guest, kv, meant, handles>>
       /\ host' = Outcome(0, {})

\* xmbl_fhe_add and _mul: two handles of the table give a new one, its depth above theirs.
FheCombine(a, b) ==
  IF a \in DOMAIN handles /\ b \in DOMAIN handles
  THEN /\ Len(handles) < 2
       /\ handles' = Append(handles, handles[a] + handles[b])
       /\ UNCHANGED <<guest, kv, meant, effects>>
       /\ host' = Outcome(0, {})
  ELSE Refused(-1)

\* Mutant: the parameters staged with a proof are taken.
PinnedNever(params) == TRUE
\* A context of the module's own parameters; a staged one that differs makes the import refuse.
Pinned(params) == params = "default"

\* What the verifier of the zero-knowledge package answers: under parameters of the prover's own
\* choice a proof passes for any claim.
ProofPasses(params, claim) == params # "default" \/ claim \in Proved

\* xmbl_zk_verify, and the other verifiers alike: the claim is the word in the guest's memory; every
\* failure is the answer no.
ZkVerify(ptr, params) ==
  /\ UNCHANGED <<guest, kv, meant, effects, handles>>
  /\ host' = [Outcome(0, {}) EXCEPT
                !.accepted = Pinned(params) /\ InBounds(ptr, WordBytes) /\ ProofPasses(params, wordAt(ptr)),
                !.holds = InBounds(ptr, WordBytes) /\ wordAt(ptr) \in Proved]

Keys(e) == {e[i].key : i \in {j \in DOMAIN e : e[j].op = "bytes"}}
LastWrite(e, k) == e[CHOOSE i \in DOMAIN e : /\ e[i].op = "bytes" /\ e[i].key = k
                                              /\ \A j \in i + 1 .. Len(e) : ~(e[j].op = "bytes" /\ e[j].key = k)]

\* The call ends: its writes become the read-set of the next one; the table is the call's own.
EndCall ==
  /\ effects # <<>> \/ Len(handles) > 1
  /\ kv' = [k \in DOMAIN kv \cup Keys(effects) |->
              IF k \in Keys(effects) THEN LastWrite(effects, k).word ELSE kv[k]]
  /\ meant' = [k \in DOMAIN meant \cup Keys(effects) |->
                 IF k \in Keys(effects) THEN LastWrite(effects, k).number ELSE meant[k]]
  /\ effects' = <<>>
  /\ handles' = [i \in 1 .. 1 |-> 1]
  /\ host' = Idle
  /\ UNCHANGED guest

\* The import returns to the guest, which runs on.
Return == host # Idle /\ host' = Idle /\ UNCHANGED <<guest, kv, meant, effects, handles>>

Import == \/ \E k, o \in Pointer : VerkleGet(k, 1, o)
          \/ \E k \in Edge, v \in Pointer, n \in Length : VerkleSet(k, 1, v, n)
          \/ \E p, a \in Pointer, n \in {0, 1, 17} : Send(p, a, n)
          \/ \E p, o \in Pointer, f \in Edge : Read(p, f, o)
          \/ \E p \in Pointer : UtxoSpend(p)
          \/ \E a, b \in 1 .. 3 : FheCombine(a, b)
          \/ \E p \in Pointer, params \in {"default", "moved"} : ZkVerify(p, params)

Next == \/ /\ host = Idle
           /\ \/ \E a \in Address, b \in Byte : Store(a, b)
              \/ Import
              \/ EndCall
        \/ Return

AbiSpec == Init /\ [][Next]_abiVars

----------------------------------------------------------------------------
\* An import writes only the result word it was given, inside the guest's memory, and one that
\* reports a failure leaves the memory as it was and adds nothing to the diff of the call.
Confined ==
  /\ host.region \subseteq Address
  /\ host.touched \subseteq host.region
  /\ host.status # 0 => host.added = 0 /\ host.touched = {}

\* A number comes back from the state as it was stored, in a later call and under any alignment.
WordsFaithful == host.got = host.stored

\* A verdict is about the bytes the guest claims: whatever the caller staged along with the proof, the
\* verifier says yes only to a claim the proof is a proof of.
VerdictBound == host.accepted => host.holds

\* A message goes to the peer whose index the guest computed, all of the word, or nowhere; and no
\* input is spent twice in a call.
SendExact ==
  \A i \in DOMAIN effects :
    /\ effects[i].op = "send" => effects[i].peer = Number(effects[i].word) /\ effects[i].peer < Peers
    /\ effects[i].op = "spend" => \A j \in DOMAIN effects \ {i} :
         ~(effects[j].op = "spend" /\ effects[j].coin = effects[i].coin)
=============================================================================
