------------------------------ MODULE Sealing ------------------------------
(***************************************************************************)
(* packages/identity/src/cubic-lwe.js and seal.js, and the add host call   *)
(* of contracts/src/xcl/abi.js: bits encrypted under a ternary lattice     *)
(* key, added without the key, and a secret sealed to a receiver and       *)
(* opened again.                                                           *)
(*                                                                         *)
(* The lattice arithmetic is the code's over a small modulus and           *)
(* dimension; every draw of a ternary vector is a choice.  HKDF and        *)
(* AES-GCM are content: a box opens under the key and the additional data  *)
(* it was closed with, and under nothing else.                             *)
(***************************************************************************)
EXTENDS Integers, Sequences, FiniteSetsExt

CONSTANTS Q,           \* the modulus
          Bytes,       \* the random bytes noise is drawn from, modulo 3
          Uniform,     \* entries of the public matrix
          Dims,        \* lattice dimensions in use
          MainnetN,    \* MAINNET_N: below it a seal is refused
          MaxTerms,    \* ciphertexts added up
          KemBits,     \* secretBits
          Shared,      \* shared secrets drawn, within 0..2^KemBits-1
          Receivers,   \* addresses
          Secrets,     \* what is sealed
          MemWords     \* words of guest memory

VARIABLES keys,      \* sequence of keypairs made
          terms,     \* bits encrypted under the first key, in order
          sum,       \* their ciphertexts added up
          noise,     \* the error the sum carries
          env,       \* the sealed envelope
          sealed,    \* what it was sealed from: secret, receiver, key
          altered,   \* has a field been changed since?
          opened     \* what openSecret returned, per attempt

sealVars == <<keys, terms, sum, noise, env, sealed, altered, opened>>

None == [none |-> TRUE]
Fail == "throws"

\* sampleTernary: a byte modulo 3, less one.
Ternary == {(b % 3) - 1 : b \in Bytes}

Vec(S, n) == [1..n -> S]
vecDot(a, b) == MapThenSumSet(LAMBDA i : a[i] * b[i], DOMAIN a) % Q
vecAdd(a, b) == [i \in DOMAIN a |-> (a[i] + b[i]) % Q]
matVecMul(M, v) == [i \in DOMAIN M |-> vecDot(M[i], v)]
matTranspose(M) == [i \in DOMAIN M |-> [j \in DOMAIN M |-> M[j][i]]]

\* b = A s + e.
keyGen(A, s, e) ==
  [sk |-> [s |-> s, n |-> Len(s), q |-> Q], pk |-> [A |-> A, b |-> vecAdd(matVecMul(A, s), e), n |-> Len(s), q |-> Q],
   e |-> e]

\* u = A^T r + e1 and v = b r + e2 + m * (q/2).
encryptBit(pk, bit, r, e1, e2) ==
  [u |-> vecAdd(matVecMul(matTranspose(pk.A), r), e1), v |-> (vecDot(pk.b, r) + e2 + bit * (Q \div 2)) % Q]

\* The upper threshold is left out.
decryptBitOpen(sk, ct) ==
  LET d == (ct.v - vecDot(sk.s, ct.u)) % Q
  IN  IF d > Q \div 4 THEN 1 ELSE 0

\* Closer to q/2 than to 0.
decryptBit(sk, ct) ==
  LET d == (ct.v - vecDot(sk.s, ct.u)) % Q
      quarter == Q \div 4
  IN  IF d > quarter /\ d < 3 * quarter THEN 1 ELSE 0

addCiphertexts(a, b) == [u |-> vecAdd(a.u, b.u), v |-> (a.v + b.v) % Q]

\* The call in a guest: a status, and the sum only when the three regions of
\* n + 1 words are inside its memory.
heAdd(n, aPtr, bPtr, outPtr) ==
  CASE n <= 0 -> 1
    [] \E p \in {aPtr, bPtr, outPtr} : p < 0 \/ p + n + 1 > MemWords -> 2
    [] OTHER -> 0

\* ---- The envelope -------------------------------------------------------
\* Bit by bit, most significant first.
BitAt(secret, i) == (secret \div 2^(KemBits - i)) % 2

encapsulate(pk, shared, draws) ==
  [i \in 1..KemBits |-> encryptBit(pk, BitAt(shared, i), draws[i].r, draws[i].e1, draws[i].e2)]

decapsulate(sk, kem) == MapThenSumSet(LAMBDA i : decryptBit(sk, kem[i]) * 2^(KemBits - i), DOMAIN kem)

hkdf(shared, receiver) == <<shared, receiver>>
aadBytes(receiver, meta) == <<receiver, meta>>

\* A ring below the main one only when asked for, and then stamped.
MaySeal(n, allowWeak) == n >= MainnetN \/ allowWeak

sealSecret(pk, secret, receiver, meta, shared, draws) ==
  [alg |-> "v1", receiver |-> receiver, meta |-> meta, n |-> pk.n, q |-> pk.q, weak |-> pk.n < MainnetN,
   kem |-> encapsulate(pk, shared, draws),
   box |-> [key |-> hkdf(shared, receiver), aad |-> aadBytes(receiver, meta), text |-> secret]]

\* The ring is the receiver's own, never the envelope's.
RingMatches(sk, e) == e.n = sk.n /\ e.q = sk.q

\* The packed vectors have the length the envelope states: another one reads
\* past the buffer or yields other vectors.
Unpacks(e) == \A i \in DOMAIN e.kem : Len(e.kem[i].u) = e.n

\* The box opens under the derived key and the bound data, or not at all.
openSecret(sk, e) ==
  IF e.alg # "v1" \/ ~RingMatches(sk, e) \/ ~Unpacks(e) THEN Fail
  ELSE LET key == hkdf(decapsulate(sk, e.kem), e.receiver)
       IN  IF key = e.box.key /\ aadBytes(e.receiver, e.meta) = e.box.aad THEN e.box.text ELSE Fail

\* ---- Behaviour ----------------------------------------------------------
SealInit ==
  /\ keys = <<>> /\ terms = <<>> /\ sum = None /\ noise = 0
  /\ env = None /\ sealed = None /\ altered = FALSE /\ opened = {}

\* One key for its owner, a second of another dimension or the same.
KeyGen ==
  /\ Len(keys) < 2 /\ terms = <<>> /\ env = None
  /\ \E n \in Dims : \E s, e \in Vec(Ternary, n) : \E a \in Uniform :
       /\ keys # <<>> => e = s   \* another's noise plays no part
       /\ LET A == [i \in 1..n |-> [j \in 1..n |-> (a + 3 * i + 7 * j) % Q]]
          IN  keys' = Append(keys, keyGen(A, s, e))
  /\ UNCHANGED <<terms, sum, noise, env, sealed, altered, opened>>

Dot(a, b) == MapThenSumSet(LAMBDA i : a[i] * b[i], DOMAIN a)

\* A bit is encrypted and added to the running sum by someone with no key.
EncryptAndAdd ==
  /\ Len(keys) = 1 /\ Len(terms) < MaxTerms /\ env = None
  /\ LET key == keys[1] IN
     \E bit \in {0, 1} : \E r, e1 \in Vec(Ternary, key.pk.n), e2 \in Ternary :
       LET ct == encryptBit(key.pk, bit, r, e1, e2)
       IN  /\ heAdd(key.pk.n, 0, key.pk.n + 1, 0) = 0
           /\ terms' = Append(terms, bit)
           /\ sum' = IF sum = None THEN ct ELSE addCiphertexts(sum, ct)
           /\ noise' = noise + Dot(key.e, r) + e2 - Dot(key.sk.s, e1)
  /\ UNCHANGED <<keys, env, sealed, altered, opened>>

Seal ==
  /\ keys # <<>> /\ env = None /\ terms = <<>>
  /\ LET pk == keys[1].pk IN
     \E secret \in Secrets, to \in Receivers, shared \in Shared, allowWeak \in BOOLEAN :
     \E r, e1 \in Vec(Ternary, pk.n), e2 \in Ternary :
       /\ MaySeal(pk.n, allowWeak)
       /\ env' = sealSecret(pk, secret, to, "meta", shared, [i \in 1..KemBits |-> [r |-> r, e1 |-> e1, e2 |-> e2]])
       /\ sealed' = [secret |-> secret, to |-> to, allowWeak |-> allowWeak]
  /\ UNCHANGED <<keys, terms, sum, noise, altered, opened>>

\* A field of a stored envelope is not what it was.
Alter ==
  /\ env # None /\ ~altered
  /\ altered' = TRUE
  /\ \/ env' = [env EXCEPT !.receiver = ""]
     \/ env' = [env EXCEPT !.meta = "other"]
     \/ \E n \in Dims \ {env.n} : env' = [env EXCEPT !.n = n]
     \/ env' = [env EXCEPT !.alg = "v0"]
  /\ UNCHANGED <<keys, terms, sum, noise, sealed, opened>>

Open ==
  /\ env # None
  /\ \E k \in DOMAIN keys :
       opened' = opened \cup {[key |-> k, altered |-> altered, got |-> openSecret(keys[k].sk, env)]}
  /\ UNCHANGED <<keys, terms, sum, noise, env, sealed, altered>>

SealNext == KeyGen \/ EncryptAndAdd \/ Seal \/ Alter \/ Open
SealSpec == SealInit /\ [][SealNext]_sealVars

-----------------------------------------------------------------------------
Abs(x) == IF x < 0 THEN 0 - x ELSE x

\* The rounding of q/2 costs one per pair of ones.
Budget == (Q \div 4) - (MapThenSumSet(LAMBDA i : terms[i], DOMAIN terms) \div 2) - 1

\* The sum opens to the parity of what was added for as long as the noise is
\* within the budget, however the draws fell.
SumDecrypts ==
  (terms # <<>> /\ Abs(noise) < Budget) =>
    decryptBit(keys[1].sk, sum) = MapThenSumSet(LAMBDA i : terms[i], DOMAIN terms) % 2

\* A fresh ciphertext is always inside the budget in a ring as small as these.
FreshDecrypts == Len(terms) = 1 => decryptBit(keys[1].sk, sum) = terms[1]

\* An open returns what was sealed or nothing; the receiver's key opens an
\* unaltered envelope, and no key opens an altered one.
NeverWrong ==
  \A o \in opened :
    /\ o.got \in {sealed.secret, Fail}
    /\ o.altered => o.got = Fail
    /\ (o.key = 1 /\ ~o.altered) => o.got = sealed.secret

\* Value is sealed to the main ring only; what is not says so.
WeakIsStamped == (env # None /\ ~altered /\ env.n < MainnetN) => env.weak /\ sealed.allowWeak

\* Sealing and homomorphic sums hold together.
SealingSound == SumDecrypts /\ FreshDecrypts /\ NeverWrong /\ WeakIsStamped
=============================================================================
