--------------------------- MODULE ZeroKnowledge ---------------------------
(***************************************************************************)
(* packages/zero-knowledge: the low degree test and the two provers built  *)
(* on it.                                                                  *)
(*                                                                         *)
(* fri.js: the prime field and its quartic extension, the number-theoretic *)
(* transform, interpolation, the Merkle commitments and the FRI low-degree *)
(* test with its verifier.  The arithmetic, the transforms, the trees and  *)
(* every check of the verifier are the code's, over a small field: P with  *)
(* a generator of its multiplicative group for 31, and W for 11.  Arrays   *)
(* are functions on 0..n-1.  SHA-256 is content: a node is the pair below  *)
(* it.  What the Fiat-Shamir transcript yields is Draw(luck, label), some  *)
(* value the committed data fixed; `luck' ranges over transcripts.         *)
(*                                                                         *)
(* xzk.js: a curve through public and secret points is blinded, committed  *)
(* to, proved to be of low degree and to pass through the public points    *)
(* and one derived point, and verified.  One statement goes through the    *)
(* calls in the order a caller makes them: blindedCurve, prove, verify.    *)
(* The verifier may be handed the derived value or another one, and the    *)
(* prover may have declared a larger bound.                                *)
(*                                                                         *)
(* air.js: a trace and the constraints a correct execution satisfies are   *)
(* turned into a proof that such a trace exists, and the proof is verified *)
(* against the public statement.  The numbers `setup' works from (queries, *)
(* openings, spare blind, margin, blowup) are constants scaled down with   *)
(* the field; `setup' itself, the columns and their blinds, the mask, the  *)
(* composition, the openings and the verifier's checks are the code's.     *)
(* The two named statements keep their constraints over fewer rows.        *)
(***************************************************************************)
EXTENDS Integers, Sequences, FiniteSetsExt, Functions, TLC

CONSTANTS P,          \* the prime
          Generator,  \* generates the multiplicative group of the field
          W,          \* X^4 - W is irreducible
          CurveBound,      \* K: degrees below it are accepted
          CurveDomain,     \* N
          CurveQueries,    \* nq
          CurvePoints,     \* nc
          GrindBits,       \* zero bits sealing the transcript
          PublicSets,      \* the sequences of public points
          SecretSets,      \* the sequences of secret points
          DerivedXs,       \* where the curve is read
          Blinds,          \* the arrays of blind coefficients
          Lucks            \* transcripts

----------------------------------------------------------------------------
(* fri.js                                                                  *)

mod(a) == a % P
add(a, b) == (a + b) % P
sub(a, b) == (a - b) % P
mul(a, b) == (a * b) % P

\* Square and multiply.
pw(b, e) ==
  LET r[k \in Nat] == IF k = 0 THEN 1
                      ELSE LET h == r[k \div 2]
                           IN  (((h * h) % P) * (IF k % 2 = 1 THEN b % P ELSE 1)) % P
  IN  r[e]

Inverses == [a \in 0..(P - 1) |-> pw(a, P - 2)]
inv(a) == Inverses[a]
inv2 == Inverses[2]

\* ---- F_p[X]/(X^4 - W) ----------------------------------------------------
eFrom(a) == <<mod(a), 0, 0, 0>>
eAdd(a, b) == [i \in 1..4 |-> add(a[i], b[i])]
eSub(a, b) == [i \in 1..4 |-> sub(a[i], b[i])]
eScale(a, c) == [i \in 1..4 |-> mul(a[i], c)]

\* A product term whose power reaches X^4 wraps round with a factor W.
eMul(a, b) ==
  << (a[1]*b[1] + W * (a[2]*b[4] + a[3]*b[3] + a[4]*b[2])) % P,
     (a[1]*b[2] + a[2]*b[1] + W * (a[3]*b[4] + a[4]*b[3])) % P,
     (a[1]*b[3] + a[2]*b[2] + a[3]*b[1] + W * (a[4]*b[4])) % P,
     (a[1]*b[4] + a[2]*b[3] + a[3]*b[2] + a[4]*b[1]) % P >>

\* The array f as a table: each element is computed once.
Table(f) == f @@ [x \in {} |-> 0]

\* ---- Polynomials, arrays of coefficients --------------------------------
len(a) == Cardinality(DOMAIN a)
coeff(a, i) == IF i \in DOMAIN a THEN a[i] ELSE 0
SumMod(S, f(_)) == MapThenSumSet(f, S) % P

polyEval(c, x) ==
  LET h[i \in 0..len(c)] == IF i = len(c) THEN 0 ELSE (h[i + 1] * x + c[i]) % P
  IN  h[0]

polyAdd(a, b) == [i \in 0..((IF len(a) > len(b) THEN len(a) ELSE len(b)) - 1) |-> add(coeff(a, i), coeff(b, i))]
polySub(a, b) == [i \in 0..((IF len(a) > len(b) THEN len(a) ELSE len(b)) - 1) |-> sub(coeff(a, i), coeff(b, i))]
polyMul(a, b) == [n \in 0..(len(a) + len(b) - 2) |->
  SumMod({i \in DOMAIN a : n - i \in DOMAIN b}, LAMBDA i : a[i] * b[n - i])]

\* ---- The transform ------------------------------------------------------
log2(n) == CHOOSE k \in 0..n : 2^k = n

\* The permutation the carry loop walks: the binary digits of i reversed.
Reversed(i, n) ==
  LET d[k \in 0..log2(n)] == IF k = 0 THEN 0 ELSE 2 * d[k - 1] + ((i \div 2^(k - 1)) % 2)
  IN  d[log2(n)]

\* One pass of butterflies over blocks of `size'.
Butterflies(a, size, w) ==
  LET half == size \div 2
      wl == pw(w, len(a) \div size)
  IN  [x \in DOMAIN a |->
         LET base == (x \div size) * size
             k == (x - base) % half
             v == mul(a[base + k + half], pw(wl, k))
         IN  IF x - base < half THEN add(a[base + k], v) ELSE sub(a[base + k], v)]

ntt(a, w) ==
  LET st[s \in 0..log2(len(a))] ==
        IF s = 0 THEN Table([i \in DOMAIN a |-> a[Reversed(i, len(a))]])
        ELSE Table(Butterflies(st[s - 1], 2^s, w))
  IN  st[log2(len(a))]

\* On the coset shift * dom: the coefficients are scaled first.
evalCoset(c, dom, shift) ==
  ntt([j \in DOMAIN dom |-> IF j < len(c) THEN mul(c[j], pw(shift, j)) ELSE 0], dom[1])

interpolate(xs, ys) ==
  LET n == Len(xs)
      others(i) == {j \in 1..n : j # i}
      num(i) == FoldFunctionOnSet(LAMBDA x, acc : polyMul(acc, (0 :> mod(0 - x) @@ 1 :> 1)), (0 :> 1), xs, others(i))
      den(i) == FoldFunctionOnSet(LAMBDA x, acc : mul(acc, sub(xs[i], x)), 1, xs, others(i))
      term == [i \in 1..n |-> LET s == mul(ys[i], inv(den(i)))
                                  c == num(i)
                              IN  [k \in 0..(n - 1) |-> mul(c[k], s)]]
  IN  [k \in 0..(n - 1) |-> SumMod(1..n, LAMBDA i : term[i][k])]

\* The subgroup of size N, closed under squaring.
domainOfSize(N) ==
  LET omega == pw(Generator, (P - 1) \div N) IN Table([i \in 0..(N - 1) |-> pw(omega, i)])

\* ---- Commitments --------------------------------------------------------
\* The levels of the tree; a node is the pair below it.
TreeOf(leaves) ==
  LET lv[l \in 0..log2(len(leaves))] ==
        IF l = 0 THEN leaves
        ELSE LET below == lv[l - 1]
             IN  Table([i \in 0..((len(below) \div 2) - 1) |-> <<below[2 * i], below[2 * i + 1]>>])
  IN  Table([l \in 0..log2(len(leaves)) |-> lv[l]])

RootOf(tree) == tree[len(tree) - 1][0]

\* Leaf encodings are tagged apart: base field, salted base field, extension.
merkle(leaves) == TreeOf([i \in DOMAIN leaves |-> <<"l", leaves[i]>>])
merkleExt(leaves) == TreeOf([i \in DOMAIN leaves |-> <<"e", leaves[i]>>])
merkleSalted(leaves, salts) == TreeOf([i \in DOMAIN leaves |-> <<"ls", <<leaves[i], salts[i]>>>>])

mpath(tree, idx) ==
  [l \in 1..(len(tree) - 1) |->
     LET i == idx \div 2^(l - 1) IN tree[l - 1][IF i % 2 = 0 THEN i + 1 ELSE i - 1]]

mverifyTagged(root, leaf, idx, path) ==
  LET h[l \in 0..Len(path)] ==
        IF l = 0 THEN leaf
        ELSE IF (idx \div 2^(l - 1)) % 2 = 1 THEN <<path[l], h[l - 1]>> ELSE <<h[l - 1], path[l]>>
  IN  h[Len(path)] = root

mverify(root, val, idx, path) == mverifyTagged(root, <<"l", val>>, idx, path)
mverifyExt(root, val, idx, path) == mverifyTagged(root, <<"e", val>>, idx, path)
mverifySalted(root, val, salt, idx, path) == mverifyTagged(root, <<"ls", <<val, salt>>>>, idx, path)

\* ---- The transcript -----------------------------------------------------
\* What hashing the transcript yields: some value the commitments fixed.
Draw(luck, label) == (luck * 7919 + label * label * 613 + label * 389 + luck * label * 53 + 101) % 65536
fsExt(luck, label) == [i \in 1..4 |-> mod(Draw(luck, 8 * label + i))]
fsIndex(luck, label, N) == Draw(luck, 1000 + label) % N

\* The seal: the first nonce whose hash starts with enough zero bits.
grindOk(luck, nonce, bits) == Draw(luck + nonce, 500) % 2^bits = 0
Grind(luck, bits) == CHOOSE k \in 0..500 : grindOk(luck, k, bits) /\ \A j \in 0..(k - 1) : ~grindOk(luck, j, bits)

\* ---- The low-degree test -----------------------------------------------
\* One fold: the even part plus beta times the odd part, at the squares.
FoldPair(a, b, x, beta, base) ==
  LET sc == mul(inv2, inv(x))
      even == IF base THEN eFrom(mul(add(a, b), inv2)) ELSE eScale(eAdd(a, b), inv2)
      odd == IF base THEN eFrom(mul(sub(a, b), sc)) ELSE eScale(eSub(a, b), sc)
  IN  eAdd(even, eMul(beta, odd))

Squares(d) == [j \in 0..((len(d) \div 2) - 1) |-> mul(d[j], d[j])]
DomsOf(dom, nFold) == LET ds[f \in 0..nFold] == IF f = 0 THEN dom ELSE Squares(ds[f - 1]) IN Table([f \in 0..nFold |-> ds[f]])

friProve(cw, dom, K, nq, grindBits, extInput, luck) ==
  LET nFold == log2(K)
      doms == DomsOf(dom, nFold)
      ls[f \in 0..nFold] ==
        IF f = 0 THEN cw
        ELSE LET cur == ls[f - 1]
                 half == len(cur) \div 2
             IN  Table([j \in 0..(half - 1) |->
                    FoldPair(cur[j], cur[j + half], doms[f - 1][j], fsExt(luck, f), f = 1 /\ ~extInput)])
      layers == Table([f \in 0..nFold |-> ls[f]])
      trees == Table([f \in 0..nFold |-> IF f = 0 /\ ~extInput THEN merkle(layers[f]) ELSE merkleExt(layers[f])])
      nonce == Grind(luck, grindBits)
      query(q) == LET idx0 == fsIndex(luck + nonce, q, len(dom) \div 2)
                  IN  [idx0 |-> idx0,
                       steps |-> [f \in 0..(nFold - 1) |->
                         LET half == len(layers[f]) \div 2
                             i == idx0 % half
                         IN  [i |-> i, a |-> layers[f][i], b |-> layers[f][i + half],
                              pa |-> mpath(trees[f], i), pb |-> mpath(trees[f], i + half)]]]
  IN  [roots |-> [f \in 0..nFold |-> RootOf(trees[f])], finalWord |-> layers[nFold],
       queries |-> [q \in 0..(nq - 1) |-> query(q)], K |-> K, N |-> len(dom),
       nonce |-> nonce, grindBits |-> grindBits, extInput |-> extInput]

\* The bound is taken from the proof.
AgreedOwnBound(proof, dom0, expectK, expectNq, expectGrind, expectExt) ==
  /\ proof.extInput = expectExt
  /\ proof.N = len(dom0)
  /\ len(proof.queries) = expectNq
  /\ proof.grindBits = expectGrind

\* Bound, domain, query count, seal and leaf encoding are the verifier's own.
Agreed(proof, dom0, expectK, expectNq, expectGrind, expectExt) ==
  /\ proof.extInput = expectExt
  /\ proof.K = expectK
  /\ proof.N = len(dom0)
  /\ len(proof.queries) = expectNq
  /\ proof.grindBits = expectGrind
  /\ len(proof.roots) = log2(proof.K) + 1

Opened(proof, st, f, i, half) ==
  IF f = 0 /\ ~proof.extInput
  THEN mverify(proof.roots[0], st.a, i, st.pa) /\ mverify(proof.roots[0], st.b, i + half, st.pb)
  ELSE mverifyExt(proof.roots[f], st.a, i, st.pa) /\ mverifyExt(proof.roots[f], st.b, i + half, st.pb)

\* The folded pair is the next layer's value at i: one half of the next opened
\* pair, or the final word.
FoldHolds(proof, query, f, i, doms, beta) ==
  LET st == query.steps[f]
      nFold == log2(proof.K)
      folded == FoldPair(st.a, st.b, doms[f][i], beta, f = 0 /\ ~proof.extInput)
      nextHalf == len(doms[f + 1]) \div 2
  IN  IF f + 1 < nFold
      THEN LET stn == query.steps[f + 1]
           IN  \/ stn.i = i /\ stn.a = folded
               \/ stn.i + nextHalf = i /\ stn.b = folded
      ELSE folded = proof.finalWord[i]

friVerify(proof, dom0, expectK, expectNq, expectGrind, expectExt, luck) ==
  /\ Agreed(proof, dom0, expectK, expectNq, expectGrind, expectExt)
  /\ \A i \in DOMAIN proof.finalWord : proof.finalWord[i] = proof.finalWord[0]
  /\ grindOk(luck, proof.nonce, expectGrind)
  /\ LET nFold == log2(proof.K)
         doms == DomsOf(dom0, nFold)
     IN  \A q \in DOMAIN proof.queries :
           LET query == proof.queries[q]
           IN  /\ query.idx0 = fsIndex(luck + proof.nonce, q, proof.N \div 2)
               /\ \A f \in 0..(nFold - 1) :
                    LET half == len(doms[f]) \div 2
                        i == query.idx0 % half
                    IN  /\ query.steps[f].i = i
                        /\ Opened(proof, query.steps[f], f, i, half)
                        /\ FoldHolds(proof, query, f, i, doms, fsExt(luck, f + 1))

----------------------------------------------------------------------------
(* xzk.js                                                                  *)

VARIABLES stmt,      \* the statement: points, blind, transcript
          curve,     \* [Pt, derivedY] once blinded
          proof,     \* the proof, and the bound it was made with
          verdicts   \* what verify answered, by the value it was handed

xzkVars == <<stmt, curve, proof, verdicts>>

NoCurve == [Pt |-> (0 :> 0), derivedY |-> 0]
NoProof == [bound |-> 0]

dom == domainOfSize(CurveDomain)

\* trim: no leading zero but the last coefficient.
Degree(a) == IF \A i \in DOMAIN a : a[i] = 0 THEN 0 ELSE Max({i \in DOMAIN a : a[i] # 0})

vanishing(roots) ==
  LET v[i \in 0..Len(roots)] ==
        IF i = 0 THEN (0 :> 1) ELSE polyMul(v[i - 1], (0 :> mod(0 - roots[i]) @@ 1 :> 1))
  IN  v[Len(roots)]

\* Long division by a monic-or-not divisor: the quotient.
polyDivmod(a, b) ==
  LET db == Degree(b)
      bInv == inv(b[db])
      \* from the top: the remainder after clearing the terms above degree n
      rem[n \in 0..(len(a) + 1)] ==
        IF n >= len(a) THEN a
        ELSE LET r == rem[n + 1]
             IN  IF n < db THEN r
                 ELSE LET c == mul(r[n], bInv)
                      IN  [i \in DOMAIN a |-> IF i - (n - db) \in 0..db
                                              THEN sub(r[i], mul(c, b[i - (n - db)])) ELSE r[i]]
      top == IF len(a) - 1 - db > 0 THEN len(a) - 1 - db ELSE 0
  IN  [s \in 0..top |-> IF s + db < len(a) THEN mul(rem[s + db + 1][s + db], bInv) ELSE 0]

Xs(points) == [i \in DOMAIN points |-> points[i][1]]
Ys(points) == [i \in DOMAIN points |-> points[i][2]]

\* P + Z_R * B: the blind vanishes on everything revealed.
blindedCurve(s) ==
  LET base == interpolate(Xs(s.pub) \o Xs(s.sec), Ys(s.pub) \o Ys(s.sec))
      Zr == vanishing(Append(Xs(s.pub), s.x))
  IN  [Pt |-> polyAdd(base, polyMul(Zr, s.blind)), derivedY |-> polyEval(base, s.x)]

fsIdx(luck, n) == [k \in 0..(n - 1) |-> fsIndex(luck, 50 + k, CurveDomain)]

prove(s, c, bound) ==
  LET Rxs == Append(Xs(s.pub), s.x)
      Rys == Append(Ys(s.pub), c.derivedY)
      Ir == interpolate(Rxs, Rys)
      C == polyDivmod(polySub(c.Pt, Ir), vanishing(Rxs))
      evP == [i \in DOMAIN dom |-> polyEval(c.Pt, dom[i])]
      evC == [i \in DOMAIN dom |-> polyEval(C, dom[i])]
      treeP == merkle(evP)
      treeC == merkle(evC)
      idxs == fsIdx(s.luck, CurvePoints)
  IN  [bound |-> bound, rootP |-> RootOf(treeP), rootC |-> RootOf(treeC),
       friP |-> friProve(evP, dom, bound, CurveQueries, GrindBits, FALSE, s.luck),
       friC |-> friProve(evC, dom, bound, CurveQueries, GrindBits, FALSE, s.luck),
       cons |-> [k \in DOMAIN idxs |->
         LET i == idxs[k] IN [i |-> i, Pv |-> evP[i], Cv |-> evC[i],
                              pP |-> mpath(treeP, i), pC |-> mpath(treeC, i)]]]

\* P(z) - I(z) = Z(z) C(z) at a drawn point.
ConstraintHolds(Ir, Zr, z, c) == sub(c.Pv, polyEval(Ir, z)) = mul(polyEval(Zr, z), c.Cv)

verify(s, pf, derivedY) ==
  LET Rxs == Append(Xs(s.pub), s.x)
      Ir == interpolate(Rxs, Append(Ys(s.pub), derivedY))
      Zr == vanishing(Rxs)
      idxs == fsIdx(s.luck, CurvePoints)
  IN  /\ pf.friP.roots[0] = pf.rootP
      /\ pf.friC.roots[0] = pf.rootC
      /\ friVerify(pf.friP, dom, CurveBound, CurveQueries, GrindBits, FALSE, s.luck)
      /\ friVerify(pf.friC, dom, CurveBound, CurveQueries, GrindBits, FALSE, s.luck)
      /\ \A k \in DOMAIN idxs :
           LET c == pf.cons[k]
               i == idxs[k]
           IN  /\ c.i = i
               /\ mverify(pf.rootP, c.Pv, i, c.pP)
               /\ mverify(pf.rootC, c.Cv, i, c.pC)
               /\ ConstraintHolds(Ir, Zr, dom[i], c)

XzkInit ==
  /\ stmt = [pub |-> <<>>]
  /\ curve = NoCurve
  /\ proof = NoProof
  /\ verdicts = {}

Blind ==
  /\ curve = NoCurve
  /\ \E pub \in PublicSets, sec \in SecretSets, x \in DerivedXs, b \in Blinds, luck \in Lucks :
       LET s == [pub |-> pub, sec |-> sec, x |-> x, blind |-> b, luck |-> luck]
       IN  /\ stmt' = s
           /\ curve' = blindedCurve(s)
  /\ UNCHANGED <<proof, verdicts>>

\* With the agreed bound, or with twice it.
Prove ==
  /\ curve # NoCurve /\ proof = NoProof
  /\ \E bound \in {CurveBound, 2 * CurveBound} : proof' = prove(stmt, curve, bound)
  /\ UNCHANGED <<stmt, curve, verdicts>>

Verify ==
  /\ proof # NoProof
  /\ \E off \in {0, 1} :
       /\ \A v \in verdicts : v.off # off
       /\ verdicts' = verdicts \cup {[off |-> off, ok |-> verify(stmt, proof, add(curve.derivedY, off))]}
  /\ UNCHANGED <<stmt, curve, proof>>

XzkNext == Blind \/ Prove \/ Verify
XzkSpec == XzkInit /\ [][XzkNext]_xzkVars

-----------------------------------------------------------------------------
FitsBound == Degree(curve.Pt) < CurveBound

\* The blind moves neither the public points nor the derived value: the
\* committed curve still passes through everything the statement reveals.
RevealedKept ==
  curve # NoCurve =>
    /\ \A i \in DOMAIN stmt.pub : polyEval(curve.Pt, stmt.pub[i][1]) = stmt.pub[i][2]
    /\ polyEval(curve.Pt, stmt.x) = curve.derivedY

\* An honest proof of a curve below the bound verifies, whatever the blind and
\* the transcript.
HonestAccepted ==
  (proof # NoProof /\ FitsBound /\ proof.bound = CurveBound) =>
    \A v \in verdicts : v.off = 0 => v.ok

\* Another derived value is refused as soon as one drawn point is not itself a
\* public point.
OtherValueRefused ==
  (\E k \in 0..(CurvePoints - 1) : \A i \in DOMAIN stmt.pub : dom[fsIdx(stmt.luck, CurvePoints)[k]] # stmt.pub[i][1])
    => \A v \in verdicts : v.off = 1 => ~v.ok

\* A proof does not choose its own bound, and a curve past the agreed one is
\* not accepted.
BoundIsVerifiers ==
  \A v \in verdicts : v.ok => proof.bound = CurveBound /\ FitsBound

\* The curve argument is complete for what fits the bound and accepts nothing
\* else.
CurveSound == RevealedKept /\ HonestAccepted /\ (verdicts # {} => OtherValueRefused) /\ BoundIsVerifiers
-----------------------------------------------------------------------------
(* air.js                                                                  *)

CONSTANTS AirQueries,    \* nq
          AirPoints,     \* nc
          Blowup,        \* N / K
          BlindSpare,    \* how far the blind's degree is above 2 nc
          ZkMargin,      \* spare mask coefficients
          AirGrind,      \* zero bits sealing the transcript
          Rows,          \* [statement name -> trace length]
          RC,            \* the round constant of the chain
          Seeds,         \* seeds of blinds, mask and salts
          Inputs,        \* starting values of a trace
          AirLucks       \* transcripts

VARIABLES job,       \* the statement, the trace and the randomness
          ctx,       \* what setup returned
          airProof,  \* the proof
          airVerdicts

airVars == <<job, ctx, airProof, airVerdicts>>

Nothing == [made |-> FALSE]

nextPow2(x) == CHOOSE k \in {2^i : i \in 0..20} : k >= x /\ \A j \in {2^i : i \in 0..20} : j >= x => k <= j

\* What the transcript hands out of the mask.
ZK_REVEALED(K) == AirQueries * (log2(K) + 1) + AirPoints

\* Large enough for every degree, then doubled until the mask outnumbers what
\* is revealed of it.
BoundFor(need) ==
  CHOOSE K \in {2^i : i \in 0..20} :
    /\ K >= nextPow2(need) /\ K > ZK_REVEALED(K) + ZkMargin
    /\ \A J \in {2^i : i \in 0..20} : (J >= nextPow2(need) /\ J > ZK_REVEALED(J) + ZkMargin) => K <= J

setup(T, width, D) ==
  LET blindDeg == 2 * AirPoints + BlindSpare
      colDeg == 2 * T - 1 + blindDeg
      quotientDeg == D * colDeg - (T - 1)
      K == BoundFor(Max({quotientDeg, colDeg}) + 1)
      N == K * Blowup
      d == domainOfSize(N)
  IN  [T |-> T, W |-> width, D |-> D, K |-> K, N |-> N, blindDeg |-> blindDeg,
       g |-> pw(Generator, (P - 1) \div T), dom |-> d,
       coset |-> [i \in DOMAIN d |-> mul(Generator, d[i])], step |-> N \div T]

\* ---- Named statements ---------------------------------------------------
StatementNames == {"fib", "hashchain"}
WidthOf(name) == IF name = "fib" THEN 2 ELSE 1
DegreeOf(name) == IF name = "fib" THEN 1 ELSE 3
TransitionsOf(name) == IF name = "fib" THEN 2 ELSE 1

\* The k-th transition constraint on two neighbouring rows, zero when it holds.
transition(name, k, c, n) ==
  CASE name = "fib" /\ k = 1 -> sub(n[1], c[2])
    [] name = "fib" /\ k = 2 -> sub(n[2], add(c[1], c[2]))
    [] OTHER -> sub(n[1], add(mul(mul(c[1], c[1]), c[1]), RC))

\* The pinned cells: the public statement.
boundaryOf(name, claimed) ==
  IF name = "fib"
  THEN << [row |-> 0, col |-> 1, value |-> 1], [row |-> 0, col |-> 2, value |-> 1],
          [row |-> Rows[name] - 1, col |-> 1, value |-> claimed] >>
  ELSE << [row |-> Rows[name] - 1, col |-> 1, value |-> claimed] >>

statementCtx(name) == setup(Rows[name], WidthOf(name), DegreeOf(name))

\* ---- The prover ---------------------------------------------------------
\* Inverse transform over the rows' subgroup.
interpOverSubgroup(values, g, T) ==
  [k \in 0..(T - 1) |->
     mul(SumMod(0..(T - 1), LAMBDA r : mul(values[r], pw(inv(g), r * k))), inv(T % P))]

\* The column plus a random multiple of x^T - 1, which is zero on every row.
BlindedColumn(c, values, seed, j) ==
  LET xT == [i \in 0..c.T |-> IF i = 0 THEN P - 1 ELSE IF i = c.T THEN 1 ELSE 0]
      r == [i \in 0..c.blindDeg |-> Draw(seed, 100 * j + i) % P]
  IN  polyAdd(interpOverSubgroup(values, c.g, c.T), polyMul(xT, r))

\* Zero on the last row too, where no transition has to hold.
zTransitionAll(c, x) == sub(pw(x, c.T), 1)

\* (x^T - 1) / (x - g^(T-1)): zero on every row a transition must hold on.
zTransition(c, x) == mul(sub(pw(x, c.T), 1), inv(sub(x, pw(c.g, c.T - 1))))

\* The challenges: drawn from the commitments and the whole statement, the
\* mask's only after the mask is committed.
challenges(luck, boundary) ==
  LET tag == luck + boundary[Len(boundary)].value
  IN  [tag |-> tag, alpha |-> [k \in 1..2 |-> fsExt(tag, 20 + k)],
       beta |-> [j \in 1..3 |-> fsExt(tag, 30 + j)], gamma |-> fsExt(tag, 40)]

eSum(f) == FoldFunction(eAdd, eFrom(0), f)

\* The batched quotients at one point of the coset.
composition(name, c, ch, boundary, x, cur, nxt) ==
  eAdd(eSum([k \in 1..TransitionsOf(name) |->
              eScale(ch.alpha[k], mul(transition(name, k, cur, nxt), inv(zTransition(c, x))))]),
       eSum([j \in 1..Len(boundary) |->
              eScale(ch.beta[j], mul(sub(cur[boundary[j].col], boundary[j].value),
                                     inv(sub(x, pw(c.g, boundary[j].row)))))]))

OpenIndex(ch, k, N) == fsIndex(ch.tag, 70 + k, N)

airProve(j, c) ==
  LET cols == Table([w \in 1..c.W |-> Table(BlindedColumn(c, [r \in 0..(c.T - 1) |-> j.trace[r][w]], j.seed, w))])
      evals == Table([w \in 1..c.W |-> evalCoset(cols[w], c.dom, Generator)])
      salts == [w \in 1..c.W |-> [i \in 0..(c.N - 1) |-> <<j.seed, w, i>>]]
      trees == Table([w \in 1..c.W |-> merkleSalted(evals[w], salts[w])])
      limbs == Table([l \in 1..4 |-> evalCoset([i \in 0..(c.K - 1) |-> Draw(j.seed, 300 + 40 * l + i) % P], c.dom, Generator)])
      M == [i \in 0..(c.N - 1) |-> [l \in 1..4 |-> limbs[l][i]]]
      treeM == merkleExt(M)
      boundary == boundaryOf(j.name, j.claimed)
      ch == challenges(j.luck, boundary)
      at(i) == [w \in 1..c.W |-> evals[w][i]]
      next(i) == (i + c.step) % c.N
      Dw == Table([i \in 0..(c.N - 1) |->
               eAdd(composition(j.name, c, ch, boundary, c.coset[i], at(i), at(next(i))), eMul(ch.gamma, M[i]))])
      treeD == merkleExt(Dw)
  IN  [made |-> TRUE, cols |-> cols,
       roots |-> [w \in 1..c.W |-> RootOf(trees[w])], rootM |-> RootOf(treeM), rootD |-> RootOf(treeD),
       friC |-> friProve(Dw, c.coset, c.K, AirQueries, AirGrind, TRUE, ch.tag),
       opens |-> [k \in 0..(AirPoints - 1) |->
         LET i == OpenIndex(ch, k, c.N)
             ni == next(i)
         IN  [i |-> i, cur |-> at(i), nxt |-> at(ni),
              sCur |-> [w \in 1..c.W |-> salts[w][i]], sNxt |-> [w \in 1..c.W |-> salts[w][ni]],
              pCur |-> [w \in 1..c.W |-> mpath(trees[w], i)], pNxt |-> [w \in 1..c.W |-> mpath(trees[w], ni)],
              Dv |-> Dw[i], pD |-> mpath(treeD, i), Mv |-> M[i], pM |-> mpath(treeM, i)]]]

\* The masked codeword is the composition plus the committed mask.
MaskedMatches(acc, ch, o) == eAdd(acc, eMul(ch.gamma, o.Mv)) = o.Dv

airVerify(name, c, luck, pf, claimed) ==
  LET boundary == boundaryOf(name, claimed)
      ch == challenges(luck, boundary)
  IN  /\ Len(pf.roots) = c.W
      /\ pf.friC.roots[0] = pf.rootD
      /\ friVerify(pf.friC, c.coset, c.K, AirQueries, AirGrind, TRUE, ch.tag)
      /\ len(pf.opens) = AirPoints
      /\ \A k \in 0..(AirPoints - 1) :
           LET o == pf.opens[k]
               i == OpenIndex(ch, k, c.N)
               ni == (i + c.step) % c.N
           IN  /\ o.i = i
               /\ \A w \in 1..c.W : /\ mverifySalted(pf.roots[w], o.cur[w], o.sCur[w], i, o.pCur[w])
                                    /\ mverifySalted(pf.roots[w], o.nxt[w], o.sNxt[w], ni, o.pNxt[w])
               /\ mverifyExt(pf.rootD, o.Dv, i, o.pD)
               /\ mverifyExt(pf.rootM, o.Mv, i, o.pM)
               /\ MaskedMatches(composition(name, c, ch, boundary, c.coset[i], o.cur, o.nxt), ch, o)

\* An unknown name is refused before anything is looked at.
verifyStatement(name, luck, pf, claimed) ==
  name \in StatementNames /\ airVerify(name, statementCtx(name), luck, pf, claimed)

-----------------------------------------------------------------------------
\* The rows of an execution from `start', with one cell of row `broken' off by
\* one (a row past the end leaves it intact).
TraceOf(name, start, broken) ==
  LET T == Rows[name]
      row[r \in 0..(T - 1)] ==
        LET right == IF r = 0 THEN (IF name = "fib" THEN <<1, 1>> ELSE <<start>>)
                     ELSE LET q == row[r - 1]
                          IN  IF name = "fib" THEN <<q[2], add(q[1], q[2])>>
                              ELSE <<add(mul(mul(q[1], q[1]), q[1]), RC)>>
        IN  IF r = broken THEN [right EXCEPT ![1] = add(@, 1)] ELSE right
  IN  [r \in 0..(T - 1) |-> row[r]]

AirInit == job = Nothing /\ ctx = Nothing /\ airProof = Nothing /\ airVerdicts = {}

\* A caller picks a statement and runs the computation, rightly or not.
Start ==
  /\ job = Nothing
  /\ \E name \in StatementNames, start \in Inputs, seed \in Seeds, luck \in AirLucks :
     \E broken \in 0..Rows[name] :
       LET tr == TraceOf(name, start, broken)
       IN  /\ job' = [made |-> TRUE, name |-> name, trace |-> tr, seed |-> seed, luck |-> luck,
                      claimed |-> tr[Rows[name] - 1][1]]
           /\ ctx' = statementCtx(name)
  /\ UNCHANGED <<airProof, airVerdicts>>

ProveTrace ==
  /\ job # Nothing /\ airProof = Nothing
  /\ airProof' = airProve(job, ctx)
  /\ UNCHANGED <<job, ctx, airVerdicts>>

\* The verifier is handed the claimed value or another one, under this name or
\* one the registry does not have.
VerifyClaim ==
  /\ airProof # Nothing
  /\ \E off \in {0, 1}, name \in {job.name, "unknown"} :
       /\ \A v \in airVerdicts : <<v.off, v.name>> # <<off, name>>
       /\ airVerdicts' = airVerdicts \cup
            {[off |-> off, name |-> name, ok |-> verifyStatement(name, job.luck, airProof, add(job.claimed, off))]}
  /\ UNCHANGED <<job, ctx, airProof>>

AirNext == Start \/ ProveTrace \/ VerifyClaim
AirSpec == AirInit /\ [][AirNext]_airVars

-----------------------------------------------------------------------------
\* Does the trace follow the rule and meet the pinned cells?
Follows ==
  /\ \A r \in 0..(ctx.T - 2), k \in 1..TransitionsOf(job.name) :
       transition(job.name, k, job.trace[r], job.trace[r + 1]) = 0
  /\ LET b == boundaryOf(job.name, job.claimed)
     IN  \A j \in 1..Len(b) : job.trace[b[j].row][b[j].col] = b[j].value

\* Blinding leaves every row of the trace where it was.
RowsKept ==
  airProof # Nothing =>
    \A w \in 1..ctx.W, r \in 0..(ctx.T - 1) : polyEval(airProof.cols[w], pw(ctx.g, r)) = job.trace[r][w]

\* What is opened of a column and what the transcript reveals of the mask stay
\* below the number of their random coefficients, and every degree below the
\* bound.
Hidden ==
  ctx # Nothing =>
    /\ ctx.blindDeg + 1 > 2 * AirPoints
    /\ ctx.K > ZK_REVEALED(ctx.K) + ZkMargin
    /\ ctx.D * (ctx.T + ctx.blindDeg) - (ctx.T - 1) < ctx.K

\* An execution that follows its rule is accepted whatever the randomness, and
\* nothing else is: not a broken row, not another value, not another name.
AcceptedIffTrue ==
  \A v \in airVerdicts : v.ok <=> (Follows /\ v.off = 0 /\ v.name = job.name)

\* The proof of a computation verifies exactly when the computation was right.
AirSound == RowsKept /\ Hidden /\ AcceptedIffTrue
=============================================================================
