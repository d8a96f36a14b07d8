---------------------------- MODULE PallasGroup ----------------------------
(***************************************************************************)
(* The threshold cryptography of src/crypto over a group of prime order Q: *)
(* Shamir sharing and Feldman commitments (shamir), ElGamal encryption,    *)
(* the two proofs of knowledge and the discrete-logarithm table (elgamal), *)
(* and the envelopes shares travel in (ecies).                             *)
(*                                                                         *)
(* A point is represented by its discrete logarithm to the generator, so   *)
(* the generator is 1, the identity is 0 and the sum of two points is the  *)
(* sum of their logarithms.  No operator below looks at a logarithm other  *)
(* than through the group operations.  A hash is represented by what it    *)
(* hashes: two transcripts collide only when they are equal.  An operator  *)
(* that returns an error in the code returns Fail.                         *)
(***************************************************************************)
EXTENDS Integers, Sequences, SequencesExt

CONSTANT Q   \* order of the group

ASSUME QPrime == Q \in Nat /\ Q > 2 /\ \A d \in 2 .. Q - 1 : Q % d # 0

Fail == -1

NonZero     == 1 .. Q - 1
Generator   == 1
Identity    == 0

Mul(k, P)   == (k * P) % Q
Add(P, R)   == (P + R) % Q
Minus(P, R) == (P - R) % Q
Invert(x)   == CHOOSE y \in NonZero : (x * y) % Q = 1

-----------------------------------------------------------------------------
(* serialize.go: the encodings that refuse a degenerate value.             *)

UnmarshalPublicKey(P) == IF P = Identity THEN Fail ELSE P

UnmarshalSecretKey(s) == IF s = 0 THEN Fail ELSE s

-----------------------------------------------------------------------------
(* shamir.go and feldman.go.  A polynomial is the sequence of its          *)
(* coefficients, the constant term first.                                  *)

\* Horner's rule from the highest coefficient down.
EvalPolynomial(coeffs, x) ==
    FoldRight(LAMBDA c, acc : (acc * x + c) % Q, coeffs, 0)

\* One share for each of the points 1..n.
Split(coeffs, n) == [i \in 1 .. n |-> EvalPolynomial(coeffs, i)]

LagrangeCoefficients(indices, target) ==
    [j \in 1 .. Len(indices) |->
        LET others == SelectSeq(indices, LAMBDA i : i # indices[j])
            num == FoldLeft(LAMBDA a, i : (a * (target - i)) % Q, 1, others)
            den == FoldLeft(LAMBDA a, i : (a * (indices[j] - i)) % Q, 1, others)
        IN  (num * Invert(den)) % Q]

FeldmanCommit(coeffs) == [j \in 1 .. Len(coeffs) |-> Mul(coeffs[j], Generator)]

EvalCommitmentPolynomial(commitments, index) ==
    FoldRight(LAMBDA C, acc : Add(Mul(index, acc), C), commitments, Identity)

VerifyFeldmanShare(commitments, index, share) ==
    Mul(share, Generator) = EvalCommitmentPolynomial(commitments, index)

CombineCommitments(contributions) ==
    [j \in 1 .. Len(contributions[1]) |->
        FoldLeft(LAMBDA acc, vec : Add(acc, vec[j]), Identity, contributions)]

-----------------------------------------------------------------------------
(* partial_decrypt.go.  A partial decryption is a pair <<index, D>>.       *)

PartialDecrypt(share, C1) == Mul(share, C1)

CombinePartials(partials, t) ==
    LET lambdas == LagrangeCoefficients([j \in 1 .. Len(partials) |-> partials[j][1]], 0)
    IN  IF Len(partials) < t THEN Fail
        ELSE FoldLeft(Add, Identity,
                      [j \in 1 .. Len(partials) |-> Mul(lambdas[j], partials[j][2])])

-----------------------------------------------------------------------------
(* elgamal.go and bsgs.go.                                                 *)

ValuePoint(v) == Mul(v, Generator)

Encrypt(pk, v, r) ==
    [C1 |-> Mul(r, Generator), C2 |-> Add(ValuePoint(v), Mul(r, pk))]

HomomorphicAdd(a, b) == [C1 |-> Add(a.C1, b.C1), C2 |-> Add(a.C2, b.C2)]

CeilSqrt(n) == CHOOSE s \in 0 .. n : s * s >= n /\ \A r \in 0 .. s - 1 : r * r < n

\* The baby steps j*G for j < m, with m the rounded-up root of the bound.
NewBSGSTable(bound) ==
    LET m == CeilSqrt(bound)
    IN  [table |-> [key \in {ValuePoint(j) : j \in 0 .. m - 1} |->
                        CHOOSE j \in 0 .. m - 1 : ValuePoint(j) = key],
         m |-> m, mG |-> ValuePoint(m), n |-> bound]

\* The giant steps h - i*m*G for i = 0..m: the first that is a baby step and
\* gives a value below the bound.
Solve(t, h) ==
    LET Key(i)  == Minus(h, Mul(i, t.mG))
        hits == {i \in 0 .. t.m : Key(i) \in DOMAIN t.table /\ i * t.m + t.table[Key(i)] < t.n}
    IN  IF hits = {} THEN Fail
        ELSE LET i == CHOOSE i \in hits : \A k \in hits : i <= k
             IN  i * t.m + t.table[Key(i)]

-----------------------------------------------------------------------------
(* dleq.go and dkg_pop.go.  A challenge is the transcript it hashes; its   *)
(* value as a scalar is some fixed function of it.                         *)

ScalarOf(transcript) == 1 + FoldLeft(LAMBDA a, x : (3 * a + x) % (Q - 1), 1, transcript)

GeneratePartialDecryptDLEQ(share, C1, k) ==
    LET e == <<Mul(share, Generator), C1, Mul(share, C1), Mul(k, Generator), Mul(k, C1)>>
    IN  IF share = 0 THEN Fail
        ELSE [e |-> e, z |-> (k + ScalarOf(e) * share) % Q]

VerifyPartialDecryptDLEQ(proof, VK, C1, D) ==
    LET e == ScalarOf(proof.e) IN
    /\ VK # Identity /\ C1 # Identity
    /\ proof.e = <<VK, C1, D, Minus(ValuePoint(proof.z), Mul(e, VK)),
                   Minus(Mul(proof.z, C1), Mul(e, D))>>

\* Bound to the dealer and to all of its commitments.
GenerateConstantTermProof(secret, dealer, commitments, nonce) ==
    LET R == Mul(nonce, Generator) IN
    IF secret = 0 \/ nonce = 0 \/ commitments[1] # Mul(secret, Generator) THEN Fail
    ELSE [R |-> R,
          z |-> (nonce + ScalarOf(<<dealer, R>> \o commitments) * secret) % Q]

VerifyConstantTermProof(proof, dealer, commitments) ==
    /\ commitments[1] # Identity
    /\ proof.R # Identity
    /\ Mul(proof.z, Generator)
         = Add(proof.R, Mul(ScalarOf(<<dealer, proof.R>> \o commitments), commitments[1]))

-----------------------------------------------------------------------------
(* ecies.go.  The key is derived from the ephemeral point and the x        *)
(* coordinate of the shared point, which forgets its sign; the cipher      *)
(* opens under the key it was sealed with and no other.                    *)

XCoordinate(S) == {S, Minus(Identity, S)}

DeriveKey(E, S) == <<E, XCoordinate(S)>>

SealEnvelope(pk, plaintext, e) ==
    [ephemeral |-> Mul(e, Generator),
     key |-> DeriveKey(Mul(e, Generator), Mul(e, pk)),
     body |-> plaintext]

OpenEnvelope(sk, env) ==
    IF sk = 0 \/ env.ephemeral = Identity THEN Fail
    ELSE IF DeriveKey(env.ephemeral, Mul(sk, env.ephemeral)) = env.key THEN env.body
    ELSE Fail

=============================================================================
