----------------------------- MODULE Secp256k1 ------------------------------
(***************************************************************************)
(* The arithmetic of ephemeral_signer.py on a curve y^2 = x^3 + B small    *)
(* enough to be enumerated: key derivation, the RFC 6979 search for k, the *)
(* Montgomery ladder step by step, signing with a low s, and verification  *)
(* from a compressed key.  HMAC-SHA256 is external: every digest of Bits   *)
(* bits may come out of it.                                                *)
(***************************************************************************)
EXTENDS Integers, FiniteSets

CONSTANTS
    P, N, B,    \* the field's prime, the curve's order, and the curve
    G,          \* generator, a point <<x, y>>
    Bits,       \* bits of a digest and of the ladder (256 in the code)
    Infinity,   \* None
    Hashes,     \* message hashes that occur
    Keys        \* first digests of the seeds that occur

PowerOfTwo[n \in Nat] == IF n = 0 THEN 1 ELSE 2 * PowerOfTwo[n - 1]

Digests == 0 .. PowerOfTwo[Bits] - 1
Prime(m) == m > 1 /\ \A d \in 2 .. m - 1 : m % d # 0
\* The right side of the curve's equation.
Square(x) == (x * x * x + B) % P
Curve == {p \in (0 .. P - 1) \X (0 .. P - 1) : (p[2] * p[2]) % P = Square(p[1])}
Group == Curve \cup {Infinity}

\* What the code relies on in secp256k1's parameters.
ASSUME FieldAssumption == P \in Nat /\ B \in Nat /\ Prime(P) /\ P % 4 = 3
ASSUME OrderAssumption ==
    /\ N \in Nat /\ Prime(N) /\ N < P
    /\ Bits \in Nat /\ N <= PowerOfTwo[Bits]
    /\ Cardinality(Curve) = N - 1 /\ G \in Curve
\* No point is its own opposite, N being odd.
ASSUME RootAssumption == \A x \in 0 .. P - 1 : Square(x) # 0
ASSUME InputsAssumption == Hashes \subseteq Digests /\ Keys \subseteq Digests
ASSUME InfinityAssumption == Infinity \notin (0 .. P - 1) \X (0 .. P - 1)

-----------------------------------------------------------------------------
PowMod(b, e, m) ==
    LET power[n \in 0 .. e] == IF n = 0 THEN 1 ELSE (power[n - 1] * b) % m
    IN  power[e]

\* _modinv(a, m) = pow(a, m - 2, m); it raises where this is 0.
Inverses == [m \in {P, N} |-> [a \in 0 .. m - 1 |-> PowMod(a, m - 2, m)]]
Modinv(a, m) == Inverses[m][a % m]

\* Fermat: what makes a power the inverse, and another one a square root.
ASSUME FermatAssumption ==
    /\ \A m \in {P, N} : \A a \in 1 .. m - 1 :
          Modinv(a, m) \in 1 .. m - 1 /\ (a * Modinv(a, m)) % m = 1
    /\ \A y \in 0 .. P - 1 : PowMod((y * y) % P, (P + 1) \div 4, P) \in {y, P - y}

\* The third point of the line with slope lam through p and q, mirrored.
Chord(lam, p, q) ==
    LET x == (lam * lam - p[1] - q[1]) % P
    IN  <<x, (lam * (p[1] - x) - p[2]) % P>>

Tangent(p) == ((3 * p[1] * p[1]) * Modinv(2 * p[2], P)) % P

PointAdd_NoInverse(p, q) == \* mutant: x1 = x2 taken for a doubling
    CASE p = Infinity -> q
      [] q = Infinity -> p
      [] p # Infinity /\ q # Infinity ->
           Chord(IF p[1] = q[1] THEN Tangent(p)
                 ELSE ((q[2] - p[2]) * Modinv(q[1] - p[1], P)) % P, p, q)
PointAdd(p, q) ==
    CASE p = Infinity -> q
      [] q = Infinity /\ p # Infinity -> p
      [] p # Infinity /\ q # Infinity /\ p[1] = q[1] /\ p[2] # q[2] -> Infinity
      [] p # Infinity /\ p = q -> Chord(Tangent(p), p, p)
      [] p # Infinity /\ q # Infinity /\ p[1] # q[1] ->
           Chord(((q[2] - p[2]) * Modinv(q[1] - p[1], P)) % P, p, q)

PointDouble(p) ==
    IF p = Infinity \/ p[2] = 0 THEN Infinity ELSE Chord(Tangent(p), p, p)

\* k >> i, and its last bit.
Shift(k, i) == k \div PowerOfTwo[i]
Bit(k, i) == Shift(k, i) % 2

\* One iteration of _point_mul's loop, for one bit of k.
LadderStep_Swapped(r, bit) == \* mutant: the branches' results exchanged
    IF bit = 0 THEN [zero |-> PointDouble(r.zero), one |-> PointDouble(r.one)]
               ELSE [zero |-> PointAdd(r.zero, r.one), one |-> PointDouble(r.one)]
LadderStep(r, bit) ==
    IF bit = 0
    THEN [zero |-> PointDouble(r.zero), one |-> PointAdd(r.zero, r.one)]
    ELSE [zero |-> PointAdd(r.zero, r.one), one |-> PointDouble(r.one)]

LadderStart(p) == [zero |-> Infinity, one |-> p]

PointMul(k, p) ==
    LET ladder[n \in 0 .. Bits] ==
          IF n = 0 THEN LadderStart(p)
                   ELSE LadderStep(ladder[n - 1], Bit(k, Bits - n))
    IN  ladder[Bits].zero

-----------------------------------------------------------------------------
\* The key of a seed whose two HMACs are d and retry.
DeriveKey(d, retry) ==
    CASE d % N # 0 -> d % N
      [] d % N = 0 /\ retry % N # 0 -> retry % N
      [] d % N = 0 /\ retry % N = 0 -> 1

Compress_NoParity(q) == <<2, q[1]>> \* mutant: the prefix forgets y
Compress(q) == <<2 + (q[2] % 2), q[1]>>

\* The point of a compressed key, or Infinity where verify_static refuses it.
Decompress(c) ==
    LET square == Square(c[2])
        y == PowMod(square, (P + 1) \div 4, P)
    IN  CASE (y * y) % P # square -> Infinity
          [] (y * y) % P = square /\ y % 2 = c[1] - 2 -> <<c[2], y>>
          [] (y * y) % P = square /\ y % 2 # c[1] - 2 -> <<c[2], P - y>>

LowS(s) == IF s > N \div 2 THEN N - s ELSE s

EcdsaVerify(pub, z, sig) ==
    LET r == sig[1]
        s == sig[2]
        w == Modinv(s, N)
        point == PointAdd(PointMul((z * w) % N, G), PointMul((r * w) % N, pub))
    IN  /\ r \in 1 .. N - 1 /\ s \in 1 .. N - 1
        /\ point # Infinity
        /\ point[1] % N = r

-----------------------------------------------------------------------------
VARIABLES
    key,      \* the private scalar
    hash,     \* z, the message's hash
    k,        \* RFC 6979's k, 0 until a candidate is accepted
    i,        \* bits of k the ladder has left
    r01,      \* the ladder's r0 and r1
    stage,    \* where _ecdsa_sign is
    sig       \* (r, s)

vars == <<key, hash, k, i, r01, stage, sig>>

Init ==
    /\ \E d \in Keys, retry \in {0, 2, N} : key = DeriveKey(d, retry)
    /\ hash \in Hashes
    /\ k = 0 /\ i = Bits /\ r01 = LadderStart(G)
    /\ stage = "nonce" /\ sig = <<0, 0>>

Candidate_UpToN(c) == \* mutant: candidate <= N
    /\ stage = "nonce"
    /\ c \in 1 .. N
    /\ k' = c /\ stage' = "ladder"
    /\ UNCHANGED <<key, hash, i, r01, sig>>
\* A candidate in 1 .. N - 1 is returned; for any other the loop goes on.
Candidate(c) ==
    /\ stage = "nonce"
    /\ c \in 1 .. N - 1
    /\ k' = c /\ stage' = "ladder"
    /\ UNCHANGED <<key, hash, i, r01, sig>>

Ladder ==
    /\ stage = "ladder" /\ i > 0
    /\ i' = i - 1
    /\ r01' = LadderStep(r01, Bit(k, i - 1))
    /\ UNCHANGED <<key, hash, k, stage, sig>>

\* s is 0 for one hash in N: sign() raises, as it does for r = 0.
Finish ==
    /\ stage = "ladder" /\ i = 0
    /\ LET r == r01.zero[1] % N
           s == (Modinv(k, N) * (hash + r * key)) % N
       IN  IF r = 0 \/ s = 0
           THEN stage' = "raised" /\ UNCHANGED sig
           ELSE stage' = "signed" /\ sig' = <<r, LowS(s)>>
    /\ UNCHANGED <<key, hash, k, i, r01>>

Next == (\E c \in Digests : Candidate(c)) \/ Ladder \/ Finish

Spec == Init /\ [][Next]_vars

-----------------------------------------------------------------------------
TypeOK ==
    /\ key \in 1 .. N - 1 /\ k \in 0 .. N - 1
    /\ hash \in Digests /\ i \in 0 .. Bits
    /\ r01 \in [zero : Group, one : Group]
    /\ stage \in {"nonce", "ladder", "signed", "raised"}
    /\ sig \in (0 .. N - 1) \X (0 .. N \div 2)

PublicKey == PointMul(key, G)

\* The multiples of a point by repeated addition.
MultiplesOf(p) ==
    LET multiple[n \in Nat] == IF n = 0 THEN Infinity
                               ELSE PointAdd(multiple[n - 1], p)
    IN  multiple

\* After the bits it has read, k >> i, the ladder holds (k >> i) G and the
\* multiple after it, through every exceptional case of the addition.
LadderInvariant ==
    stage # "nonce" =>
        /\ r01.zero = MultiplesOf(G)[Shift(k, i)]
        /\ r01.one = MultiplesOf(G)[Shift(k, i) + 1]

\* What secp256k1 is chosen for: a group with an element of order N.
Associative ==
    \A p, q, t \in Group : PointAdd(PointAdd(p, q), t) = PointAdd(p, PointAdd(q, t))

GroupLaw ==
    /\ \A p \in Group : PointDouble(p) = PointAdd(p, p)
    /\ \A p, q \in Group : PointAdd(p, q) \in Group /\ PointAdd(p, q) = PointAdd(q, p)
    /\ Associative

GeneratorHasOrderN ==
    /\ MultiplesOf(G)[N] = Infinity
    /\ \A n \in 1 .. N - 1 : MultiplesOf(G)[n] # Infinity

\* _point_add and _point_double are that group's operation, whatever branch each
\* sum takes: so the ladder that has read its last bit holds what k G means.
AdditionIsAGroup == i = 0 => GroupLaw /\ GeneratorHasOrderN

\* verify() accepts what sign_manifest() returned, with nothing but the
\* compressed key, also when x wraps over N and when s was normalised.
SignatureVerifies ==
    stage = "signed" => EcdsaVerify(Decompress(Compress(PublicKey)), hash, sig)

=============================================================================
