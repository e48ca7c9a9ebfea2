---------------------------- MODULE TradeRecords ----------------------------
(***************************************************************************)
(* The signed records of a trade (commitment.py, execution.py,             *)
(* settlement.py) and what verify.py says of them.  ECDSA is ideal here:   *)
(* an envelope verifies over the data it was made for and no other.  A     *)
(* SHA-256 hash is the value it hashes, a public key is the seed it comes  *)
(* from, and a temporal window is "safe" (it ends before                   *)
(* shor_earliest_attack), "unsafe" or "absent".                            *)
(***************************************************************************)
EXTENDS Integers, FiniteSets

CONSTANTS
    Absent,   \* Python's None
    NaN       \* float('nan'), which json.dumps and json.loads carry

-----------------------------------------------------------------------------
(* Records as create_and_sign makes them.                                    *)
Sign(key, data) == [pubkey |-> key, over |-> data]

Commitment(o, terms, nonce, seed, window) ==
    [order |-> o, terms |-> terms, nonce |-> nonce, seed |-> seed,
     window |-> window]

Execution(o, csig, cseed, fill, nonce, seed, window) ==
    [order |-> o, commitmentSig |-> csig, commitmentSeed |-> cseed,
     fill |-> fill, nonceAfter |-> nonce, seed |-> seed, window |-> window]

FlowMerkle(csig, esig, brokerSig) == <<csig, esig, brokerSig>>

BrokerAttestation(o, csig, esig) ==
    [order |-> o, commitmentSig |-> csig, executionSig |-> esig]

\* cc and ee are the data the caller takes the first two phases' seed hashes
\* and windows from.
Settlement(o, csig, cc, esig, ee, brokerSig, seed, window) ==
    [order |-> o, commitmentSig |-> csig, executionSig |-> esig,
     seeds |-> <<cc.seed, ee.seed, seed>>,
     windows |-> <<cc.window, ee.window, window>>,
     brokerSig |-> brokerSig, merkle |-> FlowMerkle(csig, esig, brokerSig)]

-----------------------------------------------------------------------------
(* The checks of the three verifier classes.                                 *)
VerifySignature(data, sig) == sig # Absent /\ sig.over = data

\* Compares a float the way Python does: nothing holds of a NaN.
Exceeds(a, b) == a # NaN /\ b # NaN /\ a > b
AtMost(a, b) == a # NaN /\ b # NaN /\ a <= b
Distance(a, b) == IF a > b THEN a - b ELSE b - a

\* |fill - price| / |price| <= 2%
WithinTolerance(fill, price) ==
    fill # NaN /\ 50 * Distance(fill, price) <= Distance(price, 0)

\* What is no number at all (float() raises on it) is refused as Absent is and
\* does not occur here.
VerifyMatchesTerms(terms, fill) ==
    /\ Absent \notin {terms.qty, terms.price, terms.instrument}
    /\ Absent \notin {fill.qty, fill.price, fill.instrument}
    /\ fill.instrument = terms.instrument
    /\ ~Exceeds(0, fill.qty) /\ ~Exceeds(fill.qty, terms.qty)
    /\ IF terms.price = 0 THEN fill.price = 0
                          ELSE WithinTolerance(fill.price, terms.price)

VerifyNonceIncrement_Any(cnonce, e) == \* mutant: any later nonce will do
    e.nonceAfter > cnonce
VerifyNonceIncrement(cnonce, e) == e.nonceAfter = cnonce + 1

VerifyReferencesCommitment(e, csig) == e.commitmentSig = csig

VerifyQuantumBinding(data) == data.window # "absent"
VerifyTemporalSafety(data) == data.window = "safe"

VerifyAllSeedsIndependent_Two(s) == \* mutant: len(seeds) >= 2
    Cardinality({s.seeds[i] : i \in 1 .. 3}) >= 2
VerifyAllSeedsIndependent(s) == Cardinality({s.seeds[i] : i \in 1 .. 3}) = 3

VerifyAllTemporalWindows_First(s) == \* mutant: the execution's is left out
    s.windows[1] = "safe" /\ s.windows[3] = "safe"
VerifyAllTemporalWindows(s) == \A i \in 1 .. 3 : s.windows[i] = "safe"

VerifyChain_AnyAck(csig, esig, s) == \* mutant: the broker's envelope unchecked
    /\ s.commitmentSig = csig /\ s.executionSig = esig
    /\ s.merkle = FlowMerkle(csig, esig, s.brokerSig)
VerifyChain(csig, esig, s) ==
    /\ s.commitmentSig = csig /\ s.executionSig = esig
    /\ s.merkle = FlowMerkle(csig, esig, s.brokerSig)
    /\ VerifySignature(BrokerAttestation(s.order, csig, esig), s.brokerSig)

-----------------------------------------------------------------------------
(* AuditVerifier on the flow f of one order, with the keys registered for    *)
(* the account and for its brokers.  No registry at all answers as an empty  *)
(* one does.  Every commitment here comes from create_and_sign: it holds a   *)
(* state hash and a nonce, so verify_state_binding, which both verdicts ask, *)
(* is true of it and the defaults for a missing nonce (0 in one, -1 in the   *)
(* other) are never used.                                                    *)
CommitmentValid(f, keys) ==
    LET c == f.commitment.data IN
    /\ VerifySignature(c, f.commitment.sig)
    /\ VerifyQuantumBinding(c) /\ VerifyTemporalSafety(c)
    /\ f.commitment.sig.pubkey \in keys

FollowsCommitment(f) ==
    LET c == f.commitment.data
        e == f.execution.data IN
    /\ VerifyReferencesCommitment(e, f.commitment.sig)
    /\ VerifyNonceIncrement(c.nonce, e)
    /\ c.seed # e.seed
    /\ VerifyMatchesTerms(c.terms, e.fill)

ExecutionValid(f, keys) ==
    LET e == f.execution.data IN
    /\ VerifySignature(e, f.execution.sig)
    /\ VerifyQuantumBinding(e) /\ VerifyTemporalSafety(e)
    /\ f.execution.sig.pubkey \in keys
    /\ f.commitment # Absent => FollowsCommitment(f)

SettlementValid(f, keys, brokers) ==
    LET s == f.settlement.data IN
    /\ VerifySignature(s, f.settlement.sig)
    /\ f.settlement.sig.pubkey \in keys
    /\ s.brokerSig.pubkey \in brokers
    /\ f.commitment # Absent /\ f.execution # Absent =>
           VerifyChain(f.commitment.sig, f.execution.sig, s)
    /\ VerifyAllSeedsIndependent(s) /\ VerifyAllTemporalWindows(s)

Complete(f) ==
    f.commitment # Absent /\ f.execution # Absent /\ f.settlement # Absent

ChainValid_Unlinked(f, keys, brokers) == \* mutant: FollowsCommitment ignored
    /\ Complete(f)
    /\ CommitmentValid(f, keys)
    /\ VerifySignature(f.execution.data, f.execution.sig)
    /\ f.execution.sig.pubkey \in keys
    /\ SettlementValid(f, keys, brokers)
ChainValid(f, keys, brokers) ==
    /\ Complete(f)
    /\ CommitmentValid(f, keys)
    /\ ExecutionValid(f, keys)
    /\ SettlementValid(f, keys, brokers)

\* detect_tampering: the issues found in the phases that are there.
CommitmentIssue(f, keys) ==
    LET c == f.commitment.data IN
    \/ ~VerifySignature(c, f.commitment.sig)      \* COMMITMENT_SIG_INVALID
    \/ ~VerifyQuantumBinding(c)                   \* .._QUANTUM_UNBOUND
    \/ ~VerifyTemporalSafety(c)                   \* .._TEMPORAL_UNSAFE
    \/ f.commitment.sig.pubkey \notin keys        \* .._UNAUTHORIZED_KEY

ExecutionIssue(f, keys) ==
    LET e == f.execution.data IN
    \/ ~VerifySignature(e, f.execution.sig)       \* EXECUTION_SIG_INVALID
    \/ ~VerifyQuantumBinding(e)                   \* .._QUANTUM_UNBOUND
    \/ f.commitment # Absent /\ ~FollowsCommitment(f) \* four issues
    \/ f.execution.sig.pubkey \notin keys         \* .._UNAUTHORIZED_KEY

SettlementIssue_Unlinked(f, keys, brokers) == \* mutant: no SETTLEMENT_CHAIN_BROKEN
    LET s == f.settlement.data IN
    \/ ~VerifySignature(s, f.settlement.sig)
    \/ ~VerifyAllSeedsIndependent(s) \/ ~VerifyAllTemporalWindows(s)
    \/ f.settlement.sig.pubkey \notin keys \/ s.brokerSig.pubkey \notin brokers
SettlementIssue(f, keys, brokers) ==
    LET s == f.settlement.data IN
    \/ ~VerifySignature(s, f.settlement.sig)      \* SETTLEMENT_SIG_INVALID
    \/ /\ f.commitment # Absent /\ f.execution # Absent
       /\ ~VerifyChain(f.commitment.sig, f.execution.sig, s) \* .._CHAIN_BROKEN
    \/ ~VerifyAllSeedsIndependent(s)              \* SEED_REUSE_IN_CHAIN
    \/ ~VerifyAllTemporalWindows(s)               \* TEMPORAL_WINDOW_UNSAFE
    \/ f.settlement.sig.pubkey \notin keys        \* .._UNAUTHORIZED_KEY
    \/ s.brokerSig.pubkey \notin brokers          \* BROKER_UNAUTHORIZED_KEY

Tampered(f, keys, brokers) ==
    \/ f.commitment # Absent /\ CommitmentIssue(f, keys)
    \/ f.execution # Absent /\ ExecutionIssue(f, keys)
    \/ f.settlement # Absent /\ SettlementIssue(f, keys, brokers)

\* all_seeds_unique of a dispute proof: the seeds the three phases signed with.
AllSeedsUnique(f) ==
    LET seeds == [p \in {q \in DOMAIN f : f[q] # Absent} |->
                     IF p = "settlement" THEN f[p].data.seeds[3]
                                         ELSE f[p].data.seed]
    IN \A p, q \in DOMAIN seeds : seeds[p] = seeds[q] => p = q
=============================================================================
