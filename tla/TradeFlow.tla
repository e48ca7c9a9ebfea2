----------------------------- MODULE TradeFlow ------------------------------
(***************************************************************************)
(* Orders on their way through the protocol.  Callers sign the records of  *)
(* TradeRecords and append them to the audit log, which is a Ledger (what  *)
(* AuditLog implements); AuditVerifier judges what lookups find against    *)
(* AccountKeyRegistry.  An account's nonce, the broker and the callers are *)
(* outside the library: a caller retries, gives a record up, and makes the *)
(* mistakes in Mistakes.                                                   *)
(***************************************************************************)
EXTENDS TradeRecords

CONSTANTS
    Orders, Scopes,   \* orders, and the account scopes they are verified in
    ScopeOf,          \* the account_id passed for an order
    Brokers,          \* brokers' public keys
    Terms, Fills,     \* trade_details and execution results that occur
    Onboarded,        \* what is registered before the first trade
    Mistakes,         \* mistakes that occur, a subset of AllMistakes
    MaxSeeds,         \* bound on the seeds taken
    MaxRecords,       \* bound on the records signed
    MaxChanges,       \* bound on the changes of the registry
    MaxStrands,       \* bound on the appends that raise after their write
    MaxRotations      \* bound on the rotations of the log

AllMistakes == {"reuse_seed",  \* one QuantumSeedResult for two phases
                "mix_up",      \* another record's hashes, seed or window
                "old_envelope",\* the broker's envelope of another settlement
                "own_window",  \* a key with a lifetime of the caller's own
                "late"}        \* records appended out of order

Names == {"account", "broker"} \X Scopes
ASSUME ScopesAssumption == ScopeOf \in [Orders -> Scopes]
ASSUME MistakesAssumption == Mistakes \subseteq AllMistakes
ASSUME BoundsAssumption ==
    /\ MaxSeeds \in Nat /\ MaxRecords \in Nat
    /\ MaxChanges \in Nat /\ MaxStrands \in Nat /\ MaxRotations \in Nat
ASSUME OnboardedAssumption ==
    Onboarded \in [Names -> SUBSET (1 .. MaxSeeds \cup Brokers)]

VARIABLES
    seeds,      \* seeds taken from get_seed() so far: 1 .. seeds
    made,       \* records signed so far
    nonce,      \* each account's nonce
    unlogged,   \* the records signed whose callers have yet to append them
    stored, last, unacked, directory, \* the log, see Ledger
    stranded,   \* the records in it whose appends all raised
    registry,   \* AccountKeyRegistry._authorized
    changes,    \* changes of the registry so far
    strands,    \* appends so far that raised after their write
    rotations   \* rotations of the log so far

log == <<stored, last, unacked, directory, stranded, strands, rotations>>
vars == <<seeds, made, nonce, unlogged, registry, changes, log>>

Log == INSTANCE Ledger

Phases == {"commitment", "execution", "settlement"}
Windows == {"safe", "unsafe", "absent"}
Keys == 1 .. MaxSeeds

Init ==
    /\ seeds = 0 /\ made = 0
    /\ nonce = [a \in Scopes |-> 1]
    /\ unlogged = {} /\ stranded = {}
    /\ Log!Init
    /\ registry = Onboarded
    /\ changes = 0 /\ strands = 0 /\ rotations = 0

\* The records that callers or the log hold, and those whose append returned.
signed == unlogged \cup stored
returned == stored \ stranded
Of(phase) == {r \in signed : r.phase = phase}

-----------------------------------------------------------------------------
\* A caller takes its next step for an order when the last record is logged.
Ready(o) ==
    /\ made < MaxRecords /\ made' = made + 1
    /\ "late" \in Mistakes \/ \A r \in unlogged : r.order # o

TakeSeed(s) ==
    \/ s = seeds + 1 /\ seeds' = s
    \/ "reuse_seed" \in Mistakes /\ s <= seeds /\ UNCHANGED seeds

Lifetime(window) == window = "safe" \/ "own_window" \in Mistakes

\* The same data signed again with the same key is the same record.  The log
\* keeps it under record_id, its order and phase.
Record_AsExecution(phase, o, s, data) == \* mutant: one phase for all
    [id |-> <<o, "execution">>, order |-> o, phase |-> phase,
     data |-> data, sig |-> Sign(s, data)]
Record(phase, o, s, data) ==
    [id |-> <<o, phase>>, order |-> o, phase |-> phase,
     data |-> data, sig |-> Sign(s, data)]
Keep(r) == r \notin signed /\ unlogged' = unlogged \cup {r}

Commit(o, s, terms, window) ==
    /\ Ready(o) /\ Lifetime(window) /\ TakeSeed(s)
    /\ Keep(Record("commitment", o, s,
                   Commitment(o, terms, nonce[ScopeOf[o]], s, window)))
    /\ UNCHANGED <<nonce, registry, changes, log>>

\* The fill moves the account to its next nonce, and the caller attests the
\* state after it.
Execute(o, c, s, fill, window) ==
    /\ Ready(o) /\ Lifetime(window) /\ TakeSeed(s)
    /\ c.order = o \/ "mix_up" \in Mistakes
    /\ nonce' = [nonce EXCEPT ![ScopeOf[o]] = @ + 1]
    /\ Keep(Record("execution", o, s,
                   Execution(o, c.sig, c.data.seed, fill,
                             nonce[ScopeOf[o]] + 1, s, window)))
    /\ UNCHANGED <<registry, changes, log>>

\* The account's last fill attested once more, because its record was lost or
\* the append failed.
Reattest(e, s, window) ==
    /\ Ready(e.order) /\ Lifetime(window) /\ TakeSeed(s)
    /\ e.data.nonceAfter = nonce[ScopeOf[e.order]] \/ "late" \in Mistakes
    /\ Keep(Record("execution", e.order, s,
                   Execution(e.order, e.data.commitmentSig,
                             e.data.commitmentSeed, e.data.fill,
                             e.data.nonceAfter, s, window)))
    /\ UNCHANGED <<nonce, registry, changes, log>>

\* The broker's envelope over this trade's attestation, or one from an earlier
\* settlement.
BrokerSigs(o, c, e) ==
    {Sign(b, BrokerAttestation(o, c.sig, e.sig)) : b \in Brokers}
    \cup IF "old_envelope" \in Mistakes
         THEN {r.data.brokerSig : r \in Of("settlement")} ELSE {}

Settle(o, c, cc, e, ee, s, brokerSig) ==
    /\ Ready(o) /\ TakeSeed(s)
    /\ c.order = o /\ e.order = o
    /\ (cc = c /\ ee = e) \/ "mix_up" \in Mistakes
    /\ Keep(Record("settlement", o, s,
                   Settlement(o, c.sig, cc.data, e.sig, ee.data, brokerSig, s,
                              "safe")))
    /\ UNCHANGED <<nonce, registry, changes, log>>

\* append_commitment, append_execution, append_settlement: one that returns ...
Append(r) ==
    /\ Log!Append(r)
    /\ unlogged' = unlogged \ {r} /\ stranded' = stranded \ {r}
    /\ UNCHANGED <<seeds, made, nonce, registry, changes, strands,
                   rotations>>

\* ... and one that raises after its write.  Its caller may try again.
Strand(r) ==
    /\ strands < MaxStrands /\ strands' = strands + 1
    /\ Log!Strand(r) /\ stranded' = stranded \cup {r}
    /\ UNCHANGED <<seeds, made, nonce, unlogged, registry, changes, rotations>>

\* An append that finds the file full rotates it first.
Rotate ==
    /\ unlogged # {}
    /\ rotations < MaxRotations /\ rotations' = rotations + 1
    /\ Log!TurnPage
    /\ UNCHANGED <<seeds, made, nonce, unlogged, stranded, registry,
                   changes, strands>>

\* The row of an append that raised is entered with another's, or rolled back.
Reindex ==
    /\ Log!Reindex
    /\ UNCHANGED <<seeds, made, nonce, unlogged, stranded, registry,
                   changes, strands, rotations>>

\* The caller dies or gives up, after the key that signed r is gone.  What an
\* append has written remains.
Lose(r) ==
    /\ unlogged' = unlogged \ {r}
    /\ UNCHANGED <<seeds, made, nonce, registry, changes, log>>

Register(name, key) ==
    /\ changes < MaxChanges /\ changes' = changes + 1
    /\ registry' = [registry EXCEPT ![name] = @ \cup {key}]
    /\ UNCHANGED <<seeds, made, nonce, unlogged, log>>

Revoke(name, key) ==
    /\ changes < MaxChanges /\ changes' = changes + 1
    /\ registry' = [registry EXCEPT ![name] = @ \ {key}]
    /\ UNCHANGED <<seeds, made, nonce, unlogged, log>>

Next ==
    \/ \E o \in Orders, s \in 1 .. MaxSeeds, w \in Windows :
         \/ \E t \in Terms : Commit(o, s, t, w)
         \/ \E c \in Of("commitment"), f \in Fills : Execute(o, c, s, f, w)
    \/ \E e \in Of("execution"), s \in 1 .. MaxSeeds, w \in Windows :
         Reattest(e, s, w)
    \/ \E o \in Orders, s \in 1 .. MaxSeeds,
          c, cc \in Of("commitment"), e, ee \in Of("execution") :
         \E b \in BrokerSigs(o, c, e) : Settle(o, c, cc, e, ee, s, b)
    \/ \E r \in unlogged : Append(r) \/ Strand(r) \/ Lose(r)
    \/ Rotate \/ Reindex
    \/ \E n \in Names, k \in Keys \cup Brokers : Register(n, k) \/ Revoke(n, k)

Spec == Init /\ [][Next]_vars

-----------------------------------------------------------------------------
\* get_trade_flow
Flow(o) ==
    [p \in Phases |->
        IF <<o, p>> \in DOMAIN directory THEN directory[<<o, p>>] ELSE Absent]

\* verify_trade_flow and detect_tampering for an order.
Certified(o) ==
    ChainValid(Flow(o), registry[<<"account", ScopeOf[o]>>],
               registry[<<"broker", ScopeOf[o]>>])
Suspect(o) ==
    Tampered(Flow(o), registry[<<"account", ScopeOf[o]>>],
             registry[<<"broker", ScopeOf[o]>>])

TypeOK ==
    /\ seeds \in 0 .. MaxSeeds /\ made \in 0 .. MaxRecords
    /\ changes \in 0 .. MaxChanges /\ strands \in 0 .. MaxStrands
    /\ rotations \in 0 .. MaxRotations
    /\ nonce \in [Scopes -> Nat]
    /\ unacked \subseteq stranded /\ stranded \subseteq stored
    /\ unlogged \cap stored \subseteq stranded
    /\ \A o \in Orders, p \in Phases :
         Flow(o)[p] # Absent =>
            /\ Flow(o)[p] \in stored
            /\ Flow(o)[p].order = o /\ Flow(o)[p].phase = p
    /\ registry \in [Names -> SUBSET (Keys \cup Brokers)]

\* verify_trade_flow and detect_tampering are two lists of checks written
\* apart: a flow that the first certifies raises no issue in the second ...
CertifiedIsUntampered == \A o \in Orders : Certified(o) => ~Suspect(o)

\* ... and a complete flow without an issue is certified, although
\* detect_tampering looks at the execution's window only in the settlement.
UntamperedIsCertified ==
    \A o \in Orders : Complete(Flow(o)) /\ ~Suspect(o) => Certified(o)

\* "A strictly incrementing nonce (prevents replays)": no check compares two
\* orders, yet two certified orders of an account never share a nonce, since
\* each was executed on the nonce it committed to.
CertifiedNoncesAreDistinct ==
    \A o, q \in Orders :
        o # q /\ ScopeOf[o] = ScopeOf[q] /\ Certified(o) /\ Certified(q) =>
            Flow(o).commitment.data.nonce # Flow(q).commitment.data.nonce

\* A certified commitment was filled once: the executions under it whose append
\* returned, the earlier ones that no lookup finds any more included, attest
\* the fill that is certified, so together they do not exceed what it
\* authorised.
CertifiedFillsOnce ==
    \A o \in Orders : Certified(o) =>
        \A r \in returned \cap Of("execution") :
            r.data.commitmentSig = Flow(o).commitment.sig =>
                r.data.nonceAfter = Flow(o).execution.data.nonceAfter

\* A certified settlement carries the broker's envelope over this commitment
\* and this execution, whatever envelopes callers mix up between trades.
BrokerAcknowledgedThisTrade ==
    \A o \in Orders : Certified(o) =>
        Flow(o).settlement.data.brokerSig \in
            {Sign(b, BrokerAttestation(o, Flow(o).commitment.sig,
                                       Flow(o).execution.sig)) : b \in Brokers}

\* "All seeds are independent (P4: PFS)": the phases of a certified flow were
\* signed with three different seeds, as a dispute proof would report.
SeedsAreIndependent ==
    \A o \in Orders : Certified(o) => AllSeedsUnique(Flow(o))

\* "True if filled_qty does not exceed the authorised qty": the fill of a
\* certified flow is a quantity, from zero to what was authorised.
FillIsAuthorised ==
    \A o \in Orders : Certified(o) =>
        /\ AtMost(0, Flow(o).execution.data.fill.qty)
        /\ AtMost(Flow(o).execution.data.fill.qty,
                  Flow(o).commitment.data.terms.qty)
=============================================================================
