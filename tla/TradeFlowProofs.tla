--------------------------- MODULE TradeFlowProofs ---------------------------
(***************************************************************************)
(* TradeFlow for every set of orders, accounts, brokers, terms and fills.  *)
(* verify_trade_flow compares neither two orders nor a settlement's copies *)
(* with the records they stand for; what makes its verdicts sound is an    *)
(* invariant of everything that was ever signed: an envelope is over its   *)
(* own data, each fill of an account has a nonce of its own, and a         *)
(* settlement's copies come from the records it names.                     *)
(***************************************************************************)
EXTENDS TradeFlow, FiniteSetTheorems, TLAPS

-----------------------------------------------------------------------------
(* The inductive invariant.                                                  *)
Counters ==
    /\ seeds \in 0 .. MaxSeeds /\ made \in 0 .. MaxRecords
    /\ changes \in 0 .. MaxChanges /\ strands \in 0 .. MaxStrands
    /\ rotations \in 0 .. MaxRotations
    /\ nonce \in [Scopes -> Nat]
    /\ registry \in [Names -> SUBSET (Keys \cup Brokers)]

\* An envelope is over the data of its own record.
Whole(r) ==
    /\ r.order \in Orders /\ r.phase \in Phases /\ r.id = <<r.order, r.phase>>
    /\ r.sig.over = r.data /\ r.data.order = r.order
SignedAreWhole == \A r \in signed : Whole(r)

\* What the log holds for acknowledged was, what it holds for unacknowledged was
\* stranded, and its lookups are a ledger's.  A record on its way that is stored
\* is stranded, so no append that is retried touches an acknowledged record.
LogIsSound ==
    /\ unacked \subseteq stranded /\ stranded \subseteq stored
    /\ unlogged \cap stored \subseteq stranded
    /\ \A i \in DOMAIN last : last[i] \in returned /\ last[i].id = i
    /\ directory \in Log!Views(unacked, last)

\* No fill has a nonce its account has not reached, and two orders of one
\* account were never filled at the same nonce.
FillNonces ==
    \A r \in signed : r.phase = "execution" =>
        /\ r.data.nonceAfter \in Nat
        /\ r.data.nonceAfter <= nonce[ScopeOf[r.order]]
FillNoncesDiffer ==
    \A r, q \in signed :
        (/\ r.phase = "execution" /\ q.phase = "execution"
         /\ r.order # q.order /\ ScopeOf[r.order] = ScopeOf[q.order])
        => r.data.nonceAfter # q.data.nonceAfter

\* A broker's envelope comes from a broker.
BrokersSign ==
    \A r \in signed : r.phase = "settlement" =>
        \E b \in Brokers, d \in {r.data.brokerSig.over} :
            r.data.brokerSig = Sign(b, d)

\* The seeds and windows in a settlement are those of the records it names.
Copied(s, i, sig) ==
    s.seeds[i] = sig.over.seed /\ s.windows[i] = sig.over.window
CopiesAreTrue ==
    "mix_up" \notin Mistakes =>
        \A r \in signed : r.phase = "settlement" =>
            /\ Copied(r.data, 1, r.data.commitmentSig)
            /\ Copied(r.data, 2, r.data.executionSig)

IInv ==
    /\ Counters /\ SignedAreWhole /\ LogIsSound
    /\ FillNonces /\ FillNoncesDiffer /\ BrokersSign /\ CopiesAreTrue

\* A view of the ledger shows an unacknowledged record or the last acknowledged.
LEMMA ViewShows ==
    ASSUME NEW u, NEW l, NEW d \in Log!Views(u, l), NEW i \in DOMAIN d
    PROVE  \/ d[i] \in u /\ d[i].id = i
           \/ i \in DOMAIN l /\ d[i] = l[i]
<1>1. PICK U \in SUBSET u : d = Log!Showing(U, l)
  BY DEF Log!Views
<1>2. CASE \E r \in U : r.id = i
  BY <1>1, <1>2 DEF Log!Showing
<1>3. CASE ~ \E r \in U : r.id = i
  BY <1>1, <1>3 DEF Log!Showing
<1> QED
  BY <1>2, <1>3

\* What a lookup finds for an order and a phase is a record of theirs, stored,
\* and never one before the last that an append returned for.
LEMMA FlowIsStored ==
    ASSUME IInv, NEW o \in Orders, NEW p \in Phases, Flow(o)[p] # Absent
    PROVE  /\ Flow(o)[p] \in stored /\ Flow(o)[p] \in signed
           /\ Flow(o)[p].order = o /\ Flow(o)[p].phase = p
           /\ Whole(Flow(o)[p])
           /\ \/ Flow(o)[p] \in unacked
              \/ <<o, p>> \in DOMAIN last /\ Flow(o)[p] = last[<<o, p>>]
<1> DEFINE r == directory[<<o, p>>]
<1>1. <<o, p>> \in DOMAIN directory /\ Flow(o)[p] = r
  BY DEF Flow
<1>2. directory \in Log!Views(unacked, last)
  BY DEF IInv, LogIsSound
<1>3. \/ r \in unacked /\ r.id = <<o, p>>
      \/ <<o, p>> \in DOMAIN last /\ r = last[<<o, p>>]
  BY <1>1, <1>2, ViewShows
<1>4. r \in stored /\ r.id = <<o, p>>
  BY <1>3 DEF IInv, LogIsSound, returned
<1>5. Whole(r) /\ r \in signed
  BY <1>4 DEF IInv, SignedAreWhole, signed
<1>6. r.order = o /\ r.phase = p
  BY <1>4, <1>5 DEF Whole
<1> QED
  BY <1>1, <1>3, <1>4, <1>5, <1>6

\* Every reachable state is well typed, given the rest of the invariant.
LEMMA TypeFromIInv == IInv => TypeOK
BY FlowIsStored DEF IInv, TypeOK, Counters, LogIsSound

\* The invariant holds before the first trade.
LEMMA InitEstablishesIInv == Init => IInv
<1> SUFFICES ASSUME Init PROVE IInv
  OBVIOUS
<1>1. Counters
  BY BoundsAssumption, OnboardedAssumption DEF Init, Counters, Keys
<1>2. signed = {}
  BY DEF Init, signed, Log!Init
<1>3. LogIsSound
  <2>1. directory = Log!Showing({}, last)
    BY DEF Init, Log!Init, Log!NoEntries, Log!Showing
  <2>2. {} \in SUBSET unacked /\ Log!OnePerId({})
    BY DEF Log!OnePerId
  <2> QED
    BY <2>1, <2>2 DEF Init, LogIsSound, Log!Init, Log!NoEntries, Log!Views
<1> QED
  BY <1>1, <1>2, <1>3 DEF IInv, SignedAreWhole, FillNonces, FillNoncesDiffer,
                          BrokersSign, CopiesAreTrue

-----------------------------------------------------------------------------
(* Signing a record.                                                         *)

\* A record that is only signed joins those on their way and disturbs neither
\* the log nor its lookups.
LEMMA KeepKeepsLog ==
    ASSUME IInv, NEW r, Keep(r), Whole(r), UNCHANGED log
    PROVE  signed' = signed \cup {r} /\ SignedAreWhole' /\ LogIsSound'
<1>1. signed' = signed \cup {r} /\ r \notin stored
  BY DEF Keep, signed, log
<1>2. SignedAreWhole'
  BY <1>1 DEF IInv, SignedAreWhole, Whole
<1>3. LogIsSound'
  BY <1>1 DEF IInv, LogIsSound, Keep, log, returned
<1> QED
  BY <1>1, <1>2, <1>3

\* A commitment claims no nonce and copies nothing.
LEMMA CommitKeepsIInv ==
    ASSUME IInv, NEW o \in Orders, NEW s \in 1 .. MaxSeeds, NEW t, NEW w,
           Commit(o, s, t, w)
    PROVE  IInv'
<1> DEFINE r == Record("commitment", o, s,
                       Commitment(o, t, nonce[ScopeOf[o]], s, w))
<1>1. Keep(r) /\ UNCHANGED <<nonce, registry, changes, log>>
  BY DEF Commit
<1>2. Whole(r) /\ r.phase = "commitment"
  BY DEF Record, Whole, Sign, Phases, Commitment
<1>3. Counters'
  BY BoundsAssumption DEF Commit, Ready, TakeSeed, IInv, Counters, log
<1> HIDE DEF r
<1>4. signed' = signed \cup {r} /\ SignedAreWhole' /\ LogIsSound'
  BY <1>1, <1>2, KeepKeepsLog
<1>5. signed' = signed \cup {r} /\ nonce' = nonce
  BY <1>1, <1>4
<1>6. FillNonces' /\ FillNoncesDiffer' /\ BrokersSign' /\ CopiesAreTrue'
  BY <1>2, <1>5 DEF IInv, FillNonces, FillNoncesDiffer, BrokersSign,
                    CopiesAreTrue, Copied
<1> QED
  BY <1>3, <1>4, <1>6 DEF IInv

\* A fill takes the nonce after every earlier one of its account.
LEMMA ExecuteKeepsIInv ==
    ASSUME IInv, NEW o \in Orders, NEW c \in signed, NEW s \in 1 .. MaxSeeds,
           NEW f, NEW w, Execute(o, c, s, f, w)
    PROVE  IInv'
<1> DEFINE n == nonce[ScopeOf[o]] + 1
           r == Record("execution", o, s,
                       Execution(o, c.sig, c.data.seed, f, n, s, w))
<1>1. /\ Keep(r) /\ UNCHANGED <<registry, changes, log>>
      /\ nonce' = [nonce EXCEPT ![ScopeOf[o]] = @ + 1]
  BY DEF Execute
<1>2. /\ Whole(r) /\ r.phase = "execution" /\ r.order = o
      /\ r.data.nonceAfter = n
  BY DEF Record, Whole, Sign, Phases, Execution
<1>3. ScopeOf \in [Orders -> Scopes] /\ nonce \in [Scopes -> Nat]
  BY ScopesAssumption DEF IInv, Counters
<1>4. n \in Nat
  BY <1>3
<1>5. Counters'
  BY <1>1, <1>3, BoundsAssumption
  DEF Execute, Ready, TakeSeed, IInv, Counters, log
<1>6. \A a \in Scopes : nonce'[a] = IF a = ScopeOf[o] THEN n ELSE nonce[a]
  BY <1>1, <1>3
<1> HIDE DEF r
<1>7. signed' = signed \cup {r} /\ SignedAreWhole' /\ LogIsSound'
  BY <1>1, <1>2, KeepKeepsLog
<1>8. signed' = signed \cup {r}
  BY <1>7
<1>9. ASSUME NEW q \in signed, q.phase = "execution",
             ScopeOf[q.order] = ScopeOf[o]
      PROVE  q.data.nonceAfter < n /\ q.data.nonceAfter \in Nat
  BY <1>3, <1>9 DEF IInv, FillNonces, SignedAreWhole, Whole
<1> HIDE DEF n
<1>10. FillNonces'
  <2> SUFFICES ASSUME NEW q \in signed', q.phase = "execution"
               PROVE  /\ q.data.nonceAfter \in Nat
                      /\ q.data.nonceAfter <= nonce'[ScopeOf[q.order]]
    BY DEF FillNonces
  <2>1. CASE q = r
    BY <2>1, <1>2, <1>3, <1>4, <1>6
  <2>2. CASE q \in signed /\ ScopeOf[q.order] = ScopeOf[o]
    BY <2>2, <1>3, <1>4, <1>6, <1>9
  <2>3. CASE q \in signed /\ ScopeOf[q.order] # ScopeOf[o]
    BY <2>3, <1>3, <1>6 DEF IInv, FillNonces, SignedAreWhole, Whole
  <2> QED
    BY <1>8, <2>1, <2>2, <2>3
<1>11. FillNoncesDiffer'
  <2> SUFFICES ASSUME NEW p \in signed', NEW q \in signed',
                      p.phase = "execution", q.phase = "execution",
                      p.order # q.order, ScopeOf[p.order] = ScopeOf[q.order]
               PROVE  p.data.nonceAfter # q.data.nonceAfter
    BY DEF FillNoncesDiffer
  <2>1. CASE p \in signed /\ q \in signed
    BY <2>1 DEF IInv, FillNoncesDiffer
  <2>2. CASE p = r /\ q \in signed
    BY <2>2, <1>2, <1>4, <1>9
  <2>3. CASE p \in signed /\ q = r
    BY <2>3, <1>2, <1>4, <1>9
  <2> QED
    BY <1>8, <2>1, <2>2, <2>3
<1>12. BrokersSign' /\ CopiesAreTrue'
  BY <1>2, <1>8 DEF IInv, BrokersSign, CopiesAreTrue, Copied
<1> QED
  BY <1>5, <1>7, <1>10, <1>11, <1>12 DEF IInv

\* A fill attested again keeps its order and its nonce.
LEMMA ReattestKeepsIInv ==
    ASSUME IInv, NEW e \in signed, e.phase = "execution",
           NEW s \in 1 .. MaxSeeds, NEW w, Reattest(e, s, w)
    PROVE  IInv'
<1> DEFINE r == Record("execution", e.order, s,
                       Execution(e.order, e.data.commitmentSig,
                                 e.data.commitmentSeed, e.data.fill,
                                 e.data.nonceAfter, s, w))
<1>1. Keep(r) /\ UNCHANGED <<nonce, registry, changes, log>>
  BY DEF Reattest
<1>2. /\ Whole(r) /\ r.phase = "execution" /\ r.order = e.order
      /\ r.data.nonceAfter = e.data.nonceAfter
  BY DEF Record, Whole, Sign, Phases, Execution, IInv, SignedAreWhole
<1>3. Counters'
  BY BoundsAssumption DEF Reattest, Ready, TakeSeed, IInv, Counters, log
<1> HIDE DEF r
<1>4. signed' = signed \cup {r} /\ SignedAreWhole' /\ LogIsSound'
  BY <1>1, <1>2, KeepKeepsLog
<1>5. signed' = signed \cup {r} /\ nonce' = nonce
  BY <1>1, <1>4
<1>6. FillNonces'
  BY <1>2, <1>5 DEF IInv, FillNonces
<1>7. FillNoncesDiffer'
  BY <1>2, <1>5 DEF IInv, FillNoncesDiffer
<1>8. BrokersSign' /\ CopiesAreTrue'
  BY <1>2, <1>5 DEF IInv, BrokersSign, CopiesAreTrue, Copied
<1> QED
  BY <1>3, <1>4, <1>6, <1>7, <1>8 DEF IInv

\* A settlement carries a broker's envelope and, if nothing is mixed up, the
\* seeds and windows of the two records it names.
LEMMA SettleKeepsIInv ==
    ASSUME IInv, NEW o \in Orders, NEW s \in 1 .. MaxSeeds,
           NEW c \in signed, NEW cc \in signed,
           NEW e \in signed, NEW ee \in signed,
           NEW b \in BrokerSigs(o, c, e), Settle(o, c, cc, e, ee, s, b)
    PROVE  IInv'
<1> DEFINE d == Settlement(o, c.sig, cc.data, e.sig, ee.data, b, s, "safe")
           r == Record("settlement", o, s, d)
<1>1. Keep(r) /\ UNCHANGED <<nonce, registry, changes, log>>
  BY DEF Settle
<1>2. Whole(r) /\ r.phase = "settlement" /\ r.data = d
  BY DEF Record, Whole, Sign, Phases, Settlement
<1>3. Counters'
  BY BoundsAssumption DEF Settle, Ready, TakeSeed, IInv, Counters, log
<1>4. \E x \in Brokers, y \in {b.over} : b = Sign(x, y)
  <2>1. CASE \E x \in Brokers : b = Sign(x, BrokerAttestation(o, c.sig, e.sig))
    BY <2>1 DEF Sign
  <2>2. CASE \E q \in Of("settlement") : b = q.data.brokerSig
    BY <2>2 DEF IInv, BrokersSign, Of
  <2> QED
    BY <2>1, <2>2 DEF BrokerSigs
<1>5. d.brokerSig = b
  BY DEF Settlement
<1>6. ASSUME "mix_up" \notin Mistakes
      PROVE  Copied(d, 1, d.commitmentSig) /\ Copied(d, 2, d.executionSig)
  <2>1. cc = c /\ ee = e /\ c.sig.over = c.data /\ e.sig.over = e.data
    BY <1>6 DEF Settle, IInv, SignedAreWhole, Whole
  <2> QED
    BY <2>1 DEF Settlement, Copied
<1> HIDE DEF d, r
<1>7. signed' = signed \cup {r} /\ SignedAreWhole' /\ LogIsSound'
  BY <1>1, <1>2, KeepKeepsLog
<1>8. signed' = signed \cup {r} /\ nonce' = nonce
  BY <1>1, <1>7
<1>9. FillNonces' /\ FillNoncesDiffer'
  BY <1>2, <1>8 DEF IInv, FillNonces, FillNoncesDiffer
<1>10. BrokersSign'
  BY <1>2, <1>4, <1>5, <1>8 DEF IInv, BrokersSign
<1>11. CopiesAreTrue'
  BY <1>2, <1>6, <1>8 DEF IInv, CopiesAreTrue
<1> QED
  BY <1>3, <1>7, <1>9, <1>10, <1>11 DEF IInv

-----------------------------------------------------------------------------
(* The other steps, and all of them.                                         *)

\* A step that signs nothing keeps what is known of the records.
LEMMA RecordsUntouched ==
    ASSUME IInv, Counters', LogIsSound', signed' \subseteq signed,
           UNCHANGED nonce
    PROVE  IInv'
<1>1. SignedAreWhole' /\ FillNonces' /\ FillNoncesDiffer'
  BY DEF IInv, SignedAreWhole, FillNonces, FillNoncesDiffer, Whole
<1>2. BrokersSign' /\ CopiesAreTrue'
  BY DEF IInv, BrokersSign, CopiesAreTrue, Copied
<1> QED
  BY <1>1, <1>2 DEF IInv

\* An append that returns moves its record from those on their way to the log.
LEMMA AppendKeepsIInv ==
    ASSUME IInv, NEW r \in unlogged, Append(r)
    PROVE  IInv' /\ signed' = signed
<1>1. /\ stored' = stored \cup {r} /\ stranded' = stranded \ {r}
      /\ unlogged' = unlogged \ {r}
      /\ unacked' = {q \in unacked : q.id # r.id}
      /\ last' = [i \in DOMAIN last \cup {r.id} |->
                    IF i = r.id THEN r ELSE last[i]]
      /\ directory' \in Log!Views(unacked', last')
  BY DEF Append, Log!Append
<1>2. signed' = signed
  BY <1>1 DEF signed
<1>3. Counters' /\ UNCHANGED nonce
  BY DEF Append, IInv, Counters
<1>4. unacked' \subseteq stranded'
  BY <1>1 DEF IInv, LogIsSound
<1>5. ASSUME NEW i \in DOMAIN last'
      PROVE  last'[i] \in returned' /\ last'[i].id = i
  <2>1. CASE i = r.id
    BY <1>1, <2>1 DEF returned
  <2>2. CASE i # r.id
    <3>1. i \in DOMAIN last /\ last'[i] = last[i]
      BY <1>1, <2>2
    <3> QED
      BY <1>1, <3>1 DEF IInv, LogIsSound, returned
  <2> QED
    BY <2>1, <2>2
<1>6. LogIsSound'
  BY <1>1, <1>4, <1>5 DEF IInv, LogIsSound
<1> QED
  BY <1>2, <1>3, <1>6, RecordsUntouched

\* One that raises stores its record, which stays on its way.
LEMMA StrandKeepsIInv ==
    ASSUME IInv, NEW r \in unlogged, Strand(r)
    PROVE  IInv' /\ signed' = signed /\ returned' = returned
<1>1. /\ stored' = stored \cup {r} /\ stranded' = stranded \cup {r}
      /\ unacked' = unacked \cup {r} /\ directory' \in Log!Views(unacked', last)
      /\ UNCHANGED <<last, unlogged, nonce>>
  BY DEF Strand, Log!Strand
<1>2. signed' = signed
  BY <1>1 DEF signed
<1>3. returned' = returned
  BY <1>1 DEF returned, IInv, LogIsSound
<1>4. Counters'
  BY BoundsAssumption DEF Strand, IInv, Counters
<1>5. LogIsSound'
  BY <1>1, <1>3 DEF IInv, LogIsSound
<1> QED
  BY <1>1, <1>2, <1>3, <1>4, <1>5, RecordsUntouched

\* A fresh page shows nothing; what is stored and on its way stays.
LEMMA RotateKeepsIInv ==
    ASSUME IInv, Rotate
    PROVE  IInv' /\ signed' = signed /\ returned' = returned
<1>1. /\ last' = Log!NoEntries /\ unacked' = {} /\ directory' = Log!NoEntries
      /\ UNCHANGED <<stored, stranded, unlogged, nonce>>
  BY DEF Rotate, Log!TurnPage
<1>2. signed' = signed /\ returned' = returned
  BY <1>1 DEF signed, returned
<1>3. Counters'
  BY BoundsAssumption DEF Rotate, IInv, Counters
<1>4. directory' \in Log!Views(unacked', last')
  <2>1. directory' = Log!Showing({}, last')
    BY <1>1 DEF Log!NoEntries, Log!Showing
  <2>2. {} \in SUBSET unacked' /\ Log!OnePerId({})
    BY DEF Log!OnePerId
  <2> QED
    BY <2>1, <2>2 DEF Log!Views
<1>5. LogIsSound'
  BY <1>1, <1>4 DEF IInv, LogIsSound, Log!NoEntries
<1> QED
  BY <1>1, <1>2, <1>3, <1>5, RecordsUntouched

LEMMA ReindexKeepsIInv ==
    ASSUME IInv, Reindex
    PROVE  IInv'
<1>1. /\ directory' \in Log!Views(unacked, last)
      /\ UNCHANGED <<stored, last, unacked, stranded, unlogged, nonce>>
  BY DEF Reindex, Log!Reindex
<1>2. signed' = signed /\ returned' = returned
  BY <1>1 DEF signed, returned
<1>3. Counters' /\ LogIsSound'
  BY <1>1, <1>2 DEF Reindex, IInv, Counters, LogIsSound
<1> QED
  BY <1>1, <1>2, <1>3, RecordsUntouched

\* The log stands still while a caller gives up or the registry changes.
LEMMA LogUntouched ==
    ASSUME IInv, Counters', UNCHANGED <<nonce, log>>,
           unlogged' \subseteq unlogged
    PROVE  IInv'
<1>1. signed' \subseteq signed /\ returned' = returned
  BY DEF signed, returned, log
<1>2. LogIsSound'
  BY <1>1 DEF IInv, LogIsSound, log
<1> QED
  BY <1>1, <1>2, RecordsUntouched

\* Every step keeps the invariant.
LEMMA NextKeepsIInv == IInv /\ [Next]_vars => IInv'
<1> SUFFICES ASSUME IInv, [Next]_vars PROVE IInv'
  OBVIOUS
<1>1. CASE \E o \in Orders, s \in 1 .. MaxSeeds, w \in Windows, t \in Terms :
             Commit(o, s, t, w)
  BY <1>1, CommitKeepsIInv
<1>2. CASE \E o \in Orders, s \in 1 .. MaxSeeds, w \in Windows,
             c \in Of("commitment"), f \in Fills : Execute(o, c, s, f, w)
  BY <1>2, ExecuteKeepsIInv DEF Of
<1>3. CASE \E e \in Of("execution"), s \in 1 .. MaxSeeds, w \in Windows :
             Reattest(e, s, w)
  BY <1>3, ReattestKeepsIInv DEF Of
<1>4. CASE \E o \in Orders, s \in 1 .. MaxSeeds,
             c, cc \in Of("commitment"), e, ee \in Of("execution") :
             \E b \in BrokerSigs(o, c, e) : Settle(o, c, cc, e, ee, s, b)
  <2>1. PICK o \in Orders, s \in 1 .. MaxSeeds,
             c \in Of("commitment"), cc \in Of("commitment"),
             e \in Of("execution"), ee \in Of("execution") :
             \E b \in BrokerSigs(o, c, e) : Settle(o, c, cc, e, ee, s, b)
    BY <1>4
  <2>2. PICK b \in BrokerSigs(o, c, e) : Settle(o, c, cc, e, ee, s, b)
    BY <2>1
  <2>3. c \in signed /\ cc \in signed /\ e \in signed /\ ee \in signed
    BY DEF Of
  <2> QED
    BY <2>2, <2>3, SettleKeepsIInv
<1>5. CASE \E r \in unlogged : Append(r) \/ Strand(r)
  BY <1>5, AppendKeepsIInv, StrandKeepsIInv
<1>6. CASE Rotate \/ Reindex
  BY <1>6, RotateKeepsIInv, ReindexKeepsIInv
<1>7. CASE \E r \in unlogged : Lose(r)
  <2>1. Counters' /\ UNCHANGED <<nonce, log>> /\ unlogged' \subseteq unlogged
    BY <1>7 DEF Lose, IInv, Counters, log
  <2> QED
    BY <2>1, LogUntouched
<1>8. CASE \E n \in Names, k \in Keys \cup Brokers :
             Register(n, k) \/ Revoke(n, k)
  <2>1. Counters'
    BY <1>8, BoundsAssumption DEF Register, Revoke, IInv, Counters, Keys, log
  <2>2. UNCHANGED <<nonce, log>> /\ unlogged' \subseteq unlogged
    BY <1>8 DEF Register, Revoke
  <2> QED
    BY <2>1, <2>2, LogUntouched
<1>9. CASE UNCHANGED vars
  <2>1. Counters' /\ UNCHANGED <<nonce, log>> /\ unlogged' \subseteq unlogged
    BY <1>9 DEF vars, log, IInv, Counters, Keys
  <2> QED
    BY <2>1, LogUntouched
<1> QED
  BY <1>1, <1>2, <1>3, <1>4, <1>5, <1>6, <1>7, <1>8, <1>9 DEF Next

LEMMA SpecKeepsIInv == Spec => []IInv
BY InitEstablishesIInv, NextKeepsIInv, PTL DEF Spec

-----------------------------------------------------------------------------
(* What a certificate is worth.                                              *)

\* Types, and lookups find only stored records signed for that order and phase.
THEOREM FlowTypeCorrect == Spec => []TypeOK
BY SpecKeepsIInv, TypeFromIInv, PTL

\* verify_trade_flow never certifies a flow in which detect_tampering finds an
\* issue, whatever callers do.
THEOREM CertificatesRaiseNoIssue == Spec => []CertifiedIsUntampered
<1>1. CertifiedIsUntampered
  BY DEF CertifiedIsUntampered, Certified, Suspect, ChainValid, Tampered,
         Complete, CommitmentIssue, CommitmentValid, ExecutionIssue,
         ExecutionValid, SettlementIssue, SettlementValid
<1> QED
  BY <1>1, PTL

\* Two certified orders of one account were committed to on different nonces.
THEOREM NoNonceIsCertifiedTwice == Spec => []CertifiedNoncesAreDistinct
<1>1. ASSUME IInv PROVE CertifiedNoncesAreDistinct
  <2> SUFFICES ASSUME NEW o \in Orders, NEW q \in Orders, o # q,
                      ScopeOf[o] = ScopeOf[q], Certified(o), Certified(q)
               PROVE  Flow(o).commitment.data.nonce
                        # Flow(q).commitment.data.nonce
    BY DEF CertifiedNoncesAreDistinct
  <2>1. \A x \in {o, q} :
           /\ Flow(x).execution # Absent
           /\ Flow(x).execution.data.nonceAfter
                 = Flow(x).commitment.data.nonce + 1
    BY DEF Certified, ChainValid, Complete, ExecutionValid, FollowsCommitment,
           VerifyNonceIncrement
  <2>2. \A x \in {o, q} : /\ Flow(x).execution \in signed
                          /\ Flow(x).execution.phase = "execution"
                          /\ Flow(x).execution.order = x
    BY <1>1, <2>1, FlowIsStored DEF Phases
  <2>3. Flow(o).execution.data.nonceAfter # Flow(q).execution.data.nonceAfter
    BY <1>1, <2>2 DEF IInv, FillNoncesDiffer
  <2> QED
    BY <2>1, <2>3
<1> QED
  BY <1>1, SpecKeepsIInv, PTL

\* Whatever envelopes callers mix up, a certified settlement carries a broker's
\* envelope over exactly this commitment and this execution.
THEOREM CertifiedWasAcknowledged == Spec => []BrokerAcknowledgedThisTrade
<1>1. ASSUME IInv PROVE BrokerAcknowledgedThisTrade
  <2> SUFFICES ASSUME NEW o \in Orders, Certified(o)
               PROVE  \E b \in Brokers :
                        Flow(o).settlement.data.brokerSig =
                          Sign(b, BrokerAttestation(o, Flow(o).commitment.sig,
                                                    Flow(o).execution.sig))
    BY DEF BrokerAcknowledgedThisTrade
  <2> DEFINE s == Flow(o).settlement.data
  <2>1. /\ Flow(o).settlement # Absent
        /\ s.brokerSig.over = BrokerAttestation(s.order, Flow(o).commitment.sig,
                                                Flow(o).execution.sig)
    BY DEF Certified, ChainValid, Complete, SettlementValid, VerifyChain,
           VerifySignature
  <2>2. /\ Flow(o).settlement \in signed
        /\ Flow(o).settlement.phase = "settlement"
        /\ Whole(Flow(o).settlement) /\ Flow(o).settlement.order = o
    BY <1>1, <2>1, FlowIsStored DEF Phases
  <2>3. PICK b \in Brokers, d \in {s.brokerSig.over} : s.brokerSig = Sign(b, d)
    BY <1>1, <2>2 DEF IInv, BrokersSign
  <2>4. s.order = o
    BY <2>2 DEF Whole
  <2> QED
    BY <2>1, <2>3, <2>4
<1> QED
  BY <1>1, SpecKeepsIInv, PTL

\* A set of three elements is not listed with a repetition.
LEMMA ThreeAreDistinct ==
    ASSUME NEW x, NEW y, NEW z, Cardinality({x, y, z}) = 3
    PROVE  x # y /\ x # z /\ y # z
<1>1. ASSUME NEW u, NEW v PROVE Cardinality({u, v}) <= 2
  <2>1. Cardinality({u}) = 1 /\ IsFiniteSet({u})
    BY FS_Singleton
  <2>2. Cardinality({u} \cup {v}) = IF v \in {u} THEN 1 ELSE 1 + 1
    BY <2>1, FS_AddElement
  <2>3. {u} \cup {v} = {u, v}
    OBVIOUS
  <2> QED
    BY <2>2, <2>3
<1>2. x = y => {x, y, z} = {y, z}
  OBVIOUS
<1>3. x = z => {x, y, z} = {x, y}
  OBVIOUS
<1>4. y = z => {x, y, z} = {x, y}
  OBVIOUS
<1>5. Cardinality({y, z}) <= 2 /\ Cardinality({x, y}) <= 2
  BY <1>1
<1>6. x # y
  BY <1>2, <1>5
<1> QED
  BY <1>3, <1>4, <1>5, <1>6

\* In a flow whose settlement names its records, the settlement's copies are
\* what those records hold.
LEMMA CopiesOfAFlow ==
    ASSUME IInv, "mix_up" \notin Mistakes, NEW o \in Orders, Complete(Flow(o)),
           Flow(o).commitment.sig.over = Flow(o).commitment.data,
           Flow(o).execution.sig.over = Flow(o).execution.data,
           VerifyChain(Flow(o).commitment.sig, Flow(o).execution.sig,
                       Flow(o).settlement.data)
    PROVE  LET s == Flow(o).settlement.data IN
           /\ s.seeds[1] = Flow(o).commitment.data.seed
           /\ s.seeds[2] = Flow(o).execution.data.seed
           /\ s.windows[2] = Flow(o).execution.data.window
<1>1. Flow(o).settlement \in signed /\ Flow(o).settlement.phase = "settlement"
  BY FlowIsStored DEF Complete, Phases
<1>2. /\ Copied(Flow(o).settlement.data, 1, Flow(o).commitment.sig)
      /\ Copied(Flow(o).settlement.data, 2, Flow(o).execution.sig)
  BY <1>1 DEF IInv, CopiesAreTrue, VerifyChain
<1> QED
  BY <1>2 DEF Copied

\* A caller that passes each phase's own hashes is never certified with two
\* phases of a trade signed from one seed.
THEOREM CertifiedSeedsDiffer ==
    ASSUME "mix_up" \notin Mistakes
    PROVE  Spec => []SeedsAreIndependent
<1>1. ASSUME IInv PROVE SeedsAreIndependent
  <2> SUFFICES ASSUME NEW o \in Orders, Certified(o)
               PROVE  AllSeedsUnique(Flow(o))
    BY DEF SeedsAreIndependent
  <2> DEFINE f == Flow(o)
             t == f.settlement.data.seeds
  <2>1. /\ Complete(f)
        /\ f.commitment.sig.over = f.commitment.data
        /\ f.execution.sig.over = f.execution.data
        /\ VerifyChain(f.commitment.sig, f.execution.sig, f.settlement.data)
        /\ VerifyAllSeedsIndependent(f.settlement.data)
    BY DEF Certified, ChainValid, Complete, CommitmentValid, ExecutionValid,
           SettlementValid, VerifySignature
  <2>2. t[1] = f.commitment.data.seed /\ t[2] = f.execution.data.seed
    BY <1>1, <2>1, CopiesOfAFlow
  <2>3. t[1] # t[2] /\ t[1] # t[3] /\ t[2] # t[3]
    <3>1. {t[i] : i \in 1 .. 3} = {t[1], t[2], t[3]}
      OBVIOUS
    <3>2. Cardinality({t[1], t[2], t[3]}) = 3
      BY <2>1, <3>1 DEF VerifyAllSeedsIndependent
    <3> QED
      BY <3>2, ThreeAreDistinct
  <2>4. DOMAIN f = Phases
    BY DEF Flow
  <2> QED
    BY <2>1, <2>2, <2>3, <2>4 DEF AllSeedsUnique, Complete, Phases
<1> QED
  BY <1>1, SpecKeepsIInv, PTL

\* detect_tampering leaves the execution's own window out, and yet certifies no
\* more than verify_trade_flow: the settlement holds a true copy of it.
THEOREM NoIssueMeansCertified ==
    ASSUME "mix_up" \notin Mistakes
    PROVE  Spec => []UntamperedIsCertified
<1>1. ASSUME IInv PROVE UntamperedIsCertified
  <2> SUFFICES ASSUME NEW o \in Orders, Complete(Flow(o)), ~Suspect(o)
               PROVE  Certified(o)
    BY DEF UntamperedIsCertified
  <2> DEFINE f == Flow(o)
             keys == registry[<<"account", ScopeOf[o]>>]
             brokers == registry[<<"broker", ScopeOf[o]>>]
  <2>1. CommitmentValid(f, keys)
    BY DEF Suspect, Tampered, Complete, CommitmentIssue, CommitmentValid
  <2>2. SettlementValid(f, keys, brokers)
    BY DEF Suspect, Tampered, Complete, SettlementIssue, SettlementValid
  <2>3. /\ VerifySignature(f.execution.data, f.execution.sig)
        /\ VerifyQuantumBinding(f.execution.data)
        /\ f.execution.sig.pubkey \in keys
        /\ FollowsCommitment(f)
    BY DEF Suspect, Tampered, Complete, ExecutionIssue
  <2>4. f.settlement.data.windows[2] = f.execution.data.window
    BY <1>1, <2>1, <2>2, <2>3, CopiesOfAFlow
       DEF CommitmentValid, SettlementValid, VerifySignature, Complete
  <2>5. VerifyTemporalSafety(f.execution.data)
    BY <2>2, <2>4 DEF SettlementValid, VerifyAllTemporalWindows,
                      VerifyTemporalSafety
  <2> QED
    BY <2>1, <2>2, <2>3, <2>5 DEF Certified, ChainValid, ExecutionValid
<1> QED
  BY <1>1, SpecKeepsIInv, PTL

-----------------------------------------------------------------------------
(* One fill for a certified commitment.  Callers who mix nothing up and log  *)
(* one record of an order before they sign the next keep the log in the      *)
(* order of the fills: the execution a lookup finds, be it one whose append  *)
(* raised, is none before the acknowledged ones, and none is earlier than    *)
(* the commitment it names allows.                                           *)

Careful == {"late", "mix_up"} \cap Mistakes = {}

\* An order has at most one record on its way to the log.
OneAtATime == \A r, q \in unlogged : r.order = q.order => r = q

CommittedNonces ==
    \A c \in signed : c.phase = "commitment" =>
        c.data.nonce \in Nat /\ c.data.nonce <= nonce[ScopeOf[c.order]]

\* An execution fills its own order, after the nonce that was committed to.
FillsItsCommitment(data, o) ==
    /\ data.commitmentSig.over.order = o
    /\ data.commitmentSig.over.nonce \in Nat
    /\ data.commitmentSig.over.nonce < data.nonceAfter
FillsFollow ==
    \A r \in signed :
        r.phase = "execution" => FillsItsCommitment(r.data, r.order)

Acknowledged(o) == {r \in returned : r.phase = "execution" /\ r.order = o}

\* No fill of an order whose append returned is later than one on its way, one
\* stranded since, or the last one acknowledged: those a lookup may find.
FillsAreInOrder ==
    \A o \in Orders : \A r \in Acknowledged(o) :
        /\ \A u \in unlogged \cup unacked :
             u.phase = "execution" /\ u.order = o =>
               r.data.nonceAfter <= u.data.nonceAfter
        /\ <<o, "execution">> \in DOMAIN last =>
             r.data.nonceAfter <= last[<<o, "execution">>].data.nonceAfter

\* The part of the invariant that is about fills and their order.
Ordered == OneAtATime /\ CommittedNonces /\ FillsFollow /\ FillsAreInOrder

\* A record joins those on their way: the only one of its order, and, if it is
\* a fill, no earlier than those logged.
LEMMA SigningKeepsOrder ==
    ASSUME Careful, IInv, Ordered, NEW r, Keep(r), Ready(r.order), Whole(r),
           UNCHANGED log,
           nonce' \in [Scopes -> Nat], \A a \in Scopes : nonce[a] <= nonce'[a],
           r.phase = "commitment" =>
             r.data.nonce \in Nat /\ r.data.nonce <= nonce'[ScopeOf[r.order]],
           r.phase = "execution" =>
             /\ FillsItsCommitment(r.data, r.order)
             /\ \A q \in Acknowledged(r.order) :
                  q.data.nonceAfter <= r.data.nonceAfter
    PROVE  Ordered'
<1>1. signed' = signed \cup {r} /\ unlogged' = unlogged \cup {r}
  BY KeepKeepsLog DEF Keep
<1>2. \A u \in unlogged : u.order # r.order
  BY DEF Ready, Careful
<1>3. OneAtATime'
  BY <1>1, <1>2 DEF Ordered, OneAtATime
<1>4. CommittedNonces'
  <2> SUFFICES ASSUME NEW c \in signed', c.phase = "commitment"
               PROVE  /\ c.data.nonce \in Nat
                      /\ c.data.nonce <= nonce'[ScopeOf[c.order]]
    BY DEF CommittedNonces
  <2>1. CASE c = r
    BY <2>1
  <2>2. CASE c \in signed
    <3>1. ScopeOf[c.order] \in Scopes
      BY <2>2, ScopesAssumption DEF IInv, SignedAreWhole, Whole
    <3>2. c.data.nonce \in Nat /\ c.data.nonce <= nonce[ScopeOf[c.order]]
      BY <2>2 DEF Ordered, CommittedNonces
    <3>3. /\ nonce[ScopeOf[c.order]] \in Nat /\ nonce'[ScopeOf[c.order]] \in Nat
          /\ nonce[ScopeOf[c.order]] <= nonce'[ScopeOf[c.order]]
      BY <3>1 DEF IInv, Counters
    <3> QED
      BY <3>2, <3>3
  <2> QED
    BY <1>1, <2>1, <2>2
<1>5. FillsFollow'
  BY <1>1 DEF Ordered, FillsFollow, FillsItsCommitment
<1>6. (\A o : Acknowledged(o)' = Acknowledged(o)) /\ UNCHANGED <<unacked, last>>
  BY DEF Acknowledged, returned, log
<1>7. FillsAreInOrder'
  BY <1>1, <1>6 DEF Ordered, FillsAreInOrder
<1> QED
  BY <1>3, <1>4, <1>5, <1>7 DEF Ordered

\* A step of the log or a caller's that signs nothing, after which the fills on
\* their way and those of the page are in order.
LEMMA OthersKeepOrder ==
    ASSUME Ordered, UNCHANGED nonce, signed' \subseteq signed,
           unlogged' \subseteq unlogged, FillsAreInOrder'
    PROVE  Ordered'
<1>1. OneAtATime' /\ CommittedNonces' /\ FillsFollow'
  BY DEF Ordered, OneAtATime, CommittedNonces, FillsFollow
<1> QED
  BY <1>1 DEF Ordered

\* The log gets the only record of its order that is on its way, and nothing
\* stranded shows instead of it any more.
LEMMA AppendKeepsOrder ==
    ASSUME IInv, Ordered, NEW r \in unlogged, Append(r)
    PROVE  Ordered'
<1>1. /\ stored' = stored \cup {r} /\ stranded' = stranded \ {r}
      /\ unlogged' = unlogged \ {r}
      /\ unacked' = {q \in unacked : q.id # r.id}
      /\ last' = [i \in DOMAIN last \cup {r.id} |->
                    IF i = r.id THEN r ELSE last[i]]
      /\ UNCHANGED nonce
  BY DEF Append, Log!Append
<1>2. r \in signed /\ Whole(r)
  BY DEF IInv, SignedAreWhole, signed
<1>3. ASSUME NEW o \in Orders, NEW q \in Acknowledged(o)'
      PROVE  q = r \/ q \in Acknowledged(o)
  BY <1>1 DEF Acknowledged, returned
<1>4. ASSUME NEW o \in Orders, NEW q \in Acknowledged(o)',
             NEW u \in unlogged' \cup unacked',
             u.phase = "execution", u.order = o
      PROVE  q.data.nonceAfter <= u.data.nonceAfter
  <2>1. u \in unlogged \cup unacked
    BY <1>1
  <2>2. q # r
    <3>1. ASSUME q = r PROVE r.order = o /\ r.phase = "execution"
      BY <3>1 DEF Acknowledged
    <3>2. u \in signed /\ Whole(u)
      BY <2>1 DEF IInv, SignedAreWhole, LogIsSound, signed
    <3>3. ASSUME q = r PROVE u.id = r.id
      BY <1>2, <1>4, <3>1, <3>2, <3>3 DEF Whole
    <3>4. CASE u \in unlogged'
      BY <1>1, <1>4, <3>1, <3>4 DEF Ordered, OneAtATime
    <3>5. CASE u \in unacked'
      BY <1>1, <3>3, <3>5
    <3> QED
      BY <3>4, <3>5
  <2> QED
    BY <1>3, <1>4, <2>1, <2>2 DEF Ordered, FillsAreInOrder
<1>5. ASSUME NEW o \in Orders, NEW q \in Acknowledged(o)',
             <<o, "execution">> \in DOMAIN last'
      PROVE  q.data.nonceAfter <= last'[<<o, "execution">>].data.nonceAfter
  <2>1. q.order = o /\ q.phase = "execution"
    BY DEF Acknowledged
  <2>2. CASE r.id = <<o, "execution">>
    <3>1. last'[<<o, "execution">>] = r
      BY <1>1, <2>2
    <3>2. r.order = o /\ r.phase = "execution"
      BY <1>2, <2>2 DEF Whole
    <3>3. CASE q = r
      BY <1>2, <3>1, <3>2, <3>3 DEF IInv, FillNonces
    <3>4. CASE q \in Acknowledged(o)
      BY <3>1, <3>2, <3>4 DEF Ordered, FillsAreInOrder
    <3> QED
      BY <1>3, <3>3, <3>4
  <2>3. CASE r.id # <<o, "execution">>
    <3>1. /\ <<o, "execution">> \in DOMAIN last
          /\ last'[<<o, "execution">>] = last[<<o, "execution">>]
      BY <1>1, <1>5, <2>3
    <3>2. q \in Acknowledged(o)
      BY <1>2, <1>3, <2>1, <2>3 DEF Whole
    <3> QED
      BY <3>1, <3>2 DEF Ordered, FillsAreInOrder
  <2> QED
    BY <2>2, <2>3
<1>6. FillsAreInOrder'
  BY <1>4, <1>5 DEF FillsAreInOrder
<1> QED
  BY <1>1, <1>6, AppendKeepsIInv, OthersKeepOrder

CarefulInv == IInv /\ Ordered

LEMMA NextKeepsOrder ==
    ASSUME Careful
    PROVE  CarefulInv /\ [Next]_vars => CarefulInv'
<1> SUFFICES ASSUME CarefulInv, [Next]_vars PROVE CarefulInv'
  OBVIOUS
<1>a. IInv /\ Ordered /\ IInv'
  BY NextKeepsIInv DEF CarefulInv
<1>b. /\ nonce \in [Scopes -> Nat] /\ nonce' \in [Scopes -> Nat]
      /\ \A o \in Orders : ScopeOf[o] \in Scopes
  BY <1>a, ScopesAssumption DEF IInv, Counters
<1>1. ASSUME NEW o \in Orders, NEW s \in 1 .. MaxSeeds, NEW w, NEW t,
             Commit(o, s, t, w)
      PROVE  Ordered'
  <2> DEFINE r == Record("commitment", o, s,
                         Commitment(o, t, nonce[ScopeOf[o]], s, w))
  <2>1. Keep(r) /\ Ready(o) /\ UNCHANGED <<nonce, log>>
    BY <1>1 DEF Commit
  <2>2. /\ Whole(r) /\ r.phase = "commitment" /\ r.order = o
        /\ r.data.nonce = nonce[ScopeOf[o]]
    BY DEF Record, Whole, Sign, Phases, Commitment
  <2>3. /\ r.data.nonce \in Nat /\ r.data.nonce <= nonce'[ScopeOf[r.order]]
        /\ \A a \in Scopes : nonce[a] <= nonce'[a]
    BY <1>b, <2>1, <2>2
  <2> HIDE DEF r
  <2> QED
    BY <1>a, <1>b, <2>1, <2>2, <2>3, SigningKeepsOrder
<1>2. ASSUME NEW o \in Orders, NEW s \in 1 .. MaxSeeds, NEW w, NEW f,
             NEW c \in Of("commitment"), Execute(o, c, s, f, w)
      PROVE  Ordered'
  <2> DEFINE n == nonce[ScopeOf[o]] + 1
             r == Record("execution", o, s,
                         Execution(o, c.sig, c.data.seed, f, n, s, w))
  <2>1. /\ Keep(r) /\ Ready(o) /\ UNCHANGED log /\ c.order = o
        /\ nonce' = [nonce EXCEPT ![ScopeOf[o]] = @ + 1]
    BY <1>2 DEF Execute, Careful
  <2>2. /\ Whole(r) /\ r.phase = "execution" /\ r.order = o
        /\ r.data.nonceAfter = n /\ r.data.commitmentSig = c.sig
    BY DEF Record, Whole, Sign, Phases, Execution
  <2>3. \A a \in Scopes : nonce[a] <= nonce'[a]
    BY <1>b, <2>1
  <2>4. /\ c.sig.over.order = o /\ c.sig.over.nonce \in Nat
        /\ c.sig.over.nonce < n
    <3>1. c \in signed /\ c.phase = "commitment"
      BY DEF Of
    <3>2. /\ c.sig.over = c.data /\ c.data.order = o /\ c.data.nonce \in Nat
          /\ c.data.nonce <= nonce[ScopeOf[o]]
      BY <1>a, <2>1, <3>1
      DEF IInv, SignedAreWhole, Whole, Ordered, CommittedNonces
    <3> QED
      BY <1>b, <3>2
  <2>5. FillsItsCommitment(r.data, r.order)
    BY <2>2, <2>4 DEF FillsItsCommitment
  <2>6. ASSUME NEW q \in Acknowledged(o) PROVE q.data.nonceAfter <= n
    BY <1>a, <1>b DEF Acknowledged, signed, returned, IInv, FillNonces
  <2> HIDE DEF r, n
  <2> QED
    BY <1>a, <1>b, <2>1, <2>2, <2>3, <2>5, <2>6, SigningKeepsOrder
<1>3. ASSUME NEW e \in Of("execution"), NEW s \in 1 .. MaxSeeds, NEW w,
             Reattest(e, s, w)
      PROVE  Ordered'
  <2> DEFINE r == Record("execution", e.order, s,
                         Execution(e.order, e.data.commitmentSig,
                                   e.data.commitmentSeed, e.data.fill,
                                   e.data.nonceAfter, s, w))
  <2>1. /\ Keep(r) /\ Ready(e.order) /\ UNCHANGED <<nonce, log>>
        /\ e.data.nonceAfter = nonce[ScopeOf[e.order]]
    BY <1>3 DEF Reattest, Careful
  <2>2. e \in signed /\ e.phase = "execution" /\ e.order \in Orders
    BY <1>a DEF Of, IInv, SignedAreWhole, Whole
  <2>3. /\ Whole(r) /\ r.phase = "execution" /\ r.order = e.order
        /\ r.data.nonceAfter = e.data.nonceAfter
        /\ r.data.commitmentSig = e.data.commitmentSig
    BY <2>2 DEF Record, Whole, Sign, Phases, Execution
  <2>4. \A a \in Scopes : nonce[a] <= nonce'[a]
    BY <1>b, <2>1
  <2>5. FillsItsCommitment(r.data, r.order)
    BY <1>a, <2>2, <2>3 DEF Ordered, FillsFollow, FillsItsCommitment
  <2>6. ASSUME NEW q \in Acknowledged(e.order)
        PROVE  q.data.nonceAfter <= e.data.nonceAfter
    BY <1>a, <1>b, <2>1 DEF Acknowledged, signed, returned, IInv, FillNonces
  <2> HIDE DEF r
  <2> QED
    BY <1>a, <1>b, <2>1, <2>3, <2>4, <2>5, <2>6, SigningKeepsOrder
<1>4. ASSUME NEW o \in Orders, NEW s \in 1 .. MaxSeeds, NEW c, NEW cc, NEW e,
             NEW ee, NEW b, Settle(o, c, cc, e, ee, s, b)
      PROVE  Ordered'
  <2> DEFINE r == Record("settlement", o, s,
                         Settlement(o, c.sig, cc.data, e.sig, ee.data, b, s,
                                    "safe"))
  <2>1. Keep(r) /\ Ready(o) /\ UNCHANGED <<nonce, log>>
    BY <1>4 DEF Settle
  <2>2. Whole(r) /\ r.phase = "settlement" /\ r.order = o
    BY DEF Record, Whole, Sign, Phases, Settlement
  <2>3. \A a \in Scopes : nonce[a] <= nonce'[a]
    BY <1>b, <2>1
  <2> HIDE DEF r
  <2> QED
    BY <1>a, <1>b, <2>1, <2>2, <2>3, SigningKeepsOrder
<1>5. ASSUME NEW r \in unlogged, Append(r) PROVE Ordered'
  BY <1>a, <1>5, AppendKeepsOrder
<1>6. ASSUME NEW r \in unlogged, Strand(r) PROVE Ordered'
  <2>1. /\ unacked' = unacked \cup {r}
        /\ UNCHANGED <<last, unlogged, signed, returned, nonce>>
    BY <1>a, <1>6, StrandKeepsIInv DEF Strand, Log!Strand
  <2>2. \A o : Acknowledged(o)' = Acknowledged(o)
    BY <2>1 DEF Acknowledged
  <2>3. FillsAreInOrder'
    BY <1>a, <2>1, <2>2 DEF Ordered, FillsAreInOrder
  <2> QED
    BY <1>a, <2>1, <2>3, OthersKeepOrder
<1>7. ASSUME Rotate PROVE Ordered'
  <2>1. /\ unacked' = {} /\ last' = Log!NoEntries
        /\ UNCHANGED <<unlogged, signed, returned, nonce>>
    BY <1>a, <1>7, RotateKeepsIInv DEF Rotate, Log!TurnPage
  <2>2. \A o : Acknowledged(o)' = Acknowledged(o)
    BY <2>1 DEF Acknowledged
  <2>3. FillsAreInOrder'
    BY <1>a, <2>1, <2>2 DEF Ordered, FillsAreInOrder, Log!NoEntries
  <2> QED
    BY <1>a, <2>1, <2>3, OthersKeepOrder
<1>8. ASSUME \/ Reindex \/ \E r \in unlogged : Lose(r)
             \/ \E n \in Names, k \in Keys \cup Brokers :
                  Register(n, k) \/ Revoke(n, k)
             \/ UNCHANGED vars
      PROVE  Ordered'
  <2>1. /\ unlogged' \subseteq unlogged
        /\ UNCHANGED <<stored, last, unacked, stranded, nonce>>
    BY <1>8 DEF Reindex, Log!Reindex, Lose, Register, Revoke, vars, log
  <2>2. signed' \subseteq signed /\ \A o : Acknowledged(o)' = Acknowledged(o)
    BY <2>1 DEF signed, returned, Acknowledged
  <2>3. FillsAreInOrder'
    BY <1>a, <2>1, <2>2 DEF Ordered, FillsAreInOrder
  <2> QED
    BY <1>a, <2>1, <2>2, <2>3, OthersKeepOrder
<1>9. Ordered'
  BY <1>1, <1>2, <1>3, <1>4, <1>5, <1>6, <1>7, <1>8 DEF Next
<1> QED
  BY <1>a, <1>9 DEF CarefulInv

\* The executions under a certified commitment whose append returned attest one
\* fill, if callers neither mix records up nor append them late, whatever
\* appends raise; with a late append lookups could find an earlier fill than the
\* last.
THEOREM OneFillIsCertified ==
    ASSUME Careful
    PROVE  Spec => []CertifiedFillsOnce
<1>1. ASSUME CarefulInv PROVE CertifiedFillsOnce
  <2> SUFFICES ASSUME NEW o \in Orders, Certified(o),
                      NEW r \in returned \cap Of("execution"),
                      r.data.commitmentSig = Flow(o).commitment.sig
               PROVE  r.data.nonceAfter = Flow(o).execution.data.nonceAfter
    BY DEF CertifiedFillsOnce
  <2> DEFINE c == Flow(o).commitment
             e == Flow(o).execution
             n == e.data.nonceAfter
  <2>1. c # Absent /\ e # Absent /\ n = c.data.nonce + 1
    BY DEF Certified, ChainValid, Complete, ExecutionValid, FollowsCommitment,
           VerifyNonceIncrement
  <2>2. c \in signed /\ c.phase = "commitment" /\ c.order = o /\ Whole(c)
    BY <1>1, <2>1, FlowIsStored DEF CarefulInv, Phases
  <2>3. /\ e.phase = "execution" /\ e.order = o
        /\ \/ e \in unacked
           \/ <<o, "execution">> \in DOMAIN last /\ e = last[<<o, "execution">>]
    BY <1>1, <2>1, FlowIsStored DEF CarefulInv, Phases
  <2> HIDE DEF c, e
  <2>4. c.sig.over = c.data /\ c.data.order = o /\ c.data.nonce \in Nat
    BY <1>1, <2>2 DEF Whole, CarefulInv, Ordered, CommittedNonces
  <2>5. r \in signed /\ r.phase = "execution" /\ r.data.commitmentSig = c.sig
    BY DEF Of, c
  <2>6. r.order = o /\ c.data.nonce < r.data.nonceAfter
    BY <1>1, <2>4, <2>5
    DEF CarefulInv, Ordered, FillsFollow, FillsItsCommitment
  <2>7. r \in Acknowledged(o)
    BY <2>5, <2>6 DEF Acknowledged
  <2>8. r.data.nonceAfter <= n
    BY <1>1, <2>3, <2>7 DEF CarefulInv, Ordered, FillsAreInOrder
  <2>9. r.data.nonceAfter \in Nat
    BY <1>1, <2>5 DEF CarefulInv, IInv, FillNonces
  <2> HIDE DEF n
  <2>10. r.data.nonceAfter = n
    BY <2>1, <2>4, <2>6, <2>8, <2>9
  <2> QED
    BY <2>10 DEF n, e
<1>2. Init => CarefulInv
  BY InitEstablishesIInv
  DEF Init, Log!Init, signed, returned, CarefulInv, Ordered, OneAtATime,
      CommittedNonces, FillsFollow, FillsAreInOrder, Acknowledged
<1> QED
  BY <1>1, <1>2, NextKeepsOrder, PTL DEF Spec
=============================================================================
