--------------------------- MODULE TimestampProofs ---------------------------
(***************************************************************************)
(* Theorems about TimestampClient, for any number of calls, endpoints,     *)
(* authorities that sign in any form, and any subset of the quirks of      *)
(* authorities and network.                                                *)
(***************************************************************************)
EXTENDS TimestampClient, TLAPS

-----------------------------------------------------------------------------
(* Answers.                                                                  *)

SignerOf(u, tst) ==
    [sid        |-> IF FormOf[u].sid = "serial" THEN u ELSE None,
     algorithms |-> FormOf[u].algorithms,
     attrs      |-> AttrsOf(u, tst),
     signature  |-> [key  |-> u,
                     over |-> IF AttrsOf(u, tst) = None
                              THEN tst ELSE AttrsOf(u, tst)]]

\* What an authority signs is the TSTInfo with one signer.
LEMMA SignedFields ==
    ASSUME NEW u, NEW t
    PROVE  SignedBy(u, t) = [status |-> "granted", tst |-> t,
                             certs |-> CertsOf(u), signers |-> {SignerOf(u, t)}]
  BY DEF SignedBy, SignerOf

LEMMA FormType ==
    ASSUME NEW u \in Urls
    PROVE  /\ FormOf[u] \in Forms
           /\ FormOf[u].sid \in {"serial", "key_id"}
           /\ FormOf[u].certs \in {"own", "chain", "none"}
           /\ FormOf[u].attrs \in {"digest", "other", "none"}
           /\ FormOf[u].algorithms \in {"known", "other"}
  BY FormsAssumption DEF FormsAssumption, Forms

\* signedAttrs are there unless the form has none, and are no client's None.
LEMMA AttrsType ==
    ASSUME NEW u \in Urls, NEW t \in Tsts
    PROVE  /\ AttrsOf(u, t) \in Attrs \cup {None}
           /\ AttrsOf(u, t) = None <=> FormOf[u].attrs = "none"
           /\ AttrsOf(u, t) # None =>
                (AttrsOf(u, t).messageDigest = t <=> FormOf[u].attrs = "digest")
  <1>1. t # None BY NoneAssumption DEF NoneAssumption
  <1>2. CASE FormOf[u].attrs = "none"
    BY <1>2 DEF AttrsOf
  <1>3. CASE FormOf[u].attrs # "none"
    <2> DEFINE m == IF FormOf[u].attrs = "digest" THEN t ELSE None
    <2>1. AttrsOf(u, t) = [messageDigest |-> m] BY <1>3 DEF AttrsOf
    <2>2. m \in Tsts \cup {None} /\ (m = t <=> FormOf[u].attrs = "digest") BY <1>1
    <2> HIDE DEF m
    <2>3. [messageDigest |-> m] \in Attrs BY <2>2 DEF Attrs
    <2>4. [messageDigest |-> m] # None BY <2>3, NoneAssumption DEF NoneAssumption
    <2>5. [messageDigest |-> m].messageDigest = m OBVIOUS
    <2> QED BY <1>3, <2>1, <2>2, <2>3, <2>4, <2>5
  <1> QED BY <1>2, <1>3

LEMMA SignerType ==
    ASSUME NEW u \in Urls, NEW t \in Tsts
    PROVE  SignerOf(u, t) \in Signers
  <1> DEFINE sid == IF FormOf[u].sid = "serial" THEN u ELSE None
  <1> DEFINE over == IF AttrsOf(u, t) = None THEN t ELSE AttrsOf(u, t)
  <1>1. sid \in Urls \cup {None} OBVIOUS
  <1>2. over \in Tsts \cup Attrs BY AttrsType
  <1> HIDE DEF sid, over
  <1>3. [sid |-> sid, algorithms |-> FormOf[u].algorithms, attrs |-> AttrsOf(u, t),
         signature |-> [key |-> u, over |-> over]] \in Signers
    BY <1>1, <1>2, AttrsType, FormType DEF Signers
  <1> QED BY <1>3 DEF SignerOf, sid, over

\* The certificates an authority sends.
LEMMA CertsType ==
    ASSUME NEW u \in Urls
    PROVE  /\ CertsOf(u) \in Seq(Urls \cup {Ca})
           /\ Len(CertsOf(u)) > 0 <=> FormOf[u].certs # "none"
           /\ FormOf[u].certs # "none" =>
                \E i \in 1 .. Len(CertsOf(u)) : CertsOf(u)[i] = u
           /\ FormOf[u].certs = "own" => CertsOf(u)[1] = u
           /\ FormOf[u].certs = "chain" => CertsOf(u)[1] = Ca
  <1>1. CASE FormOf[u].certs = "own"
    <2>1. CertsOf(u) = <<u, Ca>> BY <1>1 DEF CertsOf
    <2>2. <<u, Ca>> \in Seq(Urls \cup {Ca}) OBVIOUS
    <2>3. Len(<<u, Ca>>) = 2 /\ <<u, Ca>>[1] = u OBVIOUS
    <2> QED BY <1>1, <2>1, <2>2, <2>3
  <1>2. CASE FormOf[u].certs = "chain"
    <2>1. CertsOf(u) = <<Ca, u>> BY <1>2 DEF CertsOf
    <2>2. <<Ca, u>> \in Seq(Urls \cup {Ca}) OBVIOUS
    <2>3. Len(<<Ca, u>>) = 2 /\ <<Ca, u>>[1] = Ca /\ <<Ca, u>>[2] = u OBVIOUS
    <2> QED BY <1>2, <2>1, <2>2, <2>3
  <1>3. CASE FormOf[u].certs = "none"
    <2>1. CertsOf(u) = <<>> BY <1>3 DEF CertsOf
    <2>2. <<>> \in Seq(Urls \cup {Ca}) /\ Len(<<>>) = 0 OBVIOUS
    <2> QED BY <1>3, <2>1, <2>2
  <1> QED BY <1>1, <1>2, <1>3, FormType

LEMMA SignedType ==
    ASSUME NEW u \in Urls, NEW t \in Tsts
    PROVE  SignedBy(u, t) \in Answers
  BY SignedFields, SignerType, CertsType DEF Answers

\* Whatever happens to it on the way, an answer is well formed and its signers
\* are none or those of one signed answer.
IssuedSigned == \A b \in issued : \E u \in Urls, t \in Tsts : b = SignedBy(u, t)

LEMMA GarbledKeepsSigners ==
    ASSUME IssuedSigned, DataAssumption, NEW b \in issued, NEW a \in Garbled(b)
    PROVE  a \in Answers /\ a.signers = b.signers
  <1>1. PICK u \in Urls, t \in Tsts : b = SignedBy(u, t) BY DEF IssuedSigned
  <1>2. /\ b \in Answers
        /\ b.tst = t /\ b.signers = {SignerOf(u, t)}
    BY <1>1, SignedType, SignedFields
  <1>3. \A x \in issued : x.tst \in Tsts BY SignedFields DEF IssuedSigned
  <1>4. CASE a = [b EXCEPT !.tst = NotASequence, !.status = "rejection"]
    BY <1>2, <1>4 DEF Answers
  <1>5. CASE a = [b EXCEPT !.certs = <<>>]
    <2>1. <<>> \in Seq(Urls \cup {Ca}) OBVIOUS
    <2> QED BY <1>2, <1>5, <2>1 DEF Answers
  <1>6. CASE a = [b EXCEPT !.certs = <<Ca>>]
    <2>1. <<Ca>> \in Seq(Urls \cup {Ca}) OBVIOUS
    <2> QED BY <1>2, <1>6, <2>1 DEF Answers
  <1>10. ASSUME NEW s \in b.signers, a = [b EXCEPT !.certs = <<s.signature.key>>]
         PROVE  a \in Answers /\ a.signers = b.signers
    <2>1. s.signature.key = u BY <1>2 DEF SignerOf
    <2>2. <<u>> \in Seq(Urls \cup {Ca}) OBVIOUS
    <2> QED BY <1>2, <1>10, <2>1, <2>2 DEF Answers
  <1>7. ASSUME NEW d \in Data, a = [b EXCEPT !.tst.imprint = d]
        PROVE  a \in Answers /\ a.signers = b.signers
    <2>1. [t EXCEPT !.imprint = d] \in Tsts BY DEF Tsts
    <2>2. a = [b EXCEPT !.tst = [t EXCEPT !.imprint = d]] BY <1>2, <1>7
    <2> QED BY <1>2, <2>1, <2>2 DEF Answers
  <1>8. ASSUME NEW n \in Calls, a = [b EXCEPT !.tst.nonce = n]
        PROVE  a \in Answers /\ a.signers = b.signers
    <2>1. [t EXCEPT !.nonce = n] \in Tsts BY DEF Tsts
    <2>2. a = [b EXCEPT !.tst = [t EXCEPT !.nonce = n]] BY <1>2, <1>8
    <2> QED BY <1>2, <2>1, <2>2 DEF Answers
  <1>9. ASSUME NEW x \in issued, a = [b EXCEPT !.tst = x.tst]
        PROVE  a \in Answers /\ a.signers = b.signers
    BY <1>2, <1>3, <1>9 DEF Answers
  <1> QED BY <1>4, <1>5, <1>6, <1>7, <1>8, <1>9, <1>10 DEF Garbled

LEMMA AnswersKeepSigners ==
    ASSUME IssuedSigned, DataAssumption, NEW c, NEW a \in AnswersTo(c)
    PROVE  /\ a \in Answers
           /\ a.signers = {} \/ \E b \in issued : a.signers = b.signers
  <1>1. \A b \in issued : b \in Answers BY SignedType DEF IssuedSigned
  <1>2. CASE a \in issued BY <1>1, <1>2
  <1>3. CASE \E b \in issued : a \in Garbled(b) BY <1>3, GarbledKeepsSigners
  <1>4. CASE a \in Refusals
    <2>1. <<>> \in Seq(Urls \cup {Ca}) /\ {} \in SUBSET Signers OBVIOUS
    <2>2. PICK st \in {"granted", "rejection"} :
            a = [status |-> st, tst |-> None, certs |-> <<>>, signers |-> {}]
      BY <1>4 DEF Refusals
    <2>3. a.signers = {} BY <2>2
    <2>4. a \in Answers BY <2>1, <2>2 DEF Answers
    <2> QED BY <2>3, <2>4
  <1>5. CASE \E b \in issued : a = [b EXCEPT !.tst = NotASequence]
    BY <1>1, <1>5 DEF Answers
  <1> QED BY <1>2, <1>3, <1>4, <1>5 DEF AnswersTo, May

-----------------------------------------------------------------------------
(* What a signature that verifies shows.                                     *)

Attested(c, a) ==
    \E b \in issued :
        /\ a.tst = b.tst
        /\ b.tst.nonce = c /\ b.tst.imprint = DataOf[c]
        /\ \E i \in 1 .. Len(a.certs), s \in b.signers : a.certs[i] = s.signature.key

LEMMA AcceptedIsAttested ==
    ASSUME IssuedSigned, DataAssumption, NoncesAssumption,
           NEW c \in Calls, NEW a \in AnswersTo(c), Accepts(c, a)
    PROVE  Attested(c, a)
  <1>1. /\ ExtractedNonce(a.tst) = c
        /\ a.tst.imprint = DataOf[c]
        /\ VerifyCmsSignature(a)
        /\ a.tst # None
    BY DEF Decodes, Accepts, Verify, TimestampToken
  <1>2. PICK s \in a.signers : VerifySingleSigner(s, a.tst, a.certs)
    BY <1>1 DEF VerifyCmsSignature
  <1>3. PICK b \in issued : a.signers = b.signers BY <1>2, AnswersKeepSigners
  <1>4. PICK u \in Urls, t \in Tsts : b = SignedBy(u, t) BY DEF IssuedSigned
  <1>5. s = SignerOf(u, t) /\ s \in b.signers /\ b.tst = t
    BY <1>2, <1>3, <1>4, SignedFields
  <1>6. a.tst = t
    <2> DEFINE m == AttrsOf(u, t)
    <2>1. s.attrs = m /\ s.signature.over = (IF m = None THEN t ELSE m)
      BY <1>5 DEF SignerOf
    <2>2. m # None => m.messageDigest = a.tst
      BY <1>2, <2>1 DEF VerifySingleSigner
    <2>3. m # None => m.messageDigest \in {t, None} BY DEF AttrsOf
    <2>4. a.tst # None BY <1>1
    <2>5. m = None => a.tst = t BY <1>2, <2>1 DEF VerifySingleSigner
    <2> QED BY <2>2, <2>3, <2>4, <2>5
  <1>7. t.nonce = c /\ t.imprint = DataOf[c]
    BY <1>1, <1>6, One \notin Calls DEF ExtractedNonce, NoncesAssumption
  <1>8. \E i \in 1 .. Len(a.certs) : a.certs[i] = s.signature.key
    <2>1. a.certs \in Seq(Urls \cup {Ca}) BY AnswersKeepSigners DEF Answers
    <2>2. Len(a.certs) \in Nat /\ Len(a.certs) > 0 BY <1>2, <2>1 DEF VerifySingleSigner
    <2> QED BY <1>2, <2>2 DEF VerifySingleSigner
  <1> QED BY <1>5, <1>6, <1>7, <1>8 DEF Attested

-----------------------------------------------------------------------------
(* Types.                                                                    *)

LEMMA TypeStep ==
    ASSUME TypeOK, IssuedSigned, Next
    PROVE  TypeOK' /\ IssuedSigned'
  <1> USE DataAssumption, UrlsAssumption, LimitsAssumption, NoneAssumption DEF TypeOK
  <1>1. ASSUME NEW u \in Passed, NEW f \in Passed, Construct(u, f)
        PROVE  TypeOK' /\ IssuedSigned'
    <2> DEFINE first == IF u = None THEN DEFAULT_TSA_URL ELSE u
    <2> DEFINE second == IF f = None THEN FALLBACK_TSA_URL ELSE f
    <2>1. first \in Urls /\ second \in Urls /\ ValidUrl(first)
          /\ urls' = <<first, second>>
      BY <1>1 DEF Construct
    <2> HIDE DEF first, second
    <2>2. urls' \in {x \in Urls : ValidUrl(x)} \X Urls BY <2>1
    <2>3. urls' # None BY <2>1
    <2> QED BY <1>1, <2>2, <2>3 DEF Construct, callVars, IssuedSigned
  <1>2. ASSUME NEW c \in Calls, Begin(c) PROVE TypeOK' /\ IssuedSigned'
    BY <1>2 DEF Begin, IssuedSigned
  <1>3. ASSUME NEW c \in Calls, SendRequest(c) PROVE TypeOK' /\ IssuedSigned'
    <2>1. urls[at[c]] \in Urls BY <1>3 DEF SendRequest
    <2> QED BY <1>3, <2>1 DEF SendRequest, IssuedSigned
  <1>4. ASSUME NEW c \in Calls, ReadChunk(c) PROVE TypeOK' /\ IssuedSigned'
    BY <1>4 DEF ReadChunk, IssuedSigned
  <1>5. ASSUME NEW c \in Calls, RequestFails(c) PROVE TypeOK' /\ IssuedSigned'
    BY <1>5 DEF RequestFails, NextUrl, IssuedSigned
  <1>6. ASSUME NEW c \in Calls, Answered(c) PROVE TypeOK' /\ IssuedSigned'
    <2>1. PICK a \in AnswersTo(c) :
            /\ Judge(c, a)
            /\ good' \in {good, good \cup {<<c, at[c], Readable(a)>>}}
      BY <1>6 DEF Answered
    <2>7. Readable(a) \in BOOLEAN BY DEF Readable
    <2>8. good' \subseteq Calls \X {1, 2} \X BOOLEAN BY <2>1, <2>7
    <2>2. pc[c] = "read" /\ urls[at[c]] \in Urls /\ token[c] = None
      BY <1>6 DEF Answered
    <2>3. a \in Answers BY AnswersKeepSigners
    <2>4. TimestampToken(urls[at[c]], a, DataOf[c]) \in Tokens
      BY <2>2, <2>3 DEF TimestampToken, Tokens
    <2>5. /\ pc' \in [Calls -> {"idle", "send", "read", "returned", "raised", "escaped"}]
          /\ at' \in [Calls -> {1, 2}]
          /\ token' \in [Calls -> Tokens \cup {None}]
          /\ \A d \in Calls : token'[d] # None <=> pc'[d] = "returned"
          /\ \A d \in Calls : pc'[d] \notin {"idle", "raised"} => urls # None
      BY <2>1, <2>2, <2>4 DEF Judge, NextUrl
    <2>6. got' \in [Calls -> 0 .. MaxBody + 1] BY <1>6 DEF Answered
    <2> QED BY <1>6, <2>5, <2>6, <2>8 DEF Answered, IssuedSigned
  <1>7. ASSUME NEW u \in Urls, NEW c \in Calls, Issue(u, c)
        PROVE  TypeOK' /\ IssuedSigned'
    <2>1. PICK n \in {c} \cup May("no_nonce", {None}),
               d \in {DataOf[c]} \cup May("confused", Data),
               ordering \in {FALSE} \cup May("ordering", {TRUE}) :
            issued' = issued \cup {SignedBy(u, Tst(d, n, ordering, clock + 1))}
      BY <1>7 DEF Issue
    <2>2. n \in Calls \cup {None} BY DEF May
    <2>3. d \in Data BY DEF May
    <2>4. ordering \in BOOLEAN BY DEF May
    <2>5. Tst(d, n, ordering, clock + 1) \in Tsts BY <2>2, <2>3, <2>4 DEF Tst, Tsts
    <2>6. SignedBy(u, Tst(d, n, ordering, clock + 1)) \in Answers
      BY <2>5, SignedType
    <2>7. IssuedSigned' BY <2>1, <2>5 DEF IssuedSigned
    <2>8. clock' \in 0 .. MaxTokens BY <1>7 DEF Issue
    <2> QED BY <1>7, <2>1, <2>6, <2>7, <2>8 DEF Issue, callVars
  <1> QED BY <1>1, <1>2, <1>3, <1>4, <1>5, <1>6, <1>7 DEF Next

\* The types of the client's state, of answers and of tokens.
THEOREM TypeCorrect == Spec => []TypeOK
  <1> DEFINE Typed == TypeOK /\ IssuedSigned
  <1>1. Init => Typed
    BY DataAssumption, LimitsAssumption DEF Init, TypeOK, IssuedSigned
  <1>2. Typed /\ [Next]_vars => Typed'
    <2>1. CASE Next BY <2>1, TypeStep
    <2>2. CASE UNCHANGED vars BY <2>2 DEF vars, callVars, TypeOK, IssuedSigned
    <2> QED BY <2>1, <2>2
  <1> QED BY <1>1, <1>2, PTL DEF Spec

-----------------------------------------------------------------------------
(* What stamp() returns.                                                     *)

\* An authority answers calls that have begun, at a time of its own; so every
\* answer that echoes a nonce is later than the call that drew the nonce.
Timely ==
    /\ \A u \in Urls, c \in Calls : <<u, c>> \in asked => pc[c] # "idle"
    /\ \A c \in Calls : began[c] <= clock
    /\ \A a \in issued : \A c \in Calls :
            a.tst.nonce = c => pc[c] # "idle" /\ began[c] < a.tst.time

ReturnedAttested ==
    \A c \in Calls : token[c] # None =>
        /\ Attested(c, token[c].answer)
        /\ Verify(DataOf[c], token[c])

IInv == TypeOK /\ IssuedSigned /\ Timely /\ ReturnedAttested

LEMMA TimelyStep ==
    ASSUME TypeOK, IssuedSigned, Timely, Next
    PROVE  Timely'
  <1> USE DataAssumption, LimitsAssumption DEF TypeOK, Timely
  <1>1. ASSUME NEW u, NEW f, Construct(u, f) PROVE Timely'
    BY <1>1 DEF Construct, callVars
  <1>2. ASSUME NEW c \in Calls, Begin(c) PROVE Timely'
    <2>1. \A d \in Calls : d # c => pc'[d] = pc[d] /\ began'[d] = began[d]
      BY <1>2 DEF Begin
    <2>2. pc[c] = "idle" /\ pc'[c] # "idle" /\ began'[c] = clock BY <1>2 DEF Begin
    <2> QED BY <1>2, <2>1, <2>2 DEF Begin
  <1>3. ASSUME NEW c \in Calls, SendRequest(c) PROVE Timely'
    BY <1>3 DEF SendRequest
  <1>4. ASSUME NEW c \in Calls, ReadChunk(c) PROVE Timely'
    BY <1>4 DEF ReadChunk
  <1>5. ASSUME NEW c \in Calls, RequestFails(c) PROVE Timely'
    BY <1>5 DEF RequestFails, NextUrl
  <1>6. ASSUME NEW c \in Calls, Answered(c) PROVE Timely'
    BY <1>6 DEF Answered, Judge, NextUrl
  <1>7. ASSUME NEW u \in Urls, NEW c \in Calls, Issue(u, c) PROVE Timely'
    <2>1. PICK n \in {c} \cup May("no_nonce", {None}),
               d \in {DataOf[c]} \cup May("confused", Data),
               ordering \in {FALSE} \cup May("ordering", {TRUE}) :
            issued' = issued \cup {SignedBy(u, Tst(d, n, ordering, clock + 1))}
      BY <1>7 DEF Issue
    <2> DEFINE a == SignedBy(u, Tst(d, n, ordering, clock + 1))
    <2>2. a.tst.nonce = n /\ a.tst.time = clock + 1 BY SignedFields DEF Tst
    <2>3. n \in {c, None} BY DEF May
    <2>4. pc[c] # "idle" /\ clock' = clock + 1 /\ UNCHANGED <<pc, began, asked>>
      BY <1>7 DEF Issue, callVars
    <2>5. \A e \in Calls :
             a.tst.nonce = e => pc'[e] # "idle" /\ began'[e] < a.tst.time
      BY <2>2, <2>3, <2>4, NoncesAssumption DEF NoncesAssumption
    <2> HIDE DEF a
    <2>6. issued' = issued \cup {a} BY <2>1 DEF a
    <2>7. \A e \in Calls : began'[e] <= clock' BY <2>4
    <2> QED BY <2>4, <2>5, <2>6, <2>7
  <1> QED BY <1>1, <1>2, <1>3, <1>4, <1>5, <1>6, <1>7 DEF Next

LEMMA AttestedLasts ==
    ASSUME issued \subseteq issued', NEW c, NEW a, Attested(c, a)
    PROVE  Attested(c, a)'
  BY DEF Attested

LEMMA AttestedStep ==
    ASSUME TypeOK, IssuedSigned, ReturnedAttested, Next
    PROVE  ReturnedAttested'
  <1>1. ASSUME UNCHANGED token, issued \subseteq issued' PROVE ReturnedAttested'
    BY <1>1 DEF ReturnedAttested, Attested
  <1>2. ASSUME NEW c \in Calls, Answered(c) PROVE ReturnedAttested'
    <2>1. PICK a \in AnswersTo(c) : Judge(c, a) BY <1>2 DEF Answered
    <2>2. UNCHANGED <<issued, urls>> BY <1>2 DEF Answered
    <2>3. CASE Accepts(c, a)
               /\ token' = [token EXCEPT ![c] =
                               TimestampToken(urls[at[c]], a, DataOf[c])]
      <3> DEFINE t == TimestampToken(urls[at[c]], a, DataOf[c])
      <3>1. t.answer = a BY DEF TimestampToken
      <3>2. Attested(c, t.answer) /\ Verify(DataOf[c], t)
        BY <2>3, <3>1, AcceptedIsAttested, DataAssumption, NoncesAssumption
           DEF Accepts
      <3> HIDE DEF t
      <3>3. \A d \in Calls : token'[d] = IF d = c THEN t ELSE token[d]
        BY <2>3 DEF TypeOK, t
      <3> QED BY <2>2, <3>2, <3>3 DEF ReturnedAttested, Attested
    <2>4. CASE UNCHANGED token BY <1>1, <2>2, <2>4
    <2> QED BY <2>1, <2>3, <2>4 DEF Judge
  <1>3. ASSUME NEW u, NEW f, Construct(u, f) PROVE ReturnedAttested'
    BY <1>1, <1>3 DEF Construct, callVars
  <1>4. ASSUME NEW c \in Calls, Begin(c) \/ SendRequest(c) \/ ReadChunk(c)
                                \/ RequestFails(c)
        PROVE  ReturnedAttested'
    BY <1>1, <1>4 DEF Begin, SendRequest, ReadChunk, RequestFails
  <1>5. ASSUME NEW u \in Urls, NEW c \in Calls, Issue(u, c) PROVE ReturnedAttested'
    BY <1>1, <1>5 DEF Issue, callVars
  <1> QED BY <1>2, <1>3, <1>4, <1>5 DEF Next

THEOREM Invariant == Spec => []IInv
  <1>1. Init => IInv
    BY DataAssumption, LimitsAssumption
       DEF Init, IInv, TypeOK, IssuedSigned, Timely, ReturnedAttested
  <1>2. IInv /\ [Next]_vars => IInv'
    <2>1. CASE Next
      BY <2>1, TypeStep, TimelyStep, AttestedStep DEF IInv
    <2>2. CASE UNCHANGED vars
      BY <2>2 DEF vars, callVars, IInv, TypeOK, IssuedSigned, Timely,
                  ReturnedAttested, Attested
    <2> QED BY <2>1, <2>2
  <1> QED BY <1>1, <1>2, PTL DEF Spec

\* A token carries a time later than the call, whatever is replayed, garbled or
\* signed by mistake.
THEOREM FreshTime == Spec => []ReturnedTimeIsFresh
  <1>1. IInv => ReturnedTimeIsFresh
    BY DEF IInv, Timely, ReturnedAttested, Attested, ReturnedTimeIsFresh
  <1> QED BY <1>1, Invariant, PTL

\* A token is an answer as an authority signed it, for the data of the call.
THEOREM Authentic == Spec => []ReturnedWasAttested
  <1>1. IInv => ReturnedWasAttested
    BY DEF IInv, ReturnedAttested, Attested, ReturnedWasAttested
  <1> QED BY <1>1, Invariant, PTL

\* verify() accepts what stamp() returned, for the data of the call alone.
THEOREM Verifiable == Spec => []ReturnedVerifies
  <1>1. IInv => ReturnedVerifies
    BY DEF IInv, ReturnedAttested, ReturnedVerifies, Verify
  <1> QED BY <1>1, Invariant, PTL

-----------------------------------------------------------------------------
(* The two authorities, one after the other.                                 *)

\* Where a call is tells which of the two it has asked.
Ordered ==
    /\ urls = None => asked = {} /\ \A c \in Calls : pc[c] = "idle"
    /\ \A c \in Calls :
        /\ pc[c] = "idle" => at[c] = 1
        /\ at[c] = 2 => <<urls[1], c>> \in asked
        /\ pc[c] \in {"read", "escaped"} => <<urls[at[c]], c>> \in asked
        /\ pc[c] = "escaped" => "not_a_sequence" \in Quirks
        /\ (pc[c] = "raised" /\ "pyasn1" \in Libraries) =>
                at[c] = 2 /\ <<urls[2], c>> \in asked
        /\ (urls # None /\ <<urls[2], c>> \in asked) => <<urls[1], c>> \in asked

\* What an answer decodes to is a TSTInfo, unless a server may send what is none.
LEMMA NoSequence ==
    ASSUME IssuedSigned, NEW c, NEW a \in AnswersTo(c), a.tst = NotASequence, Decodes(a)
    PROVE  "not_a_sequence" \in Quirks
  <1>1. \A b \in issued : b.tst # NotASequence
    BY SignedFields, NoneAssumption DEF IssuedSigned, NoneAssumption
  <1>2. \A b \in issued : \E u \in Urls, t \in Tsts :
            b = [status |-> "granted", tst |-> t, certs |-> CertsOf(u),
                 signers |-> {SignerOf(u, t)}]
    BY SignedFields DEF IssuedSigned
  <1>3. ASSUME NEW b \in issued, a \in Garbled(b) PROVE FALSE
    <2>1. PICK u \in Urls, t \in Tsts :
            b = [status |-> "granted", tst |-> t, certs |-> CertsOf(u),
                 signers |-> {SignerOf(u, t)}]
      BY <1>2
    <2>2. \A d \in Data : [t EXCEPT !.imprint = d] \in Tsts BY DEF Tsts
    <2>3. \A n \in Calls : [t EXCEPT !.nonce = n] \in Tsts BY DEF Tsts
    <2>4. \A t2 \in Tsts : a # [b EXCEPT !.tst = t2]
      BY <2>1, NoneAssumption DEF NoneAssumption
    <2>5. ASSUME NEW d \in Data PROVE a # [b EXCEPT !.tst.imprint = d]
      BY <2>1, <2>2, <2>4
    <2>6. ASSUME NEW n \in Calls PROVE a # [b EXCEPT !.tst.nonce = n]
      BY <2>1, <2>3, <2>4
    <2>7. ASSUME NEW x \in issued PROVE a # [b EXCEPT !.tst = x.tst]
      BY <1>2, <2>4
    <2>8. a # [b EXCEPT !.tst = NotASequence, !.status = "rejection"]
      BY <2>1 DEF Decodes
    <2>9. \A certs : a # [b EXCEPT !.certs = certs] BY <1>1, <2>1
    <2> QED BY <1>3, <2>5, <2>6, <2>7, <2>8, <2>9 DEF Garbled
  <1>4. a \notin Refusals BY NoneAssumption DEF Refusals, Decodes
  <1> QED BY <1>1, <1>3, <1>4 DEF AnswersTo, May

LEMMA OrderedStep ==
    ASSUME TypeOK, IssuedSigned, Ordered, Next
    PROVE  Ordered'
  <1> USE DEF TypeOK, Ordered
  <1>1. ASSUME NEW u, NEW f, Construct(u, f) PROVE Ordered'
    BY <1>1 DEF Construct, callVars
  <1>2. ASSUME NEW c \in Calls, Begin(c) PROVE Ordered'
    BY <1>2 DEF Begin
  <1>3. ASSUME NEW c \in Calls, SendRequest(c) PROVE Ordered'
    <2>1. /\ urls # None /\ UNCHANGED <<urls, at>>
          /\ pc' = [pc EXCEPT ![c] = "read"]
          /\ asked' = asked \cup {<<urls[at[c]], c>>}
      BY <1>3 DEF SendRequest
    <2>2. <<urls[1], c>> \in asked' BY <2>1
    <2> QED BY <2>1, <2>2
  <1>4. ASSUME NEW c \in Calls, ReadChunk(c) PROVE Ordered'
    BY <1>4 DEF ReadChunk
  <1>5. ASSUME NEW c \in Calls, RequestFails(c) PROVE Ordered'
    BY <1>5 DEF RequestFails, NextUrl
  <1>6. ASSUME NEW c \in Calls, Answered(c) PROVE Ordered'
    <2>1. PICK a \in AnswersTo(c) : Judge(c, a) BY <1>6 DEF Answered
    <2>2. (Decodes(a) /\ a.tst = NotASequence) => "not_a_sequence" \in Quirks
      BY NoSequence
    <2>3. pc[c] = "read" /\ UNCHANGED <<urls, asked>> BY <1>6 DEF Answered
    <2>4. \A d \in Calls : d # c => pc'[d] = pc[d] /\ at'[d] = at[d]
      BY <2>1 DEF Judge, NextUrl
    <2>5. \/ pc'[c] = "returned" /\ at'[c] = at[c]
          \/ at[c] = 1 /\ at'[c] = 2 /\ pc'[c] = "send"
          \/ at[c] = 2 /\ at'[c] = 2 /\ pc'[c] = "raised"
          \/ pc'[c] = "escaped" /\ at'[c] = at[c] /\ "not_a_sequence" \in Quirks
      BY <2>1, <2>2 DEF Judge, NextUrl
    <2> QED BY <2>3, <2>4, <2>5
  <1>7. ASSUME NEW u \in Urls, NEW c \in Calls, Issue(u, c) PROVE Ordered'
    BY <1>7 DEF Issue, callVars
  <1> QED BY <1>1, <1>2, <1>3, <1>4, <1>5, <1>6, <1>7 DEF Next

\* The fallback is asked after the primary, TimestampError raised after both; an
\* exception of another kind needs an eContent that is no SEQUENCE from a server
\* that was asked.
THEOREM PrimaryFirst == Spec => []AsksInOrder
  <1>1. Init => Ordered BY DEF Init, Ordered
  <1>2. TypeOK /\ IssuedSigned /\ Ordered /\ [Next]_vars => Ordered'
    <2>1. CASE TypeOK /\ IssuedSigned /\ Ordered /\ Next BY <2>1, OrderedStep
    <2>2. CASE UNCHANGED vars BY <2>2 DEF vars, callVars, Ordered
    <2> QED BY <2>1, <2>2
  <1>3. TypeOK /\ Ordered => AsksInOrder
    <2> SUFFICES ASSUME TypeOK, Ordered, NEW c \in Calls
                 PROVE  /\ (pc[c] = "raised" /\ "pyasn1" \in Libraries) =>
                            \A i \in {1, 2} : <<urls[i], c>> \in asked
                        /\ (urls # None /\ <<urls[2], c>> \in asked) =>
                            <<urls[1], c>> \in asked
                        /\ pc[c] = "escaped" =>
                            /\ "not_a_sequence" \in Quirks
                            /\ <<urls[at[c]], c>> \in asked
      BY DEF AsksInOrder
    <2> QED BY DEF Ordered
  <1>4. IInv => TypeOK /\ IssuedSigned BY DEF IInv
  <1> QED BY <1>1, <1>2, <1>3, <1>4, Invariant, PTL DEF Spec

-----------------------------------------------------------------------------
(* What is accepted.                                                         *)

\* Of the answers that reach their call as they were signed, stamp() accepts
\* exactly those in a form that the code can read.
LEMMA ReadableIsAccepted ==
    ASSUME IssuedSigned, NoncesAssumption, NEW c \in Calls, NEW a, Proper(c, a),
           "cms" \in Libraries
    PROVE  /\ Decodes(a) /\ a.tst # NotASequence
           /\ Accepts(c, a) <=> Readable(a)
  <1>1. PICK u \in Urls, t \in Tsts : a = SignedBy(u, t)
    BY DEF Proper, IssuedSigned
  <1> DEFINE s == SignerOf(u, t)
  <1>2. /\ a.tst = t /\ a.status = "granted" /\ a.certs = CertsOf(u)
        /\ a.signers = {s} /\ t.nonce = c /\ t.imprint = DataOf[c]
    BY <1>1, SignedFields DEF Proper
  <1>3. t # None /\ t # NotASequence BY NoneAssumption DEF NoneAssumption
  <1>4. u # None /\ u # Ca
    BY NoneAssumption, FormsAssumption DEF NoneAssumption, FormsAssumption
  <1>5. VerifySingleSigner(s, t, CertsOf(u)) <=> FormOf[u] \in ReadableForms
    <2>1. /\ s.sid = (IF FormOf[u].sid = "serial" THEN u ELSE None)
          /\ s.algorithms = FormOf[u].algorithms
          /\ s.attrs = AttrsOf(u, t)
          /\ s.signature.key = u
          /\ s.signature = [key |-> u, over |-> IF s.attrs = None
                                                THEN t ELSE s.attrs]
      BY DEF SignerOf
    <2> HIDE DEF s
    <2> DEFINE key == IF s.sid = None THEN CertsOf(u)[1] ELSE s.sid
    <2>2. s.signature = [key |-> key, over |-> IF s.attrs = None
                                               THEN t ELSE s.attrs] <=> key = u
      BY <2>1
    <2>3. (s.attrs # None => s.attrs.messageDigest = t) <=> FormOf[u].attrs # "other"
      BY <2>1, AttrsType, FormType
    <2>4. CASE FormOf[u].certs = "none"
      BY <2>4, CertsType DEF VerifySingleSigner, ReadableForms
    <2>5. CASE FormOf[u].certs # "none"
      <3>1. (s.sid # None => \E i \in 1 .. Len(CertsOf(u)) : CertsOf(u)[i] = s.sid)
        BY <2>1, <2>5, CertsType
      <3>2. key = u <=> FormOf[u].certs = "own" \/ FormOf[u].sid = "serial"
        BY <1>4, <2>1, <2>5, CertsType, FormType
      <3>3. Len(CertsOf(u)) > 0 BY <2>5, CertsType
      <3>4. VerifySingleSigner(s, t, CertsOf(u)) <=>
                /\ s.algorithms = "known"
                /\ s.attrs # None => s.attrs.messageDigest = t
                /\ key = u
        BY <2>2, <3>1, <3>3 DEF VerifySingleSigner
      <3> QED BY <2>1, <2>3, <2>5, <3>2, <3>4, FormType DEF ReadableForms
    <2> QED BY <2>4, <2>5
  <1>6. VerifyCmsSignature(a) <=> FormOf[u] \in ReadableForms
    BY <1>2, <1>5 DEF VerifyCmsSignature
  <1>7. Readable(a) <=> ~t.ordering /\ FormOf[u] \in ReadableForms
    <2>1. s.signature.key = u BY DEF SignerOf
    <2> HIDE DEF s
    <2> QED BY <1>2, <2>1 DEF Readable
  <1>8. ExtractedNonce(t) = c <=> ~t.ordering
    BY <1>2, One \notin Calls DEF NoncesAssumption, ExtractedNonce
  <1>9. Decodes(a) BY <1>2, <1>3 DEF Decodes
  <1>10. Accepts(c, a) <=> ExtractedNonce(t) = c /\ VerifyCmsSignature(a)
    BY <1>2, <1>3, <1>9 DEF Accepts, Verify, TimestampToken, Decodes
  <1> QED BY <1>2, <1>3, <1>6, <1>7, <1>8, <1>9, <1>10

\* Where each proper answer left its call.  An answer is judged once for each
\* authority, so nothing is known yet of the one that is still to come.
GoodTaken ==
    \A c \in Calls, i \in {1, 2}, readable \in BOOLEAN :
        <<c, i, readable>> \in good =>
            /\ readable <=> pc[c] = "returned" /\ at[c] = i
            /\ pc[c] \in {"send", "read"} => i < at[c]
            /\ pc[c] # "idle" /\ i <= at[c]

LEMMA GoodTakenStep ==
    ASSUME IInv, GoodTaken, Next, "cms" \in Libraries
    PROVE  GoodTaken'
  <1> USE DEF IInv, TypeOK
  <1>1. ASSUME UNCHANGED <<good, at>>,
               \A c \in Calls : pc'[c] # pc[c] => pc'[c] # "returned" /\ pc[c] # "returned"
                                /\ pc'[c] # "idle" /\ pc[c] \in {"idle", "send", "read"}
        PROVE  GoodTaken'
    BY <1>1 DEF GoodTaken
  <1>2. ASSUME NEW c \in Calls, pc[c] = "read", NextUrl(c), UNCHANGED good
        PROVE  GoodTaken'
    BY <1>2 DEF GoodTaken, NextUrl
  <1>3. ASSUME NEW c \in Calls, Answered(c) PROVE GoodTaken'
    <2>1. PICK a \in AnswersTo(c) :
             /\ Judge(c, a)
             /\ good' = IF Proper(c, a) THEN good \cup {<<c, at[c], Readable(a)>>}
                                        ELSE good
      BY <1>3 DEF Answered
    <2>2. pc[c] = "read" /\ Readable(a) \in BOOLEAN
      BY <1>3 DEF Answered, Readable
    <2>3. \A d \in Calls : d # c => pc'[d] = pc[d] /\ at'[d] = at[d]
      BY <2>1 DEF Judge, NextUrl
    <2>4. \/ pc'[c] = "returned" /\ at'[c] = at[c]
          \/ at[c] = 1 /\ at'[c] = 2 /\ pc'[c] = "send"
          \/ at[c] = 2 /\ at'[c] = 2 /\ pc'[c] = "raised"
          \/ pc'[c] = "escaped" /\ at'[c] = at[c]
      BY <2>1 DEF Judge, NextUrl
    <2>5. Proper(c, a) => (Readable(a) <=> pc'[c] = "returned")
      <3> SUFFICES ASSUME Proper(c, a)
                   PROVE  Readable(a) <=> pc'[c] = "returned"
        OBVIOUS
      <3>1. /\ Decodes(a) /\ a.tst # NotASequence
            /\ Accepts(c, a) <=> Readable(a)
        BY ReadableIsAccepted, NoncesAssumption
      <3> QED BY <2>1, <3>1 DEF Judge, NextUrl
    <2>6. \A i \in {1, 2}, readable \in BOOLEAN : <<c, i, readable>> \in good =>
             i < at[c] /\ ~readable
      BY <2>2 DEF GoodTaken
    <2>7. ASSUME NEW d \in Calls, d # c, NEW i \in {1, 2}, NEW readable \in BOOLEAN
          PROVE  <<d, i, readable>> \in good' <=> <<d, i, readable>> \in good
      BY <2>1, <2>7
    <2>8. ASSUME NEW i \in {1, 2}, NEW readable \in BOOLEAN,
                 <<c, i, readable>> \in good'
          PROVE  \/ i < at[c] /\ ~readable
                 \/ i = at[c] /\ (readable <=> pc'[c] = "returned")
      BY <2>1, <2>2, <2>5, <2>6, <2>8
    <2>9. at[c] \in {1, 2} OBVIOUS
    <2> QED BY <2>3, <2>4, <2>7, <2>8, <2>9 DEF GoodTaken
  <1>4. ASSUME NEW u \in Passed, NEW f \in Passed, Construct(u, f) PROVE GoodTaken'
    BY <1>1, <1>4 DEF Construct, callVars
  <1>5. ASSUME NEW c \in Calls, Begin(c) PROVE GoodTaken'
    BY <1>5 DEF Begin, GoodTaken
  <1>6. ASSUME NEW c \in Calls, SendRequest(c) PROVE GoodTaken'
    BY <1>1, <1>6 DEF SendRequest
  <1>7. ASSUME NEW c \in Calls, ReadChunk(c) PROVE GoodTaken'
    BY <1>1, <1>7 DEF ReadChunk
  <1>8. ASSUME NEW c \in Calls, RequestFails(c) PROVE GoodTaken'
    BY <1>2, <1>8 DEF RequestFails
  <1>9. ASSUME NEW u \in Urls, NEW c \in Calls, Issue(u, c) PROVE GoodTaken'
    BY <1>1, <1>9 DEF Issue, callVars
  <1> QED BY <1>3, <1>4, <1>5, <1>6, <1>7, <1>8, <1>9 DEF Next

\* A proper answer is taken exactly if the code can read its form, in whatever
\* form each authority signs and whatever other answers the network delivers.
THEOREM TakenIfReadable == Spec => []ReadableAnswerIsTaken
  <1> DEFINE J == "cms" \in Libraries => GoodTaken
  <1>1. Init => J BY DEF Init, GoodTaken
  <1>2. IInv /\ J /\ [Next]_vars => J'
    <2>1. CASE Next BY <2>1, GoodTakenStep
    <2>2. CASE UNCHANGED vars BY <2>2 DEF vars, callVars, GoodTaken
    <2> QED BY <2>1, <2>2
  <1>3. J => ReadableAnswerIsTaken BY DEF GoodTaken, ReadableAnswerIsTaken
  <1> HIDE DEF J
  <1> QED BY <1>1, <1>2, <1>3, Invariant, PTL DEF Spec

AllReadable ==
    /\ \A a \in issued : Readable(a)
    /\ \A g \in good : g[3]

\* What the docstring promises holds where every authority leaves ordering out and
\* signs in a form the code can read: stamp() does not raise on a call that was
\* answered properly.
THEOREM GoodAnswerIsTaken ==
    ASSUME "ordering" \notin Quirks, \A u \in Urls : FormOf[u] \in ReadableForms
    PROVE  Spec => []RaisesOnlyUnanswered
  <1>1. Init => AllReadable BY DEF Init, AllReadable
  <1>2. AllReadable /\ [Next]_vars => AllReadable'
    <2> SUFFICES ASSUME AllReadable, [Next]_vars PROVE AllReadable'
      OBVIOUS
    <2>1. ASSUME UNCHANGED <<issued, good>> PROVE AllReadable'
      BY <2>1 DEF AllReadable, Readable
    <2>2. ASSUME NEW c \in Calls, Answered(c) PROVE AllReadable'
      <3>1. PICK a \in AnswersTo(c) :
               good' = IF Proper(c, a) THEN good \cup {<<c, at[c], Readable(a)>>}
                                        ELSE good
        BY <2>2 DEF Answered
      <3>2. Proper(c, a) => Readable(a) BY DEF Proper, AllReadable
      <3> DEFINE r == Readable(a)
      <3>3. <<c, at[c], r>>[3] = r OBVIOUS
      <3>4. UNCHANGED issued BY <2>2 DEF Answered
      <3> HIDE DEF r
      <3>5. good' = good \/ (r /\ good' = good \cup {<<c, at[c], r>>})
        BY <3>1, <3>2 DEF r
      <3>6. \A g \in good' : g[3] BY <3>3, <3>5 DEF AllReadable
      <3> QED BY <3>4, <3>6 DEF AllReadable, Readable
    <2>3. ASSUME NEW u \in Urls, NEW c \in Calls, Issue(u, c) PROVE AllReadable'
      <3>1. PICK n, d :
              issued' = issued \cup {SignedBy(u, Tst(d, n, FALSE, clock + 1))}
        BY <2>3 DEF Issue, May
      <3> DEFINE b == SignedBy(u, Tst(d, n, FALSE, clock + 1))
      <3>2. ~b.tst.ordering /\ \A s \in b.signers : s.signature.key = u
        BY SignedFields DEF Tst, SignerOf
      <3> HIDE DEF b
      <3>3. Readable(b) BY <3>2 DEF Readable
      <3>4. issued' = issued \cup {b} /\ good' = good
        BY <2>3, <3>1 DEF Issue, b
      <3> QED BY <3>3, <3>4 DEF AllReadable, Readable
    <2>4. ASSUME NEW u, NEW f, Construct(u, f) PROVE AllReadable'
      BY <2>1, <2>4 DEF Construct
    <2>5. ASSUME NEW c \in Calls, Begin(c) \/ SendRequest(c) \/ ReadChunk(c)
                                  \/ RequestFails(c)
          PROVE  AllReadable'
      BY <2>1, <2>5 DEF Begin, SendRequest, ReadChunk, RequestFails
    <2>6. CASE UNCHANGED vars BY <2>1, <2>6 DEF vars
    <2> QED BY <2>2, <2>3, <2>4, <2>5, <2>6 DEF Next
  <1>3. AllReadable /\ ReadableAnswerIsTaken => RaisesOnlyUnanswered
    BY DEF AllReadable, ReadableAnswerIsTaken, RaisesOnlyUnanswered
  <1> QED BY <1>1, <1>2, <1>3, TakenIfReadable, PTL DEF Spec

=============================================================================
