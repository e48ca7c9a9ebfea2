--------------------------- MODULE TimestampClient ---------------------------
(***************************************************************************)
(* RFC3161TimestampAuthority of aether_protocol_c/timestamp_authority.py:  *)
(* stamp() asks the primary time-stamping authority and then the fallback, *)
(* and takes the first answer that echoes its nonce and verifies.          *)
(*                                                                         *)
(* The authorities and the network are external: an authority may answer   *)
(* late, take one request for another or leave the nonce out; an answer    *)
(* may be lost, endless, garbled, or an earlier one served again.          *)
(* Hashes and signatures are ideal: a digest is what it digests, and a     *)
(* signature names its key and what it covers.  The eight random bytes of  *)
(* a nonce are the call that drew them.                                    *)
(***************************************************************************)
EXTENDS Integers, Sequences

CONSTANTS
    Calls,           \* calls of stamp(), on threads that share the client
    Data, DataOf,    \* what may be stamped; what each call stamps
    Urls, PartsOf,   \* endpoints; scheme and host of each, whether it is public
    Passed,          \* what callers pass for a URL: endpoints or None
    DEFAULT_TSA_URL, FALLBACK_TSA_URL,
    AllowInsecureHttp,
    Libraries,       \* which of "pyasn1" and "cms" can be imported
    FormOf,          \* the form in which each authority signs
    Ca,              \* the certificate of their issuer
    None,
    One,             \* the integer that an ASN.1 BOOLEAN TRUE converts to
    NotASequence,    \* eContent that decodes, but to no SEQUENCE
    Quirks,          \* what the environment may do besides answering properly
    MaxBody,         \* MAX_TSA_RESPONSE_BYTES, in chunks
    MaxTokens        \* bound on the tokens the authorities issue

ASSUME DataAssumption == DataOf \in [Calls -> Data]
ASSUME UrlsAssumption ==
    /\ PartsOf \in [Urls -> [scheme : {"http", "https", "other"},
                             host : STRING, public : BOOLEAN]]
    /\ {DEFAULT_TSA_URL, FALLBACK_TSA_URL} \subseteq Urls
    /\ Passed \subseteq Urls \cup {None}
(* How an authority signs: the signer is named by issuer and serial number or  *)
(* by a key identifier; its certificate comes first, behind its issuer's, or   *)
(* not at all; signedAttrs with the messageDigest, with none or several        *)
(* ("other"), or no signedAttrs; a digest, key and padding that the code       *)
(* knows (RSA with PKCS#1 v1.5, ECDSA) or others (RSA-PSS, Ed25519).           *)
Forms == [sid : {"serial", "key_id"}, certs : {"own", "chain", "none"},
          attrs : {"digest", "other", "none"}, algorithms : {"known", "other"}]
ASSUME FormsAssumption == FormOf \in [Urls -> Forms] /\ Ca \notin Urls
ASSUME NoncesAssumption == None \notin Calls /\ One \notin Calls
ASSUME LimitsAssumption == MaxBody \in Nat /\ MaxTokens \in Nat
ASSUME QuirksAssumption ==
    Quirks \subseteq {"no_nonce", "confused", "replayed", "garbled", "refused",
                      "ordering", "not_a_sequence"}

(* Types: what an authority signs, what an answer holds, what stamp() returns. *)
Tsts == [imprint : Data, nonce : Calls \cup {None}, ordering : BOOLEAN, time : Nat]
Attrs == [messageDigest : Tsts \cup {None}]
Signers == [sid : Urls \cup {None}, algorithms : {"known", "other"},
            attrs : Attrs \cup {None},
            signature : [key : Urls, over : Tsts \cup Attrs]]
Answers == [status : {"granted", "rejection"}, tst : Tsts \cup {None, NotASequence},
            certs : Seq(Urls \cup {Ca}), signers : SUBSET Signers]
Tokens == [tsa_url : Urls, answer : Answers, imprint : Data]

\* None and NotASequence are no URL, attributes, TSTInfo, token or client.
ASSUME NoneAssumption ==
    /\ None \notin Urls \cup Attrs \cup Tokens \cup (Urls \X Urls)
    /\ {None, NotASequence} \cap Tsts = {}

VARIABLES
    urls,      \* <<_tsa_url, _fallback_url>>, or None: there is no client
    pc,        \* where each call of stamp() is
    at,        \* the position in urls it has come to
    got,       \* chunks of the answer it has read
    token,     \* the TimestampToken it returned
    asked,     \* requests that reached an authority
    issued,    \* answers the authorities signed
    clock, began, good \* observers: time in tokens issued, when each call
                       \* began, the proper answers the calls have got

callVars == <<pc, at, got, token>>
vars == <<urls, callVars, asked, issued, clock, began, good>>

-----------------------------------------------------------------------------
(* Answers.  A TimeStampResp is a status with a TSTInfo, the certificates    *)
(* sent along, and signerInfos over the TSTInfo.                             *)
Tst(d, n, ordering, time) ==
    [imprint |-> d, nonce |-> n, ordering |-> ordering, time |-> time]

CertsOf(u) ==
    CASE FormOf[u].certs = "own"   -> <<u, Ca>>
      [] FormOf[u].certs = "chain" -> <<Ca, u>>
      [] FormOf[u].certs = "none"  -> <<>>

AttrsOf(u, tst) ==
    IF FormOf[u].attrs = "none" THEN None
    ELSE [messageDigest |-> IF FormOf[u].attrs = "digest" THEN tst ELSE None]

SignedBy(u, tst) ==
    [status  |-> "granted",
     tst     |-> tst,
     certs   |-> CertsOf(u),
     signers |-> {[sid        |-> IF FormOf[u].sid = "serial" THEN u ELSE None,
                   algorithms |-> FormOf[u].algorithms,
                   attrs      |-> AttrsOf(u, tst),
                   signature  |-> [key  |-> u,
                                   over |-> IF AttrsOf(u, tst) = None
                                            THEN tst ELSE AttrsOf(u, tst)]]}]

Refusals ==
    {[status |-> s, tst |-> None, certs |-> <<>>, signers |-> {}] :
        s \in {"granted", "rejection"}}

\* Some bytes of an answer are not those that were sent.
Garbled(a) ==
    {[a EXCEPT !.tst = NotASequence, !.status = "rejection"],
     [a EXCEPT !.certs = <<>>],
     [a EXCEPT !.certs = <<Ca>>]}
    \cup {[a EXCEPT !.certs = <<s.signature.key>>] : s \in a.signers}
    \cup {[a EXCEPT !.tst.imprint = d] : d \in Data}
    \cup {[a EXCEPT !.tst.nonce = c] : c \in Calls}
    \cup {[a EXCEPT !.tst = b.tst] : b \in issued}

May(quirk, answers) == IF quirk \in Quirks THEN answers ELSE {}
AnswersTo(c) ==
    {a \in issued : a.tst.nonce = c}
    \cup May("replayed", issued)
    \cup May("garbled", UNION {Garbled(a) : a \in issued})
    \cup May("refused", Refusals)
    \cup May("not_a_sequence", {[a EXCEPT !.tst = NotASequence] : a \in issued})

-----------------------------------------------------------------------------
(* What the client makes of an answer.                                       *)
\* _decode_tst_info raises TimestampError unless this holds.
Decodes(a) == a.status = "granted" /\ a.tst # None

\* The first INTEGER after the five mandatory fields; BOOLEAN is a kind of
\* INTEGER to pyasn1, and ordering comes before the nonce.
ExtractedNonce(tst) == IF tst.ordering THEN One ELSE tst.nonce

VerifySingleSigner_AnyAttrs(s, econtent, certs) == \* mutant: no messageDigest
    /\ Len(certs) > 0
    /\ s.sid # None => \E i \in 1 .. Len(certs) : certs[i] = s.sid
    /\ s.algorithms = "known"
    /\ s.signature = [key  |-> IF s.sid = None THEN certs[1] ELSE s.sid,
                      over |-> IF s.attrs = None THEN econtent ELSE s.attrs]
VerifySingleSigner_FirstCert(s, econtent, certs) == \* mutant: sid is not read
    /\ Len(certs) > 0
    /\ s.algorithms = "known"
    /\ s.attrs # None => s.attrs.messageDigest = econtent
    /\ s.signature = [key  |-> certs[1],
                      over |-> IF s.attrs = None THEN econtent ELSE s.attrs]
\* A certificate named by issuer and serial number must be among those sent; for
\* a key identifier the first one is taken, whosever it is.
VerifySingleSigner(s, econtent, certs) ==
    /\ Len(certs) > 0
    /\ s.sid # None => \E i \in 1 .. Len(certs) : certs[i] = s.sid
    /\ s.algorithms = "known"
    /\ s.attrs # None => s.attrs.messageDigest = econtent
    /\ s.signature = [key  |-> IF s.sid = None THEN certs[1] ELSE s.sid,
                      over |-> IF s.attrs = None THEN econtent ELSE s.attrs]

VerifyCmsSignature(a) ==
    \E s \in a.signers : VerifySingleSigner(s, a.tst, a.certs)

TimestampToken(url, a, d) == [tsa_url |-> url, answer |-> a, imprint |-> d]

\* verify(); it raises TimestampError where "cms" is missing.
Verify(d, tok) ==
    /\ Decodes(tok.answer)
    /\ tok.answer.tst # NotASequence
    /\ tok.answer.tst.imprint = d
    /\ tok.imprint = d
    /\ VerifyCmsSignature(tok.answer)

Accepts_AnyNonce(c, a) == \* mutant: a nonce that is there is enough
    /\ ExtractedNonce(a.tst) # None
    /\ "cms" \in Libraries
    /\ Verify(DataOf[c], TimestampToken(urls[at[c]], a, DataOf[c]))
Accepts_Unverified(c, a) == \* mutant: verify() is left to the caller
    ExtractedNonce(a.tst) = c
Accepts(c, a) ==
    /\ ExtractedNonce(a.tst) = c
    /\ "cms" \in Libraries
    /\ Verify(DataOf[c], TimestampToken(urls[at[c]], a, DataOf[c]))

-----------------------------------------------------------------------------
\* _validate_tsa_url; a host that does not resolve and is no address passes.
ValidUrl(url) ==
    /\ PartsOf[url].scheme
            \in {"https"} \cup (IF AllowInsecureHttp THEN {"http"} ELSE {})
    /\ PartsOf[url].host # ""
    /\ PartsOf[url].public

Init ==
    /\ urls = None
    /\ pc = [c \in Calls |-> "idle"]
    /\ at = [c \in Calls |-> 1] /\ got = [c \in Calls |-> 0]
    /\ token = [c \in Calls |-> None]
    /\ asked = {} /\ issued = {}
    /\ clock = 0 /\ began = [c \in Calls |-> 0] /\ good = {}

\* __init__ ; with a URL that is not valid it raises and there is no client.
Construct(tsa_url, fallback_url) ==
    /\ urls = None
    /\ LET first == IF tsa_url = None THEN DEFAULT_TSA_URL ELSE tsa_url
           second == IF fallback_url = None THEN FALLBACK_TSA_URL
                                            ELSE fallback_url
       IN  /\ ValidUrl(first) /\ ValidUrl(second)
           /\ urls' = <<first, second>>
    /\ UNCHANGED <<callVars, asked, issued, clock, began, good>>

\* stamp() draws its nonce; without pyasn1 it raises at once.
Begin(c) ==
    /\ urls # None /\ pc[c] = "idle"
    /\ pc' = [pc EXCEPT ![c] = IF "pyasn1" \in Libraries THEN "send" ELSE "raised"]
    /\ began' = [began EXCEPT ![c] = clock]
    /\ UNCHANGED <<urls, at, got, token, asked, issued, clock, good>>

\* urlopen: one request, the same bytes for both authorities.
SendRequest(c) ==
    /\ pc[c] = "send"
    /\ asked' = asked \cup {<<urls[at[c]], c>>}
    /\ pc' = [pc EXCEPT ![c] = "read"]
    /\ UNCHANGED <<urls, at, got, token, issued, clock, began, good>>

NextUrl_Past(c) == \* mutant: one try too many
    IF at[c] <= 2 THEN /\ at' = [at EXCEPT ![c] = @ + 1]
                       /\ pc' = [pc EXCEPT ![c] = "send"]
                  ELSE /\ pc' = [pc EXCEPT ![c] = "raised"]
                       /\ UNCHANGED at
NextUrl_GivesUp(c) == \* mutant: no fallback
    /\ pc' = [pc EXCEPT ![c] = "raised"] /\ at' = [at EXCEPT ![c] = 2]
\* except TimestampError: the next URL, or TimestampError after the last.
NextUrl(c) ==
    IF at[c] = 1 THEN /\ at' = [at EXCEPT ![c] = 2]
                      /\ pc' = [pc EXCEPT ![c] = "send"]
                 ELSE /\ pc' = [pc EXCEPT ![c] = "raised"]
                      /\ UNCHANGED at

ReadChunk_NoLimit(c) == \* mutant: resp.read()
    /\ pc[c] = "read"
    /\ got' = [got EXCEPT ![c] = (@ + 1) % (MaxBody + 1)]
    /\ UNCHANGED <<urls, pc, at, token, asked, issued, clock, began, good>>
\* resp.read(MAX + 1) goes on as long as each chunk arrives within the timeout.
ReadChunk(c) ==
    /\ pc[c] = "read" /\ got[c] <= MaxBody
    /\ got' = [got EXCEPT ![c] = @ + 1]
    /\ UNCHANGED <<urls, pc, at, token, asked, issued, clock, began, good>>

\* A timeout, a TLS or HTTP error, a Content-Length or a body over the limit.
RequestFails(c) ==
    /\ pc[c] = "read"
    /\ NextUrl(c) /\ got' = [got EXCEPT ![c] = 0]
    /\ UNCHANGED <<urls, token, asked, issued, clock, began, good>>

\* The checks, on what this call alone holds: return the token or go on.  Where
\* eContent is no SEQUENCE, it has no nonce if it is an OCTET STRING of at most
\* five bytes; otherwise the attribute or length it does not have raises, past
\* the handler of TimestampError.
Judge(c, a) ==
    \/ /\ Decodes(a) /\ a.tst # NotASequence /\ Accepts(c, a)
       /\ token' = [token EXCEPT ![c] = TimestampToken(urls[at[c]], a, DataOf[c])]
       /\ pc' = [pc EXCEPT ![c] = "returned"]
       /\ UNCHANGED at
    \/ /\ (Decodes(a) /\ a.tst # NotASequence) => ~Accepts(c, a)
       /\ NextUrl(c)
       /\ UNCHANGED token
    \/ /\ Decodes(a) /\ a.tst = NotASequence
       /\ pc' = [pc EXCEPT ![c] = "escaped"]
       /\ UNCHANGED <<at, token>>

\* Observers: an answer as its authority sent it, to this request for this data,
\* and the forms of it that the code can read.
Proper(c, a) == a \in issued /\ a.tst.nonce = c /\ a.tst.imprint = DataOf[c]
ReadableForms ==
    {f \in Forms :
        /\ f.certs = "own" \/ (f.certs = "chain" /\ f.sid = "serial")
        /\ f.attrs # "other"
        /\ f.algorithms = "known"}
Readable(a) ==
    ~a.tst.ordering /\ \A s \in a.signers : FormOf[s.signature.key] \in ReadableForms

\* The body ends within the limit.
Answered(c) ==
    /\ pc[c] = "read" /\ got[c] <= MaxBody
    /\ \E a \in AnswersTo(c) :
        /\ Judge(c, a)
        /\ good' = IF Proper(c, a) THEN good \cup {<<c, at[c], Readable(a)>>}
                                   ELSE good
    /\ got' = [got EXCEPT ![c] = 0]
    /\ UNCHANGED <<urls, asked, issued, clock, began>>

(***************************************************************************)
(* An authority answers a request it has got, while the caller waits or    *)
(* long after.                                                             *)
(***************************************************************************)
Issue(u, c) ==
    /\ <<u, c>> \in asked
    /\ clock < MaxTokens /\ clock' = clock + 1
    /\ \E n \in {c} \cup May("no_nonce", {None}),
          d \in {DataOf[c]} \cup May("confused", Data),
          ordering \in {FALSE} \cup May("ordering", {TRUE}) :
         issued' = issued \cup {SignedBy(u, Tst(d, n, ordering, clock + 1))}
    /\ UNCHANGED <<urls, callVars, asked, began, good>>

Transport(c) == ReadChunk(c) \/ RequestFails(c) \/ Answered(c)

Next ==
    \/ \E u, f \in Passed : Construct(u, f)
    \/ \E c \in Calls :
        \/ Begin(c) \/ SendRequest(c)
        \/ ReadChunk(c) \/ RequestFails(c) \/ Answered(c)
    \/ \E u \in Urls, c \in Calls : Issue(u, c)

Spec == Init /\ [][Next]_vars
FairSpec ==
    Spec /\ \A c \in Calls :
        WF_vars(SendRequest(c)) /\ WF_vars(Transport(c))
-----------------------------------------------------------------------------
(* Properties. *)

TypeOK ==
    /\ urls = None \/ urls \in {u \in Urls : ValidUrl(u)} \X Urls
    /\ pc \in [Calls -> {"idle", "send", "read", "returned", "raised",
                         "escaped"}]
    /\ at \in [Calls -> {1, 2}]
    /\ got \in [Calls -> 0 .. MaxBody + 1]
    /\ \A c \in Calls : pc[c] \notin {"idle", "raised"} => urls # None
    /\ token \in [Calls -> Tokens \cup {None}]
    /\ \A c \in Calls : token[c] # None <=> pc[c] = "returned"
    /\ asked \subseteq Urls \X Calls
    /\ issued \subseteq Answers
    /\ clock \in 0 .. MaxTokens
    /\ began \in [Calls -> 0 .. MaxTokens]
    /\ good \subseteq Calls \X {1, 2} \X BOOLEAN

\* "A captured/replayed prior TimeStampResp cannot be distinguished from a
\* fresh response" without the nonce: with it, the time in a token that stamp()
\* returns is later than the call, whatever is replayed, garbled or confused.
ReturnedTimeIsFresh ==
    \A c \in Calls : token[c] # None => token[c].answer.tst.time > began[c]

\* What stamp() returns was signed, as it stands, by an authority whose
\* certificate is in it, over the data of this call and of no other.
ReturnedWasAttested ==
    \A c \in Calls : token[c] # None =>
        \E a \in issued :
            /\ token[c].answer.tst = a.tst
            /\ a.tst.imprint = DataOf[c]
            /\ \E i \in 1 .. Len(token[c].answer.certs),  s \in a.signers :
                    token[c].answer.certs[i] = s.signature.key

\* stamp() does not "persist a token that verify() itself would later reject",
\* and verify() takes it for no other data.
ReturnedVerifies ==
    \A c \in Calls, d \in Data :
        token[c] # None => (Verify(d, token[c]) <=> d = DataOf[c])

\* A proper answer ends its call with a token exactly when the code can read its
\* form, whatever was tried before it: then it is neither refused nor left for
\* the fallback's, and otherwise it is never taken.  Not read are ordering = TRUE;
\* a signer named by key identifier behind its issuer's certificate; no
\* certificate; no single messageDigest in signedAttrs; other algorithms.
ReadableAnswerIsTaken ==
    {"pyasn1", "cms"} \subseteq Libraries =>
        \A c \in Calls, i \in {1, 2}, readable \in BOOLEAN :
            <<c, i, readable>> \in good =>
                (readable <=> pc[c] = "returned" /\ at[c] = i)

\* "Raises TimestampError if both TSAs are unavailable": if either of them
\* answered this call properly, in whatever form, stamp() does not raise.  The
\* code does not keep this.
RaisesOnlyUnanswered ==
    {"pyasn1", "cms"} \subseteq Libraries =>
        \A c \in Calls, i \in {1, 2}, readable \in BOOLEAN :
            <<c, i, readable>> \in good => pc[c] # "raised"

\* "Tries the primary TSA first; falls back to the secondary": stamp() asks the
\* fallback only after the primary, and raises TimestampError only after it asked
\* both.  Another exception ("escaped") may leave it after the primary alone, but
\* only where a server it asked may send an eContent that is no SEQUENCE.
AsksInOrder ==
    \A c \in Calls :
        /\ (pc[c] = "raised" /\ "pyasn1" \in Libraries) =>
                \A i \in {1, 2} : <<urls[i], c>> \in asked
        /\ (urls # None /\ <<urls[2], c>> \in asked) => <<urls[1], c>> \in asked
        /\ pc[c] = "escaped" =>
                "not_a_sequence" \in Quirks /\ <<urls[at[c]], c>> \in asked

\* stamp() returns or raises, although the timeout restarts with every chunk
\* and a server may send one chunk after the other for ever.
StampEnds ==
    \A c \in Calls : pc[c] = "send" ~> pc[c] \in {"returned", "raised", "escaped"}
=============================================================================
