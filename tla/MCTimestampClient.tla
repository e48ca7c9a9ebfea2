------------------------- MODULE MCTimestampClient --------------------------
(* Two calls that stamp the same data (only the nonce tells an answer to one *)
(* from an answer to the other), with three good endpoints and two that the  *)
(* constructor refuses.  The third good one signs in a form that the code    *)
(* cannot read: its signer is named by key identifier behind the issuer's    *)
(* certificate.                                                              *)
EXTENDS TimestampClient

CONSTANTS c1, c2, d1, d2, Digicert, Sectigo, FreeTsa, Plain, Loopback

MCDataOf == [c \in Calls |-> d1]
MCPartsOf ==
    [u \in Urls |-> [scheme |-> IF u = Plain THEN "http" ELSE "https",
                     host   |-> "tsa",
                     public |-> u # Loopback]]

Form(sid, certs, attrs) ==
    [sid |-> sid, certs |-> certs, attrs |-> attrs, algorithms |-> "known"]
MCFormOf ==
    [u \in Urls |-> CASE u = Sectigo -> Form("key_id", "own", "none")
                      [] u = FreeTsa -> Form("key_id", "chain", "digest")
                      [] OTHER       -> Form("serial", "chain", "digest")]
=============================================================================
