---------------------------- MODULE EphemeralKey ----------------------------
(***************************************************************************)
(* One QuantumEphemeralKey (crypto.py) and the EphemeralSigner inside it   *)
(* (ephemeral_signer.py): a private key that signs once and is zeroed.     *)
(* Nothing in the two classes locks, so threads that share a key           *)
(* interleave between any two of their statements; a byte store and        *)
(* int.from_bytes are each one step.                                       *)
(***************************************************************************)
EXTENDS Integers, FiniteSets

CONSTANTS
    Threads,    \* threads that hold the key object
    KeyBytes,   \* length of the private key's buffer (32 in the code)
    MaxCalls    \* bound on the calls of sign()

ASSUME KeyBytesAssumption == KeyBytes \in Nat \ {0}
ASSUME CallsAssumption == MaxCalls \in Nat

VARIABLES
    keyDestroyed,     \* QuantumEphemeralKey._destroyed
    pubKept,          \* QuantumEphemeralKey._pubkey_hex is set
    signerDestroyed,  \* EphemeralSigner._destroyed
    signCount,        \* EphemeralSigner._sign_count
    buf,              \* the bytes of _privkey_buf that are not zeroed yet
    pc, call,         \* each thread's place in sign(), and its call
    envelopes,        \* the envelopes that sign() returned
    calls             \* calls made so far

shared == <<keyDestroyed, pubKept, signerDestroyed, signCount, buf>>
vars == <<shared, pc, call, envelopes, calls>>

Labels == {"idle", "check_key", "check_signer", "read_key", "load_count",
           "store_count", "envelope", "keep_pub", "zero", "mark_signer",
           "mark_key"}

\* A call of sign(): whether its message serialises, whether an envelope had
\* been returned before it, whether the key it read was whole, and the locals of
\* its frames.
Calls == [serialises : BOOLEAN, late : BOOLEAN, intact : BOOLEAN,
          count : Nat, byte : 1 .. KeyBytes]
NewCall(ok) == [serialises |-> ok, late |-> envelopes # {},
                intact |-> TRUE, count |-> 0, byte |-> 1]

Init ==
    /\ keyDestroyed = FALSE /\ pubKept = FALSE /\ signerDestroyed = FALSE
    /\ signCount = 0
    /\ buf = 1 .. KeyBytes
    /\ envelopes = {} /\ calls = 0
    /\ pc = [t \in Threads |-> "idle"]
    /\ call = [t \in Threads |-> NewCall(TRUE)]

At(t, label) == pc[t] = label
Goto(t, label) == pc' = [pc EXCEPT ![t] = label]
\* An exception out of sign(): the frames are gone, nothing is undone.
Raise(t) == Goto(t, "idle")

-----------------------------------------------------------------------------
BeginSign(t, ok) ==
    /\ At(t, "idle") /\ calls < MaxCalls
    /\ calls' = calls + 1
    /\ call' = [call EXCEPT ![t] = NewCall(ok)]
    /\ Goto(t, "check_key")
    /\ UNCHANGED <<shared, envelopes>>

\* KeyDestroyedError when the key is destroyed.
CheckKey(t) ==
    /\ At(t, "check_key")
    /\ IF keyDestroyed THEN Raise(t) ELSE Goto(t, "check_signer")
    /\ UNCHANGED <<shared, call, envelopes, calls>>

CheckSigner_ZeroesOnError(t) == \* mutant: a failed call wipes the buffer only
    /\ At(t, "check_signer")
    /\ IF signerDestroyed \/ ~call[t].serialises
       THEN Raise(t) /\ buf' = {} ELSE Goto(t, "read_key") /\ UNCHANGED buf
    /\ UNCHANGED <<keyDestroyed, pubKept, signerDestroyed, signCount, call,
                   envelopes, calls>>
\* sign_manifest: RuntimeError when the signer is destroyed; json.dumps raises
\* TypeError on a message that does not serialise.
CheckSigner(t) ==
    /\ At(t, "check_signer")
    /\ IF signerDestroyed \/ ~call[t].serialises
       THEN Raise(t) ELSE Goto(t, "read_key")
    /\ UNCHANGED <<shared, call, envelopes, calls>>

\* _ecdsa_sign(self._privkey, ...): what the buffer holds now is what signs.
\* It raises ValueError on r = 0 or s = 0.
ReadKey(t) ==
    /\ At(t, "read_key")
    /\ call' = [call EXCEPT ![t].intact = (buf = 1 .. KeyBytes)]
    /\ Goto(t, "load_count") \/ Raise(t)
    /\ UNCHANGED <<shared, envelopes, calls>>

\* self._sign_count += 1 is a load and a store.
LoadCount(t) ==
    /\ At(t, "load_count")
    /\ call' = [call EXCEPT ![t].count = signCount + 1]
    /\ Goto(t, "store_count")
    /\ UNCHANGED <<shared, envelopes, calls>>

StoreCount(t) ==
    /\ At(t, "store_count")
    /\ signCount' = call[t].count
    /\ Goto(t, "envelope")
    /\ UNCHANGED <<keyDestroyed, pubKept, signerDestroyed, buf, call,
                   envelopes, calls>>

\* The envelope; its public_key_hex raises once the signer is destroyed.
MakeEnvelope(t) ==
    /\ At(t, "envelope")
    /\ IF signerDestroyed
       THEN Raise(t) /\ UNCHANGED call
       ELSE /\ call' = [call EXCEPT ![t].count = signCount]
            /\ Goto(t, "keep_pub")
    /\ UNCHANGED <<shared, envelopes, calls>>

Returned(t) == [thread |-> t, late |-> call[t].late, intact |-> call[t].intact,
                count |-> call[t].count]

KeepPub_NeverDestroys(t) == \* mutant: sign() returns without destroying
    /\ At(t, "keep_pub")
    /\ pubKept' = TRUE
    /\ envelopes' = envelopes \cup {Returned(t)}
    /\ Goto(t, "idle")
    /\ UNCHANGED <<keyDestroyed, signerDestroyed, signCount, buf, call,
                   calls>>
KeepPub_AfterDestroy(t) == \* mutant: destroy() comes before the copy
    /\ At(t, "keep_pub")
    /\ Goto(t, "zero")
    /\ UNCHANGED <<shared, call, envelopes, calls>>
\* self._pubkey_hex = self._signer.public_key_hex
KeepPub(t) ==
    /\ At(t, "keep_pub")
    /\ IF signerDestroyed
       THEN Raise(t) /\ UNCHANGED pubKept
       ELSE Goto(t, "zero") /\ pubKept' = TRUE
    /\ UNCHANGED <<keyDestroyed, signerDestroyed, signCount, buf, call,
                   envelopes, calls>>

ZeroByte_LeavesLast(t) == \* mutant: range(len(buf) - 1)
    /\ At(t, "zero")
    /\ IF call[t].byte = KeyBytes
       THEN Goto(t, "mark_signer") /\ UNCHANGED <<buf, call>>
       ELSE /\ buf' = buf \ {call[t].byte}
            /\ call' = [call EXCEPT ![t].byte = @ + 1]
            /\ UNCHANGED pc
    /\ UNCHANGED <<keyDestroyed, pubKept, signerDestroyed, signCount,
                   envelopes, calls>>
ZeroByte_RunsOn(t) == \* mutant: range(len(buf) + 1)
    /\ At(t, "zero")
    /\ buf' = buf \ {call[t].byte}
    /\ IF call[t].byte > KeyBytes
       THEN Goto(t, "mark_signer") /\ UNCHANGED call
       ELSE call' = [call EXCEPT ![t].byte = @ + 1] /\ UNCHANGED pc
    /\ UNCHANGED <<keyDestroyed, pubKept, signerDestroyed, signCount,
                   envelopes, calls>>
\* destroy(): _zero_bytearray stores byte after byte
ZeroByte(t) ==
    /\ At(t, "zero")
    /\ buf' = buf \ {call[t].byte}
    /\ IF call[t].byte = KeyBytes
       THEN Goto(t, "mark_signer") /\ UNCHANGED call
       ELSE call' = [call EXCEPT ![t].byte = @ + 1] /\ UNCHANGED pc
    /\ UNCHANGED <<keyDestroyed, pubKept, signerDestroyed, signCount,
                   envelopes, calls>>

MarkSigner(t) ==
    /\ At(t, "mark_signer")
    /\ signerDestroyed' = TRUE
    /\ Goto(t, "mark_key")
    /\ UNCHANGED <<keyDestroyed, pubKept, signCount, buf, call, envelopes,
                   calls>>

\* self._destroyed = True; return signature
MarkKey(t) ==
    /\ At(t, "mark_key")
    /\ keyDestroyed' = TRUE
    /\ envelopes' = envelopes \cup {Returned(t)}
    /\ Goto(t, "idle")
    /\ UNCHANGED <<pubKept, signerDestroyed, signCount, buf, call, calls>>

-----------------------------------------------------------------------------
Step(t) ==
    \/ CheckKey(t) \/ CheckSigner(t) \/ ReadKey(t) \/ LoadCount(t)
    \/ StoreCount(t) \/ MakeEnvelope(t) \/ KeepPub(t) \/ ZeroByte(t)
    \/ MarkSigner(t) \/ MarkKey(t)

Next == \E t \in Threads : Step(t) \/ \E ok \in BOOLEAN : BeginSign(t, ok)

Spec == Init /\ [][Next]_vars
FairSpec == Spec /\ \A t \in Threads : WF_vars(Step(t))

-----------------------------------------------------------------------------
TypeOK ==
    /\ keyDestroyed \in BOOLEAN /\ pubKept \in BOOLEAN
    /\ signerDestroyed \in BOOLEAN
    /\ signCount \in Nat
    /\ buf \subseteq 1 .. KeyBytes
    /\ pc \in [Threads -> Labels]
    /\ call \in [Threads -> Calls]
    /\ calls \in 0 .. MaxCalls

\* A key that says it is destroyed has no byte of the private key left,
\* although two threads may run destroy() over each other.
DestroyedIsZeroed == keyDestroyed \/ signerDestroyed => buf = {}

\* "Lifecycle: sig = key.sign(...); assert key.is_destroyed": once any call has
\* returned an envelope the key is gone, and the public key is still there.
EnvelopeMeansDestroyed ==
    envelopes # {} => keyDestroyed /\ pubKept /\ buf = {}

\* "The key material is zeroed and cannot be used again": a call that begins
\* after an envelope was returned never returns one.
NothingIsSignedTwice == \A e \in envelopes : ~e.late

\* "The private key signs exactly once": however often callers retry a message
\* that failed to serialise, at most one envelope comes back.
OneEnvelope == Cardinality(envelopes) <= 1

\* Calls that failed and calls that raced may have touched the buffer, but when
\* all have ended one of the envelopes returned was signed with the whole key.
SomeEnvelopeIsWhole ==
    (\A t \in Threads : At(t, "idle")) /\ envelopes # {} =>
        \E e \in envelopes : e.intact

\* A call that has made its envelope zeroes the key, whoever races it.
SignedKeyIsZeroed == \A t \in Threads : At(t, "keep_pub") ~> buf = {}
=============================================================================
