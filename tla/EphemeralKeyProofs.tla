-------------------------- MODULE EphemeralKeyProofs --------------------------
(***************************************************************************)
(* Theorems about EphemeralKey for any number of threads and calls, any    *)
(* length of the key.                                                      *)
(***************************************************************************)
EXTENDS EphemeralKey, FiniteSetTheorems, TLAPS

(* sign() before the call of destroy().                                      *)
BeforeDestroy == {"check_key", "check_signer", "read_key", "load_count",
                  "store_count", "envelope", "keep_pub"}

(* The zeroing loop starts at the first byte and has cleared the      *)
(* bytes it has passed; a thread behind the loop leaves a zeroed buffer,     *)
(* whichever thread stored the zeros.                                        *)
Zeroing ==
    /\ \A t \in Threads : pc[t] \in BeforeDestroy => call[t].byte = 1
    /\ \A t \in Threads : At(t, "zero") =>
            buf \subseteq call[t].byte .. KeyBytes
    /\ \A t \in Threads : pc[t] \in {"mark_signer", "mark_key"} => buf = {}
    /\ \A t \in Threads : At(t, "mark_key") => signerDestroyed
    /\ signerDestroyed => buf = {}
    /\ keyDestroyed => signerDestroyed

Publishing ==
    /\ \A t \in Threads : pc[t] \in {"zero", "mark_signer", "mark_key"} => pubKept
    /\ keyDestroyed => pubKept
    /\ envelopes # {} => keyDestroyed

(* A call that began after an envelope was out finds the key destroyed at    *)
(* its first check: none is beyond it.                                       *)
Lateness ==
    /\ \A t \in Threads : call[t].late => keyDestroyed
    /\ \A t \in Threads : pc[t] \notin {"idle", "check_key"} => ~call[t].late
    /\ \A e \in envelopes : ~e.late

KInv == TypeOK /\ Zeroing /\ Publishing /\ Lateness

LEMMA NewCallType ==
    ASSUME NEW ok \in BOOLEAN
    PROVE  NewCall(ok) \in Calls
  <1>1. (envelopes # {}) \in BOOLEAN /\ 1 \in 1 .. KeyBytes
    BY KeyBytesAssumption
  <1> QED
    BY <1>1, Zenon DEF NewCall, Calls

LEMMA InitKInv == Init => KInv
  <1> SUFFICES ASSUME Init PROVE KInv
    OBVIOUS
  <1> USE KeyBytesAssumption, CallsAssumption DEF Init
  <1>1. NewCall(TRUE) \in Calls /\ ~NewCall(TRUE).late
    <2>1. 1 \in 1 .. KeyBytes
      OBVIOUS
    <2>2. NewCall(TRUE) \in Calls
      BY <2>1, NewCallType DEF NewCall
    <2> QED
      BY <2>2 DEF NewCall
  <1>2. TypeOK
    <2>1. pc \in [Threads -> Labels]
      BY DEF Labels
    <2>2. call \in [Threads -> Calls]
      BY <1>1, Zenon
    <2>3. calls \in 0 .. MaxCalls /\ signCount \in Nat
      OBVIOUS
    <2>4. buf \subseteq 1 .. KeyBytes
      OBVIOUS
    <2>5. keyDestroyed \in BOOLEAN /\ pubKept \in BOOLEAN
          /\ signerDestroyed \in BOOLEAN
      OBVIOUS
    <2> QED
      BY <2>1, <2>2, <2>3, <2>4, <2>5, Zenon DEF TypeOK
  <1>3. Zeroing /\ Publishing
    BY DEF Zeroing, Publishing, At, BeforeDestroy
  <1>4. Lateness
    <2>1. \A t \in Threads : call[t] = NewCall(TRUE) /\ pc[t] = "idle"
      BY Zenon
    <2> QED
      BY <1>1, <2>1 DEF Lateness
  <1> QED
    BY <1>2, <1>3, <1>4 DEF KInv

(* Writing one field of a call keeps it a call, and its other fields.        *)
LEMMA CallFields ==
    ASSUME NEW c \in Calls
    PROVE  /\ c.byte \in 1 .. KeyBytes
           /\ \A x \in BOOLEAN : /\ [c EXCEPT !.intact = x] \in Calls
                                 /\ [c EXCEPT !.intact = x].late = c.late
                                 /\ [c EXCEPT !.intact = x].byte = c.byte
           /\ \A n \in Nat : /\ [c EXCEPT !.count = n] \in Calls
                             /\ [c EXCEPT !.count = n].late = c.late
                             /\ [c EXCEPT !.count = n].byte = c.byte
           /\ \A b \in 1 .. KeyBytes : /\ [c EXCEPT !.byte = b] \in Calls
                                       /\ [c EXCEPT !.byte = b].late = c.late
                                       /\ [c EXCEPT !.byte = b].byte = b
  BY DEF Calls

(* The statements before the copy of the public key write locals only.       *)
LEMMA LocalSteps ==
    ASSUME TypeOK, NEW t \in Threads,
           ReadKey(t) \/ LoadCount(t) \/ MakeEnvelope(t)
    PROVE  \A u \in Threads : /\ call'[u].late = call[u].late
                              /\ call'[u].byte = call[u].byte
  <1> USE DEF TypeOK, shared, At, Goto, Raise
  <1> SUFFICES ASSUME NEW u \in Threads
               PROVE  call'[u].late = call[u].late /\ call'[u].byte = call[u].byte
    OBVIOUS
  <1>1. call[t] \in Calls /\ signCount \in Nat /\ signCount + 1 \in Nat
        /\ (buf = 1 .. KeyBytes) \in BOOLEAN /\ DOMAIN call = Threads
    <2>1. (buf = 1 .. KeyBytes) \in BOOLEAN
      BY Zenon
    <2> QED
      BY <2>1
  <1>2. CASE u # t
    <2>1. call'[u] = call[u]
      BY <1>1, <1>2, Zenon DEF ReadKey, LoadCount, MakeEnvelope
    <2> QED
      BY <2>1
  <1>3. CASE u = t
    <2>1. \/ call'[t] = call[t]
          \/ \E x \in BOOLEAN : call'[t] = [call[t] EXCEPT !.intact = x]
          \/ \E n \in Nat : call'[t] = [call[t] EXCEPT !.count = n]
      BY <1>1, Zenon DEF ReadKey, LoadCount, MakeEnvelope
    <2>2. CASE call'[t] = call[t]
      BY <2>2, <1>3
    <2>3. CASE \E x \in BOOLEAN : call'[t] = [call[t] EXCEPT !.intact = x]
      <3>1. call'[t].late = call[t].late /\ call'[t].byte = call[t].byte
        <4>1. PICK x \in BOOLEAN : call'[t] = [call[t] EXCEPT !.intact = x]
          BY <2>3
        <4>2. /\ [call[t] EXCEPT !.intact = x].late = call[t].late
              /\ [call[t] EXCEPT !.intact = x].byte = call[t].byte
          BY <4>1, <1>1, CallFields
        <4> QED
          BY <4>1, <4>2
      <3> QED
        BY <3>1, <1>3
    <2>4. CASE \E n \in Nat : call'[t] = [call[t] EXCEPT !.count = n]
      <3>1. call'[t].late = call[t].late /\ call'[t].byte = call[t].byte
        <4>1. PICK n \in Nat : call'[t] = [call[t] EXCEPT !.count = n]
          BY <2>4
        <4>2. /\ [call[t] EXCEPT !.count = n].late = call[t].late
              /\ [call[t] EXCEPT !.count = n].byte = call[t].byte
          BY <4>1, <1>1, CallFields
        <4> QED
          BY <4>1, <4>2
      <3> QED
        BY <3>1, <1>3
    <2> QED
      BY <2>1, <2>2, <2>3, <2>4, Zenon
  <1> QED
    BY <1>2, <1>3

(* Type correctness of a step.                                               *)
LEMMA NextTypeOK == TypeOK /\ [Next]_vars => TypeOK'
  <1> SUFFICES ASSUME TypeOK, [Next]_vars PROVE TypeOK'
    OBVIOUS
  <1> USE KeyBytesAssumption, CallsAssumption
      DEF TypeOK, shared, At, Goto, Raise, Labels
  <1>1. ASSUME NEW t \in Threads, NEW ok \in BOOLEAN, BeginSign(t, ok)
        PROVE  TypeOK'
    <2>1. NewCall(ok) \in Calls
      BY NewCallType
    <2> QED
      BY <1>1, <2>1 DEF BeginSign
  <1>2. ASSUME NEW t \in Threads, CheckKey(t) \/ CheckSigner(t) PROVE TypeOK'
    BY <1>2 DEF CheckKey, CheckSigner
  <1>3. ASSUME NEW t \in Threads, ReadKey(t) PROVE TypeOK'
    <2>1. (buf = 1 .. KeyBytes) \in BOOLEAN
      BY Zenon
    <2>2. call' \in [Threads -> Calls]
      BY <1>3, <2>1, CallFields, Zenon DEF ReadKey
    <2> QED
      BY <1>3, <2>2 DEF ReadKey
  <1>4. ASSUME NEW t \in Threads, LoadCount(t) \/ MakeEnvelope(t)
        PROVE  TypeOK'
    <2>1. signCount \in Nat /\ signCount + 1 \in Nat
      OBVIOUS
    <2>2. call' \in [Threads -> Calls]
      BY <1>4, <2>1, CallFields DEF LoadCount, MakeEnvelope
    <2> QED
      BY <1>4, <2>2 DEF LoadCount, MakeEnvelope
  <1>5. ASSUME NEW t \in Threads, StoreCount(t) PROVE TypeOK'
    BY <1>5 DEF StoreCount, Calls
  <1>7. ASSUME NEW t \in Threads, KeepPub(t) \/ MarkSigner(t) \/ MarkKey(t)
        PROVE  TypeOK'
    BY <1>7 DEF KeepPub, MarkSigner, MarkKey
  <1>8. ASSUME NEW t \in Threads, ZeroByte(t) PROVE TypeOK'
    <2>1. call[t] \in Calls /\ call[t].byte \in 1 .. KeyBytes
      BY CallFields
    <2>2. call[t].byte # KeyBytes => call[t].byte + 1 \in 1 .. KeyBytes
      BY <2>1
    <2>3. call' \in [Threads -> Calls]
      BY <1>8, <2>1, <2>2, CallFields DEF ZeroByte
    <2> QED
      BY <1>8, <2>3 DEF ZeroByte
  <1>9. CASE UNCHANGED vars
    BY <1>9, Zenon DEF vars
  <1> QED
    BY <1>1, <1>2, <1>3, <1>4, <1>5, <1>7, <1>8, <1>9 DEF Next, Step

(* A step outside destroy() does not disturb the zeroing argument.           *)
LEMMA OutsideDestroy ==
    ASSUME TypeOK, Zeroing, NEW t \in Threads,
           buf' = buf, signerDestroyed' = signerDestroyed,
           keyDestroyed' = keyDestroyed,
           \A u \in Threads : u # t \/ At(t, "zero") => pc'[u] = pc[u],
           pc'[t] \notin {"zero", "mark_signer", "mark_key"},
           pc'[t] \in BeforeDestroy => call'[t].byte = 1,
           \A u \in Threads : u # t => call'[u].byte = call[u].byte
    PROVE  Zeroing'
  <1>1. \A u \in Threads : At(u, "zero")' => At(u, "zero") /\ u # t
    BY DEF At
  <1>2. \A u \in Threads : At(u, "zero")' => buf' \subseteq call'[u].byte .. KeyBytes
    BY <1>1, Zenon DEF Zeroing
  <1>3. \A u \in Threads : pc'[u] \in {"mark_signer", "mark_key"} => buf' = {}
    BY Zenon DEF Zeroing
  <1>4. \A u \in Threads : At(u, "mark_key")' => signerDestroyed'
    BY DEF Zeroing, At
  <1>5. (signerDestroyed => buf = {})' /\ (keyDestroyed => signerDestroyed)'
    BY DEF Zeroing
  <1>6. \A u \in Threads : pc'[u] \in BeforeDestroy => call'[u].byte = 1
    BY Zenon DEF Zeroing
  <1> QED
    BY <1>2, <1>3, <1>4, <1>5, <1>6, Zenon DEF Zeroing

(* A step of the zeroing argument: only ZeroByte writes the buffer, and it   *)
(* leaves the loop when the last byte is gone.                               *)
LEMMA NextZeroing == TypeOK /\ Zeroing /\ [Next]_vars => Zeroing'
  <1> SUFFICES ASSUME TypeOK, Zeroing, [Next]_vars PROVE Zeroing'
    OBVIOUS
  <1> USE DEF shared, At, Goto, Raise
  <1>1. ASSUME NEW t \in Threads, NEW ok \in BOOLEAN, BeginSign(t, ok)
        PROVE  Zeroing'
    <2>1. call'[t].byte = 1
      BY <1>1 DEF BeginSign, TypeOK, NewCall
    <2> QED
      BY <1>1, <2>1, OutsideDestroy DEF BeginSign, TypeOK
  <1>2. ASSUME NEW t \in Threads, CheckKey(t) \/ CheckSigner(t)
        PROVE  Zeroing'
    <2>1. call'[t].byte = 1
      BY <1>2 DEF CheckKey, CheckSigner, TypeOK, Zeroing, BeforeDestroy
    <2> QED
      BY <1>2, <2>1, OutsideDestroy DEF CheckKey, CheckSigner, TypeOK
  <1>3. ASSUME NEW t \in Threads, ReadKey(t) \/ LoadCount(t) \/ MakeEnvelope(t)
        PROVE  Zeroing'
    <2>1. /\ pc'[t] \notin {"zero", "mark_signer", "mark_key"}
          /\ \A u \in Threads : u # t => pc'[u] = pc[u]
          /\ buf' = buf /\ signerDestroyed' = signerDestroyed
          /\ keyDestroyed' = keyDestroyed
          /\ ~At(t, "zero") /\ pc[t] \in BeforeDestroy
      BY <1>3 DEF ReadKey, LoadCount, MakeEnvelope, TypeOK, BeforeDestroy
    <2>2. call'[t].byte = 1
      BY <1>3, <2>1, LocalSteps, Zenon DEF Zeroing
    <2> QED
      BY <1>3, <2>1, <2>2, LocalSteps, OutsideDestroy, Zenon
  <1>4. ASSUME NEW t \in Threads, StoreCount(t) PROVE Zeroing'
    <2>1. call'[t].byte = 1
      BY <1>4 DEF StoreCount, TypeOK, Zeroing, BeforeDestroy
    <2> QED
      BY <1>4, <2>1, OutsideDestroy DEF StoreCount, TypeOK
  <1>5. ASSUME NEW t \in Threads, KeepPub(t) PROVE Zeroing'
    <2>1. call' = call /\ call[t].byte = 1
      BY <1>5 DEF KeepPub, Zeroing, BeforeDestroy
    <2>2. CASE signerDestroyed
      BY <1>5, <2>1, <2>2, OutsideDestroy DEF KeepPub, TypeOK
    <2>3. CASE ~signerDestroyed
      <3>1. /\ pc' = [pc EXCEPT ![t] = "zero"] /\ buf' = buf
            /\ signerDestroyed' = signerDestroyed
            /\ keyDestroyed' = keyDestroyed /\ DOMAIN pc = Threads
        BY <1>5, <2>3 DEF KeepPub, TypeOK
      <3>2. buf \subseteq call[t].byte .. KeyBytes
        BY <2>1 DEF TypeOK
      <3> QED
        BY <2>1, <3>1, <3>2, Zenon DEF Zeroing, BeforeDestroy
    <2> QED
      BY <2>2, <2>3
  <1>6. ASSUME NEW t \in Threads, ZeroByte(t) PROVE Zeroing'
    <2>1. call[t].byte \in 1 .. KeyBytes /\ buf \subseteq call[t].byte .. KeyBytes
      BY <1>6, CallFields DEF ZeroByte, TypeOK, Zeroing
    <2>2. CASE call[t].byte = KeyBytes
      <3>1. /\ pc' = [pc EXCEPT ![t] = "mark_signer"] /\ call' = call
            /\ signerDestroyed' = signerDestroyed
            /\ keyDestroyed' = keyDestroyed /\ DOMAIN pc = Threads
        BY <1>6, <2>2 DEF ZeroByte, TypeOK
      <3>2. buf' = {}
        BY <1>6, <2>1, <2>2, KeyBytesAssumption DEF ZeroByte
      <3>3. \A u \in Threads : u # t => pc'[u] = pc[u]
        BY <3>1
      <3>4. pc'[t] = "mark_signer"
        BY <3>1
      <3> QED
        BY <3>1, <3>2, <3>3, <3>4 DEF Zeroing, BeforeDestroy
    <2>3. CASE call[t].byte # KeyBytes
      <3>1. /\ call' = [call EXCEPT ![t].byte = call[t].byte + 1] /\ pc' = pc
            /\ signerDestroyed' = signerDestroyed
            /\ keyDestroyed' = keyDestroyed
            /\ buf' = buf \ {call[t].byte} /\ pc[t] = "zero"
        BY <1>6, <2>3 DEF ZeroByte
      <3>2. call'[t].byte = call[t].byte + 1
        BY <3>1 DEF TypeOK, Calls
      <3>3. \A u \in Threads : u # t => call'[u].byte = call[u].byte
        BY <3>1 DEF TypeOK
      <3>4. buf' \subseteq call'[t].byte .. KeyBytes /\ buf' \subseteq buf
        BY <2>1, <3>1, <3>2, KeyBytesAssumption
      <3> QED
        BY <3>1, <3>3, <3>4 DEF Zeroing, BeforeDestroy
    <2> QED
      BY <2>2, <2>3
  <1>7. ASSUME NEW t \in Threads, MarkSigner(t) \/ MarkKey(t) PROVE Zeroing'
    BY <1>7 DEF MarkSigner, MarkKey, TypeOK, Zeroing, BeforeDestroy
  <1>8. CASE UNCHANGED vars
    <2>1. /\ pc' = pc /\ call' = call /\ buf' = buf
          /\ signerDestroyed' = signerDestroyed /\ keyDestroyed' = keyDestroyed
      BY <1>8 DEF vars
    <2> QED
      BY <2>1 DEF Zeroing
  <1> QED
    BY <1>1, <1>2, <1>3, <1>4, <1>5, <1>6, <1>7, <1>8 DEF Next, Step

LEMMA NextPublishing ==
    TypeOK /\ Publishing /\ [Next]_vars => Publishing'
  <1> SUFFICES ASSUME TypeOK, Publishing, [Next]_vars PROVE Publishing'
    OBVIOUS
  <1> USE DEF TypeOK, Publishing, shared, At, Goto, Raise
  <1>1. ASSUME NEW t \in Threads, NEW ok \in BOOLEAN, BeginSign(t, ok)
        PROVE  Publishing'
    BY <1>1 DEF BeginSign
  <1>2. ASSUME NEW t \in Threads, CheckKey(t) \/ CheckSigner(t) \/ StoreCount(t)
        PROVE  Publishing'
    BY <1>2 DEF CheckKey, CheckSigner, StoreCount
  <1>3. ASSUME NEW t \in Threads, ReadKey(t) \/ LoadCount(t) \/ MakeEnvelope(t)
        PROVE  Publishing'
    BY <1>3 DEF ReadKey, LoadCount, MakeEnvelope
  <1>4. ASSUME NEW t \in Threads, KeepPub(t) PROVE Publishing'
    BY <1>4 DEF KeepPub
  <1>5. ASSUME NEW t \in Threads, ZeroByte(t) PROVE Publishing'
    BY <1>5 DEF ZeroByte
  <1>6. ASSUME NEW t \in Threads, MarkSigner(t) \/ MarkKey(t)
        PROVE  Publishing'
    BY <1>6 DEF MarkSigner, MarkKey
  <1>7. CASE UNCHANGED vars
    BY <1>7 DEF vars
  <1> QED
    BY <1>1, <1>2, <1>3, <1>4, <1>5, <1>6, <1>7 DEF Next, Step

(* A late call begins with the key destroyed, so CheckKey turns it away;     *)
(* every other call that goes on is not late.                                *)
LEMMA NextLateness == KInv /\ [Next]_vars => Lateness'
  <1> SUFFICES ASSUME KInv, [Next]_vars PROVE Lateness'
    OBVIOUS
  <1> USE DEF KInv, TypeOK, Lateness, shared, At, Goto, Raise
  <1>1. ASSUME NEW t \in Threads, NEW ok \in BOOLEAN, BeginSign(t, ok)
        PROVE  Lateness'
    <2>1. NewCall(ok).late => keyDestroyed
      BY DEF NewCall, Publishing
    <2> QED
      BY <1>1, <2>1 DEF BeginSign
  <1>2. ASSUME NEW t \in Threads, CheckKey(t) \/ CheckSigner(t) PROVE Lateness'
    BY <1>2 DEF CheckKey, CheckSigner
  <1>3. ASSUME NEW t \in Threads, ReadKey(t) \/ LoadCount(t) \/ MakeEnvelope(t)
        PROVE  Lateness'
    BY <1>3, LocalSteps DEF ReadKey, LoadCount, MakeEnvelope
  <1>4. ASSUME NEW t \in Threads, StoreCount(t) \/ KeepPub(t) \/ MarkSigner(t)
        PROVE  Lateness'
    BY <1>4 DEF StoreCount, KeepPub, MarkSigner
  <1>5. ASSUME NEW t \in Threads, ZeroByte(t) PROVE Lateness'
    <2>1. \A u \in Threads : call'[u].late = call[u].late
      BY <1>5 DEF ZeroByte, Calls
    <2> QED
      BY <1>5, <2>1 DEF ZeroByte
  <1>6. ASSUME NEW t \in Threads, MarkKey(t) PROVE Lateness'
    BY <1>6 DEF MarkKey, Returned
  <1>7. CASE UNCHANGED vars
    BY <1>7 DEF vars
  <1> QED
    BY <1>1, <1>2, <1>3, <1>4, <1>5, <1>6, <1>7 DEF Next, Step

LEMMA AlwaysKInv == Spec => []KInv
  <1>1. KInv /\ [Next]_vars => KInv'
    BY NextTypeOK, NextZeroing, NextPublishing, NextLateness DEF KInv
  <1> QED
    BY InitKInv, <1>1, PTL DEF Spec

-----------------------------------------------------------------------------
(* Every reachable state is well typed; the index of the zeroing loop never  *)
(* leaves the buffer.                                                        *)
THEOREM KeyTypeCorrect == Spec => []TypeOK
  BY AlwaysKInv, PTL DEF KInv

(* Whatever the number of threads and the length of the key, a key or signer *)
(* that says it is destroyed has no byte of the private key left.            *)
THEOREM DestroyedKeyIsZeroed == Spec => []DestroyedIsZeroed
  <1>1. KInv => DestroyedIsZeroed
    BY DEF KInv, Zeroing, DestroyedIsZeroed
  <1> QED
    BY AlwaysKInv, <1>1, PTL

(* Once any call of sign() has returned an envelope, the key is destroyed,   *)
(* the buffer is zeroed and the public key is kept.                          *)
THEOREM EnvelopeIsLast == Spec => []EnvelopeMeansDestroyed
  <1>1. KInv => EnvelopeMeansDestroyed
    BY DEF KInv, Zeroing, Publishing, EnvelopeMeansDestroyed
  <1> QED
    BY AlwaysKInv, <1>1, PTL

(* No call that begins after an envelope was returned returns another; this  *)
(* is the most that "signs exactly once" can mean for a key threads share.   *)
THEOREM LateCallsAreRefused == Spec => []NothingIsSignedTwice
  <1>1. KInv => NothingIsSignedTwice
    BY DEF KInv, Lateness, NothingIsSignedTwice
  <1> QED
    BY AlwaysKInv, <1>1, PTL

(* Destroying says that a call is past the copy of the public key, on its    *)
(* way to return its envelope.                                               *)
Destroying(t) == pc[t] \in {"zero", "mark_signer", "mark_key"}

(* Somebody signed with the whole key and has returned, or certainly will.   *)
Whole == \/ \E e \in envelopes : e.intact
         \/ \E t \in Threads : Destroying(t) /\ call[t].intact

(* The first byte is cleared by a call that read the key before, so whoever  *)
(* reads it torn comes after a call that read it whole.                      *)
Wholeness ==
    /\ buf # 1 .. KeyBytes => Whole
    /\ envelopes # {} => Whole
    /\ \A t \in Threads : Destroying(t) => Whole
    /\ \A t \in Threads :
         pc[t] \in {"load_count", "store_count", "envelope", "keep_pub"} =>
            call[t].intact \/ Whole

(* Counting and zeroing leave a call's memory of the key alone.              *)
LEMMA IntactKept ==
    ASSUME TypeOK, NEW t \in Threads,
           LoadCount(t) \/ StoreCount(t) \/ MakeEnvelope(t) \/ ZeroByte(t)
    PROVE  \A u \in Threads : call'[u].intact = call[u].intact
  <1> USE DEF TypeOK, shared, At, Goto, Raise
  <1>1. CASE LoadCount(t)
    BY <1>1 DEF LoadCount, Calls
  <1>2. CASE StoreCount(t)
    BY <1>2 DEF StoreCount
  <1>3. CASE MakeEnvelope(t)
    BY <1>3 DEF MakeEnvelope, Calls
  <1>4. CASE ZeroByte(t)
    BY <1>4 DEF ZeroByte, Calls
  <1> QED
    BY <1>1, <1>2, <1>3, <1>4

LEMMA NextWholeness == TypeOK /\ Wholeness /\ [Next]_vars => Wholeness'
  <1> SUFFICES ASSUME TypeOK, Wholeness, [Next]_vars PROVE Wholeness'
    OBVIOUS
  <1> USE DEF TypeOK, Wholeness, Whole, Destroying, shared, At, Goto, Raise
  <1>1. ASSUME NEW t \in Threads, NEW ok \in BOOLEAN, BeginSign(t, ok)
        PROVE  Wholeness'
    BY <1>1 DEF BeginSign
  <1>2. ASSUME NEW t \in Threads, CheckKey(t) \/ CheckSigner(t)
        PROVE  Wholeness'
    BY <1>2 DEF CheckKey, CheckSigner
  <1>3. ASSUME NEW t \in Threads, ReadKey(t) PROVE Wholeness'
    <2>1. Whole => Whole'
      BY <1>3 DEF ReadKey
    <2>2. buf = 1 .. KeyBytes => call'[t].intact
      BY <1>3, Zenon DEF ReadKey, Calls
    <2>3. \A u \in Threads : u # t => call'[u] = call[u] /\ pc'[u] = pc[u]
      BY <1>3 DEF ReadKey
    <2> QED
      BY <1>3, <2>1, <2>2, <2>3 DEF ReadKey
  <1>4. ASSUME NEW t \in Threads,
               LoadCount(t) \/ StoreCount(t) \/ MakeEnvelope(t)
        PROVE  Wholeness'
    <2>1. \A u \in Threads : call'[u].intact = call[u].intact
      BY <1>4, IntactKept
    <2>2. /\ \A u \in Threads : Destroying(u) => Destroying(u)'
          /\ \A u \in Threads : u # t => pc'[u] = pc[u]
          /\ pc[t] \in {"load_count", "store_count", "envelope"}
          /\ pc'[t] \in {"idle", "store_count", "envelope", "keep_pub"}
          /\ envelopes' = envelopes /\ buf' = buf
      BY <1>4 DEF LoadCount, StoreCount, MakeEnvelope
    <2> QED
      BY <2>1, <2>2
  <1>5. ASSUME NEW t \in Threads, KeepPub(t) PROVE Wholeness'
    BY <1>5 DEF KeepPub
  <1>6. ASSUME NEW t \in Threads, ZeroByte(t) PROVE Wholeness'
    <2>1. \A u \in Threads : call'[u].intact = call[u].intact
      BY <1>6, IntactKept
    <2>2. /\ \A u \in Threads : Destroying(u)' <=> Destroying(u)
          /\ \A u \in Threads : u # t => pc'[u] = pc[u]
          /\ Destroying(t) /\ pc'[t] \in {"zero", "mark_signer"}
          /\ envelopes' = envelopes
      BY <1>6 DEF ZeroByte
    <2> QED
      BY <2>1, <2>2
  <1>7. ASSUME NEW t \in Threads, MarkSigner(t) PROVE Wholeness'
    BY <1>7 DEF MarkSigner
  <1>8. ASSUME NEW t \in Threads, MarkKey(t) PROVE Wholeness'
    <2>1. Whole'
      <3>1. Returned(t) \in envelopes' /\ envelopes \subseteq envelopes'
        BY <1>8 DEF MarkKey
      <3>2. call[t].intact => Returned(t).intact
        BY DEF Returned
      <3>3. \A u \in Threads : u # t /\ Destroying(u) => Destroying(u)'
        BY <1>8 DEF MarkKey
      <3>4. Whole /\ call' = call
        BY <1>8 DEF MarkKey
      <3> QED
        BY <3>1, <3>2, <3>3, <3>4
    <2> QED
      BY <2>1
  <1>9. CASE UNCHANGED vars
    BY <1>9 DEF vars
  <1> QED
    BY <1>1, <1>2, <1>3, <1>4, <1>5, <1>6, <1>7, <1>8, <1>9 DEF Next, Step

(* Whatever failed and whoever raced, when no call is under way and an       *)
(* envelope came back, one of those that did was signed with the whole key.  *)
THEOREM WholeKeySigned == Spec => []SomeEnvelopeIsWhole
  <1> DEFINE WInv == TypeOK /\ Wholeness
  <1>1. Init => WInv
    BY InitKInv DEF KInv, Init, Wholeness, Destroying, Whole
  <1>2. WInv /\ [Next]_vars => WInv'
    BY NextTypeOK, NextWholeness
  <1>3. WInv => SomeEnvelopeIsWhole
    BY DEF Wholeness, Whole, Destroying, SomeEnvelopeIsWhole, At
  <1> QED
    BY <1>1, <1>2, <1>3, PTL DEF Spec

(* With a single thread the first check stands until the call ends.          *)
Alone(t) ==
    /\ pc[t] \notin {"idle", "check_key"} => envelopes = {}
    /\ envelopes = {} \/ \E e \in envelopes : envelopes = {e}

(* "The private key signs exactly once" is true of a key that one thread     *)
(* uses, however often it retries and whatever raises in between.            *)
THEOREM AloneSignsOnce ==
    ASSUME NEW t0, Threads = {t0}
    PROVE  Spec => []OneEnvelope
  <1> DEFINE AInv == KInv /\ Alone(t0)
  <1>1. Init => AInv
    BY InitKInv DEF Init, Alone
  <1>2. AInv /\ [Next]_vars => AInv'
    <2> SUFFICES ASSUME KInv, Alone(t0), [Next]_vars PROVE Alone(t0)'
      BY NextTypeOK, NextZeroing, NextPublishing, NextLateness DEF KInv
    <2> USE DEF Alone, At, Goto, Raise, shared
    <2>1. pc \in [Threads -> Labels] /\ (envelopes # {} => keyDestroyed)
      BY DEF KInv, TypeOK, Publishing
    <2>2. ASSUME NEW ok \in BOOLEAN, BeginSign(t0, ok) PROVE Alone(t0)'
      BY <2>1, <2>2 DEF BeginSign
    <2>3. ASSUME CheckKey(t0) \/ CheckSigner(t0) PROVE Alone(t0)'
      BY <2>1, <2>3 DEF CheckKey, CheckSigner
    <2>4. ASSUME ReadKey(t0) \/ LoadCount(t0) \/ StoreCount(t0)
                 \/ MakeEnvelope(t0)
          PROVE  Alone(t0)'
      BY <2>1, <2>4 DEF ReadKey, LoadCount, StoreCount, MakeEnvelope
    <2>5. ASSUME KeepPub(t0) \/ ZeroByte(t0) \/ MarkSigner(t0)
          PROVE  Alone(t0)'
      BY <2>1, <2>5 DEF KeepPub, ZeroByte, MarkSigner
    <2>6. ASSUME MarkKey(t0) PROVE Alone(t0)'
      <3>1. envelopes' = {Returned(t0)} /\ pc'[t0] = "idle"
        BY <2>1, <2>6 DEF MarkKey
      <3> QED
        BY <3>1
    <2>7. CASE UNCHANGED vars
      BY <2>7 DEF vars
    <2> QED
      BY <2>2, <2>3, <2>4, <2>5, <2>6, <2>7 DEF Next, Step
  <1>3. AInv => OneEnvelope
    <2> SUFFICES ASSUME Alone(t0) PROVE OneEnvelope
      OBVIOUS
    <2>1. CASE envelopes = {}
      BY <2>1, FS_EmptySet DEF OneEnvelope
    <2>2. CASE \E e \in envelopes : envelopes = {e}
      BY <2>2, FS_Singleton DEF OneEnvelope
    <2> QED
      BY <2>1, <2>2 DEF Alone
  <1> QED
    BY <1>1, <1>2, <1>3, PTL DEF Spec
=============================================================================
