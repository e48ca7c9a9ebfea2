# Verification of PROTOCOL-C

TLA+ models of `src/aether_protocol_c`, the TLC runs that check them on small
instances, and TLAPS proofs of what matters most for instances of any size.

PROTOCOL-C is a Python library that records a trade as three signed records
(commitment, execution, settlement), each signed by a key that signs once and
is destroyed, appended to an audit log, and later judged by a verifier.

    caller ──create_and_sign──▶ ephemeral key ──▶ signed record
       │                         (crypto, ephemeral_signer)
       ├──append_*──▶ AuditLog: JSONL file + SQLite index      (audit)
       │                   │ get_trade_flow
       └──────────────▶ AuditVerifier ◀── AccountKeyRegistry   (verify, identity)

    commit(), batch_commit(), aether logs ──▶ a key and an AuditLog per item
                                              (__init__, cli)
    stamp(), verify() ──▶ two time-stamping authorities (timestamp_authority)

Contents: [inventory](#inventory), [modules](#modules), [runs](#runs),
[findings](#findings), [bounds](#bounds), [fairness](#fairness),
[proofs](#proofs), [what is not modelled](#not-modelled), [plan](#plan).

<a name="inventory"></a>
## Inventory

| part | state | operations | what is hard |
|---|---|---|---|
| **Audit log** `audit.py` | the JSONL file and its size, archives, the SQLite rows and open transaction, `_conn`, `_line_count`, `_append_lock` | `append_*`, rotation nested in an append, `get_by_id`, `get_trade_flow`, `query`, `close`, the constructor's rebuild | threads on one object; readers without the lock; a crash or an error between any two of: write, insert, commit, rename, rename |
| **Ephemeral key** `crypto.py`, `ephemeral_signer.py` | two `_destroyed` flags, the key's byte buffer, the kept public key, `_sign_count` | `sign`, `sign_manifest`, `destroy`, `public_key_hex` | nothing locks; check-then-act; zeroing byte by byte while another thread signs; a failed signature leaves the key alive |
| **Curve and ECDSA** `ephemeral_signer.py` | none (pure) | key derivation, RFC 6979 loop, ladder, sign, verify | exceptional cases of the addition, `x >= N`, high `s`, a hash above `N` |
| **Trade records** `commitment.py`, `execution.py`, `settlement.py` | none (immutable) | `create_and_sign`, the verifier classes | copies of one record's fields in another; NaN; three windows and three seeds |
| **Trade flow** `verify.py`, `identity.py`, `seed.py` | what the log hands out per order and phase, the registry, an account's nonce | `verify_trade_flow`, `detect_tampering`, dispute proofs, `register`, `revoke` | overlapping orders of one account; retries after a lost record; two hand-kept lists of checks |
| **Account snapshots** `state.py` | none | hashing, `from_dict` | only the nonce is ever compared; a missing field stops a batch |
| **Timestamp authority** `timestamp_authority.py` | the two URLs; per call a nonce and the URL it has come to | `stamp`, `verify` | late, replayed, garbled, endless and confused answers; one nonce for two servers; two lists of checks; no caller inside the package |
| **Convenience functions** `__init__.py` | per call the item it has come to and the results it holds | `commit`, `batch_commit` | a batch that fails in the middle; several processes on one log, each opening it anew for every item; a process that dies; a power failure |
| **Command line** `cli.py` | none of its own | `commit`, `logs --verify`, ... | `logs` on a file with torn lines |

What makes each part correct:

* *Audit log*: an acknowledged record is never lost, never rewritten, and is
  found through the index; a row never leads into another id's record; the
  index the threads build is the one a scan would build; readers get what they
  asked for; every append returns.
* *Ephemeral key*: whatever threads do, a destroyed key is zeroed and signs no
  more; one caller gets one signature.
* *Curve*: the ladder computes multiples, the addition is a group, what is
  signed verifies.
* *Timestamp authority*: a returned token is dated after the call, was signed as
  it stands for this call's data, and passes `verify()` ever after; a proper
  answer in a form the code can read is taken, and every call ends.
* *Convenience functions and command line*: a failed batch has logged a prefix of
  its items; a result that was returned has its row and its line, or the loss
  leaves a trace.
* *Trade flow*: a certificate means that one fill, authorised by this very
  commitment, was acknowledged by a broker, under three different seeds; the
  two verdicts agree.

<a name="modules"></a>
## Modules

| module | models | correspondence |
|---|---|---|
| `AuditLog` | `audit.py`, one object, many threads | A thread steps through `_append` (`Enter`, `Write`, `Insert`, `Commit`) and the rotation inside it (`RotateClose`, `RotateJsonl`, `RotateDb`, `RotateFresh`, then the marker's own append with `nested` set). `jsonl` maps byte offsets to records, so a wrong offset is a wrong offset. Faults (`WriteFails`, `InsertFails`, `CommitFails`, `RenameFails`, `Close`, `Crash`, `DeleteDb`) are bounded by `MaxFaults`; `Open` is the constructor with its rebuild. A read is `Lookup` (the SELECT) and, later, `Seek`. |
| `MCAuditLog` | | the mapping below and the symmetry of threads |
| `Ledger` | what the log promises | the stored records, the last acknowledged record of each id on this page (`last`), the ones written after it without their append returning (`unacked`), and what a lookup finds. An append returns (`Append`) or strands its record (`Strand`), a rotation turns the page (`TurnPage`), and the index may come to show any of the records it may show (`Reindex`) |
| `AuditLogRefinement` | | the mapping from `AuditLog` to `Ledger` |
| `AuditLogProofs`, `AuditIndexProofs` | | theorems about `AuditLog`: its files, then its index |
| `AuditRefinementProofs` | | the proof that `AuditLog` implements `Ledger` |
| `EphemeralKey` | `QuantumEphemeralKey` and `EphemeralSigner` | One action per statement of `sign()` that reads or writes shared state, from `CheckKey` to `MarkKey`; `ZeroByte` is one iteration of `_zero_bytearray`. `call` holds the locals of a call. |
| `EphemeralKeyProofs` | | theorems about `EphemeralKey` |
| `Secp256k1`, `MCSecp256k1` | the arithmetic in `ephemeral_signer.py` | The functions are operators of the same names in TLA+ spelling; the state machine searches for `k` (`Candidate`), runs the ladder one bit at a time (`Ladder`) and signs (`Finish`). |
| `Secp256k1Proofs` | | theorems about `Secp256k1` |
| `TradeRecords` | the three records, their verifier classes, the bodies of `verify_trade_flow` and `detect_tampering` | Pure operators. A hash is the value it hashes, a public key is the seed it comes from, an envelope verifies over its own data only (that is what `Secp256k1` is about). A temporal window is `safe`, `unsafe` or `absent`. |
| `TradeFlow`, `MCTradeFlow` | orders on their way through the protocol | `Commit`, `Execute`, `Reattest`, `Settle` are the three `create_and_sign` with what a caller passes in; The log is an instance of `Ledger`: `Append` is an append that returns, `Strand` one that raises after its write, `Rotate` the rotation an append begins with, after which `get_trade_flow` (`Flow`) finds nothing older, `Reindex` a row that is rolled back or comes in late. `Lose` is a caller that dies or gives up; `Register`, `Revoke`. `Certified` and `Suspect` are the two verdicts. |
| `TradeFlowProofs` | | theorems about `TradeFlow` |
| `TimestampClient`, `MCTimestampClient` | `RFC3161TimestampAuthority`, several calls of `stamp()` | `Construct` is `__init__` with `_validate_tsa_url`. A call goes through `Begin` (the nonce), `SendRequest`, `ReadChunk`, and then `RequestFails` or `Answered` with `Judge`, the checks of `stamp()` on one answer. `Verify` and the operators under it are the functions of those names. The authorities (`Issue`) and the network (`AnswersTo`) are external; `Quirks` names what they may do, and `FormOf` how each authority signs: how it names its signer, which certificates it sends and in which order, whether it has `signedAttrs`, and with which algorithms. `pc` is `raised` after `TimestampError` and `escaped` after any other exception. |
| `TimestampProofs` | | theorems about `TimestampClient` |
| `SharedLog`, `MCSharedLog` | `commit()`, `batch_commit()`, `logs --verify`, several processes on one path | `Sign` is all that `commit()` does before the log, `Open`, `Probe`, `Scan` (repeated, as the file may grow while it is read), `ScanEnds` the constructor of `AuditLog`, `Tell`, `Write`, `Insert`, `Commit` its append, step by step between processes that share no lock but SQLite's (`writer`). `Locked` is "database is locked", `Raise` how an exception leaves a batch. `Dies` and `PowerFails` are the faults. `LogsVerify` is the command on a file. |
| `SharedLogProofs` | | theorems about `SharedLog` |

`TradeFlow` composes the record operators with the log as `Ledger` describes it, and
`AuditLogRefinement` shows that `AuditLog` implements `Ledger`: what holds of every flow
over a ledger holds over the log with its threads, crashes and refused COMMITs, under
the assumptions of that refinement. `SharedLog`
composes the same steps of the log with the calls that open it; it has no
rotation, which `AuditLog` has, and `AuditLog` no second process. `TradeFlow`
treats `sign()` as atomic and `EphemeralKey` opens it up.

Callers are outside the library. `Mistakes` names what a caller in `TradeFlow`
may do beyond the README's usage example: `reuse_seed` (one seed result for two
phases), `mix_up` (hashes, windows or seeds of other records), `old_envelope` (a
broker's envelope over another settlement), `own_window` (a lifetime of its own,
through `make_temporal_window` or `key_lifetime_seconds`), `late` (appending out of order). Retries and losses are
always possible.

Operators marked `\* mutant:` are plausible wrong versions of the definition
after them. They are not part of any specification: replacing the definition by
one of them must make the run that cites it fail.

<a name="runs"></a>
## Runs

Run any of them with `tlc -config <run>.cfg <module>`.

| run | module | shows |
|---|---|---|
| `audit_faults` | MCAuditLog | Two threads, two faults out of crash, write, insert, commit, rename, close: no row points into another id's record (`RowsMatchRecords`), no acknowledged record is lost (`AckedNeverLost`) or hidden (`AckedIsFindable`), no line is rewritten (`NeverRewritten`), and each append returns or raises (`AppendReturns`, liveness); `TypeOK`. |
| `audit_ledger` | MCAuditLog | Four appends, one fault, a failing COMMIT or a lost index among them: the log refines `Ledger`, so that a lookup always finds the last record of an id that an append returned for, or one written after it (`ImplementsLedger`), and files stay within the limit plus a line (`SizeIsBounded`); as long as nothing has failed the index is the one a scan builds (`IndexIsRebuildable`) and markers chain the archives (`ArchivesAreChained`). |
| `key_threads` | EphemeralKey | Two threads: `DestroyedIsZeroed`, `EnvelopeMeansDestroyed`, `NothingIsSignedTwice` (no call that *begins* after an envelope was returned gets one), `SomeEnvelopeIsWhole` (failed and racing calls never leave only signatures made with a torn key), `SignedKeyIsZeroed` (liveness). |
| `secp_sign` | MCSecp256k1 | Order 13 over 19 elements, every key, hash and k: `LadderInvariant`, `SignatureVerifies`, and `AdditionIsAGroup`, which makes the repeated additions of `LadderInvariant` a sound reference. |
| `trade_two_orders` | MCTradeFlow | Two overlapping orders of one account, losses, second commitments and fills, a broker's old envelope: `CertifiedNoncesAreDistinct`, `CertifiedFillsOnce`, `BrokerAcknowledgedThisTrade`. |
| `trade_verdicts` | MCTradeFlow | Windows of any kind, seeds used again, a fill too large, a key registered or revoked meanwhile, an append that raises after its write, a rotation between two phases: the two verdicts agree on complete flows (`CertifiedIsUntampered`, `UntamperedIsCertified`) and one seed for several phases is never certified (`SeedsAreIndependent`); also `TypeOK`. |
| `tsa_stamp` | MCTimestampClient | Two calls that stamp the same data, so that only the nonce tells their answers apart, with every quirk but `ordering`: `ReturnedTimeIsFresh`, `ReturnedWasAttested`, `ReturnedVerifies`, `ReadableAnswerIsTaken` (a proper answer is taken, whatever came before it, exactly when the code can read its form), `AsksInOrder` (`TimestampError` only after both authorities were asked, and another exception only where a server may send an `eContent` that is no SEQUENCE), `StampEnds` (liveness). |
| `shared_log` | MCSharedLog | Three calls on one path, two deaths or power failures: `BatchLogsAPrefix`, `AckedIsIndexed`, `LogsMissNothing` (`logs --verify` lists every returned record or exits 1), `RowIsNotPastItsRecord`, and `AloneRowsAreExact` (if no two calls overlap, opening the log for every item is as good as holding it open). |

`AckedIsFindable` is checked without a lost index on purpose: a torn line, a lost
index and two reopenings hide an acknowledged record (see "met on the way").
The mistakes `mix_up` and `late` are in the specification and in the theorems,
and in no run that must pass; nor is a crash between the two renames
(`half_rotation`), under which `AckedNeverLost` and `NeverRewritten` are proved, or
two archives of one name, with which they are false.

<a name="findings"></a>
## Findings

Each of these runs must end in a violation; the statement the code falls short
of is quoted in `PROJECT.json`.

| run | what happens |
|---|---|
| `stale_read` | A reader holds an offset; another thread rotates; the offset is read in the fresh file and another record comes back (`audit.py:710`). Nothing but a rotation does it (theorem `ReadsFailByRotationOnly`). |
| `key_race` | Two threads pass the test of `_destroyed` together: one key, two envelopes (`crypto.py:239`). |
| `nan_fill` | `filled_qty = NaN` is neither below zero nor above the authorised quantity and is certified (`execution.py:279`). |
| `tsa_ordering` | An authority that sets `ordering` answers properly and is refused: the BOOLEAN is read as the nonce (`timestamp_authority.py:521`), and `stamp()` raises although both authorities are available (`RaisesOnlyUnanswered`). |

Met on the way, without a run of their own. TLC shows those that name a property
with other constants (`Faults`, `FreshStamps`, `Mistakes`):

* A crash between the two renames of a rotation leaves the old index beside an
  empty file; reopening does not rebuild it and lookups return other ids'
  records (`audit.py:379`; `ReadsReturnWhatWasAsked` with one thread and
  `half_rotation`).
* Two rotations with one name (same millisecond, or a clock set back): the
  second replaces the first archive (`audit.py:379`; `NeverRewritten` with
  `FreshStamps = FALSE`).
* A crash between the JSONL write and the commit: reopening never indexes the
  line (`audit.py:219`; `IndexIsComplete` with `crash`).
* The seeds compared are copies the settlement's caller passed in, so another
  record's hash hides a reused seed (`settlement.py:317`; `SeedsAreIndependent`
  with `reuse_seed` and `mix_up`).
* `detect_tampering` does not look at the execution's own temporal window. It
  agrees with `verify_trade_flow` only because the settlement holds a copy of it;
  with both `mix_up` and `own_window` the two verdicts part
  (`UntamperedIsCertified`). No document promises that they agree, so the
  theorem `NoIssueMeansCertified` states the assumption instead.
* A rebuild that a corrupt line stops commits the rows it has; the next open finds
  the index not empty and succeeds with a part of it (`audit.py:310`;
  `IndexIsComplete` with a torn write and `db_removed`).
* A rotation between two phases splits a trade over two files. `get_trade_flow`,
  whose docstring promises the complete trade flow, then returns a part of it,
  and the trade is not certified (`audit.py:360`).
* An append that raised at its COMMIT shows in lookups all the same, so a flow may be
  certified whose caller was told that the settlement was not logged, and a later
  rollback takes the certificate back (`audit.py:445`; `CertifiedFillsOnce` with
  `stored` for `returned`: a second fill can be in the file beside the certified one,
  though no append of it ever returned).
* Processes on one path: `tell()` of one call and the write of another come between
  each other, so that a row points at another order's line, never past every line
  of its own (`audit.py:439`).
* After a power failure the index may name orders whose lines are gone, or lead an
  order to a later record; as the index is not empty, no rebuild ever notices.
* A batch that is retried writes its first items a second time, with new
  signatures. The results of the first attempt are gone with the exception.
* `logs --verify` together with `--type` drops lines that do not parse and exits 0
  (`cli.py:199`). `main` catches `ValueError`, `JSONDecodeError` and
  `FileNotFoundError` only: a corrupt log or a locked database ends in a traceback,
  whose exit code 1 is the one of "invalid".
* eContent that decodes to something other than a SEQUENCE makes `stamp()` leave
  with `TypeError` or `AttributeError` (`pc` = "escaped"), since the handler
  catches `TimestampError` only: the fallback is not asked, though the docstring
  promises it (`timestamp_authority.py:519`, `:824`). `AsksInOrder` says where
  this may happen and excludes it elsewhere.
* `ordering` is one of several forms of a proper answer that the code refuses
  (`Readable` has them all). A signer that is named by subjectKeyIdentifier is
  looked for at the first certificate only, so an answer with the issuer's
  certificate first is refused (`timestamp_authority.py:596`). So is one whose
  digest algorithm is not in the code's list, or whose key or padding is neither RSA
  with PKCS#1 v1.5 nor ECDSA (RSA-PSS, Ed25519), one whose `signedAttrs` lack a single
  `messageDigest`, and one that sends no certificates.
* The request encodes `certReq` under a context tag instead of as the BOOLEAN of
  RFC 3161 (`timestamp_authority.py:91`), so an authority that goes by the RFC
  may not see the wish for certificates and send none (the form `certs = "none"`).
* `expires_at` is read when a record is judged, against `shor_earliest_attack` and
  `created_at` (`commitment.py:331`, `settlement.py:342`; the window is `safe`,
  `unsafe` or `absent` in `TradeRecords`). No step compares it with a clock:
  `sign()` signs with a key whose lifetime is over (`crypto.py:239`), which is why
  the model has no clock.
* Between the two `_destroyed` flags `public_key_hex` raises, and answers again
  after the second (`crypto.py:216`).

<a name="bounds"></a>
## Bounds

* `AuditLog`: two threads, three or four appends, two or three ids, two archive
  names. A line of two bytes, a marker of three and a limit of four make every
  second or third append rotate: three appends reach a rotation and a record
  after it, four a second rotation, which is why `audit_ledger` has four. The
  limit zero (`max_file_size_mb=0`) is in the model and in the theorems, and in no
  run. Two faults reach the combinations that
  matter: a failed commit followed by a crash, a failed insert followed by a
  removed database. Threads are symmetric where no liveness is checked.
* `EphemeralKey`: two threads (a check-then-act race needs no third), keys of two
  bytes (a first and a last one), four calls.
* `Secp256k1`: the curve has a prime order below the field's prime, a field prime
  of the form 4m + 3, and digests that exceed the order, like secp256k1. Its b is
  2, because the smallest such curve with b = 7 has 31 points, too many to try
  every triple. Each exceptional sum, `x >= N`, both halves for `s` and hashes above `N` occur.
* `TimestampClient`: two calls (an answer to one may be taken for the other's), three
  good and two bad URLs, one authority that signs attributes behind its issuer's
  certificate, one that signs the content and is named by key identifier, and one, of
  which a client may be made, whose form the code cannot read (key identifier
  behind the issuer's certificate). The other such forms are left to the proofs:
  they lead to the same refusal. Two tokens (one to be replayed, one fresh), a size
  limit of one chunk, at which the read of one more is seen. Network and authorities are as
  bad as `Quirks` lets them be.
* `SharedLog`: three calls and batches of two and three items, the latter with a
  bad item in the middle; two orders, either of them first. A single `commit()` does
  what the last item of the first batch does. Two calls race, a third
  comes after both or between them. Two faults reach a torn line followed by a
  power failure, and two torn lines in one run. Calls are symmetric.
* `TradeFlow`: three records are a full flow, and six are two of them, or one with
  three records repeated (`trade_two_orders`). One append that raises and one rotation, which
  can fall between any two steps, are in `trade_verdicts`, where an order alone meets them:
  two orders with both would need more states than a run can visit. So
  `CertifiedFillsOnce` meets a rotation or an append that raised in its theorem only. What they do to
  a commitment that was filled twice is left to the proof. Two of the three keys of
  `trade_verdicts` are registered at the start, so a change of the registry can complete a
  certificate or undo it. Seeds are never short of the records. One account,
  because the verdicts on two accounts share nothing.

`MaxCalls`, `MaxFaults`, `MaxSeeds`, `MaxRecords`, `MaxChanges`, `MaxStrands`,
`MaxRotations` and `MaxTokens` bound the exploration and nothing in the code; `MaxBody` is the code's
own limit. Deadlock is not checked where the bounds let everything end (the key,
the curve, the trade flow, the timestamps, the shared log).

<a name="fairness"></a>
## Fairness

Three properties are liveness properties. `AppendReturns` assumes weak fairness of
each thread's `Step`: once inside `append` a thread goes on unless it waits for
the lock, which the operating system's scheduler and the interpreter's switch
interval provide. The lock is not assumed to be fair; with a bounded number of
calls weak fairness is enough, since it cannot be taken over and over for ever.
Faults, crashes, calls and reads are under no fairness. `SignedKeyIsZeroed`
assumes the same of the threads inside `sign()`, which wait for nothing.
`StampEnds` assumes weak fairness of `SendRequest`, a plain statement, and of
`Transport`: a socket operation ends with a chunk, with the end of the body or
with an error, because it has a timeout. Nothing is assumed of *which* of the
three: an authority may send one chunk after the other for ever, and that the
call ends nonetheless is what the size limit is for.

<a name="proofs"></a>
## Proofs

All theorems hold for every value of the constants under the named `ASSUME`s;
TLC evaluates those in every run. What an invariant needs beyond the property is
said below, because that is the argument.

**`AuditLogProofs`.** `TypeCorrect` needs that a thread inside an append has an
entry. `RowsAreSound` (`RowsMatchRecords`): a row leads to a record of its id, for
any threads, lengths, limit and faults, failed renames and crashes inside a
rotation included, other than those exactly between the two renames
(`half_rotation`), which is described under the findings. Alone it is not inductive: the row of
an append under way is made of the offset it read before, so the invariant says
that this offset still holds its record, which needs mutual exclusion (only the
lock's owner is past `enter`) and that offsets below `size` never change.
`AckedIsDurable` and `AppendOnly` assume unique archive names, without which
a second rotation of the same name refutes them; they hold under `half_rotation`.
`ReadsFailByRotationOnly` bounds what `stale_read` shows: a lookup finds
offsets of records of the ids it was asked for, since there is no connection to ask
between the two renames (`ConnInv`), and only the rename of the JSONL file takes
them away again.

**`AuditIndexProofs`.** The other properties of the log, each with what it needs
beyond the invariant before it:

* `FilesAreBounded` (`SizeIsBounded`): a thread past the test of the limit still has
  the room the test saw, because no other thread writes, or stands in a file that
  holds at most a marker. That a fragment is shorter than the line it is torn from
  is an assumption on the constants.
* `ChainIsComplete` (`ArchivesAreChained`): at most one archive is not yet named by a
  marker, the one of a rotation that has not returned, and the thread in that
  rotation carries its name. It assumes unique archive names.
* `AckedIsFound` (`AckedIsFindable`): for each record that an append returned and that
  is in the live file, the index has a row of its id at its offset or behind
  (`FindableInv`); the row of an append at its COMMIT is in the transaction and leads
  to the last line of the file (`LineInv`); and a call's number, which identifies its
  record, is given once (`CallsInv`). A rebuild keeps this if it reads the file to its
  end (`RebuiltIsComplete`), hence the assumption `RebuildsAreWhole`: the index may be
  removed, or lines may be torn, but not both. Under both the property is false (see
  the findings). Crashes, failed inserts, commits and renames, and a crash between
  the two renames are allowed.
* `IndexFollowsFile` (`IndexIsRebuildable`): nothing is assumed. `RebuiltGrows`
  says that the index of a file with one line more is the index of the file with
  one row replaced, which is what an append does; the rest (`IndexInv`) says at which
  steps of an append or a rotation rows, file and line counter are out of step, and
  by how much.

**`AuditRefinementProofs`.** `LogImplementsLedger` is the refinement, step by step
(`StepImplements`): Write maps to Strand, Commit to Append, the first rename of a
rotation to TurnPage, everything else to Reindex or a stutter. A record is stored from
its write on and acknowledged at its COMMIT; in between, and for ever if the append
fails, it is one that a lookup may find and need not. That covers the row of a COMMIT
that failed, which the next append's COMMIT makes durable: it shows in lookups before
and after, and a crash takes it back. The key lemma is
`IndexShows`: an index whose rows lead to records of their own id (`SoundIndex`),
never to one before the last acknowledged (`Leads`), shows a view that the ledger
allows; that each state's index is such a one is `LookupsAreCurrent`, from the invariants
of the two modules before (`RefInv`). It assumes unique archive names (`FreshStamps`), no
crash between the two renames (`RenamesAreAtomic`), and that the index is not removed
from a log whose lines may be torn (`RebuildsAreWhole`); the findings say what happens
otherwise. The run has one fault at a time, so the two never meet in it either.
`DirectoryLeadsToStored` carries the ledger's own invariant over to the log.

**`EphemeralKeyProofs`.** `DestroyedKeyIsZeroed`: each thread in `zero` has cleared
the bytes before its own position, each thread past it has cleared them all, and
nothing ever writes a byte back; so the flags, set after the loop, imply an
empty buffer whoever else is in the loop. `EnvelopeIsLast` and
`LateCallsAreRefused` add what is set before an envelope is returned.
`AloneSignsOnce` is about one thread; `key_race` shows why it must be.
`WholeKeySigned` (`SomeEnvelopeIsWhole`): the first byte is cleared by a call that
read the key before, so a call that reads a torn key always has a rival that
read it whole and can no longer fail.

**`TradeFlowProofs`.** The verifier compares neither two orders nor a settlement's
copies with the originals. The invariant `IInv` says of *everything ever signed*
that an envelope is over its own data, that a fill's nonce is one its account
has reached and differs from those of the account's other orders, that a
broker's envelope comes from a broker, and that copies are true when nobody
mixes them up; and of the log (`LogIsSound`) that what it holds for acknowledged or
stranded was, so that each record a lookup finds is stored, was signed for that order and
phase, and is not one before the last acknowledged (`FlowIsStored`). From it follow
`NoNonceIsCertifiedTwice`, `CertifiedWasAcknowledged`, `CertifiedSeedsDiffer` and
`NoIssueMeansCertified`; the last two assume that no caller mixes copies up,
which is needed (see the findings). `CertificatesRaiseNoIssue` compares the
two lists of checks and needs no invariant. `OneFillIsCertified`
(`CertifiedFillsOnce`) needs more (`Ordered`): an order has one record at most on
its way to the log; a fill comes after the nonce it was committed at; and no
fill of an order whose append returned has a later nonce than any that a lookup may
come to show (the last acknowledged, those stranded since) or the one on its way. A
certified execution is the next nonce after its commitment's, so an acknowledged fill
of that commitment cannot be another. This lasts through losses, second commitments,
rotations, appends that raise and rows that come late or go. It assumes that callers
neither mix records up nor append late; with a late append lookups find an earlier fill
than the last.

**`TimestampProofs`.** `TypeCorrect` types every answer, garbled ones too. The
invariant behind `FreshTime`, `Authentic` and `Verifiable` rests on two facts.
`AnswersKeepSigners`: whatever happens to an answer, its signers are none or
those of one answer an authority signed, so that a signature which verifies
gives back the TSTInfo as it was signed (`AcceptedIsAttested`). And `Timely`: a
nonce is known to the authorities only once its call has begun, so that every
answer which echoes it is later. `PrimaryFirst` needs that a call's place in the
list tells whom it has asked; its last part, about exits other than
`TimestampError`, that an answer which is no SEQUENCE comes only from a server
that sends such ones. `TakenIfReadable` (`ReadableAnswerIsTaken`) is for
authorities that sign in any form and for every quirk: a lemma
(`ReadableIsAccepted`) goes through the checks of `_verify_single_signer` for each
form and finds that they accept a proper answer exactly when it is readable.
`GoodAnswerIsTaken` is what remains of the docstring's promise
(`RaisesOnlyUnanswered`): it holds if no authority sets `ordering` and every
authority signs in one of `ReadableForms`; `tsa_ordering` shows that it does not hold
in general.

**`SharedLogProofs`.** Nothing but SQLite's lock orders the calls, so the
invariants are about one call and the file: `CallOK` (the lock's owner is in
`scanned` or `commit`, and its transaction is the row it is about to publish),
`Offsets` follows an offset from `tell()` to the row, and a growing file only
adds to what it was true of (`BehindLasts`). `AckedStaysIndexed` holds under
every fault, power failures included; the others until power fails.
`VerifiedLogsAreWhole` looks at the first torn fragment, which always begins a
line. `AloneIsExact` has to know that a call which rebuilds found no row, hence
by `AckedStaysIndexed` that nothing was acknowledged yet. `BatchesLogPrefixes`
(`BatchLogsAPrefix`): which of a batch's items are in the file follows from where the
batch stands, up to the one item in doubt when it raised or died; lines of
other calls and fragments leave that alone (`LinesKept`).

**`Secp256k1Proofs`.** For every curve, generator and width, from the parameters'
assumptions in `Secp256k1` alone, which TLC evaluates on its curve: P and N are prime,
P is of the form 4m + 3, the curve has N - 1 points and none with y = 0
(`RootAssumption`; the code's doubling has no case for one, and as N is odd there is
none), and Fermat's theorem holds for the two primes, from which inverses and square
roots come. Nothing is assumed about the addition. `AdditionFormsTheGroup` shows that
the branches of `_point_add` and `_point_double` are the operation of a commutative group
in which G has the order N:

* A slope meets the curve in a third point (`LineMeets`, `ThirdIsOnCurve`), the tangent's
  and the chord's do (`TangentMeets`, `ChordMeets`), so sums stay on the curve; the chord
  is the same from both ends, and doubling is addition (`AdditionIsAnOperation`).
* Associativity, with the middle point as the origin. `Line` describes a sum by the
  two distances that solve a quadratic (`SumHasALine`, `LineHasASum`). If the two lines
  through the middle point differ, the slopes of the two last additions follow from
  theirs (`SlopesOfThree`), and both orders end in the same point (`DifferentLines`); if
  they are one line, both sums are of opposites or the outer points are equal
  (`SameLine`); where a first sum is infinity, the second undoes it (`OppositeUndoes`).
* The order of the generator. Translation by a multiple of p parts the points into
  orbits of the size of p's order (`OrbitHasOrder`), which therefore divides N, a prime.

On top of that is what the code does with the group. Recursion over the
naturals and the induction that goes with it are proved for sets and functions
(`Recursion`, `Induction`), so that repeated addition adds up (`MultiplesAdd`,
`MultiplesMultiply`) and a step of the ladder doubles (`LadderStepDoubles`,
`ShiftByOne`): `LadderIsRight`, and that the ladder inside `_point_mul` multiplies
(`PointMulMultiplies`). `SignaturesVerify` joins three arguments: the verifier's two
factors add up to k or, where s was mirrored, to -k modulo N (`SignedFactors`); the
points k G and -k G share their x, because the code's addition yields infinity only
for those (`NegativeSharesX`); and the key is recovered from x and parity whichever root
the power yields (`CompressedKeyIsRecovered`). `SignsInRange` uses that the
ladder never ends at infinity, whose coordinates `_ecdsa_sign` would otherwise read.

Only model-checked: the three liveness
properties, since liveness and `ENABLED` are out of the prover's reach; and the four runs
that end in a violation, which need no proof.

<a name="not-modelled"></a>
## Not modelled

* Of the audit log: a line cut short is never one that parses (one that lacks only
  its newline does, and the next record is then lost on its line); nor is a line
  whole JSON that lacks the keys `from_dict` asks for, which would end a rebuild
  without committing what it has (`audit.py:309`). An index that cannot be opened
  after a rotation's renames (`RenameFails`) may leave a live connection, whose
  missing tables are not told apart from those of a fresh index.
* Of the trade records: `verify_state_binding`, which both verdicts ask and which is
  true of all that `create_and_sign` makes, and with it the two defaults for a missing
  nonce (0 in `verify_trade_flow`, -1 in `detect_tampering`); quantities and prices that
  `float()` refuses, which end as `None` does.
* HMAC-SHA256, SHA-256, JSON: ideal. A hash has no collisions and canonical JSON
  is injective on what is signed.
* Rotation while several processes have one path open: each has a SQLite
  connection to a file that another renames under it, and what the write-ahead
  log does then is SQLite's, not this code's. `SharedLog` stays below the limit.
* DER and CMS parsing beyond the fields that are read; the X.509 chain, which the
  code does not look at either; DNS, which `_validate_tsa_url` asks once.
* Of the command line: `seed`, `info`, `demo` and `verify` change nothing, `init`
  writes a constant file; parsing and printing.
* The documents of `DisputeProofGenerator` beyond `all_seeds_unique`: formatting.
* Account snapshots beyond the nonce and the fields `from_dict` demands: no check
  compares them.

<a name="plan"></a>
## Plan

Done, in this order: `AuditLog` with its refinement and proofs, `EphemeralKey`
with its proofs, `TradeRecords` and `TradeFlow` with its proofs, `Secp256k1`;
then rotation in `TradeFlow`, `TimestampClient` and `SharedLog` with their proofs;
then the remaining proofs: the index of the log, the refinement of `Ledger` through failing commits,
`CertifiedFillsOnce`, `BatchLogsAPrefix` and the curve.

Every invariant and every safety property over steps that a passing run checks is now
a theorem. What would come next:

1. Rotation in `SharedLog`, once it is settled what SQLite promises a process whose
   database file was renamed under its open connection.
2. Reads as a part of the refinement: `Ledger` finds a record in one step, while a
   reader of the log takes two.
