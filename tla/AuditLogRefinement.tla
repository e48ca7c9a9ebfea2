-------------------------- MODULE AuditLogRefinement --------------------------
(***************************************************************************)
(* AuditLog implements Ledger.  A record is stored with its line, and      *)
(* acknowledged where its append returns.  A lookup sees the transaction   *)
(* of the connection over the committed rows; while the log is closed and  *)
(* its index is to be rebuilt nobody looks, so it counts as rebuilt.  The  *)
(* page turns at the first rename of a rotation.                           *)
(***************************************************************************)
EXTENDS AuditLog

StoredNow ==
    RecordsIn(jsonl) \cup UNION {RecordsIn(archives[ts]) : ts \in DOMAIN archives}

\* Where the live file holds a record of an id that an append returned.
AckedAt(i) == {o \in DOMAIN jsonl : jsonl[o] \in acked /\ jsonl[o].id = i}
LastNow ==
    [i \in {r.id : r \in acked \cap RecordsIn(jsonl)} |->
        jsonl[CHOOSE o \in AckedAt(i) : \A p \in AckedAt(i) : p <= o]]
UnackedNow ==
    {jsonl[o] : o \in {p \in DOMAIN jsonl :
        jsonl[p] # Torn /\ \A a \in AckedAt(jsonl[p].id) : a < p}}

DirectoryOf(ix) == [i \in DOMAIN ix |-> RecordAt(jsonl, ix[i].off)]
DirectoryNow ==
    CASE BetweenRenames -> Empty
      [] ~BetweenRenames /\ ~up /\ MustRebuild -> DirectoryOf(Rebuilt(jsonl))
      [] ~BetweenRenames /\ ~(~up /\ MustRebuild) -> DirectoryOf(View)

L == INSTANCE Ledger
       WITH stored <- StoredNow, last <- LastNow, unacked <- UnackedNow,
            directory <- DirectoryNow

\* Whatever the threads, the rotation nested in an append, crashes, failing
\* writes and commits and a lost index do, a lookup finds what an append
\* returned for or what was written after it.
ImplementsLedger == L!Spec
=============================================================================
