------------------------------- MODULE Ledger -------------------------------
(***************************************************************************)
(* What the audit log promises to the protocol: records are only ever      *)
(* added, and a lookup finds the last record of an id whose append         *)
(* returned, or one that was written after it.  An append that raises may  *)
(* have stored its record: it may then be found at once, later or never.   *)
(* A rotation turns the page, and lookups see the new page alone.          *)
(***************************************************************************)
VARIABLES
    stored,    \* every record in a file of the log
    last,      \* on this page: id -> the last record whose append returned
    unacked,   \* the records written after that without their append returning
    directory  \* id -> the record a lookup finds

NoEntries == [i \in {} |-> i]

OnePerId(U) == \A r, q \in U : r.id = q.id => r = q
Showing(U, l) ==
    [i \in DOMAIN l \cup {r.id : r \in U} |->
        IF \E r \in U : r.id = i THEN CHOOSE r \in U : r.id = i ELSE l[i]]

\* The directories that lookups may see.
Views(u, l) == {Showing(U, l) : U \in {V \in SUBSET u : OnePerId(V)}}

Init ==
    /\ stored = {} /\ unacked = {}
    /\ last = NoEntries /\ directory = NoEntries

\* An append returns: its record is the one found from now on.
Append(r) ==
    /\ stored' = stored \cup {r}
    /\ last' = [i \in DOMAIN last \cup {r.id} |-> IF i = r.id THEN r ELSE last[i]]
    /\ unacked' = {q \in unacked : q.id # r.id}
    /\ directory' \in Views(unacked', last')

\* An append has written its record and has not returned, nor may it ever.
Strand(r) ==
    /\ stored' = stored \cup {r}
    /\ unacked' = unacked \cup {r}
    /\ directory' \in Views(unacked', last)
    /\ UNCHANGED last

TurnPage ==
    /\ last' = NoEntries /\ unacked' = {} /\ directory' = NoEntries
    /\ UNCHANGED stored

\* A transaction goes on, is rolled back or enters what an earlier one left;
\* a reopened log rebuilds its index.
Reindex ==
    /\ directory' \in Views(unacked, last)
    /\ UNCHANGED <<stored, last, unacked>>

Next ==
    \/ \E r \in stored' : Append(r) \/ Strand(r)
    \/ TurnPage \/ Reindex

Spec == Init /\ [][Next]_<<stored, last, unacked, directory>>

\* The directory never leads to a record that is not stored, nor to another
\* id's: what AuditLog.get_by_id relies on.
DirectoryIsSound ==
    \A i \in DOMAIN directory : directory[i] \in stored /\ directory[i].id = i
=============================================================================
