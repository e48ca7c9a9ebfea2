------------------------------ MODULE SharedLog ------------------------------
(***************************************************************************)
(* commit() and batch_commit() of aether_protocol_c/__init__.py, and the   *)
(* commit and logs commands: several calls, each in a process of its own,  *)
(* that log to one path.  Each item takes a seed, is signed by a key that  *)
(* dies with the signature, and is appended through an AuditLog opened for *)
(* this item alone.  The lock of AuditLog is inside that object: only      *)
(* SQLite's write lock and O_APPEND come between two calls.                *)
(*                                                                         *)
(* The file is below its size limit (AuditLog has the rotations) and is a  *)
(* sequence of lines; an offset is the place of a line in it.  A seed and  *)
(* the signature made from it are named by the call and item they are for. *)
(***************************************************************************)
EXTENDS Integers, Sequences

CONSTANTS
    Calls,        \* calls of commit() or batch_commit()
    Orders,
    Batches,      \* what may be committed: sequences of items
    Nobody,
    Torn,         \* what a write cut short leaves; it has no newline
    MaxFaults     \* bound on the processes that die and the power failures

\* An item is whole if it has its three keys and AccountSnapshot.from_dict finds
\* the seven fields of its account_state; commit() raises otherwise.
Items == [order : Orders, whole : BOOLEAN]
ASSUME BatchesAssumption == Batches \subseteq Seq(Items) \ {<<>>}
ASSUME NobodyAssumption == Nobody \notin Calls
ASSUME FaultsAssumption == MaxFaults \in Nat

Records == [order : Orders, by : Calls, item : Nat \ {0}]
ASSUME TornAssumption == Torn \notin Records

VARIABLES
    file,      \* the JSONL file
    rows,      \* the committed index: order -> offset
    writer,    \* the call whose transaction holds SQLite's write lock
    scanned,   \* the rows that transaction adds
    pc, items, \* where each call is, and what it commits
    done,      \* results it has collected
    pos,       \* the offset it read with tell()
    corrupt,   \* its scan met a line that does not parse
    met, lost, faults \* observers: two calls had the log open at one time;
                      \* power failed; faults so far

dbVars == <<rows, writer, scanned>>
callVars == <<pc, items, done, pos, corrupt>>
vars == <<file, dbVars, callVars, met, lost, faults>>

-----------------------------------------------------------------------------
Over(f, g) == [x \in DOMAIN f \cup DOMAIN g |-> IF x \in DOMAIN g THEN g[x] ELSE f[x]]
Row(order, off) == [x \in {order} |-> off]
NoRows == [x \in {} |-> 0]

Places(f, order) == {q \in DOMAIN f : f[q] # Torn /\ f[q].order = order}

\* _rebuild_index scans up to the first line that does not parse.
Corrupt(f) == \E q \in DOMAIN f : f[q] = Torn
Scanned(f) ==
    {q \in DOMAIN f : \A p \in 1 .. q : f[p] # Torn}
Rebuilt(f) ==
    [o \in {f[q].order : q \in Scanned(f)} |->
        CHOOSE q \in Scanned(f) \cap Places(f, o) :
            \A p \in Scanned(f) \cap Places(f, o) : p <= q]

\* `logs --verify`: the lines that parse, all of which are signed, and the exit
\* code.  What follows a torn fragment is on the fragment's line.
LineStarts(f) == {q \in DOMAIN f : q = 1 \/ f[q - 1] # Torn}
Listed(f) == {q \in LineStarts(f) : f[q] # Torn}
LogsVerify_DropsCorrupt(f) == 0 \* mutant: a line that does not parse is skipped
LogsVerify(f) == IF Listed(f) = LineStarts(f) THEN 0 ELSE 1

Goto(c, label) == pc' = [pc EXCEPT ![c] = label]
Inside == {"probe", "scan", "scanned", "tell", "write", "insert", "commit"}
Running == Inside \cup {"item", "open"}

Raise_LeavesRows(c) == \* mutant: no rollback
    /\ Goto(c, "raised")
    /\ writer' = (IF writer = c THEN Nobody ELSE writer)
    /\ UNCHANGED scanned
\* An exception leaves commit() and batch_commit(), which lose the results they
\* have; the connection is closed and its transaction is gone.
Raise(c) ==
    /\ Goto(c, "raised")
    /\ writer' = (IF writer = c THEN Nobody ELSE writer)
    /\ scanned' = (IF writer = c THEN NoRows ELSE scanned)

Item(c) == items[c][done[c] + 1]

Init ==
    /\ file = <<>> /\ rows = NoRows /\ writer = Nobody /\ scanned = NoRows
    /\ pc = [c \in Calls |-> "idle"]
    /\ items = [c \in Calls |-> <<>>]
    /\ done = [c \in Calls |-> 0] /\ pos = [c \in Calls |-> 0]
    /\ corrupt = [c \in Calls |-> FALSE]
    /\ met = FALSE /\ lost = FALSE /\ faults = 0

-----------------------------------------------------------------------------
(* A call that raised or died is retried by another call with its items.     *)
Begin(c, batch) ==
    /\ pc[c] = "idle"
    /\ items' = [items EXCEPT ![c] = batch]
    /\ Goto(c, "item")
    /\ UNCHANGED <<file, dbVars, done, pos, corrupt, met, lost, faults>>

Sign_Skips(c) == \* mutant: a bad item is left out
    /\ pc[c] = "item"
    /\ IF Item(c).whole
       THEN Goto(c, "open") /\ UNCHANGED done
       ELSE /\ done' = [done EXCEPT ![c] = @ + 1]
            /\ Goto(c, IF done[c] + 1 = Len(items[c]) THEN "returned" ELSE "item")
    /\ UNCHANGED <<file, dbVars, items, pos, corrupt, met, lost, faults>>
\* get_seed, AccountSnapshot.from_dict, create_and_sign; the key is destroyed.
Sign(c) ==
    /\ pc[c] = "item"
    /\ IF Item(c).whole THEN Goto(c, "open") /\ UNCHANGED <<writer, scanned>>
                        ELSE Raise(c)
    /\ UNCHANGED <<file, rows, items, done, pos, corrupt, met, lost, faults>>

\* AuditLog(log_path): connect and count the lines ...
Open(c) ==
    /\ pc[c] = "open"
    /\ Goto(c, IF file = <<>> THEN "tell" ELSE "probe")
    /\ met' = (met \/ \E d \in Calls \ {c} : pc[d] \in Inside)
    /\ UNCHANGED <<file, dbVars, items, done, pos, corrupt, lost, faults>>

\* ... ask whether the index is empty ...
Probe(c) ==
    /\ pc[c] = "probe"
    /\ Goto(c, IF rows = NoRows THEN "scan" ELSE "tell")
    /\ UNCHANGED <<file, dbVars, items, done, pos, corrupt, met, lost, faults>>

\* ... and if it is, scan the file and insert what it holds.  The first INSERT
\* takes the lock; the lines read after it may be ones that others write by then.
Scan(c) ==
    /\ \/ pc[c] = "scan" /\ writer = Nobody
       \/ pc[c] = "scanned"
    /\ writer' = c /\ scanned' = Rebuilt(file)
    /\ corrupt' = [corrupt EXCEPT ![c] = Corrupt(file)]
    /\ Goto(c, "scanned")
    /\ UNCHANGED <<file, rows, items, done, pos, met, lost, faults>>

Rebuild_Replaces == rows' = scanned \* mutant: DELETE FROM audit_index first
Rebuild == rows' = Over(rows, scanned)
\* A corrupt line ends __init__, after the rows before it are committed.
ScanEnds(c) ==
    /\ pc[c] = "scanned"
    /\ Rebuild /\ writer' = Nobody /\ scanned' = NoRows
    /\ Goto(c, IF corrupt[c] THEN "raised" ELSE "tell")
    /\ UNCHANGED <<file, items, done, pos, corrupt, met, lost, faults>>

\* open(path, "ab"); f.tell(): the length of the file now
Tell(c) ==
    /\ pc[c] = "tell"
    /\ pos' = [pos EXCEPT ![c] = Len(file) + 1]
    /\ Goto(c, "write")
    /\ UNCHANGED <<file, dbVars, items, done, corrupt, met, lost, faults>>

Write_ThenTell(c) == \* mutant: tell() after write()
    /\ pos' = [pos EXCEPT ![c] = Len(file) + 2]
    /\ file' = Append(file, [order |-> Item(c).order, by |-> c, item |-> done[c] + 1])
\* The line goes to the end of the file, wherever that is by now.
WriteLine(c) ==
    /\ file' = Append(file, [order |-> Item(c).order, by |-> c, item |-> done[c] + 1])
    /\ UNCHANGED pos
Write(c) ==
    /\ pc[c] = "write"
    /\ WriteLine(c)
    /\ Goto(c, "insert")
    /\ UNCHANGED <<dbVars, items, done, corrupt, met, lost, faults>>

Insert(c) ==
    /\ pc[c] = "insert" /\ writer = Nobody
    /\ writer' = c /\ scanned' = Row(Item(c).order, pos[c])
    /\ Goto(c, "commit")
    /\ UNCHANGED <<file, rows, items, done, pos, corrupt, met, lost, faults>>

\* "database is locked": the holder took longer than the busy timeout, or
\* another call is about to create the table.
Busy(c) ==
    \/ pc[c] = "open" /\ \E d \in Calls \ {c} : pc[d] \in Inside \cup {"open"}
    \/ pc[c] \in {"scan", "insert"} /\ writer # Nobody
Locked(c) ==
    /\ Busy(c)
    /\ Raise(c)
    /\ UNCHANGED <<file, rows, items, done, pos, corrupt, met, lost, faults>>

Publish_Ignores == rows' = Over(scanned, rows) \* mutant: INSERT OR IGNORE
Publish == rows' = Over(rows, scanned)
\* commit; close; verify; the result joins the others.
Commit(c) ==
    /\ pc[c] = "commit"
    /\ Publish /\ writer' = Nobody /\ scanned' = NoRows
    /\ done' = [done EXCEPT ![c] = @ + 1]
    /\ Goto(c, IF done[c] + 1 = Len(items[c]) THEN "returned" ELSE "item")
    /\ UNCHANGED <<file, items, pos, corrupt, met, lost, faults>>

(***************************************************************************)
(* Faults.                                                                 *)
(***************************************************************************)
Fault == faults < MaxFaults /\ faults' = faults + 1

\* A process dies; the line it was writing may be cut short.
Dies(c) ==
    /\ pc[c] \in Running
    /\ Fault
    /\ Raise(c)
    /\ file' \in {file} \cup (IF pc[c] = "write" THEN {Append(file, Torn)} ELSE {})
    /\ UNCHANGED <<rows, items, done, pos, corrupt, met, lost>>

\* SQLite syncs what it commits; nothing syncs the JSONL file, whose last
\* lines may be gone, the last one that is left cut short.
PowerFails ==
    /\ Fault
    /\ \E n \in 0 .. Len(file) :
         file' \in {SubSeq(file, 1, n)}
                   \cup (IF n < Len(file) THEN {Append(SubSeq(file, 1, n), Torn)}
                                          ELSE {})
    /\ writer' = Nobody /\ scanned' = NoRows
    /\ pc' = [c \in Calls |-> IF pc[c] \in Running THEN "raised" ELSE pc[c]]
    /\ lost' = TRUE
    /\ UNCHANGED <<rows, items, done, pos, corrupt, met>>

Step(c) ==
    \/ Sign(c) \/ Open(c) \/ Probe(c) \/ Scan(c) \/ ScanEnds(c) \/ Tell(c)
    \/ Write(c) \/ Insert(c) \/ Locked(c) \/ Commit(c)

Next ==
    \/ \E c \in Calls : \/ \E batch \in Batches : Begin(c, batch)
                        \/ Step(c)
                        \/ Dies(c)
    \/ PowerFails

Spec == Init /\ [][Next]_vars
-----------------------------------------------------------------------------
(* Properties. *)

TypeOK ==
    /\ file \in Seq(Records \cup {Torn})
    /\ DOMAIN rows \subseteq Orders /\ \A o \in DOMAIN rows : rows[o] \in Nat \ {0}
    /\ DOMAIN scanned \subseteq Orders /\ (writer = Nobody => scanned = NoRows)
    /\ writer \in Calls \cup {Nobody}
    /\ pc \in [Calls -> Running \cup {"idle", "returned", "raised"}]
    /\ \A c \in Calls : items[c] \in Batches \/ (pc[c] = "idle" /\ items[c] = <<>>)
    /\ \A c \in Calls : done[c] \in 0 .. Len(items[c])
    /\ \A c \in Calls : pc[c] \in Running => done[c] < Len(items[c])
    /\ pos \in [Calls -> Nat] /\ corrupt \in [Calls -> BOOLEAN]
    /\ met \in BOOLEAN /\ lost \in BOOLEAN /\ faults \in 0 .. MaxFaults

LinesOf(c) == {q \in DOMAIN file : file[q] # Torn /\ file[q].by = c}
ItemsLogged(c) == {file[q].item : q \in LinesOf(c)}

\* A batch that fails, whatever fails in it and whoever logs at the same time,
\* has logged the first of its items, each once and in their order: those whose
\* results the caller would have got, and at most one more.
BatchLogsAPrefix ==
    ~lost => \A c \in Calls :
        /\ \A p, q \in LinesOf(c) : p < q => file[p].item < file[q].item
        /\ ItemsLogged(c) \in {1 .. done[c], 1 .. done[c] + 1}
        /\ \A k \in ItemsLogged(c) : k \in DOMAIN items[c] /\ items[c][k].whole
        /\ pc[c] = "returned" => ItemsLogged(c) = DOMAIN items[c]

\* An order whose result was returned has a row in the index, after every
\* rebuild, crash and power failure: what the file lost is missed.
AckedIsIndexed ==
    \A c \in Calls : \A k \in 1 .. done[c] : items[c][k].order \in DOMAIN rows

\* When `logs --verify` finds nothing wrong, it lists every record whose result
\* was returned: none of them hides on the line of another process's fragment.
LogsMissNothing ==
    (~lost /\ LogsVerify(file) = 0) =>
        \A c \in Calls : \A k \in 1 .. done[c] :
            \E q \in Listed(file) : file[q].by = c /\ file[q].item = k

\* tell() and write() of two calls interleave, so a row may point at another
\* order's line; but never past every line of its own.
RowIsNotPastItsRecord ==
    ~lost => \A o \in DOMAIN rows : \E q \in Places(file, o) : q >= rows[o]

\* As long as no two calls had the log open at one time, opening it anew for
\* every item is as good as holding it: each row points at the last whole line
\* of its order that was indexed, torn lines and failed calls before it or not.
AloneRowsAreExact ==
    (~met /\ ~lost) =>
        /\ \A o \in DOMAIN rows : rows[o] \in Places(file, o)
        /\ \A c \in Calls, q \in DOMAIN file :
             (file[q] # Torn /\ file[q].by = c /\ file[q].item <= done[c]) =>
                rows[file[q].order] >= q
=============================================================================
