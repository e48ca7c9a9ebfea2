------------------------------ MODULE AuditLog ------------------------------
(***************************************************************************)
(* The audit log of aether_protocol_c/audit.py: one AuditLog object shared *)
(* by several threads.  It keeps an append-only JSONL file, the source of  *)
(* truth, and a SQLite index from record id to byte offset, which exists   *)
(* to seek straight to a line.                                             *)
(*                                                                         *)
(* A thread steps through _append, and through the _rotate nested in it,   *)
(* at the points where another thread, a failure or the death of the       *)
(* process can come between.  The records' contents are abstracted to the  *)
(* number of the call that built them.                                     *)
(***************************************************************************)
EXTENDS Integers, FiniteSets

CONSTANTS
    Threads,       \* the threads that share the AuditLog object
    Orders,        \* order ids
    Phases,        \* the three phase labels
    RotationId,    \* the record id "__system___LOG_ROTATION"
    NoThread,
    NoRecord,
    Torn,          \* what a write cut short leaves: no JSON, no newline
    EntryLen,      \* bytes of a phase record's line
    MarkerLen,     \* bytes of a rotation marker's line
    TornLen,       \* bytes of a torn fragment: less than a line, no newline
    MaxFileSize,   \* max_file_size_mb, in bytes; 0: rotate at every append
    Stamps,        \* the timestamp suffixes archives are named with
    FreshStamps,   \* TRUE: the clock never gives two rotations one suffix
    Faults,        \* the kinds of fault the environment may inject
    MaxCalls,      \* bound on the appends that are called
    MaxFaults      \* bound on the faults that are injected

RecordIds == Orders \X Phases

ASSUME ThreadsAssumption == NoThread \notin Threads
ASSUME LengthsAssumption ==
    /\ EntryLen \in Nat \ {0}
    /\ MarkerLen \in Nat \ {0}
    /\ TornLen \in Nat \ {0} /\ TornLen < EntryLen /\ TornLen < MarkerLen
ASSUME SizeAssumption == MaxFileSize \in Nat
ASSUME IdsAssumption == RotationId \notin RecordIds
ASSUME BoundsAssumption == MaxCalls \in Nat /\ MaxFaults \in Nat
ASSUME FaultsAssumption ==
    /\ FreshStamps \in BOOLEAN
    /\ Faults \subseteq {"crash", "half_rotation", "rename", "write",
                         "index", "commit", "close", "db_removed"}

\* A phase record carries the number of the call that built it, a rotation
\* marker the name of the archive the previous file was moved to.
Entries == [id : RecordIds, data : 1 .. MaxCalls]
Markers == [id : {RotationId}, data : Stamps]
Records == Entries \cup Markers

ASSUME MarksAssumption == NoRecord \notin Records /\ Torn \notin Records

VARIABLES
    jsonl,      \* the live file: offset -> what was written there
    size,       \* its length; a missing file and an empty one are the same
    archives,   \* suffix -> the JSONL file archived under it
    rows,       \* the committed index: record id -> [off, line]
    pending,    \* rows of the connection's open transaction
    conn,       \* self._conn is not None
    lineCount,  \* self._line_count
    lockOwner,  \* the thread inside self._append_lock
    pc,         \* where each thread is in _append
    arg,        \* the entry each thread was called with
    nested,     \* the rotation marker it is appending meanwhile
    pos,        \* the offset it read with tell()
    want,       \* offsets a reader got from the index and has yet to seek to
    up,         \* the AuditLog object exists
    calls, acked, faults  \* observers: appends called, returned; faults so far

fileVars == <<jsonl, size, archives>>
indexVars == <<rows, pending>>
threadVars == <<pc, arg, nested, pos>>
vars == <<fileVars, indexVars, conn, lineCount, lockOwner, threadVars, want,
          up, calls, acked, faults>>

-----------------------------------------------------------------------------
(* Files and indexes as partial functions. *)

Empty == [x \in {} |-> NoRecord]
Put(f, k, v) == [x \in DOMAIN f \cup {k} |-> IF x = k THEN v ELSE f[x]]
Over(f, g) == [x \in DOMAIN f \cup DOMAIN g |->
                  IF x \in DOMAIN g THEN g[x] ELSE f[x]]

RecordsIn(f) == {f[o] : o \in DOMAIN f} \ {Torn}
LineLen(r) == IF r.id = RotationId THEN MarkerLen ELSE EntryLen

\* seek(off); readline(); json.loads: the record that starts there, or nothing
\* when the offset is past the end, inside a line or at a torn fragment.
RecordAt(f, off) ==
    IF off \in DOMAIN f /\ f[off] # Torn THEN f[off] ELSE NoRecord

\* Physical lines.  What follows a torn fragment is on the fragment's line.
CountLines(f) ==
    Cardinality({o \in DOMAIN f :
        ~(o - TornLen \in DOMAIN f /\ f[o - TornLen] = Torn)})

\* _rebuild_index scans up to the first line that does not parse.
Scanned(f) == {o \in DOMAIN f : \A p \in DOMAIN f : p <= o => f[p] # Torn}
Corrupt(f) == Torn \in {f[o] : o \in DOMAIN f}

Latest(f, i) ==
    LET at == {o \in Scanned(f) : f[o].id = i}
    IN  CHOOSE o \in at : \A p \in at : p <= o
Rebuilt(f) ==
    [i \in {f[o].id : o \in Scanned(f)} |->
        [off  |-> Latest(f, i),
         line |-> Cardinality({o \in DOMAIN f : o < Latest(f, i)})]]

\* What the connection sees: its open transaction over the committed rows.
View == Over(rows, pending)

-----------------------------------------------------------------------------
(* Helpers of the actions. *)

Inject(kind) == kind \in Faults /\ faults < MaxFaults /\ faults' = faults + 1
Goto(t, label) == pc' = [pc EXCEPT ![t] = label]

\* The entry of the innermost _append frame of t.
Current(t) == IF nested[t] # NoRecord THEN nested[t] ELSE arg[t]

CanAcquire_NoLock(t) == TRUE                 \* mutant: no lock
CanAcquire(t) == lockOwner \in {NoThread, t}

\* An exception leaves every `with self._append_lock` block of t.
Raise(t) ==
    /\ Goto(t, "idle")
    /\ arg' = [arg EXCEPT ![t] = NoRecord]
    /\ nested' = [nested EXCEPT ![t] = NoRecord]
    /\ lockOwner' = NoThread

\* _maybe_rotate; a rotation entry never rotates again.
RotationDue_Late(t) == \* mutant: tests whether a whole line is over the limit
    /\ Current(t).id # RotationId
    /\ IF MaxFileSize = 0 THEN lineCount > 0 ELSE size > MaxFileSize + EntryLen
RotationDue(t) ==
    /\ Current(t).id # RotationId
    /\ IF MaxFileSize = 0 THEN lineCount > 0 ELSE size >= MaxFileSize

Quiet == up /\ \A t \in Threads : pc[t] = "idle"

-----------------------------------------------------------------------------
Init ==
    /\ jsonl = Empty /\ size = 0 /\ archives = Empty
    /\ rows = Empty /\ pending = Empty
    /\ conn = TRUE /\ lineCount = 0 /\ up = TRUE
    /\ lockOwner = NoThread
    /\ pc = [t \in Threads |-> "idle"]
    /\ arg = [t \in Threads |-> NoRecord]
    /\ nested = [t \in Threads |-> NoRecord]
    /\ pos = [t \in Threads |-> 0]
    /\ want = [t \in Threads |-> Empty]
    /\ calls = 0 /\ acked = {} /\ faults = 0

(***************************************************************************)
(* Appending.  append_commitment, append_execution and append_settlement   *)
(* differ in the phase; with no order id they raise and change nothing.    *)
(***************************************************************************)
BeginAppend(t, id) ==
    /\ up /\ pc[t] = "idle" /\ want[t] = Empty
    /\ calls < MaxCalls
    /\ calls' = calls + 1
    /\ arg' = [arg EXCEPT ![t] = [id |-> id, data |-> calls + 1]]
    /\ Goto(t, "enter")
    /\ UNCHANGED <<fileVars, indexVars, conn, lineCount, lockOwner, nested,
                   pos, want, up, acked, faults>>

Enter(t) ==
    /\ pc[t] = "enter"
    /\ CanAcquire(t)
    /\ lockOwner' = t
    /\ Goto(t, IF RotationDue(t) THEN "close_conn" ELSE "write")
    /\ UNCHANGED <<fileVars, indexVars, conn, lineCount, arg, nested, pos,
                   want, up, calls, acked, faults>>

WriteLine_Truncates(t) == \* mutant: opened "wb"
    /\ pos' = [pos EXCEPT ![t] = 0]
    /\ jsonl' = Put(Empty, 0, Current(t))
    /\ size' = LineLen(Current(t))
\* open(path, "ab"); tell(); write(line + "\n"); close
WriteLine(t) ==
    /\ pos' = [pos EXCEPT ![t] = size]
    /\ jsonl' = Put(jsonl, size, Current(t))
    /\ size' = size + LineLen(Current(t))
Write(t) ==
    /\ pc[t] = "write"
    /\ WriteLine(t)
    /\ Goto(t, "insert")
    /\ UNCHANGED <<archives, indexVars, conn, lineCount, lockOwner, arg, nested,
                   want, up, calls, acked, faults>>

\* json.dumps, open or write raises; some of the line may be in the file.
WriteFails(t) ==
    /\ pc[t] = "write"
    /\ Inject("write")
    /\ \/ UNCHANGED <<jsonl, size>>
       \/ /\ jsonl' = Put(jsonl, size, Torn)
          /\ size' = size + TornLen
    /\ Raise(t)
    /\ UNCHANGED <<archives, indexVars, conn, lineCount, pos, want, up, calls,
                   acked>>

RowFor_MinusOne(t) == \* mutant: the number of the line before
    [off |-> pos[t], line |-> lineCount - 1]
RowFor(t) == [off |-> pos[t], line |-> lineCount]

InsertRow_Ignores(t) == \* mutant: INSERT OR IGNORE
    pending' = IF Current(t).id \in DOMAIN View THEN pending
               ELSE Put(pending, Current(t).id, RowFor(t))
InsertRow(t) == pending' = Put(pending, Current(t).id, RowFor(t))

\* _index_entry: INSERT OR REPLACE opens a transaction.
Insert(t) ==
    /\ pc[t] = "insert" /\ conn
    /\ InsertRow(t)
    /\ Goto(t, "commit")
    /\ UNCHANGED <<fileVars, rows, conn, lineCount, lockOwner, arg, nested, pos,
                   want, up, calls, acked, faults>>

\* commit(); the line count; the end of this frame's `with`.  The frame below
\* a rotation marker goes on to write its own entry, still holding the lock.
Commit(t) ==
    /\ pc[t] = "commit" /\ conn
    /\ rows' = View /\ pending' = Empty
    /\ lineCount' = lineCount + 1
    /\ IF nested[t] # NoRecord
       THEN /\ Goto(t, "write")
            /\ nested' = [nested EXCEPT ![t] = NoRecord]
            /\ UNCHANGED <<lockOwner, arg, acked>>
       ELSE /\ Goto(t, "idle")
            /\ arg' = [arg EXCEPT ![t] = NoRecord]
            /\ lockOwner' = NoThread
            /\ acked' = acked \cup {arg[t]}
            /\ UNCHANGED nested
    /\ UNCHANGED <<fileVars, conn, pos, want, up, calls, faults>>
\* SQLite refuses the INSERT: nothing joins the transaction.
InsertFails(t) ==
    /\ pc[t] = "insert"
    /\ Inject("index")
    /\ Raise(t)
    /\ UNCHANGED <<fileVars, indexVars, conn, lineCount, pos, want, up, calls,
                   acked>>

\* SQLite refuses the COMMIT: the transaction stays open or is rolled back.
CommitFails(t) ==
    /\ pc[t] = "commit"
    /\ Inject("commit")
    /\ pending' \in {pending, Empty}
    /\ Raise(t)
    /\ UNCHANGED <<fileVars, rows, conn, lineCount, pos, want, up, calls, acked>>

NoConnection_Waits(t) == \* mutant: waits for the connection to come back
    pc[t] \in {"close_conn", "insert", "commit"} /\ ~conn /\ UNCHANGED vars
\* self._conn is None: the next attribute access on it raises.
NoConnection(t) ==
    /\ pc[t] \in {"close_conn", "insert", "commit"} /\ ~conn
    /\ Raise(t)
    /\ UNCHANGED <<fileVars, indexVars, conn, lineCount, pos, want, up, calls,
                   acked, faults>>

(***************************************************************************)
(* Rotation: archive both files, start fresh ones, and append a marker     *)
(* that names the archive.                                                 *)
(***************************************************************************)
RotateClose(t) ==
    /\ pc[t] = "close_conn" /\ conn
    /\ conn' = FALSE /\ pending' = Empty
    /\ Goto(t, "rename_jsonl")
    /\ UNCHANGED <<fileVars, rows, lineCount, lockOwner, arg, nested, pos, want,
                   up, calls, acked, faults>>

\* The marker is built after the renames; its archive name is known here.
RotateJsonl(t) ==
    /\ pc[t] = "rename_jsonl"
    /\ \E ts \in Stamps :
        /\ FreshStamps => ts \notin DOMAIN archives
        /\ archives' = Put(archives, ts, jsonl)
        /\ nested' = [nested EXCEPT ![t] = [id |-> RotationId, data |-> ts]]
    /\ jsonl' = Empty /\ size' = 0
    /\ Goto(t, "rename_db")
    /\ UNCHANGED <<indexVars, conn, lineCount, lockOwner, arg, pos, want, up,
                   calls, acked, faults>>

RotateDb_Skips(t) == \* mutant: the database is not moved
    /\ pc[t] = "rename_db"
    /\ Goto(t, "fresh")
    /\ UNCHANGED <<fileVars, indexVars, conn, lineCount, lockOwner, arg, nested,
                   pos, want, up, calls, acked, faults>>
RotateDb(t) ==
    /\ pc[t] = "rename_db"
    /\ rows' = Empty
    /\ Goto(t, "fresh")
    /\ UNCHANGED <<fileVars, pending, conn, lineCount, lockOwner, arg, nested,
                   pos, want, up, calls, acked, faults>>

RotateFresh_KeepsCount(t) == \* mutant: _line_count is not reset
    /\ pc[t] = "fresh"
    /\ conn' = TRUE
    /\ Goto(t, "enter")
    /\ UNCHANGED <<fileVars, indexVars, lineCount, lockOwner, arg, nested, pos,
                   want, up, calls, acked, faults>>
RotateFresh_NoMarker(t) == \* mutant: the rotation is not recorded
    /\ pc[t] = "fresh"
    /\ conn' = TRUE /\ lineCount' = 0
    /\ nested' = [nested EXCEPT ![t] = NoRecord]
    /\ Goto(t, "write")
    /\ UNCHANGED <<fileVars, indexVars, lockOwner, arg, pos, want, up, calls,
                   acked, faults>>
\* touch, _init_db, _line_count = 0; then _append(rotation_entry)
RotateFresh(t) ==
    /\ pc[t] = "fresh"
    /\ conn' = TRUE /\ lineCount' = 0
    /\ Goto(t, "enter")
    /\ UNCHANGED <<fileVars, indexVars, lockOwner, arg, nested, pos, want, up,
                   calls, acked, faults>>

\* A rename, the touch or the connect raises, and self._conn stays None; or
\* _init_db fails later, and leaves a connection beside the old line count.
RenameFails(t) ==
    /\ pc[t] \in {"rename_jsonl", "rename_db", "fresh"}
    /\ Inject(IF pc[t] = "rename_db" THEN "half_rotation" ELSE "rename")
    /\ Raise(t)
    /\ conn' \in IF pc[t] = "fresh" THEN BOOLEAN ELSE {conn}
    /\ UNCHANGED <<fileVars, indexVars, lineCount, pos, want, up, calls, acked>>

(***************************************************************************)
(* Reading: get_by_id, get_trade_flow and query ask the index without the  *)
(* lock, and open the JSONL file afterwards.                               *)
(***************************************************************************)
ReadSets ==
    {{i} : i \in RecordIds \cup {RotationId}}     \* get_by_id
        \cup {{o} \X Phases : o \in Orders}       \* get_trade_flow
        \cup {Orders \X {p} : p \in Phases}       \* query(record_type)

Lookup(t, ids) ==
    /\ up /\ conn /\ pc[t] = "idle" /\ want[t] = Empty
    /\ want' = [want EXCEPT ![t] = [i \in ids \cap DOMAIN View |-> View[i].off]]
    /\ UNCHANGED <<fileVars, indexVars, conn, lineCount, lockOwner, threadVars,
                   up, calls, acked, faults>>

\* What the seeks would give now is stated in ReadsReturnWhatWasAsked.
Seek(t) ==
    /\ want[t] # Empty
    /\ want' = [want EXCEPT ![t] = Empty]
    /\ UNCHANGED <<fileVars, indexVars, conn, lineCount, lockOwner, threadVars,
                   up, calls, acked, faults>>

(***************************************************************************)
(* The object's life: close, crash, open.                                  *)
(***************************************************************************)
\* close() takes no lock; the thread that calls it may not be alone.
Close ==
    /\ up /\ conn
    /\ Inject("close")
    /\ conn' = FALSE /\ pending' = Empty
    /\ UNCHANGED <<fileVars, rows, lineCount, lockOwner, threadVars, want, up,
                   calls, acked>>

Exit ==
    /\ Quiet
    /\ \A t \in Threads : want[t] = Empty
    /\ up' = FALSE /\ conn' = FALSE /\ pending' = Empty
    /\ UNCHANGED <<fileVars, rows, lineCount, lockOwner, threadVars, want,
                   calls, acked, faults>>

BetweenRenames == \E t \in Threads : pc[t] = "rename_db"

\* The process dies.  A buffered line may have been cut short on its way.
Crash ==
    /\ up
    /\ Inject(IF BetweenRenames THEN "half_rotation" ELSE "crash")
    /\ \/ UNCHANGED <<jsonl, size>>
       \/ /\ \E t \in Threads : pc[t] = "write"
          /\ jsonl' = Put(jsonl, size, Torn)
          /\ size' = size + TornLen
    /\ up' = FALSE /\ conn' = FALSE /\ pending' = Empty
    /\ lockOwner' = NoThread
    /\ pc' = [t \in Threads |-> "idle"]
    /\ arg' = [t \in Threads |-> NoRecord]
    /\ nested' = [t \in Threads |-> NoRecord]
    /\ want' = [t \in Threads |-> Empty]
    /\ UNCHANGED <<archives, rows, lineCount, pos, calls, acked>>

\* The index is disposable: an operator removes it while the log is closed.
DeleteDb ==
    /\ ~up /\ rows # Empty
    /\ Inject("db_removed")
    /\ rows' = Empty
    /\ UNCHANGED <<fileVars, pending, conn, lineCount, lockOwner, threadVars,
                   want, up, calls, acked>>

MustRebuild == CountLines(jsonl) > 0 /\ rows = Empty

\* __init__ : connect, count the lines, rebuild an empty index.  A corrupt line
\* commits the rows before it and raises: there is no object then.
Open ==
    /\ ~up
    /\ lineCount' = CountLines(jsonl)
    /\ rows' = IF MustRebuild THEN Rebuilt(jsonl) ELSE rows
    /\ up' = ~(MustRebuild /\ Corrupt(jsonl))
    /\ conn' = up'
    /\ UNCHANGED <<fileVars, pending, lockOwner, threadVars, want, calls, acked,
                   faults>>

-----------------------------------------------------------------------------
\* What the code does of its own accord once an append has begun.
Step(t) ==
    \/ Enter(t) \/ Write(t) \/ Insert(t) \/ Commit(t) \/ NoConnection(t)
    \/ RotateClose(t) \/ RotateJsonl(t) \/ RotateDb(t) \/ RotateFresh(t)

Fault(t) ==
    \/ WriteFails(t) \/ InsertFails(t) \/ CommitFails(t) \/ RenameFails(t)

Next ==
    \/ \E t \in Threads :
        \/ \E id \in RecordIds : BeginAppend(t, id)
        \/ Step(t)
        \/ Fault(t)
        \/ \E ids \in ReadSets : Lookup(t, ids)
        \/ Seek(t)
    \/ Close \/ Exit \/ Crash \/ DeleteDb \/ Open

Spec == Init /\ [][Next]_vars
FairSpec == Spec /\ \A t \in Threads : WF_vars(Step(t))
-----------------------------------------------------------------------------
(* Properties. *)

IsFile(f) == \A o \in DOMAIN f : f[o] \in Records \cup {Torn}
IsIndex(ix) ==
    /\ DOMAIN ix \subseteq RecordIds \cup {RotationId}
    /\ \A i \in DOMAIN ix : ix[i] \in [off : Nat, line : Nat]

Labels == {"idle", "enter", "write", "insert", "commit", "close_conn",
           "rename_jsonl", "rename_db", "fresh"}

TypeOK ==
    /\ size \in Nat
    /\ DOMAIN jsonl \subseteq 0 .. (size - 1) /\ IsFile(jsonl)
    /\ DOMAIN archives \subseteq Stamps
    /\ \A ts \in DOMAIN archives : IsFile(archives[ts])
    /\ IsIndex(rows) /\ IsIndex(pending)
    /\ conn \in BOOLEAN /\ up \in BOOLEAN
    /\ lineCount \in Nat
    /\ lockOwner \in Threads \cup {NoThread}
    /\ pc \in [Threads -> Labels]
    /\ arg \in [Threads -> Entries \cup {NoRecord}]
    /\ nested \in [Threads -> Markers \cup {NoRecord}]
    /\ pos \in [Threads -> Nat]
    /\ DOMAIN want = Threads
    /\ \A t \in Threads : DOMAIN want[t] \subseteq RecordIds \cup {RotationId}
    /\ calls \in 0 .. MaxCalls /\ faults \in 0 .. MaxFaults
    /\ acked \subseteq Entries

\* The row of a record id points at a line that holds a record of that id,
\* whatever else has failed: an index that points into the wrong record would
\* hand a verifier another order's data.
RowsMatchRecords ==
    ~BetweenRenames =>
        \A i \in DOMAIN View : /\ View[i].off \in DOMAIN jsonl
                               /\ jsonl[View[i].off] # Torn
                               /\ jsonl[View[i].off].id = i

\* "The JSONL file remains the source of truth": as long as nothing has failed,
\* between appends the index the threads built together, line numbers
\* included, is the one a full scan of the file would build.
IndexIsRebuildable == (Quiet /\ conn /\ faults = 0) => View = Rebuilt(jsonl)

\* A record whose append returned is in the live file or in an archive, after
\* any failure, crash, rotation or restart.
AckedNeverLost ==
    acked \subseteq RecordsIn(jsonl)
                        \cup UNION {RecordsIn(archives[ts]) : ts \in DOMAIN archives}

\* As long as it is in the live file, the index leads to it or to a later
\* record of the same id, never to an earlier one or to nothing.
AckedIsFindable ==
    (up /\ conn) =>
        \A o \in DOMAIN jsonl :
            jsonl[o] \in acked => /\ jsonl[o].id \in DOMAIN View
                                  /\ View[jsonl[o].id].off >= o

\* Every whole record of the live file is found through the index.
IndexIsComplete ==
    (Quiet /\ conn) => \A r \in RecordsIn(jsonl) : r.id \in DOMAIN View

\* A reader gets the record it asked for or nothing, although it looks up the
\* offset and opens the file at different times and takes no lock.
ReadsReturnWhatWasAsked ==
    \A t \in Threads : \A i \in DOMAIN want[t] :
        LET r == RecordAt(jsonl, want[t][i]) IN r # NoRecord => r.id = i

\* A file outgrows the limit by less than one line, or holds just the marker
\* and the entry that opened it.
SizeIsBounded ==
    MaxFileSize > 0 => \/ size < MaxFileSize + EntryLen
                       \/ size <= MarkerLen + EntryLen

\* As long as nothing has failed, every archive is reached from the live file by
\* following the marker in the first line of each file to the archive it names.
ArchivesAreChained ==
    (Quiet /\ faults = 0) => \A ts \in DOMAIN archives :
                \E f \in {jsonl} \cup {archives[s] : s \in DOMAIN archives} :
                    RecordAt(f, 0) = [id |-> RotationId, data |-> ts]

\* "The log is never modified or deleted -- only appended to": a step leaves
\* every line of the live file where it is or archives the file whole, and no
\* archive ever changes.
Kept(f, g) == \A k \in DOMAIN f : k \in DOMAIN g /\ g[k] = f[k]
NeverRewritten ==
    [][/\ \/ Kept(jsonl, jsonl')
          \/ \E ts \in DOMAIN archives' : archives'[ts] = jsonl
       /\ Kept(archives, archives')]_vars

\* An append that was called returns or raises: no path, exceptional ones
\* included, leaves the lock held, and the rotation nested in it re-enters.
AppendReturns == \A t \in Threads : pc[t] = "enter" ~> pc[t] = "idle"
=============================================================================
