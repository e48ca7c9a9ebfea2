-------------------------- MODULE AuditIndexProofs --------------------------
(***************************************************************************)
(* AuditLog: what rotations leave behind, and how the index follows the    *)
(* file.  For any number of threads, orders, calls and faults, any line    *)
(* lengths and any size limit.                                             *)
(***************************************************************************)
EXTENDS AuditLogProofs

-----------------------------------------------------------------------------
(* Rotations.  While a thread holds a marker the file is the fresh one: it  *)
(* is empty until the marker is in it, and then holds nothing else.         *)

HasMarker(t) == nested[t] # NoRecord
MarkerInv ==
    \A t \in Threads :
        /\ HasMarker(t) =>
             /\ pc[t] \in {"rename_db", "fresh", "enter", "write", "insert",
                           "commit"}
             /\ size = IF Pending(t) THEN MarkerLen ELSE 0
        /\ pc[t] \in {"rename_db", "fresh"} => HasMarker(t)

(* Only one thread is in the section or holds a marker.                     *)
LEMMA Exclusive ==
    ASSUME LockInv, NEW t \in Threads, NEW u \in Threads,
           InSection(t) \/ HasMarker(t), InSection(u) \/ HasMarker(u)
    PROVE  t = u
  BY DEF LockInv, HasMarker

LEMMA MarkerType ==
    ASSUME TypeInv, NEW t \in Threads
    PROVE  /\ HasMarker(t) => /\ nested[t] \in Markers /\ Current(t) = nested[t]
                              /\ Current(t).id = RotationId
                              /\ LineLen(Current(t)) = MarkerLen
           /\ ~HasMarker(t) /\ pc[t] # "idle" =>
                              /\ Current(t) = arg[t] /\ arg[t] \in Entries
                              /\ Current(t).id # RotationId
                              /\ LineLen(Current(t)) = EntryLen
  <1>1. HasMarker(t) => nested[t] \in Markers /\ Current(t) = nested[t]
    BY DEF TypeInv, TypeOK, HasMarker, Current
  <1>2. ~HasMarker(t) /\ pc[t] # "idle" => Current(t) = arg[t] /\ arg[t] \in Entries
    BY DEF TypeInv, Called, HasMarker, Current
  <1> QED
    BY <1>1, <1>2, IdsAssumption DEF Markers, Entries, LineLen

(* A step of t moves no other thread and touches no other thread's marker.  *)
OthersStay(t) ==
    \A u \in Threads \ {t} : pc'[u] = pc[u] /\ nested'[u] = nested[u]

LEMMA MarkerNext ==
    TypeInv /\ LockInv /\ MarkerInv /\ [Next]_vars => MarkerInv'
  <1> SUFFICES ASSUME TypeInv, LockInv, MarkerInv, [Next]_vars
               PROVE  MarkerInv'
    OBVIOUS
  <1> USE DEF fileVars, indexVars, threadVars, Goto
  <1>a. /\ pc \in [Threads -> Labels] /\ size \in Nat
        /\ nested \in [Threads -> Markers \cup {NoRecord}]
    BY DEF TypeInv, TypeOK
  <1>b. ASSUME NEW t \in Threads, InSection(t), OthersStay(t),
               \/ ~HasMarker(t)'
               \/ /\ pc'[t] \in {"rename_db", "fresh", "enter", "write",
                                 "insert", "commit"}
                  /\ size' = IF Pending(t)' THEN MarkerLen ELSE 0,
               pc'[t] \in {"rename_db", "fresh"} => HasMarker(t)'
        PROVE  MarkerInv'
    <2>1. ASSUME NEW u \in Threads, u # t
          PROVE  ~HasMarker(u)' /\ pc'[u] \notin {"rename_db", "fresh"}
      <3>1. ~HasMarker(u) /\ ~InSection(u)
        BY <1>b, <2>1, Exclusive
      <3> QED
        BY <1>b, <2>1, <3>1 DEF OthersStay, HasMarker, InSection
    <2> QED
      BY <1>b, <2>1 DEF MarkerInv
  <1>1. ASSUME NEW t \in Threads, NEW id \in RecordIds, BeginAppend(t, id)
        PROVE  MarkerInv'
    BY <1>a, <1>1 DEF BeginAppend, MarkerInv, HasMarker, Pending
  <1>2. ASSUME NEW t \in Threads, Enter(t) PROVE MarkerInv'
    <2>1. HasMarker(t) => ~RotationDue(t)
      BY MarkerType DEF RotationDue
    <2> QED
      BY <1>a, <1>2, <2>1 DEF Enter, MarkerInv, HasMarker, Pending
  <1>3. ASSUME NEW t \in Threads, Write(t) PROVE MarkerInv'
    <2>1. OthersStay(t) /\ InSection(t) /\ pc'[t] = "insert" /\ nested' = nested
      BY <1>a, <1>3 DEF Write, OthersStay, InSection
    <2>2. HasMarker(t) => size' = MarkerLen
      BY <1>a, <1>3, MarkerType, LengthsAssumption
      DEF Write, WriteLine, MarkerInv, Pending
    <2> QED
      BY <1>b, <2>1, <2>2 DEF HasMarker, Pending
  <1>4. ASSUME NEW t \in Threads, Insert(t) PROVE MarkerInv'
    BY <1>a, <1>4 DEF Insert, MarkerInv, HasMarker, Pending
  <1>5. ASSUME NEW t \in Threads, Commit(t) PROVE MarkerInv'
    <2>1. OthersStay(t) /\ InSection(t) /\ pc'[t] \in {"write", "idle"}
      BY <1>a, <1>5 DEF Commit, OthersStay, InSection
    <2>2. ~HasMarker(t)'
      BY <1>a, <1>5 DEF Commit, HasMarker
    <2> QED
      BY <1>b, <2>1, <2>2
  <1>6. ASSUME NEW t \in Threads, NoConnection(t) \/ Fault(t) PROVE MarkerInv'
    <2>1. Raise(t) /\ InSection(t)
      BY <1>6
      DEF NoConnection, Fault, WriteFails, InsertFails, CommitFails,
          RenameFails, InSection
    <2>2. OthersStay(t) /\ ~HasMarker(t)' /\ pc'[t] = "idle"
      BY <1>a, <2>1 DEF Raise, OthersStay, HasMarker
    <2> QED
      BY <1>b, <2>1, <2>2
  <1>7. ASSUME NEW t \in Threads, RotateClose(t) PROVE MarkerInv'
    BY <1>a, <1>7 DEF RotateClose, MarkerInv, HasMarker, Pending
  <1>8. ASSUME NEW t \in Threads, RotateJsonl(t) PROVE MarkerInv'
    <2>1. /\ OthersStay(t) /\ InSection(t) /\ pc'[t] = "rename_db"
          /\ size' = 0
      BY <1>a, <1>8 DEF RotateJsonl, OthersStay, InSection
    <2>2. HasMarker(t)'
      <3>1. PICK ts \in Stamps :
              nested' = [nested EXCEPT ![t] = [id |-> RotationId, data |-> ts]]
        BY <1>8 DEF RotateJsonl
      <3>2. nested'[t] \in Markers
        BY <1>a, <3>1 DEF Markers
      <3> QED
        BY <3>2, MarksAssumption DEF HasMarker, Records
    <2> QED
      BY <1>b, <2>1, <2>2 DEF Pending
  <1>9. ASSUME NEW t \in Threads, RotateDb(t) \/ RotateFresh(t)
        PROVE  MarkerInv'
    BY <1>a, <1>9 DEF RotateDb, RotateFresh, MarkerInv, HasMarker, Pending
  <1>10. ASSUME NEW t \in Threads,
                Seek(t) \/ \E ids \in ReadSets : Lookup(t, ids)
         PROVE  MarkerInv'
    BY <1>10 DEF Lookup, Seek, MarkerInv, HasMarker, Pending
  <1>11. CASE Close \/ Exit \/ DeleteDb \/ Open \/ UNCHANGED vars
    BY <1>11 DEF Close, Exit, DeleteDb, Open, vars, MarkerInv, HasMarker, Pending
  <1>12. CASE Crash
    BY <1>12 DEF Crash, MarkerInv, HasMarker
  <1> QED
    BY <1>1, <1>2, <1>3, <1>4, <1>5, <1>6, <1>7, <1>8, <1>9, <1>10, <1>11, <1>12
    DEF Next, Step

BaseInv == TypeInv /\ LockInv /\ InFlightInv /\ MarkerInv

LEMMA BaseAlways ==
    /\ Init => BaseInv
    /\ BaseInv /\ [Next]_vars => BaseInv'
  <1>1. Init => BaseInv
    BY InitInv DEF BaseInv, IInv, Init, MarkerInv, HasMarker
  <1>2. BaseInv /\ [Next]_vars => BaseInv'
    BY NextType, LockNext, InFlightNext, MarkerNext DEF BaseInv
  <1> QED
    BY <1>1, <1>2

(* An entry is written to a file that is below the limit, or that a rotation *)
(* has just begun with its marker; a fragment is shorter than the line.      *)
Room == size < MaxFileSize \/ size <= MarkerLen
SizeInv ==
    MaxFileSize > 0 =>
        /\ size < MaxFileSize + EntryLen \/ size <= MarkerLen + EntryLen
        /\ \A t \in Threads : pc[t] = "write" => Room

(* Steps that write nothing and let no thread on to its write.               *)
LEMMA SizeKept ==
    ASSUME SizeInv, size' = size,
           \A t \in Threads : pc'[t] = "write" => pc[t] = "write"
    PROVE  SizeInv'
  BY DEF SizeInv, Room

(* A fragment of the line that was to be written.                            *)
LEMMA TornFits ==
    ASSUME TypeInv, SizeInv, \E t \in Threads : pc[t] = "write",
           size' = size + TornLen, \A t \in Threads : pc'[t] # "write"
    PROVE  SizeInv'
  BY LengthsAssumption, SizeAssumption DEF SizeInv, Room, TypeInv, TypeOK

LEMMA SizeNext == BaseInv /\ SizeInv /\ [Next]_vars => SizeInv'
  <1> SUFFICES ASSUME BaseInv, SizeInv, [Next]_vars PROVE SizeInv'
    OBVIOUS
  <1> USE DEF fileVars, indexVars, threadVars, Goto
  <1>a. TypeInv /\ LockInv /\ MarkerInv
    BY DEF BaseInv
  <1>b. /\ pc \in [Threads -> Labels] /\ size \in Nat
        /\ EntryLen \in Nat /\ MarkerLen \in Nat /\ MaxFileSize \in Nat
    BY <1>a, LengthsAssumption, SizeAssumption DEF TypeInv, TypeOK
  <1>1. ASSUME NEW t \in Threads, NEW id \in RecordIds, BeginAppend(t, id)
        PROVE  SizeInv'
    BY <1>b, <1>1, SizeKept DEF BeginAppend
  <1>2. ASSUME NEW t \in Threads, Enter(t) PROVE SizeInv'
    <2>1. HasMarker(t) => size = 0
      BY <1>a, <1>2 DEF Enter, MarkerInv, Pending
    <2>2. ~HasMarker(t) => Current(t).id # RotationId
      BY <1>a, <1>2, MarkerType DEF Enter
    <2>3. MaxFileSize > 0 /\ pc'[t] = "write" => Room
      BY <1>b, <1>2, <2>1, <2>2 DEF Enter, RotationDue, Room
    <2>4. size' = size /\ \A u \in Threads \ {t} : pc'[u] = pc[u]
      BY <1>b, <1>2 DEF Enter
    <2> QED
      BY <2>3, <2>4 DEF SizeInv, Room
  <1>3. ASSUME NEW t \in Threads, Write(t) PROVE SizeInv'
    <2>1. size' = size + LineLen(Current(t)) /\ pc[t] = "write"
          /\ \A u \in Threads : u # t => pc'[u] = pc[u]
      BY <1>b, <1>3 DEF Write, WriteLine
    <2>2. \A u \in Threads : pc'[u] # "write"
      <3>1. \A u \in Threads : InSection(u) => u = t
        BY <1>a, <2>1, Exclusive DEF InSection
      <3> QED
        BY <1>b, <1>3, <2>1, <3>1 DEF Write, InSection
    <2>3. CASE HasMarker(t)
      <3>1. size' = MarkerLen
        BY <1>a, <1>b, <2>1, <2>3, MarkerType DEF MarkerInv, Pending
      <3> QED
        BY <1>b, <2>2, <3>1 DEF SizeInv
    <2>4. CASE ~HasMarker(t)
      <3>1. size' = size + EntryLen
        BY <1>a, <2>1, <2>4, MarkerType
      <3> QED
        BY <1>b, <2>1, <2>2, <3>1 DEF SizeInv, Room
    <2> QED
      BY <2>3, <2>4
  <1>4. ASSUME NEW t \in Threads, Insert(t) \/ RotateClose(t) \/ RotateDb(t)
                                  \/ RotateFresh(t) \/ NoConnection(t)
        PROVE  SizeInv'
    BY <1>b, <1>4, SizeKept
    DEF Insert, RotateClose, RotateDb, RotateFresh, NoConnection, Raise
  <1>5. ASSUME NEW t \in Threads, Commit(t) PROVE SizeInv'
    <2>1. pc'[t] = "write" => size = MarkerLen
      BY <1>a, <1>b, <1>5 DEF Commit, MarkerInv, HasMarker, Pending
    <2>2. size' = size /\ \A u \in Threads \ {t} : pc'[u] = pc[u]
      BY <1>b, <1>5 DEF Commit
    <2> QED
      BY <1>b, <2>1, <2>2 DEF SizeInv, Room
  <1>6. ASSUME NEW t \in Threads, RotateJsonl(t) PROVE SizeInv'
    <2>1. size' = 0 /\ \A u \in Threads : pc'[u] = "write" => pc[u] = "write"
      BY <1>b, <1>6 DEF RotateJsonl
    <2> QED
      BY <1>b, <2>1 DEF SizeInv, Room
  <1>7. ASSUME NEW t \in Threads, Fault(t) PROVE SizeInv'
    <2>1. Raise(t)
      BY <1>7 DEF Fault, WriteFails, InsertFails, CommitFails, RenameFails
    <2>2. \A u \in Threads : pc'[u] = "write" => pc[u] = "write" /\ u # t
      BY <1>b, <2>1 DEF Raise
    <2>3. CASE size' = size
      BY <2>2, <2>3, SizeKept
    <2>4. CASE WriteFails(t) /\ size' # size
      <3>1. \A u \in Threads : InSection(u) => u = t
        BY <1>a, <2>4, Exclusive DEF WriteFails, InSection
      <3>2. \A u \in Threads : pc'[u] # "write"
        BY <2>2, <3>1 DEF InSection
      <3> QED
        BY <1>a, <2>4, <3>2, TornFits DEF WriteFails
    <2> QED
      BY <1>7, <2>3, <2>4 DEF Fault, InsertFails, CommitFails, RenameFails
  <1>8. ASSUME NEW t \in Threads,
               Seek(t) \/ \E ids \in ReadSets : Lookup(t, ids)
        PROVE  SizeInv'
    BY <1>8, SizeKept DEF Lookup, Seek
  <1>9. CASE Close \/ Exit \/ DeleteDb \/ Open \/ UNCHANGED vars
    BY <1>9, SizeKept DEF Close, Exit, DeleteDb, Open, vars
  <1>10. CASE Crash
    <2>1. \A t \in Threads : pc'[t] # "write"
      BY <1>10 DEF Crash
    <2> QED
      BY <1>a, <1>10, <2>1, SizeKept, TornFits DEF Crash
  <1> QED
    BY <1>1, <1>2, <1>3, <1>4, <1>5, <1>6, <1>7, <1>8, <1>9, <1>10
    DEF Next, Step

(* A file outgrows its limit by less than one line, or holds a marker and    *)
(* one entry, whatever fails and however many threads append.                *)
THEOREM FilesAreBounded == Spec => []SizeIsBounded
  <1>1. Init => SizeInv
    BY LengthsAssumption, SizeAssumption DEF Init, SizeInv, Room
  <1>2. SizeInv => SizeIsBounded
    BY DEF SizeInv, SizeIsBounded
  <1> QED
    BY <1>1, <1>2, BaseAlways, SizeNext, PTL DEF Spec

-----------------------------------------------------------------------------
(* The chain of archives.  An archive is reached through the first line of  *)
(* a file, or the thread that made it still has its marker to write: then   *)
(* the file is empty, and the marker becomes its first line.                *)

MarkerOf(ts) == [id |-> RotationId, data |-> ts]
Reached(ts) ==
    \E f \in {jsonl} \cup {archives[s] : s \in DOMAIN archives} :
        RecordAt(f, 0) = MarkerOf(ts)
InHand(ts) == \E t \in Threads : nested[t] = MarkerOf(ts) /\ ~Pending(t)
ChainInv ==
    faults = 0 => \A ts \in DOMAIN archives : Reached(ts) \/ InHand(ts)

LEMMA MarkerIsRecord ==
    ASSUME NEW ts \in Stamps
    PROVE  MarkerOf(ts) \in Markers /\ MarkerOf(ts) # NoRecord
           /\ MarkerOf(ts) # Torn
  <1>1. MarkerOf(ts) \in Markers
    BY DEF MarkerOf, Markers
  <1> QED
    BY <1>1, MarksAssumption DEF Records

(* What is reached stays reached: files grow or are archived whole.         *)
LEMMA StaysReached ==
    ASSUME FreshStamps, TypeInv, [Next]_vars, NEW ts \in Stamps, Reached(ts)
    PROVE  Reached(ts)'
  <1>1. Grows
    BY StepGrows
  <1>2. PICK f \in {jsonl} \cup {archives[s] : s \in DOMAIN archives} :
          RecordAt(f, 0) = MarkerOf(ts)
    BY DEF Reached
  <1>3. 0 \in DOMAIN f /\ f[0] = MarkerOf(ts)
    BY <1>2, MarkerIsRecord DEF RecordAt
  <1>4. ASSUME NEW g, 0 \in DOMAIN g, g[0] = MarkerOf(ts)
        PROVE  RecordAt(g, 0) = MarkerOf(ts)
    BY <1>4, MarkerIsRecord DEF RecordAt
  <1>5. CASE f = jsonl
    <2>1. CASE Kept(jsonl, jsonl')
      BY <1>3, <1>4, <1>5, <2>1 DEF Kept, Reached
    <2>2. CASE \E s \in DOMAIN archives' : archives'[s] = jsonl
      BY <1>2, <1>5, <2>2 DEF Reached
    <2> QED
      BY <1>1, <2>1, <2>2 DEF Grows
  <1>6. ASSUME NEW s \in DOMAIN archives, f = archives[s] PROVE Reached(ts)'
    <2>1. s \in DOMAIN archives' /\ archives'[s] = archives[s]
      BY <1>1 DEF Grows, Kept
    <2> QED
      BY <1>2, <1>6, <2>1 DEF Reached
  <1> QED
    BY <1>2, <1>5, <1>6

(* Steps that archive nothing and write no marker.                          *)
LEMMA ChainKept ==
    ASSUME FreshStamps, TypeInv, ChainInv, [Next]_vars,
           archives' = archives, faults' = faults,
           \A t \in Threads : HasMarker(t) /\ ~Pending(t) =>
                                nested'[t] = nested[t] /\ ~Pending(t)'
    PROVE  ChainInv'
  <1> SUFFICES ASSUME faults = 0, NEW ts \in DOMAIN archives
               PROVE  Reached(ts)' \/ InHand(ts)'
    BY DEF ChainInv
  <1>1. ts \in Stamps
    BY DEF TypeInv, TypeOK
  <1>2. InHand(ts) => InHand(ts)'
    BY <1>1, MarkerIsRecord DEF InHand, HasMarker
  <1> QED
    BY <1>1, <1>2, StaysReached DEF ChainInv

LEMMA ChainNext ==
    ASSUME FreshStamps, BaseInv, ChainInv, [Next]_vars
    PROVE  ChainInv'
  <1> USE DEF fileVars, indexVars, threadVars, Goto
  <1>a. TypeInv /\ LockInv /\ MarkerInv
    BY DEF BaseInv
  <1>b. /\ pc \in [Threads -> Labels] /\ faults \in Nat
        /\ nested \in [Threads -> Markers \cup {NoRecord}]
        /\ DOMAIN archives \subseteq Stamps
    BY <1>a, BoundsAssumption DEF TypeInv, TypeOK
  <1>1. ASSUME NEW t \in Threads,
               \/ \E id \in RecordIds : BeginAppend(t, id)
               \/ Enter(t) \/ Insert(t) \/ Commit(t) \/ RotateClose(t)
               \/ RotateDb(t) \/ RotateFresh(t)
        PROVE  ChainInv'
    <2>1. \A u \in Threads : HasMarker(u) /\ ~Pending(u) =>
                                nested'[u] = nested[u] /\ ~Pending(u)'
      BY <1>b, <1>1
      DEF BeginAppend, Enter, Insert, Commit, RotateClose, RotateDb,
          RotateFresh, Pending
    <2>2. archives' = archives /\ faults' = faults
      BY <1>1
      DEF BeginAppend, Enter, Insert, Commit, RotateClose, RotateDb, RotateFresh
    <2> QED
      BY <1>a, <2>1, <2>2, ChainKept
  <1>2. ASSUME NEW t \in Threads, NoConnection(t) PROVE ChainInv'
    <2>1. ~HasMarker(t) \/ Pending(t)
      BY <1>a, <1>2 DEF NoConnection, MarkerInv, Pending
    <2>2. \A u \in Threads : HasMarker(u) /\ ~Pending(u) =>
                                nested'[u] = nested[u] /\ ~Pending(u)'
      BY <1>b, <1>2, <2>1 DEF NoConnection, Raise, Pending
    <2> QED
      BY <1>a, <1>2, <2>2, ChainKept DEF NoConnection
  <1>3. ASSUME NEW t \in Threads, Write(t) PROVE ChainInv'
    <2> SUFFICES ASSUME faults = 0, NEW ts \in DOMAIN archives
                 PROVE  Reached(ts)' \/ InHand(ts)'
      BY <1>3 DEF Write, ChainInv
    <2>1. CASE Reached(ts)
      BY <1>a, <1>b, <2>1, StaysReached
    <2>2. CASE nested[t] = MarkerOf(ts)
      <3>1. HasMarker(t) /\ ~Pending(t)
        BY <1>b, <1>3, <2>2, MarkerIsRecord DEF HasMarker, Write, Pending
      <3>2. size = 0 /\ Current(t) = MarkerOf(ts)
        BY <1>a, <2>2, <3>1, MarkerType DEF MarkerInv
      <3>3. jsonl' = Put(jsonl, 0, MarkerOf(ts))
        BY <1>3, <3>2 DEF Write, WriteLine
      <3>4. 0 \in DOMAIN jsonl' /\ jsonl'[0] = MarkerOf(ts)
        BY <3>3 DEF Put
      <3>5. RecordAt(jsonl', 0) = MarkerOf(ts)
        BY <1>b, <3>4, MarkerIsRecord DEF RecordAt
      <3> QED
        BY <3>5 DEF Reached
    <2>3. ASSUME NEW u \in Threads, u # t, nested[u] = MarkerOf(ts), ~Pending(u)
          PROVE  InHand(ts)'
      BY <1>b, <1>3, <2>3 DEF Write, InHand, Pending
    <2> QED
      BY <2>1, <2>2, <2>3 DEF ChainInv, InHand
  <1>4. ASSUME NEW t \in Threads, RotateJsonl(t) PROVE ChainInv'
    <2>1. PICK ts \in Stamps :
            /\ archives' = Put(archives, ts, jsonl)
            /\ nested' = [nested EXCEPT ![t] = MarkerOf(ts)]
      BY <1>4 DEF RotateJsonl, MarkerOf
    <2>2. ~HasMarker(t) /\ pc' = [pc EXCEPT ![t] = "rename_db"]
      BY <1>a, <1>4 DEF RotateJsonl, MarkerInv
    <2>3. InHand(ts)'
      BY <1>b, <2>1, <2>2 DEF InHand, Pending
    <2> SUFFICES ASSUME faults = 0, NEW s \in DOMAIN archives, s # ts
                 PROVE  Reached(s)' \/ InHand(s)'
      <3>1. faults' = faults /\ DOMAIN archives' = DOMAIN archives \cup {ts}
        BY <1>4, <2>1, PutKeeps DEF RotateJsonl
      <3> QED
        BY <2>3, <3>1 DEF ChainInv
    <2>4. CASE Reached(s)
      BY <1>a, <1>b, <2>4, StaysReached
    <2>5. CASE InHand(s)
      BY <1>b, <2>1, <2>2, <2>5, MarkerIsRecord DEF InHand, HasMarker, Pending
    <2> QED
      BY <2>4, <2>5 DEF ChainInv
  <1>5. ASSUME NEW t \in Threads, Fault(t) PROVE ChainInv'
    <2>1. faults' = faults + 1
      BY <1>5
      DEF Fault, WriteFails, InsertFails, CommitFails, RenameFails, Inject
    <2> QED
      BY <1>b, <2>1 DEF ChainInv
  <1>6. ASSUME NEW t \in Threads,
               Seek(t) \/ \E ids \in ReadSets : Lookup(t, ids)
        PROVE  ChainInv'
    BY <1>a, <1>6, ChainKept DEF Lookup, Seek, Pending
  <1>7. CASE Exit \/ Open \/ UNCHANGED vars
    BY <1>a, <1>7, ChainKept DEF Exit, Open, vars, Pending
  <1>8. CASE Close \/ Crash \/ DeleteDb
    <2>1. faults' = faults + 1
      BY <1>8 DEF Close, Crash, DeleteDb, Inject
    <2> QED
      BY <1>b, <2>1 DEF ChainInv
  <1> QED
    BY <1>1, <1>2, <1>3, <1>4, <1>5, <1>6, <1>7, <1>8 DEF Next, Step

(* No rotation breaks the chain: whatever the threads do, and wherever the  *)
(* rotations fall, each archive is named by the first line of a file.       *)
THEOREM ChainIsComplete == ASSUME FreshStamps PROVE Spec => []ArchivesAreChained
  <1>1. Init => ChainInv
    BY EmptyIsEmpty DEF Init, ChainInv
  <1>2. BaseInv /\ ChainInv => ArchivesAreChained
    <2> SUFFICES ASSUME BaseInv, ChainInv, Quiet, faults = 0,
                        NEW ts \in DOMAIN archives
                 PROVE  Reached(ts)
      BY DEF ArchivesAreChained, Reached, MarkerOf
    <2>1. ts \in Stamps
      BY DEF BaseInv, TypeInv, TypeOK
    <2>2. \A t \in Threads : ~HasMarker(t)
      BY DEF BaseInv, MarkerInv, Quiet
    <2>3. ~InHand(ts)
      BY <2>1, <2>2, MarkerIsRecord DEF InHand, HasMarker
    <2> QED
      BY <2>3 DEF ChainInv
  <1>3. BaseInv /\ ChainInv /\ [Next]_vars => ChainInv'
    BY ChainNext
  <1> QED
    BY <1>1, <1>2, <1>3, BaseAlways, PTL DEF Spec

-----------------------------------------------------------------------------
(* Scanning a file without torn fragments.                                  *)

LEMMA LatestIsLast ==
    ASSUME NEW f, NEW n \in Nat, DOMAIN f \subseteq 0 .. (n - 1),
           NEW o \in Scanned(f)
    PROVE  /\ Latest(f, f[o].id) \in Scanned(f)
           /\ f[Latest(f, f[o].id)].id = f[o].id
           /\ \A p \in Scanned(f) : f[p].id = f[o].id => p <= Latest(f, f[o].id)
  <1> DEFINE at == {p \in Scanned(f) : f[p].id = f[o].id}
  <1>1. at # {} /\ at \in SUBSET (0 .. (n - 1))
    BY DEF Scanned
  <1>2. \E m \in at : \A p \in at : p <= m
    BY <1>1, LargestExists
  <1>3. Latest(f, f[o].id) \in at /\ \A p \in at : p <= Latest(f, f[o].id)
    BY <1>2 DEF Latest
  <1> QED
    BY <1>3

LEMMA WholeIsScanned ==
    ASSUME NEW f, ~Corrupt(f)
    PROVE  Scanned(f) = DOMAIN f /\ \A o \in DOMAIN f : f[o] # Torn
  BY DEF Corrupt, Scanned

LEMMA LinesAreFinite ==
    ASSUME NEW f, NEW n \in Nat, DOMAIN f \subseteq 0 .. (n - 1)
    PROVE  IsFiniteSet(DOMAIN f)
  <1>1. IsFiniteSet(0 .. (n - 1))
    BY FS_Interval
  <1> QED
    BY <1>1, FS_Subset

LEMMA WholeLines ==
    ASSUME NEW f, ~Corrupt(f)
    PROVE  CountLines(f) = Cardinality(DOMAIN f)
  <1>1. {o \in DOMAIN f :
            ~(o - TornLen \in DOMAIN f /\ f[o - TornLen] = Torn)} = DOMAIN f
    BY WholeIsScanned
  <1> QED
    BY <1>1 DEF CountLines

(* A rebuilt index leads every record of a whole file to itself or to a     *)
(* later record of its id.                                                  *)
LEMMA RebuiltIsComplete ==
    ASSUME NEW f, NEW n \in Nat, DOMAIN f \subseteq 0 .. (n - 1), ~Corrupt(f),
           NEW o \in DOMAIN f
    PROVE  /\ f[o].id \in DOMAIN Rebuilt(f)
           /\ Rebuilt(f)[f[o].id].off >= o
  <1>1. o \in Scanned(f)
    BY WholeIsScanned
  <1>2. o <= Latest(f, f[o].id) /\ Latest(f, f[o].id) \in DOMAIN f
    BY <1>1, LatestIsLast DEF Scanned
  <1>3. f[o].id \in DOMAIN Rebuilt(f)
        /\ Rebuilt(f)[f[o].id].off = Latest(f, f[o].id)
    BY <1>1 DEF Rebuilt
  <1> QED
    BY <1>2, <1>3

-----------------------------------------------------------------------------
(* What append returned for is found.  The number of a call is given once;  *)
(* the line an append wrote is the file's last until it is through, and its *)
(* row is in the transaction it commits.                                    *)

CallsInv ==
    /\ \A t \in Threads :
        pc[t] # "idle" => arg[t].data <= calls /\ arg[t] \notin acked
    /\ \A t, u \in Threads :
        t # u /\ pc[t] # "idle" /\ pc[u] # "idle" => arg[t].data # arg[u].data
    /\ \A a \in acked : a.data <= calls

LEMMA CallsKept ==
    ASSUME CallsInv, calls' = calls, acked' = acked,
           \A t \in Threads :
                pc'[t] # "idle" => pc[t] # "idle" /\ arg'[t] = arg[t]
    PROVE  CallsInv'
  BY DEF CallsInv

LEMMA CallsNext == TypeInv /\ CallsInv /\ [Next]_vars => CallsInv'
  <1> SUFFICES ASSUME TypeInv, CallsInv, [Next]_vars PROVE CallsInv'
    OBVIOUS
  <1> USE DEF fileVars, indexVars, threadVars, Goto
  <1>a. /\ pc \in [Threads -> Labels] /\ calls \in Nat
        /\ DOMAIN arg = Threads /\ acked \subseteq Entries
        /\ \A t \in Threads : pc[t] # "idle" => arg[t] \in Entries
        /\ \A e \in Entries : e.data \in Nat
    BY BoundsAssumption DEF TypeInv, TypeOK, Called, Entries
  <1>1. ASSUME NEW t \in Threads, NEW id \in RecordIds, BeginAppend(t, id)
        PROVE  CallsInv'
    <2>1. /\ calls' = calls + 1 /\ acked' = acked
          /\ arg'[t] = [id |-> id, data |-> calls + 1]
          /\ \A u \in Threads \ {t} : pc'[u] = pc[u] /\ arg'[u] = arg[u]
      BY <1>a, <1>1 DEF BeginAppend
    <2>2. \A u \in Threads \ {t} : pc[u] # "idle" =>
            arg[u].data < calls + 1 /\ arg[u].data \in Nat /\ arg[u] \notin acked
      BY <1>a DEF CallsInv
    <2>3. \A a \in acked : a.data < calls + 1 /\ a.data \in Nat
      BY <1>a DEF CallsInv
    <2>4. arg'[t] \notin acked /\ arg'[t].data = calls + 1
      BY <1>a, <2>1, <2>3
    <2> QED
      BY <1>a, <2>1, <2>2, <2>3, <2>4 DEF CallsInv
  <1>2. ASSUME NEW t \in Threads, Commit(t) PROVE CallsInv'
    <2>1. CASE nested[t] # NoRecord
      BY <1>a, <1>2, <2>1, CallsKept DEF Commit
    <2>2. CASE nested[t] = NoRecord
      <3>1. /\ acked' = acked \cup {arg[t]} /\ calls' = calls
            /\ pc'[t] = "idle" /\ pc[t] # "idle"
            /\ \A u \in Threads \ {t} : pc'[u] = pc[u] /\ arg'[u] = arg[u]
        BY <1>a, <1>2, <2>2 DEF Commit
      <3>2. \A u \in Threads \ {t} : pc[u] # "idle" => arg[u] # arg[t]
        BY <3>1 DEF CallsInv
      <3> QED
        BY <3>1, <3>2 DEF CallsInv
    <2> QED
      BY <2>1, <2>2
  <1>3. ASSUME NEW t \in Threads,
               \/ Step(t) /\ ~Commit(t)
               \/ Fault(t)
               \/ Seek(t)
               \/ \E ids \in ReadSets : Lookup(t, ids)
        PROVE  CallsInv'
    <2>1. calls' = calls /\ acked' = acked
      BY <1>3
      DEF Step, Enter, Write, Insert, NoConnection, RotateClose, RotateJsonl,
          RotateDb, RotateFresh, Fault, WriteFails, InsertFails, CommitFails,
          RenameFails, Lookup, Seek
    <2>2. \A u \in Threads :
            pc'[u] # "idle" => pc[u] # "idle" /\ arg'[u] = arg[u]
      BY <1>a, <1>3
      DEF Step, Enter, Write, Insert, NoConnection, RotateClose, RotateJsonl,
          RotateDb, RotateFresh, Fault, WriteFails, InsertFails, CommitFails,
          RenameFails, Raise, Lookup, Seek
    <2> QED
      BY <2>1, <2>2, CallsKept
  <1>4. CASE Close \/ Exit \/ Crash \/ DeleteDb \/ Open \/ UNCHANGED vars
    BY <1>4, CallsKept DEF Close, Exit, Crash, DeleteDb, Open, vars
  <1> QED
    BY <1>1, <1>2, <1>3, <1>4 DEF Next, Step

LineInv ==
    \A t \in Threads :
        /\ Pending(t) => \A o \in DOMAIN jsonl : o <= pos[t]
        /\ pc[t] = "commit" /\ conn =>
              /\ Current(t).id \in DOMAIN pending
              /\ pending[Current(t).id].off = pos[t]

(* Steps during which no thread writes or inserts.                          *)
LEMMA LineKept ==
    ASSUME LineInv,
           \A t \in Threads : Pending(t)' =>
                /\ pc'[t] = pc[t] /\ pos'[t] = pos[t]
                /\ arg'[t] = arg[t] /\ nested'[t] = nested[t]
                /\ jsonl' = jsonl
                /\ conn' => conn /\ pending' = pending
    PROVE  LineInv'
  BY DEF LineInv, Pending, Current

LEMMA LineNext == BaseInv /\ LineInv /\ [Next]_vars => LineInv'
  <1> SUFFICES ASSUME BaseInv, LineInv, [Next]_vars PROVE LineInv'
    OBVIOUS
  <1> USE DEF fileVars, indexVars, threadVars, Goto
  <1>a. TypeInv /\ LockInv
    BY DEF BaseInv
  <1>b. /\ pc \in [Threads -> Labels] /\ pos \in [Threads -> Nat]
        /\ DOMAIN arg = Threads /\ DOMAIN nested = Threads
        /\ size \in Nat /\ DOMAIN jsonl \subseteq 0 .. (size - 1)
    BY <1>a DEF TypeInv, TypeOK
  <1>c. ASSUME NEW t \in Threads, InSection(t),
               \A u \in Threads \ {t} : pc'[u] = pc[u]
        PROVE  \A u \in Threads \ {t} : ~Pending(u)'
    BY <1>a, <1>c, Exclusive DEF InSection, Pending
  <1>1. ASSUME NEW t \in Threads,
               \/ \E id \in RecordIds : BeginAppend(t, id)
               \/ Enter(t) \/ Seek(t)
               \/ \E ids \in ReadSets : Lookup(t, ids)
        PROVE  LineInv'
    <2>1. /\ jsonl' = jsonl /\ conn' = conn /\ pending' = pending
          /\ pos' = pos /\ nested' = nested
      BY <1>1 DEF BeginAppend, Enter, Seek, Lookup
    <2>2. \A u \in Threads :
            Pending(u)' => pc'[u] = pc[u] /\ arg'[u] = arg[u]
      BY <1>b, <1>1 DEF BeginAppend, Enter, Seek, Lookup, Pending
    <2> QED
      BY <2>1, <2>2, LineKept
  <1>2. ASSUME NEW t \in Threads, Write(t) PROVE LineInv'
    <2>1. /\ pc'[t] = "insert" /\ pos'[t] = size
          /\ \A u \in Threads \ {t} : ~Pending(u)'
      BY <1>b, <1>c, <1>2 DEF Write, WriteLine, InSection
    <2>2. DOMAIN jsonl' = DOMAIN jsonl \cup {size}
      BY <1>2, PutKeeps DEF Write, WriteLine
    <2> QED
      BY <1>b, <2>1, <2>2 DEF LineInv, Pending
  <1>3. ASSUME NEW t \in Threads, Insert(t) PROVE LineInv'
    <2>1. /\ pc'[t] = "commit" /\ pos' = pos /\ jsonl' = jsonl
          /\ Current(t)' = Current(t)
          /\ \A u \in Threads \ {t} : ~Pending(u)'
      BY <1>b, <1>c, <1>3 DEF Insert, InSection, Current
    <2>2. /\ Current(t).id \in DOMAIN pending'
          /\ pending'[Current(t).id].off = pos[t]
      BY <1>3 DEF Insert, InsertRow, RowFor, Put
    <2>3. \A o \in DOMAIN jsonl : o <= pos[t]
      BY <1>3 DEF Insert, LineInv, Pending
    <2> QED
      BY <2>1, <2>2, <2>3 DEF LineInv, Pending
  <1>4. ASSUME NEW t \in Threads,
               \/ Commit(t) \/ NoConnection(t) \/ Fault(t)
               \/ RotateClose(t) \/ RotateJsonl(t) \/ RotateDb(t)
               \/ RotateFresh(t)
        PROVE  LineInv'
    <2>1. InSection(t) /\ ~Pending(t)' /\ \A u \in Threads \ {t} : pc'[u] = pc[u]
      BY <1>b, <1>4
      DEF Commit, NoConnection, RotateClose, RotateJsonl, RotateDb,
          RotateFresh, Fault, WriteFails, InsertFails, CommitFails,
          RenameFails, Raise, InSection, Pending
    <2> QED
      BY <1>c, <2>1, LineKept
  <1>5. CASE Close \/ DeleteDb \/ Open \/ UNCHANGED vars
    <2>1. CASE Open
      BY <1>a, <1>5, <2>1, LineKept DEF Open, LockInv, Pending
    <2> QED
      BY <1>5, <2>1, LineKept DEF Close, DeleteDb, vars
  <1>6. CASE Exit \/ Crash
    BY <1>6, LineKept DEF Exit, Crash, Quiet, Pending
  <1> QED
    BY <1>1, <1>2, <1>3, <1>4, <1>5, <1>6 DEF Next, Step

(* Only a write or a crash that cuts a line short leaves a fragment.        *)
NothingTears == {"write", "crash"} \cap Faults = {}

LEMMA WholeNext ==
    ASSUME NothingTears, BaseInv, ~Corrupt(jsonl), [Next]_vars
    PROVE  ~Corrupt(jsonl')
  <1> USE DEF fileVars, indexVars, threadVars
  <1>a. TypeInv /\ LockInv
    BY DEF BaseInv
  <1>1. CASE UNCHANGED jsonl
    BY <1>1
  <1>2. ASSUME NEW t \in Threads, Write(t) PROVE ~Corrupt(jsonl')
    <2>1. Current(t) # Torn
      BY <1>a, <1>2, CurrentIsRecord, MarksAssumption DEF Write
    <2>2. jsonl' = Put(jsonl, size, Current(t))
      BY <1>2 DEF Write, WriteLine
    <2> QED
      BY <2>1, <2>2 DEF Put, Corrupt
  <1>3. ASSUME NEW t \in Threads, RotateJsonl(t) PROVE ~Corrupt(jsonl')
    BY <1>3, EmptyIsEmpty DEF RotateJsonl, Corrupt
  <1>4. ASSUME NEW t \in Threads, Fault(t) PROVE UNCHANGED jsonl
    <2>1. ~WriteFails(t)
      BY DEF WriteFails, Inject, NothingTears
    <2> QED
      BY <1>4, <2>1 DEF Fault, InsertFails, CommitFails, RenameFails
  <1>5. ASSUME NEW t \in Threads,
               \/ \E id \in RecordIds : BeginAppend(t, id)
               \/ Step(t) /\ ~Write(t) /\ ~RotateJsonl(t)
               \/ \E ids \in ReadSets : Lookup(t, ids)
               \/ Seek(t)
        PROVE  UNCHANGED jsonl
    BY <1>5
    DEF BeginAppend, Step, Enter, Insert, Commit, NoConnection, RotateClose,
        RotateDb, RotateFresh, Lookup, Seek
  <1>6. CASE Crash
    <2>1. PICK t \in Threads : pc[t] = "rename_db"
      BY <1>6 DEF Crash, Inject, NothingTears, BetweenRenames
    <2>2. \A u \in Threads : pc[u] # "write"
      BY <1>a, <2>1, Exclusive DEF InSection
    <2> QED
      BY <1>1, <1>6, <2>2 DEF Crash
  <1>7. CASE Close \/ Exit \/ DeleteDb \/ Open \/ UNCHANGED vars
    BY <1>1, <1>7 DEF Close, Exit, DeleteDb, Open, vars
  <1> QED
    BY <1>1, <1>2, <1>3, <1>4, <1>5, <1>6, <1>7 DEF Next, Step

(* A rebuild stops at a torn fragment, commits the rows before it, and is   *)
(* not tried again.  So the index may be removed, or files may be torn, but *)
(* not both.                                                                *)
RebuildsAreWhole == "db_removed" \notin Faults \/ NothingTears

IndexKept == "db_removed" \notin Faults \/ up \/ rows # Empty
FindableInv ==
    /\ NothingTears => ~Corrupt(jsonl)
    /\ IndexKept =>
        \A o \in DOMAIN jsonl :
            jsonl[o] \in acked => /\ jsonl[o].id \in DOMAIN rows
                                  /\ rows[jsonl[o].id].off >= o
    /\ \A o \in DOMAIN jsonl :
        jsonl[o] \in acked /\ jsonl[o].id \in DOMAIN pending
            => pending[jsonl[o].id].off >= o

(* Steps that at most add to the file what no append has returned for, and  *)
(* drop the open transaction.                                               *)
LEMMA FindableKept ==
    ASSUME FindableInv, NothingTears => ~Corrupt(jsonl'),
           \A o \in DOMAIN jsonl' :
                jsonl'[o] \in acked => o \in DOMAIN jsonl /\ jsonl'[o] = jsonl[o],
           acked' = acked, rows' = rows, pending' \in {pending, Empty},
           up' => up
    PROVE  FindableInv'
  BY EmptyIsEmpty DEF FindableInv, IndexKept

CallInv == BaseInv /\ CallsInv /\ LineInv

LEMMA FindableNext ==
    ASSUME RebuildsAreWhole, CallInv, FindableInv, [Next]_vars
    PROVE  FindableInv'
  <1> USE DEF fileVars, indexVars, threadVars
  <1>a. /\ BaseInv /\ TypeInv /\ LockInv /\ MarkerInv /\ InFlightInv
        /\ CallsInv /\ LineInv
    BY DEF CallInv, BaseInv
  <1>b. /\ size \in Nat /\ DOMAIN jsonl \subseteq 0 .. (size - 1)
        /\ IsFile(jsonl) /\ acked \subseteq Entries
    BY <1>a DEF TypeInv, TypeOK
  <1>c. NothingTears => ~Corrupt(jsonl')
    BY <1>a, WholeNext DEF FindableInv
  <1>d. Torn \notin acked /\ \A m \in Markers : m \notin acked
    BY <1>b, MarksAssumption, IdsAssumption DEF Records, Entries, Markers
  <1>1. CASE /\ UNCHANGED <<jsonl, acked, rows>>
             /\ pending' \in {pending, Empty} /\ (up' => up)
    BY <1>c, <1>1, FindableKept
  <1>2. ASSUME NEW v, v \notin acked, jsonl' = Put(jsonl, size, v),
               acked' = acked, rows' = rows, pending' = pending \/ pending' = Empty,
               up' => up
        PROVE  FindableInv'
    <2>1. \A o \in DOMAIN jsonl' :
            jsonl'[o] \in acked => o \in DOMAIN jsonl /\ jsonl'[o] = jsonl[o]
      BY <1>2 DEF Put
    <2> QED
      BY <1>c, <1>2, <2>1, FindableKept
  <1>3. ASSUME NEW t \in Threads,
               \/ \E id \in RecordIds : BeginAppend(t, id)
               \/ Enter(t) \/ NoConnection(t) \/ RotateClose(t)
               \/ RotateFresh(t) \/ Seek(t)
               \/ \E ids \in ReadSets : Lookup(t, ids)
        PROVE  FindableInv'
    BY <1>1, <1>3
    DEF BeginAppend, Enter, NoConnection, RotateClose, RotateFresh, Seek, Lookup
  <1>4. ASSUME NEW t \in Threads, Write(t) PROVE FindableInv'
    <2>1. Current(t) \notin acked
      BY <1>a, <1>d, <1>4, MarkerType DEF Write, CallsInv
    <2> QED
      BY <1>2, <1>4, <2>1 DEF Write, WriteLine
  <1>5. ASSUME NEW t \in Threads, Insert(t) PROVE FindableInv'
    <2>1. \A o \in DOMAIN jsonl : o <= pos[t]
      BY <1>a, <1>5 DEF LineInv, Insert, Pending
    <2>2. pending' = Put(pending, Current(t).id, RowFor(t)) /\ RowFor(t).off = pos[t]
      BY <1>5 DEF Insert, InsertRow, RowFor
    <2>3. ASSUME NEW o \in DOMAIN jsonl, jsonl[o] \in acked,
                 jsonl[o].id \in DOMAIN pending'
          PROVE  pending'[jsonl[o].id].off >= o
      <3>1. pos[t] \in Nat /\ o \in Nat
        BY <1>a, <1>b DEF TypeInv, TypeOK
      <3> QED
        BY <2>1, <2>2, <2>3, <3>1 DEF FindableInv, Put
    <2> QED
      BY <1>5, <2>3 DEF Insert, FindableInv, IndexKept
  <1>6. ASSUME NEW t \in Threads, Commit(t) PROVE FindableInv'
    <2>1. /\ jsonl' = jsonl /\ rows' = Over(rows, pending) /\ pending' = Empty
          /\ up /\ up' = up /\ acked' \subseteq acked \cup {Current(t)}
      BY <1>a, <1>6 DEF Commit, View, LockInv, Current
    <2>2. /\ Current(t).id \in DOMAIN pending
          /\ pending[Current(t).id].off = pos[t]
          /\ \A o \in DOMAIN jsonl : o <= pos[t]
      BY <1>a, <1>6 DEF LineInv, Commit, Pending
    <2>3. ASSUME NEW o \in DOMAIN jsonl, jsonl[o] \in acked'
          PROVE  /\ jsonl[o].id \in DOMAIN rows'
                 /\ rows'[jsonl[o].id].off >= o
      <3>1. CASE jsonl[o] = Current(t)
        <4>1. pos[t] \in Nat /\ o \in Nat
          BY <1>a, <1>b DEF TypeInv, TypeOK
        <4> QED
          BY <2>1, <2>2, <3>1, <4>1 DEF Over
      <3>2. CASE jsonl[o] \in acked
        BY <2>1, <3>2 DEF Over, FindableInv, IndexKept
      <3> QED
        BY <2>1, <2>3, <3>1, <3>2
    <2> QED
      BY <1>c, <2>1, <2>3, EmptyIsEmpty DEF FindableInv
  <1>7. ASSUME NEW t \in Threads, RotateJsonl(t) PROVE FindableInv'
    BY <1>c, <1>7, EmptyIsEmpty DEF RotateJsonl, FindableInv
  <1>8. ASSUME NEW t \in Threads, RotateDb(t) PROVE FindableInv'
    <2>1. size = 0
      BY <1>a, <1>8 DEF RotateDb, MarkerInv, Pending
    <2>2. DOMAIN jsonl = {} /\ jsonl' = jsonl
      BY <1>b, <1>8, <2>1 DEF RotateDb
    <2> QED
      BY <1>c, <2>2 DEF FindableInv
  <1>9. ASSUME NEW t \in Threads, Fault(t) PROVE FindableInv'
    BY <1>1, <1>2, <1>d, <1>9
    DEF Fault, WriteFails, InsertFails, CommitFails, RenameFails
  <1>10. CASE Close \/ Exit \/ UNCHANGED vars
    BY <1>1, <1>10 DEF Close, Exit, vars
  <1>11. CASE Crash
    BY <1>1, <1>2, <1>d, <1>11 DEF Crash
  <1>12. CASE DeleteDb
    <2>1. "db_removed" \in Faults /\ ~up /\ up' = up /\ rows' = Empty
          /\ UNCHANGED <<jsonl, acked, pending>>
      BY <1>12 DEF DeleteDb, Inject
    <2> QED
      BY <2>1 DEF FindableInv, IndexKept
  <1>13. CASE Open
    <2>1. UNCHANGED <<jsonl, acked, pending>>
          /\ rows' = IF MustRebuild THEN Rebuilt(jsonl) ELSE rows
      BY <1>13 DEF Open
    <2>2. CASE IndexKept /\ ~MustRebuild
      BY <2>1, <2>2 DEF FindableInv
    <2>3. CASE "db_removed" \notin Faults /\ MustRebuild
      <3>1. \A o \in DOMAIN jsonl : jsonl[o] \notin acked
        BY <2>3, EmptyIsEmpty DEF FindableInv, IndexKept, MustRebuild
      <3> QED
        BY <2>1, <3>1 DEF FindableInv
    <2>4. CASE ~Corrupt(jsonl) /\ MustRebuild
      <3>1. \A o \in DOMAIN jsonl : /\ jsonl[o].id \in DOMAIN Rebuilt(jsonl)
                                    /\ Rebuilt(jsonl)[jsonl[o].id].off >= o
        BY <1>b, <2>4, RebuiltIsComplete
      <3> QED
        BY <2>1, <2>4, <3>1 DEF FindableInv
    <2>5. CASE ~Corrupt(jsonl) /\ rows = Empty /\ ~MustRebuild
      <3>1. IsFiniteSet(DOMAIN jsonl) /\ CountLines(jsonl) = Cardinality(DOMAIN jsonl)
        BY <1>b, <2>5, LinesAreFinite, WholeLines
      <3>2. Cardinality(DOMAIN jsonl) \in Nat /\ ~(Cardinality(DOMAIN jsonl) > 0)
        BY <2>5, <3>1, FS_CardinalityType DEF MustRebuild
      <3>3. Cardinality(DOMAIN jsonl) = 0
        BY <3>2
      <3>4. DOMAIN jsonl = {}
        BY <3>1, <3>3, FS_EmptySet
      <3> QED
        BY <1>c, <2>1, <3>4 DEF FindableInv
    <2> QED
      BY <1>13, <2>2, <2>3, <2>4, <2>5
      DEF Open, FindableInv, IndexKept, RebuildsAreWhole
  <1> QED
    BY <1>3, <1>4, <1>5, <1>6, <1>7, <1>8, <1>9, <1>10, <1>11, <1>12, <1>13
    DEF Next, Step

LEMMA CallAlways ==
    /\ Init => CallInv
    /\ CallInv /\ [Next]_vars => CallInv'
  <1>1. Init => CallInv
    BY BaseAlways DEF CallInv, Init, CallsInv, LineInv, Pending
  <1>2. CallInv /\ [Next]_vars => CallInv'
    BY BaseAlways, CallsNext, LineNext DEF CallInv, BaseInv
  <1> QED
    BY <1>1, <1>2

(* As long as it is in the live file, a record whose append returned is led *)
(* to by the index, or a later record of its id is, whatever else fails.    *)
THEOREM AckedIsFound ==
    ASSUME RebuildsAreWhole
    PROVE  Spec => []AckedIsFindable
  <1>1. Init => FindableInv
    BY EmptyIsEmpty DEF Init, FindableInv, Corrupt
  <1>2. CallInv /\ FindableInv => AckedIsFindable
    BY DEF FindableInv, IndexKept, AckedIsFindable, View, Over
  <1>3. CallInv /\ FindableInv /\ [Next]_vars => FindableInv'
    BY FindableNext
  <1> QED
    BY <1>1, <1>2, <1>3, CallAlways, PTL DEF Spec

-----------------------------------------------------------------------------
(* The index the threads build line by line is the one a scan would build:  *)
(* adding a line at the end of a whole file puts one row into the rebuilt   *)
(* index, numbered after the lines before it.                               *)

LEMMA RebuiltGrows ==
    ASSUME NEW f, NEW n \in Nat, DOMAIN f \subseteq 0 .. (n - 1), ~Corrupt(f),
           NEW r, r # Torn
    PROVE  /\ ~Corrupt(Put(f, n, r))
           /\ Rebuilt(Put(f, n, r)) =
                Put(Rebuilt(f), r.id, [off |-> n, line |-> Cardinality(DOMAIN f)])
  <1> DEFINE g == Put(f, n, r)
             row(h, i) == [off  |-> Latest(h, i),
                           line |-> Cardinality({o \in DOMAIN h : o < Latest(h, i)})]
             ids(h) == {h[o].id : o \in Scanned(h)}
  <1>1. /\ DOMAIN g = DOMAIN f \cup {n} /\ n \notin DOMAIN f
        /\ g[n] = r /\ \A o \in DOMAIN f : g[o] = f[o]
    BY DEF Put
  <1>2. Scanned(f) = DOMAIN f /\ \A o \in DOMAIN f : f[o] # Torn
    BY WholeIsScanned
  <1>3. ~Corrupt(g)
    BY <1>1, <1>2 DEF Corrupt
  <1> HIDE DEF g
  <1>4. Scanned(g) = DOMAIN g
    BY <1>3, WholeIsScanned
  <1>l. ASSUME NEW o \in DOMAIN g
        PROVE  /\ Latest(g, g[o].id) \in DOMAIN g
               /\ g[Latest(g, g[o].id)].id = g[o].id
               /\ \A p \in DOMAIN g : g[p].id = g[o].id => p <= Latest(g, g[o].id)
    <2> DEFINE m == n + 1
    <2>1. m \in Nat /\ DOMAIN g \subseteq 0 .. (m - 1)
      BY <1>1
    <2> HIDE DEF m
    <2> QED
      BY <1>4, <1>l, <2>1, LatestIsLast
  <1>5. ids(g) = ids(f) \cup {r.id}
    BY <1>1, <1>2, <1>4
  <1>6. Latest(g, r.id) = n
    <2>1. n \in DOMAIN g
      BY <1>1
    <2>2. Latest(g, r.id) \in DOMAIN g /\ n <= Latest(g, r.id)
      BY <1>1, <1>l, <2>1
    <2> QED
      BY <1>1, <2>2
  <1>7. row(g, r.id) = [off |-> n, line |-> Cardinality(DOMAIN f)]
    <2>1. {o \in DOMAIN g : o < n} = DOMAIN f
      BY <1>1
    <2> QED
      BY <1>6, <2>1
  <1>8. ASSUME NEW i \in ids(f), i # r.id PROVE row(g, i) = row(f, i)
    <2>1. PICK o \in DOMAIN f : f[o].id = i
      BY <1>2
    <2>2. /\ Latest(f, i) \in DOMAIN f /\ f[Latest(f, i)].id = i
          /\ \A p \in DOMAIN f : f[p].id = i => p <= Latest(f, i)
      BY <1>2, <2>1, LatestIsLast
    <2>3. o \in DOMAIN g /\ g[o].id = i
      BY <1>1, <2>1
    <2>4. /\ Latest(g, i) \in DOMAIN g /\ g[Latest(g, i)].id = i
          /\ \A p \in DOMAIN g : g[p].id = i => p <= Latest(g, i)
      BY <1>l, <2>3
    <2>5. Latest(g, i) \in DOMAIN f
      BY <1>1, <1>8, <2>4
    <2>6. Latest(g, i) <= Latest(f, i) /\ Latest(f, i) <= Latest(g, i)
      BY <1>1, <2>2, <2>4, <2>5
    <2>7. Latest(g, i) = Latest(f, i) /\ Latest(f, i) < n
      BY <2>2, <2>5, <2>6
    <2>8. {p \in DOMAIN g : p < Latest(f, i)} = {p \in DOMAIN f : p < Latest(f, i)}
      BY <1>1, <2>2, <2>7
    <2> QED
      BY <2>7, <2>8
  <1> HIDE DEF row, ids
  <1>9. Rebuilt(g) = [i \in ids(g) |-> row(g, i)]
        /\ Rebuilt(f) = [i \in ids(f) |-> row(f, i)]
    BY DEF Rebuilt, row, ids
  <1>10. Rebuilt(g) =
            Put(Rebuilt(f), r.id, [off |-> n, line |-> Cardinality(DOMAIN f)])
    BY <1>5, <1>7, <1>8, <1>9 DEF Put
  <1> QED
    BY <1>3, <1>10 DEF g

LEMMA NothingToRebuild ==
    ASSUME NEW f, DOMAIN f = {}
    PROVE  Rebuilt(f) = Empty /\ Cardinality(DOMAIN f) = 0 /\ ~Corrupt(f)
  <1>1. {f[o].id : o \in Scanned(f)} = {}
    BY DEF Scanned
  <1> QED
    BY <1>1, FS_EmptySet DEF Rebuilt, Empty, Corrupt

(* A transaction of one row over the committed ones.                        *)
LEMMA OneRow ==
    ASSUME NEW ix, NEW i, NEW v
    PROVE  Over(ix, Put(Empty, i, v)) = Put(ix, i, v)
  BY EmptyIsEmpty DEF Over, Put

LEMMA NoRow == ASSUME NEW f PROVE Over(Rebuilt(f), Empty) = Rebuilt(f)
  BY EmptyIsEmpty DEF Over, Rebuilt

Labelled(ls) == \E t \in Threads : pc[t] \in ls
Renaming == {"rename_jsonl", "rename_db", "fresh"}
Lines == Cardinality(DOMAIN jsonl)
Settled == pending = Empty /\ rows = Rebuilt(jsonl) /\ lineCount = Lines

IndexInv ==
    faults = 0 =>
        /\ ~Corrupt(jsonl)
        /\ up => conn \/ Labelled(Renaming)
        /\ Settled \/ Labelled({"insert", "commit", "rename_db", "fresh"})
        /\ \A t \in Threads :
            /\ pc[t] = "insert" =>
                /\ pending = Empty /\ lineCount + 1 = Lines
                /\ Put(rows, Current(t).id, RowFor(t)) = Rebuilt(jsonl)
            /\ pc[t] = "commit" =>
                View = Rebuilt(jsonl) /\ lineCount + 1 = Lines
            /\ pc[t] \in {"rename_db", "fresh"} =>
                pending = Empty /\ DOMAIN jsonl = {}
            /\ pc[t] = "fresh" => rows = Empty

(* Steps that change neither files nor index, outside the labels that       *)
(* IndexInv is about.                                                       *)
LEMMA IndexSame ==
    ASSUME IndexInv,
           UNCHANGED <<jsonl, rows, pending, lineCount, pos, conn, up, faults>>,
           \A t \in Threads :
                \/ pc'[t] = pc[t] /\ nested'[t] = nested[t] /\ arg'[t] = arg[t]
                \/ /\ pc[t] \notin Renaming \cup {"insert", "commit"}
                   /\ pc'[t] \notin Renaming \cup {"insert", "commit"}
    PROVE  IndexInv'
  <1> SUFFICES ASSUME faults = 0 PROVE IndexInv'
    BY DEF IndexInv
  <1>1. Labelled(Renaming) => Labelled(Renaming)'
    BY DEF Labelled, Renaming
  <1>2. Labelled({"insert", "commit", "rename_db", "fresh"})
            => Labelled({"insert", "commit", "rename_db", "fresh"})'
    BY DEF Labelled, Renaming
  <1>3. ASSUME NEW t \in Threads,
               pc'[t] \in {"insert", "commit", "rename_db", "fresh"}
        PROVE  pc[t] = pc'[t] /\ Current(t)' = Current(t) /\ RowFor(t)' = RowFor(t)
    BY <1>3 DEF Renaming, Current, RowFor
  <1>4. View' = View /\ Settled' = Settled /\ Lines' = Lines
    BY DEF View, Settled, Lines
  <1> QED
    BY <1>1, <1>2, <1>3, <1>4 DEF IndexInv

LEMMA IndexNext == BaseInv /\ IndexInv /\ [Next]_vars => IndexInv'
  <1> SUFFICES ASSUME BaseInv, IndexInv, [Next]_vars PROVE IndexInv'
    OBVIOUS
  <1> USE DEF fileVars, indexVars, threadVars, Goto
  <1>a. TypeInv /\ LockInv /\ MarkerInv
    BY DEF BaseInv
  <1>b. /\ pc \in [Threads -> Labels] /\ pos \in [Threads -> Nat]
        /\ DOMAIN arg = Threads /\ DOMAIN nested = Threads
        /\ size \in Nat /\ DOMAIN jsonl \subseteq 0 .. (size - 1)
        /\ faults \in Nat
    BY <1>a, BoundsAssumption DEF TypeInv, TypeOK
  <1>c. IsFiniteSet(DOMAIN jsonl) /\ Lines \in Nat
    BY <1>b, LinesAreFinite, FS_CardinalityType DEF Lines
  \* A step of the one thread that is in the section.
  <1>d. ASSUME NEW t \in Threads, InSection(t)
        PROVE  \A u \in Threads \ {t} : pc[u] \in {"idle", "enter"}
    BY <1>a, <1>b, <1>d, Exclusive DEF InSection
  <1>1. ASSUME faults' # 0 PROVE IndexInv'
    BY <1>1 DEF IndexInv
  <1>2. ASSUME NEW t \in Threads,
               \/ \E id \in RecordIds : BeginAppend(t, id)
               \/ Enter(t) \/ Seek(t)
               \/ \E ids \in ReadSets : Lookup(t, ids)
        PROVE  IndexInv'
    <2>1. UNCHANGED <<jsonl, rows, pending, lineCount, pos, conn, up, faults>>
      BY <1>2 DEF BeginAppend, Enter, Seek, Lookup
    <2>2. \A u \in Threads :
                \/ pc'[u] = pc[u] /\ nested'[u] = nested[u] /\ arg'[u] = arg[u]
                \/ /\ pc[u] \notin Renaming \cup {"insert", "commit"}
                   /\ pc'[u] \notin Renaming \cup {"insert", "commit"}
      BY <1>b, <1>2 DEF BeginAppend, Enter, Seek, Lookup, Renaming
    <2> QED
      BY <2>1, <2>2, IndexSame
  <1>3. ASSUME NEW t \in Threads, Write(t), faults = 0 PROVE IndexInv'
    <2>1. /\ pc' = [pc EXCEPT ![t] = "insert"] /\ pos'[t] = size
          /\ jsonl' = Put(jsonl, size, Current(t)) /\ Current(t)' = Current(t)
          /\ UNCHANGED <<rows, pending, lineCount, conn, up>>
      BY <1>b, <1>3 DEF Write, WriteLine, Current
    <2>2. Settled /\ ~Corrupt(jsonl) /\ (up => conn)
          /\ \A u \in Threads \ {t} : pc'[u] \in {"idle", "enter"}
      BY <1>3, <1>b, <1>d, <2>1
      DEF Write, InSection, IndexInv, Labelled, Renaming
    <2>3. Current(t) # Torn
      BY <1>a, <1>3, CurrentIsRecord, MarksAssumption DEF Write
    <2>4. ~Corrupt(jsonl')
      BY <1>b, <2>1, <2>2, <2>3, RebuiltGrows
    <2>5. Rebuilt(jsonl') = Put(Rebuilt(jsonl), Current(t).id,
                                [off |-> size, line |-> Cardinality(DOMAIN jsonl)])
      BY <1>b, <2>1, <2>2, <2>3, RebuiltGrows
    <2>6. Put(rows, Current(t).id, RowFor(t))' = Rebuilt(jsonl')
      BY <2>1, <2>2, <2>5 DEF Settled, Lines, RowFor
    <2>7. lineCount' + 1 = Lines'
      <3>1. DOMAIN jsonl' = DOMAIN jsonl \cup {size} /\ size \notin DOMAIN jsonl
        BY <1>b, <2>1 DEF Put
      <3>2. Cardinality(DOMAIN jsonl') = Cardinality(DOMAIN jsonl) + 1
        BY <1>c, <3>1, FS_AddElement
      <3> QED
        BY <2>1, <2>2, <3>2 DEF Settled, Lines
    <2>8. pc'[t] = "insert"
      BY <1>b, <2>1
    <2> QED
      BY <2>1, <2>2, <2>4, <2>6, <2>7, <2>8 DEF IndexInv, Labelled, Settled
  <1>4. ASSUME NEW t \in Threads, Insert(t), faults = 0 PROVE IndexInv'
    <2>1. /\ pc'[t] = "commit"
          /\ pending' = Put(Empty, Current(t).id, RowFor(t))
          /\ UNCHANGED <<jsonl, rows, lineCount, conn, up>>
          /\ Put(rows, Current(t).id, RowFor(t)) = Rebuilt(jsonl)
          /\ lineCount + 1 = Lines /\ ~Corrupt(jsonl) /\ conn
          /\ \A u \in Threads \ {t} : pc'[u] \in {"idle", "enter"}
      BY <1>4, <1>b, <1>d DEF Insert, InsertRow, InSection, IndexInv
    <2>2. View' = Rebuilt(jsonl')
      BY <2>1, OneRow DEF View
    <2> QED
      BY <2>1, <2>2 DEF IndexInv, Labelled, Lines
  <1>5. ASSUME NEW t \in Threads, Commit(t), faults = 0 PROVE IndexInv'
    <2>1. /\ pc'[t] \in {"write", "idle"}
          /\ rows' = Rebuilt(jsonl) /\ pending' = Empty /\ jsonl' = jsonl
          /\ lineCount' = lineCount + 1 /\ lineCount + 1 = Lines
          /\ ~Corrupt(jsonl) /\ conn'
          /\ \A u \in Threads \ {t} : pc'[u] \in {"idle", "enter"}
      BY <1>5, <1>b, <1>d DEF Commit, InSection, IndexInv
    <2> QED
      BY <2>1 DEF IndexInv, Settled, Lines
  <1>6. ASSUME NEW t \in Threads, NoConnection(t), faults = 0 PROVE FALSE
    <2>1. up /\ ~conn /\ pc[t] \in {"close_conn", "insert", "commit"}
      BY <1>a, <1>6 DEF NoConnection, LockInv
    <2>2. ~Labelled(Renaming)
      BY <1>d, <2>1 DEF InSection, Labelled, Renaming
    <2> QED
      BY <1>6, <2>1, <2>2 DEF IndexInv
  <1>7. ASSUME NEW t \in Threads, RotateClose(t), faults = 0 PROVE IndexInv'
    <2>1. /\ pc'[t] = "rename_jsonl" /\ pending' = Empty
          /\ UNCHANGED <<jsonl, rows, lineCount>>
          /\ Settled /\ ~Corrupt(jsonl)
          /\ \A u \in Threads \ {t} : pc'[u] \in {"idle", "enter"}
      BY <1>7, <1>b, <1>d DEF RotateClose, InSection, IndexInv, Labelled
    <2> QED
      BY <2>1 DEF IndexInv, Labelled, Renaming, Settled, Lines
  <1>8. ASSUME NEW t \in Threads, RotateJsonl(t), faults = 0 PROVE IndexInv'
    <2>1. /\ pc'[t] = "rename_db" /\ jsonl' = Empty
          /\ pending = Empty /\ pending' = pending
          /\ \A u \in Threads \ {t} : pc'[u] \in {"idle", "enter"}
      BY <1>8, <1>b, <1>d
      DEF RotateJsonl, InSection, IndexInv, Labelled, Settled
    <2>2. DOMAIN jsonl' = {} /\ ~Corrupt(jsonl')
      BY <2>1, EmptyIsEmpty, NothingToRebuild
    <2> QED
      BY <2>1, <2>2 DEF IndexInv, Labelled, Renaming
  <1>9. ASSUME NEW t \in Threads, RotateDb(t), faults = 0 PROVE IndexInv'
    <2>1. /\ pc'[t] = "fresh" /\ rows' = Empty
          /\ pending = Empty /\ pending' = pending
          /\ DOMAIN jsonl = {} /\ jsonl' = jsonl /\ ~Corrupt(jsonl)
          /\ \A u \in Threads \ {t} : pc'[u] \in {"idle", "enter"}
      BY <1>9, <1>b, <1>d DEF RotateDb, InSection, IndexInv
    <2> QED
      BY <2>1 DEF IndexInv, Labelled, Renaming
  <1>10. ASSUME NEW t \in Threads, RotateFresh(t), faults = 0 PROVE IndexInv'
    <2>1. /\ pc'[t] = "enter" /\ conn' /\ lineCount' = 0
          /\ rows = Empty /\ rows' = rows /\ pending = Empty /\ pending' = pending
          /\ DOMAIN jsonl = {} /\ jsonl' = jsonl /\ ~Corrupt(jsonl)
          /\ \A u \in Threads \ {t} : pc'[u] \in {"idle", "enter"}
      BY <1>10, <1>b, <1>d DEF RotateFresh, InSection, IndexInv
    <2>2. Rebuilt(jsonl) = Empty /\ Cardinality(DOMAIN jsonl) = 0
      BY <2>1, NothingToRebuild
    <2> QED
      BY <2>1, <2>2 DEF IndexInv, Settled, Lines
  <1>11. ASSUME NEW t \in Threads, Fault(t) PROVE IndexInv'
    <2>1. faults' = faults + 1
      BY <1>11
      DEF Fault, WriteFails, InsertFails, CommitFails, RenameFails, Inject
    <2> QED
      BY <1>b, <1>1, <2>1
  <1>12. CASE Close \/ Crash \/ DeleteDb
    <2>1. faults' = faults + 1
      BY <1>12 DEF Close, Crash, DeleteDb, Inject
    <2> QED
      BY <1>b, <1>1, <2>1
  <1>13. ASSUME Exit, faults = 0 PROVE IndexInv'
    <2>1. \A t \in Threads : pc[t] = "idle" /\ pc'[t] = "idle"
      BY <1>13 DEF Exit, Quiet
    <2>2. Settled /\ ~Corrupt(jsonl)
      BY <1>13, <2>1 DEF IndexInv, Labelled
    <2> QED
      BY <1>13, <2>1, <2>2 DEF Exit, IndexInv, Settled, Lines
  <1>14. ASSUME Open, faults = 0 PROVE IndexInv'
    <2>1. \A t \in Threads : pc[t] = "idle" /\ pc'[t] = "idle"
      BY <1>a, <1>14 DEF Open, LockInv
    <2>2. Settled /\ ~Corrupt(jsonl)
      BY <1>14, <2>1 DEF IndexInv, Labelled
    <2>3. CountLines(jsonl) = Lines
      BY <2>2, WholeLines DEF Lines
    <2>4. rows' = Rebuilt(jsonl) /\ conn' /\ lineCount' = Lines
          /\ UNCHANGED <<jsonl, pending>>
      BY <1>14, <2>2, <2>3 DEF Open, Settled
    <2> QED
      BY <2>1, <2>2, <2>4 DEF IndexInv, Settled, Lines
  <1>15. CASE UNCHANGED vars
    BY <1>15, IndexSame DEF vars
  <1>16. ASSUME NEW t \in Threads, Step(t) PROVE faults' = faults
    BY <1>16
    DEF Step, Enter, Write, Insert, Commit, NoConnection, RotateClose,
        RotateJsonl, RotateDb, RotateFresh
  <1>17. Exit \/ Open => faults' = faults
    BY DEF Exit, Open
  <1> QED
    BY <1>1, <1>2, <1>3, <1>4, <1>5, <1>6, <1>7, <1>8, <1>9, <1>10, <1>11,
       <1>12, <1>13, <1>14, <1>15, <1>16, <1>17
    DEF Next, Step

(* As long as nothing has failed, whatever the threads, rotations, exits    *)
(* and restarts, the index between appends is the one a scan of the file    *)
(* builds, line numbers included.                                           *)
THEOREM IndexFollowsFile == Spec => []IndexIsRebuildable
  <1>1. Init => IndexInv
    <2> SUFFICES ASSUME Init PROVE IndexInv
      OBVIOUS
    <2>1. Rebuilt(jsonl) = Empty /\ Cardinality(DOMAIN jsonl) = 0 /\ ~Corrupt(jsonl)
      BY EmptyIsEmpty, NothingToRebuild DEF Init
    <2> QED
      BY <2>1 DEF Init, IndexInv, Settled, Lines
  <1>2. IndexInv => IndexIsRebuildable
    <2> SUFFICES ASSUME IndexInv, Quiet, conn, faults = 0 PROVE View = Rebuilt(jsonl)
      BY DEF IndexIsRebuildable
    <2>1. Settled
      BY DEF IndexInv, Labelled, Quiet
    <2> QED
      BY <2>1, NoRow DEF Settled, View
  <1> QED
    BY <1>1, <1>2, BaseAlways, IndexNext, PTL DEF Spec
=============================================================================
