--------------------------- MODULE AuditLogProofs ---------------------------
(***************************************************************************)
(* Theorems about AuditLog for any number of threads, orders, calls and    *)
(* faults, any line lengths and any size limit.                            *)
(***************************************************************************)
EXTENDS AuditLog, TLAPS, FiniteSetTheorems, WellFoundedInduction

-----------------------------------------------------------------------------
(* Files and indexes. *)

(* A nonempty set of naturals below a bound has a largest element: the      *)
(* offset that Latest chooses exists.                                       *)
LEMMA LargestExists ==
    ASSUME NEW n \in Nat, NEW S \in SUBSET (0 .. (n - 1)), S # {}
    PROVE  \E m \in S : \A p \in S : p <= m
  <1> DEFINE D == {n - o : o \in S}
             R == OpToRel(<, Nat)
  <1>1. D \subseteq Nat /\ D # {}
    <2>1. \A o \in S : o \in Int /\ n - o \in Nat
      OBVIOUS
    <2> QED
      BY <2>1
  <1>2. \E x \in D : \A y \in D : ~ (<<y, x>> \in R)
    <2>1. IsWellFoundedOn(R, Nat)
      BY NatLessThanWellFounded
    <2> QED
      BY <1>1, <2>1, WFMin
  <1>3. PICK d \in D : \A e \in D : ~ (e < d)
    BY <1>1, <1>2 DEF OpToRel
  <1>4. PICK m \in S : d = n - m
    OBVIOUS
  <1>5. ASSUME NEW p \in S PROVE p <= m
    BY <1>3, <1>4
  <1> QED
    BY <1>5

(* Putting a record where nothing was keeps every other entry of the file.  *)
LEMMA PutKeeps ==
    ASSUME NEW f, NEW k, NEW v
    PROVE  /\ DOMAIN Put(f, k, v) = DOMAIN f \cup {k}
           /\ Put(f, k, v)[k] = v
           /\ \A x \in DOMAIN f : x # k => Put(f, k, v)[x] = f[x]
  BY DEF Put

LEMMA OverIsIndex ==
    ASSUME NEW f, NEW g, IsIndex(f), IsIndex(g)
    PROVE  IsIndex(Over(f, g))
  BY DEF IsIndex, Over

LEMMA EmptyIsEmpty == DOMAIN Empty = {}
  BY DEF Empty

(* Rebuilding the index of a file leads each id to a record of that id.     *)
LEMMA RebuiltIsSound ==
    ASSUME NEW f, NEW n \in Nat, DOMAIN f \subseteq 0 .. (n - 1), IsFile(f)
    PROVE  /\ IsIndex(Rebuilt(f))
           /\ \A i \in DOMAIN Rebuilt(f) : /\ Rebuilt(f)[i].off \in DOMAIN f
                                           /\ f[Rebuilt(f)[i].off] # Torn
                                           /\ f[Rebuilt(f)[i].off].id = i
  <1>1. ASSUME NEW i \in DOMAIN Rebuilt(f)
        PROVE  /\ i \in RecordIds \cup {RotationId}
               /\ Latest(f, i) \in DOMAIN f
               /\ f[Latest(f, i)] # Torn
               /\ f[Latest(f, i)].id = i
    <2> DEFINE at == {o \in Scanned(f) : f[o].id = i}
    <2>1. at # {} /\ at \in SUBSET (0 .. (n - 1))
      BY DEF Rebuilt, Scanned
    <2>2. \E m \in at : \A p \in at : p <= m
      BY <2>1, LargestExists
    <2>3. Latest(f, i) \in at
      BY <2>2 DEF Latest
    <2>4. Latest(f, i) \in DOMAIN f /\ f[Latest(f, i)] # Torn
          /\ f[Latest(f, i)].id = i
      BY <2>1, <2>3 DEF Scanned
    <2>5. f[Latest(f, i)] \in Records
      BY <2>4 DEF IsFile
    <2> QED
      BY <2>4, <2>5 DEF Records, Entries, Markers
  <1>2. ASSUME NEW o \in DOMAIN f
        PROVE  Cardinality({p \in DOMAIN f : p < o}) \in Nat
    <2>1. IsFiniteSet(0 .. (n - 1))
      BY FS_Interval
    <2>2. IsFiniteSet({p \in DOMAIN f : p < o})
      BY <2>1, FS_Subset
    <2> QED
      BY <2>2, FS_CardinalityType
  <1>3. ASSUME NEW i \in DOMAIN Rebuilt(f)
        PROVE  /\ Rebuilt(f)[i] \in [off : Nat, line : Nat]
               /\ Rebuilt(f)[i].off = Latest(f, i)
    BY <1>1, <1>2 DEF Rebuilt
  <1> QED
    BY <1>1, <1>3 DEF IsIndex

-----------------------------------------------------------------------------
(* Type correctness.  It is not inductive alone: an append that is under    *)
(* way must have an entry.                                                  *)

Called == \A t \in Threads : pc[t] # "idle" => arg[t] \in Entries
TypeInv == TypeOK /\ Called

LEMMA CurrentIsRecord ==
    ASSUME TypeInv, NEW t \in Threads, pc[t] # "idle"
    PROVE  Current(t) \in Records /\ Current(t).id \in RecordIds \cup {RotationId}
  BY DEF TypeInv, TypeOK, Called, Current, Records, Entries, Markers

(* A torn fragment or a record added at the end leaves a well-formed file.  *)
LEMMA PutIsFile ==
    ASSUME TypeOK, NEW v \in Records \cup {Torn}, NEW n \in Nat \ {0}
    PROVE  /\ DOMAIN Put(jsonl, size, v) \subseteq 0 .. (size + n - 1)
           /\ IsFile(Put(jsonl, size, v))
           /\ size + n \in Nat
  <1>1. size \in Nat /\ DOMAIN jsonl \subseteq 0 .. (size - 1) /\ IsFile(jsonl)
    BY DEF TypeOK
  <1>2. DOMAIN Put(jsonl, size, v) = DOMAIN jsonl \cup {size}
    BY PutKeeps
  <1>3. DOMAIN Put(jsonl, size, v) \subseteq 0 .. (size + n - 1)
    BY <1>1, <1>2
  <1>4. IsFile(Put(jsonl, size, v))
    BY <1>1, <1>2 DEF IsFile, Put
  <1> QED
    BY <1>1, <1>3, <1>4

LEMMA TornIsFile ==
    ASSUME TypeOK, jsonl' = Put(jsonl, size, Torn), size' = size + TornLen
    PROVE  /\ DOMAIN jsonl' \subseteq 0 .. (size' - 1) /\ IsFile(jsonl')
           /\ size' \in Nat
  <1>1. /\ DOMAIN Put(jsonl, size, Torn) \subseteq 0 .. (size + TornLen - 1)
        /\ IsFile(Put(jsonl, size, Torn))
        /\ size + TornLen \in Nat
    BY PutIsFile, LengthsAssumption
  <1>2. IsFile(jsonl')
    BY <1>1 DEF IsFile
  <1>3. DOMAIN jsonl' \subseteq 0 .. (size' - 1) /\ size' \in Nat
    <2>1. size \in Nat /\ TornLen \in Nat
      BY LengthsAssumption DEF TypeOK
    <2> QED
      BY <1>1, <2>1
  <1> QED
    BY <1>2, <1>3

LEMMA EmptyTypes == IsIndex(Empty) /\ IsFile(Empty) /\ DOMAIN Empty = {}
  BY EmptyIsEmpty DEF IsIndex, IsFile

LEMMA InitType == Init => TypeInv
  <1> SUFFICES ASSUME Init PROVE TypeInv
    OBVIOUS
  <1> USE DEF Init
  <1>1. /\ DOMAIN jsonl \subseteq 0 .. (size - 1) /\ IsFile(jsonl) /\ size \in Nat
        /\ DOMAIN archives \subseteq Stamps
        /\ \A ts \in DOMAIN archives : IsFile(archives[ts])
        /\ IsIndex(rows) /\ IsIndex(pending)
    BY EmptyTypes
  <1>2. DOMAIN want = Threads
        /\ \A t \in Threads : DOMAIN want[t] \subseteq RecordIds \cup {RotationId}
    BY EmptyTypes
  <1>3. calls \in 0 .. MaxCalls /\ faults \in 0 .. MaxFaults
    BY BoundsAssumption
  <1>4. pc \in [Threads -> Labels]
    BY DEF Labels
  <1>5. Called
    BY DEF Called
  <1> QED
    BY <1>1, <1>2, <1>3, <1>4, <1>5 DEF TypeInv, TypeOK

LEMMA NextType == TypeInv /\ [Next]_vars => TypeInv'
  <1> SUFFICES ASSUME TypeInv, [Next]_vars PROVE TypeInv'
    OBVIOUS
  <1> USE DEF fileVars, indexVars, threadVars
  <1>a. TypeOK /\ Called
    BY DEF TypeInv
  <1>b. IsIndex(View)
    BY <1>a, OverIsIndex DEF View, TypeOK
  <1>1. ASSUME NEW t \in Threads, NEW id \in RecordIds, BeginAppend(t, id)
        PROVE  TypeInv'
    <2>1. [id |-> id, data |-> calls + 1] \in Entries /\ calls' \in 0 .. MaxCalls
      BY <1>a, <1>1, BoundsAssumption DEF TypeOK, BeginAppend, Entries
    <2> QED
      BY <1>a, <1>1, <2>1 DEF TypeInv, TypeOK, Called, BeginAppend, Goto, Labels
  <1>2. ASSUME NEW t \in Threads, Enter(t) PROVE TypeInv'
    BY <1>a, <1>2 DEF TypeInv, TypeOK, Called, Enter, Goto, Labels
  <1>3. ASSUME NEW t \in Threads, Write(t) PROVE TypeInv'
    <2>1. Current(t) \in Records /\ LineLen(Current(t)) \in Nat \ {0}
      BY <1>3, CurrentIsRecord, LengthsAssumption DEF Write, LineLen
    <2>2. /\ DOMAIN jsonl' \subseteq 0 .. (size' - 1) /\ IsFile(jsonl')
          /\ size' \in Nat
      <3> DEFINE r == Current(t)
                 n == LineLen(r)
      <3>1. /\ DOMAIN Put(jsonl, size, r) \subseteq 0 .. (size + n - 1)
            /\ IsFile(Put(jsonl, size, r))
            /\ size + n \in Nat
        <4> HIDE DEF r, n
        <4>1. r \in Records \cup {Torn} /\ n \in Nat \ {0}
          BY <2>1 DEF r, n
        <4> QED
          BY <1>a, <4>1, PutIsFile
      <3>2. jsonl' = Put(jsonl, size, r) /\ size' = size + n
        BY <1>3 DEF Write, WriteLine
      <3>3. IsFile(jsonl')
        BY <3>1, <3>2 DEF IsFile
      <3>4. DOMAIN jsonl' \subseteq 0 .. (size' - 1) /\ size' \in Nat
        <4> HIDE DEF r, n
        <4>1. size \in Nat /\ n \in Nat
          BY <1>a, <2>1 DEF TypeOK, n, r
        <4> QED
          BY <3>1, <3>2, <4>1
      <3> QED
        BY <3>3, <3>4
    <2> QED
      BY <1>a, <1>3, <2>2
      DEF TypeInv, TypeOK, Called, Write, WriteLine, Goto, Labels
  <1>4. ASSUME NEW t \in Threads, Insert(t) PROVE TypeInv'
    <2>1. Current(t).id \in RecordIds \cup {RotationId}
      BY <1>4, CurrentIsRecord DEF Insert
    <2>2. RowFor(t) \in [off : Nat, line : Nat]
      BY <1>a DEF RowFor, TypeOK
    <2>3. IsIndex(pending')
      BY <1>a, <1>4, <2>1, <2>2 DEF TypeOK, IsIndex, Insert, InsertRow, Put
    <2> QED
      BY <1>a, <1>4, <2>3 DEF TypeInv, TypeOK, Called, Insert, Goto, Labels
  <1>5. ASSUME NEW t \in Threads, Commit(t) PROVE TypeInv'
    <2>1. IsIndex(rows') /\ IsIndex(pending')
      BY <1>b, <1>5, EmptyTypes DEF Commit
    <2>2. arg[t] \in Entries
      BY <1>a, <1>5 DEF Called, Commit
    <2> QED
      BY <1>a, <1>5, <2>1, <2>2 DEF TypeInv, TypeOK, Called, Commit, Goto, Labels
  <1>6. ASSUME NEW t \in Threads, NoConnection(t) PROVE TypeInv'
    BY <1>a, <1>6
    DEF TypeInv, TypeOK, Called, NoConnection, Raise, Goto, Labels
  <1>7. ASSUME NEW t \in Threads, RotateClose(t) PROVE TypeInv'
    BY <1>a, <1>7, EmptyTypes
    DEF TypeInv, TypeOK, Called, RotateClose, Goto, Labels
  <1>8. ASSUME NEW t \in Threads, RotateJsonl(t) PROVE TypeInv'
    <2>1. PICK ts \in Stamps :
            /\ archives' = Put(archives, ts, jsonl)
            /\ nested' = [nested EXCEPT ![t] = [id |-> RotationId, data |-> ts]]
      BY <1>8 DEF RotateJsonl
    <2>2. DOMAIN archives' \subseteq Stamps
          /\ \A s \in DOMAIN archives' : IsFile(archives'[s])
      BY <1>a, <2>1 DEF TypeOK, Put
    <2>3. nested' \in [Threads -> Markers \cup {NoRecord}]
      BY <1>a, <2>1 DEF TypeOK, Markers
    <2>4. DOMAIN jsonl' \subseteq 0 .. (size' - 1) /\ IsFile(jsonl') /\ size' \in Nat
      BY <1>8, EmptyTypes DEF RotateJsonl
    <2> QED
      BY <1>a, <1>8, <2>2, <2>3, <2>4
      DEF TypeInv, TypeOK, Called, RotateJsonl, Goto, Labels
  <1>9. ASSUME NEW t \in Threads, RotateDb(t) PROVE TypeInv'
    BY <1>a, <1>9, EmptyTypes
    DEF TypeInv, TypeOK, Called, RotateDb, Goto, Labels
  <1>10. ASSUME NEW t \in Threads, RotateFresh(t) PROVE TypeInv'
    BY <1>a, <1>10 DEF TypeInv, TypeOK, Called, RotateFresh, Goto, Labels
  <1>11. ASSUME NEW t \in Threads, Fault(t) PROVE TypeInv'
    <2>1. faults' \in 0 .. MaxFaults
      BY <1>a, <1>11, BoundsAssumption
      DEF TypeOK, Fault, WriteFails, InsertFails, CommitFails, RenameFails, Inject
    <2>2. /\ DOMAIN jsonl' \subseteq 0 .. (size' - 1) /\ IsFile(jsonl')
          /\ size' \in Nat
      <3>1. CASE WriteFails(t)
        BY <1>a, <3>1, TornIsFile DEF WriteFails, TypeOK
      <3>2. CASE UNCHANGED <<jsonl, size>>
        BY <1>a, <3>2 DEF TypeOK
      <3> QED
        BY <1>11, <3>1, <3>2 DEF Fault, InsertFails, CommitFails, RenameFails
    <2>3. IsIndex(pending') /\ rows' = rows /\ archives' = archives
      BY <1>a, <1>11, EmptyTypes
      DEF TypeOK, Fault, WriteFails, InsertFails, CommitFails, RenameFails
    <2>4. /\ Raise(t) /\ conn' \in BOOLEAN
          /\ UNCHANGED <<lineCount, pos, want, up, calls, acked>>
      BY <1>a, <1>11
      DEF TypeOK, Fault, WriteFails, InsertFails, CommitFails, RenameFails
    <2> QED
      BY <1>a, <2>1, <2>2, <2>3, <2>4
      DEF TypeInv, TypeOK, Called, Raise, Goto, Labels
  <1>12. ASSUME NEW t \in Threads, NEW ids \in ReadSets, Lookup(t, ids)
         PROVE  TypeInv'
    <2>1. DOMAIN want' = Threads
          /\ \A u \in Threads : DOMAIN want'[u] \subseteq RecordIds \cup {RotationId}
      BY <1>a, <1>b, <1>12 DEF TypeOK, Lookup, IsIndex
    <2> QED
      BY <1>a, <1>12, <2>1 DEF TypeInv, TypeOK, Called, Lookup
  <1>13. ASSUME NEW t \in Threads, Seek(t) PROVE TypeInv'
    <2>1. DOMAIN want' = Threads
          /\ \A u \in Threads : DOMAIN want'[u] \subseteq RecordIds \cup {RotationId}
      BY <1>a, <1>13, EmptyTypes DEF TypeOK, Seek
    <2> QED
      BY <1>a, <1>13, <2>1 DEF TypeInv, TypeOK, Called, Seek
  <1>14. CASE Close
    <2>1. faults' \in 0 .. MaxFaults
      BY <1>a, <1>14, BoundsAssumption DEF TypeOK, Close, Inject
    <2> QED
      BY <1>a, <1>14, <2>1, EmptyTypes DEF TypeInv, TypeOK, Called, Close
  <1>15. CASE Exit
    BY <1>a, <1>15, EmptyTypes DEF TypeInv, TypeOK, Called, Exit
  <1>16. CASE Crash
    <2>1. faults' \in 0 .. MaxFaults
      BY <1>a, <1>16, BoundsAssumption DEF TypeOK, Crash, Inject
    <2>2. /\ DOMAIN jsonl' \subseteq 0 .. (size' - 1) /\ IsFile(jsonl')
          /\ size' \in Nat
      BY <1>a, <1>16, TornIsFile DEF Crash, TypeOK
    <2>3. DOMAIN want' = Threads
          /\ \A u \in Threads : DOMAIN want'[u] \subseteq RecordIds \cup {RotationId}
      BY <1>16, EmptyTypes DEF Crash
    <2> QED
      BY <1>a, <1>16, <2>1, <2>2, <2>3, EmptyTypes
      DEF TypeInv, TypeOK, Called, Crash, Labels
  <1>17. CASE DeleteDb
    <2>1. faults' \in 0 .. MaxFaults
      BY <1>a, <1>17, BoundsAssumption DEF TypeOK, DeleteDb, Inject
    <2> QED
      BY <1>a, <1>17, <2>1, EmptyTypes DEF TypeInv, TypeOK, Called, DeleteDb
  <1>18. CASE Open
    <2>1. IsIndex(rows')
      BY <1>a, <1>18, RebuiltIsSound DEF TypeOK, Open
    <2>2. lineCount' \in Nat
      <3>1. IsFiniteSet(0 .. (size - 1)) /\ DOMAIN jsonl \subseteq 0 .. (size - 1)
        <4>1. size \in Int /\ DOMAIN jsonl \subseteq 0 .. (size - 1)
          BY <1>a DEF TypeOK
        <4>2. 0 \in Int /\ size - 1 \in Int
          BY <4>1
        <4> QED
          BY <4>1, <4>2, FS_Interval
      <3>2. IsFiniteSet({o \in DOMAIN jsonl :
                ~(o - TornLen \in DOMAIN jsonl /\ jsonl[o - TornLen] = Torn)})
        BY <3>1, FS_Subset
      <3> QED
        BY <1>18, <3>2, FS_CardinalityType DEF Open, CountLines
    <2> QED
      BY <1>a, <1>18, <2>1, <2>2 DEF TypeInv, TypeOK, Called, Open
  <1>19. CASE UNCHANGED vars
    BY <1>a, <1>19 DEF TypeInv, TypeOK, Called, vars
  <1> QED
    BY <1>1, <1>2, <1>3, <1>4, <1>5, <1>6, <1>7, <1>8, <1>9, <1>10, <1>11,
       <1>12, <1>13, <1>14, <1>15, <1>16, <1>17, <1>18, <1>19
    DEF Next, Step

(* Every reachable state is well typed: the file holds whole records and    *)
(* torn fragments below its size, the index only rows for known ids.        *)
THEOREM TypeCorrect == Spec => []TypeOK
  <1>1. TypeInv => TypeOK
    BY DEF TypeInv
  <1> QED
    BY <1>1, InitType, NextType, PTL DEF Spec

-----------------------------------------------------------------------------
(* The lock: whoever is past the acquisition owns it, a rotation marker      *)
(* exists only inside it, and no thread is inside a dead process.           *)

InSection(t) == pc[t] \notin {"idle", "enter"}
LockInv ==
    /\ \A t \in Threads : InSection(t) \/ nested[t] # NoRecord => lockOwner = t
    /\ ~up => \A t \in Threads : pc[t] = "idle"

LEMMA LockNext == TypeInv /\ LockInv /\ [Next]_vars => LockInv'
  <1> SUFFICES ASSUME TypeInv, LockInv, [Next]_vars PROVE LockInv'
    OBVIOUS
  <1> USE ThreadsAssumption
      DEF LockInv, InSection, fileVars, indexVars, threadVars, Goto
  <1>a. /\ pc \in [Threads -> Labels] /\ DOMAIN nested = Threads
        /\ nested \in [Threads -> Markers \cup {NoRecord}]
    BY DEF TypeInv, TypeOK
  <1>1. ASSUME NEW t \in Threads, NEW id \in RecordIds, BeginAppend(t, id)
        PROVE  LockInv'
    BY <1>a, <1>1 DEF BeginAppend
  <1>2. ASSUME NEW t \in Threads, Enter(t) PROVE LockInv'
    BY <1>a, <1>2 DEF Enter, CanAcquire
  <1>3. ASSUME NEW t \in Threads, Write(t) PROVE LockInv'
    BY <1>a, <1>3 DEF Write
  <1>4. ASSUME NEW t \in Threads, Insert(t) PROVE LockInv'
    BY <1>a, <1>4 DEF Insert
  <1>5. ASSUME NEW t \in Threads, Commit(t) PROVE LockInv'
    BY <1>a, <1>5 DEF Commit
  <1>6. ASSUME NEW t \in Threads, NoConnection(t) PROVE LockInv'
    BY <1>a, <1>6 DEF NoConnection, Raise
  <1>7. ASSUME NEW t \in Threads, RotateClose(t) PROVE LockInv'
    BY <1>a, <1>7 DEF RotateClose
  <1>8. ASSUME NEW t \in Threads, RotateJsonl(t) PROVE LockInv'
    BY <1>a, <1>8 DEF RotateJsonl
  <1>9. ASSUME NEW t \in Threads, RotateDb(t) PROVE LockInv'
    BY <1>a, <1>9 DEF RotateDb
  <1>10. ASSUME NEW t \in Threads, RotateFresh(t) PROVE LockInv'
    BY <1>a, <1>10 DEF RotateFresh
  <1>11. ASSUME NEW t \in Threads, Fault(t) PROVE LockInv'
    BY <1>a, <1>11
    DEF Fault, WriteFails, InsertFails, CommitFails, RenameFails, Raise
  <1>12. ASSUME NEW t \in Threads,
                Seek(t) \/ \E ids \in ReadSets : Lookup(t, ids)
         PROVE  LockInv'
    BY <1>12 DEF Lookup, Seek
  <1>13. CASE Close \/ DeleteDb \/ Open \/ UNCHANGED vars
    BY <1>13 DEF Close, DeleteDb, Open, vars
  <1>14. CASE Exit
    BY <1>14 DEF Exit, Quiet
  <1>15. CASE Crash
    BY <1>15 DEF Crash
  <1> QED
    BY <1>1, <1>2, <1>3, <1>4, <1>5, <1>6, <1>7, <1>8, <1>9, <1>10, <1>11,
       <1>12, <1>13, <1>14, <1>15
    DEF Next, Step

-----------------------------------------------------------------------------
(* The line of an append that is not through is where its tell() said, and  *)
(* a rotation runs with no transaction open.                                *)

Pending(t) == pc[t] \in {"insert", "commit"}
InFlightInv ==
    /\ \A t \in Threads :
        Pending(t) => /\ pos[t] \in DOMAIN jsonl
                      /\ jsonl[pos[t]] = Current(t)
    /\ \A t \in Threads :
        pc[t] \in {"rename_jsonl", "rename_db", "fresh"} => pending = Empty

(* Steps that leave the file, the offsets and the transaction alone, and    *)
(* take no thread into the labels that InFlightInv is about.                *)
LEMMA InFlightKept ==
    ASSUME TypeInv, InFlightInv,
           jsonl' = jsonl \/ \E v : jsonl' = Put(jsonl, size, v),
           pos' = pos, pending' \in {pending, Empty},
           \A t \in Threads : \/ pc'[t] = "idle" \/ pc'[t] = "enter"
                              \/ pc'[t] = "write" \/ pc'[t] = "close_conn"
                              \/ pc'[t] = "fresh" /\ pc[t] = "rename_db"
                              \/ /\ pc'[t] = pc[t] /\ nested'[t] = nested[t]
                                 /\ arg'[t] = arg[t]
    PROVE  InFlightInv'
  <1>1. size \in Nat /\ size \notin DOMAIN jsonl
    BY DEF TypeInv, TypeOK
  <1>2. \A o \in DOMAIN jsonl : o \in DOMAIN jsonl' /\ jsonl'[o] = jsonl[o]
    <2>1. CASE jsonl' = jsonl
      BY <2>1
    <2>2. ASSUME NEW v, jsonl' = Put(jsonl, size, v)
          PROVE  \A o \in DOMAIN jsonl : o \in DOMAIN jsonl' /\ jsonl'[o] = jsonl[o]
      BY <1>1, <2>2 DEF Put
    <2> QED
      BY <2>1, <2>2
  <1>3. ASSUME NEW t \in Threads, Pending(t)'
        PROVE  pos'[t] \in DOMAIN jsonl' /\ jsonl'[pos'[t]] = Current(t)'
    <2>1. Pending(t) /\ Current(t)' = Current(t)
      BY <1>3 DEF Pending, Current
    <2> QED
      BY <1>2, <2>1 DEF InFlightInv
  <1>4. ASSUME NEW t \in Threads,
               pc'[t] \in {"rename_jsonl", "rename_db", "fresh"}
        PROVE  pending' = Empty
    BY <1>4 DEF InFlightInv
  <1> QED
    BY <1>3, <1>4 DEF InFlightInv

LEMMA InFlightNext ==
    TypeInv /\ LockInv /\ InFlightInv /\ [Next]_vars => InFlightInv'
  <1> SUFFICES ASSUME TypeInv, LockInv, InFlightInv, [Next]_vars
               PROVE  InFlightInv'
    OBVIOUS
  <1> USE DEF fileVars, indexVars, threadVars, Goto
  <1>a. /\ pc \in [Threads -> Labels] /\ pos \in [Threads -> Nat]
        /\ DOMAIN nested = Threads /\ DOMAIN arg = Threads
    BY DEF TypeInv, TypeOK
  <1>b. \A t, u \in Threads : InSection(t) /\ InSection(u) => t = u
    BY DEF LockInv
  <1>1. ASSUME NEW t \in Threads, NEW id \in RecordIds, BeginAppend(t, id)
        PROVE  InFlightInv'
    BY <1>a, <1>1, InFlightKept DEF BeginAppend
  <1>2. ASSUME NEW t \in Threads, Enter(t) PROVE InFlightInv'
    BY <1>a, <1>2, InFlightKept DEF Enter
  <1>3. ASSUME NEW t \in Threads, Write(t) PROVE InFlightInv'
    <2>1. jsonl'[pos'[t]] = Current(t)' /\ pos'[t] \in DOMAIN jsonl'
      <3>1. pos'[t] = size /\ Current(t)' = Current(t)
        BY <1>a, <1>3 DEF Write, WriteLine, Current
      <3>2. jsonl' = Put(jsonl, size, Current(t))
        BY <1>3 DEF Write, WriteLine
      <3> QED
        BY <3>1, <3>2 DEF Put
    <2>2. ASSUME NEW u \in Threads, u # t
          PROVE  pc'[u] \in {"idle", "enter"}
      BY <1>a, <1>b, <1>3, <2>2 DEF Write, InSection
    <2>3. pc'[t] = "insert"
      BY <1>a, <1>3 DEF Write
    <2> QED
      BY <2>1, <2>2, <2>3 DEF InFlightInv, Pending
  <1>4. ASSUME NEW t \in Threads, Insert(t) PROVE InFlightInv'
    <2>1. jsonl'[pos'[t]] = Current(t)' /\ pos'[t] \in DOMAIN jsonl'
      BY <1>4 DEF Insert, InFlightInv, Pending, Current
    <2>2. ASSUME NEW u \in Threads, u # t
          PROVE  pc'[u] \in {"idle", "enter"}
      BY <1>a, <1>b, <1>4, <2>2 DEF Insert, InSection
    <2>3. pc'[t] = "commit"
      BY <1>a, <1>4 DEF Insert
    <2> QED
      BY <2>1, <2>2, <2>3 DEF InFlightInv, Pending
  <1>5. ASSUME NEW t \in Threads, Commit(t) PROVE InFlightInv'
    BY <1>a, <1>5, InFlightKept DEF Commit
  <1>6. ASSUME NEW t \in Threads, NoConnection(t) PROVE InFlightInv'
    BY <1>a, <1>6, InFlightKept DEF NoConnection, Raise
  <1>7. ASSUME NEW t \in Threads, RotateClose(t) \/ RotateJsonl(t)
        PROVE  InFlightInv'
    <2>1. pending' = Empty
      BY <1>7 DEF RotateClose, RotateJsonl, InFlightInv
    <2>2. ASSUME NEW u \in Threads PROVE ~Pending(u)'
      BY <1>a, <1>b, <1>7, <2>2 DEF RotateClose, RotateJsonl, InSection, Pending
    <2> QED
      BY <2>1, <2>2 DEF InFlightInv
  <1>8. ASSUME NEW t \in Threads, RotateDb(t) \/ RotateFresh(t)
        PROVE  InFlightInv'
    BY <1>a, <1>8, InFlightKept DEF RotateDb, RotateFresh
  <1>9. ASSUME NEW t \in Threads, Fault(t) PROVE InFlightInv'
    <2>1. jsonl' = jsonl \/ \E v : jsonl' = Put(jsonl, size, v)
      BY <1>9 DEF Fault, WriteFails, InsertFails, CommitFails, RenameFails
    <2>2. pos' = pos /\ pending' \in {pending, Empty} /\ Raise(t)
      BY <1>9 DEF Fault, WriteFails, InsertFails, CommitFails, RenameFails
    <2> QED
      BY <1>a, <2>1, <2>2, InFlightKept DEF Raise
  <1>10. ASSUME NEW t \in Threads,
                Seek(t) \/ \E ids \in ReadSets : Lookup(t, ids)
         PROVE  InFlightInv'
    BY <1>10, InFlightKept DEF Lookup, Seek
  <1>11. CASE Close \/ Exit \/ DeleteDb \/ Open \/ UNCHANGED vars
    BY <1>11, InFlightKept DEF Close, Exit, DeleteDb, Open, vars
  <1>12. CASE Crash
    BY <1>12 DEF Crash, InFlightInv, Pending
  <1> QED
    BY <1>1, <1>2, <1>3, <1>4, <1>5, <1>6, <1>7, <1>8, <1>9, <1>10, <1>11, <1>12
    DEF Next, Step

-----------------------------------------------------------------------------
(* The index.  Its rows are sound whenever the live file is the one they    *)
(* were made for, that is, but for the moment between the two renames of a  *)
(* rotation -- provided no failure and no crash falls into that moment.     *)

RenamesAreAtomic == "half_rotation" \notin Faults

SoundIndex(ix, f) ==
    \A i \in DOMAIN ix : /\ ix[i].off \in DOMAIN f
                         /\ f[ix[i].off] # Torn
                         /\ f[ix[i].off].id = i
RowsInv ==
    ~BetweenRenames => SoundIndex(rows, jsonl) /\ SoundIndex(pending, jsonl)
IInv == TypeInv /\ LockInv /\ InFlightInv /\ RowsInv

FileGrows == jsonl' = jsonl \/ \E v : jsonl' = Put(jsonl, size, v)

(* A write at the end of the file moves and changes none of its entries.    *)
LEMMA GrowsKeeps ==
    ASSUME TypeInv, FileGrows
    PROVE  \A o \in DOMAIN jsonl : o \in DOMAIN jsonl' /\ jsonl'[o] = jsonl[o]
  <1>1. size \in Nat /\ size \notin DOMAIN jsonl
    BY DEF TypeInv, TypeOK
  <1>2. CASE jsonl' = jsonl
    BY <1>2
  <1>3. ASSUME NEW v, jsonl' = Put(jsonl, size, v)
        PROVE  \A o \in DOMAIN jsonl : o \in DOMAIN jsonl' /\ jsonl'[o] = jsonl[o]
    BY <1>1, <1>3 DEF Put
  <1> QED
    BY <1>2, <1>3 DEF FileGrows

(* Steps that at most add to the file and drop rows.                        *)
LEMMA RowsKept ==
    ASSUME TypeInv, RowsInv, FileGrows,
           rows' \in {rows, Empty}, pending' \in {pending, Empty},
           BetweenRenames => BetweenRenames'
    PROVE  RowsInv'
  <1>1. \A o \in DOMAIN jsonl : o \in DOMAIN jsonl' /\ jsonl'[o] = jsonl[o]
    BY GrowsKeeps
  <1>2. SoundIndex(Empty, jsonl')
    BY EmptyIsEmpty DEF SoundIndex
  <1>3. ASSUME NEW ix, SoundIndex(ix, jsonl) PROVE SoundIndex(ix, jsonl')
    BY <1>1, <1>3 DEF SoundIndex
  <1> QED
    BY <1>2, <1>3 DEF RowsInv

LEMMA RowsNext == RenamesAreAtomic /\ IInv /\ [Next]_vars => RowsInv'
  <1> SUFFICES ASSUME RenamesAreAtomic, IInv, [Next]_vars PROVE RowsInv'
    OBVIOUS
  <1> USE DEF fileVars, indexVars, threadVars, Goto
  <1>a. TypeInv /\ LockInv /\ InFlightInv /\ RowsInv
    BY DEF IInv
  <1>b. pc \in [Threads -> Labels]
    BY <1>a DEF TypeInv, TypeOK
  <1>c. ASSUME NEW t \in Threads, pc'[t] = pc[t] \/ pc[t] # "rename_db",
               \A u \in Threads : u # t => pc'[u] = pc[u]
        PROVE  BetweenRenames => BetweenRenames'
    BY <1>c DEF BetweenRenames
  <1>1. ASSUME NEW t \in Threads, NEW id \in RecordIds, BeginAppend(t, id)
        PROVE  RowsInv'
    BY <1>a, <1>b, <1>c, <1>1, RowsKept DEF BeginAppend, FileGrows
  <1>2. ASSUME NEW t \in Threads, Enter(t) PROVE RowsInv'
    BY <1>a, <1>b, <1>c, <1>2, RowsKept DEF Enter, FileGrows
  <1>3. ASSUME NEW t \in Threads, Write(t) PROVE RowsInv'
    BY <1>a, <1>b, <1>c, <1>3, RowsKept DEF Write, WriteLine, FileGrows
  <1>4. ASSUME NEW t \in Threads, Insert(t) PROVE RowsInv'
    <2>1. BetweenRenames => BetweenRenames'
      BY <1>b, <1>c, <1>4 DEF Insert
    <2>2. Current(t) \in Records
      BY <1>a, <1>4, CurrentIsRecord DEF Insert
    <2>3. pos[t] \in DOMAIN jsonl /\ jsonl[pos[t]] = Current(t)
      BY <1>a, <1>4 DEF Insert, InFlightInv, Pending
    <2>4. jsonl[pos[t]] # Torn
      BY <2>2, <2>3, MarksAssumption
    <2>5. SoundIndex(pending, jsonl) => SoundIndex(pending', jsonl)
      BY <1>4, <2>3, <2>4 DEF Insert, InsertRow, SoundIndex, Put, RowFor
    <2> QED
      BY <1>a, <1>4, <2>1, <2>5 DEF Insert, RowsInv
  <1>5. ASSUME NEW t \in Threads, Commit(t) PROVE RowsInv'
    <2>1. BetweenRenames => BetweenRenames'
      BY <1>b, <1>c, <1>5 DEF Commit
    <2>2. SoundIndex(rows, jsonl) /\ SoundIndex(pending, jsonl)
            => SoundIndex(View, jsonl)
      BY DEF SoundIndex, View, Over
    <2>3. SoundIndex(Empty, jsonl)
      BY EmptyIsEmpty DEF SoundIndex
    <2> QED
      BY <1>a, <1>5, <2>1, <2>2, <2>3 DEF Commit, RowsInv
  <1>6. ASSUME NEW t \in Threads, NoConnection(t) PROVE RowsInv'
    BY <1>a, <1>b, <1>c, <1>6, RowsKept DEF NoConnection, Raise, FileGrows
  <1>7. ASSUME NEW t \in Threads, RotateClose(t) PROVE RowsInv'
    BY <1>a, <1>b, <1>c, <1>7, RowsKept DEF RotateClose, FileGrows
  <1>8. ASSUME NEW t \in Threads, RotateJsonl(t) PROVE RowsInv'
    BY <1>b, <1>8 DEF RotateJsonl, RowsInv, BetweenRenames
  <1>9. ASSUME NEW t \in Threads, RotateDb(t) PROVE RowsInv'
    <2>1. rows' = Empty /\ pending' = Empty
      BY <1>a, <1>9 DEF RotateDb, InFlightInv
    <2> QED
      BY <2>1, EmptyIsEmpty DEF RowsInv, SoundIndex
  <1>10. ASSUME NEW t \in Threads, RotateFresh(t) PROVE RowsInv'
    BY <1>a, <1>b, <1>c, <1>10, RowsKept DEF RotateFresh, FileGrows
  <1>11. ASSUME NEW t \in Threads, Fault(t) PROVE RowsInv'
    <2>1. RenameFails(t) => pc[t] # "rename_db"
      BY DEF RenamesAreAtomic, RenameFails, Inject
    <2>2. FileGrows /\ rows' = rows /\ pending' \in {pending, Empty} /\ Raise(t)
          /\ pc[t] # "rename_db"
      BY <1>11, <2>1
      DEF Fault, WriteFails, InsertFails, CommitFails, RenameFails, FileGrows
    <2>3. BetweenRenames => BetweenRenames'
      BY <1>b, <1>c, <2>2 DEF Raise
    <2> QED
      BY <1>a, <2>2, <2>3, RowsKept
  <1>12. ASSUME NEW t \in Threads,
                Seek(t) \/ \E ids \in ReadSets : Lookup(t, ids)
         PROVE  RowsInv'
    BY <1>a, <1>12, RowsKept DEF Lookup, Seek, FileGrows, BetweenRenames
  <1>13. CASE Close \/ Exit \/ DeleteDb \/ UNCHANGED vars
    BY <1>a, <1>13, RowsKept
    DEF Close, Exit, DeleteDb, vars, FileGrows, BetweenRenames
  <1>14. CASE Crash
    <2>1. ~BetweenRenames
      BY <1>14 DEF Crash, RenamesAreAtomic, Inject
    <2> QED
      BY <1>a, <1>14, <2>1, RowsKept DEF Crash, FileGrows
  <1>15. CASE Open
    <2>1. ~BetweenRenames
      BY <1>a, <1>15 DEF Open, LockInv, BetweenRenames
    <2>2. SoundIndex(Rebuilt(jsonl), jsonl)
      BY <1>a, RebuiltIsSound DEF SoundIndex, TypeInv, TypeOK
    <2> QED
      BY <1>a, <1>15, <2>1, <2>2 DEF Open, RowsInv
  <1> QED
    BY <1>1, <1>2, <1>3, <1>4, <1>5, <1>6, <1>7, <1>8, <1>9, <1>10, <1>11,
       <1>12, <1>13, <1>14, <1>15
    DEF Next, Step

LEMMA InitInv == Init => IInv
  <1> SUFFICES ASSUME Init PROVE IInv
    OBVIOUS
  <1>1. TypeInv
    BY InitType
  <1>2. LockInv /\ InFlightInv
    BY DEF Init, LockInv, InSection, InFlightInv, Pending
  <1>3. RowsInv
    BY EmptyIsEmpty DEF Init, RowsInv, SoundIndex
  <1> QED
    BY <1>1, <1>2, <1>3 DEF IInv

(* An index row leads to a record of the id it is filed under, whatever     *)
(* writes, inserts, commits, closes and crashes fail or fall in between.    *)
THEOREM RowsAreSound ==
    ASSUME RenamesAreAtomic
    PROVE  Spec => []RowsMatchRecords
  <1>1. IInv /\ [Next]_vars => IInv'
    BY NextType, LockNext, InFlightNext, RowsNext DEF IInv
  <1>2. IInv => RowsMatchRecords
    BY DEF IInv, RowsInv, RowsMatchRecords, SoundIndex, View, Over
  <1> QED
    BY <1>1, <1>2, InitInv, PTL DEF Spec

-----------------------------------------------------------------------------
(* Reading.  While the files are being moved there is no connection to ask, *)
(* and no step but the move of the JSONL file takes a line away.            *)

ReadIsRight(t) ==
    \A i \in DOMAIN want[t] :
        LET r == RecordAt(jsonl, want[t][i]) IN r # NoRecord /\ r.id = i

Moving(t) == pc[t] \in {"rename_jsonl", "rename_db", "fresh"}
ConnInv == \A t \in Threads : Moving(t) => ~conn

LEMMA ConnNext == TypeInv /\ LockInv /\ ConnInv /\ [Next]_vars => ConnInv'
  <1> SUFFICES ASSUME TypeInv, LockInv, ConnInv, [Next]_vars PROVE ConnInv'
    OBVIOUS
  <1> USE DEF ConnInv, Moving, fileVars, indexVars, threadVars, Goto
  <1>a. pc \in [Threads -> Labels]
    BY DEF TypeInv, TypeOK
  <1>1. ASSUME NEW t \in Threads, RotateFresh(t) PROVE ConnInv'
    <2>1. \A u \in Threads : u # t => ~Moving(u)
      BY <1>1 DEF LockInv, InSection, RotateFresh
    <2> QED
      BY <1>a, <1>1, <2>1 DEF RotateFresh
  <1>2. ASSUME NEW t \in Threads, Step(t), ~RotateFresh(t) PROVE ConnInv'
    BY <1>a, <1>2
    DEF Step, Enter, Write, Insert, Commit, NoConnection, Raise, RotateClose,
        RotateJsonl, RotateDb
  <1>6. ASSUME NEW t \in Threads, RenameFails(t) PROVE ConnInv'
    <2>1. \A u \in Threads : u # t => ~Moving(u)
      BY <1>6 DEF LockInv, InSection, RenameFails
    <2>2. \A u \in Threads : pc'[u] = IF u = t THEN "idle" ELSE pc[u]
      BY <1>a, <1>6 DEF RenameFails, Raise
    <2> QED
      BY <2>1, <2>2
  <1>3. ASSUME NEW t \in Threads,
               \/ \E id \in RecordIds : BeginAppend(t, id)
               \/ Fault(t) /\ ~RenameFails(t)
               \/ \E ids \in ReadSets : Lookup(t, ids)
               \/ Seek(t)
        PROVE  ConnInv'
    BY <1>a, <1>3
    DEF BeginAppend, Fault, WriteFails, InsertFails, CommitFails,
        Raise, Lookup, Seek
  <1>4. CASE Open
    BY <1>4 DEF Open, LockInv
  <1>5. CASE Close \/ Exit \/ Crash \/ DeleteDb \/ UNCHANGED vars
    BY <1>5 DEF Close, Exit, Crash, DeleteDb, vars
  <1> QED
    BY <1>1, <1>2, <1>3, <1>4, <1>5, <1>6 DEF Next

(* A reader is led to records of the ids it asked for.                      *)
LEMMA LookupIsRight ==
    ASSUME IInv, ConnInv, NEW t \in Threads, NEW ids, Lookup(t, ids)
    PROVE  ReadIsRight(t)'
  <1>1. ~BetweenRenames
    BY DEF Lookup, ConnInv, Moving, BetweenRenames
  <1>2. \A i \in DOMAIN View : /\ View[i].off \in DOMAIN jsonl
                               /\ jsonl[View[i].off] # Torn
                               /\ jsonl[View[i].off].id = i
    BY <1>1 DEF IInv, RowsInv, SoundIndex, View, Over
  <1>3. DOMAIN want = Threads /\ IsFile(jsonl)
    BY DEF IInv, TypeInv, TypeOK
  <1>4. /\ DOMAIN want'[t] = ids \cap DOMAIN View
        /\ \A i \in DOMAIN want'[t] : want'[t][i] = View[i].off
    BY <1>3 DEF Lookup
  <1>5. jsonl' = jsonl
    BY DEF Lookup, fileVars
  <1>6. ASSUME NEW i \in DOMAIN want'[t]
        PROVE  LET r == RecordAt(jsonl, want'[t][i]) IN r # NoRecord /\ r.id = i
    <2>1. i \in DOMAIN View /\ want'[t][i] = View[i].off
      BY <1>4
    <2>2. RecordAt(jsonl, want'[t][i]) = jsonl[View[i].off]
      BY <1>2, <2>1 DEF RecordAt
    <2>3. jsonl[View[i].off] \in Records
      BY <1>2, <1>3, <2>1 DEF IsFile
    <2> QED
      BY <1>2, <2>1, <2>2, <2>3, MarksAssumption
  <1> QED
    BY <1>5, <1>6 DEF ReadIsRight

(* It stays so while lines are only added.                                  *)
LEMMA ReadStaysRight ==
    ASSUME TypeInv, FileGrows, NEW t \in Threads, ReadIsRight(t),
           want'[t] = want[t] \/ want'[t] = Empty
    PROVE  ReadIsRight(t)'
  <1>1. CASE want'[t] = Empty
    BY <1>1, EmptyIsEmpty DEF ReadIsRight
  <1>2. CASE want'[t] = want[t]
    <2>1. ASSUME NEW i \in DOMAIN want[t]
          PROVE  RecordAt(jsonl', want[t][i]) = RecordAt(jsonl, want[t][i])
      <3>1. want[t][i] \in DOMAIN jsonl /\ jsonl[want[t][i]] # Torn
        BY DEF ReadIsRight, RecordAt
      <3> QED
        BY <3>1, GrowsKeeps DEF RecordAt
    <2> QED
      BY <1>2, <2>1 DEF ReadIsRight
  <1> QED
    BY <1>1, <1>2

(* No step but a rotation's makes a read miss that would have been right,   *)
(* and a lookup always begins a read that is.                               *)
LookupLasts ==
    \A t \in Threads :
        ReadIsRight(t) \/ want'[t] # want[t] =>
            ReadIsRight(t)' \/ \E u \in Threads : RotateJsonl(u)

LEMMA LookupLastsNext == IInv /\ ConnInv /\ [Next]_vars => LookupLasts
  <1> SUFFICES ASSUME IInv, ConnInv, [Next]_vars,
                      \A u \in Threads : ~RotateJsonl(u),
                      NEW t \in Threads, ReadIsRight(t) \/ want'[t] # want[t]
               PROVE  ReadIsRight(t)'
    BY DEF LookupLasts
  <1> USE DEF fileVars, indexVars, threadVars
  <1>a. TypeInv /\ DOMAIN want = Threads
    BY DEF IInv, TypeInv, TypeOK
  <1>b. ASSUME FileGrows, want'[t] = want[t] \/ want'[t] = Empty
        PROVE  ReadIsRight(t)'
    <2>1. CASE want'[t] = Empty
      BY <2>1, EmptyIsEmpty DEF ReadIsRight
    <2> QED
      BY <1>a, <1>b, <2>1, ReadStaysRight
  <1>1. ASSUME NEW u \in Threads, NEW ids \in ReadSets, Lookup(u, ids)
        PROVE  ReadIsRight(t)'
    <2>1. CASE u = t
      BY <1>1, <2>1, LookupIsRight
    <2>2. CASE u # t
      BY <1>a, <1>b, <1>1, <2>2 DEF Lookup, FileGrows
    <2> QED
      BY <2>1, <2>2
  <1>2. ASSUME NEW u \in Threads, Seek(u) PROVE ReadIsRight(t)'
    BY <1>a, <1>b, <1>2 DEF Seek, FileGrows
  <1>3. ASSUME NEW u \in Threads,
               \/ \E id \in RecordIds : BeginAppend(u, id)
               \/ Step(u)
               \/ Fault(u)
        PROVE  ReadIsRight(t)'
    <2>1. FileGrows /\ want' = want
      BY <1>3
      DEF BeginAppend, Step, Enter, Write, WriteLine, Insert, Commit,
          NoConnection, RotateClose, RotateDb, RotateFresh, Fault, WriteFails,
          InsertFails, CommitFails, RenameFails, FileGrows
    <2> QED
      BY <1>b, <2>1
  <1>4. CASE Crash
    BY <1>b, <1>4 DEF Crash, FileGrows
  <1>5. CASE Close \/ Exit \/ DeleteDb \/ Open \/ UNCHANGED vars
    BY <1>b, <1>5 DEF Close, Exit, DeleteDb, Open, vars, FileGrows
  <1> QED
    BY <1>1, <1>2, <1>3, <1>4, <1>5 DEF Next

(* What a reader found in the index stays right until it has read it, if no *)
(* rotation moves the file away: whatever is appended or fails in between.  *)
THEOREM ReadsFailByRotationOnly ==
    ASSUME RenamesAreAtomic
    PROVE  Spec => [][LookupLasts]_vars
  <1>1. Init => ConnInv
    BY DEF Init, ConnInv, Moving
  <1>2. IInv /\ [Next]_vars => IInv'
    BY NextType, LockNext, InFlightNext, RowsNext DEF IInv
  <1>3. IInv /\ ConnInv /\ [Next]_vars => ConnInv'
    BY ConnNext DEF IInv
  <1>4. IInv /\ ConnInv /\ [Next]_vars => [LookupLasts]_vars
    BY LookupLastsNext
  <1> QED
    BY <1>1, <1>2, <1>3, <1>4, InitInv, PTL DEF Spec

-----------------------------------------------------------------------------
(* Durability.  The files only grow and only move under fresh names; the    *)
(* proof needs nothing of the index, and no fault is excluded.              *)

Grows ==
    /\ \/ Kept(jsonl, jsonl')
       \/ \E ts \in DOMAIN archives' : archives'[ts] = jsonl
    /\ Kept(archives, archives')

LEMMA StepGrows ==
    ASSUME FreshStamps, TypeInv, [Next]_vars
    PROVE  Grows
  <1> USE DEF fileVars, indexVars, threadVars
  <1>1. CASE FileGrows /\ archives' = archives
    BY <1>1, GrowsKeeps DEF Grows, Kept
  <1>2. ASSUME NEW t \in Threads, RotateJsonl(t) PROVE Grows
    <2>1. PICK ts \in Stamps : /\ ts \notin DOMAIN archives
                               /\ archives' = Put(archives, ts, jsonl)
      BY <1>2 DEF RotateJsonl
    <2> QED
      BY <2>1 DEF Grows, Kept, Put
  <1>3. ASSUME NEW t \in Threads, Step(t) \/ Fault(t), ~RotateJsonl(t)
        PROVE  FileGrows /\ archives' = archives
    BY <1>3
    DEF Step, Fault, Enter, Write, WriteLine, Insert, Commit, NoConnection,
        RotateClose, RotateDb, RotateFresh, WriteFails, InsertFails,
        CommitFails, RenameFails, FileGrows
  <1>4. ASSUME NEW t \in Threads,
               \/ \E id \in RecordIds : BeginAppend(t, id)
               \/ \E ids \in ReadSets : Lookup(t, ids)
               \/ Seek(t)
        PROVE  FileGrows /\ archives' = archives
    BY <1>4 DEF BeginAppend, Lookup, Seek, FileGrows
  <1>5. CASE Close \/ Exit \/ Crash \/ DeleteDb \/ Open \/ UNCHANGED vars
    BY <1>1, <1>5 DEF Close, Exit, Crash, DeleteDb, Open, vars, FileGrows
  <1> QED
    BY <1>1, <1>2, <1>3, <1>4, <1>5 DEF Next

DurableInv == TypeInv /\ LockInv /\ InFlightInv /\ AckedNeverLost

LEMMA AckedNext ==
    ASSUME FreshStamps, DurableInv, [Next]_vars
    PROVE  AckedNeverLost'
  <1>a. TypeInv /\ LockInv /\ InFlightInv /\ AckedNeverLost
    BY DEF DurableInv
  <1> DEFINE kept(f, as) ==
        RecordsIn(f) \cup UNION {RecordsIn(as[ts]) : ts \in DOMAIN as}
  <1>1. kept(jsonl, archives) \subseteq kept(jsonl', archives')
    <2>1. Grows
      BY <1>a, StepGrows
    <2>2. \A ts \in DOMAIN archives : ts \in DOMAIN archives'
                                      /\ archives'[ts] = archives[ts]
      BY <2>1 DEF Grows, Kept
    <2>3. RecordsIn(jsonl) \subseteq kept(jsonl', archives')
      <3>1. CASE Kept(jsonl, jsonl')
        BY <3>1 DEF Kept, RecordsIn
      <3>2. CASE \E ts \in DOMAIN archives' : archives'[ts] = jsonl
        BY <3>2
      <3> QED
        BY <2>1, <3>1, <3>2 DEF Grows
    <2> QED
      BY <2>2, <2>3
  <1>2. CASE acked' = acked
    BY <1>a, <1>1, <1>2 DEF AckedNeverLost
  <1>3. ASSUME NEW t \in Threads, Commit(t), acked' # acked
        PROVE  AckedNeverLost'
    <2>1. acked' = acked \cup {arg[t]} /\ nested[t] = NoRecord /\ jsonl' = jsonl
      BY <1>3 DEF Commit, fileVars
    <2>2. jsonl[pos[t]] = arg[t] /\ pos[t] \in DOMAIN jsonl
      BY <1>a, <1>3, <2>1 DEF Commit, InFlightInv, Pending, Current
    <2>3. arg[t] # Torn
      BY <1>a, <1>3, MarksAssumption
      DEF Commit, TypeInv, Called, Records
    <2>4. arg[t] \in RecordsIn(jsonl')
      BY <2>1, <2>2, <2>3 DEF RecordsIn
    <2> QED
      BY <1>a, <1>1, <2>1, <2>4 DEF AckedNeverLost
  <1>4. ASSUME NEW t \in Threads,
               \/ \E id \in RecordIds : BeginAppend(t, id)
               \/ Step(t) /\ ~Commit(t)
               \/ Fault(t)
               \/ \E ids \in ReadSets : Lookup(t, ids)
               \/ Seek(t)
        PROVE  acked' = acked
    BY <1>4
    DEF BeginAppend, Step, Enter, Write, Insert, NoConnection, RotateClose,
        RotateJsonl, RotateDb, RotateFresh, Fault, WriteFails, InsertFails,
        CommitFails, RenameFails, Lookup, Seek
  <1>5. CASE Close \/ Exit \/ Crash \/ DeleteDb \/ Open \/ UNCHANGED vars
    BY <1>2, <1>5 DEF Close, Exit, Crash, DeleteDb, Open, vars
  <1> QED
    BY <1>2, <1>3, <1>4, <1>5 DEF Next, Step

LEMMA DurableInvariant == ASSUME FreshStamps PROVE Spec => []DurableInv
  <1>1. Init => DurableInv
    BY InitInv DEF Init, IInv, DurableInv, AckedNeverLost
  <1>2. DurableInv /\ [Next]_vars => DurableInv'
    BY NextType, LockNext, InFlightNext, AckedNext DEF DurableInv
  <1> QED
    BY <1>1, <1>2, PTL DEF Spec

(* What append returned for stays in the live file or an archive, if the    *)
(* clock never names two archives alike.                                    *)
THEOREM AckedIsDurable == ASSUME FreshStamps PROVE Spec => []AckedNeverLost
  <1>1. DurableInv => AckedNeverLost
    BY DEF DurableInv
  <1> QED
    BY <1>1, DurableInvariant, PTL

(* Under the same condition the log is append-only.                         *)
THEOREM AppendOnly == ASSUME FreshStamps PROVE Spec => NeverRewritten
  <1>1. TypeInv /\ [Next]_vars => Grows
    BY StepGrows
  <1>2. Grows => [Grows]_vars
    OBVIOUS
  <1>3. Spec => [][Grows]_vars
    BY <1>1, <1>2, InitType, NextType, PTL DEF Spec
  <1> QED
    BY <1>3 DEF NeverRewritten, Grows
=============================================================================
