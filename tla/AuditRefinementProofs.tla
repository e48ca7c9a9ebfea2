------------------------ MODULE AuditRefinementProofs ------------------------
(***************************************************************************)
(* AuditLog implements Ledger, step by step, for any number of threads,    *)
(* orders, calls and faults, refused COMMITs included.  Three things are   *)
(* assumed of the environment: the clock gives each rotation a fresh       *)
(* suffix, no failure falls between the two renames of a rotation, and no  *)
(* index is removed from a log whose file may be torn.                     *)
(***************************************************************************)
EXTENDS AuditLogRefinement, AuditIndexProofs

RefInv == CallInv /\ RowsInv /\ FindableInv

-----------------------------------------------------------------------------
(* What lookups may see.  An index that leads only to records of the id it  *)
(* is asked for, and never to one before the last that an append returned   *)
(* for, shows a view of the ledger.                                         *)

Leads(ix) ==
    \A o \in DOMAIN jsonl :
        jsonl[o] \in acked => /\ jsonl[o].id \in DOMAIN ix
                              /\ ix[jsonl[o].id].off >= o

LEMMA LastIsLast ==
    ASSUME TypeInv, NEW i \in DOMAIN LastNow
    PROVE  \E m \in AckedAt(i) :
                LastNow[i] = jsonl[m] /\ \A p \in AckedAt(i) : p <= m
  <1>1. size \in Nat /\ AckedAt(i) \in SUBSET (0 .. (size - 1))
    BY DEF TypeInv, TypeOK, AckedAt
  <1>2. AckedAt(i) # {}
    BY DEF LastNow, RecordsIn, AckedAt
  <1>3. \E m \in AckedAt(i) : \A p \in AckedAt(i) : p <= m
    BY <1>1, <1>2, LargestExists
  <1> QED
    BY <1>3 DEF LastNow

LEMMA IndexShows ==
    ASSUME TypeInv, NEW ix, SoundIndex(ix, jsonl), Leads(ix)
    PROVE  DirectoryOf(ix) \in L!Views(UnackedNow, LastNow)
  <1> DEFINE D == DirectoryOf(ix)
             U == {q \in UnackedNow : q.id \in DOMAIN ix /\ q = D[q.id]}
  <1>1. DOMAIN D = DOMAIN ix
        /\ \A i \in DOMAIN ix : D[i] = jsonl[ix[i].off] /\ D[i].id = i
    BY DEF DirectoryOf, RecordAt, SoundIndex
  <1>2. U \in SUBSET UnackedNow /\ L!OnePerId(U)
    BY DEF L!OnePerId
  <1>3. ASSUME NEW i \in DOMAIN LastNow PROVE i \in DOMAIN ix
    <2>1. PICK r \in acked \cap RecordsIn(jsonl) : r.id = i
      BY DEF LastNow
    <2> QED
      BY <2>1 DEF RecordsIn, Leads
  <1>4. ASSUME NEW i \in DOMAIN ix, D[i] \notin U
        PROVE  i \in DOMAIN LastNow /\ LastNow[i] = D[i]
    <2>1. /\ ix[i].off \in DOMAIN jsonl /\ jsonl[ix[i].off] # Torn
          /\ jsonl[ix[i].off].id = i /\ D[i] = jsonl[ix[i].off]
      BY <1>1 DEF SoundIndex
    <2>2. D[i] \notin UnackedNow
      BY <1>1, <1>4
    <2>3. PICK a \in AckedAt(i) : ~(a < ix[i].off)
      BY <2>1, <2>2 DEF UnackedNow
    <2>4. i \in DOMAIN LastNow
      <3>1. Torn \notin acked
        BY MarksAssumption DEF TypeInv, TypeOK, Records
      <3> QED
        BY <2>3, <3>1 DEF AckedAt, LastNow, RecordsIn
    <2>5. PICK m \in AckedAt(i) :
                LastNow[i] = jsonl[m] /\ \A p \in AckedAt(i) : p <= m
      BY <2>4, LastIsLast
    <2>6. ix[i].off >= m
      BY DEF Leads, AckedAt
    <2>7. m \in Int /\ a \in Int /\ ix[i].off \in Int
      BY <2>1 DEF AckedAt, TypeInv, TypeOK
    <2>8. a <= m
      BY <2>5
    <2>9. m = ix[i].off
      BY <2>3, <2>6, <2>7, <2>8
    <2> QED
      BY <2>1, <2>4, <2>5, <2>9
  <1>5. \A r \in U : r.id \in DOMAIN ix /\ r = D[r.id]
    OBVIOUS
  <1> HIDE DEF U, D
  <1>6. DOMAIN ix = DOMAIN LastNow \cup {r.id : r \in U}
    BY <1>1, <1>3, <1>4, <1>5
  <1>7. ASSUME NEW i \in DOMAIN ix
        PROVE  D[i] = IF \E r \in U : r.id = i THEN CHOOSE r \in U : r.id = i
                      ELSE LastNow[i]
    <2>1. CASE \E r \in U : r.id = i
      BY <1>5, <2>1
    <2>2. CASE ~ \E r \in U : r.id = i
      BY <1>1, <1>4, <2>2
    <2> QED
      BY <2>1, <2>2
  <1>8. D = [i \in DOMAIN ix |-> D[i]]
    BY <1>1 DEF D, DirectoryOf
  <1>9. D = L!Showing(U, LastNow)
    BY <1>6, <1>7, <1>8 DEF L!Showing
  <1> QED
    BY <1>2, <1>9 DEF D, L!Views

(* A closed log whose file is whole and whose index is empty has nothing to *)
(* rebuild only if the file is empty.                                       *)
LEMMA NothingInFile ==
    ASSUME TypeInv, ~Corrupt(jsonl), rows = Empty, ~MustRebuild
    PROVE  DOMAIN jsonl = {}
  <1>1. IsFiniteSet(DOMAIN jsonl) /\ CountLines(jsonl) = Cardinality(DOMAIN jsonl)
    BY LinesAreFinite, WholeLines DEF TypeInv, TypeOK
  <1>2. Cardinality(DOMAIN jsonl) \in Nat /\ ~(Cardinality(DOMAIN jsonl) > 0)
    BY <1>1, FS_CardinalityType DEF MustRebuild
  <1>3. Cardinality(DOMAIN jsonl) = 0
    BY <1>2
  <1> QED
    BY <1>1, <1>3, FS_EmptySet

DirectoryIsCurrent == DirectoryNow \in L!Views(UnackedNow, LastNow)

LEMMA LookupsAreCurrent ==
    ASSUME RebuildsAreWhole, RefInv
    PROVE  DirectoryIsCurrent
  <1>a. TypeInv /\ MarkerInv /\ RowsInv /\ FindableInv
        /\ size \in Nat /\ DOMAIN jsonl \subseteq 0 .. (size - 1) /\ IsFile(jsonl)
    BY DEF RefInv, CallInv, BaseInv, TypeInv, TypeOK
  <1>1. CASE BetweenRenames
    <2>1. size = 0
      BY <1>a, <1>1 DEF BetweenRenames, MarkerInv, Pending
    <2>2. DOMAIN jsonl = {}
      <3>1. ASSUME NEW o \in DOMAIN jsonl PROVE FALSE
        BY <1>a, <2>1
      <3> QED
        BY <3>1
    <2>3. SoundIndex(Empty, jsonl) /\ Leads(Empty)
      BY <2>2, EmptyIsEmpty DEF SoundIndex, Leads
    <2>4. DirectoryNow = DirectoryOf(Empty)
      BY <1>1 DEF DirectoryNow, DirectoryOf, Empty
    <2> QED
      BY <1>a, <2>3, <2>4, IndexShows DEF DirectoryIsCurrent
  <1>2. CASE ~BetweenRenames /\ ~up /\ MustRebuild
    <2>1. SoundIndex(Rebuilt(jsonl), jsonl)
      BY <1>a, RebuiltIsSound DEF SoundIndex
    <2>2. Leads(Rebuilt(jsonl))
      <3>1. CASE "db_removed" \notin Faults
        <4>1. \A o \in DOMAIN jsonl : jsonl[o] \notin acked
          BY <1>2, <1>a, <3>1, EmptyIsEmpty DEF FindableInv, IndexKept, MustRebuild
        <4> QED
          BY <4>1 DEF Leads
      <3>2. CASE ~Corrupt(jsonl)
        BY <1>a, <3>2, RebuiltIsComplete DEF Leads
      <3> QED
        BY <1>a, <3>1, <3>2 DEF RebuildsAreWhole, FindableInv
    <2> QED
      BY <1>a, <1>2, <2>1, <2>2, IndexShows DEF DirectoryIsCurrent, DirectoryNow
  <1>3. CASE ~BetweenRenames /\ ~(~up /\ MustRebuild)
    <2>1. SoundIndex(View, jsonl)
      BY <1>a, <1>3 DEF RowsInv, SoundIndex, View, Over
    <2>2. Leads(View)
      <3>1. CASE IndexKept
        BY <1>a, <3>1 DEF FindableInv, Leads, View, Over
      <3>2. CASE ~IndexKept
        <4>1. ~up /\ rows = Empty /\ ~MustRebuild /\ ~Corrupt(jsonl)
          BY <1>a, <1>3, <3>2 DEF IndexKept, RebuildsAreWhole, FindableInv
        <4>2. DOMAIN jsonl = {}
          BY <1>a, <4>1, NothingInFile
        <4> QED
          BY <4>2 DEF Leads
      <3> QED
        BY <3>1, <3>2
    <2> QED
      BY <1>a, <1>3, <2>1, <2>2, IndexShows DEF DirectoryIsCurrent, DirectoryNow
  <1> QED
    BY <1>1, <1>2, <1>3

-----------------------------------------------------------------------------
(* The files: only Write adds a record, only a rotation moves them.         *)

Shown == <<StoredNow, LastNow, UnackedNow>>

LEMMA AddedAtTheEnd ==
    ASSUME TypeInv, NEW v, jsonl' = Put(jsonl, size, v)
    PROVE  /\ DOMAIN jsonl' = DOMAIN jsonl \cup {size} /\ jsonl'[size] = v
           /\ \A o \in DOMAIN jsonl : o < size /\ jsonl'[o] = jsonl[o]
  <1>1. size \in Nat /\ \A o \in DOMAIN jsonl : o < size /\ o # size
    BY DEF TypeInv, TypeOK
  <1> QED
    BY <1>1 DEF Put

(* A torn fragment is no record.                                            *)
LEMMA NothingRecorded ==
    ASSUME TypeInv, jsonl' = jsonl \/ jsonl' = Put(jsonl, size, Torn),
           archives' = archives, acked' = acked
    PROVE  UNCHANGED Shown
  <1>1. CASE jsonl' = jsonl
    BY <1>1 DEF Shown, StoredNow, LastNow, UnackedNow, AckedAt
  <1>2. CASE jsonl' = Put(jsonl, size, Torn)
    <2>1. size \notin DOMAIN jsonl /\ Torn \notin acked
      BY MarksAssumption DEF TypeInv, TypeOK, Records
    <2>2. /\ DOMAIN jsonl' = DOMAIN jsonl \cup {size} /\ jsonl'[size] = Torn
          /\ \A o \in DOMAIN jsonl : jsonl'[o] = jsonl[o]
      BY <1>2, AddedAtTheEnd
    <2>3. RecordsIn(jsonl') = RecordsIn(jsonl)
      BY <2>1, <2>2 DEF RecordsIn
    <2>4. ASSUME NEW i PROVE AckedAt(i)' = AckedAt(i)
      <3>1. AckedAt(i)' = {o \in DOMAIN jsonl' : jsonl'[o] \in acked /\ jsonl'[o].id = i}
        BY DEF AckedAt
      <3> QED
        BY <2>1, <2>2, <3>1 DEF AckedAt
    <2>5. StoredNow' = StoredNow
      BY <2>3 DEF StoredNow
    <2>6. LastNow' = LastNow
      <3>1. DOMAIN LastNow' = DOMAIN LastNow
        BY <2>3 DEF LastNow
      <3>2. ASSUME NEW i \in DOMAIN LastNow PROVE LastNow'[i] = LastNow[i]
        <4>1. PICK m \in AckedAt(i) :
                LastNow[i] = jsonl[m] /\ \A p \in AckedAt(i) : p <= m
          BY LastIsLast
        <4> QED
          BY <2>2, <2>4, <3>1, <4>1 DEF LastNow, AckedAt
      <3> QED
        BY <3>1, <3>2 DEF LastNow
    <2>7. UnackedNow' = UnackedNow
      BY <2>1, <2>2, <2>4 DEF UnackedNow
    <2> QED
      BY <2>5, <2>6, <2>7 DEF Shown
  <1> QED
    BY <1>1, <1>2

(* A record is stranded when its line is in the file: its append has not    *)
(* returned, and no index need lead to it.                                  *)
LEMMA WriteStrands ==
    ASSUME CallInv, NEW t \in Threads, Write(t)
    PROVE  /\ StoredNow' = StoredNow \cup {Current(t)}
           /\ UnackedNow' = UnackedNow \cup {Current(t)}
           /\ LastNow' = LastNow
  <1> DEFINE r == Current(t)
  <1>a. TypeInv /\ CallsInv
    BY DEF CallInv, BaseInv
  <1>1. /\ jsonl' = Put(jsonl, size, r) /\ archives' = archives
        /\ acked' = acked /\ pc[t] # "idle"
    BY DEF Write, WriteLine
  <1>2. r # Torn /\ r \notin acked
    <2>1. r \in Records
      BY <1>a, <1>1, CurrentIsRecord
    <2>2. CASE HasMarker(t)
      <3>1. r \in Markers /\ acked \subseteq Entries
        BY <1>a, <2>2, MarkerType DEF TypeInv, TypeOK
      <3> QED
        BY <2>1, <3>1, MarksAssumption, IdsAssumption DEF Entries, Markers
    <2>3. CASE ~HasMarker(t)
      BY <1>a, <1>1, <2>1, <2>3, MarkerType, MarksAssumption DEF CallsInv
    <2> QED
      BY <2>2, <2>3
  <1>3. /\ DOMAIN jsonl' = DOMAIN jsonl \cup {size} /\ jsonl'[size] = r
        /\ \A o \in DOMAIN jsonl : o < size /\ jsonl'[o] = jsonl[o]
    BY <1>a, <1>1, AddedAtTheEnd
  <1> HIDE DEF r
  <1>4. RecordsIn(jsonl') = RecordsIn(jsonl) \cup {r}
    BY <1>2, <1>3 DEF RecordsIn
  <1>5. ASSUME NEW i PROVE AckedAt(i)' = AckedAt(i)
    <2>1. AckedAt(i)' = {o \in DOMAIN jsonl' : jsonl'[o] \in acked /\ jsonl'[o].id = i}
      BY <1>1 DEF AckedAt
    <2> QED
      BY <1>2, <1>3, <2>1 DEF AckedAt
  <1>6. StoredNow' = StoredNow \cup {r}
    BY <1>1, <1>4 DEF StoredNow
  <1>7. LastNow' = LastNow
    <2>1. DOMAIN LastNow' = DOMAIN LastNow
      BY <1>1, <1>2, <1>4 DEF LastNow
    <2>2. ASSUME NEW i \in DOMAIN LastNow PROVE LastNow'[i] = LastNow[i]
      <3>1. PICK m \in AckedAt(i) :
              LastNow[i] = jsonl[m] /\ \A p \in AckedAt(i) : p <= m
        BY <1>a, LastIsLast
      <3> QED
        BY <1>3, <1>5, <2>1, <3>1 DEF LastNow, AckedAt
    <2> QED
      BY <2>1, <2>2 DEF LastNow
  <1>8. UnackedNow' = UnackedNow \cup {r}
    <2>1. \A a \in AckedAt(r.id) : a < size
      BY <1>3 DEF AckedAt
    <2> QED
      BY <1>2, <1>3, <1>5, <2>1 DEF UnackedNow
  <1> QED
    BY <1>6, <1>7, <1>8 DEF r

(* The COMMIT returns the append: its line is the last, so its record is    *)
(* the last of its id that an append returned for.                          *)
LEMMA CommitReturns ==
    ASSUME CallInv, NEW t \in Threads, Commit(t), nested[t] = NoRecord,
           NEW r, r = arg[t]
    PROVE  /\ r \in StoredNow' /\ StoredNow' = StoredNow \cup {r}
           /\ LastNow' = [i \in DOMAIN LastNow \cup {r.id} |->
                            IF i = r.id THEN r ELSE LastNow[i]]
           /\ UnackedNow' = {q \in UnackedNow : q.id # r.id}
  <1>a. TypeInv /\ InFlightInv /\ LineInv
        /\ size \in Nat /\ DOMAIN jsonl \subseteq 0 .. (size - 1)
    BY DEF CallInv, BaseInv, TypeInv, TypeOK
  <1>1. /\ jsonl' = jsonl /\ archives' = archives /\ acked' = acked \cup {r}
        /\ Pending(t) /\ pc[t] # "idle" /\ Current(t) = r
    BY DEF Commit, fileVars, Pending, Current
  <1>2. /\ pos[t] \in DOMAIN jsonl /\ jsonl[pos[t]] = r
        /\ \A o \in DOMAIN jsonl : o <= pos[t]
    BY <1>a, <1>1 DEF InFlightInv, LineInv
  <1>3. r # Torn
    BY <1>a, <1>1, MarksAssumption DEF TypeInv, Called, Records
  <1>4. r \in RecordsIn(jsonl)
    BY <1>2, <1>3 DEF RecordsIn
  <1>5. pos[t] \in AckedAt(r.id)'
    BY <1>1, <1>2 DEF AckedAt
  <1>6. ASSUME NEW i, i # r.id PROVE AckedAt(i)' = AckedAt(i)
    BY <1>1, <1>6 DEF AckedAt
  <1>7. StoredNow' = StoredNow /\ r \in StoredNow
    BY <1>1, <1>4 DEF StoredNow
  <1>8. LastNow' = [i \in DOMAIN LastNow \cup {r.id} |->
                      IF i = r.id THEN r ELSE LastNow[i]]
    <2>1. DOMAIN LastNow' = DOMAIN LastNow \cup {r.id}
      BY <1>1, <1>4 DEF LastNow
    <2>2. LastNow'[r.id] = r
      <3>1. \A m \in AckedAt(r.id)' :
                (\A p \in AckedAt(r.id)' : p <= m) => m = pos[t]
        BY <1>a, <1>1, <1>2, <1>5 DEF AckedAt
      <3>2. \A p \in AckedAt(r.id)' : p <= pos[t]
        BY <1>1, <1>2 DEF AckedAt
      <3>3. pos[t] = CHOOSE o \in AckedAt(r.id)' :
                        \A p \in AckedAt(r.id)' : p <= o
        BY <1>5, <3>1, <3>2
      <3> QED
        BY <1>1, <1>2, <2>1, <3>3 DEF LastNow
    <2>3. ASSUME NEW i \in DOMAIN LastNow, i # r.id PROVE LastNow'[i] = LastNow[i]
      <3>1. AckedAt(i)' = AckedAt(i) /\ i \in DOMAIN LastNow'
        BY <1>6, <2>1, <2>3
      <3>2. LastNow'[i] =
                jsonl'[CHOOSE o \in AckedAt(i)' : \A p \in AckedAt(i)' : p <= o]
        BY <3>1 DEF LastNow
      <3> QED
        BY <1>1, <3>1, <3>2 DEF LastNow
    <2>4. LastNow' = [i \in DOMAIN LastNow' |-> LastNow'[i]]
      BY DEF LastNow
    <2> QED
      BY <2>1, <2>2, <2>3, <2>4
  <1>9. UnackedNow' = {q \in UnackedNow : q.id # r.id}
    <2>1. ASSUME NEW p \in DOMAIN jsonl, jsonl[p].id = r.id
          PROVE  ~ \A a \in AckedAt(r.id)' : a < p
      BY <1>a, <1>2, <1>5
    <2> QED
      BY <1>1, <1>6, <2>1 DEF UnackedNow
  <1> QED
    BY <1>7, <1>8, <1>9

(* A rotation moves the records and loses none, under a suffix of its own.  *)
LEMMA RotationTurnsPage ==
    ASSUME FreshStamps, NEW t \in Threads, RotateJsonl(t)
    PROVE  /\ StoredNow' = StoredNow
           /\ LastNow' = L!NoEntries /\ UnackedNow' = {}
  <1>1. PICK ts \in Stamps :
          ts \notin DOMAIN archives /\ archives' = Put(archives, ts, jsonl)
    BY DEF RotateJsonl
  <1>2. DOMAIN jsonl' = {}
    BY EmptyIsEmpty DEF RotateJsonl
  <1>3. RecordsIn(jsonl') = {}
    BY <1>2 DEF RecordsIn
  <1>4. /\ DOMAIN archives' = DOMAIN archives \cup {ts} /\ archives'[ts] = jsonl
        /\ \A s \in DOMAIN archives : archives'[s] = archives[s]
    BY <1>1 DEF Put
  <1>5. ASSUME NEW r \in StoredNow PROVE r \in StoredNow'
    BY <1>4, <1>5 DEF StoredNow
  <1>6. ASSUME NEW r \in StoredNow' PROVE r \in StoredNow
    <2>1. PICK s \in DOMAIN archives' : r \in RecordsIn(archives'[s])
      BY <1>3, <1>6 DEF StoredNow
    <2> QED
      BY <1>4, <2>1 DEF StoredNow
  <1>7. LastNow' = L!NoEntries
    <2>1. DOMAIN LastNow' = {}
      BY <1>3 DEF LastNow
    <2> QED
      BY <2>1 DEF LastNow, L!NoEntries
  <1>8. UnackedNow' = {}
    BY <1>2 DEF UnackedNow
  <1> QED
    BY <1>5, <1>6, <1>7, <1>8

-----------------------------------------------------------------------------
(* The refinement, step by step.                                            *)

LedgerStep == [L!Next]_<<StoredNow, LastNow, UnackedNow, DirectoryNow>>

LEMMA StepImplements ==
    ASSUME FreshStamps, RefInv, DirectoryIsCurrent', [Next]_vars
    PROVE  LedgerStep
  <1> USE DEF fileVars, indexVars, threadVars
  <1>a. CallInv /\ TypeInv
    BY DEF RefInv, CallInv, BaseInv
  <1>b. DirectoryNow' \in L!Views(UnackedNow', LastNow')
    BY DEF DirectoryIsCurrent
  \* The rest moves no record: at most a transaction or the index.
  <1>c. ASSUME UNCHANGED Shown PROVE LedgerStep
    <2>1. L!Reindex
      BY <1>b, <1>c DEF Shown, L!Reindex
    <2> QED
      BY <2>1 DEF LedgerStep, L!Next
  <1>d. ASSUME jsonl' = jsonl \/ jsonl' = Put(jsonl, size, Torn),
               archives' = archives, acked' = acked
        PROVE  LedgerStep
    BY <1>a, <1>c, <1>d, NothingRecorded
  <1>1. ASSUME NEW t \in Threads, Write(t) PROVE LedgerStep
    <2>1. /\ StoredNow' = StoredNow \cup {Current(t)}
          /\ UnackedNow' = UnackedNow \cup {Current(t)}
          /\ LastNow' = LastNow
      BY <1>a, <1>1, WriteStrands
    <2>2. L!Strand(Current(t)) /\ Current(t) \in StoredNow'
      BY <1>b, <2>1 DEF L!Strand
    <2> QED
      BY <2>2 DEF LedgerStep, L!Next
  <1>2. ASSUME NEW t \in Threads, Commit(t), nested[t] = NoRecord
        PROVE  LedgerStep
    <2>1. PICK r : r = arg[t]
      OBVIOUS
    <2>2. /\ r \in StoredNow' /\ StoredNow' = StoredNow \cup {r}
          /\ LastNow' = [i \in DOMAIN LastNow \cup {r.id} |->
                            IF i = r.id THEN r ELSE LastNow[i]]
          /\ UnackedNow' = {q \in UnackedNow : q.id # r.id}
      BY <1>a, <1>2, <2>1, CommitReturns
    <2>3. L!Append(r)
      BY <1>b, <2>2 DEF L!Append
    <2> QED
      BY <2>2, <2>3 DEF LedgerStep, L!Next
  \* The entry below a marker has yet to be written.
  <1>3. ASSUME NEW t \in Threads, Commit(t), nested[t] # NoRecord
        PROVE  LedgerStep
    BY <1>d, <1>3 DEF Commit
  <1>4. ASSUME NEW t \in Threads, RotateJsonl(t) PROVE LedgerStep
    <2>1. StoredNow' = StoredNow /\ LastNow' = L!NoEntries /\ UnackedNow' = {}
      BY <1>4, RotationTurnsPage
    <2>2. DirectoryNow' = L!NoEntries
      <3>1. \A U \in SUBSET UnackedNow' : L!Showing(U, LastNow') = L!NoEntries
        BY <2>1 DEF L!Showing, L!NoEntries
      <3> QED
        BY <1>b, <3>1 DEF L!Views
    <2>3. L!TurnPage
      BY <2>1, <2>2 DEF L!TurnPage
    <2> QED
      BY <2>3 DEF LedgerStep, L!Next
  <1>5. ASSUME NEW t \in Threads,
               \/ \E id \in RecordIds : BeginAppend(t, id)
               \/ Enter(t) \/ Insert(t) \/ NoConnection(t)
               \/ RotateClose(t) \/ RotateDb(t) \/ RotateFresh(t)
               \/ Fault(t) \/ Seek(t)
               \/ \E ids \in ReadSets : Lookup(t, ids)
        PROVE  LedgerStep
    BY <1>d, <1>5
    DEF BeginAppend, Enter, Insert, NoConnection, RotateClose, RotateDb,
        RotateFresh, Fault, WriteFails, InsertFails, CommitFails, RenameFails,
        Seek, Lookup
  <1>6. CASE Close \/ Exit \/ Crash \/ DeleteDb \/ Open \/ UNCHANGED vars
    BY <1>d, <1>6 DEF Close, Exit, Crash, DeleteDb, Open, vars
  <1> QED
    BY <1>1, <1>2, <1>3, <1>4, <1>5, <1>6 DEF Next, Step

LEMMA RefAlways ==
    ASSUME RenamesAreAtomic, RebuildsAreWhole
    PROVE  /\ Init => RefInv
           /\ RefInv /\ [Next]_vars => RefInv'
  <1>1. Init => RefInv
    BY InitInv, CallAlways, EmptyIsEmpty
    DEF IInv, RefInv, Init, FindableInv, Corrupt
  <1>2. ASSUME RefInv, [Next]_vars PROVE RefInv'
    <2>1. CallInv /\ IInv /\ FindableInv
      BY <1>2 DEF RefInv, CallInv, BaseInv, IInv
    <2> QED
      BY <1>2, <2>1, CallAlways, RowsNext, FindableNext DEF RefInv
  <1> QED
    BY <1>1, <1>2

(* Threads that append, rotate, close and reopen the log, with writes,      *)
(* inserts and commits that fail and a process that dies at any point, do   *)
(* only what the ledger allows.  In every state a lookup finds, for each id *)
(* on the page, the last record an append returned for or one written after *)
(* it.                                                                      *)
THEOREM LogImplementsLedger ==
    ASSUME FreshStamps, RenamesAreAtomic, RebuildsAreWhole
    PROVE  Spec => ImplementsLedger
  <1>1. Init => L!Init
    <2> SUFFICES ASSUME Init PROVE L!Init
      OBVIOUS
    <2>1. DOMAIN jsonl = {} /\ DOMAIN archives = {} /\ DOMAIN View = {}
          /\ RecordsIn(jsonl) = {}
      BY EmptyIsEmpty DEF Init, View, Over, RecordsIn
    <2>2. StoredNow = {} /\ UnackedNow = {}
      BY <2>1 DEF StoredNow, UnackedNow
    <2>3. LastNow = L!NoEntries
      <3>1. DOMAIN LastNow = {}
        BY <2>1 DEF LastNow
      <3> QED
        BY <3>1 DEF LastNow, L!NoEntries
    <2>4. DirectoryNow = L!NoEntries
      <3>1. DirectoryNow = DirectoryOf(View)
        BY DEF Init, DirectoryNow, BetweenRenames
      <3> QED
        BY <2>1, <3>1 DEF DirectoryOf, L!NoEntries
    <2> QED
      BY <2>2, <2>3, <2>4 DEF L!Init
  <1>2. RefInv => DirectoryIsCurrent
    BY LookupsAreCurrent
  <1>3. RefInv /\ DirectoryIsCurrent' /\ [Next]_vars
            => [L!Next]_<<StoredNow, LastNow, UnackedNow, DirectoryNow>>
    BY StepImplements DEF LedgerStep
  <1> QED
    BY <1>1, <1>2, <1>3, RefAlways, PTL DEF Spec, ImplementsLedger, L!Spec

-----------------------------------------------------------------------------
(* What the ledger promises comes with the refinement.                      *)

(* The last records and those after them are stored, under their ids.       *)
OnPage ==
    /\ UnackedNow \subseteq StoredNow
    /\ \A i \in DOMAIN LastNow : LastNow[i] \in StoredNow /\ LastNow[i].id = i

LEMMA OnPageNext ==
    OnPage /\ [L!Next]_<<StoredNow, LastNow, UnackedNow, DirectoryNow>> => OnPage'
  <1> SUFFICES ASSUME OnPage,
                      [L!Next]_<<StoredNow, LastNow, UnackedNow, DirectoryNow>>
               PROVE  OnPage'
    OBVIOUS
  <1>1. ASSUME NEW r, L!Append(r) PROVE OnPage'
    BY <1>1 DEF L!Append, OnPage
  <1>2. ASSUME NEW r, L!Strand(r) PROVE OnPage'
    BY <1>2 DEF L!Strand, OnPage
  <1>3. CASE L!TurnPage
    BY <1>3 DEF L!TurnPage, L!NoEntries, OnPage
  <1>4. CASE L!Reindex \/ UNCHANGED <<StoredNow, LastNow, UnackedNow, DirectoryNow>>
    BY <1>4 DEF L!Reindex, OnPage
  <1> QED
    BY <1>1, <1>2, <1>3, <1>4 DEF L!Next

(* A lookup is led to lines of this log only, each to one of the id it was  *)
(* asked for.                                                               *)
THEOREM DirectoryLeadsToStored ==
    ASSUME FreshStamps, RenamesAreAtomic, RebuildsAreWhole
    PROVE  Spec => []L!DirectoryIsSound
  <1>1. L!Init => OnPage
    BY DEF L!Init, L!NoEntries, OnPage
  <1>2. RefInv => DirectoryIsCurrent
    BY LookupsAreCurrent
  <1>3. OnPage /\ DirectoryIsCurrent => L!DirectoryIsSound
    <2> SUFFICES ASSUME OnPage, DirectoryIsCurrent, NEW i \in DOMAIN DirectoryNow
                 PROVE  DirectoryNow[i] \in StoredNow /\ DirectoryNow[i].id = i
      BY DEF L!DirectoryIsSound
    <2>1. PICK U \in SUBSET UnackedNow : DirectoryNow = L!Showing(U, LastNow)
      BY DEF DirectoryIsCurrent, L!Views
    <2> QED
      BY <2>1 DEF L!Showing, OnPage
  <1> QED
    BY <1>1, <1>2, <1>3, OnPageNext, LogImplementsLedger, RefAlways, PTL
    DEF Spec, ImplementsLedger, L!Spec
=============================================================================
