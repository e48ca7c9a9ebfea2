--------------------------- MODULE SharedLogProofs ---------------------------
(***************************************************************************)
(* Theorems about SharedLog for any number of calls, any batches and any   *)
(* number of deaths and power failures.                                    *)
(***************************************************************************)
EXTENDS SharedLog, TLAPS, WellFoundedInduction

-----------------------------------------------------------------------------
(* Places and indexes.                                                       *)

(* A set of places in a file has a first and a last one.                     *)
LEMMA FirstExists ==
    ASSUME NEW S \in SUBSET Nat, S # {}
    PROVE  \E m \in S : \A p \in S : m <= p
  <1> DEFINE R == OpToRel(<, Nat)
  <1>1. \E x \in S : \A y \in S : ~ (<<y, x>> \in R)
    <2>1. IsWellFoundedOn(R, Nat) BY NatLessThanWellFounded
    <2> QED BY <2>1, WFMin
  <1>2. PICK m \in S : \A p \in S : ~ (p < m) BY <1>1 DEF OpToRel
  <1> QED BY <1>2

LEMMA LastExists ==
    ASSUME NEW n \in Nat, NEW S \in SUBSET (1 .. n), S # {}
    PROVE  \E m \in S : \A p \in S : p <= m
  <1> DEFINE D == {n - o : o \in S}
  <1>1. D \in SUBSET Nat /\ D # {}
    <2>1. \A o \in S : o \in Int /\ n - o \in Nat OBVIOUS
    <2> QED BY <2>1
  <1>2. PICK d \in D : \A e \in D : d <= e BY <1>1, FirstExists
  <1>3. PICK m \in S : d = n - m OBVIOUS
  <1>4. ASSUME NEW p \in S PROVE p <= m BY <1>2, <1>3
  <1> QED BY <1>4

LEMMA OverDomain ==
    ASSUME NEW f, NEW g
    PROVE  /\ DOMAIN Over(f, g) = DOMAIN f \cup DOMAIN g
           /\ \A x \in DOMAIN g : Over(f, g)[x] = g[x]
           /\ \A x \in DOMAIN f : x \notin DOMAIN g => Over(f, g)[x] = f[x]
  BY DEF Over

LEMMA RowDomain ==
    ASSUME NEW o, NEW q
    PROVE  DOMAIN Row(o, q) = {o} /\ Row(o, q)[o] = q
  BY DEF Row

LEMMA NoRowsDomain == DOMAIN NoRows = {}
  BY DEF NoRows

IsIndex(f) == DOMAIN f \subseteq Orders /\ \A o \in DOMAIN f : f[o] \in Nat \ {0}

LEMMA OverIsIndex ==
    ASSUME NEW f, NEW g, IsIndex(f), IsIndex(g)
    PROVE  IsIndex(Over(f, g))
  BY DEF IsIndex, Over

LEMMA RowIsIndex ==
    ASSUME NEW o \in Orders, NEW q \in Nat \ {0}
    PROVE  IsIndex(Row(o, q))
  BY DEF Row, IsIndex

(* A rebuild leads each order it finds to a line of that order.              *)
LEMMA RebuiltIsExact ==
    ASSUME NEW f \in Seq(Records \cup {Torn})
    PROVE  /\ DOMAIN Rebuilt(f) \subseteq Orders
           /\ \A o \in DOMAIN Rebuilt(f) : Rebuilt(f)[o] \in Places(f, o)
  <1>1. Scanned(f) \subseteq 1 .. Len(f) BY DEF Scanned
  <1>2. \A q \in Scanned(f) : f[q] \in Records
    <2> SUFFICES ASSUME NEW q \in Scanned(f) PROVE f[q] \in Records OBVIOUS
    <2>1. q \in 1 .. Len(f) /\ f[q] # Torn BY <1>1 DEF Scanned
    <2> QED BY <2>1
  <1>3. ASSUME NEW o \in DOMAIN Rebuilt(f)
        PROVE  o \in Orders /\ Rebuilt(f)[o] \in Places(f, o)
    <2> DEFINE at == Scanned(f) \cap Places(f, o)
    <2>1. PICK q \in Scanned(f) : o = f[q].order BY DEF Rebuilt
    <2>2. f[q] # Torn /\ q \in DOMAIN f BY <1>1, <2>1 DEF Scanned
    <2>3. q \in at BY <2>1, <2>2 DEF Places
    <2>4. at # {} /\ at \in SUBSET (1 .. Len(f)) BY <1>1, <2>3
    <2>5. Rebuilt(f)[o] = CHOOSE m \in at : \A p \in at : p <= m BY DEF Rebuilt
    <2> HIDE DEF at
    <2>6. \E m \in at : \A p \in at : p <= m
      <3>1. Len(f) \in Nat OBVIOUS
      <3> QED BY <2>4, <3>1, LastExists
    <2>7. Rebuilt(f)[o] \in at BY <2>5, <2>6
    <2>8. o \in Orders BY <1>2, <2>1 DEF Records
    <2> QED BY <2>7, <2>8 DEF at
  <1> QED BY <1>3

-----------------------------------------------------------------------------
(* Types.                                                                    *)

\* The invariant, call by call.
CallOK(c) ==
    /\ items[c] \in Batches \/ (pc[c] = "idle" /\ items[c] = <<>>)
    /\ done[c] \in 0 .. Len(items[c])
    /\ pc[c] \in Running => done[c] < Len(items[c])
    /\ (writer = c) <=> (pc[c] \in {"scanned", "commit"})
    /\ pc[c] = "idle" => done[c] = 0
    /\ pc[c] \in {"write", "insert", "commit"} => pos[c] > 0
    /\ pc[c] = "commit" => scanned = Row(Item(c).order, pos[c])
Locals ==
    /\ pc \in [Calls -> Running \cup {"idle", "returned", "raised"}]
    /\ items = [c \in Calls |-> items[c]] /\ done = [c \in Calls |-> done[c]]
    /\ pos \in [Calls -> Nat] /\ corrupt \in [Calls -> BOOLEAN]
Shared ==
    /\ file \in Seq(Records \cup {Torn})
    /\ IsIndex(rows) /\ IsIndex(scanned)
    /\ writer \in Calls \cup {Nobody} /\ (writer = Nobody => scanned = NoRows)
    /\ met \in BOOLEAN /\ lost \in BOOLEAN /\ faults \in 0 .. MaxFaults

Typed == Shared /\ Locals /\ \A c \in Calls : CallOK(c)

LEMMA TypedIsTypeOK == Typed => TypeOK
  BY DEF Typed, Shared, Locals, CallOK, TypeOK, IsIndex

LEMMA ItemType ==
    ASSUME Typed, NEW c \in Calls, pc[c] \in Running
    PROVE  /\ items[c] \in Seq(Items) /\ Len(items[c]) \in Nat
           /\ done[c] \in Nat /\ done[c] + 1 \in 1 .. Len(items[c])
           /\ Item(c) \in Items /\ Item(c).order \in Orders
           /\ [order |-> Item(c).order, by |-> c, item |-> done[c] + 1] \in Records
  <1>1. items[c] \in Seq(Items)
    BY BatchesAssumption DEF BatchesAssumption, Typed, CallOK, Running, Inside
  <1>2. done[c] \in Nat /\ done[c] + 1 \in 1 .. Len(items[c])
    BY <1>1 DEF Typed, CallOK
  <1>3. Item(c) \in Items BY <1>1, <1>2 DEF Item
  <1> QED BY <1>1, <1>2, <1>3 DEF Items, Records

\* What a step of another call leaves of a call: its locals, and the lock.
LEMMA OtherCall ==
    ASSUME Locals, NEW d \in Calls, CallOK(d),
           pc'[d] = pc[d], items'[d] = items[d], done'[d] = done[d], pos'[d] = pos[d],
           (writer' = d) <=> (writer = d),
           writer = d => scanned' = scanned
    PROVE  CallOK(d)'
  <1>1. Item(d)' = Item(d) BY DEF Item
  <1> QED BY <1>1 DEF CallOK

LEMMA TypeStep ==
    ASSUME Typed, Next
    PROVE  Typed'
  <1> USE NobodyAssumption DEF NobodyAssumption
  <1>1. ASSUME NEW c \in Calls, NEW batch \in Batches, Begin(c, batch)
        PROVE  Typed'
    <2>1. batch \in Seq(Items) /\ Len(batch) \in Nat /\ Len(batch) > 0
      BY BatchesAssumption DEF BatchesAssumption
    <2>2. /\ pc[c] = "idle" /\ pc' = [pc EXCEPT ![c] = "item"]
          /\ items' = [items EXCEPT ![c] = batch]
          /\ UNCHANGED <<file, rows, writer, scanned, done, pos, corrupt, met,
                         lost, faults>>
      BY <1>1 DEF Begin, Goto, dbVars
    <2>3. Shared' BY <2>2 DEF Typed, Shared
    <2>4. Locals' BY <2>2 DEF Typed, Locals, Running
    <2>5. CallOK(c)'
      <3>1. done'[c] = 0 /\ items'[c] = batch /\ pc'[c] = "item"
        BY <2>2 DEF Typed, Locals, CallOK
      <3>2. writer' # c BY <2>2 DEF Typed, CallOK
      <3> QED BY <2>1, <3>1, <3>2 DEF CallOK
    <2>6. \A d \in Calls : d # c => CallOK(d)'
      BY <2>2, OtherCall DEF Typed, Locals
    <2> QED BY <2>3, <2>4, <2>5, <2>6 DEF Typed
  <1>2. ASSUME NEW c \in Calls, Raise(c), pc[c] \in Running,
               file' \in Seq(Records \cup {Torn}), faults' \in 0 .. MaxFaults,
               UNCHANGED <<rows, items, done, pos, corrupt, met, lost>>
        PROVE  Typed'
    <2>1. /\ pc' = [pc EXCEPT ![c] = "raised"]
          /\ \/ writer = c /\ writer' = Nobody /\ scanned' = NoRows
             \/ UNCHANGED <<writer, scanned>> /\ writer # c
      BY <1>2 DEF Raise, Goto
    <2>2. Shared' BY <1>2, <2>1, NoRowsDomain DEF Typed, Shared, IsIndex
    <2>3. Locals' BY <1>2, <2>1 DEF Typed, Locals
    <2>4. CallOK(c)' BY <1>2, <2>1 DEF Typed, Locals, CallOK, Running, Inside
    <2>5. \A d \in Calls : d # c => CallOK(d)'
      BY <1>2, <2>1, OtherCall DEF Typed, Locals
    <2> QED BY <2>2, <2>3, <2>4, <2>5 DEF Typed
  <1>3. ASSUME NEW c \in Calls, NEW l \in Running \ {"write", "insert", "commit", "scanned"},
               pc[c] \in Running \ {"commit", "scanned"},
               pc' = [pc EXCEPT ![c] = l], met' \in BOOLEAN,
               UNCHANGED <<file, dbVars, items, done, pos, corrupt, lost, faults>>
        PROVE  Typed'
    <2>1. Shared' BY <1>3 DEF Typed, Shared, dbVars
    <2>2. Locals' BY <1>3 DEF Typed, Locals
    <2>3. CallOK(c)'
      BY <1>3 DEF Typed, Locals, CallOK, Running, Inside, dbVars
    <2>4. \A d \in Calls : d # c => CallOK(d)'
      BY <1>3, OtherCall DEF Typed, Locals, dbVars
    <2> QED BY <2>1, <2>2, <2>3, <2>4 DEF Typed
  <1>4. ASSUME NEW c \in Calls, Scan(c) PROVE Typed'
    <2>1. /\ pc[c] \in {"scan", "scanned"} /\ pc' = [pc EXCEPT ![c] = "scanned"]
          /\ writer \in {Nobody, c} /\ writer' = c /\ scanned' = Rebuilt(file)
          /\ corrupt' = [corrupt EXCEPT ![c] = Corrupt(file)]
          /\ UNCHANGED <<file, rows, items, done, pos, met, lost, faults>>
      BY <1>4 DEF Scan, Goto, Typed, CallOK
    <2>2. \A o \in DOMAIN scanned' : scanned'[o] \in DOMAIN file
      BY <2>1, RebuiltIsExact DEF Typed, Shared, Places
    <2>3. Shared' BY <2>1, <2>2, RebuiltIsExact DEF Typed, Shared, IsIndex
    <2>4. Locals' BY <2>1 DEF Typed, Locals, Running, Inside, Corrupt
    <2>5. CallOK(c)' BY <2>1 DEF Typed, Locals, CallOK, Running, Inside
    <2>6. \A d \in Calls : d # c => CallOK(d)'
      BY <2>1, OtherCall DEF Typed, Locals
    <2> QED BY <2>3, <2>4, <2>5, <2>6 DEF Typed
  <1>5. ASSUME NEW c \in Calls, ScanEnds(c) PROVE Typed'
    <2>1. /\ pc[c] = "scanned" /\ rows' = Over(rows, scanned)
          /\ writer' = Nobody /\ scanned' = NoRows
          /\ \E l \in {"raised", "tell"} : pc' = [pc EXCEPT ![c] = l]
          /\ UNCHANGED <<file, items, done, pos, corrupt, met, lost, faults>>
      BY <1>5 DEF ScanEnds, Goto, Rebuild
    <2>2. writer = c BY <2>1 DEF Typed, CallOK
    <2>3. Shared' BY <2>1, OverIsIndex, NoRowsDomain DEF Typed, Shared, IsIndex
    <2>4. Locals' BY <2>1 DEF Typed, Locals, Running, Inside
    <2>5. CallOK(c)' BY <2>1, <2>2 DEF Typed, Locals, CallOK, Running, Inside
    <2>6. \A d \in Calls : d # c => CallOK(d)'
      BY <2>1, <2>2, OtherCall DEF Typed, Locals
    <2> QED BY <2>3, <2>4, <2>5, <2>6 DEF Typed
  <1>6. ASSUME NEW c \in Calls, Tell(c) PROVE Typed'
    <2>1. /\ pc[c] = "tell" /\ pc' = [pc EXCEPT ![c] = "write"]
          /\ pos' = [pos EXCEPT ![c] = Len(file) + 1]
          /\ UNCHANGED <<file, rows, writer, scanned, items, done, corrupt, met, lost, faults>>
      BY <1>6 DEF Tell, Goto, dbVars
    <2>2. Len(file) \in Nat BY DEF Typed, Shared
    <2>3. Shared' BY <2>1 DEF Typed, Shared
    <2>4. Locals' BY <2>1, <2>2 DEF Typed, Locals, Running, Inside
    <2>5. CallOK(c)'
      <3>1. pos'[c] = Len(file) + 1 /\ pc'[c] = "write" BY <2>1 DEF Typed, Locals
      <3>2. CallOK(c) /\ writer' # c BY <2>1 DEF Typed, CallOK
      <3> QED BY <2>1, <2>2, <3>1, <3>2 DEF CallOK, Running, Inside
    <2>6. \A d \in Calls : d # c => CallOK(d)'
      BY <2>1, OtherCall DEF Typed, Locals
    <2> QED BY <2>3, <2>4, <2>5, <2>6 DEF Typed
  <1>7. ASSUME NEW c \in Calls, Write(c) PROVE Typed'
    <2>1. /\ pc[c] = "write" /\ pc' = [pc EXCEPT ![c] = "insert"]
          /\ file' = Append(file, [order |-> Item(c).order, by |-> c,
                                   item |-> done[c] + 1])
          /\ UNCHANGED <<rows, writer, scanned, items, done, pos, corrupt, met, lost, faults>>
      BY <1>7 DEF Write, WriteLine, Goto, dbVars
    <2>2. file' \in Seq(Records \cup {Torn})
      BY <2>1, ItemType DEF Typed, Shared, Running, Inside
    <2>3. Shared' BY <2>1, <2>2 DEF Typed, Shared
    <2>4. Locals' BY <2>1 DEF Typed, Locals, Running, Inside
    <2>5. CallOK(c)' BY <2>1 DEF Typed, Locals, CallOK, Running, Inside
    <2>6. \A d \in Calls : d # c => CallOK(d)'
      BY <2>1, OtherCall DEF Typed, Locals
    <2> QED BY <2>3, <2>4, <2>5, <2>6 DEF Typed
  <1>8. ASSUME NEW c \in Calls, Insert(c) PROVE Typed'
    <2>1. /\ pc[c] = "insert" /\ writer = Nobody
          /\ pc' = [pc EXCEPT ![c] = "commit"]
          /\ writer' = c /\ scanned' = Row(Item(c).order, pos[c])
          /\ UNCHANGED <<file, rows, items, done, pos, corrupt, met, lost, faults>>
      BY <1>8 DEF Insert, Goto
    <2>2. Item(c).order \in Orders BY <2>1, ItemType DEF Running, Inside
    <2>3. pos[c] \in Nat \ {0} BY <2>1 DEF Typed, Locals, CallOK
    <2>4. Shared' BY <2>1, <2>2, <2>3, RowIsIndex DEF Typed, Shared
    <2>5. Locals' BY <2>1 DEF Typed, Locals, Running, Inside
    <2>6. CallOK(c)' BY <2>1 DEF Typed, Locals, CallOK, Running, Inside, Item
    <2>7. \A d \in Calls : d # c => CallOK(d)'
      BY <2>1, OtherCall DEF Typed, Locals
    <2> QED BY <2>4, <2>5, <2>6, <2>7 DEF Typed
  <1>9. ASSUME NEW c \in Calls, Commit(c) PROVE Typed'
    <2>1. /\ pc[c] = "commit" /\ rows' = Over(rows, scanned)
          /\ writer' = Nobody /\ scanned' = NoRows
          /\ done' = [done EXCEPT ![c] = done[c] + 1]
          /\ pc' = [pc EXCEPT ![c] = IF done[c] + 1 = Len(items[c])
                                     THEN "returned" ELSE "item"]
          /\ UNCHANGED <<file, items, pos, corrupt, met, lost, faults>>
      BY <1>9 DEF Commit, Goto, Publish
    <2>2. writer = c BY <2>1 DEF Typed, CallOK
    <2>3. Shared' BY <2>1, OverIsIndex, NoRowsDomain DEF Typed, Shared, IsIndex
    <2>4. Locals' BY <2>1 DEF Typed, Locals, Running, Inside
    <2>5. CallOK(c)'
      <3>1. done[c] + 1 \in 1 .. Len(items[c]) /\ Len(items[c]) \in Nat
        BY <2>1, ItemType DEF Running, Inside
      <3>2. done'[c] = done[c] + 1 /\ items'[c] = items[c] BY <2>1 DEF Typed, Locals
      <3>3. items[c] \in Batches BY <2>1 DEF Typed, CallOK
      <3> QED BY <2>1, <2>2, <3>1, <3>2, <3>3 DEF Typed, Locals, CallOK, Running, Inside
    <2>6. \A d \in Calls : d # c => CallOK(d)'
      BY <2>1, <2>2, OtherCall DEF Typed, Locals
    <2> QED BY <2>3, <2>4, <2>5, <2>6 DEF Typed
  <1>10. ASSUME PowerFails PROVE Typed'
    <2>1. file' \in Seq(Records \cup {Torn})
      BY <1>10 DEF PowerFails, Typed, Shared
    <2>2. /\ pc' = [c \in Calls |-> IF pc[c] \in Running THEN "raised" ELSE pc[c]]
          /\ writer' = Nobody /\ scanned' = NoRows /\ lost' = TRUE
          /\ faults < MaxFaults /\ faults' = faults + 1
          /\ UNCHANGED <<rows, items, done, pos, corrupt, met>>
      BY <1>10 DEF PowerFails, Fault
    <2>3. Shared'
      BY <2>1, <2>2, NoRowsDomain, FaultsAssumption
         DEF Typed, Shared, IsIndex, FaultsAssumption
    <2>4. Locals' BY <2>2 DEF Typed, Locals
    <2>5. \A d \in Calls : CallOK(d)'
      BY <2>2 DEF Typed, Locals, CallOK, Running, Inside
    <2> QED BY <2>3, <2>4, <2>5 DEF Typed
  <1>11. ASSUME NEW c \in Calls, Sign(c) PROVE Typed'
    <2>1. CASE Item(c).whole
      BY <1>11, <1>3, <2>1 DEF Sign, Goto, dbVars, Running, Inside, Typed, Shared
    <2>2. CASE ~Item(c).whole
      BY <1>11, <1>2, <2>2 DEF Sign, Running, Typed, Shared
    <2> QED BY <2>1, <2>2
  <1>12. ASSUME NEW c \in Calls, Open(c) PROVE Typed'
    BY <1>12, <1>3 DEF Open, Goto, Running, Inside, Typed, Shared
  <1>13. ASSUME NEW c \in Calls, Probe(c) PROVE Typed'
    BY <1>13, <1>3 DEF Probe, Goto, Running, Inside, Typed, Shared
  <1>14. ASSUME NEW c \in Calls, Locked(c) PROVE Typed'
    BY <1>14, <1>2 DEF Locked, Busy, Running, Inside, Typed, Shared
  <1>15. ASSUME NEW c \in Calls, Dies(c) PROVE Typed'
    <2>1. file' \in Seq(Records \cup {Torn}) BY <1>15 DEF Dies, Typed, Shared
    <2>2. faults' \in 0 .. MaxFaults
      BY <1>15, FaultsAssumption DEF Dies, Fault, Typed, Shared, FaultsAssumption
    <2> QED BY <1>15, <1>2, <2>1, <2>2 DEF Dies
  <1> QED BY <1>1, <1>4, <1>5, <1>6, <1>7, <1>8, <1>9, <1>10, <1>11, <1>12,
             <1>13, <1>14, <1>15 DEF Next, Step

LEMMA TypedAlways == Spec => []Typed
  <1>1. ASSUME Init PROVE Typed
    <2>1. Shared
      <3>1. file \in Seq(Records \cup {Torn}) BY <1>1 DEF Init
      <3>2. IsIndex(NoRows) BY NoRowsDomain DEF IsIndex
      <3>3. faults \in 0 .. MaxFaults BY <1>1, FaultsAssumption DEF Init, FaultsAssumption
      <3> QED BY <1>1, <3>1, <3>2, <3>3 DEF Init, Shared
    <2>2. Locals BY <1>1 DEF Init, Locals
    <2>3. ASSUME NEW c \in Calls PROVE CallOK(c)
      <3>1. pc[c] = "idle" /\ items[c] = <<>> /\ done[c] = 0 /\ writer # c
        BY <1>1, NobodyAssumption DEF Init, NobodyAssumption
      <3> QED BY <3>1 DEF CallOK, Running, Inside
    <2> QED BY <2>1, <2>2, <2>3 DEF Typed
  <1>2. Typed /\ [Next]_vars => Typed'
    <2>1. CASE Typed /\ Next BY <2>1, TypeStep
    <2>2. CASE Typed /\ UNCHANGED vars
      <3>1. UNCHANGED <<file, rows, writer, scanned, pc, items, done, pos, corrupt,
                        met, lost, faults>>
        BY <2>2 DEF vars, dbVars, callVars
      <3> QED BY <2>2, <3>1 DEF Typed, Shared, Locals, CallOK, Item
    <2> QED BY <2>1, <2>2
  <1> QED BY <1>1, <1>2, PTL DEF Spec

\* The types of the log, of the index and of the calls.
THEOREM TypeCorrect == Spec => []TypeOK
  BY TypedAlways, TypedIsTypeOK, PTL

-----------------------------------------------------------------------------
(* The index knows what was acknowledged.                                    *)

\* The steps that leave the index, the items and the results alone.
LEMMA QuietSteps ==
    ASSUME Next
    PROVE  \/ UNCHANGED <<rows, items, done>>
           \/ \E c \in Calls : \/ \E batch \in Batches : Begin(c, batch)
                               \/ ScanEnds(c) \/ Commit(c)
  BY DEF Next, Step, Sign, Open, Probe, Scan, Tell, Write, Insert, Locked, Dies,
         PowerFails, dbVars

LEMMA AckedStep ==
    ASSUME Typed, AckedIsIndexed, Next
    PROVE  AckedIsIndexed'
  <1>1. ASSUME UNCHANGED <<rows, items, done>> PROVE AckedIsIndexed'
    BY <1>1 DEF AckedIsIndexed
  <1>2. ASSUME NEW c \in Calls, NEW batch \in Batches, Begin(c, batch)
        PROVE  AckedIsIndexed'
    <2>1. done[c] = 0 /\ UNCHANGED <<rows, done>>
      BY <1>2 DEF Begin, Typed, CallOK, dbVars
    <2>2. \A d \in Calls : d # c => items'[d] = items[d]
      BY <1>2 DEF Begin, Typed, Locals
    <2> QED BY <2>1, <2>2 DEF AckedIsIndexed
  <1>3. ASSUME NEW c \in Calls, ScanEnds(c) PROVE AckedIsIndexed'
    <2>1. UNCHANGED <<items, done>> /\ DOMAIN rows \subseteq DOMAIN rows'
      BY <1>3 DEF ScanEnds, Rebuild, Over
    <2> QED BY <2>1 DEF AckedIsIndexed
  <1>4. ASSUME NEW c \in Calls, Commit(c) PROVE AckedIsIndexed'
    <2>1. /\ pc[c] = "commit" /\ rows' = Over(rows, scanned)
          /\ done' = [done EXCEPT ![c] = done[c] + 1] /\ UNCHANGED items
      BY <1>4 DEF Commit, Publish
    <2>2. DOMAIN rows' = DOMAIN rows \cup {Item(c).order}
      <3>1. scanned = Row(Item(c).order, pos[c]) BY <2>1 DEF Typed, CallOK
      <3>2. DOMAIN scanned = {Item(c).order} BY <3>1 DEF Row
      <3> QED BY <2>1, <3>2 DEF Over
    <2>3. done[c] \in Nat /\ done'[c] = done[c] + 1
      BY <2>1, ItemType DEF Running, Inside, Typed, Locals
    <2>4. \A d \in Calls : d # c => done'[d] = done[d]
      BY <2>1 DEF Typed, Locals
    <2>5. items[c][done[c] + 1].order \in DOMAIN rows' BY <2>2 DEF Item
    <2>6. ASSUME NEW d \in Calls, NEW k \in 1 .. done'[d]
          PROVE  items'[d][k].order \in DOMAIN rows'
      <3>1. CASE d = c /\ k = done[c] + 1 BY <2>1, <2>5, <3>1
      <3>2. CASE k \in 1 .. done[d]
        BY <2>1, <2>2, <3>2 DEF AckedIsIndexed
      <3> QED BY <2>3, <2>4, <2>6, <3>1, <3>2
    <2> QED BY <2>6 DEF AckedIsIndexed
  <1> QED BY <1>1, <1>2, <1>3, <1>4, QuietSteps

\* Whoever dies and whatever power failures lose, an order whose result a caller
\* got has a row: deletions of rows or rebuilds that replace them would break it.
THEOREM AckedStaysIndexed == Spec => []AckedIsIndexed
  <1>1. Init => AckedIsIndexed BY DEF Init, AckedIsIndexed
  <1>2. Typed /\ AckedIsIndexed /\ [Next]_vars => AckedIsIndexed'
    <2>1. CASE Typed /\ AckedIsIndexed /\ Next BY <2>1, AckedStep
    <2>2. CASE AckedIsIndexed /\ UNCHANGED vars
      BY <2>2 DEF vars, dbVars, callVars, AckedIsIndexed
    <2> QED BY <2>1, <2>2
  <1> QED BY <1>1, <1>2, TypedAlways, PTL DEF Spec

-----------------------------------------------------------------------------
(* The file.                                                                 *)

Grows == file' = file \/ \E x \in Records \cup {Torn} : file' = Append(file, x)

LEMMA GrowthKeeps ==
    ASSUME Typed, Grows
    PROVE  /\ Len(file) \in Nat /\ Len(file') \in Nat /\ Len(file') >= Len(file)
           /\ DOMAIN file = 1 .. Len(file) /\ DOMAIN file' = 1 .. Len(file')
           /\ \A q \in DOMAIN file : q \in DOMAIN file' /\ file'[q] = file[q]
  BY DEF Typed, Shared, Grows

\* Every step but a power failure leaves the lines of the file alone.
LEMMA StepsGrow ==
    ASSUME Typed, Next, ~lost'
    PROVE  Grows /\ ~lost
  <1>1. ASSUME NEW c \in Calls, Write(c) PROVE Grows
    <2>1. pc[c] \in Running BY <1>1 DEF Write, Running, Inside
    <2> QED BY <1>1, <2>1, ItemType DEF Write, WriteLine, Grows
  <1>2. ASSUME NEW c \in Calls, Dies(c) PROVE Grows
    BY <1>2 DEF Dies, Grows
  <1>3. lost' = lost \/ PowerFails
    BY DEF Next, Step, Begin, Sign, Open, Probe, Scan, ScanEnds, Tell, Write,
           Insert, Locked, Commit, Dies
  <1>4. ~PowerFails BY DEF PowerFails
  <1>5. \/ file' = file \/ \E c \in Calls : Write(c) \/ Dies(c)
    BY <1>4 DEF Next, Step, Begin, Sign, Open, Probe, Scan, ScanEnds, Tell,
           Insert, Locked, Commit
  <1> QED BY <1>1, <1>2, <1>3, <1>4, <1>5 DEF Grows

Stored(c, k) ==
    \E q \in DOMAIN file : file[q] # Torn /\ file[q].by = c /\ file[q].item = k

\* What a caller got a result for is in the file, and what is about to be
\* indexed is too.
Recorded ==
    ~lost => \A c \in Calls :
        /\ \A k \in 1 .. done[c] : Stored(c, k)
        /\ pc[c] \in {"insert", "commit"} => Stored(c, done[c] + 1)

LEMMA StoredLasts ==
    ASSUME Typed, Grows
    PROVE  \A c, k : Stored(c, k) => Stored(c, k)'
  BY GrowthKeeps DEF Stored

LEMMA RecordedStep ==
    ASSUME Typed, Recorded, Next, ~lost'
    PROVE  Recorded'
  <1> USE StepsGrow, StoredLasts
  <1>1. ~lost /\ Grows OBVIOUS
  <1>2. ASSUME UNCHANGED done,
               \A d \in Calls : pc'[d] \in {"insert", "commit"} =>
                                    pc[d] \in {"insert", "commit"}
        PROVE  Recorded'
    BY <1>1, <1>2 DEF Recorded
  <1>3. ASSUME NEW c \in Calls, Write(c) PROVE Recorded'
    <2>1. /\ pc[c] = "write" /\ pc' = [pc EXCEPT ![c] = "insert"] /\ UNCHANGED done
          /\ file' = Append(file, [order |-> Item(c).order, by |-> c,
                                   item |-> done[c] + 1])
      BY <1>3 DEF Write, WriteLine, Goto
    <2>2. [order |-> Item(c).order, by |-> c, item |-> done[c] + 1] # Torn
      BY <2>1, ItemType, TornAssumption DEF TornAssumption, Running, Inside
    <2>3. /\ Len(file) + 1 \in DOMAIN file'
          /\ file'[Len(file) + 1] = [order |-> Item(c).order, by |-> c,
                                     item |-> done[c] + 1]
      BY <2>1 DEF Typed, Shared
    <2>4. Stored(c, done[c] + 1)' BY <2>1, <2>2, <2>3 DEF Stored
    <2>5. \A d \in Calls : d # c => pc'[d] = pc[d] BY <2>1 DEF Typed, Locals
    <2> QED BY <1>1, <2>1, <2>4, <2>5 DEF Recorded
  <1>4. ASSUME NEW c \in Calls, Commit(c) PROVE Recorded'
    <2>1. /\ pc[c] = "commit" /\ pc'[c] \notin {"insert", "commit"}
          /\ done' = [done EXCEPT ![c] = done[c] + 1]
          /\ \A d \in Calls : d # c => pc'[d] = pc[d]
      BY <1>4 DEF Commit, Goto, Typed, Locals
    <2>2. done[c] \in Nat /\ done'[c] = done[c] + 1
          /\ \A d \in Calls : d # c => done'[d] = done[d]
      BY <2>1, ItemType DEF Running, Inside, Typed, Locals
    <2>3. ASSUME NEW k \in 1 .. done'[c] PROVE Stored(c, k)'
      <3>1. k \in 1 .. done[c] \/ k = done[c] + 1 BY <2>2
      <3> QED BY <1>1, <2>1, <3>1 DEF Recorded
    <2> QED BY <1>1, <2>1, <2>2, <2>3 DEF Recorded
  <1>5. ASSUME NEW c \in Calls, Insert(c) PROVE Recorded'
    BY <1>2, <1>5 DEF Insert, Goto, Typed, Locals
  <1>6. ASSUME NEW c \in Calls, Sign(c) \/ Open(c) \/ Probe(c) \/ Scan(c)
                                \/ ScanEnds(c) \/ Tell(c)
        PROVE  Recorded'
    <2>1. UNCHANGED done
          /\ \E l \in {"open", "raised", "tell", "probe", "scan", "scanned", "write"} :
                pc' = [pc EXCEPT ![c] = l]
      BY <1>6 DEF Sign, Raise, Open, Probe, Scan, ScanEnds, Tell, Goto
    <2> QED BY <1>2, <2>1 DEF Typed, Locals
  <1>7. ASSUME NEW c \in Calls, NEW batch \in Batches, Begin(c, batch)
        PROVE  Recorded'
    BY <1>2, <1>7 DEF Begin, Goto, Typed, Locals
  <1>8. ASSUME NEW c \in Calls, Locked(c) \/ Dies(c) PROVE Recorded'
    BY <1>2, <1>8 DEF Locked, Dies, Raise, Goto, Typed, Locals
  <1>9. ~PowerFails BY DEF PowerFails
  <1> QED BY <1>3, <1>4, <1>5, <1>6, <1>7, <1>8, <1>9 DEF Next, Step

LEMMA RecordedAlways == Spec => []Recorded
  <1>1. ASSUME Init PROVE Recorded
    <2>1. \A c \in Calls : pc[c] = "idle" BY <1>1 DEF Init
    <2>2. ASSUME NEW c \in Calls, NEW k \in 1 .. done[c] PROVE Stored(c, k)
      <3>1. done[c] = 0 BY <1>1 DEF Init
      <3>2. FALSE BY <2>2, <3>1
      <3> QED BY <3>2
    <2> QED BY <2>1, <2>2 DEF Recorded
  <1>2. Typed /\ Recorded /\ [Next]_vars => Recorded'
    <2>1. CASE Typed /\ Recorded /\ Next /\ ~lost' BY <2>1, RecordedStep
    <2>2. CASE lost' BY <2>2 DEF Recorded
    <2>3. CASE Recorded /\ UNCHANGED vars
      BY <2>3 DEF vars, dbVars, callVars, Recorded, Stored
    <2> QED BY <2>1, <2>2, <2>3
  <1> QED BY <1>1, <1>2, TypedAlways, PTL DEF Spec

\* logs --verify reports the first of the fragments, so if it reports nothing
\* there is none, every record begins a line, and every record is listed.
THEOREM VerifiedLogsAreWhole == Spec => []LogsMissNothing
  <1>1. ASSUME Typed, Recorded PROVE LogsMissNothing
    <2> SUFFICES ASSUME ~lost, LogsVerify(file) = 0,
                        NEW c \in Calls, NEW k \in 1 .. done[c]
                 PROVE  \E q \in Listed(file) : file[q].by = c /\ file[q].item = k
      BY DEF LogsMissNothing
    <2>1. Listed(file) = LineStarts(file) BY DEF LogsVerify
    <2>2. DOMAIN file = 1 .. Len(file) /\ Len(file) \in Nat
      BY <1>1 DEF Typed, Shared
    <2>3. \A q \in DOMAIN file : file[q] # Torn
      <3> SUFFICES ASSUME {q \in DOMAIN file : file[q] = Torn} # {} PROVE FALSE
        OBVIOUS
      <3> DEFINE torn == {q \in DOMAIN file : file[q] = Torn}
      <3>1. torn \in SUBSET Nat BY <2>2
      <3>2. PICK q \in torn : \A p \in torn : q <= p BY <3>1, FirstExists
      <3>3. q = 1 \/ (q - 1 \in DOMAIN file /\ q - 1 \notin torn) BY <2>2, <3>2
      <3>4. q \in LineStarts(file) BY <3>2, <3>3 DEF LineStarts
      <3> QED BY <2>1, <3>2, <3>4 DEF Listed
    <2>4. PICK q \in DOMAIN file : file[q].by = c /\ file[q].item = k
      BY <1>1 DEF Recorded, Stored
    <2>5. q = 1 \/ q - 1 \in DOMAIN file BY <2>2
    <2>6. q \in Listed(file) BY <2>3, <2>5 DEF Listed, LineStarts
    <2> QED BY <2>4, <2>6
  <1> QED BY <1>1, TypedAlways, RecordedAlways, PTL

-----------------------------------------------------------------------------
(* Offsets.  The lines that another call appends between tell() and write()  *)
(* push the record further down, never up.                                   *)

Behind(f, order, off) == \E q \in Places(f, order) : q >= off

Offsets(c) ==
    /\ pc[c] = "write" => pos[c] <= Len(file) + 1
    /\ pc[c] = "insert" => Behind(file, Item(c).order, pos[c])

NotPast ==
    ~lost => /\ \A o \in DOMAIN rows : Behind(file, o, rows[o])
             /\ \A o \in DOMAIN scanned : Behind(file, o, scanned[o])
             /\ \A c \in Calls : Offsets(c)

LEMMA BehindLasts ==
    ASSUME Typed, Grows
    PROVE  \A o, n : Behind(file, o, n) => Behind(file', o, n)
  BY GrowthKeeps DEF Behind, Places

LEMMA OffsetsLast ==
    ASSUME Typed, Grows, NEW d \in Calls, Offsets(d), pc'[d] = pc[d],
           items'[d] = items[d], done'[d] = done[d], pos'[d] = pos[d]
    PROVE  Offsets(d)'
  <1>1. Item(d)' = Item(d) BY DEF Item
  <1>2. pos[d] \in Nat BY DEF Typed, Locals
  <1> QED BY <1>1, <1>2, GrowthKeeps, BehindLasts DEF Offsets

LEMMA RebuiltIsNotPast ==
    ASSUME Typed
    PROVE  \A o \in DOMAIN Rebuilt(file) : Behind(file, o, Rebuilt(file)[o])
  <1> SUFFICES ASSUME NEW o \in DOMAIN Rebuilt(file)
               PROVE  Behind(file, o, Rebuilt(file)[o])
    OBVIOUS
  <1>1. Rebuilt(file)[o] \in Places(file, o) BY RebuiltIsExact DEF Typed, Shared
  <1>2. Rebuilt(file)[o] \in Nat BY <1>1 DEF Places, Typed, Shared
  <1> QED BY <1>1, <1>2 DEF Behind

LEMMA NotPastStep ==
    ASSUME Typed, NotPast, Next, ~lost'
    PROVE  NotPast'
  <1>1. ~lost /\ Grows BY StepsGrow
  <1>2. \A o, n : Behind(file, o, n) => Behind(file', o, n) BY <1>1, BehindLasts
  <1>3. /\ \A o \in DOMAIN rows : Behind(file, o, rows[o])
        /\ \A o \in DOMAIN scanned : Behind(file, o, scanned[o])
        /\ \A c \in Calls : Offsets(c)
    BY <1>1 DEF NotPast
  \* A step of one call that leaves the two indexes as they are, or empties one.
  <1>4. ASSUME NEW c \in Calls, UNCHANGED rows,
               scanned' = scanned \/ scanned' = NoRows, Offsets(c)',
               \A d \in Calls : d # c =>
                   /\ pc'[d] = pc[d] /\ items'[d] = items[d]
                   /\ done'[d] = done[d] /\ pos'[d] = pos[d]
        PROVE  NotPast'
    <2>1. \A d \in Calls : Offsets(d)' BY <1>1, <1>3, <1>4, OffsetsLast
    <2> QED BY <1>2, <1>3, <1>4, <2>1, NoRowsDomain DEF NotPast
  <1>5. ASSUME NEW c \in Calls, NEW batch \in Batches, Begin(c, batch)
        PROVE  NotPast'
    <2>1. Offsets(c)' BY <1>5 DEF Begin, Goto, Offsets, Typed, Locals
    <2> QED BY <1>4, <1>5, <2>1 DEF Begin, Goto, dbVars, Typed, Locals
  <1>6. ASSUME NEW c \in Calls, Sign(c) \/ Open(c) \/ Probe(c) \/ Locked(c)
                                \/ Dies(c)
        PROVE  NotPast'
    <2>1. /\ \E l \in {"open", "raised", "tell", "probe", "scan"} :
                pc' = [pc EXCEPT ![c] = l]
          /\ UNCHANGED <<rows, items, done, pos>>
          /\ scanned' = scanned \/ scanned' = NoRows
      BY <1>6 DEF Sign, Raise, Open, Probe, Locked, Dies, Goto, dbVars
    <2>2. Offsets(c)' BY <2>1 DEF Offsets, Typed, Locals
    <2> QED BY <1>4, <2>1, <2>2 DEF Typed, Locals
  <1>7. ASSUME NEW c \in Calls, Scan(c) PROVE NotPast'
    <2>1. /\ scanned' = Rebuilt(file) /\ UNCHANGED <<file, rows, items, done, pos>>
          /\ pc' = [pc EXCEPT ![c] = "scanned"]
      BY <1>7 DEF Scan, Goto
    <2>2. \A o \in DOMAIN scanned' : Behind(file', o, scanned'[o])
      BY <1>2, <2>1, RebuiltIsNotPast
    <2>3. Offsets(c)' BY <2>1 DEF Offsets, Typed, Locals
    <2>4. \A d \in Calls : d # c => Offsets(d)'
      BY <1>1, <1>3, <2>1, OffsetsLast DEF Typed, Locals
    <2> QED BY <1>2, <1>3, <2>1, <2>2, <2>3, <2>4 DEF NotPast
  <1>8. ASSUME NEW c \in Calls, ScanEnds(c) \/ Commit(c) PROVE NotPast'
    <2>1. /\ \E l \in {"raised", "tell", "returned", "item"} :
                pc' = [pc EXCEPT ![c] = l]
          /\ rows' = Over(rows, scanned) /\ scanned' = NoRows
          /\ \A d \in Calls : d # c => done'[d] = done[d]
          /\ UNCHANGED <<items, pos>>
      BY <1>8 DEF ScanEnds, Rebuild, Commit, Publish, Goto, Typed, Locals
    <2>2. \A o \in DOMAIN rows' : Behind(file', o, rows'[o])
      BY <1>2, <1>3, <2>1 DEF Over
    <2>3. Offsets(c)' BY <2>1 DEF Offsets, Typed, Locals
    <2>4. \A d \in Calls : d # c => Offsets(d)'
      BY <1>1, <1>3, <2>1, OffsetsLast DEF Typed, Locals
    <2> QED BY <2>1, <2>2, <2>3, <2>4, NoRowsDomain DEF NotPast
  <1>9. ASSUME NEW c \in Calls, Tell(c) PROVE NotPast'
    <2>1. /\ pc' = [pc EXCEPT ![c] = "write"]
          /\ pos' = [pos EXCEPT ![c] = Len(file) + 1]
          /\ UNCHANGED <<file, rows, scanned, items, done>>
      BY <1>9 DEF Tell, Goto, dbVars
    <2>2. Offsets(c)' BY <2>1, GrowthKeeps, <1>1 DEF Offsets, Typed, Locals
    <2> QED BY <1>4, <2>1, <2>2 DEF Typed, Locals
  <1>10. ASSUME NEW c \in Calls, Write(c) PROVE NotPast'
    <2> DEFINE r == [order |-> Item(c).order, by |-> c, item |-> done[c] + 1]
    <2>1. /\ pc[c] = "write" /\ pc' = [pc EXCEPT ![c] = "insert"]
          /\ file' = Append(file, r)
          /\ UNCHANGED <<rows, scanned, items, done, pos>>
      BY <1>10 DEF Write, WriteLine, Goto, dbVars
    <2>2. r \in Records /\ r # Torn /\ r.order = Item(c).order
      BY <2>1, ItemType, TornAssumption DEF TornAssumption, Running, Inside
    <2> HIDE DEF r
    <2>3. Len(file) + 1 \in Places(file', Item(c).order)
      BY <2>1, <2>2 DEF Places, Typed, Shared
    <2>4. pos'[c] <= Len(file) + 1 /\ pos'[c] \in Nat /\ Len(file) \in Nat
      BY <1>3, <2>1 DEF Offsets, Typed, Locals, Shared
    <2>5. Item(c)' = Item(c) /\ pc'[c] = "insert"
      BY <2>1 DEF Item, Typed, Locals
    <2>6. Behind(file, Item(c).order, pos[c])' BY <2>3, <2>4, <2>5 DEF Behind
    <2>7. Offsets(c)' BY <2>5, <2>6 DEF Offsets
    <2> QED BY <1>4, <2>1, <2>7 DEF Typed, Locals
  <1>11. ASSUME NEW c \in Calls, Insert(c) PROVE NotPast'
    <2>1. /\ pc[c] = "insert" /\ pc' = [pc EXCEPT ![c] = "commit"]
          /\ scanned' = Row(Item(c).order, pos[c])
          /\ UNCHANGED <<file, rows, items, done, pos>>
      BY <1>11 DEF Insert, Goto
    <2>2. \A o \in DOMAIN scanned' : Behind(file', o, scanned'[o])
      BY <1>2, <1>3, <2>1 DEF Offsets, Row
    <2>3. Offsets(c)' BY <2>1 DEF Offsets, Typed, Locals
    <2>4. \A d \in Calls : d # c => Offsets(d)'
      BY <1>1, <1>3, <2>1, OffsetsLast DEF Typed, Locals
    <2> QED BY <1>2, <1>3, <2>1, <2>2, <2>3, <2>4 DEF NotPast
  <1>12. ~PowerFails BY DEF PowerFails
  <1> QED BY <1>5, <1>6, <1>7, <1>8, <1>9, <1>10, <1>11, <1>12 DEF Next, Step

\* Whatever interleaves between tell(), write() and the row's commit, reading
\* on from a row's offset meets a record of its order.
THEOREM RowsAreNotPast == Spec => []RowIsNotPastItsRecord
  <1>1. ASSUME Init PROVE NotPast
    <2>1. /\ \A c \in Calls : pc[c] = "idle"
          /\ rows = NoRows /\ scanned = NoRows
      BY <1>1 DEF Init
    <2> QED BY <2>1, NoRowsDomain DEF NotPast, Offsets
  <1>2. Typed /\ NotPast /\ [Next]_vars => NotPast'
    <2>1. CASE Typed /\ NotPast /\ Next /\ ~lost' BY <2>1, NotPastStep
    <2>2. CASE lost' BY <2>2 DEF NotPast
    <2>3. CASE NotPast /\ UNCHANGED vars
      BY <2>3 DEF vars, dbVars, callVars, NotPast, Behind, Places, Offsets, Item
    <2> QED BY <2>1, <2>2, <2>3
  <1>3. NotPast => RowIsNotPastItsRecord
    BY DEF NotPast, Behind, RowIsNotPastItsRecord
  <1> QED BY <1>1, <1>2, <1>3, TypedAlways, PTL DEF Spec

-----------------------------------------------------------------------------
(* One call at a time.                                                       *)

OneInside == \A c, d \in Calls : pc[c] \in Inside /\ pc[d] \in Inside => c = d

\* A record is the item of the call that wrote it.
Written ==
    \A q \in DOMAIN file : file[q] # Torn =>
        /\ pc[file[q].by] # "idle"
        /\ file[q].order = items[file[q].by][file[q].item].order

\* A call that is alone in the log knows where its line is, and that what it
\* rebuilds was not there.
Exact(c) ==
    /\ pc[c] = "write" => pos[c] = Len(file) + 1
    /\ pc[c] \in {"insert", "commit"} =>
            pos[c] = Len(file) /\ Len(file) \in Places(file, Item(c).order)
    /\ pc[c] \in {"scan", "scanned"} => rows = NoRows
    /\ pc[c] = "scanned" => \A o \in DOMAIN scanned : scanned[o] \in Places(file, o)

RowsExact == \A o \in DOMAIN rows : rows[o] \in Places(file, o)
RowsLatest ==
    \A q \in DOMAIN file :
        (file[q] # Torn /\ file[q].item <= done[file[q].by]) =>
            rows[file[q].order] >= q

Alone == OneInside /\ Written /\ (\A c \in Calls : Exact(c)) /\ RowsExact /\ RowsLatest

LEMMA LineType ==
    ASSUME Typed, NEW q \in DOMAIN file, file[q] # Torn
    PROVE  /\ q \in 1 .. Len(file) /\ Len(file) \in Nat
           /\ file[q] \in Records /\ file[q].by \in Calls
           /\ file[q].item \in Nat /\ file[q].item > 0
           /\ done[file[q].by] \in Nat
  <1>1. q \in 1 .. Len(file) /\ Len(file) \in Nat /\ file[q] \in Records
    BY DEF Typed, Shared
  <1>2. file[q].by \in Calls BY <1>1 DEF Records
  <1>3. done[file[q].by] \in Nat BY <1>2 DEF Typed, CallOK
  <1> QED BY <1>1, <1>2, <1>3 DEF Records

\* A step that leaves file, rows and results alone leaves what they say alone.
LEMMA AloneQuiet ==
    ASSUME Typed, Alone, NEW c \in Calls,
           UNCHANGED <<file, rows, items, done>>,
           pc[c] # "idle", pc'[c] # "idle",
           \A d \in Calls : d # c => pc'[d] = pc[d] /\ pos'[d] = pos[d],
           pc'[c] \in Inside => pc[c] \in Inside \/ \A d \in Calls \ {c} : pc[d] \notin Inside,
           pc[c] \notin Inside => UNCHANGED scanned,
           Exact(c)'
    PROVE  Alone'
  <1>1. OneInside' BY DEF Alone, OneInside
  <1>2. Written'
    <2> SUFFICES ASSUME NEW q \in DOMAIN file, file[q] # Torn
                 PROVE  pc'[file[q].by] # "idle"
                        /\ file[q].order = items[file[q].by][file[q].item].order
      BY DEF Written
    <2> QED BY LineType DEF Alone, Written
  <1>3. ASSUME NEW d \in Calls, d # c PROVE Exact(d)'
    <2>1. CASE pc[d] \notin Inside BY <1>3, <2>1 DEF Exact, Inside
    <2>2. CASE pc[d] \in Inside
      <3>1. pc[c] \notin Inside BY <1>3, <2>2 DEF Alone, OneInside
      <3>2. Item(d)' = Item(d) BY DEF Item
      <3> QED BY <1>3, <3>1, <3>2 DEF Alone, Exact
    <2> QED BY <2>1, <2>2
  <1>4. RowsExact' /\ RowsLatest' BY DEF Alone, RowsExact, RowsLatest
  <1> QED BY <1>1, <1>2, <1>3, <1>4 DEF Alone

LEMMA AloneStep ==
    ASSUME Typed, AckedIsIndexed, Alone, Next, ~lost', ~met'
    PROVE  Alone'
  <1> USE DEF Typed, Locals
  <1>1. Grows /\ ~PowerFails BY StepsGrow DEF PowerFails
  <1>2. ASSUME NEW c \in Calls, NEW batch \in Batches, Begin(c, batch)
        PROVE  Alone'
    <2>1. /\ pc[c] = "idle" /\ pc' = [pc EXCEPT ![c] = "item"]
          /\ items' = [items EXCEPT ![c] = batch]
          /\ UNCHANGED <<file, rows, scanned, done, pos>>
      BY <1>2 DEF Begin, Goto, dbVars
    <2>2. OneInside' BY <2>1 DEF Alone, OneInside, Inside
    <2>3. Written'
      <3> SUFFICES ASSUME NEW q \in DOMAIN file, file[q] # Torn
                   PROVE  pc'[file[q].by] # "idle"
                          /\ file[q].order = items'[file[q].by][file[q].item].order
        BY <2>1 DEF Written
      <3> QED BY <2>1, LineType DEF Alone, Written
    <2>4. ASSUME NEW d \in Calls PROVE Exact(d)'
      <3>1. CASE d = c BY <2>1, <3>1 DEF Exact
      <3>2. CASE d # c
        <4>1. Item(d)' = Item(d) BY <2>1, <3>2 DEF Item
        <4> QED BY <2>1, <3>2, <4>1 DEF Alone, Exact
      <3> QED BY <3>1, <3>2
    <2>5. RowsExact' /\ RowsLatest' BY <2>1 DEF Alone, RowsExact, RowsLatest
    <2> QED BY <2>2, <2>3, <2>4, <2>5 DEF Alone
  <1>3. ASSUME NEW c \in Calls, Sign(c) PROVE Alone'
    <2>1. /\ pc[c] = "item" /\ \E l \in {"open", "raised"} : pc' = [pc EXCEPT ![c] = l]
          /\ UNCHANGED <<file, rows, items, done, pos>>
          /\ scanned' = scanned \/ writer = c
      BY <1>3 DEF Sign, Raise, Goto
    <2>2. writer # c BY <2>1 DEF CallOK
    <2>3. Exact(c)' BY <2>1 DEF Exact
    <2> QED BY <2>1, <2>2, <2>3, AloneQuiet DEF Inside
  <1>4. ASSUME NEW c \in Calls, Open(c) PROVE Alone'
    <2>1. /\ pc[c] = "open" /\ \E l \in {"tell", "probe"} : pc' = [pc EXCEPT ![c] = l]
          /\ \A d \in Calls \ {c} : pc[d] \notin Inside
          /\ UNCHANGED <<file, rows, scanned, items, done, pos>>
      BY <1>4 DEF Open, Goto, dbVars, Shared
    <2>2. Exact(c)' BY <2>1 DEF Exact
    <2> QED BY <2>1, <2>2, AloneQuiet DEF Inside
  <1>5. ASSUME NEW c \in Calls, Probe(c) PROVE Alone'
    <2>1. /\ pc[c] = "probe"
          /\ \E l \in {"tell", "scan"} :
                pc' = [pc EXCEPT ![c] = l] /\ (l = "scan" => rows = NoRows)
          /\ UNCHANGED <<file, rows, scanned, items, done, pos>>
      BY <1>5 DEF Probe, Goto, dbVars
    <2>2. Exact(c)' BY <2>1 DEF Exact
    <2> QED BY <2>1, <2>2, AloneQuiet DEF Inside
  <1>6. ASSUME NEW c \in Calls, Scan(c) PROVE Alone'
    <2>1. /\ pc[c] \in {"scan", "scanned"} /\ pc' = [pc EXCEPT ![c] = "scanned"]
          /\ scanned' = Rebuilt(file)
          /\ UNCHANGED <<file, rows, items, done, pos>>
      BY <1>6 DEF Scan, Goto
    <2>2. \A o \in DOMAIN scanned' : scanned'[o] \in Places(file', o)
      BY <2>1, RebuiltIsExact DEF Shared
    <2>3. rows' = NoRows BY <2>1 DEF Alone, Exact
    <2>4. Exact(c)' BY <2>1, <2>2, <2>3 DEF Exact
    <2> QED BY <2>1, <2>4, AloneQuiet DEF Inside
  <1>7. ASSUME NEW c \in Calls, Tell(c) PROVE Alone'
    <2>1. /\ pc[c] = "tell" /\ pc' = [pc EXCEPT ![c] = "write"]
          /\ pos' = [pos EXCEPT ![c] = Len(file) + 1]
          /\ UNCHANGED <<file, rows, scanned, items, done>>
      BY <1>7 DEF Tell, Goto, dbVars
    <2>2. Exact(c)' BY <2>1 DEF Exact
    <2> QED BY <2>1, <2>2, AloneQuiet DEF Inside
  <1>8. ASSUME NEW c \in Calls, Insert(c) PROVE Alone'
    <2>1. /\ pc[c] = "insert" /\ pc' = [pc EXCEPT ![c] = "commit"]
          /\ UNCHANGED <<file, rows, items, done, pos>>
      BY <1>8 DEF Insert, Goto
    <2>2. Item(c)' = Item(c) BY <2>1 DEF Item
    <2>3. Exact(c)' BY <2>1, <2>2 DEF Alone, Exact
    <2> QED BY <2>1, <2>3, AloneQuiet DEF Inside
  <1>9. ASSUME NEW c \in Calls, Locked(c) PROVE Alone'
    <2>1. /\ pc[c] \in {"open", "scan", "insert"} /\ pc' = [pc EXCEPT ![c] = "raised"]
          /\ UNCHANGED <<file, rows, items, done, pos>>
          /\ scanned' = scanned \/ writer = c
      BY <1>9 DEF Locked, Busy, Raise, Goto
    <2>2. writer # c BY <2>1 DEF CallOK
    <2>3. Exact(c)' BY <2>1 DEF Exact
    <2> QED BY <2>1, <2>2, <2>3, AloneQuiet DEF Inside
  \* The calls that are not in the log have nothing to be exact about.
  <1>10. ASSUME NEW c \in Calls, pc[c] \in Inside,
                \A d \in Calls : d # c => pc'[d] = pc[d]
         PROVE  /\ OneInside' /\ \A d \in Calls : d # c => Exact(d)'
    BY <1>10 DEF Alone, OneInside, Exact, Inside
  <1>11. ASSUME NEW c \in Calls, Dies(c) PROVE Alone'
    <2>1. /\ pc[c] \in Running /\ pc' = [pc EXCEPT ![c] = "raised"]
          /\ UNCHANGED <<rows, items, done, pos>>
          /\ scanned' = scanned \/ writer = c
          /\ \/ file' = file
             \/ pc[c] = "write" /\ file' = Append(file, Torn)
      BY <1>11 DEF Dies, Raise, Goto
    <2>2. Exact(c)' BY <2>1 DEF Exact
    <2>3. CASE file' = file
      <3>1. pc[c] \notin Inside => writer # c BY DEF CallOK, Inside
      <3> QED BY <2>1, <2>2, <2>3, <3>1, AloneQuiet DEF Running, Inside
    <2>4. CASE pc[c] = "write" /\ file' = Append(file, Torn)
      <3>1. \A q \in DOMAIN file' : file'[q] # Torn =>
                q \in DOMAIN file /\ file'[q] = file[q]
        BY <2>4 DEF Shared
      <3>2. Written'
        <4> SUFFICES ASSUME NEW q \in DOMAIN file, file[q] # Torn
                     PROVE  pc'[file[q].by] # "idle"
                         /\ file[q].order = items[file[q].by][file[q].item].order
          BY <2>1, <3>1 DEF Written
        <4> QED BY <2>1, LineType DEF Alone, Written
      <3>3. RowsExact' BY <1>1, <2>1, GrowthKeeps DEF Alone, RowsExact, Places
      <3>4. RowsLatest' BY <2>1, <3>1 DEF Alone, RowsLatest
      <3> QED BY <1>10, <2>1, <2>2, <2>4, <3>2, <3>3, <3>4 DEF Alone, Inside
    <2> QED BY <2>1, <2>3, <2>4
  <1>12. ASSUME NEW c \in Calls, Write(c) PROVE Alone'
    <2> DEFINE r == [order |-> Item(c).order, by |-> c, item |-> done[c] + 1]
    <2>1. /\ pc[c] = "write" /\ pc' = [pc EXCEPT ![c] = "insert"]
          /\ file' = Append(file, r)
          /\ UNCHANGED <<rows, scanned, items, done, pos>>
      BY <1>12 DEF Write, WriteLine, Goto, dbVars
    <2>2. /\ r \in Records /\ r # Torn /\ r.by = c /\ r.item = done[c] + 1
          /\ r.order = items[c][done[c] + 1].order /\ r.order = Item(c).order
          /\ done[c] \in Nat
      BY <2>1, ItemType, TornAssumption DEF TornAssumption, Running, Inside, Item
    <2> HIDE DEF r
    <2>3. /\ Len(file') = Len(file) + 1 /\ Len(file) \in Nat
          /\ file'[Len(file) + 1] = r /\ Len(file) + 1 \in DOMAIN file'
          /\ \A q \in DOMAIN file' : q = Len(file) + 1
                                     \/ (q \in DOMAIN file /\ file'[q] = file[q])
      BY <2>1, <2>2 DEF Shared
    <2>4. Written'
      <3> SUFFICES ASSUME NEW q \in DOMAIN file', file'[q] # Torn
                   PROVE  pc'[file'[q].by] # "idle"
                       /\ file'[q].order = items[file'[q].by][file'[q].item].order
        BY <2>1 DEF Written
      <3>1. CASE q = Len(file) + 1 BY <2>1, <2>2, <2>3, <3>1
      <3>2. CASE q \in DOMAIN file /\ file'[q] = file[q]
        BY <2>1, <3>2, LineType DEF Alone, Written
      <3> QED BY <2>3, <3>1, <3>2
    <2>5. RowsExact' BY <1>1, <2>1, GrowthKeeps DEF Alone, RowsExact, Places
    <2>6. RowsLatest'
      <3> SUFFICES ASSUME NEW q \in DOMAIN file', file'[q] # Torn,
                          file'[q].item <= done[file'[q].by]
                   PROVE  rows[file'[q].order] >= q
        BY <2>1 DEF RowsLatest
      <3>1. q # Len(file) + 1
        <4> SUFFICES ASSUME q = Len(file) + 1 PROVE FALSE OBVIOUS
        <4>1. file'[q] = r BY <2>3
        <4>2. done[c] + 1 <= done[c] BY <2>2, <4>1
        <4> QED BY <2>2, <4>2
      <3>2. q \in DOMAIN file /\ file'[q] = file[q] BY <2>3, <3>1
      <3> QED BY <3>2 DEF Alone, RowsLatest
    <2>7. Exact(c)'
      <3>1. pos[c] = Len(file) + 1 BY <2>1 DEF Alone, Exact
      <3>2. Item(c)' = Item(c) /\ pc'[c] = "insert" BY <2>1 DEF Item
      <3>3. Len(file) + 1 \in Places(file', Item(c).order) BY <2>2, <2>3 DEF Places
      <3> QED BY <2>1, <2>3, <3>1, <3>2, <3>3 DEF Exact
    <2> QED BY <1>10, <2>1, <2>4, <2>5, <2>6, <2>7 DEF Alone, Inside
  <1>13. ASSUME NEW c \in Calls, ScanEnds(c) PROVE Alone'
    <2>1. /\ pc[c] = "scanned" /\ rows' = Over(rows, scanned)
          /\ \E l \in {"raised", "tell"} : pc' = [pc EXCEPT ![c] = l]
          /\ UNCHANGED <<file, items, done, pos>>
      BY <1>13 DEF ScanEnds, Goto, Rebuild
    <2>2. rows = NoRows /\ \A o \in DOMAIN scanned : scanned[o] \in Places(file, o)
      BY <2>1 DEF Alone, Exact
    <2>3. RowsExact' BY <2>1, <2>2, NoRowsDomain DEF RowsExact, Over
    <2>4. RowsLatest'
      <3> SUFFICES ASSUME NEW q \in DOMAIN file, file[q] # Torn,
                          file[q].item <= done[file[q].by]
                   PROVE  FALSE
        BY <2>1 DEF RowsLatest
      <3>1. file[q].item \in 1 .. done[file[q].by] BY LineType
      <3> QED BY <2>2, <3>1, NoRowsDomain, LineType DEF AckedIsIndexed
    <2>5. Written'
      <3> SUFFICES ASSUME NEW q \in DOMAIN file, file[q] # Torn
                   PROVE  pc'[file[q].by] # "idle"
                          /\ file[q].order = items[file[q].by][file[q].item].order
        BY <2>1 DEF Written
      <3> QED BY <2>1, LineType DEF Alone, Written
    <2>6. Exact(c)' BY <2>1 DEF Exact
    <2> QED BY <1>10, <2>1, <2>3, <2>4, <2>5, <2>6 DEF Alone, Inside
  <1>14. ASSUME NEW c \in Calls, Commit(c) PROVE Alone'
    <2>1. /\ pc[c] = "commit" /\ rows' = Over(rows, scanned)
          /\ done' = [done EXCEPT ![c] = done[c] + 1]
          /\ \E l \in {"returned", "item"} : pc' = [pc EXCEPT ![c] = l]
          /\ UNCHANGED <<file, items, pos>>
      BY <1>14 DEF Commit, Goto, Publish
    <2>2. /\ scanned = Row(Item(c).order, pos[c]) /\ pos[c] = Len(file)
          /\ Len(file) \in Places(file, Item(c).order)
      BY <2>1 DEF CallOK, Alone, Exact
    <2>3. /\ DOMAIN rows' = DOMAIN rows \cup {Item(c).order}
          /\ rows'[Item(c).order] = Len(file)
          /\ \A o \in DOMAIN rows : o # Item(c).order => rows'[o] = rows[o]
      BY <2>1, <2>2 DEF Over, Row
    <2>4. RowsExact' BY <2>1, <2>2, <2>3 DEF Alone, RowsExact
    <2>5. RowsLatest'
      <3> SUFFICES ASSUME NEW q \in DOMAIN file, file[q] # Torn,
                          file[q].item <= done'[file[q].by]
                   PROVE  rows'[file[q].order] >= q
        BY <2>1 DEF RowsLatest
      <3> DEFINE d == file[q].by
      <3>1. /\ q <= Len(file) /\ d \in Calls /\ file[q].item \in Nat
            /\ file[q].item > 0 /\ done[d] \in Nat /\ done[c] \in Nat
            /\ q \in Int /\ Len(file) \in Int
        <4>1. done[c] \in Nat BY <2>1, ItemType DEF Running, Inside
        <4> QED BY <4>1, LineType
      <3>2. CASE file[q].order = Item(c).order BY <2>3, <3>1, <3>2
      <3>3. CASE file[q].order # Item(c).order
        <4>1. file[q].order = items[d][file[q].item].order BY DEF Alone, Written
        <4>2. ~(d = c /\ file[q].item = done[c] + 1) BY <3>3, <4>1 DEF Item
        <4>3. file[q].item <= done[d] BY <2>1, <3>1, <4>2
        <4>4. file[q].item \in 1 .. done[d] BY <3>1, <4>3
        <4>5. file[q].order \in DOMAIN rows BY <3>1, <4>1, <4>4 DEF AckedIsIndexed
        <4> QED BY <2>3, <3>3, <4>3, <4>5 DEF Alone, RowsLatest
      <3> QED BY <3>2, <3>3
    <2>6. Written'
      <3> SUFFICES ASSUME NEW q \in DOMAIN file, file[q] # Torn
                   PROVE  pc'[file[q].by] # "idle"
                          /\ file[q].order = items[file[q].by][file[q].item].order
        BY <2>1 DEF Written
      <3> QED BY <2>1, LineType DEF Alone, Written
    <2>7. Exact(c)' BY <2>1 DEF Exact
    <2> QED BY <1>10, <2>1, <2>4, <2>5, <2>6, <2>7 DEF Alone, Inside
  <1> QED BY <1>1, <1>2, <1>3, <1>4, <1>5, <1>6, <1>7, <1>8, <1>9, <1>11, <1>12,
             <1>13, <1>14 DEF Next, Step

\* A log opened anew for every item by one call at a time has the rows a log held
\* open has, whichever calls raised or died before.
THEOREM AloneIsExact == Spec => []AloneRowsAreExact
  <1> DEFINE J == ~met /\ ~lost => Alone
  <1>1. ASSUME Init PROVE J
    <2>1. /\ file = <<>> /\ rows = NoRows /\ \A c \in Calls : pc[c] = "idle"
      BY <1>1 DEF Init
    <2>2. DOMAIN file = {} BY <2>1
    <2>3. \A c \in Calls : Exact(c) BY <2>1 DEF Exact
    <2>4. OneInside BY <2>1 DEF OneInside, Inside
    <2> QED BY <2>1, <2>2, <2>3, <2>4, NoRowsDomain
            DEF Alone, Written, RowsExact, RowsLatest
  <1>2. Typed /\ AckedIsIndexed /\ J /\ [Next]_vars => J'
    <2>1. CASE Typed /\ AckedIsIndexed /\ J /\ Next /\ ~lost' /\ ~met'
      <3>1. ~lost BY <2>1, StepsGrow
      <3>2. ~met
        BY <2>1 DEF Next, Step, Begin, Sign, Open, Probe, Scan, ScanEnds, Tell,
                    Write, Insert, Locked, Commit, Dies, PowerFails
      <3> QED BY <2>1, <3>1, <3>2, AloneStep
    <2>2. CASE lost' \/ met' BY <2>2
    <2>3. CASE J /\ UNCHANGED vars
      BY <2>3 DEF vars, dbVars, callVars, Alone, OneInside, Written, Exact,
                  RowsExact, RowsLatest, Places, Item
    <2> QED BY <2>1, <2>2, <2>3
  <1>3. J => AloneRowsAreExact
    BY DEF Alone, RowsExact, RowsLatest, AloneRowsAreExact
  <1> HIDE DEF J
  <1> QED BY <1>1, <1>2, <1>3, TypedAlways, AckedStaysIndexed, PTL DEF Spec


-----------------------------------------------------------------------------
(* Batches.  Each call logs its items one after the other; the item it is at *)
(* is logged from its write to its commit, and is the one item more that a   *)
(* call which then raises or dies leaves behind.                             *)

Prefix(c) ==
    /\ \A p, q \in LinesOf(c) : p < q => file[p].item < file[q].item
    /\ ItemsLogged(c) \in {1 .. done[c], 1 .. done[c] + 1}
    /\ \A k \in ItemsLogged(c) : k \in DOMAIN items[c] /\ items[c][k].whole
    /\ pc[c] \notin {"insert", "commit", "raised"} => ItemsLogged(c) = 1 .. done[c]
    /\ pc[c] \in {"insert", "commit"} => ItemsLogged(c) = 1 .. done[c] + 1
    /\ pc[c] \in Running \ {"item"} => Item(c).whole
    /\ pc[c] = "returned" => done[c] = Len(items[c])

Prefixes == ~lost => \A c \in Calls : Prefix(c)

\* A call whose lines, items and results a step leaves alone.
LEMMA PrefixKept ==
    ASSUME NEW c \in Calls, Prefix(c),
           LinesOf(c)' = LinesOf(c),
           \A q \in LinesOf(c) : file'[q].item = file[q].item,
           items'[c] = items[c], done'[c] = done[c],
           \/ pc'[c] = pc[c]
           \/ pc'[c] = "raised"
           \/ pc[c] = "insert" /\ pc'[c] = "commit"
           \/ /\ pc[c] \notin {"insert", "commit", "raised"}
              /\ pc'[c] \in Running \ {"item", "insert", "commit"}
              /\ pc[c] \in Running \ {"item"} \/ Item(c).whole
    PROVE  Prefix(c)'
  <1>1. ItemsLogged(c)' = ItemsLogged(c) /\ Item(c)' = Item(c)
    BY DEF ItemsLogged, Item
  <1>2. pc'[c] \in Running \ {"item"} => Item(c).whole
    BY DEF Prefix, Running, Inside
  <1>3. pc'[c] \in {"insert", "commit"} => pc[c] \in {"insert", "commit"}
    OBVIOUS
  <1>4. pc'[c] \notin {"insert", "commit", "raised"} =>
            pc[c] \notin {"insert", "commit", "raised"}
    OBVIOUS
  <1>5. pc'[c] = "returned" => pc[c] = "returned"
    BY DEF Running, Inside
  <1> QED BY <1>1, <1>2, <1>3, <1>4, <1>5 DEF Prefix

\* A line of another call, or a fragment, is no line of this one.
LEMMA LinesKept ==
    ASSUME Typed, NEW c \in Calls, NEW x \in Records \cup {Torn},
           \/ file' = file
           \/ file' = Append(file, x) /\ (x = Torn \/ x.by # c)
    PROVE  /\ LinesOf(c)' = LinesOf(c)
           /\ \A q \in LinesOf(c) : file'[q].item = file[q].item
  <1>1. CASE file' = file BY <1>1 DEF LinesOf
  <1>2. CASE file' = Append(file, x) /\ (x = Torn \/ x.by # c)
    <2>1. /\ DOMAIN file' = DOMAIN file \cup {Len(file) + 1}
          /\ file'[Len(file) + 1] = x
          /\ \A q \in DOMAIN file : file'[q] = file[q]
      BY <1>2 DEF Typed, Shared
    <2> QED BY <1>2, <2>1 DEF LinesOf
  <1> QED BY <1>1, <1>2

LEMMA PrefixStep ==
    ASSUME Typed, Prefixes, Next, ~lost'
    PROVE  Prefixes'
  <1>1. ~lost /\ \A c \in Calls : Prefix(c) BY StepsGrow DEF Prefixes
  <1>t. Torn \in Records \cup {Torn} OBVIOUS
  \* A step of one call, and what it does to the file for the others.
  <1>2. ASSUME NEW c \in Calls, NEW x \in Records \cup {Torn},
               \/ file' = file
               \/ file' = Append(file, x) /\ (x = Torn \/ x.by = c),
               \A d \in Calls : d # c =>
                    pc'[d] = pc[d] /\ items'[d] = items[d] /\ done'[d] = done[d],
               Prefix(c)'
        PROVE  Prefixes'
    <2>1. ASSUME NEW d \in Calls, d # c PROVE Prefix(d)'
      <3>1. \/ file' = file
            \/ file' = Append(file, x) /\ (x = Torn \/ x.by # d)
        BY <1>2, <2>1
      <3>2. /\ LinesOf(d)' = LinesOf(d)
            /\ \A q \in LinesOf(d) : file'[q].item = file[q].item
        BY <3>1, LinesKept
      <3> QED BY <1>1, <1>2, <2>1, <3>2, PrefixKept
    <2> QED BY <1>2, <2>1 DEF Prefixes
  <1>3. ASSUME NEW c \in Calls, Write(c) PROVE Prefixes'
    <2> DEFINE line == [order |-> Item(c).order, by |-> c, item |-> done[c] + 1]
    <2>1. /\ pc[c] = "write" /\ pc'[c] = "insert" /\ UNCHANGED <<items, done>>
          /\ \A d \in Calls : d # c => pc'[d] = pc[d]
          /\ file' = Append(file, line)
      BY <1>3 DEF Write, WriteLine, Goto, Typed, Locals
    <2>2. /\ line \in Records /\ line # Torn /\ line.by = c
          /\ done[c] \in Nat /\ done[c] + 1 \in DOMAIN items[c]
      BY <2>1, ItemType, TornAssumption DEF Running, Inside
    <2>3. /\ DOMAIN file = 1 .. Len(file) /\ Len(file) \in Nat
          /\ DOMAIN file' = DOMAIN file \cup {Len(file) + 1}
          /\ file'[Len(file) + 1] = line
          /\ \A q \in DOMAIN file : file'[q] = file[q]
      BY <2>1, <2>2 DEF Typed, Shared
    <2> HIDE DEF line
    <2>4. LinesOf(c)' = LinesOf(c) \cup {Len(file) + 1}
      BY <2>2, <2>3 DEF LinesOf
    <2>5. LinesOf(c) \subseteq DOMAIN file /\ line.item = done[c] + 1
      BY DEF LinesOf, line
    <2>6. ItemsLogged(c) = 1 .. done[c] BY <1>1, <2>1 DEF Prefix
    <2>7. ItemsLogged(c)' = 1 .. done[c] + 1
      <3>1. ItemsLogged(c)' = ItemsLogged(c) \cup {done[c] + 1}
        BY <2>3, <2>4, <2>5 DEF ItemsLogged
      <3> QED BY <2>2, <2>6, <3>1
    <2>8. \A p, q \in LinesOf(c)' : p < q => file'[p].item < file'[q].item
      <3>1. \A p \in LinesOf(c) :
              /\ p \in 1 .. Len(file) /\ file[p].item \in 1 .. done[c]
              /\ file'[p].item = file[p].item
        BY <2>3, <2>5, <2>6 DEF ItemsLogged
      <3>2. file'[Len(file) + 1].item = done[c] + 1 BY <2>3, <2>5
      <3>3. \A p, q \in LinesOf(c) : p < q => file[p].item < file[q].item
        BY <1>1 DEF Prefix
      <3> QED BY <2>2, <2>3, <2>4, <3>1, <3>2, <3>3
    <2>9. /\ Item(c)' = Item(c) /\ Item(c) = items[c][done[c] + 1] /\ Item(c).whole
          /\ \A k \in 1 .. done[c] : k \in DOMAIN items[c] /\ items[c][k].whole
      BY <1>1, <2>1, <2>6 DEF Item, Prefix, Running, Inside
    <2>10. \A k \in 1 .. done[c] + 1 : k \in DOMAIN items[c] /\ items[c][k].whole
      <3>1. 1 .. done[c] + 1 = (1 .. done[c]) \cup {done[c] + 1} BY <2>2
      <3> QED BY <2>2, <2>9, <3>1
    <2>11. Prefix(c)'
      BY <2>1, <2>7, <2>8, <2>9, <2>10 DEF Prefix
    <2> QED BY <1>2, <2>1, <2>2, <2>11
  <1>4. ASSUME NEW c \in Calls, Commit(c) PROVE Prefixes'
    <2>1. /\ pc[c] = "commit" /\ UNCHANGED <<items, file>>
          /\ pc'[c] = IF done[c] + 1 = Len(items[c]) THEN "returned" ELSE "item"
          /\ done[c] \in Nat /\ done'[c] = done[c] + 1
          /\ \A d \in Calls : d # c => pc'[d] = pc[d] /\ done'[d] = done[d]
      BY <1>4, ItemType DEF Commit, Goto, Typed, Locals, Running, Inside
    <2>2. LinesOf(c)' = LinesOf(c) /\ ItemsLogged(c)' = ItemsLogged(c)
          /\ ItemsLogged(c) = 1 .. done'[c]
      BY <1>1, <2>1 DEF LinesOf, ItemsLogged, Prefix
    <2>3. Prefix(c)'
      BY <1>1, <2>1, <2>2 DEF Prefix, Running, Inside
    <2> QED BY <1>2, <1>t, <2>1, <2>3
  <1>5. ASSUME NEW c \in Calls, NEW batch \in Batches, Begin(c, batch)
        PROVE  Prefixes'
    <2>1. /\ pc[c] = "idle" /\ pc'[c] = "item" /\ UNCHANGED <<file, done>>
          /\ done[c] = 0
          /\ \A d \in Calls : d # c => pc'[d] = pc[d] /\ items'[d] = items[d]
      BY <1>5 DEF Begin, Goto, Typed, Locals, CallOK
    <2>2. ItemsLogged(c) = 1 .. 0 /\ LinesOf(c)' = LinesOf(c)
          /\ ItemsLogged(c)' = ItemsLogged(c)
      BY <1>1, <2>1 DEF Prefix, LinesOf, ItemsLogged
    <2>3. \A k \in 1 .. 0 : FALSE OBVIOUS
    <2>4. Prefix(c)'
      BY <1>1, <2>1, <2>2, <2>3 DEF Prefix
    <2> QED BY <1>2, <1>t, <2>1, <2>4
  <1>6. ASSUME NEW c \in Calls,
               Sign(c) \/ Open(c) \/ Probe(c) \/ Scan(c) \/ ScanEnds(c)
                 \/ Tell(c) \/ Insert(c) \/ Locked(c) \/ Dies(c)
        PROVE  Prefixes'
    <2>1. /\ UNCHANGED <<items, done>>
          /\ file' = file \/ file' = Append(file, Torn)
      BY <1>6
      DEF Sign, Open, Probe, Scan, ScanEnds, Tell, Insert, Locked, Dies
    <2>2. \A d \in Calls : d # c => pc'[d] = pc[d]
      BY <1>6
      DEF Sign, Open, Probe, Scan, ScanEnds, Tell, Insert, Locked, Dies,
          Raise, Goto, Typed, Locals
    <2>3. \/ pc'[c] = "raised"
          \/ pc[c] = "insert" /\ pc'[c] = "commit"
          \/ /\ pc[c] \notin {"insert", "commit", "raised"}
             /\ pc'[c] \in Running \ {"item", "insert", "commit"}
             /\ pc[c] \in Running \ {"item"} \/ Item(c).whole
      <3>1. CASE Sign(c) \/ Locked(c) \/ Dies(c)
        BY <3>1
        DEF Sign, Locked, Dies, Raise, Goto, Typed, Locals, Running, Inside
      <3>2. CASE Open(c) \/ Probe(c) \/ Scan(c) \/ ScanEnds(c) \/ Tell(c) \/ Insert(c)
        BY <3>2
        DEF Open, Probe, Scan, ScanEnds, Tell, Insert, Goto, Typed, Locals,
            Running, Inside
      <3> QED BY <1>6, <3>1, <3>2
    <2>4. /\ LinesOf(c)' = LinesOf(c)
          /\ \A q \in LinesOf(c) : file'[q].item = file[q].item
      BY <1>t, <2>1, LinesKept
    <2>5. Prefix(c)' BY <1>1, <2>1, <2>3, <2>4, PrefixKept
    <2> QED BY <1>2, <1>t, <2>1, <2>2, <2>5
  <1>7. ~PowerFails BY DEF PowerFails
  <1> QED BY <1>3, <1>4, <1>5, <1>6, <1>7 DEF Next, Step

\* A batch that fails part of the way, wherever it fails and whoever else logs,
\* has logged the items its caller would have got results for, in their order,
\* and at most one more; one that returns has logged them all.
THEOREM BatchesLogPrefixes == Spec => []BatchLogsAPrefix
  <1>1. ASSUME Init PROVE Prefixes
    <2>1. ASSUME NEW c \in Calls PROVE Prefix(c)
      <3>1. pc[c] = "idle" /\ done[c] = 0 /\ DOMAIN file = {}
        BY <1>1 DEF Init
      <3>2. LinesOf(c) = {} BY <3>1 DEF LinesOf
      <3>3. ItemsLogged(c) = {} BY <3>2 DEF ItemsLogged
      <3>4. 1 .. done[c] = {} BY <3>1
      <3> QED BY <3>1, <3>2, <3>3, <3>4 DEF Prefix, Running, Inside
    <2> QED BY <2>1 DEF Prefixes
  <1>2. Typed /\ Prefixes /\ [Next]_vars => Prefixes'
    <2>1. CASE Typed /\ Prefixes /\ Next /\ ~lost' BY <2>1, PrefixStep
    <2>2. CASE lost' BY <2>2 DEF Prefixes
    <2>3. CASE Prefixes /\ UNCHANGED vars
      BY <2>3
      DEF vars, dbVars, callVars, Prefixes, Prefix, LinesOf, ItemsLogged, Item
    <2> QED BY <2>1, <2>2, <2>3
  <1>3. ASSUME Typed, Prefixes PROVE BatchLogsAPrefix
    <2> SUFFICES ASSUME ~lost, NEW c \in Calls, pc[c] = "returned"
                 PROVE  ItemsLogged(c) = DOMAIN items[c]
      BY <1>3 DEF Prefixes, Prefix, BatchLogsAPrefix
    <2>1. ItemsLogged(c) = 1 .. Len(items[c])
      BY <1>3 DEF Prefixes, Prefix
    <2>2. items[c] \in Seq(Items)
      BY <1>3, BatchesAssumption DEF Typed, CallOK
    <2> QED BY <2>1, <2>2
  <1> QED BY <1>1, <1>2, <1>3, TypedAlways, PTL DEF Spec
=============================================================================
