----------------------- MODULE ExecutionStore_proofs -----------------------
(***************************************************************************)
(* What ExecutionStore guarantees for any processes, manifests and host    *)
(* policies.                                                               *)
(***************************************************************************)
EXTENDS ExecutionStore, TLAPS

(* What a process holds at each statement, and what a legacy row is. *)
ProcInv ==
  \A p \in Procs :
    /\ pc[p] \in Transaction \cup {"return"} =>
         job[p] \in Manifests /\ job[p].id \in Ids
    /\ pc[p] \in {"insert", "commit", "return"} => result[p] \in Status
    /\ pc[p] = "return" =>
         /\ table[job[p].id] # NoRow
         /\ table[job[p].id].manifest = job[p]
         /\ table[job[p].id].status = result[p]

(* A row that an older version left stays as it was, without a digest; every
   other row has one. *)
RowsInv ==
  \A i \in Ids :
    /\ found[i] # NoRow => table[i] = found[i] /\ ~table[i].sealed
    /\ found[i] = NoRow /\ table[i] # NoRow => table[i].sealed

IndInv == /\ TypeOK
          /\ OneTransaction
          /\ ExecutesOnlyWhenFree
          /\ RowsInv
          /\ ProcInv

----------------------------------------------------------------------------
(* A manifest with an identifier has one of the store's keys. *)
LEMMA IdType ==
  ASSUME NEW m \in Manifests, m.id # NoId
  PROVE  m.id \in Ids
BY ManifestsAssumption DEF ManifestRecord

(* What a process is told is an answer. *)
LEMMA ToldType ==
  ASSUME NEW kind \in {"none", "result", "unstored", "collision", "failed", "verified",
                       "tampered"},
         NEW m \in Manifests \cup {NoManifest},
         NEW s \in Status \cup {"none"}
  PROVE  Told(kind, m, s) \in Answer
BY DEF Told, Answer

LEMMA InitInv == Init => IndInv
<1> SUFFICES ASSUME Init PROVE IndInv
  OBVIOUS
<1>1. table \in [Ids -> Row \cup {NoRow}]
  <2>1. EmptyTable \in [Ids -> Row \cup {NoRow}]
    BY DEF EmptyTable
  <2>2. LegacyTables \subseteq [Ids -> Row \cup {NoRow}]
    BY DEF LegacyTables
  <2> QED
    BY <2>1, <2>2 DEF Init
<1>2. Told("none", NoManifest, "none") \in Answer
  BY DEF Told, Answer
<1>3. TypeOK
  BY <1>1, <1>2 DEF Init, TypeOK, Schema, Pc
<1>4. RowsInv
  BY DEF Init, RowsInv, EmptyTable, LegacyTables
<1>5. OneTransaction /\ ExecutesOnlyWhenFree /\ ProcInv
  BY NullsAssumption
     DEF Init, OneTransaction, ExecutesOnlyWhenFree, ProcInv, Transaction
<1> QED
  BY <1>3, <1>4, <1>5 DEF IndInv

(* A process that leaves its block keeps the invariant, whatever it tells. *)
LEMMA LeaveStep ==
  ASSUME IndInv, NEW p \in Procs, NEW a \in Answer, Leave(p, a),
         table' = table, schema' \in Schema
  PROVE  IndInv'
<1> USE DEF IndInv
<1>1. TypeOK'
  BY DEF Leave, TypeOK, Pc
<1>2. \A q \in Procs : q # p => /\ pc'[q] = pc[q] /\ job'[q] = job[q]
                                /\ result'[q] = result[q]
  BY DEF Leave, TypeOK
<1>3. pc'[p] = "idle"
  BY DEF Leave, TypeOK
<1>4. OneTransaction'
  BY <1>2, <1>3, NullsAssumption DEF Leave, OneTransaction, Transaction
<1>5. ExecutesOnlyWhenFree' /\ RowsInv'
  BY <1>2, <1>3 DEF Leave, ExecutesOnlyWhenFree, RowsInv
<1>6. ProcInv'
  BY <1>2, <1>3 DEF ProcInv, Transaction
<1> QED
  BY <1>1, <1>4, <1>5, <1>6

LEMMA StepInv == IndInv /\ [Next]_vars => IndInv'
<1> SUFFICES ASSUME IndInv, [Next]_vars PROVE IndInv'
  OBVIOUS
<1> USE DEF IndInv
<1>1. ASSUME NEW p \in Procs, NEW m \in Manifests \cup {NoManifest},
             NEW pol \in Policies, Open(p, m, pol)
      PROVE  IndInv'
  <2>1. Told("none", NoManifest, "none") \in Answer
    BY DEF Told, Answer
  <2>2. TypeOK'
    BY <1>1, <2>1 DEF Open, Goto, TypeOK, Pc
  <2>3. OneTransaction' /\ ExecutesOnlyWhenFree' /\ RowsInv' /\ ProcInv'
    BY <1>1 DEF Open, Goto, TypeOK, OneTransaction, ExecutesOnlyWhenFree, RowsInv,
                ProcInv, Transaction
  <2> QED
    BY <2>2, <2>3
<1>2. ASSUME NEW p \in Procs, CreateTable(p) \/ InspectColumns(p)
      PROVE  IndInv'
  <2>1. TypeOK'
    BY <1>2 DEF CreateTable, InspectColumns, Goto, TypeOK, Pc, Schema
  <2>2. OneTransaction' /\ ExecutesOnlyWhenFree' /\ RowsInv' /\ ProcInv'
    BY <1>2 DEF CreateTable, InspectColumns, Goto, TypeOK, OneTransaction,
                ExecutesOnlyWhenFree, RowsInv, ProcInv, Transaction
  <2> QED
    BY <2>1, <2>2
<1>3. ASSUME NEW p \in Procs, AlterTable(p)
      PROVE  IndInv'
  <2>1. CASE schema = "legacy" /\ schema' = "current" /\ Goto(p, "begin")
             /\ UNCHANGED <<table, found, writer, job, policy, result, answer>>
    <3>1. TypeOK'
      BY <2>1 DEF Goto, TypeOK, Pc, Schema
    <3>2. OneTransaction' /\ ExecutesOnlyWhenFree' /\ RowsInv' /\ ProcInv'
      BY <1>3, <2>1 DEF AlterTable, Goto, TypeOK, OneTransaction, ExecutesOnlyWhenFree,
                        RowsInv, ProcInv, Transaction
    <3> QED
      BY <3>1, <3>2
  <2>2. CASE Leave(p, Told("failed", job[p], "none")) /\ UNCHANGED <<schema, table>>
    <3>1. Told("failed", job[p], "none") \in Answer
      BY ToldType DEF TypeOK
    <3> QED
      BY <2>2, <3>1, LeaveStep DEF TypeOK
  <2> QED
    BY <1>3, <2>1, <2>2 DEF AlterTable
<1>4. ASSUME NEW p \in Procs, ExecuteUnstored(p)
      PROVE  IndInv'
  <2>1. PICK s \in Status : Leave(p, Told("unstored", job[p], s))
    BY <1>4 DEF ExecuteUnstored, Outcomes, Status
  <2>2. Told("unstored", job[p], s) \in Answer
    BY ToldType DEF TypeOK
  <2> QED
    BY <1>4, <2>1, <2>2, LeaveStep DEF ExecuteUnstored, TypeOK
<1>5. ASSUME NEW p \in Procs, BeginImmediate(p)
      PROVE  IndInv'
  <2>1. job[p] \in Manifests /\ job[p].id \in Ids
    BY <1>5, IdType DEF BeginImmediate, TypeOK
  <2>2. TypeOK'
    BY <1>5 DEF BeginImmediate, Goto, TypeOK, Pc
  <2>3. OneTransaction'
    BY <1>5, NullsAssumption DEF BeginImmediate, Goto, TypeOK, OneTransaction, Transaction
  <2>4. ExecutesOnlyWhenFree' /\ RowsInv' /\ ProcInv'
    BY <1>5, <2>1 DEF BeginImmediate, Goto, TypeOK, ExecutesOnlyWhenFree, RowsInv,
                      ProcInv, Transaction
  <2> QED
    BY <2>2, <2>3, <2>4
<1>6. ASSUME NEW p \in Procs, BusyTimeout(p) \/ Crash(p)
      PROVE  IndInv'
  <2>1. Told("failed", job[p], "none") \in Answer
    BY ToldType DEF TypeOK
  <2>2. Leave(p, Told("failed", job[p], "none")) /\ table' = table /\ schema' \in Schema
    BY <1>6 DEF BusyTimeout, Crash, TypeOK
  <2> QED
    BY <2>1, <2>2, LeaveStep
<1>7. ASSUME NEW p \in Procs, Lookup(p)
      PROVE  IndInv'
  <2>1. job[p] \in Manifests /\ job[p].id \in Ids
    BY <1>7 DEF Lookup, ProcInv, Transaction
  <2>2. CASE table[job[p].id] = NoRow
    <3>1. Goto(p, "execute")
          /\ UNCHANGED <<schema, table, found, writer, job, policy, result, answer>>
      BY <1>7, <2>2 DEF Lookup
    <3>2. TypeOK'
      BY <3>1 DEF Goto, TypeOK, Pc
    <3>3. OneTransaction' /\ ExecutesOnlyWhenFree' /\ RowsInv' /\ ProcInv'
      BY <1>7, <2>2, <3>1 DEF Lookup, Goto, TypeOK, OneTransaction, ExecutesOnlyWhenFree,
                              RowsInv, ProcInv, Transaction
    <3> QED
      BY <3>2, <3>3
  <2>3. CASE table[job[p].id] # NoRow
    <3> DEFINE a == IF table[job[p].id].manifest = job[p]
                      THEN Told("result", job[p], table[job[p].id].status)
                      ELSE Told("collision", job[p], "none")
    <3>1. table[job[p].id].status \in Status
      BY <2>1, <2>3 DEF TypeOK, Row
    <3>2. Told("result", job[p], table[job[p].id].status) \in Answer
      BY <2>1, <3>1, ToldType
    <3>3. Told("collision", job[p], "none") \in Answer
      BY <2>1, ToldType
    <3>4. a \in Answer
      BY <3>2, <3>3
    <3>5. Leave(p, a) /\ table' = table /\ schema' \in Schema
      BY <1>7, <2>3 DEF Lookup, TypeOK
    <3> QED
      BY <3>4, <3>5, LeaveStep
  <2> QED
    BY <2>2, <2>3
<1>8. ASSUME NEW p \in Procs, Execute(p)
      PROVE  IndInv'
  <2>1. PICK s \in Status : result' = [result EXCEPT ![p] = s]
    BY <1>8 DEF Execute, Outcomes, Status
  <2>2. TypeOK'
    BY <1>8, <2>1 DEF Execute, Goto, TypeOK, Pc
  <2>3. OneTransaction' /\ ExecutesOnlyWhenFree' /\ RowsInv' /\ ProcInv'
    BY <1>8, <2>1 DEF Execute, Goto, TypeOK, OneTransaction, ExecutesOnlyWhenFree,
                      RowsInv, ProcInv, Transaction
  <2> QED
    BY <2>2, <2>3
<1>9. ASSUME NEW p \in Procs, Insert(p)
      PROVE  IndInv'
  <2>1. TypeOK'
    BY <1>9 DEF Insert, Goto, TypeOK, Pc
  <2>2. OneTransaction' /\ ExecutesOnlyWhenFree' /\ RowsInv' /\ ProcInv'
    BY <1>9 DEF Insert, Goto, TypeOK, OneTransaction, ExecutesOnlyWhenFree, RowsInv,
                ProcInv, Transaction
  <2> QED
    BY <2>1, <2>2
<1>10. ASSUME NEW p \in Procs, Commit(p)
       PROVE  IndInv'
  <2>1. /\ job[p] \in Manifests /\ job[p].id \in Ids /\ result[p] \in Status
        /\ table[job[p].id] = NoRow
    BY <1>10 DEF Commit, ProcInv, Transaction, ExecutesOnlyWhenFree
  <2> DEFINE row == InsertedRow(job[p], result[p])
  <2>2. row \in Row /\ row.sealed = TRUE /\ row.manifest = job[p] /\ row.status = result[p]
    BY <2>1 DEF InsertedRow, Row
  <2>3. table' = [table EXCEPT ![job[p].id] = row]
    BY <1>10 DEF Commit
  <2>4. \A q \in Procs : q # p => pc[q] \notin Transaction
    BY <1>10 DEF Commit, OneTransaction, Transaction
  <2>5. row # NoRow
    BY <2>2, NullsAssumption
  <2> HIDE DEF row
  <2>6. TypeOK'
    BY <1>10, <2>2, <2>3 DEF Commit, Goto, TypeOK, Pc
  <2>7. OneTransaction'
    BY <1>10, <2>4, NullsAssumption DEF Commit, Goto, TypeOK, OneTransaction, Transaction
  <2>8. ExecutesOnlyWhenFree'
    BY <1>10, <2>4 DEF Commit, Goto, TypeOK, ExecutesOnlyWhenFree, Transaction
  <2>9. RowsInv'
    BY <1>10, <2>1, <2>2, <2>3 DEF Commit, RowsInv, TypeOK
  <2>10. ProcInv'
    <3>1. SUFFICES ASSUME NEW q \in Procs, pc'[q] \in Transaction \cup {"return"}
                   PROVE  /\ job'[q] \in Manifests /\ job'[q].id \in Ids
                          /\ pc'[q] \in {"insert", "commit", "return"} => result'[q] \in Status
                          /\ pc'[q] = "return" => /\ table'[job'[q].id] # NoRow
                                                  /\ table'[job'[q].id].manifest = job'[q]
                                                  /\ table'[job'[q].id].status = result'[q]
      BY DEF ProcInv, Transaction
    <3>2. CASE q = p
      BY <1>10, <2>1, <2>2, <2>3, <2>5, <3>2 DEF Commit, Goto, TypeOK
    <3>3. CASE q # p
      <4>1. pc[q] = pc'[q] /\ pc[q] = "return"
        BY <1>10, <2>4, <3>1, <3>3 DEF Commit, Goto, TypeOK
      <4>2. table[job[q].id] # NoRow /\ job[q].id # job[p].id
        BY <2>1, <4>1 DEF ProcInv
      <4> QED
        BY <1>10, <2>3, <4>1, <4>2 DEF Commit, ProcInv, TypeOK
    <3> QED
      BY <3>2, <3>3
  <2> QED
    BY <2>6, <2>7, <2>8, <2>9, <2>10
<1>11. ASSUME NEW p \in Procs, Return(p)
       PROVE  IndInv'
  <2>1. Told("result", job[p], result[p]) \in Answer
    BY ToldType DEF TypeOK
  <2> QED
    BY <1>11, <2>1, LeaveStep DEF Return, TypeOK
<1>12. ASSUME NEW p \in Procs, Verify(p)
       PROVE  IndInv'
  <2>1. Told("verified", NoManifest, "none") \in Answer
        /\ Told("tampered", NoManifest, "none") \in Answer
    BY ToldType
  <2> QED
    BY <1>12, <2>1, LeaveStep DEF Verify, TypeOK
<1>13. ASSUME UNCHANGED vars
       PROVE  IndInv'
  <2>1. TypeOK'
    BY <1>13 DEF vars, TypeOK
  <2>2. OneTransaction' /\ ExecutesOnlyWhenFree' /\ RowsInv' /\ ProcInv'
    BY <1>13 DEF vars, OneTransaction, ExecutesOnlyWhenFree, RowsInv, ProcInv
  <2> QED
    BY <2>1, <2>2
<1> QED
  BY <1>1, <1>2, <1>3, <1>4, <1>5, <1>6, <1>7, <1>8, <1>9, <1>10, <1>11, <1>12, <1>13
     DEF Next, Proceed

LEMMA IndInvariant == Spec => []IndInv
BY InitInv, StepInv, PTL DEF Spec

----------------------------------------------------------------------------
(* Every variable of the store and of its processes stays in its range. *)
THEOREM TypeCorrect == Spec => []TypeOK
<1>1. IndInv => TypeOK
  BY DEF IndInv
<1> QED
  BY <1>1, IndInvariant, PTL

(* The write lock is held exactly inside a transaction, for any number of
   processes and whichever of them are killed. *)
THEOREM OneTransactionHolds == Spec => []OneTransaction
<1>1. IndInv => OneTransaction
  BY DEF IndInv
<1> QED
  BY <1>1, IndInvariant, PTL

(* No manifest is executed under an identifier that already has a row. *)
THEOREM ExecutesOnlyWhenFreeHolds == Spec => []ExecutesOnlyWhenFree
<1>1. IndInv => ExecutesOnlyWhenFree
  BY DEF IndInv
<1> QED
  BY <1>1, IndInvariant, PTL

(* What a process is told of other things than of a verification. *)
LEMMA OtherAnswer ==
  ASSUME TypeOK, VerifyTellsOrigin, NEW p \in Procs, NEW a \in Answer,
         a.kind \notin {"verified", "tampered"},
         answer' = [answer EXCEPT ![p] = a], found' = found
  PROVE  VerifyTellsOrigin'
BY DEF TypeOK, VerifyTellsOrigin

LEMMA OriginStep == IndInv /\ VerifyTellsOrigin /\ [Next]_vars => VerifyTellsOrigin'
<1> SUFFICES ASSUME IndInv, VerifyTellsOrigin, [Next]_vars PROVE VerifyTellsOrigin'
  OBVIOUS
<1> USE DEF IndInv
<1>1. ASSUME NEW p \in Procs, NEW kind \in {"none", "result", "unstored", "collision", "failed"},
             NEW m \in Manifests \cup {NoManifest}, NEW s \in Status \cup {"none"},
             answer' = [answer EXCEPT ![p] = Told(kind, m, s)], found' = found
      PROVE  VerifyTellsOrigin'
  <2>1. Told(kind, m, s) \in Answer /\ Told(kind, m, s).kind \notin {"verified", "tampered"}
    BY ToldType DEF Told
  <2> QED
    BY <1>1, <2>1, OtherAnswer
<1>2. ASSUME answer' = answer, found' = found
      PROVE  VerifyTellsOrigin'
  BY <1>2 DEF VerifyTellsOrigin
<1>3. ASSUME NEW p \in Procs, NEW m \in Manifests \cup {NoManifest},
             NEW pol \in Policies, Open(p, m, pol)
      PROVE  VerifyTellsOrigin'
  BY <1>1, <1>3 DEF Open
<1>4. ASSUME NEW p \in Procs, AlterTable(p) \/ BusyTimeout(p) \/ Crash(p)
      PROVE  VerifyTellsOrigin'
  BY <1>1, <1>2, <1>4 DEF AlterTable, BusyTimeout, Crash, Leave, TypeOK
<1>5. ASSUME NEW p \in Procs, ExecuteUnstored(p)
      PROVE  VerifyTellsOrigin'
  <2>1. PICK s \in Status : Leave(p, Told("unstored", job[p], s))
    BY <1>5 DEF ExecuteUnstored, Outcomes, Status
  <2> QED
    BY <1>1, <2>1 DEF Leave, TypeOK
<1>6. ASSUME NEW p \in Procs, Lookup(p)
      PROVE  VerifyTellsOrigin'
  <2>1. job[p] \in Manifests /\ table[job[p].id] \in Row \cup {NoRow}
    BY <1>6 DEF Lookup, ProcInv, Transaction, TypeOK
  <2>2. table[job[p].id] # NoRow => table[job[p].id].status \in Status
    BY <2>1 DEF Row
  <2> QED
    BY <1>1, <1>2, <1>6, <2>1, <2>2 DEF Lookup, Leave
<1>7. ASSUME NEW p \in Procs, Return(p)
      PROVE  VerifyTellsOrigin'
  BY <1>1, <1>7 DEF Return, Leave, TypeOK
<1>8. ASSUME NEW p \in Procs, Verify(p)
      PROVE  VerifyTellsOrigin'
  <2>1. CASE \A i \in Ids : table[i] # NoRow => table[i].sealed
    <3>1. answer' = [answer EXCEPT ![p] = Told("verified", NoManifest, "none")] /\ found' = found
      BY <1>8, <2>1 DEF Verify, Leave
    <3>2. \A i \in Ids : found[i] = NoRow
      BY <2>1 DEF RowsInv
    <3> QED
      BY <3>1, <3>2 DEF VerifyTellsOrigin, TypeOK, Told
  <2>2. CASE \E i \in Ids : table[i] # NoRow /\ ~table[i].sealed
    <3>1. answer' = [answer EXCEPT ![p] = Told("tampered", NoManifest, "none")] /\ found' = found
      BY <1>8, <2>2 DEF Verify, Leave
    <3>2. \E i \in Ids : found[i] # NoRow
      BY <2>2 DEF RowsInv
    <3> QED
      BY <3>1, <3>2 DEF VerifyTellsOrigin, TypeOK, Told
  <2> QED
    BY <2>1, <2>2
<1>9. ASSUME \/ UNCHANGED vars
             \/ \E p \in Procs : \/ CreateTable(p) \/ InspectColumns(p) \/ BeginImmediate(p)
                                 \/ Execute(p) \/ Insert(p) \/ Commit(p)
      PROVE  VerifyTellsOrigin'
  BY <1>2, <1>9 DEF vars, CreateTable, InspectColumns, BeginImmediate, Execute, Insert, Commit
<1> QED
  BY <1>3, <1>4, <1>5, <1>6, <1>7, <1>8, <1>9 DEF Next, Proceed

(* Whatever runs over a file, is raced, killed or migrates it, verify rejects it
   exactly if an older version had left a row in it. *)
THEOREM VerifyTellsOriginHolds == Spec => []VerifyTellsOrigin
<1>1. Init => VerifyTellsOrigin
  <2>1. Told("none", NoManifest, "none").kind = "none"
    BY DEF Told
  <2>2. Init => \A p \in Procs : answer[p] = Told("none", NoManifest, "none")
    BY DEF Init
  <2> QED
    BY <2>1, <2>2 DEF VerifyTellsOrigin
<1> QED
  BY <1>1, OriginStep, IndInvariant, PTL DEF Spec

----------------------------------------------------------------------------
(* The store implements the durable once-only record. *)

LEMMA PromiseInit == Init => Promise!Init
<1> SUFFICES ASSUME Init PROVE Promise!Init
  OBVIOUS
<1>1. EmptyTable \in LegacyTables
  BY DEF EmptyTable, LegacyTables
<1>2. RecordsOf(table) \in FoundRecords
  BY <1>1 DEF Init, FoundRecords
<1>3. [p \in Procs |-> ToldOf(answer[p])] = [p \in Procs |-> Promise!Silence]
  BY DEF Init, ToldOf, Told, Promise!Silence, Promise!Message
<1> QED
  BY <1>2, <1>3 DEF Promise!Init

(* A step that keeps the rows and the answers is a stutter of the promise. *)
LEMMA PromiseStutter ==
  ASSUME table' = table, answer' = answer
  PROVE  UNCHANGED Promise!vars
BY DEF Promise!vars, RecordsOf, RecordOf, ToldOf

(* Telling a process nothing of the record. *)
LEMMA PromiseLose ==
  ASSUME TypeOK, NEW p \in Procs, NEW a \in Answer, a.kind \notin {"result", "collision"},
         table' = table, answer' = [answer EXCEPT ![p] = a]
  PROVE  Promise!Next
<1>1. ToldOf(a) = Promise!Silence
  BY DEF ToldOf, Promise!Silence, Promise!Message
<1>2. [q \in Procs |-> ToldOf(answer[q])]' =
        [[q \in Procs |-> ToldOf(answer[q])] EXCEPT ![p] = Promise!Silence]
  BY <1>1 DEF TypeOK, ToldOf
<1>3. Promise!Lose(p)
  BY <1>2 DEF Promise!Lose, RecordsOf, RecordOf
<1> QED
  BY <1>3 DEF Promise!Next

(* Telling a process the recorded result of its manifest. *)
LEMMA PromiseTell ==
  ASSUME TypeOK, NEW p \in Procs, NEW m \in StoredManifests, m.id \in Ids,
         table[m.id] # NoRow, table[m.id].manifest = m,
         table' = table,
         answer' = [answer EXCEPT ![p] = Told("result", m, table[m.id].status)]
  PROVE  Promise!Next
<1>1. /\ RecordsOf(table)[IdOf(m)] = [request |-> m, value |-> table[m.id].status]
      /\ RecordsOf(table)[IdOf(m)] # NoRow
  <2>1. RecordsOf(table)[IdOf(m)] = [request |-> m, value |-> table[m.id].status]
    BY DEF RecordsOf, RecordOf, IdOf
  <2>2. m \in Manifests /\ table[m.id].status \in Status
    BY DEF StoredManifests, TypeOK, Row
  <2> QED
    BY <2>1, <2>2, NullsAssumption
<1>2. ToldOf(Told("result", m, table[m.id].status)) =
        Promise!Message("value", m, table[m.id].status)
  BY DEF ToldOf, Told, Promise!Message
<1>3. [q \in Procs |-> ToldOf(answer[q])]' =
        [[q \in Procs |-> ToldOf(answer[q])] EXCEPT
           ![p] = Promise!Message("value", m, table[m.id].status)]
  BY <1>2 DEF TypeOK, ToldOf
<1>4. Promise!Tell(p, m)
  BY <1>1, <1>3 DEF Promise!Tell
<1> QED
  BY <1>4 DEF Promise!Next

LEMMA PromiseStep == IndInv /\ [Next]_vars => [Promise!Next]_Promise!vars
<1> SUFFICES ASSUME IndInv, [Next]_vars PROVE [Promise!Next]_Promise!vars
  OBVIOUS
<1> USE DEF IndInv
<1>1. ASSUME NEW p \in Procs, NEW a \in Answer, a.kind \notin {"result", "collision"},
             Leave(p, a), table' = table
      PROVE  Promise!Next
  <2>1. answer' = [answer EXCEPT ![p] = a]
    BY <1>1 DEF Leave
  <2> QED
    BY <1>1, <2>1, PromiseLose
<1>2. ASSUME NEW p \in Procs, NEW m \in Manifests \cup {NoManifest},
             NEW pol \in Policies, Open(p, m, pol)
      PROVE  Promise!Next
  <2>1. Told("none", NoManifest, "none") \in Answer
        /\ Told("none", NoManifest, "none").kind = "none"
    BY DEF Told, Answer
  <2>2. answer' = [answer EXCEPT ![p] = Told("none", NoManifest, "none")] /\ table' = table
    BY <1>2 DEF Open
  <2> QED
    BY <2>1, <2>2, PromiseLose
<1>3. ASSUME NEW p \in Procs, AlterTable(p) \/ BusyTimeout(p) \/ Crash(p)
      PROVE  [Promise!Next]_Promise!vars
  <2>1. Told("failed", job[p], "none") \in Answer
        /\ Told("failed", job[p], "none").kind = "failed"
    BY ToldType DEF TypeOK, Told
  <2>2. table' = table /\ (answer' = answer \/ Leave(p, Told("failed", job[p], "none")))
    BY <1>3 DEF AlterTable, BusyTimeout, Crash
  <2> QED
    BY <1>1, <2>1, <2>2, PromiseStutter
<1>4. ASSUME NEW p \in Procs, ExecuteUnstored(p)
      PROVE  Promise!Next
  <2>1. PICK s \in Status : Leave(p, Told("unstored", job[p], s))
    BY <1>4 DEF ExecuteUnstored, Outcomes, Status
  <2>2. Told("unstored", job[p], s) \in Answer /\ Told("unstored", job[p], s).kind = "unstored"
    BY ToldType DEF TypeOK, Told
  <2> QED
    BY <1>1, <1>4, <2>1, <2>2 DEF ExecuteUnstored
<1>5. ASSUME NEW p \in Procs, Verify(p)
      PROVE  Promise!Next
  <2>1. \A k \in {"verified", "tampered"} :
          Told(k, NoManifest, "none") \in Answer /\ Told(k, NoManifest, "none").kind = k
    BY DEF Told, Answer
  <2>2. \E k \in {"verified", "tampered"} : Leave(p, Told(k, NoManifest, "none"))
    BY <1>5 DEF Verify
  <2> QED
    BY <1>1, <1>5, <2>1, <2>2 DEF Verify
<1>6. ASSUME NEW p \in Procs, Lookup(p)
      PROVE  [Promise!Next]_Promise!vars
  <2>1. /\ job[p] \in Manifests /\ job[p].id \in Ids /\ job[p] \in StoredManifests
    BY <1>6, NullsAssumption DEF Lookup, ProcInv, Transaction, StoredManifests
  <2>2. CASE table[job[p].id] = NoRow
    BY <1>6, <2>2, PromiseStutter DEF Lookup
  <2>3. CASE table[job[p].id] # NoRow /\ table[job[p].id].manifest = job[p]
    <3>1. answer' = [answer EXCEPT ![p] = Told("result", job[p], table[job[p].id].status)]
          /\ table' = table
      BY <1>6, <2>3 DEF Lookup, Leave
    <3> QED
      BY <2>1, <2>3, <3>1, PromiseTell
  <2>4. CASE table[job[p].id] # NoRow /\ table[job[p].id].manifest # job[p]
    <3>1. answer' = [answer EXCEPT ![p] = Told("collision", job[p], "none")]
          /\ table' = table
      BY <1>6, <2>4 DEF Lookup, Leave
    <3>2. ToldOf(Told("collision", job[p], "none")) =
            Promise!Message("collision", job[p], NoRow)
      BY DEF ToldOf, Told, Promise!Message
    <3>3. [q \in Procs |-> ToldOf(answer[q])]' =
            [[q \in Procs |-> ToldOf(answer[q])] EXCEPT
               ![p] = Promise!Message("collision", job[p], NoRow)]
      BY <3>1, <3>2 DEF TypeOK, ToldOf
    <3>4. RecordsOf(table)[IdOf(job[p])] =
            [request |-> table[job[p].id].manifest, value |-> table[job[p].id].status]
      BY <2>1, <2>4 DEF RecordsOf, RecordOf, IdOf
    <3>5. table[job[p].id] \in Row
      BY <2>1, <2>4 DEF TypeOK
    <3>6. RecordsOf(table)[IdOf(job[p])] # NoRow
      BY <3>4, <3>5, NullsAssumption DEF Row
    <3>7. Promise!Refuse(p, job[p])
      BY <2>4, <3>1, <3>3, <3>4, <3>6 DEF Promise!Refuse
    <3> QED
      BY <2>1, <3>7 DEF Promise!Next
  <2> QED
    BY <2>2, <2>3, <2>4
<1>7. ASSUME NEW p \in Procs, Commit(p)
      PROVE  Promise!Next
  <2>1. /\ job[p] \in Manifests /\ job[p].id \in Ids /\ job[p] \in StoredManifests
        /\ result[p] \in Status /\ table[job[p].id] = NoRow
    BY <1>7, NullsAssumption
       DEF Commit, ProcInv, Transaction, StoredManifests, ExecutesOnlyWhenFree
  <2> DEFINE row == InsertedRow(job[p], result[p])
  <2>2. row \in Row /\ row.manifest = job[p] /\ row.status = result[p]
    BY <2>1 DEF InsertedRow, Row
  <2>3. row # NoRow
    BY <2>2, NullsAssumption
  <2>4. table' = [table EXCEPT ![job[p].id] = row] /\ answer' = answer
    BY <1>7 DEF Commit
  <2> HIDE DEF row
  <2>5. RecordsOf(table') = [RecordsOf(table) EXCEPT ![IdOf(job[p])] =
                               [request |-> job[p], value |-> result[p]]]
    BY <2>1, <2>2, <2>3, <2>4 DEF RecordsOf, RecordOf, IdOf, TypeOK
  <2>6. RecordsOf(table)[IdOf(job[p])] = NoRow
    BY <2>1 DEF RecordsOf, RecordOf, IdOf
  <2>7. Promise!Record(job[p], result[p])
    BY <2>4, <2>5, <2>6 DEF Promise!Record, ToldOf
  <2> QED
    BY <2>1, <2>7 DEF Promise!Next
<1>8. ASSUME NEW p \in Procs, Return(p)
      PROVE  Promise!Next
  <2>1. /\ job[p] \in StoredManifests /\ job[p].id \in Ids
        /\ table[job[p].id] # NoRow
        /\ table[job[p].id].manifest = job[p]
        /\ table[job[p].id].status = result[p]
    BY <1>8, NullsAssumption DEF Return, ProcInv, StoredManifests
  <2>2. answer' = [answer EXCEPT ![p] = Told("result", job[p], result[p])] /\ table' = table
    BY <1>8 DEF Return, Leave
  <2> QED
    BY <2>1, <2>2, PromiseTell
<1>9. ASSUME \/ UNCHANGED vars
             \/ \E p \in Procs : \/ CreateTable(p) \/ InspectColumns(p)
                                 \/ BeginImmediate(p) \/ Execute(p) \/ Insert(p)
      PROVE  UNCHANGED Promise!vars
  BY <1>9, PromiseStutter
     DEF vars, CreateTable, InspectColumns, BeginImmediate, Execute, Insert
<1> QED
  BY <1>2, <1>3, <1>4, <1>5, <1>6, <1>7, <1>8, <1>9 DEF Next, Proceed

(* The store keeps the durable promise for any processes, crashes and retries:
   a row once committed never changes, and a result is told only when it is the
   committed result of the caller's own manifest. *)
THEOREM StoreIsDurableOnce == Spec => ImplementsDurableOnce
BY PromiseInit, PromiseStep, IndInvariant, PTL DEF Spec, ImplementsDurableOnce, Promise!Spec
=============================================================================
