--------------------------- MODULE ExecutionStore ---------------------------
(***************************************************************************)
(* The durable execution store (store.py): processes that share one SQLite *)
(* file, each opening it, running at most one manifest under a write       *)
(* transaction, and free to be killed between any two statements.          *)
(*                                                                         *)
(* SQLite itself is external and taken at its word: one writer at a time,  *)
(* atomic durable commits, and the rollback of a transaction whose         *)
(* connection is closed.                                                   *)
(***************************************************************************)
CONSTANTS Procs,       \* operating-system processes
          Ids,         \* manifest identifiers
          Manifests,   \* manifests, each with an identifier or none
          Policies,    \* host policies that the processes are started with
          Fitting,     \* the pairs <<manifest, policy>> that validate
          NoId, NoRow, NoProc, NoManifest, NoPolicy

ManifestRecord == [id : Ids \cup {NoId}, content : STRING]

Status == {"succeeded", "rejected"}

(* A row binds an identifier to a manifest (by digest, taken as injective) and
   to the result of executing it; a row is sealed by the result's digest. *)
Row == [manifest : Manifests, status : Status, sealed : BOOLEAN]

Schema == {"absent", "legacy", "current"}

ASSUME ManifestsAssumption == Manifests \subseteq ManifestRecord
ASSUME FittingAssumption == Fitting \subseteq Manifests \X Policies
ASSUME NullsAssumption ==
  /\ NoId \notin Ids /\ NoProc \notin Procs
  /\ NoRow \notin Row /\ NoRow \notin [request : Manifests, value : Status]
  /\ NoManifest \notin Manifests /\ NoPolicy \notin Policies

VARIABLES schema,   \* the columns of the table executions
          table,    \* its committed rows
          found,    \* the rows that an older version of the store had left
          writer,   \* the process that holds the write lock
          pc,       \* the next statement of each process
          job,      \* the manifest a process runs; none when it verifies
          policy,   \* the host policy a process was started with
          result,   \* the status a process has computed or read
          answer    \* what each process last told its caller

vars == <<schema, table, found, writer, pc, job, policy, result, answer>>

Pc == {"idle", "create", "inspect", "alter", "begin", "lookup", "execute",
       "insert", "commit", "return"}

(* The statements between BEGIN IMMEDIATE and COMMIT or ROLLBACK. *)
Transaction == {"lookup", "execute", "insert", "commit"}

Answer == [kind : {"none", "result", "unstored", "collision", "failed", "verified",
                   "tampered"},
           manifest : Manifests \cup {NoManifest},
           status : Status \cup {"none"}]

Told(kind, m, status) == [kind |-> kind, manifest |-> m, status |-> status]

(* What an older version may have left: rows without a result digest. *)
LegacyTables == {t \in [Ids -> Row \cup {NoRow}] :
                   \A i \in Ids : t[i] # NoRow => t[i].manifest.id = i /\ ~t[i].sealed}

EmptyTable == [i \in Ids |-> NoRow]

Init ==
  /\ \/ schema = "absent" /\ table = EmptyTable
     \/ schema = "legacy" /\ table \in LegacyTables
  /\ found = table
  /\ writer = NoProc
  /\ pc = [p \in Procs |-> "idle"]
  /\ job = [p \in Procs |-> NoManifest]
  /\ policy = [p \in Procs |-> NoPolicy]
  /\ result = [p \in Procs |-> "none"]
  /\ answer = [p \in Procs |-> Told("none", NoManifest, "none")]

-----------------------------------------------------------------------------
(* The process leaves the block: its connection is closed, which ends its
   transaction, and its caller is told. *)
Leave(p, told) ==
  /\ pc' = [pc EXCEPT ![p] = "idle"]
  /\ job' = [job EXCEPT ![p] = NoManifest]
  /\ policy' = [policy EXCEPT ![p] = NoPolicy]
  /\ result' = [result EXCEPT ![p] = "none"]
  /\ writer' = IF writer = p THEN NoProc ELSE writer
  /\ answer' = [answer EXCEPT ![p] = told]
  /\ UNCHANGED found

Goto(p, place) == pc' = [pc EXCEPT ![p] = place]

-----------------------------------------------------------------------------
(* Opening the store: __init__. *)

Open(p, m, pol) ==
  /\ pc[p] = "idle"
  /\ Goto(p, "create")
  /\ job' = [job EXCEPT ![p] = m]
  /\ policy' = [policy EXCEPT ![p] = pol]
  /\ answer' = [answer EXCEPT ![p] = Told("none", NoManifest, "none")]
  /\ UNCHANGED <<schema, table, found, writer, result>>

CreateTable(p) ==
  /\ pc[p] = "create"
  /\ \/ schema = "absent" /\ writer = NoProc /\ schema' = "current"
     \/ schema # "absent" /\ UNCHANGED schema
  /\ Goto(p, "inspect")
  /\ UNCHANGED <<table, found, writer, job, policy, result, answer>>

InspectColumns(p) ==
  /\ pc[p] = "inspect"
  /\ Goto(p, IF schema = "legacy" THEN "alter" ELSE "begin")
  /\ UNCHANGED <<schema, table, found, writer, job, policy, result, answer>>

(* The column was missing when it was looked for; another process may have
   added it since, and then the statement fails with a duplicate column. *)
AlterTable(p) ==
  /\ pc[p] = "alter"
  /\ writer = NoProc
  /\ \/ /\ schema = "legacy"
        /\ schema' = "current"
        /\ Goto(p, "begin")
        /\ UNCHANGED <<found, writer, job, policy, result, answer>>
     \/ /\ schema # "legacy"
        /\ Leave(p, Told("failed", job[p], "none"))
        /\ UNCHANGED schema
  /\ UNCHANGED table

-----------------------------------------------------------------------------
(* execute_once. *)

(* Executing is deterministic but for the wall-clock budget, which can reject
   a manifest that would have succeeded. *)
Outcomes(m, pol) == IF <<m, pol>> \in Fitting THEN Status ELSE {"rejected"}

ExecuteUnstored(p) ==
  /\ pc[p] = "begin"
  /\ job[p] # NoManifest
  /\ job[p].id = NoId
  /\ \E s \in Outcomes(job[p], policy[p]) : Leave(p, Told("unstored", job[p], s))
  /\ UNCHANGED <<schema, table>>

BeginImmediate(p) ==
  /\ pc[p] = "begin"
  /\ job[p] # NoManifest
  /\ job[p].id # NoId
  /\ writer = NoProc
  /\ writer' = p
  /\ Goto(p, "lookup")
  /\ UNCHANGED <<schema, table, found, job, policy, result, answer>>

(* Mutant: the wait for the write lock has no bound. *)
NoBusyTimeout(p) == FALSE

(* The busy handler gives up after 30 seconds of other processes' writing. *)
BusyTimeout(p) ==
  /\ \/ pc[p] = "create" /\ schema = "absent"
     \/ pc[p] = "alter"
     \/ pc[p] = "begin" /\ job[p] # NoManifest /\ job[p].id # NoId
  /\ \E q \in Procs \ {p} : pc[q] # "idle"
  /\ Leave(p, Told("failed", job[p], "none"))
  /\ UNCHANGED <<schema, table>>

(* Mutant: a row of another manifest is overlooked and replaced. *)
LookupByDigest(p) ==
  /\ pc[p] = "lookup"
  /\ LET row == table[job[p].id]
     IN  \/ /\ ~(row # NoRow /\ row.manifest = job[p])
            /\ Goto(p, "execute")
            /\ UNCHANGED <<found, writer, job, policy, result, answer>>
         \/ /\ row # NoRow
            /\ row.manifest = job[p]
            /\ Leave(p, Told("result", job[p], row.status))
  /\ UNCHANGED <<schema, table>>

Lookup(p) ==
  /\ pc[p] = "lookup"
  /\ LET row == table[job[p].id]
     IN  \/ /\ row = NoRow
            /\ Goto(p, "execute")
            /\ UNCHANGED <<found, writer, job, policy, result, answer>>
         \/ /\ row # NoRow
            /\ Leave(p, IF row.manifest = job[p]
                          THEN Told("result", job[p], row.status)
                          ELSE Told("collision", job[p], "none"))
  /\ UNCHANGED <<schema, table>>

Execute(p) ==
  /\ pc[p] = "execute"
  /\ \E s \in Outcomes(job[p], policy[p]) : result' = [result EXCEPT ![p] = s]
  /\ Goto(p, "insert")
  /\ UNCHANGED <<schema, table, found, writer, job, policy, answer>>

(* Mutant: the transaction is never committed. *)
InsertAndReturn(p) ==
  /\ pc[p] = "insert"
  /\ Goto(p, "return")
  /\ UNCHANGED <<schema, table, found, writer, job, policy, result, answer>>

(* The row is written inside the transaction: nobody else sees it yet. *)
Insert(p) ==
  /\ pc[p] = "insert"
  /\ Goto(p, "commit")
  /\ UNCHANGED <<schema, table, found, writer, job, policy, result, answer>>

(* Mutant: a status of no result. *)
PendingRow(m, s) == [manifest |-> m, status |-> "pending", sealed |-> TRUE]

InsertedRow(m, s) == [manifest |-> m, status |-> s, sealed |-> TRUE]

Commit(p) ==
  /\ pc[p] = "commit"
  /\ table' = [table EXCEPT ![job[p].id] = InsertedRow(job[p], result[p])]
  /\ writer' = NoProc
  /\ Goto(p, "return")
  /\ UNCHANGED <<schema, found, job, policy, result, answer>>

Return(p) ==
  /\ pc[p] = "return"
  /\ Leave(p, Told("result", job[p], result[p]))
  /\ UNCHANGED <<schema, table>>

(* The process is killed, or a statement raises: the caller learns nothing. *)
Crash(p) ==
  /\ pc[p] # "idle"
  /\ Leave(p, Told("failed", job[p], "none"))
  /\ UNCHANGED <<schema, table>>

-----------------------------------------------------------------------------
(* verify: every row must carry the digest of its result. *)
Verify(p) ==
  /\ pc[p] = "begin"
  /\ job[p] = NoManifest
  /\ Leave(p, IF \A i \in Ids : table[i] # NoRow => table[i].sealed
                THEN Told("verified", NoManifest, "none")
                ELSE Told("tampered", NoManifest, "none"))
  /\ UNCHANGED <<schema, table>>

-----------------------------------------------------------------------------
Proceed(p) == \/ CreateTable(p)
              \/ InspectColumns(p)
              \/ AlterTable(p)
              \/ ExecuteUnstored(p)
              \/ BeginImmediate(p)
              \/ Lookup(p)
              \/ Execute(p)
              \/ Insert(p)
              \/ Commit(p)
              \/ Return(p)
              \/ Verify(p)

Next == \E p \in Procs :
          \/ \E m \in Manifests \cup {NoManifest}, pol \in Policies : Open(p, m, pol)
          \/ Proceed(p)
          \/ BusyTimeout(p)
          \/ Crash(p)

Spec == Init /\ [][Next]_vars

(* A process that is not killed runs on, and one that waits for the lock either
   gets it or gives up after the busy timeout. *)
FairSpec == Spec /\ \A p \in Procs : WF_vars(Proceed(p) \/ BusyTimeout(p))

-----------------------------------------------------------------------------
(* Every variable stays in its range. *)
TypeOK ==
  /\ schema \in Schema
  /\ table \in [Ids -> Row \cup {NoRow}]
  /\ found \in [Ids -> Row \cup {NoRow}]
  /\ writer \in Procs \cup {NoProc}
  /\ pc \in [Procs -> Pc]
  /\ job \in [Procs -> Manifests \cup {NoManifest}]
  /\ policy \in [Procs -> Policies \cup {NoPolicy}]
  /\ result \in [Procs -> Status \cup {"none"}]
  /\ answer \in [Procs -> Answer]

(* The write lock is held exactly by the process between BEGIN IMMEDIATE and
   its end, so at most one manifest of the store is being executed, and a
   killed process leaves no lock behind. *)
OneTransaction ==
  /\ \A p \in Procs : pc[p] \in Transaction <=> writer = p
  /\ \A p \in Procs : pc[p] \in Transaction =>
       job[p] # NoManifest /\ job[p].id # NoId

(* A manifest is executed only while its identifier is free, so the INSERT can
   never meet the primary key of another row. *)
ExecutesOnlyWhenFree ==
  \A p \in Procs : pc[p] \in {"execute", "insert", "commit"} => table[job[p].id] = NoRow

(* What verify tells is where the file comes from and nothing else: it rejects a
   file that an older version had left a row in, whatever has migrated, executed
   or replayed since, and never one that it had left none in, whatever ran over
   it, raced or was killed. *)
VerifyTellsOrigin ==
  \A p \in Procs :
    /\ answer[p].kind = "verified" => \A i \in Ids : found[i] = NoRow
    /\ answer[p].kind = "tampered" => \E i \in Ids : found[i] # NoRow

(* The durable promise: one manifest and one result per identifier for ever,
   told only after it was committed, whatever is killed, raced or retried. *)
StoredManifests == {m \in Manifests : m.id # NoId}
IdOf(m) == m.id
RecordOf(row) == IF row = NoRow THEN NoRow
                 ELSE [request |-> row.manifest, value |-> row.status]
RecordsOf(t) == [i \in Ids |-> RecordOf(t[i])]
ToldOf(a) ==
  [kind    |-> CASE a.kind = "result" -> "value"
                 [] a.kind = "collision" -> "collision"
                 [] OTHER -> "none",
   request |-> IF a.kind \in {"result", "collision"} THEN a.manifest ELSE NoRow,
   value   |-> IF a.kind = "result" THEN a.status ELSE NoRow]

FoundRecords == {RecordsOf(t) : t \in LegacyTables}

Promise == INSTANCE DurableOnce WITH
  Clients  <- Procs,
  Keys     <- Ids,
  Requests <- StoredManifests,
  KeyOf    <- IdOf,
  Values   <- Status,
  Nothing  <- NoRow,
  Found    <- FoundRecords,
  recorded <- RecordsOf(table),
  told     <- [p \in Procs |-> ToldOf(answer[p])]

(* The store implements the durable once-only record, from an empty file or
   from the rows of an older version. *)
ImplementsDurableOnce == Promise!Spec

(* Every process that is started ends: no lock and no migration leaves one
   waiting for ever. *)
EveryProcessEnds == \A p \in Procs : pc[p] # "idle" ~> pc[p] = "idle"
=============================================================================
