---------------------------- MODULE PublishTasks ----------------------------
(***************************************************************************)
(* From one action to its dataset: the tasks that the Builder              *)
(* (src/api/commands/build.ts) and the adapters of src/core/adapters make  *)
(* of it, and what the warehouse holds while the executor runs them.       *)
(*                                                                         *)
(* The tasks are chosen once, from the type in the project and the kind of *)
(* dataset found when the run was built.  They are then executed one by    *)
(* one, may fail at any of them, before or after their effect, may be      *)
(* repeated, stopped or resumed, and the next run finds what is left.      *)
(*                                                                         *)
(* A statement is reduced to what it does to the target, to the table      *)
(* "<name>_temp" and to the temporary table of the session.  Rows are      *)
(* pairs of a key and a version; the source has one version of each key it *)
(* still has.                                                              *)
(***************************************************************************)
EXTENDS Integers, Sequences, FiniteSets

CONSTANTS
  Projects,    \* the projects considered
  Keys,
  MaxVersion,  \* bound on the versions of a key
  Bad,         \* versions that an assertion's query returns
  Clients,     \* sessions at the warehouse
  Retries,     \* idempotentActionRetries
  MaxRuns      \* bound on the number of runs

DatasetTypes == {"table", "view", "incremental"}
ActionTypes == DatasetTypes \cup {"assertion", "operation"}

Warehouses == {"bigquery", "snowflake", "redshift", "postgres", "sqldatawarehouse", "presto"}

ASSUME PublishAssumption ==
  /\ Projects \subseteq
       [warehouse : Warehouses,   \* the adapter in use
        types : SUBSET ActionTypes,    \* the types the project gives the action, over time
        uniqueKey : BOOLEAN,      \* the action has a uniqueKey
        protected : BOOLEAN,      \* the action is protected
        mayStop : BOOLEAN]        \* runs are stopped between two tasks, and resumed
  /\ IsFiniteSet(Keys)            \* a query has finitely many rows
  /\ MaxVersion \in Nat \ {0} /\ MaxRuns \in Nat /\ Retries \in Nat
  /\ Bad \subseteq 1..MaxVersion
  /\ {"target", "temp"} \cap Clients = {} /\ Clients # {}

VARIABLES
  project,    \* which of the projects this is, chosen once
  src,        \* version of each key in the source, 0 if it has gone
  type,       \* type of the action in the project
  obj,        \* what the target, the temp table and each session's temporary table are
  undo,       \* undo[c]: the target before c's open transaction, in a sequence
  phase,      \* "idle", "running", "stopped", "done", "failed"
  refresh,    \* the run is a full refresh
  found,      \* kind of the dataset when the run was built
  tasks,      \* the tasks of the action
  at,         \* <<task, statement>> to be executed next
  tries,      \* times the task was repeated
  client,     \* session that executes them
  disturbed,  \* history: the warehouse failed a statement of this run
  runs

Warehouse == project.warehouse
Types == project.types
UniqueKey == project.uniqueKey
Protected == project.protected
MayStop == project.mayStop

vars == <<project, src, type, obj, undo, phase, refresh, found, tasks, at, tries, client,
          disturbed, runs>>
warehouse == <<obj, undo>>
plan == <<refresh, found, tasks>>

Kinds == {"none", "table", "view"}
Rows == Keys \X (1..MaxVersion)
Datasets == [kind : Kinds, rows : SUBSET Rows]
Absent == [kind |-> "none", rows |-> {}]
PgFamily == Warehouse \in {"postgres", "redshift"}
-----------------------------------------------------------------------------
(* Statements: what is done, to which object, as which kind.               *)
Op(do, on, kind) == [do |-> do, on |-> on, kind |-> kind]
User == Op("user", "target", "none")
Drop(on, kind) == Op("drop", on, kind)

Statement(op) == [type |-> "statement", ops |-> <<op>>]
Statements(ops) == [i \in DOMAIN ops |-> Statement(ops[i])]

(* Tasks.concatenate(): one script of all statements.                      *)
Concatenate(ops) == <<[type |-> "statement", ops |-> ops]>>

Check == [type |-> "assertion", ops |-> <<Op("check", "target", "none")>>]

BaseTableType(t) == IF t \in {"view", "assertion"} THEN "view" ELSE "table"
OppositeTableType(kind) == IF kind = "table" THEN "view" ELSE "table"

(* Mutant: a dataset of the other kind is left for the statement to replace. *)
DropOtherNever(t, meta) == <<>>

DropOther(t, meta) ==
  IF meta \notin {"none", BaseTableType(t)}
  THEN <<Drop("target", OppositeTableType(BaseTableType(t)))>> ELSE <<>>

ShouldWriteIncrementally(full, meta) == ~full /\ meta \notin {"none", "view"}

(* publishTasks(): the user's pre-operations, the removal of a dataset of  *)
(* the other kind, the statements that write it, the post-operations.      *)
Around(t, meta, ops) == <<User>> \o DropOther(t, meta) \o ops \o <<User>>

(* Mutant: the unique key is not looked at.                                *)
ReplaceOrInsert(t, full, meta) ==
  Around(t, meta,
    IF t = "incremental" /\ ShouldWriteIncrementally(full, meta)
    THEN <<Op("insert", "target", "table")>>
    ELSE <<Op("replace", "target", BaseTableType(t))>>)

(* BigQuery and Snowflake replace datasets, and merge by unique key.       *)
ReplaceOrWrite(t, full, meta) ==
  Around(t, meta,
    IF t = "incremental" /\ ShouldWriteIncrementally(full, meta)
    THEN <<Op(IF UniqueKey THEN "merge" ELSE "insert", "target", "table")>>
    ELSE <<Op("replace", "target", BaseTableType(t))>>)

BigQueryTasks(t, full, meta) ==
  IF t = "assertion"
  THEN <<Statement(Op("replace", "target", "view")), Check>>
  ELSE Concatenate(ReplaceOrWrite(t, full, meta))

SnowflakeTasks(t, full, meta) ==
  IF t = "assertion"
  THEN <<Statement(Op("replace", "target", "view")), Check>>
  ELSE Statements(ReplaceOrWrite(t, full, meta))

(* A view is dropped and created; a table is built beside the old one,     *)
(* which is then dropped, and renamed.                                     *)
RedshiftCreateOrReplace(t) ==
  IF t = "view"
  THEN <<Drop("target", "view"), Op("replace", "target", "view")>>
  ELSE <<Drop("temp", "table"), Op("create", "temp", "table"),
         Drop("target", "table"), Op("rename", "temp", "table")>>

(* Mutant: the transaction is not ended.                                   *)
RedshiftMergeIntoOpen ==
  <<Drop("session", "table"), Op("create", "session", "table"), Op("begin", "target", "none"),
    Op("delete", "target", "table"), Op("insertSession", "target", "table"),
    Op("dropExisting", "session", "table")>>

(* The new rows go to a table of the session, then replace those with the  *)
(* same key in a transaction.                                              *)
RedshiftMergeInto ==
  <<Drop("session", "table"), Op("create", "session", "table"), Op("begin", "target", "none"),
    Op("delete", "target", "table"), Op("insertSession", "target", "table"),
    Op("end", "target", "none"), Op("dropExisting", "session", "table")>>

RedshiftTasks(t, full, meta) ==
  IF t = "assertion"
  THEN Statements(<<Drop("target", "view"), Op("replace", "target", "view")>>) \o <<Check>>
  ELSE Statements(Around(t, meta,
         IF t # "incremental" \/ ~ShouldWriteIncrementally(full, meta) THEN RedshiftCreateOrReplace(t)
         ELSE IF UniqueKey THEN RedshiftMergeInto ELSE <<Op("insert", "target", "table")>>))

(* An existing view is altered; tables as in Redshift, in one script.      *)
SqlDwCreateOrReplace(t, exists) ==
  IF t = "view"
  THEN <<Op(IF exists THEN "alter" ELSE "create", "target", "view")>>
  ELSE <<Drop("temp", "table"), Op("create", "temp", "table"),
         Drop("target", "table"), Op("rename", "temp", "table")>>

(* Mutant: the view of the last run is not expected.                       *)
SqlDwAssertOver == <<Statement(Op("create", "target", "view")), Check>>

SqlDwAssert == Statements(<<Drop("target", "view"), Op("create", "target", "view")>>) \o <<Check>>

SqlDwTasks(t, full, meta) ==
  IF t = "assertion"
  THEN SqlDwAssert
  ELSE Concatenate(Around(t, meta,
         IF t = "incremental" /\ ShouldWriteIncrementally(full, meta)
         THEN <<Op("insert", "target", "table")>>
         ELSE SqlDwCreateOrReplace(t, meta # "none")))

(* Presto only creates, and only tables; incremental tables are refused.   *)
PrestoTasks(t, full, meta) ==
  IF t = "assertion"
  THEN <<Statement(Op("replace", "target", "view")), Check>>
  ELSE Concatenate(Around(t, meta, <<Op("createIfAbsent", "target", "table")>>))

PublishTasks(t, full, meta) ==
  CASE Warehouse = "bigquery" -> BigQueryTasks(t, full, meta)
    [] Warehouse = "snowflake" -> SnowflakeTasks(t, full, meta)
    [] PgFamily -> RedshiftTasks(t, full, meta)
    [] Warehouse = "sqldatawarehouse" -> SqlDwTasks(t, full, meta)
    [] Warehouse = "presto" -> PrestoTasks(t, full, meta)

(* buildTable(), buildOperation(), buildAssertion(): an operation's        *)
(* queries become tasks of type "statement".                               *)
Tasks(t, full, meta) ==
  IF t = "operation" THEN <<Statement(User)>> ELSE PublishTasks(t, full, meta)

-----------------------------------------------------------------------------
(* The warehouse.                                                          *)
Full == {<<k, src[k]>> : k \in {key \in Keys : src[key] # 0}}
KeysOf(rows) == {r[1] : r \in rows}

(* The target as other sessions see it.                                    *)
Committed ==
  LET open == {c \in Clients : undo[c] # <<>>}
  IN IF open = {} THEN obj["target"] ELSE undo[CHOOSE c \in open : TRUE][1]

(* state(): tables without a type count as missing, as Presto's always do. *)
Metadata == IF Warehouse = "presto" THEN "none" ELSE Committed.kind

(* The user's incremental query: what is not in the table yet.             *)
NewRows == Full \ (IF undo[client] # <<>> THEN obj["target"] ELSE Committed).rows

Name(op) == IF op.on = "session" THEN client ELSE op.on

Runs(op) ==
  LET o == obj[Name(op)]
  IN CASE op.do = "drop" -> \/ o.kind \in {"none", op.kind}
                            \/ Warehouse = "sqldatawarehouse" /\ op.kind = "table"
       [] op.do = "dropExisting" -> o.kind = op.kind
       [] op.do = "create" -> o.kind = "none"
       [] op.do = "replace" -> o.kind \in {"none", op.kind}
       [] op.do = "alter" -> o.kind = "view"
       [] op.do = "rename" -> o.kind = "table" /\ obj["target"].kind = "none"
       [] op.do \in {"insert", "merge"} -> o.kind = "table"
       [] op.do \in {"delete", "insertSession"} -> o.kind = "table" /\ obj[client].kind = "table"
       [] op.do = "check" -> o.kind = "view" /\ \A r \in Full : r[2] \notin Bad
       [] OTHER -> TRUE

Made(op) ==
  [kind |-> op.kind,
   rows |-> IF op.kind = "view" THEN {} ELSE IF op.on = "session" THEN NewRows ELSE Full]

Changed(op, rows) == [obj EXCEPT ![Name(op)].rows = rows]

Effect(op) ==
  LET o == obj[Name(op)]
      updated(new) == {r \in o.rows : r[1] \notin KeysOf(new)}
  IN CASE op.do \in {"drop", "dropExisting"} /\ o.kind = op.kind -> [obj EXCEPT ![Name(op)] = Absent]
       [] op.do \in {"create", "replace", "alter"} -> [obj EXCEPT ![Name(op)] = Made(op)]
       [] op.do = "createIfAbsent" /\ o.kind = "none" -> [obj EXCEPT ![Name(op)] = Made(op)]
       [] op.do = "rename" -> [obj EXCEPT !["target"] = o, !["temp"] = Absent]
       [] op.do = "insert" -> Changed(op, o.rows \cup NewRows)
       [] op.do = "merge" -> Changed(op, updated(NewRows) \cup NewRows)
       [] op.do = "delete" -> Changed(op, updated(obj[client].rows))
       [] op.do = "insertSession" -> Changed(op, o.rows \cup obj[client].rows)
       [] OTHER -> obj

Execute(op) ==
  /\ obj' = Effect(op)
  /\ undo' = CASE op.do = "begin" /\ undo[client] = <<>> -> [undo EXCEPT ![client] = <<obj["target"]>>]
               [] op.do = "end" -> [undo EXCEPT ![client] = <<>>]
               [] OTHER -> undo

(* A session closed by its client: its transaction is rolled back, its     *)
(* temporary table is gone.                                                *)
CloseSession(o, u) ==
  /\ obj' = [(IF u[client] # <<>> THEN [o EXCEPT !["target"] = u[client][1]] ELSE o)
              EXCEPT ![client] = Absent]
  /\ undo' = [u EXCEPT ![client] = <<>>]

(* Another session's open transaction has changed the target.              *)
Locked == \E c \in Clients \ {client} : undo[c] # <<>> /\ undo[c][1] # obj["target"]
-----------------------------------------------------------------------------
Init ==
  /\ project \in Projects
  /\ src = [k \in Keys |-> 1]
  /\ type \in Types
  /\ obj = [n \in {"target", "temp"} \cup Clients |-> Absent]
  /\ undo = [c \in Clients |-> <<>>]
  /\ phase = "idle" /\ refresh = FALSE /\ found = "none"
  /\ tasks = <<>> /\ at = <<1, 1>> /\ tries = 0
  /\ client \in Clients
  /\ disturbed = FALSE /\ runs = 0

(* Between runs: a row of the source gets its next version, and in the end *)
(* is removed; or the author changes the type.                             *)
SourceChanges(k) ==
  /\ phase # "running" /\ src[k] # 0
  /\ src' = [src EXCEPT ![k] = IF @ = MaxVersion THEN 0 ELSE @ + 1]
  /\ UNCHANGED <<project, type, warehouse, phase, plan, at, tries, client, disturbed, runs>>

Retype(t) ==
  /\ phase \notin {"running", "stopped"} /\ t # type
  /\ type' = t
  /\ UNCHANGED <<project, src, warehouse, phase, plan, at, tries, client, disturbed, runs>>

(* Mutant: protection is not looked at.                                    *)
MayBuildAny(full) == TRUE

(* build() throws for a protected dataset to be fully refreshed, and for   *)
(* Presto's incremental tables.                                            *)
MayBuild(full) ==
  /\ ~(Protected /\ full /\ type \in DatasetTypes)
  /\ ~(Warehouse = "presto" /\ type = "incremental")

Build(full) ==
  /\ phase # "running" /\ runs < MaxRuns
  /\ MayBuild(full)
  /\ runs' = runs + 1
  /\ refresh' = full
  /\ found' = Metadata
  /\ tasks' = Tasks(type, full, found')
  /\ at' = <<1, 1>> /\ tries' = 0
  /\ client' \in Clients
  /\ phase' = "running" /\ disturbed' = FALSE
  /\ UNCHANGED <<project, src, type, warehouse>>

Task == tasks[at[1]]
Current == Task.ops[at[2]]

(* The statement succeeds; after the last one the action has succeeded.    *)
StatementDone ==
  /\ phase = "running" /\ Runs(Current) /\ ~Locked
  /\ Execute(Current)
  /\ IF at[2] < Len(Task.ops)
     THEN at' = <<at[1], at[2] + 1>> /\ UNCHANGED <<phase, tries>>
     ELSE /\ at' = <<at[1] + 1, 1>> /\ tries' = 0
          /\ phase' = IF at[1] = Len(tasks) THEN "done" ELSE "running"
  /\ UNCHANGED <<project, src, type, plan, client, disturbed, runs>>

(* The task has failed: retry() executes it again, or the action fails.    *)
(* Postgres and Redshift have closed the session, and an attempt on it     *)
(* fails at once; an assertion that found rows is not repeated.            *)
TaskFails(o, u, again) ==
  IF again /\ ~PgFamily /\ tries < (IF Task.type = "operation" THEN 0 ELSE Retries)
  THEN /\ obj' = o /\ undo' = u
       /\ tries' = tries + 1 /\ at' = <<at[1], 1>> /\ UNCHANGED phase
  ELSE /\ phase' = "failed" /\ UNCHANGED <<tries, at>>
       /\ IF PgFamily THEN CloseSession(o, u) ELSE obj' = o /\ undo' = u

(* The warehouse refuses the statement.                                    *)
StatementRefused ==
  /\ phase = "running" /\ ~Runs(Current) /\ ~Locked
  /\ TaskFails(obj, undo, Current.do # "check")
  /\ UNCHANGED <<project, src, type, plan, client, disturbed, runs>>

(* It is lost, or its answer is.                                           *)
StatementLost ==
  /\ phase = "running" /\ ~disturbed /\ Runs(Current) /\ ~Locked
  /\ disturbed' = TRUE
  /\ \/ TaskFails(obj, undo, TRUE)
     \/ /\ Current.do \notin {"begin", "end"}
        /\ TaskFails(Effect(Current), undo, TRUE)
  /\ UNCHANGED <<project, src, type, plan, client, runs>>

(* stop() between two tasks: the session goes back to the pool as it is.   *)
Stop ==
  /\ MayStop /\ phase = "running" /\ at[1] > 1 /\ at[2] = 1 /\ tries = 0
  /\ phase' = "stopped"
  /\ UNCHANGED <<project, src, type, warehouse, plan, at, tries, client, disturbed, runs>>

(* The remaining tasks are executed in any session of the pool.            *)
Resume ==
  /\ phase = "stopped"
  /\ phase' = "running"
  /\ client' \in Clients
  /\ UNCHANGED <<project, src, type, warehouse, plan, at, tries, disturbed, runs>>

Next ==
  \/ \E k \in Keys : SourceChanges(k)
  \/ \E t \in Types : Retype(t)
  \/ \E full \in BOOLEAN : Build(full)
  \/ StatementDone \/ StatementRefused \/ StatementLost
  \/ Stop \/ Resume

Spec == Init /\ [][Next]_vars
-----------------------------------------------------------------------------
TypeOK ==
  /\ project \in Projects
  /\ src \in [Keys -> 0..MaxVersion]
  /\ type \in Types
  /\ obj \in [{"target", "temp"} \cup Clients -> Datasets]
  /\ undo \in [Clients -> {<<>>} \cup {<<d>> : d \in Datasets}]
  /\ phase \in {"idle", "running", "stopped", "done", "failed"}
  /\ refresh \in BOOLEAN /\ found \in Kinds
  /\ phase = "running" => at[1] \in DOMAIN tasks /\ at[2] \in DOMAIN Task.ops
  /\ tries \in 0..Retries
  /\ client \in Clients
  /\ disturbed \in BOOLEAN /\ runs \in 0..MaxRuns

(* When an action succeeds its dataset is of the type the project says and *)
(* others see in it the query's result, for an incremental table among     *)
(* older rows: publishTasks() of every adapter, from whatever earlier runs *)
(* that failed half-way have left.  (While a run is stopped the source may *)
(* change under the tasks that are left.)                                  *)
SuccessGivesTheQuery ==
  [][phase = "running" /\ phase' = "done" /\ type \in DatasetTypes /\ ~MayStop =>
       /\ Committed'.kind = BaseTableType(type)
       /\ BaseTableType(type) = "table" =>
            IF type = "incremental"
            THEN Full \subseteq Committed'.rows
            ELSE Full = Committed'.rows]_vars

(* No step of an incremental write takes away rows that others see, unless *)
(* rows of the same key take their place; nor does any step from a         *)
(* protected incremental table, rows of the source come and go as they may *)
(* (incremental.md:230 "Dataform will never delete this dataset"):        *)
(* redshift.ts mergeInto(), build.ts:110.                                 *)
KeepsRows ==
  /\ type = "incremental"
  /\ Committed.kind = "table"
  /\ phase = "running" => found = "table" /\ (Protected \/ ~refresh)

RowsSurvive ==
  [][KeepsRows /\ type' = type /\ (phase = "running" \/ Protected)
       => Committed'.kind = "table" /\ KeysOf(Committed.rows) \subseteq KeysOf(Committed'.rows)]_vars

(* With a unique key an incremental table has one row for each key         *)
(* (core/table.ts:283-285): "records with matching unique key(s) will be   *)
(* updated, rather than new rows being inserted".                          *)
OneRowPerKey ==
  UniqueKey => Cardinality(Committed.rows) = Cardinality(KeysOf(Committed.rows))

(* An action whose statements the warehouse does not lose succeeds,        *)
(* whatever failed, stopped or retyped runs have left before it.           *)
UndisturbedRunsSucceed ==
  phase = "failed" /\ ~disturbed => type = "assertion"

(* An assertion succeeds when its query returns no rows, and otherwise     *)
(* fails.                                                                  *)
AssertionsTellTheTruth ==
  [][type = "assertion" /\ phase = "running" /\ ~disturbed' =>
       /\ phase' = "done" => \A r \in Full : r[2] \notin Bad
       /\ phase' = "failed" => \E r \in Full : r[2] \in Bad]_vars
=============================================================================
