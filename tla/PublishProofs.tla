---------------------------- MODULE PublishProofs ----------------------------
(***************************************************************************)
(* Proofs about PublishTasks: what the statements that the adapters write  *)
(* leave of a dataset, for every set of keys, any number of sessions,      *)
(* versions, retries and runs.                                             *)
(*                                                                         *)
(* The inductive invariant follows the run through its statements.  Plan   *)
(* says that what is left to execute is what publishTasks() makes of the   *)
(* type, the refresh and the dataset found; Written counts the statements  *)
(* that write, so that the other parts can say what holds before each.     *)
(***************************************************************************)
EXTENDS PublishTasks, FiniteSetTheorems, SequenceTheorems, TLAPS

Ongoing == phase \in {"running", "stopped"}
Dataset == type \in DatasetTypes
More == type = "incremental" /\ ShouldWriteIncrementally(refresh, found)

(* The statements that write, between pre- and post-operations.            *)
Writes ==
  CASE Warehouse \in {"bigquery", "snowflake"} ->
         IF More THEN <<Op(IF UniqueKey THEN "merge" ELSE "insert", "target", "table")>>
         ELSE <<Op("replace", "target", BaseTableType(type))>>
    [] PgFamily ->
         IF ~More THEN RedshiftCreateOrReplace(type)
         ELSE IF UniqueKey THEN RedshiftMergeInto ELSE <<Op("insert", "target", "table")>>
    [] Warehouse = "sqldatawarehouse" ->
         IF More THEN <<Op("insert", "target", "table")>>
         ELSE SqlDwCreateOrReplace(type, found # "none")
    [] Warehouse = "presto" -> <<Op("createIfAbsent", "target", "table")>>

Script == Warehouse \in {"bigquery", "sqldatawarehouse", "presto"}
Position == IF Script THEN at[2] ELSE at[1]
Dropping == found \notin {"none", BaseTableType(type)}

(* Number, among the statements that write, of the one to be executed      *)
(* next; zero and less before the first.                                   *)
Written == Position - (IF Dropping THEN 2 ELSE 1)

Merging == Dataset /\ PgFamily /\ More /\ UniqueKey
Rebuilding == Dataset /\ type # "view" /\ ~More /\ Warehouse \in {"postgres", "redshift", "sqldatawarehouse"}
PgView == type = "view" /\ PgFamily

Plan ==
  /\ Ongoing =>
       /\ tasks = Tasks(type, refresh, found)
       /\ Warehouse = "presto" => type # "incremental" /\ found = "none"
       /\ ~(Protected /\ refresh /\ Dataset)
       /\ at \in Nat \X Nat
       /\ at[1] \in DOMAIN tasks /\ at[2] \in DOMAIN tasks[at[1]].ops
  /\ phase = "stopped" => MayStop

(* Only the session of a merge has a transaction open.                     *)
Transactions ==
  \A c \in Clients :
    undo[c] # <<>> <=> c = client /\ phase = "running" /\ Merging /\ Written \in 4..6

Apart ==
  /\ obj["temp"].kind \in {"none", "table"}
  /\ \A c \in Clients : obj[c].kind \in {"none", "table"}

(* Before each statement of a run that was not disturbed.                  *)
Prepared ==
  Ongoing /\ ~disturbed /\ Dataset /\ Warehouse # "presto" =>
    /\ Written <= 0 => obj["target"].kind = found
    /\ Written = 1 => obj["target"].kind \in (IF More THEN {"table"} ELSE {"none", BaseTableType(type)})
    /\ PgView /\ Written = 2 => obj["target"].kind = "none"
    /\ Rebuilding => /\ Written = 2 => obj["temp"].kind = "none"
                     /\ Written \in {2, 3} => obj["target"].kind \in {"none", "table"}
                     /\ Written \in {3, 4} => obj["temp"].kind = "table"
                     /\ Written = 4 => obj["target"].kind = "none"
    /\ Merging => /\ Written \in 2..7 => obj["target"].kind = "table"
                  /\ Written = 2 => obj[client].kind = "none"
                  /\ Written \in 3..7 => obj[client].kind = "table"

Result ==
  /\ obj["target"].kind = BaseTableType(type)
  /\ BaseTableType(type) = "table" =>
       IF type = "incremental" THEN Full \subseteq obj["target"].rows ELSE Full = obj["target"].rows

(* What a run that is not stopped has written.                             *)
Contents ==
  phase = "running" /\ Dataset /\ ~MayStop /\ Warehouse # "presto" =>
    /\ Written > Len(Writes) => Result
    /\ Rebuilding /\ Written \in {3, 4} => obj["temp"] = [kind |-> "table", rows |-> Full]
    /\ Merging =>
         /\ Written \in 3..5 =>
              obj[client].rows \subseteq Full /\ Full \subseteq obj["target"].rows \cup obj[client].rows
         /\ Written \in {6, 7} => Result

One(rows) == \A r, s \in rows : r[1] = s[1] => r = s
Unique ==
  UniqueKey =>
    /\ \A n \in DOMAIN obj : One(obj[n].rows)
    /\ \A c \in Clients : undo[c] # <<>> => One(undo[c][1].rows)
    /\ phase = "running" /\ Merging /\ Written = 5 =>
         KeysOf(obj["target"].rows) \cap KeysOf(obj[client].rows) = {}

Kept ==
  phase = "running" /\ Merging /\ Written \in 4..6 =>
    LET old == KeysOf(undo[client][1].rows)
    IN /\ Written \in {4, 5} => old \subseteq KeysOf(obj["target"].rows) \cup KeysOf(obj[client].rows)
       /\ Written = 6 => old \subseteq KeysOf(obj["target"].rows)
       /\ Written \in {5, 6} => obj["target"].kind = "table"

(* An assertion's view is dropped, created and checked, or replaced and    *)
(* checked.                                                                *)
DropsFirst == Warehouse \in {"postgres", "redshift", "sqldatawarehouse"}

AssertionPrepared ==
  type = "assertion" =>
    /\ obj["target"].kind \in {"none", "view"}
    /\ \A c \in Clients : undo[c] = <<>>
    /\ Ongoing /\ ~disturbed =>
         IF DropsFirst
         THEN /\ at[1] = 2 => obj["target"].kind = "none"
              /\ at[1] = 3 => obj["target"].kind = "view"
         ELSE at[1] = 2 => obj["target"].kind = "view"
-----------------------------------------------------------------------------
(* The statements of a run.                                                *)
Deeds == {"user", "drop", "dropExisting", "create", "createIfAbsent", "replace", "alter", "rename",
          "insert", "merge", "begin", "delete", "insertSession", "end", "check"}
OpSet == [do : Deeds, on : {"target", "temp", "session"}, kind : Kinds]

LEMMA AroundIs ==
  ASSUME NEW t \in DatasetTypes, NEW m \in Kinds, NEW w \in Seq(OpSet)
  PROVE  LET d == IF m \notin {"none", BaseTableType(t)} THEN 1 ELSE 0
         IN /\ Around(t, m, w) \in Seq(OpSet)
            /\ Len(Around(t, m, w)) = 2 + d + Len(w)
            /\ Around(t, m, w)[1] = User
            /\ d = 1 => Around(t, m, w)[2] = Drop("target", OppositeTableType(BaseTableType(t)))
            /\ \A j \in 1..Len(w) : Around(t, m, w)[1 + d + j] = w[j]
            /\ Around(t, m, w)[2 + d + Len(w)] = User
<1> DEFINE d == IF m \notin {"none", BaseTableType(t)} THEN 1 ELSE 0
           drop == DropOther(t, m)
<1>1. User \in OpSet /\ Drop("target", OppositeTableType(BaseTableType(t))) \in OpSet
  <2>1. User \in OpSet
    BY DEF User, Op, OpSet, Kinds, Deeds
  <2>2. OppositeTableType(BaseTableType(t)) \in Kinds
    BY DEF Kinds, OppositeTableType, BaseTableType
  <2> QED BY <2>1, <2>2 DEF Drop, Op, OpSet, Deeds
<1>2. /\ drop \in Seq(OpSet) /\ Len(drop) = d
      /\ d = 1 => drop[1] = Drop("target", OppositeTableType(BaseTableType(t)))
  BY <1>1 DEF DropOther
<1>3. <<User>> \in Seq(OpSet) /\ Len(<<User>>) = 1 /\ <<User>>[1] = User
  BY <1>1
<1> HIDE DEF drop
<1>4. /\ <<User>> \o drop \in Seq(OpSet) /\ Len(<<User>> \o drop) = 1 + d
      /\ (<<User>> \o drop)[1] = User
      /\ d = 1 => (<<User>> \o drop)[2] = drop[1]
  <2>1. d \in 0..1
    OBVIOUS
  <2> HIDE DEF d
  <2>2. PICK u : u = <<User>>
    OBVIOUS
  <2>3. /\ u \o drop \in Seq(OpSet) /\ Len(u \o drop) = 1 + d
        /\ \A i \in 1..Len(u) : (u \o drop)[i] = u[i]
        /\ \A i \in 1..Len(drop) : (u \o drop)[Len(u) + i] = drop[i]
    BY <1>2, <1>3, <2>1, <2>2, ConcatProperties
  <2> QED BY <1>2, <1>3, <2>1, <2>2, <2>3
<1>5. PICK a : a = <<User>> \o drop
  OBVIOUS
<1>6. /\ a \o w \in Seq(OpSet) /\ Len(a \o w) = 1 + d + Len(w)
      /\ \A i \in 1..(1 + d) : (a \o w)[i] = a[i]
      /\ \A j \in 1..Len(w) : (a \o w)[1 + d + j] = w[j]
  <2>1. a \in Seq(OpSet) /\ Len(a) = 1 + d
    BY <1>4, <1>5
  <2>2. d \in 0..1 /\ Len(w) \in Nat
    BY LenProperties
  <2> HIDE DEF d
  <2> QED BY <2>1, <2>2, ConcatProperties
<1>7. PICK b : b = a \o w
  OBVIOUS
<1>8. /\ b \o <<User>> \in Seq(OpSet) /\ Len(b \o <<User>>) = 2 + d + Len(w)
      /\ \A i \in 1..(1 + d + Len(w)) : (b \o <<User>>)[i] = b[i]
      /\ (b \o <<User>>)[2 + d + Len(w)] = User
  <2>1. b \in Seq(OpSet) /\ Len(b) = 1 + d + Len(w)
    BY <1>6, <1>7
  <2>2. d \in 0..1 /\ Len(w) \in Nat
    BY LenProperties
  <2> HIDE DEF d
  <2> QED BY <1>3, <2>1, <2>2, ConcatProperties
<1>9. Around(t, m, w) = b \o <<User>>
  BY <1>5, <1>7 DEF Around, drop
<1>10. d \in 0..1 /\ Len(w) \in Nat
  BY LenProperties
<1>11. d = 1 => b[2] = Drop("target", OppositeTableType(BaseTableType(t)))
  BY <1>2, <1>4, <1>5, <1>6, <1>7
<1>12. b[1] = User /\ \A j \in 1..Len(w) : b[1 + d + j] = w[j]
  BY <1>4, <1>5, <1>6, <1>7, <1>10
<1> SUFFICES /\ Around(t, m, w) \in Seq(OpSet)
             /\ Len(Around(t, m, w)) = 2 + d + Len(w)
             /\ Around(t, m, w)[1] = User
             /\ d = 1 => Around(t, m, w)[2] = Drop("target", OppositeTableType(BaseTableType(t)))
             /\ \A j \in 1..Len(w) : Around(t, m, w)[1 + d + j] = w[j]
             /\ Around(t, m, w)[2 + d + Len(w)] = User
  OBVIOUS
<1> HIDE DEF d
<1> QED BY <1>8, <1>9, <1>10, <1>11, <1>12

LEMMA ProjectType ==
  ASSUME project \in Projects
  PROVE  /\ Warehouse \in Warehouses /\ Types \subseteq ActionTypes
         /\ UniqueKey \in BOOLEAN /\ Protected \in BOOLEAN /\ MayStop \in BOOLEAN
BY PublishAssumption DEF Warehouse, Types, UniqueKey, Protected, MayStop

LEMMA WritesType ==
  ASSUME project \in Projects, Dataset, found \in Kinds
  PROVE  Writes \in Seq(OpSet)
<1>1. Warehouse \in Warehouses
  BY ProjectType
<1>2. \A do \in Deeds, on \in {"target", "temp", "session"}, kind \in Kinds : Op(do, on, kind) \in OpSet
  BY DEF Op, OpSet
<1>3. BaseTableType(type) \in Kinds
  BY DEF BaseTableType, Kinds
<1>4. /\ \A do \in {"merge", "insert", "replace", "createIfAbsent", "alter", "create"} :
            Op(do, "target", BaseTableType(type)) \in OpSet /\ Op(do, "target", "table") \in OpSet
                /\ Op(do, "target", "view") \in OpSet
      /\ Drop("target", "view") \in OpSet /\ Drop("target", "table") \in OpSet
      /\ Drop("temp", "table") \in OpSet /\ Op("create", "temp", "table") \in OpSet
      /\ Op("rename", "temp", "table") \in OpSet
      /\ Drop("session", "table") \in OpSet /\ Op("create", "session", "table") \in OpSet
      /\ Op("begin", "target", "none") \in OpSet /\ Op("delete", "target", "table") \in OpSet
      /\ Op("insertSession", "target", "table") \in OpSet /\ Op("end", "target", "none") \in OpSet
      /\ Op("dropExisting", "session", "table") \in OpSet
  BY <1>2, <1>3 DEF Deeds, Kinds, Drop
<1>5. RedshiftMergeInto \in Seq(OpSet)
  BY <1>4 DEF RedshiftMergeInto
<1>6. RedshiftCreateOrReplace(type) \in Seq(OpSet)
  BY <1>4 DEF RedshiftCreateOrReplace
<1>7. \A e \in BOOLEAN : SqlDwCreateOrReplace(type, e) \in Seq(OpSet)
  BY <1>4 DEF SqlDwCreateOrReplace
<1>8. CASE Warehouse \in {"bigquery", "snowflake"}
  <2>1. Writes = IF More THEN <<Op(IF UniqueKey THEN "merge" ELSE "insert", "target", "table")>>
                 ELSE <<Op("replace", "target", BaseTableType(type))>>
    BY <1>8 DEF Writes, PgFamily
  <2>2. (IF UniqueKey THEN "merge" ELSE "insert") \in {"merge", "insert"}
    OBVIOUS
  <2>3. Op(IF UniqueKey THEN "merge" ELSE "insert", "target", "table") \in OpSet
    BY <1>4, <2>2
  <2> QED BY <1>4, <2>1, <2>3
<1>9. CASE PgFamily
  BY <1>4, <1>5, <1>6, <1>9 DEF Writes, PgFamily
<1>10. CASE Warehouse = "sqldatawarehouse"
  <2>1. Writes = IF More THEN <<Op("insert", "target", "table")>>
                 ELSE SqlDwCreateOrReplace(type, found # "none")
    BY <1>10 DEF Writes, PgFamily
  <2>2. SqlDwCreateOrReplace(type, found # "none") \in Seq(OpSet)
    <3>1. CASE found = "none"
      <4>1. (found # "none") = FALSE
        BY <3>1
      <4> QED BY <1>7, <4>1
    <3>2. CASE found # "none"
      <4>1. (found # "none") = TRUE
        BY <3>2
      <4> QED BY <1>7, <4>1
    <3> QED BY <3>1, <3>2
  <2> QED BY <1>4, <2>1, <2>2
<1>11. CASE Warehouse = "presto"
  BY <1>4, <1>11 DEF Writes, PgFamily
<1> QED BY <1>1, <1>8, <1>9, <1>10, <1>11 DEF Warehouses, PgFamily

LEMMA TasksAre ==
  ASSUME project \in Projects, Dataset, found \in Kinds, refresh \in BOOLEAN,
         ~(Warehouse = "presto" /\ type = "incremental")
  PROVE  Tasks(type, refresh, found) =
           IF Script THEN Concatenate(Around(type, found, Writes))
           ELSE Statements(Around(type, found, Writes))
<1>1. Warehouse \in Warehouses
  BY ProjectType
<1>2. type \notin {"assertion", "operation"}
  BY DEF Dataset, DatasetTypes
<1>3. CASE Warehouse \in {"bigquery", "snowflake"}
  <2>1. ReplaceOrWrite(type, refresh, found) = Around(type, found, Writes)
    BY <1>3 DEF ReplaceOrWrite, Writes, More, PgFamily
  <2> QED BY <1>2, <1>3, <2>1 DEF Tasks, PublishTasks, BigQueryTasks, SnowflakeTasks, Script, PgFamily
<1>4. CASE PgFamily
  <2>1. Writes = IF ~More THEN RedshiftCreateOrReplace(type)
                 ELSE IF UniqueKey THEN RedshiftMergeInto ELSE <<Op("insert", "target", "table")>>
    BY <1>4 DEF Writes, PgFamily
  <2> QED BY <1>2, <1>4, <2>1 DEF Tasks, PublishTasks, RedshiftTasks, Script, PgFamily, More
<1>5. CASE Warehouse = "sqldatawarehouse"
  <2>1. Writes = IF type = "incremental" /\ ShouldWriteIncrementally(refresh, found)
                 THEN <<Op("insert", "target", "table")>>
                 ELSE SqlDwCreateOrReplace(type, found # "none")
    BY <1>5 DEF Writes, More, PgFamily
  <2> QED BY <1>2, <1>5, <2>1 DEF Tasks, PublishTasks, SqlDwTasks, Script, PgFamily
<1>6. CASE Warehouse = "presto"
  BY <1>2, <1>6 DEF Tasks, PublishTasks, PrestoTasks, Script, PgFamily, Writes
<1> QED BY <1>1, <1>3, <1>4, <1>5, <1>6 DEF Warehouses, PgFamily
-----------------------------------------------------------------------------
(* Where a run is.                                                         *)
Lines == Around(type, found, Writes)
Valid == /\ at \in Nat \X Nat
         /\ at[1] \in DOMAIN tasks /\ at[2] \in DOMAIN tasks[at[1]].ops

LEMMA LinesAre ==
  ASSUME project \in Projects, Dataset, found \in Kinds
  PROVE  /\ Lines \in Seq(OpSet) /\ DOMAIN Lines = 1..Len(Lines) /\ Len(Lines) \in Nat
         /\ Len(Writes) \in Nat /\ DOMAIN Writes = 1..Len(Writes)
         /\ Len(Lines) = Len(Writes) + (IF Dropping THEN 3 ELSE 2)
         /\ \A p \in 1..Len(Lines) :
              LET j == p - (IF Dropping THEN 2 ELSE 1)
              IN Lines[p] = IF j \in 1..Len(Writes) THEN Writes[j]
                            ELSE IF j = 0 /\ Dropping
                            THEN Drop("target", OppositeTableType(BaseTableType(type)))
                            ELSE User
<1> DEFINE d == IF found \notin {"none", BaseTableType(type)} THEN 1 ELSE 0
<1>1. PICK n \in Nat : n = Len(Writes)
  BY WritesType, LenProperties
<1>2. /\ Lines \in Seq(OpSet) /\ Len(Lines) = 2 + d + n
      /\ Lines[1] = User /\ Lines[2 + d + n] = User
      /\ d = 1 => Lines[2] = Drop("target", OppositeTableType(BaseTableType(type)))
      /\ \A j \in 1..n : Lines[1 + d + j] = Writes[j]
  BY <1>1, WritesType, AroundIs DEF Lines, Dataset
<1>3. d = IF Dropping THEN 1 ELSE 0
  BY DEF Dropping
<1>4. DOMAIN Lines = 1..Len(Lines) /\ DOMAIN Writes = 1..Len(Writes)
  BY <1>2, WritesType, LenProperties
<1> HIDE DEF d
<1>5. ASSUME NEW p \in 1..Len(Lines), NEW j \in Int, j = p - (1 + d)
      PROVE  Lines[p] = IF j \in 1..n THEN Writes[j]
                        ELSE IF j = 0 /\ Dropping
                        THEN Drop("target", OppositeTableType(BaseTableType(type)))
                        ELSE User
  <2>1. CASE j \in 1..n
    BY <1>2, <1>3, <1>5, <2>1
  <2>2. CASE j \notin 1..n /\ j = 0 /\ Dropping
    BY <1>2, <1>3, <1>5, <2>2
  <2>3. CASE j \notin 1..n /\ ~(j = 0 /\ Dropping)
    BY <1>1, <1>2, <1>3, <1>5, <2>3
  <2> QED BY <2>1, <2>2, <2>3
<1>6. \A p \in 1..Len(Lines) : p - (IF Dropping THEN 2 ELSE 1) = p - (1 + d) /\ p - (1 + d) \in Int
  BY <1>1, <1>2, <1>3
<1> QED BY <1>1, <1>2, <1>3, <1>4, <1>5, <1>6

(* The statement to be executed next is a line of the action's.            *)
LEMMA CurrentIs ==
  ASSUME TypeOK, Plan, Ongoing, Dataset
  PROVE  /\ Position \in 1..Len(Lines) /\ Current = Lines[Position]
         /\ Written \in Int /\ Written <= Len(Writes) + 1 /\ Written >= -1
         /\ Written = -1 => Dropping
         /\ Current = IF Written \in 1..Len(Writes) THEN Writes[Written]
                      ELSE IF Written = 0 /\ Dropping
                      THEN Drop("target", OppositeTableType(BaseTableType(type)))
                      ELSE User
         /\ Task.type = "statement"
         /\ IF Script THEN at[1] = 1 /\ Len(tasks) = 1 /\ Len(Task.ops) = Len(Lines)
            ELSE at[2] = 1 /\ Len(tasks) = Len(Lines) /\ Len(Task.ops) = 1
<1>1. tasks = IF Script THEN Concatenate(Lines) ELSE Statements(Lines)
  BY TasksAre DEF TypeOK, Plan, Lines
<1>2. /\ DOMAIN Lines = 1..Len(Lines) /\ Len(Lines) \in Nat
      /\ Len(Writes) \in Nat /\ Len(Lines) = Len(Writes) + (IF Dropping THEN 3 ELSE 2)
      /\ \A p \in 1..Len(Lines) :
           LET j == p - (IF Dropping THEN 2 ELSE 1)
           IN Lines[p] = IF j \in 1..Len(Writes) THEN Writes[j]
                         ELSE IF j = 0 /\ Dropping
                         THEN Drop("target", OppositeTableType(BaseTableType(type)))
                         ELSE User
  BY LinesAre DEF TypeOK
<1>3. at \in Nat \X Nat /\ at[1] \in DOMAIN tasks /\ at[2] \in DOMAIN tasks[at[1]].ops
  BY DEF Plan
<1>4. /\ Position \in 1..Len(Lines) /\ Current = Lines[Position] /\ Task.type = "statement"
      /\ IF Script THEN at[1] = 1 /\ Len(tasks) = 1 /\ Len(Task.ops) = Len(Lines)
         ELSE at[2] = 1 /\ Len(tasks) = Len(Lines) /\ Len(Task.ops) = 1
  <2>1. CASE Script
    <3>1. tasks = <<[type |-> "statement", ops |-> Lines]>>
      BY <1>1, <2>1 DEF Concatenate
    <3> QED BY <1>2, <1>3, <2>1, <3>1 DEF Position, Current, Task
  <2>2. CASE ~Script
    <3>1. tasks = [i \in DOMAIN Lines |-> [type |-> "statement", ops |-> <<Lines[i]>>]]
      BY <1>1, <2>2 DEF Statements, Statement
    <3>2. at[1] \in 1..Len(Lines) /\ Task = [type |-> "statement", ops |-> <<Lines[at[1]]>>]
      BY <1>2, <1>3, <3>1 DEF Task
    <3>3. at[2] = 1
      BY <1>3, <3>2 DEF Task
    <3>4. Len(tasks) = Len(Lines)
      BY <1>2, <3>1
    <3> QED BY <2>2, <3>2, <3>3, <3>4 DEF Position, Current
  <2> QED BY <2>1, <2>2
<1>5. Written \in Int /\ Written <= Len(Writes) + 1 /\ Written >= -1 /\ (Written = -1 => Dropping)
  BY <1>2, <1>4 DEF Written
<1> QED BY <1>2, <1>4, <1>5 DEF Written

(* An assertion's statements, and an operation's.                          *)
LEMMA TwoAndOne ==
  ASSUME NEW x, NEW y, NEW z
  PROVE  <<x, y>> \o <<z>> = <<x, y, z>>
<1> DEFINE S == {x, y, z}
<1>1. <<x, y>> \in Seq(S) /\ <<z>> \in Seq(S) /\ <<x, y, z>> \in Seq(S)
  OBVIOUS
<1>2. PICK a, b, c : a = <<x, y>> /\ b = <<z>> /\ c = <<x, y, z>>
  OBVIOUS
<1>3. /\ a \in Seq(S) /\ b \in Seq(S) /\ c \in Seq(S) /\ Len(a) = 2 /\ Len(b) = 1 /\ Len(c) = 3
      /\ a[1] = x /\ a[2] = y /\ b[1] = z /\ c[1] = x /\ c[2] = y /\ c[3] = z
  BY <1>1, <1>2
<1> HIDE DEF S
<1>4. /\ a \o b \in Seq(S) /\ Len(a \o b) = 3
      /\ \A i \in 1..3 : (a \o b)[i] = IF i <= 2 THEN a[i] ELSE b[i - 2]
  <2>1. /\ a \o b \in Seq(S) /\ Len(a \o b) = Len(a) + Len(b)
        /\ \A i \in 1..(Len(a) + Len(b)) : (a \o b)[i] = IF i <= Len(a) THEN a[i] ELSE b[i - Len(a)]
    BY <1>3, ConcatProperties
  <2> QED BY <1>3, <2>1
<1>5. \A i \in 1..3 : (a \o b)[i] = c[i]
  BY <1>3, <1>4
<1>6. a \o b = c
  BY <1>3, <1>4, <1>5, SeqEqual
<1> QED BY <1>2, <1>6

LEMMA AssertionIs ==
  ASSUME TypeOK, Plan, Ongoing, type = "assertion"
  PROVE  /\ at[2] = 1 /\ Len(Task.ops) = 1
         /\ IF DropsFirst
            THEN /\ Len(tasks) = 3 /\ at[1] \in 1..3
                 /\ at[1] = 1 => Current = Drop("target", "view")
                 /\ at[1] = 2 => \/ Current = Op("create", "target", "view")
                                 \/ Current = Op("replace", "target", "view")
                 /\ at[1] = 3 => Current = Op("check", "target", "none")
            ELSE /\ Len(tasks) = 2 /\ at[1] \in 1..2
                 /\ at[1] = 1 => Current = Op("replace", "target", "view")
                 /\ at[1] = 2 => Current = Op("check", "target", "none")
         /\ Task.type = IF at[1] = Len(tasks) THEN "assertion" ELSE "statement"
<1>1. Warehouse \in Warehouses
  BY ProjectType DEF TypeOK
<1>2. /\ tasks = PublishTasks(type, refresh, found)
      /\ at \in Nat \X Nat /\ at[1] \in DOMAIN tasks /\ at[2] \in DOMAIN tasks[at[1]].ops
  BY DEF Plan, Tasks
<1>3. CASE ~DropsFirst
  <2>1. tasks = <<[type |-> "statement", ops |-> <<Op("replace", "target", "view")>>],
                  [type |-> "assertion", ops |-> <<Op("check", "target", "none")>>]>>
    BY <1>1, <1>2, <1>3 DEF DropsFirst, PublishTasks, BigQueryTasks, SnowflakeTasks, PrestoTasks,
                            Statement, Check, Warehouses, PgFamily
  <2>2. at[1] \in 1..2 /\ Len(tasks) = 2
    BY <1>2, <2>1
  <2>3. CASE at[1] = 1
    BY <1>2, <1>3, <2>1, <2>2, <2>3 DEF Current, Task
  <2>4. CASE at[1] = 2
    BY <1>2, <1>3, <2>1, <2>2, <2>4 DEF Current, Task
  <2> QED BY <2>2, <2>3, <2>4
<1>4. CASE DropsFirst
  <2>1. PICK make : /\ make \in {Op("create", "target", "view"), Op("replace", "target", "view")}
                    /\ tasks = Statements(<<Drop("target", "view"), make>>) \o <<Check>>
    <3>1. CASE PgFamily
      BY <1>2, <3>1 DEF PublishTasks, RedshiftTasks, PgFamily
    <3>2. CASE Warehouse = "sqldatawarehouse"
      BY <1>2, <3>2 DEF PublishTasks, SqlDwTasks, SqlDwAssert, PgFamily
    <3> QED BY <1>4, <3>1, <3>2 DEF DropsFirst, PgFamily
  <2>2. Statements(<<Drop("target", "view"), make>>)
          = <<[type |-> "statement", ops |-> <<Drop("target", "view")>>],
              [type |-> "statement", ops |-> <<make>>]>>
    BY DEF Statements, Statement
  <2>3. tasks = <<[type |-> "statement", ops |-> <<Drop("target", "view")>>],
                  [type |-> "statement", ops |-> <<make>>],
                  [type |-> "assertion", ops |-> <<Op("check", "target", "none")>>]>>
    <3>1. <<[type |-> "statement", ops |-> <<Drop("target", "view")>>],
            [type |-> "statement", ops |-> <<make>>]>> \o <<Check>>
            = <<[type |-> "statement", ops |-> <<Drop("target", "view")>>],
                [type |-> "statement", ops |-> <<make>>], Check>>
      BY TwoAndOne
    <3> QED BY <2>1, <2>2, <3>1 DEF Check
  <2>4. at[1] \in 1..3 /\ Len(tasks) = 3
    BY <1>2, <2>3
  <2>5. CASE at[1] = 1
    BY <1>2, <1>4, <2>3, <2>4, <2>5 DEF Current, Task
  <2>6. CASE at[1] = 2
    <3>1. Task = [type |-> "statement", ops |-> <<make>>]
      BY <2>3, <2>6 DEF Task
    <3>2. at[2] = 1 /\ Current = make
      BY <1>2, <2>6, <3>1 DEF Current, Task
    <3>3. Current = Op("create", "target", "view") \/ Current = Op("replace", "target", "view")
      BY <2>1, <3>2
    <3> QED BY <1>4, <2>4, <2>6, <3>1, <3>2, <3>3
  <2>7. CASE at[1] = 3
    BY <1>2, <1>4, <2>3, <2>4, <2>7 DEF Current, Task
  <2> QED BY <2>4, <2>5, <2>6, <2>7
<1> QED BY <1>3, <1>4

LEMMA OperationIs ==
  ASSUME Plan, Ongoing, type = "operation"
  PROVE  /\ at[1] = 1 /\ at[2] = 1 /\ Len(tasks) = 1 /\ Len(Task.ops) = 1
         /\ Current = User /\ Task.type = "statement"
<1>1. tasks = <<[type |-> "statement", ops |-> <<User>>]>> /\ Valid
  BY DEF Plan, Tasks, Statement, Valid
<1> QED BY <1>1 DEF Valid, Current, Task

LEMMA Kind ==
  ASSUME TypeOK
  PROVE  Dataset \/ type = "assertion" \/ type = "operation"
BY ProjectType DEF TypeOK, Dataset, ActionTypes

LEMMA CurrentType ==
  ASSUME TypeOK, Plan, Ongoing
  PROVE  Current \in OpSet
<1>1. CASE Dataset
  <2>1. Lines \in Seq(OpSet) /\ Position \in 1..Len(Lines) /\ Current = Lines[Position]
    BY <1>1, CurrentIs, LinesAre DEF TypeOK
  <2> QED BY <2>1
<1>2. CASE type = "assertion"
  <2>1. Current \in {Drop("target", "view"), Op("create", "target", "view"),
                     Op("replace", "target", "view"), Op("check", "target", "none")}
    <3>1. CASE DropsFirst
      BY <1>2, <3>1, AssertionIs
    <3>2. CASE ~DropsFirst
      BY <1>2, <3>2, AssertionIs
    <3> QED BY <3>1, <3>2
  <2> QED BY <2>1 DEF OpSet, Op, Drop, Deeds, Kinds
<1>3. CASE type = "operation"
  BY <1>3, OperationIs DEF OpSet, Op, User, Deeds, Kinds
<1> QED BY <1>1, <1>2, <1>3, Kind
-----------------------------------------------------------------------------
(* What the warehouse holds.                                               *)
Names == {"target", "temp"} \cup Clients

LEMMA FullType ==
  ASSUME TypeOK
  PROVE  Full \in SUBSET Rows /\ One(Full)
<1>1. \A k \in Keys : src[k] # 0 => <<k, src[k]>> \in Rows
  BY PublishAssumption DEF TypeOK, Rows
<1> QED BY <1>1 DEF Full, One

Seen(o, u) ==
  LET open == {c \in Clients : u[c] # <<>>}
  IN IF open = {} THEN o["target"] ELSE u[CHOOSE c \in open : TRUE][1]

LEMMA SeenIs ==
  ASSUME NEW o, NEW u
  PROVE  /\ (\A c \in Clients : u[c] = <<>>) => Seen(o, u) = o["target"]
         /\ \A d \in Clients : u[d] # <<>> /\ (\A c \in Clients \ {d} : u[c] = <<>>)
                                 => Seen(o, u) = u[d][1]
         /\ Seen(o, u) = o["target"] \/ \E c \in Clients : u[c] # <<>> /\ Seen(o, u) = u[c][1]
<1> DEFINE open == {c \in Clients : u[c] # <<>>}
<1>1. (\A c \in Clients : u[c] = <<>>) => open = {}
  OBVIOUS
<1>2. ASSUME NEW d \in Clients, u[d] # <<>>, \A c \in Clients \ {d} : u[c] = <<>>
      PROVE  Seen(o, u) = u[d][1]
  <2>1. open = {d}
    BY <1>2
  <2>2. (CHOOSE c \in open : TRUE) = d
    BY <2>1
  <2> QED BY <2>1, <2>2 DEF Seen
<1>3. open # {} => (CHOOSE c \in open : TRUE) \in open
  OBVIOUS
<1> QED BY <1>1, <1>2, <1>3 DEF Seen

LEMMA CommittedIs == Committed = Seen(obj, undo) /\ Committed' = Seen(obj', undo')
BY DEF Committed, Seen

LEMMA CommittedType ==
  ASSUME TypeOK
  PROVE  Committed \in Datasets
<1>1. obj["target"] \in Datasets /\ \A c \in Clients : undo[c] # <<>> => undo[c][1] \in Datasets
  BY DEF TypeOK
<1> QED BY <1>1, SeenIs, CommittedIs

LEMMA NewRowsType ==
  ASSUME TypeOK
  PROVE  NewRows \in SUBSET Rows /\ NewRows \subseteq Full
BY FullType DEF NewRows

LEMMA NameType ==
  ASSUME TypeOK, NEW op \in OpSet
  PROVE  Name(op) \in Names /\ obj[Name(op)] \in Datasets
BY DEF TypeOK, OpSet, Name, Names

LEMMA MadeType ==
  ASSUME TypeOK, NEW op \in OpSet
  PROVE  /\ Made(op) \in Datasets /\ Made(op).kind = op.kind
         /\ op.kind = "view" => Made(op).rows = {}
         /\ op.kind # "view" /\ op.on = "session" => Made(op).rows = NewRows
         /\ op.kind # "view" /\ op.on # "session" => Made(op).rows = Full
<1>1. Made(op).rows \in SUBSET Rows
  BY FullType, NewRowsType DEF Made
<1> QED BY <1>1 DEF Made, Datasets, OpSet

(* What each statement makes of the object it names.                       *)
Updated(rows, new) == {r \in rows : r[1] \notin KeysOf(new)}

LEMMA EffectIs ==
  ASSUME TypeOK, NEW op \in OpSet, NEW n, n = Name(op), NEW o, o = obj[n]
  PROVE  /\ op.do \in {"user", "begin", "end", "check"} => Effect(op) = obj
         /\ op.do \in {"drop", "dropExisting"} =>
              Effect(op) = IF o.kind = op.kind THEN [obj EXCEPT ![n] = Absent] ELSE obj
         /\ op.do \in {"create", "replace", "alter"} => Effect(op) = [obj EXCEPT ![n] = Made(op)]
         /\ op.do = "createIfAbsent" =>
              Effect(op) = IF o.kind = "none" THEN [obj EXCEPT ![n] = Made(op)] ELSE obj
         /\ op.do = "rename" => Effect(op) = [obj EXCEPT !["target"] = o, !["temp"] = Absent]
         /\ op.do = "insert" => Effect(op) = Changed(op, o.rows \cup NewRows)
         /\ op.do = "merge" => Effect(op) = Changed(op, Updated(o.rows, NewRows) \cup NewRows)
         /\ op.do = "delete" => Effect(op) = Changed(op, Updated(o.rows, obj[client].rows))
         /\ op.do = "insertSession" => Effect(op) = Changed(op, o.rows \cup obj[client].rows)
<1>1. CASE op.do \in {"user", "begin", "end", "check"}
  BY <1>1 DEF Effect
<1>2. CASE op.do \in {"drop", "dropExisting"}
  BY <1>2 DEF Effect
<1>3. CASE op.do \in {"create", "replace", "alter"}
  BY <1>3 DEF Effect
<1>4. CASE op.do = "createIfAbsent"
  BY <1>4 DEF Effect
<1>5. CASE op.do = "rename"
  BY <1>5 DEF Effect
<1>6. CASE op.do \in {"insert", "merge"}
  BY <1>6 DEF Effect, Updated
<1>7. CASE op.do \in {"delete", "insertSession"}
  BY <1>7 DEF Effect, Updated
<1> QED BY <1>1, <1>2, <1>3, <1>4, <1>5, <1>6, <1>7 DEF OpSet, Deeds

LEMMA EffectType ==
  ASSUME TypeOK, NEW op \in OpSet
  PROVE  Effect(op) \in [Names -> Datasets]
<1>1. PICK n \in Names, o \in Datasets : n = Name(op) /\ o = obj[n]
  BY NameType
<1>2. obj \in [Names -> Datasets] /\ "target" \in Names /\ "temp" \in Names /\ client \in Names
  BY DEF TypeOK, Names
<1>3. Absent \in Datasets
  BY DEF Absent, Datasets, Kinds
<1>4. \A d \in Datasets : [obj EXCEPT ![n] = d] \in [Names -> Datasets]
  BY <1>2
<1>5. \A rows \in SUBSET Rows : Changed(op, rows) \in [Names -> Datasets]
  BY <1>1, <1>2 DEF Datasets, Changed
<1>6. obj[client].rows \in SUBSET Rows /\ o.rows \in SUBSET Rows /\ NewRows \in SUBSET Rows
  BY <1>1, <1>2, NewRowsType DEF Datasets
<1>7. \A new : Updated(o.rows, new) \in SUBSET Rows
  BY <1>6 DEF Updated
<1>8. [obj EXCEPT !["target"] = o, !["temp"] = Absent] \in [Names -> Datasets]
  BY <1>1, <1>2, <1>3
<1>9. op.do \in Deeds
  BY DEF OpSet
<1>10. CASE op.do \in {"user", "begin", "end", "check"}
  BY <1>1, <1>2, <1>10, EffectIs
<1>11. CASE op.do \in {"drop", "dropExisting"}
  BY <1>1, <1>2, <1>3, <1>4, <1>11, EffectIs
<1>12. CASE op.do \in {"create", "replace", "alter"}
  <2>1. Effect(op) = [obj EXCEPT ![n] = Made(op)]
    BY <1>1, <1>12, EffectIs
  <2>2. Made(op) \in Datasets
    BY MadeType
  <2> QED BY <1>4, <2>1, <2>2
<1>13. CASE op.do = "createIfAbsent"
  <2>1. Effect(op) = IF o.kind = "none" THEN [obj EXCEPT ![n] = Made(op)] ELSE obj
    BY <1>1, <1>13, EffectIs
  <2>2. Made(op) \in Datasets
    BY MadeType
  <2> QED BY <1>2, <1>4, <2>1, <2>2
<1>14. CASE op.do = "rename"
  <2>1. Effect(op) = [obj EXCEPT !["target"] = o, !["temp"] = Absent]
    BY <1>1, <1>14 DEF Effect
  <2> QED BY <1>8, <2>1
<1>15. CASE op.do = "insert"
  <2>1. Changed(op, o.rows \cup NewRows) \in [Names -> Datasets]
    <3>1. PICK rows \in SUBSET Rows : rows = o.rows \cup NewRows
      BY <1>6
    <3>2. Changed(op, rows) \in [Names -> Datasets]
      BY <1>5
    <3> QED BY <3>1, <3>2
  <2> QED BY <1>1, <1>15, <2>1, EffectIs
<1>16. CASE op.do = "merge"
  <2>1. Updated(o.rows, NewRows) \cup NewRows \in SUBSET Rows
    BY <1>6, <1>7
  <2>2. Changed(op, Updated(o.rows, NewRows) \cup NewRows) \in [Names -> Datasets]
    <3>1. PICK rows \in SUBSET Rows : rows = Updated(o.rows, NewRows) \cup NewRows
      BY <2>1
    <3>2. Changed(op, rows) \in [Names -> Datasets]
      BY <1>5
    <3> QED BY <3>1, <3>2
  <2> QED BY <1>1, <1>16, <2>2, EffectIs
<1>17. CASE op.do = "delete"
  <2>1. Changed(op, Updated(o.rows, obj[client].rows)) \in [Names -> Datasets]
    BY <1>5, <1>7
  <2> QED BY <1>1, <1>17, <2>1, EffectIs
<1>18. CASE op.do = "insertSession"
  <2>1. Changed(op, o.rows \cup obj[client].rows) \in [Names -> Datasets]
    <3>1. PICK rows \in SUBSET Rows : rows = o.rows \cup obj[client].rows
      BY <1>6
    <3>2. Changed(op, rows) \in [Names -> Datasets]
      BY <1>5
    <3> QED BY <3>1, <3>2
  <2> QED BY <1>1, <1>18, <2>1, EffectIs
<1> QED BY <1>9, <1>10, <1>11, <1>12, <1>13, <1>14, <1>15, <1>16, <1>17, <1>18 DEF Deeds

LEMMA EffectAt ==
  ASSUME TypeOK, NEW op \in OpSet, NEW n, n = Name(op), NEW o, o = obj[n]
  PROVE  /\ op.do # "rename" => \A m \in Names \ {n} : Effect(op)[m] = obj[m]
         /\ op.do = "rename" => /\ \A m \in Names \ {"target", "temp"} : Effect(op)[m] = obj[m]
                                /\ Effect(op)["target"] = o /\ Effect(op)["temp"] = Absent
         /\ op.do \in {"user", "begin", "end", "check"} => Effect(op) = obj
         /\ op.do \in {"drop", "dropExisting"} =>
              Effect(op)[n] = IF o.kind = op.kind THEN Absent ELSE o
         /\ op.do \in {"create", "replace", "alter"} => Effect(op)[n] = Made(op)
         /\ op.do = "createIfAbsent" => Effect(op)[n] = IF o.kind = "none" THEN Made(op) ELSE o
         /\ op.do \in {"insert", "merge", "delete", "insertSession"} => Effect(op)[n].kind = o.kind
         /\ op.do = "insert" => Effect(op)[n].rows = o.rows \cup NewRows
         /\ op.do = "merge" => Effect(op)[n].rows = Updated(o.rows, NewRows) \cup NewRows
         /\ op.do = "delete" => Effect(op)[n].rows = Updated(o.rows, obj[client].rows)
         /\ op.do = "insertSession" => Effect(op)[n].rows = o.rows \cup obj[client].rows
<1>1. n \in Names /\ o \in Datasets /\ obj \in [Names -> Datasets]
  BY NameType DEF TypeOK, Names
<1>2. \A d : /\ [obj EXCEPT ![n] = d][n] = d
             /\ \A m \in Names \ {n} : [obj EXCEPT ![n] = d][m] = obj[m]
  BY <1>1
<1>3. \A rows : /\ Changed(op, rows)[n].rows = rows /\ Changed(op, rows)[n].kind = o.kind
                /\ \A m \in Names \ {n} : Changed(op, rows)[m] = obj[m]
  BY <1>1 DEF Changed, Datasets
<1>4. CASE op.do \in {"user", "begin", "end", "check"}
  BY <1>4, EffectIs
<1>5. CASE op.do \in {"drop", "dropExisting"}
  <2>1. Effect(op) = IF o.kind = op.kind THEN [obj EXCEPT ![n] = Absent] ELSE obj
    BY <1>5 DEF Effect
  <2> QED BY <1>2, <1>5, <2>1
<1>6. CASE op.do \in {"create", "replace", "alter"}
  <2>1. Effect(op) = [obj EXCEPT ![n] = Made(op)]
    BY <1>6, EffectIs
  <2> QED BY <1>2, <1>6, <2>1
<1>7. CASE op.do = "createIfAbsent"
  <2>1. Effect(op) = IF o.kind = "none" THEN [obj EXCEPT ![n] = Made(op)] ELSE obj
    BY <1>7, EffectIs
  <2> QED BY <1>2, <1>7, <2>1
<1>8. CASE op.do = "rename"
  <2>1. Effect(op) = [obj EXCEPT !["target"] = o, !["temp"] = Absent]
    BY <1>8 DEF Effect
  <2> QED BY <1>1, <1>8, <2>1 DEF Names
<1>9. CASE op.do = "insert"
  <2>1. Effect(op) = Changed(op, o.rows \cup NewRows)
    BY <1>9 DEF Effect
  <2> QED BY <1>3, <1>9, <2>1
<1>10. CASE op.do = "merge"
  <2>1. Effect(op) = Changed(op, Updated(o.rows, NewRows) \cup NewRows)
    BY <1>10 DEF Effect, Updated
  <2> QED BY <1>3, <1>10, <2>1
<1>11. CASE op.do = "delete"
  <2>1. Effect(op) = Changed(op, Updated(o.rows, obj[client].rows))
    BY <1>11 DEF Effect, Updated
  <2> QED BY <1>3, <1>11, <2>1
<1>12. CASE op.do = "insertSession"
  <2>1. Effect(op) = Changed(op, o.rows \cup obj[client].rows)
    BY <1>12 DEF Effect
  <2> QED BY <1>3, <1>12, <2>1
<1> QED BY <1>4, <1>5, <1>6, <1>7, <1>8, <1>9, <1>10, <1>11, <1>12 DEF OpSet, Deeds
-----------------------------------------------------------------------------
(* The tasks of every action, whenever a run is built.                     *)
TaskSet == [type : {"statement", "assertion"}, ops : {w \in Seq(OpSet) : Len(w) >= 1}]

Planned ==
  /\ project \in Projects /\ type \in Types /\ found \in Kinds /\ refresh \in BOOLEAN
  /\ tasks = Tasks(type, refresh, found)
  /\ ~(Warehouse = "presto" /\ type = "incremental")

LEMMA TasksType ==
  ASSUME Planned
  PROVE  tasks \in Seq(TaskSet) /\ Len(tasks) >= 1
<1>1. Warehouse \in Warehouses /\ type \in ActionTypes
  BY ProjectType DEF Planned
<1>2. \A op \in OpSet : [type |-> "statement", ops |-> <<op>>] \in TaskSet
  BY DEF TaskSet
<1>3. CASE Dataset
  <2>1. tasks = IF Script THEN Concatenate(Lines) ELSE Statements(Lines)
    BY <1>3, TasksAre DEF Planned, Lines
  <2>2. Lines \in Seq(OpSet) /\ DOMAIN Lines = 1..Len(Lines) /\ Len(Lines) \in Nat /\ Len(Lines) >= 2
    <3>1. Len(Writes) \in Nat /\ Len(Lines) = Len(Writes) + (IF Dropping THEN 3 ELSE 2)
      BY <1>3, LinesAre DEF Planned
    <3> QED BY <1>3, <3>1, LinesAre DEF Planned
  <2>3. CASE Script
    BY <2>1, <2>2, <2>3 DEF Concatenate, TaskSet
  <2>4. CASE ~Script
    <3>1. tasks = [i \in DOMAIN Lines |-> [type |-> "statement", ops |-> <<Lines[i]>>]]
      BY <2>1, <2>4 DEF Statements, Statement
    <3>2. \A i \in 1..Len(Lines) : Lines[i] \in OpSet
      BY <2>2
    <3>3. tasks \in [1..Len(Lines) -> TaskSet]
      BY <1>2, <2>2, <3>1, <3>2
    <3> QED BY <2>2, <3>3
  <2> QED BY <2>3, <2>4
<1>4. CASE type = "operation"
  <2>1. tasks = <<[type |-> "statement", ops |-> <<User>>]>>
    BY <1>4 DEF Planned, Tasks, Statement
  <2>2. User \in OpSet
    BY DEF User, Op, OpSet, Deeds, Kinds
  <2> QED BY <1>2, <2>1, <2>2
<1>5. CASE type = "assertion"
  <2>1. /\ Drop("target", "view") \in OpSet /\ Op("replace", "target", "view") \in OpSet
        /\ Op("create", "target", "view") \in OpSet /\ Op("check", "target", "none") \in OpSet
    BY DEF Drop, Op, OpSet, Deeds, Kinds
  <2>2. [type |-> "assertion", ops |-> <<Op("check", "target", "none")>>] \in TaskSet
    BY <2>1 DEF TaskSet
  <2>3. CASE ~DropsFirst
    <3>1. tasks = <<[type |-> "statement", ops |-> <<Op("replace", "target", "view")>>],
                    [type |-> "assertion", ops |-> <<Op("check", "target", "none")>>]>>
      BY <1>1, <1>5, <2>3 DEF Planned, Tasks, DropsFirst, PublishTasks, BigQueryTasks, SnowflakeTasks,
                              PrestoTasks, Statement, Check, Warehouses, PgFamily
    <3> QED BY <1>2, <2>1, <2>2, <3>1
  <2>4. CASE DropsFirst
    <3>1. PICK make \in OpSet : tasks = Statements(<<Drop("target", "view"), make>>) \o <<Check>>
      <4>1. CASE PgFamily
        BY <1>5, <2>1, <4>1 DEF Planned, Tasks, PublishTasks, RedshiftTasks, PgFamily
      <4>2. CASE Warehouse = "sqldatawarehouse"
        BY <1>5, <2>1, <4>2 DEF Planned, Tasks, PublishTasks, SqlDwTasks, SqlDwAssert, PgFamily
      <4> QED BY <2>4, <4>1, <4>2 DEF DropsFirst, PgFamily
    <3>2. Statements(<<Drop("target", "view"), make>>)
            = <<[type |-> "statement", ops |-> <<Drop("target", "view")>>],
                [type |-> "statement", ops |-> <<make>>]>>
      BY DEF Statements, Statement
    <3>3. tasks = <<[type |-> "statement", ops |-> <<Drop("target", "view")>>],
                    [type |-> "statement", ops |-> <<make>>], Check>>
      BY <3>1, <3>2, TwoAndOne
    <3> QED BY <1>2, <2>1, <2>2, <3>3 DEF Check
  <2> QED BY <2>3, <2>4
<1> QED BY <1>1, <1>3, <1>4, <1>5 DEF ActionTypes, Dataset
-----------------------------------------------------------------------------
(* The types, and the place of the run in its tasks, are kept by every     *)
(* step.                                                                   *)
Base == TypeOK /\ Plan
Undos == {<<>>} \cup {<<d>> : d \in Datasets}

LEMMA SameRun ==
  ASSUME UNCHANGED <<project, type, plan>>
  PROVE  /\ Tasks(type, refresh, found)' = Tasks(type, refresh, found)
         /\ Writes' = Writes /\ Lines' = Lines
         /\ Script' = Script /\ More' = More /\ Dataset' = Dataset /\ Dropping' = Dropping
         /\ Merging' = Merging /\ Rebuilding' = Rebuilding /\ PgView' = PgView
         /\ Warehouse' = Warehouse /\ UniqueKey' = UniqueKey /\ PgFamily' = PgFamily
         /\ DropsFirst' = DropsFirst /\ MayStop' = MayStop
<1>1. /\ project' = project /\ type' = type /\ refresh' = refresh /\ found' = found
  BY DEF plan
<1>2. /\ Warehouse' = Warehouse /\ UniqueKey' = UniqueKey /\ PgFamily' = PgFamily
      /\ DropsFirst' = DropsFirst /\ MayStop' = MayStop /\ Script' = Script
  BY <1>1 DEF Warehouse, UniqueKey, PgFamily, DropsFirst, MayStop, Script
<1>3. More' = More /\ Dataset' = Dataset /\ Dropping' = Dropping
  BY <1>1 DEF More, Dataset, Dropping
<1>4. Writes' = Writes
  BY <1>1, <1>2, <1>3 DEF Writes
<1>5. Merging' = Merging /\ Rebuilding' = Rebuilding /\ PgView' = PgView
  BY <1>1, <1>2, <1>3 DEF Merging, Rebuilding, PgView
<1>6. Lines' = Lines
  BY <1>1, <1>4 DEF Lines
<1>7. ReplaceOrWrite(type, refresh, found)' = ReplaceOrWrite(type, refresh, found)
  BY <1>1, <1>2 DEF ReplaceOrWrite
<1>8. /\ BigQueryTasks(type, refresh, found)' = BigQueryTasks(type, refresh, found)
      /\ SnowflakeTasks(type, refresh, found)' = SnowflakeTasks(type, refresh, found)
  BY <1>1, <1>7 DEF BigQueryTasks, SnowflakeTasks
<1>9. RedshiftTasks(type, refresh, found)' = RedshiftTasks(type, refresh, found)
  BY <1>1, <1>2 DEF RedshiftTasks
<1>10. /\ SqlDwTasks(type, refresh, found)' = SqlDwTasks(type, refresh, found)
       /\ PrestoTasks(type, refresh, found)' = PrestoTasks(type, refresh, found)
  BY <1>1 DEF SqlDwTasks, PrestoTasks
<1>11. PublishTasks(type, refresh, found)' = PublishTasks(type, refresh, found)
  BY <1>1, <1>2, <1>8, <1>9, <1>10 DEF PublishTasks
<1>12. Tasks(type, refresh, found)' = Tasks(type, refresh, found)
  BY <1>1, <1>11 DEF Tasks
<1> QED BY <1>2, <1>3, <1>4, <1>5, <1>6, <1>12

LEMMA TasksTypeNext == (Planned => tasks \in Seq(TaskSet) /\ Len(tasks) >= 1)'
BY TasksType, PTL

LEMMA PlaceIs ==
  ASSUME Base, Ongoing
  PROVE  /\ tasks \in Seq(TaskSet) /\ at \in Nat \X Nat
         /\ at[1] \in 1..Len(tasks) /\ at[2] \in 1..Len(Task.ops)
         /\ Len(tasks) \in Nat /\ Len(Task.ops) \in Nat
         /\ \A i \in 1..Len(tasks) : 1 \in DOMAIN tasks[i].ops
         /\ Task.type \in {"statement", "assertion"} /\ Current \in OpSet
<1>1. Planned /\ Valid
  BY DEF Base, TypeOK, Plan, Planned, Valid
<1>2. tasks \in Seq(TaskSet)
  BY <1>1, TasksType
<1>3. \A i \in 1..Len(tasks) : tasks[i] \in TaskSet /\ Len(tasks[i].ops) \in Nat
                               /\ DOMAIN tasks[i].ops = 1..Len(tasks[i].ops) /\ Len(tasks[i].ops) >= 1
  <2> TAKE i \in 1..Len(tasks)
  <2>1. tasks[i] \in TaskSet
    BY <1>2
  <2>2. tasks[i].ops \in Seq(OpSet) /\ Len(tasks[i].ops) >= 1
    BY <2>1 DEF TaskSet
  <2> QED BY <2>1, <2>2
<1>4. DOMAIN tasks = 1..Len(tasks) /\ Len(tasks) \in Nat
  BY <1>2
<1>5. at[1] \in 1..Len(tasks) /\ Task = tasks[at[1]]
  BY <1>1, <1>4 DEF Valid, Task
<1> QED BY <1>1, <1>2, <1>3, <1>4, <1>5, CurrentType DEF Base, Valid, TaskSet

LEMMA CloseType ==
  ASSUME Base, NEW o \in [Names -> Datasets], NEW u \in [Clients -> Undos], CloseSession(o, u)
  PROVE  obj' \in [Names -> Datasets] /\ undo' \in [Clients -> Undos]
<1>1. client \in Clients /\ client \in Names /\ "target" \in Names /\ Absent \in Datasets
  BY DEF Base, TypeOK, Names, Absent, Datasets, Kinds
<1>2. u[client] # <<>> => u[client][1] \in Datasets
  BY <1>1 DEF Undos
<1>3. PICK p : p = (IF u[client] # <<>> THEN [o EXCEPT !["target"] = u[client][1]] ELSE o)
  OBVIOUS
<1>4. p \in [Names -> Datasets]
  BY <1>1, <1>2, <1>3
<1>5. obj' = [p EXCEPT ![client] = Absent] /\ undo' = [u EXCEPT ![client] = <<>>]
  BY <1>3 DEF CloseSession
<1> QED BY <1>1, <1>4, <1>5 DEF Undos

LEMMA FailBase ==
  ASSUME Base, phase = "running", NEW o \in [Names -> Datasets], NEW u \in [Clients -> Undos], NEW again,
         TaskFails(o, u, again), UNCHANGED <<project, src, type, plan, client, runs>>,
         disturbed' \in BOOLEAN
  PROVE  Base'
<1>1. /\ tasks \in Seq(TaskSet) /\ at \in Nat \X Nat /\ at[1] \in 1..Len(tasks)
      /\ 1 \in DOMAIN tasks[at[1]].ops
  BY PlaceIs DEF Ongoing
<1>2. CASE again /\ ~PgFamily /\ tries < (IF Task.type = "operation" THEN 0 ELSE Retries)
  <2>1. obj' = o /\ undo' = u /\ tries' = tries + 1 /\ at' = <<at[1], 1>> /\ phase' = "running"
    BY <1>2 DEF TaskFails
  <2>2. tries' \in 0..Retries
    BY <1>2, <2>1, PublishAssumption DEF Base, TypeOK
  <2>3. at' \in Nat \X Nat /\ at'[1] \in DOMAIN tasks' /\ at'[2] \in DOMAIN tasks'[at'[1]].ops
    BY <1>1, <2>1 DEF plan
  <2>4. TypeOK'
    BY <2>1, <2>2, <2>3 DEF Base, TypeOK, Names, Undos, Task, Types, plan
  <2>5. Plan'
    BY <2>1, <2>3, SameRun DEF Base, Plan, Ongoing, Protected, plan
  <2> QED BY <2>4, <2>5 DEF Base
<1>3. CASE ~(again /\ ~PgFamily /\ tries < (IF Task.type = "operation" THEN 0 ELSE Retries))
  <2>1. /\ phase' = "failed" /\ UNCHANGED <<tries, at>>
        /\ IF PgFamily THEN CloseSession(o, u) ELSE obj' = o /\ undo' = u
    BY <1>3 DEF TaskFails
  <2>2. obj' \in [Names -> Datasets] /\ undo' \in [Clients -> Undos]
    BY <2>1, CloseType
  <2>3. TypeOK'
    BY <2>1, <2>2 DEF Base, TypeOK, Names, Undos, Types, plan
  <2>4. Plan'
    BY <2>1 DEF Plan, Ongoing
  <2> QED BY <2>3, <2>4 DEF Base
<1> QED BY <1>2, <1>3

LEMMA UndoType ==
  ASSUME Base, phase = "running", Execute(Current)
  PROVE  /\ obj' \in [Names -> Datasets] /\ undo' \in [Clients -> Undos]
         /\ Effect(Current) \in [Names -> Datasets]
<1>1. Current \in OpSet
  BY PlaceIs DEF Ongoing
<1>2. obj' = Effect(Current) /\ Effect(Current) \in [Names -> Datasets]
  BY <1>1, EffectType DEF Base, Execute
<1>3. obj["target"] \in Datasets /\ undo \in [Clients -> Undos] /\ client \in Clients
  BY DEF Base, TypeOK, Undos
<1>4. \/ undo' = [undo EXCEPT ![client] = <<obj["target"]>>]
      \/ undo' = [undo EXCEPT ![client] = <<>>]
      \/ undo' = undo
  BY DEF Execute
<1> QED BY <1>2, <1>3, <1>4 DEF Undos

LEMMA BaseNext == Base /\ [Next]_vars => Base'
<1> SUFFICES ASSUME Base, [Next]_vars
             PROVE  Base'
  OBVIOUS
<1>1. ASSUME NEW k \in Keys, SourceChanges(k)
      PROVE  Base'
  <2>1. UNCHANGED <<project, type, obj, undo, phase, plan, at, tries, client, disturbed, runs>>
    BY <1>1 DEF SourceChanges, warehouse
  <2>2. src' \in [Keys -> 0..MaxVersion]
    BY <1>1, PublishAssumption DEF SourceChanges, Base, TypeOK
  <2>3. TypeOK'
    BY <2>1, <2>2 DEF Base, TypeOK, Types, Task, plan
  <2>4. Plan'
    BY <2>1, SameRun DEF Base, Plan, Ongoing, Protected, plan
  <2> QED BY <2>3, <2>4 DEF Base
<1>2. ASSUME NEW t \in Types, Retype(t)
      PROVE  Base'
  <2>1. /\ UNCHANGED <<project, src, obj, undo, phase, plan, at, tries, client, disturbed, runs>>
        /\ phase \notin {"running", "stopped"} /\ type' = t
    BY <1>2 DEF Retype, warehouse
  <2>2. TypeOK'
    BY <2>1 DEF Base, TypeOK, Types, Task, plan
  <2>3. Plan'
    BY <2>1 DEF Plan, Ongoing
  <2> QED BY <2>2, <2>3 DEF Base
<1>3. ASSUME NEW full \in BOOLEAN, Build(full)
      PROVE  Base'
  <2>1. /\ phase' = "running" /\ refresh' = full /\ found' = Metadata /\ at' = <<1, 1>> /\ tries' = 0
        /\ tasks' = Tasks(type, full, found') /\ MayBuild(full) /\ client' \in Clients
        /\ disturbed' = FALSE /\ runs' = runs + 1 /\ runs < MaxRuns
        /\ UNCHANGED <<project, src, type, obj, undo>>
    BY <1>3 DEF Build, warehouse
  <2>2. found' \in Kinds /\ (Warehouse = "presto" => found' = "none")
    BY <2>1, CommittedType DEF Base, Metadata, Kinds, Datasets
  <2>3. /\ ReplaceOrWrite(type, refresh, found)' = ReplaceOrWrite(type, refresh', found')
        /\ RedshiftTasks(type, refresh, found)' = RedshiftTasks(type, refresh', found')
    BY <2>1 DEF ReplaceOrWrite, RedshiftTasks, UniqueKey
  <2>4. /\ BigQueryTasks(type, refresh, found)' = BigQueryTasks(type, refresh', found')
        /\ SnowflakeTasks(type, refresh, found)' = SnowflakeTasks(type, refresh', found')
        /\ SqlDwTasks(type, refresh, found)' = SqlDwTasks(type, refresh', found')
        /\ PrestoTasks(type, refresh, found)' = PrestoTasks(type, refresh', found')
    BY <2>1, <2>3 DEF BigQueryTasks, SnowflakeTasks, SqlDwTasks, PrestoTasks
  <2>5. PublishTasks(type, refresh, found)' = PublishTasks(type, refresh', found')
    BY <2>1, <2>3, <2>4 DEF PublishTasks, PgFamily, Warehouse
  <2>6. tasks' = Tasks(type, refresh, found)'
    BY <2>1, <2>5 DEF Tasks
  <2>7. Planned'
    BY <2>1, <2>2, <2>6 DEF Base, TypeOK, Planned, MayBuild, Types, Warehouse
  <2>8. tasks' \in Seq(TaskSet) /\ Len(tasks') >= 1
    BY <2>7, TasksTypeNext
  <2>9. 1 \in DOMAIN tasks' /\ 1 \in DOMAIN tasks'[1].ops
    <3>1. 1 \in DOMAIN tasks' /\ tasks'[1] \in TaskSet
      BY <2>8
    <3>2. tasks'[1].ops \in Seq(OpSet) /\ Len(tasks'[1].ops) >= 1
      BY <3>1 DEF TaskSet
    <3> QED BY <3>1, <3>2
  <2>10. runs' \in 0..MaxRuns /\ tries' \in 0..Retries
    BY <2>1, PublishAssumption DEF Base, TypeOK
  <2>11. TypeOK'
    BY <2>1, <2>2, <2>9, <2>10 DEF Base, TypeOK, Types, Task
  <2>12. Plan'
    BY <2>1, <2>2, <2>6, <2>9 DEF Plan, Ongoing, Dataset, Protected, Warehouse, MayBuild
  <2> QED BY <2>11, <2>12 DEF Base
<1>4. ASSUME StatementDone
      PROVE  Base'
  <2>1. /\ phase = "running" /\ Execute(Current)
        /\ UNCHANGED <<project, src, type, plan, client, disturbed, runs>>
    BY <1>4 DEF StatementDone
  <2>2. obj' \in [Names -> Datasets] /\ undo' \in [Clients -> Undos]
    BY <2>1, UndoType
  <2>3. /\ tasks \in Seq(TaskSet) /\ at \in Nat \X Nat /\ at[1] \in 1..Len(tasks) /\ at[2] \in 1..Len(Task.ops)
        /\ Len(tasks) \in Nat /\ Len(Task.ops) \in Nat
        /\ \A i \in 1..Len(tasks) : 1 \in DOMAIN tasks[i].ops
    BY <2>1, PlaceIs DEF Ongoing
  <2>4. CASE at[2] < Len(Task.ops)
    <3>1. at' = <<at[1], at[2] + 1>> /\ UNCHANGED <<phase, tries>>
      BY <1>4, <2>4 DEF StatementDone
    <3>2. DOMAIN Task.ops = 1..Len(Task.ops)
      <4>1. Task \in TaskSet
        BY <2>3 DEF Task
      <4> QED BY <4>1 DEF TaskSet
    <3>3. at' \in Nat \X Nat /\ at'[1] \in DOMAIN tasks' /\ at'[2] \in DOMAIN tasks'[at'[1]].ops
      BY <2>1, <2>3, <2>4, <3>1, <3>2 DEF Task, plan
    <3>4. TypeOK'
      BY <2>1, <2>2, <3>1, <3>3 DEF Base, TypeOK, Names, Undos, Types, Task, plan
    <3>5. Plan'
      BY <2>1, <3>1, <3>3, SameRun DEF Base, Plan, Ongoing, Protected, plan
    <3> QED BY <3>4, <3>5 DEF Base
  <2>5. CASE ~(at[2] < Len(Task.ops)) /\ at[1] = Len(tasks)
    <3>1. phase' = "done" /\ tries' = 0
      BY <1>4, <2>5 DEF StatementDone
    <3>2. tries' \in 0..Retries
      BY <3>1, PublishAssumption
    <3>3. TypeOK'
      BY <2>1, <2>2, <3>1, <3>2 DEF Base, TypeOK, Names, Undos, Types, plan
    <3>4. Plan'
      BY <3>1 DEF Plan, Ongoing
    <3> QED BY <3>3, <3>4 DEF Base
  <2>6. CASE ~(at[2] < Len(Task.ops)) /\ at[1] # Len(tasks)
    <3>1. phase' = "running" /\ at' = <<at[1] + 1, 1>> /\ tries' = 0
      BY <1>4, <2>6 DEF StatementDone
    <3>2. tries' \in 0..Retries
      BY <3>1, PublishAssumption
    <3>3. at' \in Nat \X Nat /\ at'[1] \in DOMAIN tasks' /\ at'[2] \in DOMAIN tasks'[at'[1]].ops
      BY <2>1, <2>3, <2>6, <3>1 DEF plan
    <3>4. TypeOK'
      BY <2>1, <2>2, <3>1, <3>2, <3>3 DEF Base, TypeOK, Names, Undos, Types, Task, plan
    <3>5. Plan'
      BY <2>1, <3>1, <3>3, SameRun DEF Base, Plan, Ongoing, Protected, plan
    <3> QED BY <3>4, <3>5 DEF Base
  <2> QED BY <2>4, <2>5, <2>6
<1>5. ASSUME StatementRefused
      PROVE  Base'
  <2>1. /\ phase = "running" /\ TaskFails(obj, undo, Current.do # "check")
        /\ UNCHANGED <<project, src, type, plan, client, disturbed, runs>>
    BY <1>5 DEF StatementRefused
  <2>2. obj \in [Names -> Datasets] /\ undo \in [Clients -> Undos] /\ disturbed' \in BOOLEAN
    BY <2>1 DEF Base, TypeOK, Names, Undos
  <2> QED BY <2>1, <2>2, FailBase
<1>6. ASSUME StatementLost
      PROVE  Base'
  <2>1. /\ phase = "running" /\ disturbed' \in BOOLEAN
        /\ TaskFails(obj, undo, TRUE) \/ TaskFails(Effect(Current), undo, TRUE)
        /\ UNCHANGED <<project, src, type, plan, client, runs>>
    BY <1>6 DEF StatementLost
  <2>2. obj \in [Names -> Datasets] /\ undo \in [Clients -> Undos]
    BY <2>1 DEF Base, TypeOK, Names, Undos
  <2>3. Effect(Current) \in [Names -> Datasets]
    BY <2>1, PlaceIs, EffectType DEF Base, Ongoing
  <2>4. CASE TaskFails(obj, undo, TRUE)
    BY <2>1, <2>2, <2>4, FailBase
  <2>5. CASE TaskFails(Effect(Current), undo, TRUE)
    BY <2>1, <2>2, <2>3, <2>5, FailBase
  <2> QED BY <2>1, <2>4, <2>5
<1>7. ASSUME Stop \/ Resume
      PROVE  Base'
  <2>1. /\ UNCHANGED <<project, src, type, obj, undo, plan, at, tries, disturbed, runs>>
        /\ client' \in Clients /\ Ongoing /\ phase' \in {"stopped", "running"} /\ MayStop
    BY <1>7 DEF Stop, Resume, warehouse, Base, TypeOK, Ongoing, Plan
  <2>2. TypeOK'
    BY <2>1 DEF Base, TypeOK, Plan, Types, Task, plan
  <2>3. Plan'
    BY <2>1, SameRun DEF Base, Plan, Ongoing, Protected, plan
  <2> QED BY <2>2, <2>3 DEF Base
<1>8. ASSUME UNCHANGED vars
      PROVE  Base'
  <2>1. UNCHANGED <<project, src, type, obj, undo, phase, plan, at, tries, client, disturbed, runs>>
    BY <1>8 DEF vars, plan
  <2>2. TypeOK'
    BY <2>1 DEF Base, TypeOK, Types, Task, plan
  <2>3. Plan'
    BY <2>1, SameRun DEF Base, Plan, Ongoing, Protected, plan
  <2> QED BY <2>2, <2>3 DEF Base
<1> QED BY <1>1, <1>2, <1>3, <1>4, <1>5, <1>6, <1>7, <1>8 DEF Next

LEMMA BaseInit == Init => Base
<1> SUFFICES ASSUME Init
             PROVE  Base
  OBVIOUS
<1>1. Absent \in Datasets
  BY DEF Absent, Datasets, Kinds
<1>2. TypeOK
  <2>1. src \in [Keys -> 0..MaxVersion] /\ tries \in 0..Retries /\ runs \in 0..MaxRuns
    BY PublishAssumption DEF Init
  <2>2. obj \in [{"target", "temp"} \cup Clients -> Datasets]
    BY <1>1 DEF Init
  <2>3. undo \in [Clients -> {<<>>} \cup {<<d>> : d \in Datasets}]
    BY DEF Init
  <2> QED BY <2>1, <2>2, <2>3 DEF Init, TypeOK, Kinds
<1>3. Plan
  BY DEF Init, Plan, Ongoing
<1> QED BY <1>2, <1>3 DEF Base
-----------------------------------------------------------------------------
(* How each adapter writes a dataset.                                      *)
Appending == Dataset /\ More /\ ~Merging
Replacing == Dataset /\ ~More /\ Warehouse \in {"bigquery", "snowflake"}
SqlDwView == type = "view" /\ Warehouse = "sqldatawarehouse"
Creating == Dataset /\ Warehouse = "presto"

LEMMA Ways ==
  ASSUME Base, Ongoing, Dataset
  PROVE  /\ Merging \/ Appending \/ Replacing \/ Rebuilding \/ PgView \/ SqlDwView \/ Creating
         /\ Merging => More /\ UniqueKey /\ PgFamily /\ type = "incremental" /\ found = "table" /\ ~Script
         /\ Appending => type = "incremental" /\ found = "table" /\ Warehouse # "presto"
         /\ More => found = "table" /\ type = "incremental" /\ ~refresh
         /\ Rebuilding => BaseTableType(type) = "table" /\ Warehouse # "presto" /\ ~More
         /\ PgView \/ SqlDwView => BaseTableType(type) = "view" /\ ~More
         /\ Creating => found = "none" /\ ~Dropping /\ ~More
         /\ More => ~Dropping
         /\ Warehouse = "presto" => Creating
         /\ Dropping => found # "none" /\ found # BaseTableType(type)
                        /\ OppositeTableType(BaseTableType(type)) = found
<1>1. Warehouse \in Warehouses /\ found \in Kinds /\ type \in DatasetTypes
  BY ProjectType DEF Base, TypeOK, Dataset
<1>2. Warehouse = "presto" => type # "incremental" /\ found = "none"
  BY DEF Base, Plan
<1>3. More => found = "table" /\ type = "incremental" /\ ~refresh
  BY <1>1 DEF More, ShouldWriteIncrementally, Kinds
<1>4. Merging \/ Appending \/ Replacing \/ Rebuilding \/ PgView \/ SqlDwView \/ Creating
  BY <1>1 DEF Appending, Replacing, Rebuilding, PgView, SqlDwView, Creating, PgFamily, Warehouses
<1>5. Dropping => found # "none" /\ found # BaseTableType(type)
                  /\ OppositeTableType(BaseTableType(type)) = found
  BY <1>1 DEF Dropping, BaseTableType, OppositeTableType, DatasetTypes, Kinds
<1>6. Merging => More /\ UniqueKey /\ PgFamily /\ ~Script
  BY DEF Merging, PgFamily, Script
<1>7. Rebuilding => BaseTableType(type) = "table" /\ Warehouse # "presto" /\ ~More
  BY <1>1 DEF Rebuilding, BaseTableType, DatasetTypes
<1>8. PgView \/ SqlDwView => BaseTableType(type) = "view" /\ ~More
  BY <1>3 DEF PgView, SqlDwView, BaseTableType
<1>9. Creating => found = "none" /\ ~Dropping /\ ~More
  BY <1>2, <1>3 DEF Creating, Dropping
<1>10. More => ~Dropping
  BY <1>3 DEF Dropping, BaseTableType
<1> QED BY <1>2, <1>3, <1>4, <1>5, <1>6, <1>7, <1>8, <1>9, <1>10 DEF Appending, Creating

LEMMA WritesAre ==
  ASSUME Base, Ongoing, Dataset
  PROVE  /\ Merging => Writes = RedshiftMergeInto
         /\ Appending => \/ /\ Writes = <<Op("insert", "target", "table")>>
                            /\ ~(UniqueKey /\ Warehouse # "sqldatawarehouse")
                         \/ Writes = <<Op("merge", "target", "table")>>
         /\ Replacing => Writes = <<Op("replace", "target", BaseTableType(type))>>
         /\ Rebuilding => Writes = <<Drop("temp", "table"), Op("create", "temp", "table"),
                                     Drop("target", "table"), Op("rename", "temp", "table")>>
         /\ PgView => Writes = <<Drop("target", "view"), Op("replace", "target", "view")>>
         /\ SqlDwView => Writes = <<Op(IF found # "none" THEN "alter" ELSE "create", "target", "view")>>
         /\ Creating => Writes = <<Op("createIfAbsent", "target", "table")>>
<1>1. Warehouse \in Warehouses
  BY ProjectType DEF Base, TypeOK
<1>2. Merging => Writes = RedshiftMergeInto
  BY DEF Merging, Writes, PgFamily
<1>3. Appending => Warehouse # "presto"
  BY Ways
<1>4. ASSUME Appending
      PROVE  \/ /\ Writes = <<Op("insert", "target", "table")>>
                /\ ~(UniqueKey /\ Warehouse # "sqldatawarehouse")
             \/ Writes = <<Op("merge", "target", "table")>>
  <2>1. CASE Warehouse \in {"bigquery", "snowflake"}
    <3>1. Writes = <<Op(IF UniqueKey THEN "merge" ELSE "insert", "target", "table")>>
      BY <1>4, <2>1 DEF Appending, Writes, PgFamily
    <3>2. CASE UniqueKey
      BY <3>1, <3>2
    <3>3. CASE ~UniqueKey
      BY <3>1, <3>3
    <3> QED BY <3>2, <3>3
  <2>2. CASE PgFamily
    BY <1>4, <2>2 DEF Appending, Merging, Writes, PgFamily
  <2>3. CASE Warehouse = "sqldatawarehouse"
    BY <1>4, <2>3 DEF Appending, Writes, PgFamily
  <2> QED BY <1>1, <1>3, <1>4, <2>1, <2>2, <2>3 DEF Warehouses, PgFamily
<1>5. Replacing => Writes = <<Op("replace", "target", BaseTableType(type))>>
  BY DEF Replacing, Writes, PgFamily
<1>6. Rebuilding => Writes = <<Drop("temp", "table"), Op("create", "temp", "table"),
                               Drop("target", "table"), Op("rename", "temp", "table")>>
  <2> SUFFICES ASSUME Rebuilding
               PROVE  Writes = <<Drop("temp", "table"), Op("create", "temp", "table"),
                                 Drop("target", "table"), Op("rename", "temp", "table")>>
    OBVIOUS
  <2>1. CASE PgFamily
    BY <2>1 DEF Rebuilding, Writes, PgFamily, RedshiftCreateOrReplace
  <2>2. CASE Warehouse = "sqldatawarehouse"
    BY <2>2 DEF Rebuilding, Writes, PgFamily, SqlDwCreateOrReplace
  <2> QED BY <2>1, <2>2 DEF Rebuilding, PgFamily
<1>7. PgView => Writes = <<Drop("target", "view"), Op("replace", "target", "view")>>
  BY Ways DEF PgView, Writes, PgFamily, RedshiftCreateOrReplace
<1>8. SqlDwView => Writes = <<Op(IF found # "none" THEN "alter" ELSE "create", "target", "view")>>
  <2> SUFFICES ASSUME SqlDwView
               PROVE  Writes = <<Op(IF found # "none" THEN "alter" ELSE "create", "target", "view")>>
    OBVIOUS
  <2>1. Writes = SqlDwCreateOrReplace(type, found # "none")
    BY Ways DEF SqlDwView, Writes, PgFamily
  <2>2. CASE found = "none"
    <3>1. (found # "none") = FALSE
      BY <2>2
    <3> QED BY <2>1, <3>1 DEF SqlDwCreateOrReplace, SqlDwView
  <2>3. CASE found # "none"
    <3>1. (found # "none") = TRUE
      BY <2>3
    <3> QED BY <2>1, <3>1 DEF SqlDwCreateOrReplace, SqlDwView
  <2> QED BY <2>2, <2>3
<1>9. Creating => Writes = <<Op("createIfAbsent", "target", "table")>>
  BY DEF Creating, Writes, PgFamily
<1> QED BY <1>2, <1>4, <1>5, <1>6, <1>7, <1>8, <1>9

(* The statement to be executed next.                                      *)
LEMMA StatementIs ==
  ASSUME Base, Ongoing, Dataset
  PROVE  /\ Written \in Int /\ Written <= Len(Writes) + 1
         /\ Written < 0 \/ Written = Len(Writes) + 1 => Current = User
         /\ Written = 0 => Current = IF Dropping THEN Drop("target", found) ELSE User
         /\ Merging => /\ Len(Writes) = 7
                       /\ Written = 1 => Current = Drop("session", "table")
                       /\ Written = 2 => Current = Op("create", "session", "table")
                       /\ Written = 3 => Current = Op("begin", "target", "none")
                       /\ Written = 4 => Current = Op("delete", "target", "table")
                       /\ Written = 5 => Current = Op("insertSession", "target", "table")
                       /\ Written = 6 => Current = Op("end", "target", "none")
                       /\ Written = 7 => Current = Op("dropExisting", "session", "table")
         /\ Appending => /\ Len(Writes) = 1
                         /\ Written = 1 =>
                              \/ /\ Current = Op("insert", "target", "table")
                                 /\ ~(UniqueKey /\ Warehouse # "sqldatawarehouse")
                              \/ Current = Op("merge", "target", "table")
         /\ Replacing => /\ Len(Writes) = 1
                         /\ Written = 1 => Current = Op("replace", "target", BaseTableType(type))
         /\ Rebuilding => /\ Len(Writes) = 4
                          /\ Written = 1 => Current = Drop("temp", "table")
                          /\ Written = 2 => Current = Op("create", "temp", "table")
                          /\ Written = 3 => Current = Drop("target", "table")
                          /\ Written = 4 => Current = Op("rename", "temp", "table")
         /\ PgView => /\ Len(Writes) = 2
                      /\ Written = 1 => Current = Drop("target", "view")
                      /\ Written = 2 => Current = Op("replace", "target", "view")
         /\ SqlDwView => /\ Len(Writes) = 1
                         /\ Written = 1 => Current = Op(IF found # "none" THEN "alter" ELSE "create",
                                                        "target", "view")
         /\ Creating => /\ Len(Writes) = 1
                        /\ Written = 1 => Current = Op("createIfAbsent", "target", "table")
<1>1. TypeOK /\ Plan
  BY DEF Base
<1>2. /\ Written \in Int /\ Written <= Len(Writes) + 1 /\ Written >= -1
      /\ Written = -1 => Dropping
      /\ Current = IF Written \in 1..Len(Writes) THEN Writes[Written]
                   ELSE IF Written = 0 /\ Dropping
                   THEN Drop("target", OppositeTableType(BaseTableType(type))) ELSE User
  BY <1>1, CurrentIs
<1>3. Len(Writes) \in Nat
  BY <1>1, LinesAre DEF TypeOK
<1>4. Written < 0 \/ Written = Len(Writes) + 1 => Current = User
  BY <1>2, <1>3
<1>5. Written = 0 => Current = IF Dropping THEN Drop("target", found) ELSE User
  BY <1>2, <1>3, Ways
<1>6. \A i \in 1..Len(Writes) : Written = i => Current = Writes[i]
  BY <1>2
<1>7. Merging => /\ Len(Writes) = 7
                 /\ Written = 1 => Current = Drop("session", "table")
                 /\ Written = 2 => Current = Op("create", "session", "table")
                 /\ Written = 3 => Current = Op("begin", "target", "none")
                 /\ Written = 4 => Current = Op("delete", "target", "table")
                 /\ Written = 5 => Current = Op("insertSession", "target", "table")
                 /\ Written = 6 => Current = Op("end", "target", "none")
                 /\ Written = 7 => Current = Op("dropExisting", "session", "table")
  <2>1. ASSUME Merging
        PROVE  /\ Len(Writes) = 7
               /\ Writes[1] = Drop("session", "table")
               /\ Writes[2] = Op("create", "session", "table")
               /\ Writes[3] = Op("begin", "target", "none")
               /\ Writes[4] = Op("delete", "target", "table")
               /\ Writes[5] = Op("insertSession", "target", "table")
               /\ Writes[6] = Op("end", "target", "none")
               /\ Writes[7] = Op("dropExisting", "session", "table")
    <3>1. Writes = RedshiftMergeInto
      BY <2>1, WritesAre
    <3> QED BY <3>1 DEF RedshiftMergeInto
  <2>2. ASSUME Merging
        PROVE  \A i \in 1..7 : Written = i => Current = Writes[i]
    BY <1>6, <2>1, <2>2
  <2> QED BY <2>1, <2>2
<1>8. Appending => /\ Len(Writes) = 1
                   /\ Written = 1 => \/ /\ Current = Op("insert", "target", "table")
                                        /\ ~(UniqueKey /\ Warehouse # "sqldatawarehouse")
                                     \/ Current = Op("merge", "target", "table")
  BY <1>6, WritesAre
<1>9. Replacing => /\ Len(Writes) = 1
                   /\ Written = 1 => Current = Op("replace", "target", BaseTableType(type))
  BY <1>6, WritesAre
<1>10. Rebuilding => /\ Len(Writes) = 4
                     /\ Written = 1 => Current = Drop("temp", "table")
                     /\ Written = 2 => Current = Op("create", "temp", "table")
                     /\ Written = 3 => Current = Drop("target", "table")
                     /\ Written = 4 => Current = Op("rename", "temp", "table")
  BY <1>6, WritesAre
<1>11. PgView => /\ Len(Writes) = 2
                 /\ Written = 1 => Current = Drop("target", "view")
                 /\ Written = 2 => Current = Op("replace", "target", "view")
  BY <1>6, WritesAre
<1>12. SqlDwView => /\ Len(Writes) = 1
                    /\ Written = 1 => Current = Op(IF found # "none" THEN "alter" ELSE "create",
                                                   "target", "view")
  BY <1>6, WritesAre
<1>13. Creating => /\ Len(Writes) = 1
                   /\ Written = 1 => Current = Op("createIfAbsent", "target", "table")
  BY <1>6, WritesAre
<1> QED BY <1>2, <1>4, <1>5, <1>7, <1>8, <1>9, <1>10, <1>11, <1>12, <1>13

(* Where a statement of a dataset leads.                                   *)
LEMMA Proceeds ==
  ASSUME Base, Dataset, StatementDone
  PROVE  /\ phase = "running" /\ UNCHANGED <<project, src, type, plan, client, disturbed>>
         /\ Execute(Current) /\ Runs(Current)
         /\ Written <= Len(Writes) => phase' = "running" /\ Written' = Written + 1
         /\ Written = Len(Writes) + 1 => phase' = "done"
<1>1. /\ phase = "running" /\ UNCHANGED <<project, src, type, plan, client, disturbed>>
      /\ Execute(Current) /\ Runs(Current)
  BY DEF StatementDone
<1>2. /\ Position \in 1..Len(Lines)
      /\ IF Script THEN at[1] = 1 /\ Len(tasks) = 1 /\ Len(Task.ops) = Len(Lines)
         ELSE at[2] = 1 /\ Len(tasks) = Len(Lines) /\ Len(Task.ops) = 1
  BY <1>1, CurrentIs DEF Base, Ongoing
<1>3. /\ Len(Lines) \in Nat /\ Len(Writes) \in Nat /\ Len(Lines) = Len(Writes) + (IF Dropping THEN 3 ELSE 2)
  BY LinesAre DEF Base, TypeOK
<1>4. IF Position < Len(Lines) THEN phase' = "running" /\ Position' = Position + 1 ELSE phase' = "done"
  <2>1. at \in Nat \X Nat /\ Script' = Script
    BY <1>1, SameRun, PlaceIs DEF Ongoing
  <2>2. CASE Script
    BY <1>1, <1>2, <1>3, <2>1, <2>2 DEF StatementDone, Position
  <2>3. CASE ~Script
    <3>1. Position = at[1] /\ Position' = at'[1] /\ ~(at[2] < Len(Task.ops))
      BY <1>2, <2>1, <2>3 DEF Position
    <3>2. at' = <<at[1] + 1, 1>> /\ phase' = IF at[1] = Len(tasks) THEN "done" ELSE "running"
      BY <3>1 DEF StatementDone
    <3> QED BY <1>2, <1>3, <2>3, <3>1, <3>2
  <2> QED BY <2>2, <2>3
<1>5. Position \in Int /\ Dropping' = Dropping
  BY <1>1, <1>2, <1>3, SameRun
<1>6. Position < Len(Lines) <=> Written <= Len(Writes)
  BY <1>2, <1>3, <1>5 DEF Written
<1>7. Position' = Position + 1 => Written' = Written + 1
  BY <1>5 DEF Written
<1>8. Written = Len(Writes) + 1 => ~(Written <= Len(Writes))
  BY <1>3
<1> QED BY <1>1, <1>4, <1>6, <1>7, <1>8

LEMMA Fails ==
  ASSUME Base, phase = "running", NEW o, NEW u, NEW again, TaskFails(o, u, again), UNCHANGED <<project, type, plan>>
  PROVE  \/ /\ phase' = "running" /\ ~PgFamily /\ obj' = o /\ undo' = u
            /\ Dataset => IF Script THEN Written' \in Int /\ Written' <= 0 ELSE Written' = Written
            /\ again /\ at' = <<at[1], 1>>
         \/ phase' = "failed" /\ PgFamily /\ CloseSession(o, u)
         \/ phase' = "failed" /\ ~PgFamily /\ obj' = o /\ undo' = u
<1>1. CASE again /\ ~PgFamily /\ tries < (IF Task.type = "operation" THEN 0 ELSE Retries)
  <2>1. obj' = o /\ undo' = u /\ at' = <<at[1], 1>> /\ phase' = "running"
    BY <1>1 DEF TaskFails
  <2>2. ASSUME Dataset
        PROVE  IF Script THEN Written' \in Int /\ Written' <= 0 ELSE Written' = Written
    <3>1. at \in Nat \X Nat
      BY PlaceIs DEF Ongoing
    <3>2. Script' = Script /\ Dropping' = Dropping
      BY SameRun
    <3> QED BY <2>1, <3>1, <3>2 DEF Written, Position
  <2> QED BY <1>1, <2>1, <2>2
<1>2. CASE ~(again /\ ~PgFamily /\ tries < (IF Task.type = "operation" THEN 0 ELSE Retries))
  BY <1>2 DEF TaskFails
<1> QED BY <1>1, <1>2

(* A run begins before the first statement that writes.                    *)
LEMMA Begins ==
  ASSUME NEW full, Build(full)
  PROVE  /\ Written' \in Int /\ Written' <= 0 /\ phase' = "running" /\ disturbed' = FALSE /\ found' = Metadata
         /\ at' = <<1, 1>> /\ UNCHANGED <<project, src, type, obj, undo>> /\ phase # "running"
BY DEF Build, Written, Position, warehouse
-----------------------------------------------------------------------------
(* Stopped merges may be resumed in another session, without their         *)
(* temporary table; and the assertions have a schema of their own, where a *)
(* dataset never has the name of one.                                      *)
MergesAreNotStopped ==
  \A p \in Projects :
    p.mayStop /\ p.uniqueKey /\ p.warehouse \in {"postgres", "redshift"} => "incremental" \notin p.types

LEMMA NotMerging ==
  ASSUME MergesAreNotStopped, Base, MayStop
  PROVE  ~Merging
<1>1. project \in Projects /\ type \in project.types
  BY DEF Base, TypeOK, Types
<1> QED BY <1>1, Ways DEF MergesAreNotStopped, MayStop, UniqueKey, PgFamily, Warehouse, Merging, More

LEMMA SameWritten ==
  ASSUME UNCHANGED <<project, type, plan, at>>
  PROVE  Written' = Written /\ Position' = Position
<1>1. Script' = Script /\ Dropping' = Dropping /\ at' = at
  BY SameRun
<1>2. Position' = Position
  BY <1>1 DEF Position
<1> QED BY <1>1, <1>2 DEF Written

LEMMA CurrentApart ==
  ASSUME Base, Ongoing
  PROVE  /\ Current.on # "target" => Current.kind = "table"
         /\ Current.do = "begin" <=> Merging /\ Written = 3
         /\ Current.do = "end" <=> Merging /\ Written = 6
         /\ Current.do = "insertSession" => Merging /\ Written = 5 /\ Current.on = "target"
         /\ Current.do = "insert" => ~(UniqueKey /\ Warehouse # "sqldatawarehouse")
<1>1. CASE Dataset
  <2>1. Written \in Int /\ Written <= Len(Writes) + 1
    BY <1>1, StatementIs
  <2>2. User.do = "user" /\ User.on = "target"
    BY DEF User, Op
  <2>3. \A on, kind : Drop(on, kind).do = "drop" /\ Drop(on, kind).on = on /\ Drop(on, kind).kind = kind
    BY DEF Drop, Op
  <2>4. \A do, on, kind : Op(do, on, kind).do = do /\ Op(do, on, kind).on = on /\ Op(do, on, kind).kind = kind
    BY DEF Op
  <2>5. CASE Written < 0 \/ Written = Len(Writes) + 1
    <3>1. Current = User /\ ~(Merging /\ Written \in {3, 6})
      <4>1. Merging => Len(Writes) = 7
        BY <1>1, StatementIs
      <4> QED BY <1>1, <2>1, <2>5, <4>1, StatementIs
    <3> QED BY <2>2, <3>1
  <2>6. CASE Written = 0
    <3>1. Current = IF Dropping THEN Drop("target", found) ELSE User
      BY <1>1, <2>6, StatementIs
    <3> QED BY <2>2, <2>3, <2>6, <3>1
  <2>7. CASE Written >= 1 /\ Written <= Len(Writes)
    <3>1. CASE Merging
      <4>1. Written \in {1, 2, 3, 4, 5, 6, 7}
        <5>1. Len(Writes) = 7
          BY <1>1, <3>1, StatementIs
        <5> QED BY <2>1, <2>7, <5>1
      <4>2. /\ Written = 1 => Current = Drop("session", "table")
            /\ Written = 2 => Current = Op("create", "session", "table")
            /\ Written = 3 => Current = Op("begin", "target", "none")
            /\ Written = 4 => Current = Op("delete", "target", "table")
            /\ Written = 5 => Current = Op("insertSession", "target", "table")
            /\ Written = 6 => Current = Op("end", "target", "none")
            /\ Written = 7 => Current = Op("dropExisting", "session", "table")
        BY <1>1, <3>1, StatementIs
      <4> QED BY <2>3, <2>4, <3>1, <4>1, <4>2
    <3>2. CASE Rebuilding
      <4>1. ~Merging /\ Written \in {1, 2, 3, 4}
        <5>1. Len(Writes) = 4
          BY <1>1, <3>2, StatementIs
        <5> QED BY <1>1, <2>1, <2>7, <3>2, <5>1, Ways
      <4>2. /\ Written = 1 => Current = Drop("temp", "table")
            /\ Written = 2 => Current = Op("create", "temp", "table")
            /\ Written = 3 => Current = Drop("target", "table")
            /\ Written = 4 => Current = Op("rename", "temp", "table")
        BY <1>1, <3>2, StatementIs
      <4> QED BY <2>3, <2>4, <4>1, <4>2
    <3>3. CASE PgView
      <4>1. ~Merging /\ Written \in {1, 2}
        <5>1. Len(Writes) = 2
          BY <1>1, <3>3, StatementIs
        <5> QED BY <1>1, <2>1, <2>7, <3>3, <5>1, Ways
      <4>2. /\ Written = 1 => Current = Drop("target", "view")
            /\ Written = 2 => Current = Op("replace", "target", "view")
        BY <1>1, <3>3, StatementIs
      <4> QED BY <2>3, <2>4, <4>1, <4>2
    <3>4. CASE Appending \/ Replacing \/ SqlDwView \/ Creating
      <4>1. ~Merging /\ Written = 1
        <5>1. Len(Writes) = 1
          BY <1>1, <3>4, StatementIs
        <5>2. ~Merging
          BY <1>1, <3>4, Ways DEF Appending, Replacing
        <5> QED BY <2>1, <2>7, <5>1, <5>2
      <4>2. /\ Current.on = "target" /\ Current.do \notin {"begin", "end", "insertSession"}
            /\ Current.do = "insert" => ~(UniqueKey /\ Warehouse # "sqldatawarehouse")
        <5>1. CASE Appending
          BY <1>1, <2>4, <4>1, <5>1, StatementIs
        <5>2. CASE Replacing
          BY <1>1, <2>4, <4>1, <5>2, StatementIs
        <5>3. CASE SqlDwView
          BY <1>1, <2>4, <4>1, <5>3, StatementIs
        <5>4. CASE Creating
          BY <1>1, <2>4, <4>1, <5>4, StatementIs
        <5> QED BY <3>4, <5>1, <5>2, <5>3, <5>4
      <4> QED BY <4>1, <4>2
    <3> QED BY <1>1, <3>1, <3>2, <3>3, <3>4, Ways
  <2> QED BY <2>1, <2>5, <2>6, <2>7
<1>2. CASE type = "assertion"
  <2>1. ~Merging
    BY <1>2 DEF Merging, Dataset, DatasetTypes
  <2>2. Current \in {Drop("target", "view"), Op("create", "target", "view"),
                     Op("replace", "target", "view"), Op("check", "target", "none")}
    <3>1. CASE DropsFirst
      BY <1>2, <3>1, AssertionIs DEF Base
    <3>2. CASE ~DropsFirst
      BY <1>2, <3>2, AssertionIs DEF Base
    <3> QED BY <3>1, <3>2
  <2> QED BY <2>1, <2>2 DEF Drop, Op
<1>3. CASE type = "operation"
  <2>1. ~Merging /\ Current = User
    BY <1>3, OperationIs DEF Base, Merging, Dataset, DatasetTypes
  <2> QED BY <2>1 DEF User, Op
<1> QED BY <1>1, <1>2, <1>3, Kind DEF Base

LEMMA EffectApart ==
  ASSUME Base, Apart, NEW op \in OpSet, op.on # "target" => op.kind = "table", NEW n, n = Name(op), NEW e, e = Effect(op)
  PROVE  e["temp"].kind \in {"none", "table"} /\ \A c \in Clients : e[c].kind \in {"none", "table"}
<1>1. TypeOK /\ n \in Names /\ "target" \notin Clients /\ "temp" \notin Clients /\ client \in Clients
  BY NameType, PublishAssumption DEF Base, TypeOK
<1>2. Absent.kind = "none"
  BY DEF Absent
<1>3. op.on = "target" => n = "target"
  BY DEF Name
<1>4. op.on # "target" => n = "temp" \/ n \in Clients
  BY <1>1 DEF Name, OpSet
<1>5. CASE op.do = "rename"
  <2>1. /\ \A m \in Names \ {"target", "temp"} : e[m] = obj[m]
        /\ e["temp"] = Absent
    BY <1>1, <1>5, EffectAt
  <2> QED BY <1>1, <1>2, <2>1 DEF Apart, Names
<1>6. CASE op.do # "rename"
  <2>1. \A m \in Names \ {n} : e[m] = obj[m]
    BY <1>1, <1>6, EffectAt
  <2>2. CASE n = "target"
    BY <1>1, <2>1, <2>2 DEF Apart, Names
  <2>3. CASE n # "target"
    <3>1. op.kind = "table" /\ obj[n].kind \in {"none", "table"}
      BY <1>3, <1>4, <2>3 DEF Apart
    <3>2. e[n].kind \in {"none", "table"}
      <4>1. CASE op.do \in {"user", "begin", "end", "check"}
        <5>1. e = obj
          BY <1>1, <4>1, EffectIs
        <5> QED BY <3>1, <5>1
      <4>2. CASE op.do \in {"drop", "dropExisting"}
        <5>1. e[n] = IF obj[n].kind = op.kind THEN Absent ELSE obj[n]
          BY <1>1, <4>2, EffectAt
        <5> QED BY <1>2, <3>1, <5>1
      <4>3. CASE op.do \in {"create", "replace", "alter"}
        <5>1. e[n] = Made(op)
          BY <1>1, <4>3, EffectAt
        <5> QED BY <1>1, <3>1, <5>1, MadeType
      <4>4. CASE op.do = "createIfAbsent"
        <5>1. e[n] = IF obj[n].kind = "none" THEN Made(op) ELSE obj[n]
          BY <1>1, <4>4, EffectAt
        <5> QED BY <1>1, <3>1, <5>1, MadeType
      <4>5. CASE op.do \in {"insert", "merge", "delete", "insertSession"}
        <5>1. e[n].kind = obj[n].kind
          BY <1>1, <4>5, EffectAt
        <5> QED BY <3>1, <5>1
      <4> QED BY <1>6, <4>1, <4>2, <4>3, <4>4, <4>5 DEF OpSet, Deeds
    <3> QED BY <1>1, <2>1, <3>2 DEF Apart, Names
  <2> QED BY <2>2, <2>3
<1> QED BY <1>5, <1>6

LEMMA CloseApart ==
  ASSUME Base, NEW o \in [Names -> Datasets], NEW u \in [Clients -> Undos], CloseSession(o, u)
  PROVE  /\ \A m \in Names \ {"target", client} : obj'[m] = o[m]
         /\ obj'[client] = Absent
         /\ obj'["target"] = IF u[client] # <<>> THEN u[client][1] ELSE o["target"]
         /\ undo'[client] = <<>> /\ \A c \in Clients \ {client} : undo'[c] = u[c]
<1>1. client \in Clients /\ client \in Names /\ "target" \in Names /\ client # "target"
  BY PublishAssumption DEF Base, TypeOK, Names
<1>2. PICK p : p = (IF u[client] # <<>> THEN [o EXCEPT !["target"] = u[client][1]] ELSE o)
  OBVIOUS
<1>3. obj' = [p EXCEPT ![client] = Absent] /\ undo' = [u EXCEPT ![client] = <<>>]
  BY <1>2 DEF CloseSession
<1>4. /\ DOMAIN p = Names /\ \A m \in Names \ {"target"} : p[m] = o[m]
      /\ p["target"] = IF u[client] # <<>> THEN u[client][1] ELSE o["target"]
  BY <1>1, <1>2
<1> QED BY <1>1, <1>3, <1>4

Sessions == Base /\ Transactions /\ Apart

LEMMA ClientIs ==
  ASSUME Base
  PROVE  /\ client \in Clients /\ client \in Names /\ "target" \in Names /\ "temp" \in Names
         /\ client # "target" /\ client # "temp" /\ Clients \subseteq Names
         /\ "target" \notin Clients /\ "temp" \notin Clients
         /\ obj \in [Names -> Datasets] /\ undo \in [Clients -> Undos]
BY PublishAssumption DEF Base, TypeOK, Names, Undos

LEMMA FailSessions ==
  ASSUME Sessions, phase = "running", NEW o \in [Names -> Datasets], NEW again, TaskFails(o, undo, again),
         o["temp"].kind \in {"none", "table"}, \A c \in Clients : o[c].kind \in {"none", "table"},
         UNCHANGED <<project, type, plan, client>>
  PROVE  Transactions' /\ Apart' /\ (phase' = "failed" => \A c \in Clients : undo'[c] = <<>>)
<1>1. Base /\ Transactions /\ Merging' = Merging
  BY SameRun DEF Sessions
<1>2. CASE PgFamily
  <2>1. phase' = "failed" /\ CloseSession(o, undo)
    BY <1>1, <1>2, Fails
  <2>2. undo \in [Clients -> Undos]
    BY <1>1, ClientIs
  <2>3. /\ \A m \in Names \ {"target", client} : obj'[m] = o[m]
        /\ obj'[client] = Absent
        /\ undo'[client] = <<>> /\ \A c \in Clients \ {client} : undo'[c] = undo[c]
    BY <1>1, <2>1, <2>2, CloseApart
  <2>4. \A c \in Clients : undo'[c] = <<>>
    BY <1>1, <2>3 DEF Transactions
  <2>5. Transactions'
    BY <2>1, <2>4 DEF Transactions
  <2>6. Apart'
    BY <1>1, <2>3, ClientIs DEF Apart, Absent
  <2> QED BY <2>4, <2>5, <2>6
<1>3. CASE ~PgFamily
  <2>1. obj' = o /\ undo' = undo /\ ~Merging
    BY <1>1, <1>3, Fails DEF Merging
  <2>2. \A c \in Clients : undo[c] = <<>>
    BY <1>1, <2>1 DEF Transactions
  <2>3. Transactions'
    BY <1>1, <2>1, <2>2 DEF Transactions
  <2> QED BY <2>1, <2>2, <2>3 DEF Apart
<1> QED BY <1>2, <1>3

LEMMA SessionsNext == (MayStop => MergesAreNotStopped) /\ Sessions /\ [Next]_vars => Sessions'
<1> SUFFICES ASSUME MayStop => MergesAreNotStopped, Sessions, [Next]_vars
             PROVE  Transactions' /\ Apart'
  BY BaseNext DEF Sessions
<1>1. Base /\ Transactions /\ Apart
  BY DEF Sessions
<1>2. ASSUME UNCHANGED <<project, type, obj, undo, phase, plan, at, client>>
      PROVE  Transactions' /\ Apart'
  <2>1. Written' = Written /\ Merging' = Merging
    BY <1>2, SameRun, SameWritten
  <2> QED BY <1>1, <1>2, <2>1 DEF Transactions, Apart
<1>3. ASSUME NEW k \in Keys, SourceChanges(k)
      PROVE  Transactions' /\ Apart'
  BY <1>2, <1>3 DEF SourceChanges, warehouse
<1>4. ASSUME NEW t \in Types, Retype(t)
      PROVE  Transactions' /\ Apart'
  <2>1. UNCHANGED <<obj, undo, phase>> /\ phase # "running"
    BY <1>4 DEF Retype, warehouse
  <2> QED BY <1>1, <2>1 DEF Transactions, Apart
<1>5. ASSUME NEW full \in BOOLEAN, Build(full)
      PROVE  Transactions' /\ Apart'
  <2>1. Written' <= 0 /\ UNCHANGED <<obj, undo>> /\ phase # "running"
    BY <1>5, Begins
  <2>2. Written' \notin 4..6
    BY <2>1
  <2> QED BY <1>1, <2>1, <2>2 DEF Transactions, Apart
<1>6. ASSUME StatementDone
      PROVE  Transactions' /\ Apart'
  <2>1. /\ phase = "running" /\ Execute(Current) /\ UNCHANGED <<project, src, type, plan, client, disturbed>>
    BY <1>6 DEF StatementDone
  <2>2. /\ Current \in OpSet /\ (Current.on # "target" => Current.kind = "table")
        /\ Current.do = "begin" <=> Merging /\ Written = 3
        /\ Current.do = "end" <=> Merging /\ Written = 6
    BY <1>1, <2>1, CurrentApart, PlaceIs DEF Ongoing
  <2>3. Apart'
    <3>1. obj' = Effect(Current)
      BY <2>1 DEF Execute
    <3> QED BY <1>1, <2>2, <3>1, EffectApart DEF Apart
  <2>4. /\ undo \in [Clients -> Undos] /\ client \in Clients
    BY <1>1, ClientIs
  <2>5. CASE Merging
    <3>1. Dataset /\ Len(Writes) = 7 /\ Written \in Int /\ Written <= 8 /\ Merging' = Merging
      <4>1. Dataset /\ Ongoing
        BY <2>1, <2>5 DEF Merging, Ongoing
      <4>2. Len(Writes) = 7 /\ Written \in Int /\ Written <= Len(Writes) + 1
        BY <1>1, <2>5, <4>1, StatementIs
      <4>3. Merging' = Merging
        BY <2>1, SameRun
      <4> QED BY <4>1, <4>2, <4>3
    <3>2. /\ Written <= 7 => phase' = "running" /\ Written' = Written + 1
          /\ Written = 8 => phase' = "done"
      BY <1>1, <1>6, <3>1, Proceeds
    <3>3. CASE Written = 3
      <4>1. undo[client] = <<>>
        BY <1>1, <2>4, <3>3 DEF Transactions
      <4>2. undo' = [undo EXCEPT ![client] = <<obj["target"]>>]
        BY <2>1, <2>2, <2>5, <3>3, <4>1 DEF Execute
      <4>3. undo'[client] # <<>> /\ \A c \in Clients \ {client} : undo'[c] = undo[c]
        BY <2>4, <4>2
      <4> QED BY <1>1, <2>1, <2>3, <2>5, <3>1, <3>2, <3>3, <4>3 DEF Transactions
    <3>4. CASE Written = 6
      <4>1. undo' = [undo EXCEPT ![client] = <<>>]
        BY <2>1, <2>2, <2>5, <3>4 DEF Execute
      <4>2. undo'[client] = <<>> /\ \A c \in Clients \ {client} : undo'[c] = undo[c]
        BY <2>4, <4>1
      <4> QED BY <1>1, <2>1, <2>3, <2>5, <3>1, <3>2, <3>4, <4>2 DEF Transactions
    <3>5. CASE Written \notin {3, 6}
      <4>1. undo' = undo
        BY <2>1, <2>2, <3>5 DEF Execute
      <4>2. phase' = "running" /\ Written' \in 4..6 <=> Written \in 4..6
        BY <3>1, <3>2, <3>5
      <4> QED BY <1>1, <2>1, <2>3, <2>5, <3>1, <4>1, <4>2 DEF Transactions
    <3> QED BY <3>3, <3>4, <3>5
  <2>6. CASE ~Merging
    <3>1. undo' = undo /\ ~Merging'
      BY <2>1, <2>2, <2>6, SameRun DEF Execute
    <3> QED BY <1>1, <2>3, <2>6, <3>1 DEF Transactions
  <2> QED BY <2>5, <2>6
<1>7. ASSUME StatementRefused
      PROVE  Transactions' /\ Apart'
  <2>1. /\ phase = "running" /\ TaskFails(obj, undo, Current.do # "check")
        /\ UNCHANGED <<project, src, type, plan, client>>
    BY <1>7 DEF StatementRefused
  <2>2. /\ obj \in [Names -> Datasets] /\ obj["temp"].kind \in {"none", "table"}
        /\ \A c \in Clients : obj[c].kind \in {"none", "table"}
    BY <1>1, ClientIs DEF Apart
  <2> QED BY <2>1, <2>2, FailSessions
<1>8. ASSUME StatementLost
      PROVE  Transactions' /\ Apart'
  <2>1. /\ phase = "running" /\ UNCHANGED <<project, src, type, plan, client>>
        /\ TaskFails(obj, undo, TRUE) \/ TaskFails(Effect(Current), undo, TRUE)
    BY <1>8 DEF StatementLost
  <2>2. /\ obj \in [Names -> Datasets] /\ obj["temp"].kind \in {"none", "table"}
        /\ \A c \in Clients : obj[c].kind \in {"none", "table"}
    BY <1>1, ClientIs DEF Apart
  <2>3. Current \in OpSet /\ (Current.on # "target" => Current.kind = "table")
    BY <1>1, <2>1, CurrentApart, PlaceIs DEF Ongoing
  <2>4. PICK e : e = Effect(Current)
    OBVIOUS
  <2>5. /\ e \in [Names -> Datasets] /\ e["temp"].kind \in {"none", "table"}
        /\ \A c \in Clients : e[c].kind \in {"none", "table"}
    BY <1>1, <2>3, <2>4, EffectApart, EffectType DEF Base
  <2>6. CASE TaskFails(obj, undo, TRUE)
    BY <2>1, <2>2, <2>6, FailSessions
  <2>7. CASE TaskFails(e, undo, TRUE)
    BY <2>1, <2>5, <2>7, FailSessions
  <2> QED BY <2>1, <2>4, <2>6, <2>7
<1>9. ASSUME Stop \/ Resume
      PROVE  Transactions' /\ Apart'
  <2>1. /\ UNCHANGED <<project, type, obj, undo, plan>> /\ MayStop
    BY <1>1, <1>9 DEF Stop, Resume, warehouse, Base, Plan
  <2>2. ~Merging /\ ~Merging'
    BY <1>1, <2>1, NotMerging, SameRun
  <2> QED BY <1>1, <2>1, <2>2 DEF Transactions, Apart
<1>10. ASSUME UNCHANGED vars
       PROVE  Transactions' /\ Apart'
  BY <1>2, <1>10 DEF vars, plan
<1> QED BY <1>3, <1>4, <1>5, <1>6, <1>7, <1>8, <1>9, <1>10 DEF Next

LEMMA SessionsInit == Init => Sessions
<1> SUFFICES ASSUME Init
             PROVE  Transactions /\ Apart
  BY BaseInit DEF Sessions
<1> QED BY DEF Init, Transactions, Apart, Absent

(* What other sessions see.                                                *)
LEMMA SeenNow ==
  ASSUME Sessions
  PROVE  Committed = IF phase = "running" /\ Merging /\ Written \in 4..6 THEN undo[client][1] ELSE obj["target"]
<1>1. Committed = Seen(obj, undo) /\ client \in Clients
  BY CommittedIs, ClientIs DEF Sessions
<1>2. CASE phase = "running" /\ Merging /\ Written \in 4..6
  <2>1. undo[client] # <<>> /\ \A c \in Clients \ {client} : undo[c] = <<>>
    BY <1>1, <1>2 DEF Sessions, Transactions
  <2>2. Seen(obj, undo) = undo[client][1]
    BY <1>1, <2>1, SeenIs
  <2> QED BY <1>1, <1>2, <2>2
<1>3. CASE ~(phase = "running" /\ Merging /\ Written \in 4..6)
  <2>1. \A c \in Clients : undo[c] = <<>>
    BY <1>3 DEF Sessions, Transactions
  <2>2. Seen(obj, undo) = obj["target"]
    BY <2>1, SeenIs
  <2> QED BY <1>1, <1>3, <2>2
<1> QED BY <1>2, <1>3

LEMMA SeenNext ==
  (Sessions =>
     Committed = IF phase = "running" /\ Merging /\ Written \in 4..6 THEN undo[client][1] ELSE obj["target"])'
BY SeenNow, PTL
-----------------------------------------------------------------------------
(* Undisturbed runs.                                                       *)
SqlDwHasNoViews == \A p \in Projects : p.warehouse = "sqldatawarehouse" => "view" \notin p.types
AssertionsAreApart == \A p \in Projects : "assertion" \in p.types => p.types = {"assertion"}

LEMMA NoSqlDwView ==
  ASSUME SqlDwHasNoViews, Base
  PROVE  ~SqlDwView
<1>1. project \in Projects /\ type \in project.types
  BY DEF Base, TypeOK, Types
<1> QED BY <1>1 DEF SqlDwHasNoViews, SqlDwView, Warehouse

LEMMA RunsWhen ==
  ASSUME NEW do, NEW on, NEW kind
  PROVE  LET op == Op(do, on, kind) IN
         /\ Name(op) = IF on = "session" THEN client ELSE on
         /\ op.do = do /\ op.on = on /\ op.kind = kind
         /\ do \in {"user", "begin", "end", "createIfAbsent"} => Runs(op)
         /\ do = "drop" => (Runs(op) <=> \/ obj[Name(op)].kind \in {"none", kind}
                                         \/ Warehouse = "sqldatawarehouse" /\ kind = "table")
         /\ do = "dropExisting" => (Runs(op) <=> obj[Name(op)].kind = kind)
         /\ do = "create" => (Runs(op) <=> obj[Name(op)].kind = "none")
         /\ do = "replace" => (Runs(op) <=> obj[Name(op)].kind \in {"none", kind})
         /\ do = "rename" => (Runs(op) <=> obj[Name(op)].kind = "table" /\ obj["target"].kind = "none")
         /\ do \in {"insert", "merge"} => (Runs(op) <=> obj[Name(op)].kind = "table")
         /\ do \in {"delete", "insertSession"} =>
              (Runs(op) <=> obj[Name(op)].kind = "table" /\ obj[client].kind = "table")
         /\ do = "check" => (Runs(op) <=> obj[Name(op)].kind = "view" /\ \A r \in Full : r[2] \notin Bad)
<1> DEFINE op == Op(do, on, kind)
<1>1. op.do = do /\ op.on = on /\ op.kind = kind
  BY DEF Op
<1>2. Name(op) = IF on = "session" THEN client ELSE on
  BY <1>1 DEF Name
<1> HIDE DEF op
<1>3. do \in {"user", "begin", "end", "createIfAbsent"} => Runs(op)
  BY <1>1 DEF Runs
<1>4. do = "drop" => (Runs(op) <=> \/ obj[Name(op)].kind \in {"none", kind}
                                   \/ Warehouse = "sqldatawarehouse" /\ kind = "table")
  BY <1>1 DEF Runs
<1>5. do = "dropExisting" => (Runs(op) <=> obj[Name(op)].kind = kind)
  BY <1>1 DEF Runs
<1>6. do = "create" => (Runs(op) <=> obj[Name(op)].kind = "none")
  BY <1>1 DEF Runs
<1>7. do = "replace" => (Runs(op) <=> obj[Name(op)].kind \in {"none", kind})
  BY <1>1 DEF Runs
<1>8. do = "rename" => (Runs(op) <=> obj[Name(op)].kind = "table" /\ obj["target"].kind = "none")
  BY <1>1 DEF Runs
<1>9. do \in {"insert", "merge"} => (Runs(op) <=> obj[Name(op)].kind = "table")
  BY <1>1 DEF Runs
<1>10. do \in {"delete", "insertSession"} =>
         (Runs(op) <=> obj[Name(op)].kind = "table" /\ obj[client].kind = "table")
  BY <1>1 DEF Runs
<1>11. do = "check" => (Runs(op) <=> obj[Name(op)].kind = "view" /\ \A r \in Full : r[2] \notin Bad)
  BY <1>1 DEF Runs
<1> QED BY <1>1, <1>2, <1>3, <1>4, <1>5, <1>6, <1>7, <1>8, <1>9, <1>10, <1>11 DEF op

(* No statement of an undisturbed dataset is refused.                      *)
LEMMA NothingRefused ==
  ASSUME SqlDwHasNoViews, Sessions, Prepared, phase = "running", ~disturbed, Dataset
  PROVE  Runs(Current)
<1>1. Base /\ Ongoing /\ ~SqlDwView /\ Apart /\ client \in Clients
  BY NoSqlDwView, ClientIs DEF Sessions, Ongoing
<1>2. Written \in Int /\ Written <= Len(Writes) + 1
  BY <1>1, StatementIs
<1>3. User = Op("user", "target", "none") /\ \A on, kind : Drop(on, kind) = Op("drop", on, kind)
  BY DEF User, Drop
<1>4. CASE Written < 0 \/ Written = Len(Writes) + 1
  <2>1. Current = Op("user", "target", "none")
    BY <1>1, <1>3, <1>4, StatementIs
  <2> QED BY <2>1, RunsWhen
<1>5. CASE Written = 0
  <2>1. Current = IF Dropping THEN Op("drop", "target", found) ELSE Op("user", "target", "none")
    BY <1>1, <1>3, <1>5, StatementIs
  <2>2. Dropping => obj["target"].kind = found
    BY <1>1, <1>5, Ways DEF Prepared
  <2> QED BY <2>1, <2>2, RunsWhen
<1>6. CASE Written >= 1 /\ Written <= Len(Writes)
  <2>1. CASE Merging
    <3>1. Written \in {1, 2, 3, 4, 5, 6, 7} /\ Warehouse # "presto"
      <4>1. Len(Writes) = 7
        BY <1>1, <2>1, StatementIs
      <4> QED BY <1>1, <1>2, <1>6, <2>1, <4>1 DEF Merging, PgFamily
    <3>2. /\ Written = 1 => Current = Op("drop", "session", "table")
          /\ Written = 2 => Current = Op("create", "session", "table")
          /\ Written = 3 => Current = Op("begin", "target", "none")
          /\ Written = 4 => Current = Op("delete", "target", "table")
          /\ Written = 5 => Current = Op("insertSession", "target", "table")
          /\ Written = 6 => Current = Op("end", "target", "none")
          /\ Written = 7 => Current = Op("dropExisting", "session", "table")
      BY <1>1, <1>3, <2>1, StatementIs
    <3>3. /\ Written \in 2..7 => obj["target"].kind = "table"
          /\ Written = 2 => obj[client].kind = "none"
          /\ Written \in 3..7 => obj[client].kind = "table"
          /\ obj[client].kind \in {"none", "table"}
      BY <1>1, <2>1, <3>1 DEF Prepared, Apart
    <3>4. CASE Written \in {1, 2, 3}
      BY <3>2, <3>3, <3>4, RunsWhen
    <3>5. CASE Written \in {4, 5}
      BY <3>2, <3>3, <3>5, RunsWhen
    <3>6. CASE Written \in {6, 7}
      BY <3>2, <3>3, <3>6, RunsWhen
    <3> QED BY <3>1, <3>4, <3>5, <3>6
  <2>2. CASE Rebuilding
    <3>1. Written \in {1, 2, 3, 4} /\ Warehouse # "presto"
      <4>1. Len(Writes) = 4
        BY <1>1, <2>2, StatementIs
      <4> QED BY <1>1, <1>2, <1>6, <2>2, <4>1 DEF Rebuilding
    <3>2. /\ Written = 1 => Current = Op("drop", "temp", "table")
          /\ Written = 2 => Current = Op("create", "temp", "table")
          /\ Written = 3 => Current = Op("drop", "target", "table")
          /\ Written = 4 => Current = Op("rename", "temp", "table")
      BY <1>1, <1>3, <2>2, StatementIs
    <3>3. /\ Written = 2 => obj["temp"].kind = "none"
          /\ Written \in {2, 3} => obj["target"].kind \in {"none", "table"}
          /\ Written \in {3, 4} => obj["temp"].kind = "table"
          /\ Written = 4 => obj["target"].kind = "none"
          /\ obj["temp"].kind \in {"none", "table"}
      BY <1>1, <2>2, <3>1 DEF Prepared, Apart
    <3>4. CASE Written \in {1, 2}
      BY <3>2, <3>3, <3>4, RunsWhen
    <3>5. CASE Written \in {3, 4}
      BY <3>2, <3>3, <3>5, RunsWhen
    <3> QED BY <3>1, <3>4, <3>5
  <2>3. CASE PgView
    <3>1. Written \in {1, 2} /\ Warehouse # "presto"
      <4>1. Len(Writes) = 2
        BY <1>1, <2>3, StatementIs
      <4> QED BY <1>1, <1>2, <1>6, <2>3, <4>1 DEF PgView, PgFamily
    <3>2. /\ Written = 1 => Current = Op("drop", "target", "view")
          /\ Written = 2 => Current = Op("replace", "target", "view")
      BY <1>1, <1>3, <2>3, StatementIs
    <3>3. /\ Written = 1 => obj["target"].kind \in {"none", "view"}
          /\ Written = 2 => obj["target"].kind = "none"
      BY <1>1, <2>3, <3>1, Ways DEF Prepared
    <3> QED BY <3>1, <3>2, <3>3, RunsWhen
  <2>4. CASE Appending
    <3>1. Written = 1 /\ Warehouse # "presto"
      <4>1. Len(Writes) = 1
        BY <1>1, <2>4, StatementIs
      <4> QED BY <1>1, <1>2, <1>6, <2>4, <4>1, Ways
    <3>2. Current = Op("insert", "target", "table") \/ Current = Op("merge", "target", "table")
      BY <1>1, <2>4, <3>1, StatementIs
    <3>3. obj["target"].kind = "table"
      BY <1>1, <2>4, <3>1 DEF Prepared, Appending
    <3> QED BY <3>2, <3>3, RunsWhen
  <2>5. CASE Replacing
    <3>1. Written = 1 /\ Warehouse # "presto"
      <4>1. Len(Writes) = 1
        BY <1>1, <2>5, StatementIs
      <4> QED BY <1>1, <1>2, <1>6, <2>5, <4>1 DEF Replacing
    <3>2. Current = Op("replace", "target", BaseTableType(type))
      BY <1>1, <2>5, <3>1, StatementIs
    <3>3. obj["target"].kind \in {"none", BaseTableType(type)}
      BY <1>1, <2>5, <3>1 DEF Prepared, Replacing
    <3> QED BY <3>2, <3>3, RunsWhen
  <2>6. CASE Creating
    <3>1. Written = 1
      <4>1. Len(Writes) = 1
        BY <1>1, <2>6, StatementIs
      <4> QED BY <1>2, <1>6, <4>1
    <3>2. Current = Op("createIfAbsent", "target", "table")
      BY <1>1, <2>6, <3>1, StatementIs
    <3> QED BY <3>2, RunsWhen
  <2> QED BY <1>1, <2>1, <2>2, <2>3, <2>4, <2>5, <2>6, Ways
<1> QED BY <1>2, <1>4, <1>5, <1>6

LEMMA EffectWhen ==
  ASSUME Base, NEW do, NEW on, NEW kind, Op(do, on, kind) \in OpSet, NEW e, e = Effect(Op(do, on, kind)),
         NEW n, n = IF on = "session" THEN client ELSE on
  PROVE  /\ do # "rename" => \A m \in Names \ {n} : e[m] = obj[m]
         /\ do = "rename" => /\ \A m \in Names \ {"target", "temp"} : e[m] = obj[m]
                             /\ e["target"] = obj[n] /\ e["temp"] = Absent
         /\ do \in {"user", "begin", "end", "check"} => e = obj
         /\ do \in {"drop", "dropExisting"} => e[n] = IF obj[n].kind = kind THEN Absent ELSE obj[n]
         /\ do \in {"create", "replace", "alter"} =>
              /\ e[n].kind = kind
              /\ kind = "view" => e[n].rows = {}
              /\ kind = "table" /\ on # "session" => e[n] = [kind |-> "table", rows |-> Full]
              /\ kind = "table" /\ on = "session" => e[n] = [kind |-> "table", rows |-> NewRows]
         /\ do \in {"insert", "merge", "delete", "insertSession"} => e[n].kind = obj[n].kind
         /\ do = "createIfAbsent" => e[n] = obj[n] \/ e[n] = [kind |-> kind, rows |-> IF kind = "view" THEN {} ELSE
                                                               IF on = "session" THEN NewRows ELSE Full]
         /\ do = "insert" => e[n].rows = obj[n].rows \cup NewRows
         /\ do = "merge" => e[n].rows = Updated(obj[n].rows, NewRows) \cup NewRows
         /\ do = "delete" => e[n].rows = Updated(obj[n].rows, obj[client].rows)
         /\ do = "insertSession" => e[n].rows = obj[n].rows \cup obj[client].rows
<1>1. PICK op \in OpSet : op = Op(do, on, kind)
  OBVIOUS
<1>2. op.do = do /\ op.on = on /\ op.kind = kind /\ Name(op) = n /\ e = Effect(op) /\ TypeOK
  BY <1>1 DEF Op, Name, Base
<1>3. /\ do # "rename" => \A m \in Names \ {n} : e[m] = obj[m]
      /\ do = "rename" => /\ \A m \in Names \ {"target", "temp"} : e[m] = obj[m]
                          /\ e["target"] = obj[n] /\ e["temp"] = Absent
      /\ do \in {"user", "begin", "end", "check"} => e = obj
      /\ do \in {"drop", "dropExisting"} => e[n] = IF obj[n].kind = kind THEN Absent ELSE obj[n]
      /\ do \in {"create", "replace", "alter"} => e[n] = Made(op)
      /\ do = "createIfAbsent" => e[n] = IF obj[n].kind = "none" THEN Made(op) ELSE obj[n]
  BY <1>2, EffectAt
<1>4. /\ do \in {"insert", "merge", "delete", "insertSession"} => e[n].kind = obj[n].kind
      /\ do = "insert" => e[n].rows = obj[n].rows \cup NewRows
      /\ do = "merge" => e[n].rows = Updated(obj[n].rows, NewRows) \cup NewRows
      /\ do = "delete" => e[n].rows = Updated(obj[n].rows, obj[client].rows)
      /\ do = "insertSession" => e[n].rows = obj[n].rows \cup obj[client].rows
  BY <1>2, EffectAt
<1>5. Made(op) = [kind |-> kind, rows |-> IF kind = "view" THEN {} ELSE IF on = "session" THEN NewRows ELSE Full]
  BY <1>2 DEF Made
<1>6. do \in {"create", "replace", "alter"} =>
        /\ e[n].kind = kind
        /\ kind = "view" => e[n].rows = {}
        /\ kind = "table" /\ on # "session" => e[n] = [kind |-> "table", rows |-> Full]
        /\ kind = "table" /\ on = "session" => e[n] = [kind |-> "table", rows |-> NewRows]
  BY <1>3, <1>5
<1>7. do = "createIfAbsent" => e[n] = obj[n] \/ e[n] = Made(op)
  BY <1>3
<1> QED BY <1>3, <1>4, <1>5, <1>6, <1>7

LEMMA NoEffect ==
  ASSUME NEW do \in {"user", "begin", "end", "check"}, NEW on, NEW kind
  PROVE  Effect(Op(do, on, kind)) = obj
<1>1. Op(do, on, kind).do = do
  BY DEF Op
<1> QED BY <1>1 DEF Effect

LEMMA DropEffect ==
  ASSUME Base, NEW do \in {"drop", "dropExisting"}, NEW on, NEW kind, Op(do, on, kind) \in OpSet,
         NEW n, n = IF on = "session" THEN client ELSE on, NEW e, e = Effect(Op(do, on, kind))
  PROVE  /\ e[n] = IF obj[n].kind = kind THEN Absent ELSE obj[n]
         /\ \A m \in Names \ {n} : e[m] = obj[m]
<1>1. PICK op \in OpSet : op = Op(do, on, kind)
  OBVIOUS
<1>2. op.do = do /\ op.on = on /\ op.kind = kind /\ Name(op) = n /\ e = Effect(op) /\ TypeOK
  BY <1>1 DEF Op, Name, Base
<1> QED BY <1>2, EffectAt

LEMMA MakeEffect ==
  ASSUME Base, NEW do \in {"create", "replace", "alter"}, NEW on, NEW kind, Op(do, on, kind) \in OpSet,
         NEW n, n = IF on = "session" THEN client ELSE on, NEW e, e = Effect(Op(do, on, kind))
  PROVE  e[n].kind = kind /\ \A m \in Names \ {n} : e[m] = obj[m]
<1>1. PICK op \in OpSet : op = Op(do, on, kind)
  OBVIOUS
<1>2. op.do = do /\ op.on = on /\ op.kind = kind /\ Name(op) = n /\ e = Effect(op) /\ TypeOK
  BY <1>1 DEF Op, Name, Base
<1> QED BY <1>2, EffectAt, MadeType

(* Each prepares what the next one needs.                                  *)
LEMMA Prepares ==
  ASSUME SqlDwHasNoViews, Sessions, Prepared, ~disturbed, Dataset, Warehouse # "presto", StatementDone
  PROVE  Prepared'
<1>1. /\ Base /\ phase = "running" /\ Ongoing /\ ~SqlDwView /\ Apart /\ client \in Clients /\ client \in Names
      /\ client # "target" /\ client # "temp" /\ "target" \in Names /\ "temp" \in Names
  BY NoSqlDwView, ClientIs DEF Sessions, StatementDone, Ongoing
<1>2. /\ UNCHANGED <<project, type, plan, client, disturbed>> /\ Current \in OpSet
      /\ Written <= Len(Writes) => phase' = "running" /\ Written' = Written + 1
      /\ Written = Len(Writes) + 1 => phase' = "done"
      /\ obj' = Effect(Current)
  BY <1>1, Proceeds, PlaceIs DEF Execute
<1>3. /\ Merging' = Merging /\ Rebuilding' = Rebuilding /\ PgView' = PgView /\ More' = More
      /\ found' = found /\ type' = type /\ client' = client
  BY <1>2, SameRun DEF plan
<1>4. Written \in Int /\ Written <= Len(Writes) + 1
  BY <1>1, StatementIs
<1>5. User = Op("user", "target", "none") /\ \A on, kind : Drop(on, kind) = Op("drop", on, kind)
  BY DEF User, Drop
<1>6. Absent.kind = "none"
  BY DEF Absent
<1>7. /\ Written <= 0 => obj["target"].kind = found
      /\ Written = 1 => obj["target"].kind \in (IF More THEN {"table"} ELSE {"none", BaseTableType(type)})
      /\ PgView /\ Written = 2 => obj["target"].kind = "none"
      /\ Rebuilding => /\ Written = 2 => obj["temp"].kind = "none"
                       /\ Written \in {2, 3} => obj["target"].kind \in {"none", "table"}
                       /\ Written \in {3, 4} => obj["temp"].kind = "table"
                       /\ Written = 4 => obj["target"].kind = "none"
      /\ Merging => /\ Written \in 2..7 => obj["target"].kind = "table"
                    /\ Written = 2 => obj[client].kind = "none"
                    /\ Written \in 3..7 => obj[client].kind = "table"
  BY <1>1 DEF Prepared
<1>8. CASE Written = Len(Writes) + 1
  BY <1>2, <1>8 DEF Prepared, Ongoing
<1>9. CASE Written < 0
  <2>1. Current = Op("user", "target", "none")
    BY <1>1, <1>5, <1>9, StatementIs
  <2>2. obj' = obj
    BY <1>2, <2>1, NoEffect
  <2>3. Written' <= 0
    <3>1. Written < Len(Writes) + 1
      <4>1. Len(Writes) \in Nat
        BY <1>1, LinesAre DEF Base, TypeOK
      <4> QED BY <1>4, <1>9, <4>1
    <3>2. Written' = Written + 1
      BY <1>2, <1>4, <1>9, <3>1, LinesAre DEF Base, TypeOK
    <3> QED BY <1>4, <1>9, <3>2
  <2>4. ~(Written' = 1) /\ ~(Written' = 2) /\ Written' \notin {2, 3} /\ Written' \notin {3, 4}
        /\ ~(Written' = 4) /\ Written' \notin 2..7 /\ Written' \notin 3..7
    BY <2>3
  <2>5. obj'["target"].kind = found'
    BY <1>3, <1>4, <1>7, <1>9, <2>2
  <2> QED BY <2>4, <2>5 DEF Prepared
<1>10. CASE Written = 0
  <2>1. Written' = 1
    <3>1. Len(Writes) \in Nat
      BY <1>1, LinesAre DEF Base, TypeOK
    <3> QED BY <1>2, <1>10, <3>1
  <2>2. CASE Dropping
    <3>1. Current = Op("drop", "target", found)
      BY <1>1, <1>5, <1>10, <2>2, StatementIs
    <3>2. obj'["target"] = Absent
      BY <1>1, <1>2, <1>7, <1>10, <3>1, DropEffect
    <3> QED BY <1>1, <1>3, <1>6, <2>1, <2>2, <3>2, Ways DEF Prepared
  <2>3. CASE ~Dropping
    <3>1. Current = Op("user", "target", "none")
      BY <1>1, <1>5, <1>10, <2>3, StatementIs
    <3>2. obj' = obj
      BY <1>2, <3>1, NoEffect
    <3>3. found \in {"none", BaseTableType(type)} /\ (More => found = "table")
      BY <1>1, <2>3, Ways DEF Dropping
    <3> QED BY <1>3, <1>7, <1>10, <2>1, <3>2, <3>3 DEF Prepared
  <2> QED BY <2>2, <2>3
<1>11. CASE Written >= 1 /\ Written <= Len(Writes)
  <2>0. phase' = "running" /\ Written' = Written + 1
    BY <1>2, <1>11
  <2>1. CASE Merging
    <3>1. Written \in {1, 2, 3, 4, 5, 6, 7} /\ ~Rebuilding /\ ~PgView
      <4>1. Len(Writes) = 7
        BY <1>1, <2>1, StatementIs
      <4> QED BY <1>1, <1>4, <1>11, <2>1, <4>1, Ways
    <3>2. /\ Written = 1 => Current = Op("drop", "session", "table")
          /\ Written = 2 => Current = Op("create", "session", "table")
          /\ Written = 3 => Current = Op("begin", "target", "none")
          /\ Written = 4 => Current = Op("delete", "target", "table")
          /\ Written = 5 => Current = Op("insertSession", "target", "table")
          /\ Written = 6 => Current = Op("end", "target", "none")
          /\ Written = 7 => Current = Op("dropExisting", "session", "table")
      BY <1>1, <1>5, <2>1, StatementIs
    <3>3. obj["target"].kind = "table"
      BY <1>1, <1>7, <2>1, <3>1, Ways
    <3>4. obj'["target"].kind = "table"
      <4>1. CASE Written \in {1, 2, 7}
        <5>1. Current.do # "rename" /\ obj'["target"] = obj["target"]
          BY <1>1, <1>2, <3>2, <4>1, EffectWhen DEF Op
        <5> QED BY <3>3, <5>1
      <4>2. CASE Written \in {3, 6}
        <5>1. obj' = obj
          BY <1>2, <3>2, <4>2, NoEffect
        <5> QED BY <3>3, <5>1
      <4>3. CASE Written \in {4, 5}
        BY <1>1, <1>2, <3>2, <3>3, <4>3, EffectWhen
      <4> QED BY <3>1, <4>1, <4>2, <4>3
    <3>5. CASE Written = 1
      <4>1. obj'[client].kind = "none"
        <5>1. obj'[client] = IF obj[client].kind = "table" THEN Absent ELSE obj[client]
          BY <1>1, <1>2, <3>2, <3>5, EffectWhen
        <5> QED BY <1>1, <1>6, <5>1 DEF Apart
      <4> QED BY <1>3, <2>0, <2>1, <3>1, <3>4, <3>5, <4>1 DEF Prepared
    <3>6. CASE Written \in {2, 3, 4, 5, 6}
      <4>1. obj'[client].kind = "table"
        <5>1. CASE Written = 2
          BY <1>1, <1>2, <3>2, <5>1, EffectWhen
        <5>2. CASE Written \in {3, 6}
          <6>1. obj' = obj
            BY <1>2, <3>2, <5>2, NoEffect
          <6> QED BY <1>7, <2>1, <5>2, <6>1
        <5>3. CASE Written \in {4, 5}
          <6>1. obj'[client] = obj[client]
            BY <1>1, <1>2, <3>2, <5>3, EffectWhen
          <6> QED BY <1>7, <2>1, <5>3, <6>1
        <5> QED BY <3>6, <5>1, <5>2, <5>3
      <4> QED BY <1>3, <2>0, <2>1, <3>1, <3>4, <3>6, <4>1 DEF Prepared
    <3>7. CASE Written = 7
      BY <1>3, <2>0, <2>1, <3>1, <3>7 DEF Prepared
    <3> QED BY <3>1, <3>5, <3>6, <3>7
  <2>2. CASE Rebuilding
    <3>1. Written \in {1, 2, 3, 4} /\ ~Merging /\ ~PgView /\ BaseTableType(type) = "table" /\ ~More
      <4>1. Len(Writes) = 4
        BY <1>1, <2>2, StatementIs
      <4> QED BY <1>1, <1>4, <1>11, <2>2, <4>1, Ways DEF PgView, Rebuilding
    <3>2. /\ Written = 1 => Current = Op("drop", "temp", "table")
          /\ Written = 2 => Current = Op("create", "temp", "table")
          /\ Written = 3 => Current = Op("drop", "target", "table")
          /\ Written = 4 => Current = Op("rename", "temp", "table")
      BY <1>1, <1>5, <2>2, StatementIs
    <3>3. CASE Written = 1
      <4>1. obj'["temp"] = IF obj["temp"].kind = "table" THEN Absent ELSE obj["temp"]
        BY <1>1, <1>2, <3>2, <3>3, EffectWhen
      <4>2. obj'["target"] = obj["target"]
        BY <1>1, <1>2, <3>2, <3>3, EffectWhen
      <4>3. obj'["temp"].kind = "none" /\ obj'["target"].kind \in {"none", "table"}
        BY <1>1, <1>6, <1>7, <3>1, <3>3, <4>1, <4>2 DEF Apart
      <4> QED BY <1>3, <2>0, <3>1, <3>3, <4>3 DEF Prepared
    <3>4. CASE Written = 2
      <4>1. obj'["temp"].kind = "table"
        BY <1>1, <1>2, <3>2, <3>4, EffectWhen
      <4>2. obj'["target"] = obj["target"]
        BY <1>1, <1>2, <3>2, <3>4, EffectWhen
      <4> QED BY <1>3, <1>7, <2>0, <2>2, <3>1, <3>4, <4>1, <4>2 DEF Prepared
    <3>5. CASE Written = 3
      <4>1. obj'["target"] = IF obj["target"].kind = "table" THEN Absent ELSE obj["target"]
        BY <1>1, <1>2, <3>2, <3>5, EffectWhen
      <4>2. obj'["temp"] = obj["temp"]
        BY <1>1, <1>2, <3>2, <3>5, EffectWhen
      <4>3. obj'["temp"].kind = "table" /\ obj'["target"].kind = "none"
        BY <1>6, <1>7, <2>2, <3>5, <4>1, <4>2
      <4> QED BY <1>3, <2>0, <3>1, <3>5, <4>3 DEF Prepared
    <3>6. CASE Written = 4
      BY <1>3, <2>0, <2>2, <3>1, <3>6 DEF Prepared
    <3> QED BY <3>1, <3>3, <3>4, <3>5, <3>6
  <2>3. CASE PgView
    <3>1. Written \in {1, 2} /\ ~Merging /\ ~Rebuilding /\ BaseTableType(type) = "view" /\ ~More
      <4>1. Len(Writes) = 2
        BY <1>1, <2>3, StatementIs
      <4> QED BY <1>1, <1>4, <1>11, <2>3, <4>1, Ways DEF PgView, Rebuilding
    <3>2. Written = 1 => Current = Op("drop", "target", "view")
      BY <1>1, <1>5, <2>3, StatementIs
    <3>3. CASE Written = 1
      <4>1. obj'["target"] = IF obj["target"].kind = "view" THEN Absent ELSE obj["target"]
        BY <1>1, <1>2, <3>2, <3>3, DropEffect
      <4>2. obj'["target"].kind = "none"
        BY <1>6, <1>7, <3>1, <3>3, <4>1
      <4> QED BY <1>3, <2>0, <3>1, <3>3, <4>2 DEF Prepared
    <3>4. CASE Written = 2
      BY <1>3, <2>0, <3>1, <3>4 DEF Prepared
    <3> QED BY <3>1, <3>3, <3>4
  <2>4. CASE Appending \/ Replacing
    <3>1. Written = 1 /\ ~Merging /\ ~Rebuilding /\ ~PgView
      <4>1. Len(Writes) = 1
        BY <1>1, <2>4, StatementIs
      <4> QED BY <1>1, <1>4, <1>11, <2>4, <4>1, Ways DEF PgView, Rebuilding, Appending, Replacing, PgFamily
    <3> QED BY <1>3, <2>0, <3>1 DEF Prepared
  <2> QED BY <1>1, <2>1, <2>2, <2>3, <2>4, Ways DEF Creating
<1> QED BY <1>4, <1>8, <1>9, <1>10, <1>11

Sound == Sessions /\ Prepared /\ UndisturbedRunsSucceed

LEMMA SoundNext ==
  MergesAreNotStopped /\ SqlDwHasNoViews /\ AssertionsAreApart /\ Sound /\ [Next]_vars => Sound'
<1> SUFFICES ASSUME MergesAreNotStopped, SqlDwHasNoViews, AssertionsAreApart, Sound, [Next]_vars
             PROVE  Prepared' /\ UndisturbedRunsSucceed'
  BY SessionsNext DEF Sound
<1>1. Base /\ Sessions /\ Prepared /\ UndisturbedRunsSucceed /\ client \in Clients
  BY ClientIs DEF Sound, Sessions
<1>2. ASSUME UNCHANGED <<project, type, obj, phase, plan, at, disturbed>>, client' = client \/ ~Merging
      PROVE  Prepared'
  <2>1. /\ Written' = Written /\ Merging' = Merging /\ Rebuilding' = Rebuilding /\ PgView' = PgView
        /\ More' = More /\ Dataset' = Dataset /\ Warehouse' = Warehouse /\ found' = found
    BY <1>2, SameRun, SameWritten DEF plan
  <2> QED BY <1>1, <1>2, <2>1 DEF Prepared, Ongoing
<1>3. ASSUME UNCHANGED <<type, phase, disturbed>>
      PROVE  UndisturbedRunsSucceed'
  BY <1>1, <1>3 DEF UndisturbedRunsSucceed
<1>4. ASSUME NEW k \in Keys, SourceChanges(k)
      PROVE  Prepared' /\ UndisturbedRunsSucceed'
  BY <1>2, <1>3, <1>4 DEF SourceChanges, warehouse
<1>5. ASSUME NEW t \in Types, Retype(t)
      PROVE  Prepared' /\ UndisturbedRunsSucceed'
  <2>1. UNCHANGED <<phase, disturbed>> /\ phase \notin {"running", "stopped"} /\ t # type
    BY <1>5 DEF Retype
  <2>2. phase = "failed" => disturbed
    <3>1. project \in Projects /\ type \in project.types /\ t \in project.types
      BY <1>1, <1>5 DEF Base, TypeOK, Types
    <3>2. type # "assertion"
      BY <2>1, <3>1 DEF AssertionsAreApart
    <3> QED BY <1>1, <3>2 DEF UndisturbedRunsSucceed
  <2> QED BY <2>1, <2>2 DEF Prepared, Ongoing, UndisturbedRunsSucceed
<1>6. ASSUME NEW full \in BOOLEAN, Build(full)
      PROVE  Prepared' /\ UndisturbedRunsSucceed'
  <2>1. /\ Written' <= 0 /\ phase' = "running" /\ found' = Metadata /\ UNCHANGED <<project, obj>>
        /\ phase # "running"
    BY <1>6, Begins
  <2>2. Warehouse # "presto" => found' = obj'["target"].kind
    BY <1>1, <2>1, SeenNow DEF Metadata
  <2>3. ~(Written' = 1) /\ ~(Written' = 2) /\ Written' \notin {2, 3} /\ Written' \notin {3, 4}
        /\ ~(Written' = 4) /\ Written' \notin 2..7 /\ Written' \notin 3..7
    BY <2>1
  <2>4. Warehouse' = Warehouse
    BY <2>1 DEF Warehouse
  <2> QED BY <2>1, <2>2, <2>3, <2>4 DEF Prepared, UndisturbedRunsSucceed
<1>7. ASSUME StatementDone
      PROVE  Prepared' /\ UndisturbedRunsSucceed'
  <2>1. UNCHANGED <<project, type, plan, disturbed>> /\ phase' \in {"running", "done"}
    BY <1>7 DEF StatementDone
  <2>2. Dataset' = Dataset /\ Warehouse' = Warehouse
    BY <2>1, SameRun
  <2>3. CASE ~disturbed /\ Dataset /\ Warehouse # "presto"
    BY <1>1, <1>7, <2>1, <2>3, Prepares DEF UndisturbedRunsSucceed
  <2>4. CASE ~(~disturbed /\ Dataset /\ Warehouse # "presto")
    BY <2>1, <2>2, <2>4 DEF Prepared, UndisturbedRunsSucceed
  <2> QED BY <2>3, <2>4
<1>8. ASSUME StatementRefused
      PROVE  Prepared' /\ UndisturbedRunsSucceed'
  <2>1. /\ phase = "running" /\ ~Runs(Current) /\ Ongoing
        /\ UNCHANGED <<project, type, plan, disturbed>>
    BY <1>8 DEF StatementRefused, Ongoing
  <2>2. CASE disturbed
    BY <2>1, <2>2 DEF Prepared, UndisturbedRunsSucceed
  <2>3. CASE ~disturbed
    <3>1. ~Dataset
      BY <1>1, <2>1, <2>3, NothingRefused
    <3>2. type # "operation"
      <4>1. type = "operation" => Current = Op("user", "target", "none")
        BY <1>1, <2>1, OperationIs DEF Base, User
      <4> QED BY <2>1, <4>1, RunsWhen
    <3>3. type = "assertion"
      BY <1>1, <3>1, <3>2, Kind DEF Base
    <3> QED BY <2>1, <3>1, <3>3, SameRun DEF Prepared, UndisturbedRunsSucceed
  <2> QED BY <2>2, <2>3
<1>9. ASSUME StatementLost
      PROVE  Prepared' /\ UndisturbedRunsSucceed'
  BY <1>9 DEF StatementLost, Prepared, UndisturbedRunsSucceed
<1>10. ASSUME Stop \/ Resume
       PROVE  Prepared' /\ UndisturbedRunsSucceed'
  <2>1. /\ UNCHANGED <<project, type, obj, plan, at, disturbed>> /\ MayStop /\ Ongoing
        /\ phase' \in {"running", "stopped"}
    BY <1>1, <1>10 DEF Stop, Resume, warehouse, Base, Plan, Ongoing
  <2>2. ~Merging
    BY <1>1, <2>1, NotMerging
  <2>3. /\ Written' = Written /\ Merging' = Merging /\ Rebuilding' = Rebuilding /\ PgView' = PgView
        /\ More' = More /\ Dataset' = Dataset /\ Warehouse' = Warehouse /\ found' = found
    BY <2>1, SameRun, SameWritten DEF plan
  <2> QED BY <1>1, <2>1, <2>2, <2>3 DEF Prepared, Ongoing, UndisturbedRunsSucceed
<1>11. ASSUME UNCHANGED vars
       PROVE  Prepared' /\ UndisturbedRunsSucceed'
  BY <1>2, <1>3, <1>11 DEF vars, plan
<1> QED BY <1>4, <1>5, <1>6, <1>7, <1>8, <1>9, <1>10, <1>11 DEF Next

(* An action whose statements are not lost succeeds, or is an assertion:   *)
(* for every project whose merges are not stopped, and in which a dataset  *)
(* is no view of SQL Data Warehouse and shares no name with an assertion.  *)
THEOREM UndisturbedRunsDo ==
  ASSUME MergesAreNotStopped, SqlDwHasNoViews, AssertionsAreApart
  PROVE  Spec => []UndisturbedRunsSucceed
<1>1. Init => Sound
  BY SessionsInit DEF Sound, Init, Prepared, Ongoing, UndisturbedRunsSucceed
<1>2. Sound /\ [Next]_vars => Sound'
  BY SoundNext
<1>3. Sound => UndisturbedRunsSucceed
  BY DEF Sound
<1> QED BY <1>1, <1>2, <1>3, PTL DEF Spec
-----------------------------------------------------------------------------
(* Assertions.                                                             *)
LEMMA AssertionStatement ==
  ASSUME Base, Ongoing, type = "assertion"
  PROVE  /\ at \in Nat \X Nat /\ Current \in OpSet
         /\ IF DropsFirst
            THEN /\ at[1] \in 1..3 /\ Len(tasks) = 3
                 /\ at[1] = 1 => Current = Op("drop", "target", "view")
                 /\ at[1] = 2 => \/ Current = Op("create", "target", "view")
                                 \/ Current = Op("replace", "target", "view")
                 /\ at[1] = 3 => Current = Op("check", "target", "none")
            ELSE /\ at[1] \in 1..2 /\ Len(tasks) = 2
                 /\ at[1] = 1 => Current = Op("replace", "target", "view")
                 /\ at[1] = 2 => Current = Op("check", "target", "none")
         /\ at[2] = 1 /\ Len(Task.ops) = 1
<1>1. CASE DropsFirst
  BY <1>1, AssertionIs, PlaceIs DEF Base, Drop
<1>2. CASE ~DropsFirst
  BY <1>2, AssertionIs, PlaceIs DEF Base
<1> QED BY <1>1, <1>2

LEMMA AssertionEffect ==
  ASSUME Base, Ongoing, type = "assertion", obj["target"].kind \in {"none", "view"}, NEW e, e = Effect(Current)
  PROVE  /\ e["target"].kind \in {"none", "view"}
         /\ Current.do \in {"create", "replace"} => e["target"].kind = "view"
         /\ Current.do = "drop" => e["target"].kind = "none"
         /\ Current.do = "check" => e = obj
<1>1. Current \in OpSet
  BY AssertionStatement
<1>2. \/ Current = Op("drop", "target", "view") \/ Current = Op("create", "target", "view")
      \/ Current = Op("replace", "target", "view") \/ Current = Op("check", "target", "none")
  <2>1. CASE DropsFirst
    BY <2>1, AssertionStatement
  <2>2. CASE ~DropsFirst
    BY <2>2, AssertionStatement
  <2> QED BY <2>1, <2>2
<1>3. \A do, on, kind : Op(do, on, kind).do = do
  BY DEF Op
<1>4. Absent.kind = "none"
  BY DEF Absent
<1>5. CASE Current = Op("drop", "target", "view")
  <2>1. e["target"] = IF obj["target"].kind = "view" THEN Absent ELSE obj["target"]
    BY <1>1, <1>5, DropEffect
  <2> QED BY <1>3, <1>4, <1>5, <2>1
<1>6. CASE Current = Op("create", "target", "view") \/ Current = Op("replace", "target", "view")
  <2>1. e["target"].kind = "view"
    <3>1. CASE Current = Op("create", "target", "view")
      BY <1>1, <3>1, MakeEffect
    <3>2. CASE Current = Op("replace", "target", "view")
      BY <1>1, <3>2, MakeEffect
    <3> QED BY <1>6, <3>1, <3>2
  <2> QED BY <1>3, <1>6, <2>1
<1>7. CASE Current = Op("check", "target", "none")
  <2>1. e = obj
    BY <1>7, NoEffect
  <2> QED BY <1>3, <1>7, <2>1
<1> QED BY <1>2, <1>5, <1>6, <1>7

LEMMA AssertionFails ==
  ASSUME Base, phase = "running", type = "assertion", \A c \in Clients : undo[c] = <<>>,
         NEW o \in [Names -> Datasets], o["target"].kind \in {"none", "view"}, NEW again,
         TaskFails(o, undo, again), UNCHANGED <<project, type, plan>>
  PROVE  /\ obj'["target"] = o["target"] /\ \A c \in Clients : undo'[c] = <<>>
         /\ phase' = "failed" \/ (phase' = "running" /\ at' = <<at[1], 1>>)
<1>1. client \in Clients /\ undo \in [Clients -> Undos]
  BY ClientIs
<1>2. CASE CloseSession(o, undo) /\ phase' = "failed"
  BY <1>1, <1>2, CloseApart
<1>3. CASE obj' = o /\ undo' = undo /\ phase' = "failed"
  BY <1>3
<1>4. CASE obj' = o /\ undo' = undo /\ phase' = "running" /\ at' = <<at[1], 1>>
  BY <1>4
<1> QED BY <1>2, <1>3, <1>4, Fails

LEMMA AssertionNext ==
  ASSUME AssertionsAreApart, Base, AssertionPrepared, [Next]_vars
  PROVE  AssertionPrepared'
<1>1. ASSUME UNCHANGED <<project, type, obj, undo, plan, at, disturbed>>, Ongoing' => Ongoing
      PROVE  AssertionPrepared'
  <2>1. DropsFirst' = DropsFirst
    BY <1>1, SameRun
  <2> QED BY <1>1, <2>1 DEF AssertionPrepared
<1>2. ASSUME NEW k \in Keys, SourceChanges(k)
      PROVE  AssertionPrepared'
  BY <1>1, <1>2 DEF SourceChanges, warehouse, Ongoing
<1>3. ASSUME NEW t \in Types, Retype(t)
      PROVE  AssertionPrepared'
  <2>1. project \in Projects /\ type \in project.types /\ t \in project.types /\ type' = t /\ t # type
    BY <1>3 DEF Base, TypeOK, Types, Retype
  <2>2. type' # "assertion"
    BY <2>1 DEF AssertionsAreApart
  <2> QED BY <2>2 DEF AssertionPrepared
<1>4. ASSUME NEW full \in BOOLEAN, Build(full)
      PROVE  AssertionPrepared'
  <2>1. at' = <<1, 1>> /\ UNCHANGED <<project, type, obj, undo>>
    BY <1>4, Begins
  <2> QED BY <2>1 DEF AssertionPrepared, DropsFirst, Warehouse
<1>5. ASSUME phase = "running", UNCHANGED <<project, type, plan>>, type = "assertion",
             Execute(Current), StatementDone
      PROVE  AssertionPrepared'
  <2>1. /\ Ongoing /\ obj["target"].kind \in {"none", "view"} /\ \A c \in Clients : undo[c] = <<>>
    BY <1>5 DEF AssertionPrepared, Ongoing
  <2>2. PICK e : e = Effect(Current)
    OBVIOUS
  <2>3. /\ e["target"].kind \in {"none", "view"}
        /\ Current.do \in {"create", "replace"} => e["target"].kind = "view"
        /\ Current.do = "drop" => e["target"].kind = "none"
        /\ Current.do = "check" => e = obj
    BY <1>5, <2>1, <2>2, AssertionEffect
  <2>4. Current.do \notin {"begin", "end"}
    <3>1. ~Merging
      BY <1>5 DEF Merging, Dataset, DatasetTypes
    <3> QED BY <2>1, <3>1, CurrentApart
  <2>5. obj' = e /\ undo' = undo
    BY <1>5, <2>2, <2>4 DEF Execute
  <2>6. DropsFirst' = DropsFirst
    BY <1>5, SameRun
  <2>7. \A do, on, kind : Op(do, on, kind).do = do
    BY DEF Op
  <2>8. phase' = "running" => at'[1] = at[1] + 1
    <3>1. at[2] = 1 /\ Len(Task.ops) = 1
      BY <1>5, <2>1, AssertionStatement
    <3> QED BY <1>5, <3>1 DEF StatementDone
  <2>9. phase' \in {"running", "done"}
    BY <1>5 DEF StatementDone
  <2>10. CASE DropsFirst
    <3>1. at[1] \in 1..3 /\ at[1] = 1 => Current.do = "drop"
      BY <1>5, <2>1, <2>7, <2>10, AssertionStatement
    <3>2. at[1] = 2 => Current.do \in {"create", "replace"}
      BY <1>5, <2>1, <2>7, <2>10, AssertionStatement
    <3>3. at[1] \in 1..3
      BY <1>5, <2>1, <2>10, AssertionStatement
    <3> QED BY <2>1, <2>3, <2>5, <2>6, <2>8, <2>9, <2>10, <3>1, <3>2, <3>3 DEF AssertionPrepared, Ongoing
  <2>11. CASE ~DropsFirst
    <3>1. at[1] = 1 => Current.do = "replace"
      BY <1>5, <2>1, <2>7, <2>11, AssertionStatement
    <3>2. at[1] \in 1..2
      BY <1>5, <2>1, <2>11, AssertionStatement
    <3> QED BY <2>1, <2>3, <2>5, <2>6, <2>8, <2>9, <2>11, <3>1, <3>2 DEF AssertionPrepared, Ongoing
  <2> QED BY <2>10, <2>11
<1>6. ASSUME phase = "running", UNCHANGED <<project, type, plan>>, type = "assertion",
             \/ TaskFails(obj, undo, Current.do # "check") /\ disturbed' = disturbed
             \/ TaskFails(obj, undo, TRUE) /\ disturbed'
             \/ TaskFails(Effect(Current), undo, TRUE) /\ disturbed'
      PROVE  AssertionPrepared'
  <2>1. /\ Ongoing /\ obj["target"].kind \in {"none", "view"} /\ \A c \in Clients : undo[c] = <<>>
        /\ obj \in [Names -> Datasets] /\ at \in Nat \X Nat /\ DropsFirst' = DropsFirst
    BY <1>6, ClientIs, PlaceIs, SameRun DEF AssertionPrepared, Ongoing
  <2>2. PICK e : e = Effect(Current)
    OBVIOUS
  <2>3. e \in [Names -> Datasets] /\ e["target"].kind \in {"none", "view"}
    BY <1>6, <2>1, <2>2, AssertionEffect, EffectType, PlaceIs DEF Base
  <2>4. CASE TaskFails(obj, undo, Current.do # "check") /\ disturbed' = disturbed
    <3>1. /\ obj'["target"] = obj["target"] /\ \A c \in Clients : undo'[c] = <<>>
          /\ phase' = "failed" \/ (phase' = "running" /\ at' = <<at[1], 1>>)
      BY <1>6, <2>1, <2>4, AssertionFails
    <3> QED BY <1>6, <2>1, <2>4, <3>1 DEF AssertionPrepared, Ongoing
  <2>5. CASE TaskFails(obj, undo, TRUE) /\ disturbed'
    <3>1. obj'["target"] = obj["target"] /\ \A c \in Clients : undo'[c] = <<>>
      BY <1>6, <2>1, <2>5, AssertionFails
    <3> QED BY <1>6, <2>1, <2>5, <3>1 DEF AssertionPrepared
  <2>6. CASE TaskFails(e, undo, TRUE) /\ disturbed'
    <3>1. obj'["target"] = e["target"] /\ \A c \in Clients : undo'[c] = <<>>
      BY <1>6, <2>1, <2>3, <2>6, AssertionFails
    <3> QED BY <2>3, <2>6, <3>1 DEF AssertionPrepared
  <2> QED BY <1>6, <2>2, <2>4, <2>5, <2>6
<1>7. ASSUME StatementDone \/ StatementRefused \/ StatementLost
      PROVE  AssertionPrepared'
  <2>1. phase = "running" /\ UNCHANGED <<project, type, plan>>
    BY <1>7 DEF StatementDone, StatementRefused, StatementLost
  <2>2. CASE type = "assertion"
    BY <1>5, <1>6, <1>7, <2>1, <2>2 DEF StatementDone, StatementRefused, StatementLost
  <2>3. CASE type # "assertion"
    BY <2>1, <2>3 DEF AssertionPrepared
  <2> QED BY <2>2, <2>3
<1>8. ASSUME Stop \/ Resume
      PROVE  AssertionPrepared'
  BY <1>1, <1>8 DEF Stop, Resume, warehouse, Ongoing
<1>9. ASSUME UNCHANGED vars
      PROVE  AssertionPrepared'
  BY <1>1, <1>9 DEF vars, Ongoing, plan
<1> QED BY <1>2, <1>3, <1>4, <1>7, <1>8, <1>9 DEF Next

(* The truth of one step.                                                  *)
LEMMA Truth ==
  ASSUME Base, AssertionPrepared, [Next]_vars, type = "assertion", phase = "running", ~disturbed'
  PROVE  /\ phase' = "done" => \A r \in Full : r[2] \notin Bad
         /\ phase' = "failed" => \E r \in Full : r[2] \in Bad
<1>1. Ongoing
  BY DEF Ongoing
<1>2. ASSUME phase' = "done"
      PROVE  \A r \in Full : r[2] \notin Bad
  <2>1. StatementDone
    BY <1>2 DEF Next, SourceChanges, Retype, Build, StatementRefused, StatementLost, TaskFails, Stop, Resume, vars
  <2>2. at[1] = Len(tasks) /\ Runs(Current)
    BY <1>2, <2>1 DEF StatementDone
  <2>3. Current = Op("check", "target", "none")
    <3>1. CASE DropsFirst
      BY <1>1, <2>2, <3>1, AssertionStatement
    <3>2. CASE ~DropsFirst
      BY <1>1, <2>2, <3>2, AssertionStatement
    <3> QED BY <3>1, <3>2
  <2> QED BY <2>2, <2>3, RunsWhen
<1>3. ASSUME phase' = "failed"
      PROVE  \E r \in Full : r[2] \in Bad
  <2>1. StatementRefused \/ StatementLost
    BY <1>3 DEF Next, SourceChanges, Retype, Build, StatementDone, Stop, Resume, vars
  <2>2. StatementRefused
    BY <2>1 DEF StatementLost
  <2>3. ~Runs(Current) /\ ~disturbed
    BY <2>2 DEF StatementRefused
  <2>4. /\ obj["target"].kind \in {"none", "view"}
        /\ IF DropsFirst
           THEN /\ at[1] = 2 => obj["target"].kind = "none"
                /\ at[1] = 3 => obj["target"].kind = "view"
           ELSE at[1] = 2 => obj["target"].kind = "view"
    BY <1>1, <2>3 DEF AssertionPrepared
  <2>5. Current = Op("check", "target", "none") /\ obj["target"].kind = "view"
    <3>1. CASE DropsFirst
      <4>1. /\ at[1] \in {1, 2, 3}
            /\ at[1] = 1 => Current = Op("drop", "target", "view")
            /\ at[1] = 2 => \/ Current = Op("create", "target", "view")
                            \/ Current = Op("replace", "target", "view")
            /\ at[1] = 3 => Current = Op("check", "target", "none")
        BY <1>1, <3>1, AssertionStatement
      <4>2. at[1] # 1
        BY <2>3, <2>4, <4>1, RunsWhen
      <4>3. at[1] # 2
        BY <2>3, <2>4, <3>1, <4>1, RunsWhen
      <4> QED BY <2>4, <3>1, <4>1, <4>2, <4>3
    <3>2. CASE ~DropsFirst
      <4>1. /\ at[1] \in {1, 2}
            /\ at[1] = 1 => Current = Op("replace", "target", "view")
            /\ at[1] = 2 => Current = Op("check", "target", "none")
        BY <1>1, <3>2, AssertionStatement
      <4>2. at[1] # 1
        BY <2>3, <2>4, <4>1, RunsWhen
      <4> QED BY <2>4, <3>2, <4>1, <4>2
    <3> QED BY <3>1, <3>2
  <2> QED BY <2>3, <2>5, RunsWhen
<1> QED BY <1>2, <1>3

(* An assertion succeeds when its query returns no rows, and fails when it *)
(* returns some, however often it is run, stopped and repeated.            *)
THEOREM AssertionsAreTruthful ==
  ASSUME AssertionsAreApart
  PROVE  Spec => AssertionsTellTheTruth
<1>1. Init => Base /\ AssertionPrepared
  <2>1. Init => AssertionPrepared
    BY DEF Init, AssertionPrepared, Ongoing, Absent
  <2> QED BY <2>1, BaseInit
<1>2. Base /\ AssertionPrepared /\ [Next]_vars => (Base /\ AssertionPrepared)'
  BY BaseNext, AssertionNext
<1>3. Base /\ AssertionPrepared /\ [Next]_vars =>
        [type = "assertion" /\ phase = "running" /\ ~disturbed' =>
           /\ phase' = "done" => \A r \in Full : r[2] \notin Bad
           /\ phase' = "failed" => \E r \in Full : r[2] \in Bad]_vars
  BY Truth
<1> QED BY <1>1, <1>2, <1>3, PTL DEF Spec, AssertionsTellTheTruth
-----------------------------------------------------------------------------
(* The contents of a dataset that has been written.                        *)
LEMMA Covers ==
  ASSUME NEW full, One(full), NEW rows, NEW new, new \subseteq full, full \subseteq rows \cup new
  PROVE  full \subseteq Updated(rows, new) \cup new
<1> SUFFICES ASSUME NEW r \in full, r \notin new
             PROVE  r \in Updated(rows, new)
  OBVIOUS
<1>1. r \in rows
  OBVIOUS
<1>2. r[1] \notin KeysOf(new)
  <2> SUFFICES ASSUME NEW s \in new, r[1] = s[1]
               PROVE  FALSE
    BY DEF KeysOf
  <2> QED BY DEF One
<1> QED BY <1>1, <1>2 DEF Updated

LEMMA ContentsDone ==
  ASSUME Sessions, Contents, Dataset, ~MayStop, Warehouse # "presto", StatementDone
  PROVE  Contents'
<1>1. /\ Base /\ phase = "running" /\ Ongoing /\ client \in Clients /\ client \in Names
      /\ client # "target" /\ client # "temp" /\ "target" \in Names /\ "temp" \in Names
      /\ obj \in [Names -> Datasets]
  BY ClientIs DEF Sessions, StatementDone, Ongoing
<1>2. /\ UNCHANGED <<project, src, type, plan, client, disturbed>> /\ Current \in OpSet
      /\ Written <= Len(Writes) => phase' = "running" /\ Written' = Written + 1
      /\ Written = Len(Writes) + 1 => phase' = "done"
      /\ obj' = Effect(Current) /\ Runs(Current)
  BY <1>1, Proceeds, PlaceIs DEF Execute
<1>3. /\ Merging' = Merging /\ Rebuilding' = Rebuilding /\ Writes' = Writes
      /\ type' = type /\ client' = client /\ Full' = Full
  BY <1>2, SameRun DEF plan, Full
<1>4. Written \in Int /\ Written <= Len(Writes) + 1 /\ type \in DatasetTypes
  BY <1>1, StatementIs DEF Dataset
<1>5. User = Op("user", "target", "none") /\ \A on, kind : Drop(on, kind) = Op("drop", on, kind)
  BY DEF User, Drop
<1>6. /\ NewRows \subseteq Full /\ One(Full)
      /\ ~(Merging /\ Written \in 4..6) => NewRows = Full \ obj["target"].rows
  <2>1. NewRows = Full \ (IF undo[client] # <<>> THEN obj["target"] ELSE Committed).rows
    BY DEF NewRows
  <2>2. ~(Merging /\ Written \in 4..6) => undo[client] = <<>> /\ Committed = obj["target"]
    BY <1>1, SeenNow DEF Sessions, Transactions
  <2>3. NewRows \subseteq Full /\ One(Full)
    BY <1>1, NewRowsType, FullType DEF Base
  <2> QED BY <2>1, <2>2, <2>3
<1>7. /\ Written > Len(Writes) => Result
      /\ Rebuilding /\ Written \in {3, 4} => obj["temp"] = [kind |-> "table", rows |-> Full]
      /\ Merging => /\ Written \in 3..5 =>
                         obj[client].rows \subseteq Full /\ Full \subseteq obj["target"].rows \cup obj[client].rows
                    /\ Written \in {6, 7} => Result
  BY <1>1 DEF Contents
<1>8. CASE Written = Len(Writes) + 1
  BY <1>2, <1>8 DEF Contents
<1>9. Len(Writes) \in Nat /\ Len(Writes) >= 1
  <2>1. Len(Writes) \in {1, 2, 4, 7}
    BY <1>1, Ways, StatementIs
  <2> QED BY <2>1
<1>10. CASE Written <= 0
  <2>1. Written' <= 1 /\ Written' \in Int
    BY <1>2, <1>4, <1>9, <1>10
  <2>2. ~(Written' > Len(Writes)) /\ Written' \notin {3, 4} /\ Written' \notin 3..5 /\ Written' \notin {6, 7}
    BY <1>9, <2>1
  <2> QED BY <1>3, <2>2 DEF Contents
<1>11. CASE Written >= 1 /\ Written <= Len(Writes)
  <2>0. phase' = "running" /\ Written' = Written + 1
    BY <1>2, <1>11
  <2>1. CASE Merging
    <3>1. Written \in {1, 2, 3, 4, 5, 6, 7} /\ ~Rebuilding /\ Len(Writes) = 7 /\ type = "incremental"
      <4>1. Len(Writes) = 7
        BY <1>1, <2>1, StatementIs
      <4> QED BY <1>1, <1>4, <1>11, <2>1, <4>1, Ways
    <3>2. /\ Written = 1 => Current = Op("drop", "session", "table")
          /\ Written = 2 => Current = Op("create", "session", "table")
          /\ Written = 3 => Current = Op("begin", "target", "none")
          /\ Written = 4 => Current = Op("delete", "target", "table")
          /\ Written = 5 => Current = Op("insertSession", "target", "table")
          /\ Written = 6 => Current = Op("end", "target", "none")
          /\ Written = 7 => Current = Op("dropExisting", "session", "table")
      BY <1>1, <1>5, <2>1, StatementIs
    <3>3. CASE Written = 1
      BY <1>3, <2>0, <3>1, <3>3 DEF Contents
    <3>4. CASE Written = 2
      <4>1. obj'[client] = [kind |-> "table", rows |-> NewRows] /\ obj'["target"] = obj["target"]
        BY <1>1, <1>2, <3>2, <3>4, EffectWhen
      <4>2. obj'[client].rows \subseteq Full /\ Full \subseteq obj'["target"].rows \cup obj'[client].rows
        BY <1>6, <3>4, <4>1
      <4> QED BY <1>3, <2>0, <3>1, <3>4, <4>2 DEF Contents
    <3>5. CASE Written = 3
      <4>1. obj' = obj
        BY <1>2, <3>2, <3>5, NoEffect
      <4> QED BY <1>3, <1>7, <2>0, <2>1, <3>1, <3>5, <4>1 DEF Contents
    <3>6. CASE Written = 4
      <4>1. obj'["target"].rows = Updated(obj["target"].rows, obj[client].rows) /\ obj'[client] = obj[client]
        BY <1>1, <1>2, <3>2, <3>6, EffectWhen
      <4>2. obj[client].rows \subseteq Full /\ Full \subseteq obj["target"].rows \cup obj[client].rows
        BY <1>7, <2>1, <3>6
      <4>3. obj'[client].rows \subseteq Full /\ Full \subseteq obj'["target"].rows \cup obj'[client].rows
        BY <1>6, <4>1, <4>2, Covers
      <4> QED BY <1>3, <2>0, <3>1, <3>6, <4>3 DEF Contents
    <3>7. CASE Written = 5
      <4>1. obj'["target"].rows = obj["target"].rows \cup obj[client].rows /\ obj'["target"].kind = obj["target"].kind
        BY <1>1, <1>2, <3>2, <3>7, EffectWhen
      <4>2. obj["target"].kind = "table"
        BY <1>2, <3>2, <3>7, RunsWhen
      <4>3. Full \subseteq obj["target"].rows \cup obj[client].rows
        BY <1>7, <2>1, <3>7
      <4>4. Result'
        BY <1>3, <3>1, <4>1, <4>2, <4>3 DEF Result, BaseTableType
      <4> QED BY <1>3, <2>0, <3>1, <3>7, <4>4 DEF Contents
    <3>8. CASE Written \in {6, 7}
      <4>1. obj'["target"] = obj["target"]
        <5>1. CASE Written = 6
          BY <1>2, <3>2, <5>1, NoEffect
        <5>2. CASE Written = 7
          BY <1>1, <1>2, <3>2, <5>2, DropEffect
        <5> QED BY <3>8, <5>1, <5>2
      <4>2. Result'
        BY <1>3, <1>7, <2>1, <3>8, <4>1 DEF Result
      <4> QED BY <1>3, <2>0, <3>1, <3>8, <4>2 DEF Contents
    <3> QED BY <3>1, <3>3, <3>4, <3>5, <3>6, <3>7, <3>8
  <2>2. CASE Rebuilding
    <3>1. Written \in {1, 2, 3, 4} /\ ~Merging /\ Len(Writes) = 4 /\ BaseTableType(type) = "table"
      <4>1. Len(Writes) = 4
        BY <1>1, <2>2, StatementIs
      <4> QED BY <1>1, <1>4, <1>11, <2>2, <4>1, Ways
    <3>2. /\ Written = 1 => Current = Op("drop", "temp", "table")
          /\ Written = 2 => Current = Op("create", "temp", "table")
          /\ Written = 3 => Current = Op("drop", "target", "table")
          /\ Written = 4 => Current = Op("rename", "temp", "table")
      BY <1>1, <1>5, <2>2, StatementIs
    <3>3. CASE Written = 1
      BY <1>3, <2>0, <3>1, <3>3 DEF Contents
    <3>4. CASE Written = 2
      <4>1. obj'["temp"] = [kind |-> "table", rows |-> Full]
        BY <1>1, <1>2, <3>2, <3>4, EffectWhen
      <4> QED BY <1>3, <2>0, <3>1, <3>4, <4>1 DEF Contents
    <3>5. CASE Written = 3
      <4>1. obj'["temp"] = obj["temp"]
        BY <1>1, <1>2, <3>2, <3>5, DropEffect
      <4> QED BY <1>3, <1>7, <2>0, <2>2, <3>1, <3>5, <4>1 DEF Contents
    <3>6. CASE Written = 4
      <4>1. obj'["target"] = obj["temp"]
        BY <1>1, <1>2, <3>2, <3>6, EffectWhen
      <4>2. Result'
        BY <1>3, <1>7, <2>2, <3>1, <3>6, <4>1 DEF Result
      <4> QED BY <1>3, <2>0, <3>1, <3>6, <4>2 DEF Contents
    <3> QED BY <3>1, <3>3, <3>4, <3>5, <3>6
  <2>3. CASE PgView
    <3>1. Written \in {1, 2} /\ ~Merging /\ ~Rebuilding /\ Len(Writes) = 2 /\ BaseTableType(type) = "view"
      <4>1. Len(Writes) = 2
        BY <1>1, <2>3, StatementIs
      <4> QED BY <1>1, <1>4, <1>11, <2>3, <4>1, Ways DEF PgView, Rebuilding
    <3>2. Written = 2 => Current = Op("replace", "target", "view")
      BY <1>1, <1>5, <2>3, StatementIs
    <3>3. CASE Written = 1
      BY <1>3, <2>0, <3>1, <3>3 DEF Contents
    <3>4. CASE Written = 2
      <4>1. obj'["target"].kind = "view"
        BY <1>1, <1>2, <3>2, <3>4, MakeEffect
      <4>2. Result'
        BY <1>3, <3>1, <4>1 DEF Result
      <4> QED BY <1>3, <2>0, <3>1, <3>4, <4>2 DEF Contents
    <3> QED BY <3>1, <3>3, <3>4
  <2>4. CASE Appending \/ Replacing \/ SqlDwView
    <3>1. Written = 1 /\ Len(Writes) = 1 /\ ~Merging /\ ~Rebuilding
      <4>1. Len(Writes) = 1
        BY <1>1, <2>4, StatementIs
      <4>2. ~Merging /\ ~Rebuilding
        BY <1>1, <2>4, Ways DEF Rebuilding, Appending, Replacing, SqlDwView, PgFamily
      <4> QED BY <1>4, <1>11, <4>1, <4>2
    <3>2. Result'
      <4>1. CASE Appending
        <5>1. type = "incremental"
          BY <1>1, <4>1, Ways
        <5>2. obj["target"].kind = "table" /\ obj'["target"].kind = obj["target"].kind
              /\ Full \subseteq obj'["target"].rows
          <6>1. NewRows = Full \ obj["target"].rows
            BY <1>6, <3>1
          <6>2. CASE Current = Op("insert", "target", "table")
            <7>1. /\ obj'["target"].kind = obj["target"].kind
                  /\ obj'["target"].rows = obj["target"].rows \cup NewRows
              BY <1>1, <1>2, <6>2, EffectWhen
            <7>2. obj["target"].kind = "table"
              BY <1>2, <6>2, RunsWhen
            <7> QED BY <6>1, <7>1, <7>2
          <6>3. CASE Current = Op("merge", "target", "table")
            <7>1. /\ obj'["target"].kind = obj["target"].kind
                  /\ obj'["target"].rows = Updated(obj["target"].rows, NewRows) \cup NewRows
              BY <1>1, <1>2, <6>3, EffectWhen
            <7>2. obj["target"].kind = "table"
              BY <1>2, <6>3, RunsWhen
            <7>3. Full \subseteq Updated(obj["target"].rows, NewRows) \cup NewRows
              BY <1>6, <6>1, Covers
            <7> QED BY <7>1, <7>2, <7>3
          <6> QED BY <1>1, <3>1, <4>1, <6>2, <6>3, StatementIs
        <5> QED BY <1>3, <5>1, <5>2 DEF Result, BaseTableType
      <4>2. CASE Replacing
        <5>1. Current = Op("replace", "target", BaseTableType(type))
          BY <1>1, <3>1, <4>2, StatementIs
        <5>2. CASE BaseTableType(type) = "table"
          <6>1. obj'["target"] = [kind |-> "table", rows |-> Full]
            BY <1>1, <1>2, <5>1, <5>2, EffectWhen
          <6> QED BY <1>3, <5>2, <6>1 DEF Result
        <5>3. CASE BaseTableType(type) # "table"
          <6>1. obj'["target"].kind = BaseTableType(type)
            BY <1>1, <1>2, <5>1, MakeEffect
          <6> QED BY <1>3, <5>3, <6>1 DEF Result
        <5> QED BY <5>2, <5>3
      <4>3. CASE SqlDwView
        <5>1. PICK do \in {"create", "alter"} : Current = Op(do, "target", "view")
          <6>1. Current = Op(IF found # "none" THEN "alter" ELSE "create", "target", "view")
            BY <1>1, <3>1, <4>3, StatementIs
          <6>2. (IF found # "none" THEN "alter" ELSE "create") \in {"create", "alter"}
            OBVIOUS
          <6> QED BY <6>1, <6>2
        <5>2. obj'["target"].kind = "view"
          BY <1>1, <1>2, <5>1, MakeEffect
        <5>3. BaseTableType(type) = "view"
          BY <1>1, <4>3, Ways
        <5> QED BY <1>3, <5>2, <5>3 DEF Result
      <4> QED BY <2>4, <4>1, <4>2, <4>3
    <3> QED BY <1>3, <2>0, <3>1, <3>2 DEF Contents
  <2> QED BY <1>1, <2>1, <2>2, <2>3, <2>4, Ways DEF Creating
<1> QED BY <1>4, <1>8, <1>10, <1>11

LEMMA WritesLength == TypeOK /\ Dataset => Len(Writes) \in Nat
BY LinesAre DEF TypeOK

LEMMA WritesLengthNext == (TypeOK /\ Dataset => Len(Writes) \in Nat)'
BY WritesLength, PTL

Writing == Base /\ (~MayStop => Sessions /\ Contents)

LEMMA ContentsNext ==
  ASSUME Base, Base', ~MayStop, Sessions, Contents, [Next]_vars, Warehouse = "presto" => ~Dataset
  PROVE  Contents'
<1>1. ASSUME UNCHANGED <<project, src, type, obj, phase, plan, at, client>>
      PROVE  Contents'
  <2>1. /\ Written' = Written /\ Merging' = Merging /\ Rebuilding' = Rebuilding /\ Writes' = Writes
        /\ Dataset' = Dataset /\ Warehouse' = Warehouse /\ MayStop' = MayStop
    BY <1>1, SameRun, SameWritten
  <2>2. Full' = Full /\ Result' = Result
    BY <1>1 DEF Full, Result
  <2> QED BY <1>1, <2>1, <2>2 DEF Contents
<1>2. ASSUME phase' # "running"
      PROVE  Contents'
  BY <1>2 DEF Contents
<1>3. ASSUME NEW k \in Keys, SourceChanges(k)
      PROVE  Contents'
  BY <1>2, <1>3 DEF SourceChanges
<1>4. ASSUME NEW t \in Types, Retype(t)
      PROVE  Contents'
  BY <1>2, <1>4 DEF Retype
<1>5. ASSUME NEW full \in BOOLEAN, Build(full)
      PROVE  Contents'
  <2>1. Written' \in Int /\ Written' <= 0
    BY <1>5, Begins
  <2>2. Dataset' => Len(Writes)' \in Nat
    BY WritesLengthNext DEF Base
  <2>3. Dataset' => ~(Written' > Len(Writes)')
    <3> SUFFICES ASSUME Dataset', Written' > Len(Writes)'
                 PROVE  FALSE
      OBVIOUS
    <3> QED BY <2>1, <2>2
  <2>4. Written' \notin {3, 4} /\ Written' \notin 3..5 /\ Written' \notin {6, 7}
    BY <2>1
  <2> QED BY <2>3, <2>4 DEF Contents
<1>6. ASSUME StatementDone
      PROVE  Contents'
  <2>1. UNCHANGED <<project, type, plan>>
    BY <1>6 DEF StatementDone
  <2>2. CASE Dataset /\ Warehouse # "presto"
    BY <1>6, <2>2, ContentsDone
  <2>3. CASE ~(Dataset /\ Warehouse # "presto")
    BY <2>1, <2>3, SameRun DEF Contents
  <2> QED BY <2>2, <2>3
<1>7. ASSUME NEW o \in {obj, Effect(Current)}, NEW again, TaskFails(o, undo, again), phase = "running",
             UNCHANGED <<project, src, type, plan, client>>
      PROVE  Contents'
  <2> SUFFICES ASSUME phase' = "running", Dataset', Warehouse' # "presto"
               PROVE  Contents'
    BY DEF Contents
  <2>1. /\ Merging' = Merging /\ Rebuilding' = Rebuilding /\ Writes' = Writes
        /\ Dataset /\ Warehouse # "presto" /\ type' = type /\ Full' = Full
    BY <1>7, SameRun DEF Full
  <2>2. /\ ~PgFamily /\ obj' = o
        /\ IF Script THEN Written' \in Int /\ Written' <= 0 ELSE Written' = Written
    BY <1>7, <2>1, Fails
  <2>3. CASE Script
    <3>1. Len(Writes) \in Nat
      BY <2>1, WritesLength DEF Base
    <3>2. ~(Written' > Len(Writes)) /\ Written' \notin {3, 4} /\ Written' \notin 3..5 /\ Written' \notin {6, 7}
      <4>1. Written' \in Int /\ Written' <= 0
        BY <2>2, <2>3
      <4> QED BY <3>1, <4>1
    <3> QED BY <2>1, <3>2 DEF Contents
  <2>4. CASE ~Script
    <3>1. ~Merging /\ ~Rebuilding
      BY <2>2, <2>4 DEF Merging, Rebuilding, PgFamily, Script
    <3>2. Written > Len(Writes) => obj' = obj
      <4> SUFFICES ASSUME Written > Len(Writes)
                   PROVE  obj' = obj
        OBVIOUS
      <4>1. Ongoing /\ Len(Writes) \in Nat
        BY <1>7, <2>1, WritesLength DEF Base, Ongoing
      <4>2. Written \in Int /\ Written <= Len(Writes) + 1
        BY <2>1, <4>1, StatementIs
      <4>3. Written = Len(Writes) + 1
        BY <4>1, <4>2
      <4>4. Current = Op("user", "target", "none")
        BY <2>1, <4>1, <4>3, StatementIs DEF User
      <4> QED BY <1>7, <2>2, <4>4, NoEffect
    <3>3. Written > Len(Writes) => Result
      BY <1>7, <2>1 DEF Contents
    <3> QED BY <2>1, <2>2, <2>4, <3>1, <3>2, <3>3 DEF Contents, Result
  <2> QED BY <2>3, <2>4
<1>8. ASSUME StatementRefused \/ StatementLost
      PROVE  Contents'
  BY <1>7, <1>8 DEF StatementRefused, StatementLost
<1>9. ASSUME Stop \/ Resume
      PROVE  Contents'
  BY <1>9 DEF Stop, Resume, Base, Plan
<1>10. ASSUME UNCHANGED vars
       PROVE  Contents'
  BY <1>1, <1>10 DEF vars, plan
<1> QED BY <1>3, <1>4, <1>5, <1>6, <1>8, <1>9, <1>10 DEF Next

(* Presto's adapter only creates the tables that are absent: it promises   *)
(* nothing of those that are there.                                        *)
PrestoHasNoDatasets == \A p \in Projects : p.warehouse = "presto" => p.types \cap DatasetTypes = {}

LEMMA NotPresto ==
  ASSUME PrestoHasNoDatasets, Base
  PROVE  Warehouse = "presto" => ~Dataset
<1>1. project \in Projects /\ type \in project.types
  BY DEF Base, TypeOK, Types
<1> QED BY <1>1 DEF PrestoHasNoDatasets, Dataset, Warehouse

LEMMA WritingNext == PrestoHasNoDatasets /\ Writing /\ [Next]_vars => Writing'
<1> SUFFICES ASSUME PrestoHasNoDatasets, Writing, [Next]_vars
             PROVE  Writing'
  OBVIOUS
<1>1. Base /\ Base' /\ (Warehouse = "presto" => ~Dataset)
  BY BaseNext, NotPresto DEF Writing
<1>2. MayStop' = MayStop
  <2>1. project' = project
    BY DEF Next, SourceChanges, Retype, Build, StatementDone, StatementRefused, StatementLost, Stop, Resume, vars
  <2> QED BY <2>1 DEF MayStop
<1>3. ASSUME ~MayStop
      PROVE  Sessions' /\ Contents'
  BY <1>1, <1>3, SessionsNext, ContentsNext DEF Writing
<1> QED BY <1>1, <1>2, <1>3 DEF Writing

LEMMA LastStatement ==
  ASSUME Base, Dataset, [Next]_vars, phase = "running", phase' = "done"
  PROVE  /\ Written = Len(Writes) + 1 /\ obj' = obj
         /\ UNCHANGED <<project, src, type, plan>>
<1>1. StatementDone
  BY DEF Next, SourceChanges, Retype, Build, StatementRefused, StatementLost, TaskFails, Stop, Resume, vars
<1>2. /\ Written <= Len(Writes) => phase' = "running"
      /\ Execute(Current) /\ UNCHANGED <<project, src, type, plan>>
  BY <1>1, Proceeds
<1>3. Ongoing /\ Written \in Int /\ Written <= Len(Writes) + 1 /\ Len(Writes) \in Nat
  BY StatementIs, WritesLength DEF Base, Ongoing
<1>4. Written = Len(Writes) + 1
  BY <1>2, <1>3
<1>5. Current = Op("user", "target", "none")
  BY <1>3, <1>4, StatementIs DEF User
<1>6. obj' = obj
  BY <1>2, <1>5, NoEffect DEF Execute
<1> QED BY <1>2, <1>4, <1>6

LEMMA Given ==
  ASSUME PrestoHasNoDatasets, Writing, [Next]_vars, phase = "running", phase' = "done",
         type \in DatasetTypes, ~MayStop
  PROVE  /\ Committed'.kind = BaseTableType(type)
         /\ BaseTableType(type) = "table" =>
              IF type = "incremental" THEN Full \subseteq Committed'.rows ELSE Full = Committed'.rows
<1>1. Base /\ Sessions /\ Contents /\ Dataset /\ Warehouse # "presto"
  BY NotPresto DEF Writing, Dataset
<1>2. Written = Len(Writes) + 1 /\ obj' = obj /\ UNCHANGED <<project, src, type, plan>>
  BY <1>1, LastStatement
<1>3. Sessions'
  <2>1. Writing' /\ MayStop' = MayStop
    BY <1>2, WritingNext DEF MayStop
  <2> QED BY <2>1 DEF Writing
<1>4. Committed' = obj'["target"]
  BY <1>3, SeenNext
<1>5. Result
  <2>1. Len(Writes) \in Nat
    BY <1>1, WritesLength DEF Base
  <2> QED BY <1>1, <1>2, <2>1 DEF Contents
<1> QED BY <1>2, <1>4, <1>5 DEF Result

(* A run that is not stopped and succeeds leaves the result of its query,  *)
(* as the kind of dataset that the project says, for others to see.        *)
THEOREM SuccessIsTheQuery ==
  ASSUME PrestoHasNoDatasets
  PROVE  Spec => SuccessGivesTheQuery
<1>1. Init => Writing
  <2>1. Init => Contents
    BY DEF Init, Contents
  <2> QED BY <2>1, BaseInit, SessionsInit DEF Writing
<1>2. Writing /\ [Next]_vars => Writing'
  BY WritingNext
<1>3. Writing /\ [Next]_vars =>
        [phase = "running" /\ phase' = "done" /\ type \in DatasetTypes /\ ~MayStop =>
           /\ Committed'.kind = BaseTableType(type)
           /\ BaseTableType(type) = "table" =>
                IF type = "incremental" THEN Full \subseteq Committed'.rows ELSE Full = Committed'.rows]_vars
  BY Given
<1> QED BY <1>1, <1>2, <1>3, PTL DEF Spec, SuccessGivesTheQuery
-----------------------------------------------------------------------------
(* The rows of incremental tables.                                         *)
LEMMA Keeps ==
  ASSUME NEW rows, NEW new
  PROVE  /\ KeysOf(rows) \subseteq KeysOf(Updated(rows, new)) \cup KeysOf(new)
         /\ KeysOf(rows) \subseteq KeysOf(Updated(rows, new) \cup new)
         /\ KeysOf(rows) \subseteq KeysOf(rows \cup new)
         /\ KeysOf(rows) \cup KeysOf(new) \subseteq KeysOf(rows \cup new)
BY DEF KeysOf, Updated

LEMMA KeptNext ==
  ASSUME MergesAreNotStopped, Sessions, Kept, [Next]_vars
  PROVE  Kept'
<1>1. /\ Base /\ client \in Clients /\ client \in Names
      /\ client # "target" /\ client # "temp" /\ "target" \in Names /\ "temp" \in Names
      /\ undo \in [Clients -> Undos]
  BY ClientIs DEF Sessions
<1>2. ASSUME phase' # "running"
      PROVE  Kept'
  BY <1>2 DEF Kept
<1>3. ASSUME NEW k \in Keys, SourceChanges(k)
      PROVE  Kept'
  BY <1>2, <1>3 DEF SourceChanges
<1>4. ASSUME NEW t \in Types, Retype(t)
      PROVE  Kept'
  BY <1>2, <1>4 DEF Retype
<1>5. ASSUME NEW full \in BOOLEAN, Build(full)
      PROVE  Kept'
  <2>1. Written' \in Int /\ Written' <= 0
    BY <1>5, Begins
  <2>2. Written' \notin 4..6
    BY <2>1
  <2> QED BY <2>2 DEF Kept
<1>6. ASSUME StatementDone
      PROVE  Kept'
  <2> SUFFICES ASSUME phase' = "running", Merging', Written' \in 4..6
               PROVE  Kept'
    BY DEF Kept
  <2>1. /\ UNCHANGED <<project, src, type, plan, client, disturbed>> /\ phase = "running"
    BY <1>6 DEF StatementDone
  <2>2. Merging /\ Dataset /\ Ongoing /\ client' = client
    BY <2>1, SameRun DEF Merging, Ongoing
  <2>3. Len(Writes) = 7 /\ Written \in Int /\ Written <= Len(Writes) + 1
    BY <1>1, <2>2, StatementIs
  <2>4. /\ Execute(Current) /\ Runs(Current) /\ Current \in OpSet
        /\ Written <= Len(Writes) => Written' = Written + 1
        /\ Written = Len(Writes) + 1 => phase' = "done"
    BY <1>1, <1>6, <2>2, Proceeds, PlaceIs
  <2>5. Written \in {3, 4, 5} /\ Written' = Written + 1
    BY <2>3, <2>4
  <2>6. /\ Written = 3 => Current = Op("begin", "target", "none")
        /\ Written = 4 => Current = Op("delete", "target", "table")
        /\ Written = 5 => Current = Op("insertSession", "target", "table")
    BY <1>1, <2>2, StatementIs
  <2>7. obj' = Effect(Current) /\ \A do, on, kind : Op(do, on, kind).do = do
    BY <2>4 DEF Execute, Op
  <2>8. CASE Written = 3
    <3>1. undo[client] = <<>>
      BY <1>1, <2>8 DEF Sessions, Transactions
    <3>2. undo' = [undo EXCEPT ![client] = <<obj["target"]>>]
      BY <2>4, <2>6, <2>7, <2>8, <3>1 DEF Execute
    <3>3. undo'[client][1] = obj["target"] /\ obj' = obj
      BY <1>1, <2>6, <2>7, <2>8, <3>2, NoEffect
    <3> QED BY <2>2, <2>5, <2>8, <3>3 DEF Kept
  <2>9. CASE Written \in {4, 5}
    <3>1. undo' = undo
      BY <2>4, <2>6, <2>7, <2>9 DEF Execute
    <3>2. PICK old : old = KeysOf(undo[client][1].rows)
      OBVIOUS
    <3>3. old \subseteq KeysOf(obj["target"].rows) \cup KeysOf(obj[client].rows)
      BY <2>1, <2>2, <2>9, <3>2 DEF Kept
    <3>4. CASE Written = 4
      <4>1. /\ obj'["target"].rows = Updated(obj["target"].rows, obj[client].rows)
            /\ obj'["target"].kind = obj["target"].kind /\ obj'[client] = obj[client]
        BY <1>1, <2>4, <2>6, <2>7, <3>4, EffectWhen
      <4>2. obj["target"].kind = "table"
        BY <2>4, <2>6, <3>4, RunsWhen
      <4>3. old \subseteq KeysOf(obj'["target"].rows) \cup KeysOf(obj'[client].rows)
        BY <3>3, <4>1, Keeps
      <4> QED BY <2>2, <2>5, <3>1, <3>2, <3>4, <4>1, <4>2, <4>3 DEF Kept
    <3>5. CASE Written = 5
      <4>1. /\ obj'["target"].rows = obj["target"].rows \cup obj[client].rows
            /\ obj'["target"].kind = obj["target"].kind
        BY <1>1, <2>4, <2>6, <2>7, <3>5, EffectWhen
      <4>2. obj["target"].kind = "table"
        BY <2>4, <2>6, <3>5, RunsWhen
      <4>3. old \subseteq KeysOf(obj'["target"].rows)
        BY <3>3, <4>1, Keeps
      <4> QED BY <2>2, <2>5, <3>1, <3>2, <3>5, <4>1, <4>2, <4>3 DEF Kept
    <3> QED BY <2>9, <3>4, <3>5
  <2> QED BY <2>5, <2>8, <2>9
<1>7. ASSUME StatementRefused \/ StatementLost
      PROVE  Kept'
  <2> SUFFICES ASSUME phase' = "running", Merging'
               PROVE  FALSE
    BY DEF Kept
  <2>1. phase = "running" /\ UNCHANGED <<project, type, plan>>
    BY <1>7 DEF StatementRefused, StatementLost
  <2>2. Merging /\ PgFamily
    BY <2>1, SameRun DEF Merging
  <2>3. PICK o \in {obj, Effect(Current)}, again \in BOOLEAN : TaskFails(o, undo, again)
    BY <1>7 DEF StatementRefused, StatementLost
  <2> QED BY <1>1, <2>1, <2>2, <2>3, Fails
<1>8. ASSUME Stop \/ Resume
      PROVE  Kept'
  <2>1. UNCHANGED <<project, type, plan>> /\ MayStop
    BY <1>1, <1>8 DEF Stop, Resume, Base, Plan
  <2>2. ~Merging'
    BY <1>1, <2>1, NotMerging, SameRun
  <2> QED BY <2>2 DEF Kept
<1>9. ASSUME UNCHANGED vars
      PROVE  Kept'
  <2>1. UNCHANGED <<project, type, plan, at, client, obj, undo, phase>>
    BY <1>9 DEF vars, plan
  <2>2. Merging' = Merging /\ Written' = Written
    BY <2>1, SameRun, SameWritten
  <2> QED BY <2>1, <2>2 DEF Kept
<1> QED BY <1>3, <1>4, <1>5, <1>6, <1>7, <1>8, <1>9 DEF Next

(* A statement outside a transaction keeps the rows of the target.         *)
LEMMA StatementKeeps ==
  ASSUME Sessions, phase = "running", KeepsRows, ~(Merging /\ Written \in 4..6), NEW e, e = Effect(Current)
  PROVE  e["target"].kind = "table" /\ KeysOf(obj["target"].rows) \subseteq KeysOf(e["target"].rows)
<1>1. /\ Base /\ Ongoing /\ client \in Clients /\ client \in Names
      /\ client # "target" /\ client # "temp" /\ "target" \in Names /\ "temp" \in Names
  BY ClientIs DEF Sessions, Ongoing
<1>2. obj["target"].kind = "table" /\ Current \in OpSet
  BY <1>1, SeenNow, PlaceIs DEF KeepsRows
<1>3. Dataset /\ More
  BY <1>1 DEF KeepsRows, Dataset, DatasetTypes, More, ShouldWriteIncrementally, Base, Plan
<1>4. Written \in Int /\ Written <= Len(Writes) + 1 /\ ~Dropping
  BY <1>1, <1>3, StatementIs, Ways
<1>5. User = Op("user", "target", "none") /\ \A on, kind : Drop(on, kind) = Op("drop", on, kind)
  BY DEF User, Drop
<1>6. CASE Written <= 0 \/ Written = Len(Writes) + 1
  <2>1. Current = Op("user", "target", "none")
    <3>1. Written < 0 \/ Written = 0 \/ Written = Len(Writes) + 1
      BY <1>4, <1>6
    <3> QED BY <1>1, <1>3, <1>4, <1>5, <3>1, StatementIs
  <2>2. e = obj
    BY <2>1, NoEffect
  <2> QED BY <1>2, <2>2
<1>7. CASE Merging /\ Written >= 1 /\ Written <= Len(Writes)
  <2>1. Written \in {1, 2, 3, 7}
    <3>1. Len(Writes) = 7
      BY <1>1, <1>3, <1>7, StatementIs
    <3> QED BY <1>4, <1>7, <3>1
  <2>2. /\ Written = 1 => Current = Op("drop", "session", "table")
        /\ Written = 2 => Current = Op("create", "session", "table")
        /\ Written = 3 => Current = Op("begin", "target", "none")
        /\ Written = 7 => Current = Op("dropExisting", "session", "table")
    BY <1>1, <1>3, <1>5, <1>7, StatementIs
  <2>3. CASE Written \in {1, 7}
    BY <1>1, <1>2, <2>2, <2>3, DropEffect
  <2>4. CASE Written = 2
    BY <1>1, <1>2, <2>2, <2>4, MakeEffect
  <2>5. CASE Written = 3
    BY <1>2, <2>2, <2>5, NoEffect
  <2> QED BY <2>1, <2>3, <2>4, <2>5
<1>8. CASE ~Merging /\ Written >= 1 /\ Written <= Len(Writes)
  <2>1. Appending
    BY <1>3, <1>8 DEF Appending
  <2>2. Written = 1
    <3>1. Len(Writes) = 1
      BY <1>1, <1>3, <2>1, StatementIs
    <3> QED BY <1>4, <1>8, <3>1
  <2>3. CASE Current = Op("insert", "target", "table")
    <3>1. e["target"].kind = obj["target"].kind /\ e["target"].rows = obj["target"].rows \cup NewRows
      BY <1>1, <1>2, <2>3, EffectWhen
    <3> QED BY <1>2, <3>1, Keeps
  <2>4. CASE Current = Op("merge", "target", "table")
    <3>1. /\ e["target"].kind = obj["target"].kind
          /\ e["target"].rows = Updated(obj["target"].rows, NewRows) \cup NewRows
      BY <1>1, <1>2, <2>4, EffectWhen
    <3> QED BY <1>2, <3>1, Keeps
  <2> QED BY <1>1, <1>3, <2>1, <2>2, <2>3, <2>4, StatementIs
<1> QED BY <1>4, <1>6, <1>7, <1>8

LEMMA Survival ==
  ASSUME MergesAreNotStopped, Sessions, Kept, [Next]_vars, KeepsRows, type' = type, phase = "running" \/ Protected
  PROVE  Committed'.kind = "table" /\ KeysOf(Committed.rows) \subseteq KeysOf(Committed'.rows)
<1>1. /\ Base /\ Sessions' /\ client \in Clients /\ client \in Names /\ undo \in [Clients -> Undos]
      /\ obj \in [Names -> Datasets]
  BY ClientIs, SessionsNext DEF Sessions
<1>2. Committed.kind = "table"
  BY DEF KeepsRows
<1>3. ASSUME UNCHANGED <<obj, undo>>
      PROVE  Committed' = Committed
  BY <1>3, CommittedIs
<1>4. CASE StatementDone
  <2>1. /\ UNCHANGED <<project, src, type, plan, client, disturbed>> /\ phase = "running" /\ Execute(Current)
    BY <1>4 DEF StatementDone
  <2>2. Merging' = Merging /\ client' = client /\ Ongoing /\ obj' = Effect(Current)
    BY <2>1, SameRun DEF Ongoing, Execute
  <2>3. CASE Merging /\ Written \in 3..6
    <3>1. Dataset
      BY <2>3 DEF Merging
    <3>2. Len(Writes) = 7 /\ Written \in Int
      BY <1>1, <2>2, <2>3, <3>1, StatementIs
    <3>3. Written' = Written + 1 /\ phase' = "running"
      BY <1>1, <1>4, <2>3, <3>1, <3>2, Proceeds
    <3>4. /\ Current.do = "begin" <=> Written = 3
          /\ Current.do = "end" <=> Written = 6
      BY <1>1, <2>2, <2>3, CurrentApart
    <3>5. CASE Written = 3
      <4>1. undo[client] = <<>>
        BY <1>1, <3>5 DEF Sessions, Transactions
      <4>2. undo' = [undo EXCEPT ![client] = <<obj["target"]>>]
        BY <2>1, <3>4, <3>5, <4>1 DEF Execute
      <4>3. undo'[client][1] = obj["target"]
        BY <1>1, <4>2
      <4>4. Committed = obj["target"]
        BY <2>1, <3>5, SeenNow
      <4>5. Committed' = undo'[client][1]
        BY <1>1, <2>2, <2>3, <3>3, <3>5, SeenNext
      <4> QED BY <1>2, <4>3, <4>4, <4>5
    <3>6. CASE Written \in {4, 5}
      <4>1. undo' = undo
        BY <2>1, <3>4, <3>6 DEF Execute
      <4>2. Committed = undo[client][1]
        BY <2>1, <2>3, <3>6, SeenNow
      <4>3. Committed' = undo'[client][1]
        BY <1>1, <2>2, <2>3, <3>3, <3>6, SeenNext
      <4> QED BY <1>2, <4>1, <4>2, <4>3
    <3>7. CASE Written = 6
      <4>1. Current = Op("end", "target", "none")
        BY <1>1, <2>2, <2>3, <3>1, <3>7, StatementIs
      <4>2. obj' = obj
        BY <2>2, <4>1, NoEffect
      <4>3. Committed = undo[client][1]
        BY <2>1, <2>3, <3>7, SeenNow
      <4>4. Committed' = obj'["target"]
        BY <1>1, <3>3, <3>7, SeenNext
      <4>5. KeysOf(undo[client][1].rows) \subseteq KeysOf(obj["target"].rows) /\ obj["target"].kind = "table"
        BY <2>1, <2>3, <3>7 DEF Kept
      <4> QED BY <4>2, <4>3, <4>4, <4>5
    <3> QED BY <2>3, <3>2, <3>5, <3>6, <3>7
  <2>4. CASE ~(Merging /\ Written \in 3..6)
    <3>1. ~(Merging /\ Written \in 4..6)
      BY <2>4
    <3>2. Committed = obj["target"]
      BY <3>1, SeenNow
    <3>3. obj'["target"].kind = "table" /\ KeysOf(obj["target"].rows) \subseteq KeysOf(obj'["target"].rows)
      BY <2>1, <2>2, <3>1, StatementKeeps
    <3>4. ~(phase' = "running" /\ Merging' /\ Written' \in 4..6)
      <4> SUFFICES ASSUME phase' = "running", Merging, Written' \in 4..6
                   PROVE  FALSE
        BY <2>2
      <4>1. Dataset
        BY DEF Merging
      <4>2. Len(Writes) = 7 /\ Written \in Int /\ Written <= Len(Writes) + 1
        BY <1>1, <2>2, <4>1, StatementIs
      <4>3. Written <= 7 => Written' = Written + 1
        BY <1>1, <1>4, <4>1, <4>2, Proceeds
      <4>4. Written = 8 => phase' = "done"
        BY <1>1, <1>4, <4>1, <4>2, Proceeds
      <4> QED BY <2>4, <4>2, <4>3, <4>4
    <3>5. Committed' = obj'["target"]
      BY <1>1, <3>4, SeenNext
    <3> QED BY <3>2, <3>3, <3>5
  <2> QED BY <2>3, <2>4
<1>5. ASSUME phase = "running", UNCHANGED <<project, type, plan, client>>,
             NEW o \in [Names -> Datasets], o = obj \/ o = Effect(Current), NEW again, TaskFails(o, undo, again)
      PROVE  Committed'.kind = "table" /\ KeysOf(Committed.rows) \subseteq KeysOf(Committed'.rows)
  <2>1. CASE PgFamily
    <3>1. phase' = "failed" /\ CloseSession(o, undo)
      BY <1>1, <1>5, <2>1, Fails
    <3>2. obj'["target"] = IF undo[client] # <<>> THEN undo[client][1] ELSE o["target"]
      BY <1>1, <1>5, <3>1, CloseApart
    <3>3. Committed' = obj'["target"]
      BY <1>1, <3>1, SeenNext
    <3>4. CASE Merging /\ Written \in 4..6
      <4>1. undo[client] # <<>> /\ Committed = undo[client][1]
        BY <1>1, <1>5, <3>4, SeenNow DEF Sessions, Transactions
      <4> QED BY <1>2, <3>2, <3>3, <4>1
    <3>5. CASE ~(Merging /\ Written \in 4..6)
      <4>1. undo[client] = <<>> /\ Committed = obj["target"]
        BY <1>1, <3>5, SeenNow DEF Sessions, Transactions
      <4>2. CASE o = obj
        BY <1>2, <3>2, <3>3, <4>1, <4>2
      <4>3. CASE o = Effect(Current)
        BY <1>5, <3>2, <3>3, <3>5, <4>1, <4>3, StatementKeeps
      <4> QED BY <1>5, <4>2, <4>3
    <3> QED BY <3>4, <3>5
  <2>2. CASE ~PgFamily
    <3>1. obj' = o /\ ~Merging
      BY <1>1, <1>5, <2>2, Fails DEF Merging
    <3>2. Committed = obj["target"] /\ ~Merging'
      BY <1>5, <3>1, SeenNow, SameRun
    <3>3. Committed' = obj'["target"]
      BY <1>1, <3>2, SeenNext
    <3>4. CASE o = obj
      BY <1>2, <3>1, <3>2, <3>3, <3>4
    <3>5. CASE o = Effect(Current)
      BY <1>5, <3>1, <3>2, <3>3, <3>5, StatementKeeps
    <3> QED BY <1>5, <3>4, <3>5
  <2> QED BY <2>1, <2>2
<1>6. CASE StatementRefused
  BY <1>1, <1>5, <1>6 DEF StatementRefused
<1>7. CASE StatementLost
  <2>1. /\ phase = "running" /\ UNCHANGED <<project, src, type, plan, client, runs>>
        /\ TaskFails(obj, undo, TRUE) \/ TaskFails(Effect(Current), undo, TRUE)
    BY <1>7 DEF StatementLost
  <2>2. PICK e : e = Effect(Current)
    OBVIOUS
  <2>3. e \in [Names -> Datasets]
    BY <1>1, <2>1, <2>2, PlaceIs, EffectType DEF Base, Ongoing
  <2>4. CASE TaskFails(obj, undo, TRUE)
    BY <1>1, <1>5, <2>1, <2>4
  <2>5. CASE TaskFails(e, undo, TRUE)
    BY <1>5, <2>1, <2>2, <2>3, <2>5
  <2> QED BY <2>1, <2>2, <2>4, <2>5
<1>8. CASE ~(StatementDone \/ StatementRefused \/ StatementLost)
  <2>1. UNCHANGED <<obj, undo>>
    BY <1>8 DEF Next, SourceChanges, Retype, Build, Stop, Resume, warehouse, vars
  <2> QED BY <1>2, <1>3, <2>1
<1> QED BY <1>4, <1>6, <1>7, <1>8

(* No step of an incremental write takes away a key that others see, nor   *)
(* any step from a protected incremental table.                            *)
THEOREM RowsAreKept ==
  ASSUME MergesAreNotStopped
  PROVE  Spec => RowsSurvive
<1>1. Init => Sessions /\ Kept
  <2>1. Init => Kept
    BY DEF Init, Kept
  <2> QED BY <2>1, SessionsInit
<1>2. Sessions /\ Kept /\ [Next]_vars => (Sessions /\ Kept)'
  BY SessionsNext, KeptNext
<1>3. Sessions /\ Kept /\ [Next]_vars =>
        [KeepsRows /\ type' = type /\ (phase = "running" \/ Protected)
           => Committed'.kind = "table" /\ KeysOf(Committed.rows) \subseteq KeysOf(Committed'.rows)]_vars
  BY Survival
<1> QED BY <1>1, <1>2, <1>3, PTL DEF Spec, RowsSurvive
-----------------------------------------------------------------------------
(* Unique keys: SQL Data Warehouse only inserts, and session.ts refuses    *)
(* its unique keys only with options of that warehouse beside them.        *)
SqlDwHasNoKeys == \A p \in Projects : p.uniqueKey => p.warehouse # "sqldatawarehouse"

LEMMA OneOf ==
  ASSUME NEW rows, One(rows), NEW new, One(new)
  PROVE  /\ One({}) /\ \A sub \in SUBSET rows : One(sub)
         /\ One(Updated(rows, new)) /\ One(Updated(rows, new) \cup new)
         /\ KeysOf(Updated(rows, new)) \cap KeysOf(new) = {}
         /\ KeysOf(rows) \cap KeysOf(new) = {} => One(rows \cup new)
<1>1. One({}) /\ (\A sub \in SUBSET rows : One(sub)) /\ One(Updated(rows, new))
  BY DEF One, Updated
<1>2. \A r \in Updated(rows, new), s \in new : r[1] # s[1]
  BY DEF Updated, KeysOf
<1>3. One(Updated(rows, new) \cup new)
  <2> SUFFICES ASSUME NEW r \in Updated(rows, new) \cup new, NEW s \in Updated(rows, new) \cup new, r[1] = s[1]
               PROVE  r = s
    BY DEF One
  <2>1. CASE r \in new /\ s \in new
    BY <2>1 DEF One
  <2>2. CASE r \in Updated(rows, new) /\ s \in Updated(rows, new)
    BY <1>1, <2>2 DEF One
  <2> QED BY <1>2, <2>1, <2>2
<1>4. KeysOf(Updated(rows, new)) \cap KeysOf(new) = {}
  BY <1>2 DEF KeysOf
<1>5. ASSUME KeysOf(rows) \cap KeysOf(new) = {}
      PROVE  One(rows \cup new)
  <2>1. \A r \in rows, s \in new : r[1] # s[1]
    BY <1>5 DEF KeysOf
  <2> SUFFICES ASSUME NEW r \in rows \cup new, NEW s \in rows \cup new, r[1] = s[1]
               PROVE  r = s
    BY DEF One
  <2>2. CASE r \in new /\ s \in new
    BY <2>2 DEF One
  <2>3. CASE r \in rows /\ s \in rows
    BY <2>3 DEF One
  <2> QED BY <2>1, <2>2, <2>3
<1> QED BY <1>1, <1>3, <1>4, <1>5

LEMMA NewRowsOne ==
  ASSUME Base
  PROVE  One(NewRows) /\ One(Full) /\ One(Absent.rows)
<1>1. One(Full) /\ NewRows \subseteq Full
  BY FullType, NewRowsType DEF Base
<1> QED BY <1>1 DEF One, Absent

LEMMA EffectUnique ==
  ASSUME SqlDwHasNoKeys, Base, Unique, UniqueKey, phase = "running", NEW e, e = Effect(Current)
  PROVE  \A m \in Names : One(e[m].rows)
<1>1. PICK op \in OpSet, n \in Names, o \in Datasets : op = Current /\ n = Name(op) /\ o = obj[n]
  <2>1. Current \in OpSet
    BY PlaceIs DEF Ongoing
  <2> QED BY <2>1, NameType DEF Base
<1>2. /\ TypeOK /\ Ongoing /\ client \in Names /\ DOMAIN obj = Names /\ e = Effect(op)
      /\ "target" \in Names /\ "temp" \in Names
  BY <1>1, ClientIs DEF Base, Ongoing
<1>3. (\A m \in Names : One(obj[m].rows)) /\ One(o.rows) /\ One(obj[client].rows)
  BY <1>1, <1>2 DEF Unique
<1>4. One(NewRows) /\ One(Full) /\ One(Absent.rows) /\ One({})
  BY NewRowsOne DEF One
<1>5. CASE op.do = "rename"
  <2>1. /\ \A m \in Names \ {"target", "temp"} : e[m] = obj[m]
        /\ e["target"] = o /\ e["temp"] = Absent
    BY <1>1, <1>2, <1>5, EffectAt
  <2> QED BY <1>3, <1>4, <2>1
<1>6. CASE op.do # "rename"
  <2>1. \A m \in Names \ {n} : e[m] = obj[m]
    BY <1>1, <1>2, <1>6, EffectAt
  <2>2. One(e[n].rows)
    <3>1. CASE op.do \in {"user", "begin", "end", "check"}
      <4>1. e = obj
        BY <1>2, <3>1, EffectIs
      <4> QED BY <1>1, <1>3, <4>1
    <3>2. CASE op.do \in {"drop", "dropExisting"}
      <4>1. e[n] = IF o.kind = op.kind THEN Absent ELSE o
        BY <1>1, <1>2, <3>2, EffectAt
      <4> QED BY <1>3, <1>4, <4>1
    <3>3. One(Made(op).rows)
      <4>1. Made(op).rows \in {{}, NewRows, Full}
        BY DEF Made
      <4> QED BY <1>4, <4>1
    <3>4. CASE op.do \in {"create", "replace", "alter"}
      <4>1. e[n] = Made(op)
        BY <1>1, <1>2, <3>4, EffectAt
      <4> QED BY <3>3, <4>1
    <3>5. CASE op.do = "createIfAbsent"
      <4>1. e[n] = IF o.kind = "none" THEN Made(op) ELSE o
        BY <1>1, <1>2, <3>5, EffectAt
      <4> QED BY <1>3, <3>3, <4>1
    <3>6. CASE op.do = "insert"
      <4>1. ~(UniqueKey /\ Warehouse # "sqldatawarehouse")
        BY <1>1, <1>2, <3>6, CurrentApart
      <4>2. project \in Projects
        BY <1>2 DEF TypeOK
      <4> QED BY <4>1, <4>2 DEF SqlDwHasNoKeys, UniqueKey, Warehouse
    <3>7. CASE op.do = "merge"
      <4>1. e[n].rows = Updated(o.rows, NewRows) \cup NewRows
        BY <1>1, <1>2, <3>7, EffectAt
      <4> QED BY <1>3, <1>4, <4>1, OneOf
    <3>8. CASE op.do = "delete"
      <4>1. e[n].rows = Updated(o.rows, obj[client].rows)
        BY <1>1, <1>2, <3>8, EffectAt
      <4>2. e[n].rows \subseteq o.rows
        BY <4>1 DEF Updated
      <4> QED BY <1>3, <4>2 DEF One
    <3>9. CASE op.do = "insertSession"
      <4>1. Merging /\ Written = 5 /\ n = "target"
        BY <1>1, <1>2, <3>9, CurrentApart DEF Name
      <4>2. KeysOf(o.rows) \cap KeysOf(obj[client].rows) = {}
        BY <1>1, <4>1 DEF Unique
      <4>3. e[n].rows = o.rows \cup obj[client].rows
        BY <1>1, <1>2, <3>9, EffectAt
      <4> QED BY <1>3, <4>2, <4>3, OneOf
    <3> QED BY <1>6, <3>1, <3>2, <3>4, <3>5, <3>6, <3>7, <3>8, <3>9 DEF OpSet, Deeds
  <2> QED BY <1>3, <2>1, <2>2
<1> QED BY <1>5, <1>6

(* Between begin and end the keys of the session's table are first deleted. *)
LEMMA DeletedApart ==
  ASSUME Sessions, Unique, UniqueKey, StatementDone, Merging
  PROVE  phase' = "running" /\ Written' = 5 =>
           KeysOf(obj'["target"].rows) \cap KeysOf(obj'[client].rows) = {}
<1> SUFFICES ASSUME phase' = "running", Written' = 5
             PROVE  KeysOf(obj'["target"].rows) \cap KeysOf(obj'[client].rows) = {}
  OBVIOUS
<1>1. Base /\ TypeOK /\ Dataset /\ phase = "running" /\ Ongoing /\ obj' = Effect(Current)
  BY DEF Sessions, Base, Merging, StatementDone, Execute, Ongoing
<1>2. Len(Writes) = 7 /\ Written \in Int /\ Written <= 8
  <2>1. Len(Writes) = 7 /\ Written \in Int /\ Written <= Len(Writes) + 1
    BY <1>1, StatementIs
  <2> QED BY <2>1
<1>3. Written = 4
  <2>1. Written <= 7 => Written' = Written + 1
    BY <1>1, <1>2, Proceeds
  <2>2. Written = 8 => phase' = "done"
    BY <1>1, <1>2, Proceeds
  <2> QED BY <1>2, <2>1, <2>2
<1>4. Current = Op("delete", "target", "table")
  BY <1>1, <1>3, StatementIs
<1>5. PICK op \in OpSet : op = Current /\ op.do = "delete" /\ Name(op) = "target"
  <2>1. Current \in OpSet
    BY <1>1, PlaceIs
  <2> QED BY <1>4, <2>1 DEF Name, Op
<1>6. /\ client \in Names /\ "target" \in Names /\ client # "target"
      /\ One(obj["target"].rows) /\ One(obj[client].rows)
  BY <1>1, ClientIs DEF Unique
<1>7. /\ obj'["target"].rows = Updated(obj["target"].rows, obj[client].rows)
      /\ obj'[client] = obj[client]
  BY <1>1, <1>5, <1>6, EffectAt
<1> QED BY <1>6, <1>7, OneOf

LEMMA FailsUnique ==
  ASSUME Sessions, Unique, UniqueKey, phase = "running", NEW o \in [Names -> Datasets], NEW again,
         TaskFails(o, undo, again), \A n \in Names : One(o[n].rows), UNCHANGED <<project, type, plan, client>>
  PROVE  Unique'
<1>1. Base /\ Transactions /\ Merging' = Merging /\ UniqueKey' = UniqueKey
  BY SameRun DEF Sessions, UniqueKey
<1>2. CASE PgFamily
  <2>1. phase' = "failed" /\ CloseSession(o, undo)
    BY <1>1, <1>2, Fails
  <2>2. undo \in [Clients -> Undos] /\ client \in Clients
    BY <1>1, ClientIs
  <2>3. /\ \A m \in Names \ {"target", client} : obj'[m] = o[m]
        /\ obj'[client] = Absent
        /\ obj'["target"] = IF undo[client] # <<>> THEN undo[client][1] ELSE o["target"]
        /\ undo'[client] = <<>> /\ \A c \in Clients \ {client} : undo'[c] = undo[c]
    BY <1>1, <2>1, <2>2, CloseApart
  <2>4. \A c \in Clients : undo'[c] = <<>>
    BY <1>1, <2>3 DEF Transactions
  <2>5. One(Absent.rows) /\ (undo[client] # <<>> => One(undo[client][1].rows))
    BY <1>1, <2>2, NewRowsOne DEF Unique
  <2>6. "target" \in Names
    BY <1>1, ClientIs
  <2>7. \A m \in Names : One(obj'[m].rows)
    BY <2>3, <2>5, <2>6
  <2>8. DOMAIN obj' = Names
    <3>1. DOMAIN [o EXCEPT !["target"] = undo[client][1]] = Names
      OBVIOUS
    <3> QED BY <2>1, <3>1 DEF CloseSession
  <2> QED BY <2>1, <2>4, <2>7, <2>8 DEF Unique
<1>3. CASE ~PgFamily
  <2>1. obj' = o /\ undo' = undo /\ ~Merging
    BY <1>1, <1>3, Fails DEF Merging
  <2>2. DOMAIN o = Names
    OBVIOUS
  <2> QED BY <1>1, <2>1, <2>2 DEF Unique
<1> QED BY <1>2, <1>3

LEMMA UniqueNext ==
  ASSUME MayStop => MergesAreNotStopped, SqlDwHasNoKeys, Sessions, Unique, [Next]_vars
  PROVE  Unique'
<1>1. /\ Base /\ DOMAIN obj = Names /\ "target" \in Names /\ client \in Clients
      /\ undo \in [Clients -> Undos]
  BY ClientIs DEF Sessions
<1>2. UniqueKey' = UniqueKey
  BY DEF Next, SourceChanges, Retype, Build, StatementDone, StatementRefused, StatementLost, Stop, Resume, vars,
         UniqueKey
<1> SUFFICES ASSUME UniqueKey
             PROVE  Unique'
  BY <1>2 DEF Unique
<1>3. \A n \in Names : One(obj[n].rows)
  BY <1>1 DEF Unique
<1>4. ASSUME UNCHANGED <<obj, undo, client>>, ~(phase' = "running" /\ Merging' /\ Written' = 5)
      PROVE  Unique'
  BY <1>4 DEF Unique
<1>5. ASSUME UNCHANGED <<project, type, obj, undo, phase, plan, at, client>>
      PROVE  Unique'
  <2>1. Written' = Written /\ Merging' = Merging
    BY <1>5, SameRun, SameWritten
  <2> QED BY <1>5, <2>1 DEF Unique
<1>6. ASSUME UNCHANGED <<obj, undo>>, ~(phase' = "running" /\ Merging' /\ Written' = 5)
      PROVE  Unique'
  BY <1>6 DEF Unique
<1>7. ASSUME NEW k \in Keys, SourceChanges(k)
      PROVE  Unique'
  BY <1>5, <1>7 DEF SourceChanges, warehouse
<1>8. ASSUME NEW t \in Types, Retype(t)
      PROVE  Unique'
  <2>1. UNCHANGED <<obj, undo, phase>> /\ phase # "running"
    BY <1>8 DEF Retype, warehouse
  <2> QED BY <1>6, <2>1
<1>9. ASSUME NEW full \in BOOLEAN, Build(full)
      PROVE  Unique'
  <2>1. Written' \in Int /\ Written' <= 0 /\ UNCHANGED <<obj, undo>>
    BY <1>9, Begins
  <2>2. Written' # 5
    BY <2>1
  <2> QED BY <1>6, <2>1, <2>2
<1>10. ASSUME StatementDone
       PROVE  Unique'
  <2>1. /\ phase = "running" /\ Execute(Current) /\ UNCHANGED <<project, src, type, plan, client, disturbed>>
    BY <1>10 DEF StatementDone
  <2>2. PICK e : e = Effect(Current)
    OBVIOUS
  <2>3. obj' = e /\ e \in [Names -> Datasets] /\ \A n \in Names : One(e[n].rows)
    <3>1. Current \in OpSet
      BY <1>1, <2>1, PlaceIs DEF Ongoing
    <3> QED BY <1>1, <2>1, <2>2, <3>1, EffectType, EffectUnique DEF Base, Execute
  <2>4. \A c \in Clients : undo'[c] # <<>> => One(undo'[c][1].rows)
    <3>1. CASE undo' = [undo EXCEPT ![client] = <<obj["target"]>>]
      <4>1. undo'[client] = <<obj["target"]>> /\ \A c \in Clients \ {client} : undo'[c] = undo[c]
        BY <1>1, <3>1
      <4> QED BY <1>1, <1>3, <4>1 DEF Unique
    <3>2. CASE undo' = [undo EXCEPT ![client] = <<>>]
      <4>1. undo'[client] = <<>> /\ \A c \in Clients \ {client} : undo'[c] = undo[c]
        BY <1>1, <3>2
      <4> QED BY <4>1 DEF Unique
    <3>3. CASE undo' = undo
      BY <3>3 DEF Unique
    <3> QED BY <2>1, <3>1, <3>2, <3>3 DEF Execute
  <2>5. Merging' = Merging /\ client' = client
    BY <2>1, SameRun
  <2>6. Merging /\ phase' = "running" /\ Written' = 5 =>
          KeysOf(obj'["target"].rows) \cap KeysOf(obj'[client].rows) = {}
    BY <1>10, DeletedApart
  <2>7. DOMAIN obj' = Names
    BY <2>3
  <2> QED BY <2>3, <2>4, <2>5, <2>6, <2>7 DEF Unique
<1>11. CASE StatementRefused
  <2>1. /\ phase = "running" /\ TaskFails(obj, undo, Current.do # "check")
        /\ UNCHANGED <<project, src, type, plan, client>>
    BY <1>11 DEF StatementRefused
  <2>2. obj \in [Names -> Datasets]
    BY <1>1, ClientIs
  <2> QED BY <1>3, <2>1, <2>2, FailsUnique
<1>12. CASE StatementLost
  <2>1. /\ phase = "running" /\ UNCHANGED <<project, src, type, plan, client>>
        /\ TaskFails(obj, undo, TRUE) \/ TaskFails(Effect(Current), undo, TRUE)
    BY <1>12 DEF StatementLost
  <2>2. PICK e : e = Effect(Current)
    OBVIOUS
  <2>3. e \in [Names -> Datasets] /\ \A n \in Names : One(e[n].rows)
    <3>1. Current \in OpSet
      BY <1>1, <2>1, PlaceIs DEF Ongoing
    <3> QED BY <1>1, <2>1, <2>2, <3>1, EffectType, EffectUnique DEF Base
  <2>4. CASE TaskFails(obj, undo, TRUE)
    <3>1. obj \in [Names -> Datasets]
      BY <1>1, ClientIs
    <3> QED BY <1>3, <2>1, <2>4, <3>1, FailsUnique
  <2>5. CASE TaskFails(e, undo, TRUE)
    BY <2>1, <2>3, <2>5, FailsUnique
  <2> QED BY <2>1, <2>2, <2>4, <2>5
<1>13. ASSUME Stop \/ Resume
       PROVE  Unique'
  <2>1. UNCHANGED <<project, type, obj, undo, plan>> /\ MayStop
    BY <1>1, <1>13 DEF Stop, Resume, warehouse, Base, Plan
  <2>2. ~Merging'
    BY <1>1, <2>1, NotMerging, SameRun
  <2> QED BY <1>6, <2>1, <2>2
<1>14. ASSUME UNCHANGED vars
       PROVE  Unique'
  BY <1>5, <1>14 DEF vars, plan
<1> QED BY <1>7, <1>8, <1>9, <1>10, <1>11, <1>12, <1>13, <1>14 DEF Next

LEMMA OneIsCardinality ==
  ASSUME NEW rows \in SUBSET Rows, One(rows)
  PROVE  Cardinality(rows) = Cardinality(KeysOf(rows))
<1> DEFINE f == [r \in rows |-> r[1]]
<1>1. KeysOf(rows) \subseteq Keys
  BY DEF KeysOf, Rows
<1>2. IsFiniteSet(KeysOf(rows))
  BY <1>1, PublishAssumption, FS_Subset
<1>3. f \in [rows -> KeysOf(rows)]
  BY DEF KeysOf
<1>4. f \in Injection(rows, KeysOf(rows))
  BY <1>3 DEF Injection, IsInjective, One
<1>5. f \in Surjection(rows, KeysOf(rows))
  BY <1>3 DEF Surjection, KeysOf
<1> HIDE DEF f
<1> QED BY <1>2, <1>4, <1>5, FS_Injection

(* With a unique key an incremental table never shows two rows of a key.   *)
THEOREM KeysAreUnique ==
  ASSUME MergesAreNotStopped, SqlDwHasNoKeys
  PROVE  Spec => []OneRowPerKey
<1>1. Init => Sessions /\ Unique
  <2>1. Init => Unique
    BY DEF Init, Unique, One, Absent
  <2> QED BY <2>1, SessionsInit
<1>2. Sessions /\ Unique /\ [Next]_vars => (Sessions /\ Unique)'
  BY SessionsNext, UniqueNext
<1>3. Sessions /\ Unique => OneRowPerKey
  <2> SUFFICES ASSUME Sessions, Unique, UniqueKey
               PROVE  Cardinality(Committed.rows) = Cardinality(KeysOf(Committed.rows))
    BY DEF OneRowPerKey
  <2>1. client \in Clients /\ "target" \in Names /\ obj \in [Names -> Datasets] /\ undo \in [Clients -> Undos]
    BY ClientIs DEF Sessions
  <2>2. Committed = obj["target"] \/ (undo[client] # <<>> /\ Committed = undo[client][1])
    BY SeenNow, <2>1 DEF Sessions, Transactions
  <2>3. One(Committed.rows)
    BY <2>1, <2>2 DEF Unique
  <2>4. Committed.rows \in SUBSET Rows
    BY <2>1, <2>2 DEF Undos, Datasets
  <2> QED BY <2>3, <2>4, OneIsCardinality
<1> QED BY <1>1, <1>2, <1>3, PTL DEF Spec
=============================================================================
