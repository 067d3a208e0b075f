----------------------------- MODULE MCWarehouse -----------------------------
(***************************************************************************)
(* The adapters for TLC.  One part is chosen in the initial state: one of  *)
(* the drivers executes a few statements, or a few callbacks lock clients  *)
(* of the Postgres pool, or an adapter makes one of its longer calls, or a *)
(* column's type is read from several warehouses.                          *)
(***************************************************************************)
EXTENDS QueryDriver, PgPool, AdapterCalls, WarehouseTypes

VARIABLE part

BigQuery == INSTANCE BigQueryDriver
Snowflake == INSTANCE SnowflakeDriver
SqlDw == INSTANCE SqlDwDriver
Presto == INSTANCE PrestoDriver

Drivers == {"bigquery", "snowflake", "sqldatawarehouse", "presto"}

(* Columns: "c", and in BigQuery the field "d" of a record "b".            *)
Column == <<<<"c">>>>
Record == <<<<"b">>>>
Nested == <<<<"b">>, <<"d">>>>
SmallPaths == {Column, Record, Nested}

Queries == {<<"pre", "main">>, <<"", "main">>}
Actions == [incremental : BOOLEAN, queries : Queries, incrementalQueries : Queries]
NoAction == [incremental |-> FALSE, queries |-> <<>>, incrementalQueries |-> <<>>]
Warehouses == {"bigquery", "postgres", "redshift", "snowflake", "sqldatawarehouse", "presto"}

Calls(what, types, columns, actions) ==
  [warehouse : Warehouses, what : {what}, type : types, description : {what = "setMetadata"},
   columns : columns, tunnel : {TRUE}, action : actions]

SmallCalls ==
  UNION {Calls(what, {"table"}, {{}}, {NoAction}) :
    what \in {"tables", "table", "search", "preview", "schemas", "createSchema", "create", "close"}}
  \cup Calls("setMetadata", {"table", "view"}, {{}, {Column, Nested}}, {NoAction})
  \cup Calls("evaluate", {"table"}, {{}}, Actions)

(* What does not take part stands still.                                   *)
DriversIdle == Init /\ total = [s \in Statements |-> 0]
CallsIdle ==
  /\ CallInit
  /\ call = CHOOSE c \in CallsMade : TRUE
  /\ dataset = None
TypesIdle == TypesInit /\ typeName = "DATE"

WarehouseInit ==
  /\ part \in Drivers \cup {"pool", "calls", "types"}
  /\ IF part \in Drivers THEN Init ELSE DriversIdle
  /\ PoolInit
  /\ IF part = "calls" THEN CallInit ELSE CallsIdle
  /\ IF part = "types" THEN TypesInit ELSE TypesIdle

WarehouseNext ==
  /\ UNCHANGED part
  /\ \/ part = "bigquery" /\ BigQuery!Next /\ UNCHANGED <<poolVars, callVars, typeVars>>
     \/ part = "snowflake" /\ Snowflake!Next /\ UNCHANGED <<poolVars, callVars, typeVars>>
     \/ part = "sqldatawarehouse" /\ SqlDw!Next /\ UNCHANGED <<poolVars, callVars, typeVars>>
     \/ part = "presto" /\ Presto!Next /\ UNCHANGED <<poolVars, callVars, typeVars>>
     \/ part = "pool" /\ PoolNext /\ UNCHANGED <<vars, callVars, typeVars>>
     \/ part = "calls" /\ CallNext /\ UNCHANGED <<vars, poolVars, typeVars>>
     \/ part = "types" /\ TypesNext /\ UNCHANGED <<vars, poolVars, callVars>>

warehouseVars == <<part, vars, poolVars, callVars, typeVars>>

DriverStep(s) ==
  /\ \/ part = "bigquery" /\ BigQuery!Step(s)
     \/ part = "snowflake" /\ Snowflake!Step(s)
     \/ part = "sqldatawarehouse" /\ SqlDw!Step(s)
     \/ part = "presto" /\ Presto!Step(s)
  /\ UNCHANGED <<part, poolVars, callVars, typeVars>>

PoolStep(l) == part = "pool" /\ LockStep(l) /\ UNCHANGED <<part, vars, callVars, typeVars>>

(* The warehouse goes on with what it runs, and the client libraries call  *)
(* back; a free client is given to some call that waits for one.           *)
FairWarehouseSpec ==
  /\ WarehouseInit /\ [][WarehouseNext]_warehouseVars
  /\ \A s \in Statements : WF_warehouseVars(DriverStep(s))
  /\ \A l \in Locks : SF_warehouseVars(PoolStep(l))

(* Presto resolves at the first page: see the README.                      *)
WholeResults == part # "presto" => ResultsAreWhole

(* Every call of execute() settles, whenever a cancel comes, and so gives  *)
(* its place to the next; every callback gets its turn with a client and   *)
(* ends, whatever errors come, unless the pool is closed while it waits    *)
(* (execute() of each adapter, postgres.ts:37-122).                        *)
WarehouseSettles ==
  /\ \A s \in Statements : part \in Drivers ~> outcome[s] # "pending"
  /\ \A l \in Locks : part = "pool" ~> lock[l] = "over" \/ ended
=============================================================================
