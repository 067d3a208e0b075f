---------------------------- MODULE WarehouseTypes ----------------------------
(***************************************************************************)
(* convertFieldType() of each adapter in src/api/dbadapters and of         *)
(* src/api/utils/postgres.ts: which primitive a type of the warehouse is.  *)
(* Each is given as the names that stand for a primitive; any other name   *)
(* is UNKNOWN.  A column of one type is read from tables of several        *)
(* warehouses.                                                             *)
(***************************************************************************)
VARIABLES
  typeName,   \* how the warehouses call the type of the column
  primitives  \* what it was read as, in each

typeVars == <<typeName, primitives>>

BigQueryTypes ==
  [FLOAT |-> {"FLOAT", "FLOAT64"}, INTEGER |-> {"INTEGER", "INT64"}, NUMERIC |-> {"NUMERIC"},
   BOOLEAN |-> {"BOOL", "BOOLEAN"}, STRING |-> {"STRING"}, DATE |-> {"DATE"},
   DATETIME |-> {"DATETIME"}, TIMESTAMP |-> {"TIMESTAMP"}, TIME |-> {"TIME"},
   BYTES |-> {"BYTES"}, GEOGRAPHY |-> {"GEOGRAPHY"}]

PgTypes ==
  [FLOAT |-> {"FLOAT", "FLOAT4", "FLOAT8", "DOUBLE PRECISION", "REAL"},
   INTEGER |-> {"INTEGER", "INT", "INT2", "INT4", "INT8", "BIGINT", "SMALLINT"},
   NUMERIC |-> {"DECIMAL", "NUMERIC"}, BOOLEAN |-> {"BOOLEAN", "BOOL"},
   STRING |-> {"STRING", "VARCHAR", "CHAR", "CHARACTER", "CHARACTER VARYING", "NVARCHAR",
               "TEXT", "NCHAR", "BPCHAR"},
   DATE |-> {"DATE"},
   TIMESTAMP |-> {"TIMESTAMP", "TIMESTAMPZ", "TIMESTAMP WITHOUT TIME ZONE",
                  "TIMESTAMP WITH TIME ZONE"}]

(* Mutant: a name in the wrong case.                                       *)
SnowflakeTypesMoved ==
  [FLOAT |-> {"FLOAT", "FLOAT4", "FLOAT8", "DOUBLE", "DOUBLE PRECISION", "REAL"},
   INTEGER |-> {"INTEGER", "INT", "BIGINT", "SMALLINT", "NUMERIC"},
   NUMERIC |-> {"NUMBER", "DECIMAL"}]

SnowflakeTypes ==
  [FLOAT |-> {"FLOAT", "FLOAT4", "FLOAT8", "DOUBLE", "DOUBLE PRECISION", "REAL"},
   INTEGER |-> {"INTEGER", "INT", "BIGINT", "SMALLINT"},
   NUMERIC |-> {"NUMBER", "DECIMAL", "NUMERIC"}, BOOLEAN |-> {"BOOLEAN"},
   STRING |-> {"STRING", "VARCHAR", "CHAR", "CHARACTER", "TEXT"},
   DATE |-> {"DATE"}, DATETIME |-> {"DATETIME"},
   TIMESTAMP |-> {"TIMESTAMP", "TIMESTAMP_LTZ", "TIMESTAMP_NTZ", "TIMESTAMP_TZ"},
   TIME |-> {"TIME"}, BYTES |-> {"BINARY", "VARBINARY"},
   ANY |-> {"VARIANT", "ARRAY", "OBJECT"}, GEOGRAPHY |-> {"GEOGRAPHY"}]

SqlDwTypes ==
  [FLOAT |-> {"FLOAT", "REAL"}, INTEGER |-> {"INT", "BIGINT", "SMALLINT", "TINYINT"},
   NUMERIC |-> {"DECIMAL", "NUMERIC"}, BOOLEAN |-> {"BIT"},
   STRING |-> {"VARCHAR", "CHAR", "TEXT", "NVARCHAR", "NCHAR", "NTEXT"}, DATE |-> {"DATE"},
   DATETIME |-> {"DATETIME", "DATETIME2", "DATETIMEOFFSET", "SMALLDATETIME"},
   TIME |-> {"TIME"}, BYTES |-> {"BINARY", "VARBINARY", "IMAGE"}]

Conversions ==
  [bigquery |-> BigQueryTypes, postgres |-> PgTypes, redshift |-> PgTypes,
   snowflake |-> SnowflakeTypes, sqldatawarehouse |-> SqlDwTypes]

Names(types) == UNION {types[p] : p \in DOMAIN types}

ConvertFieldType(types, name) ==
  IF name \in Names(types)
  THEN CHOOSE p \in DOMAIN types : name \in types[p] ELSE "UNKNOWN"

TypesInit ==
  /\ typeName \in UNION {Names(Conversions[w]) : w \in DOMAIN Conversions}
  /\ primitives = [w \in DOMAIN Conversions |-> "unread"]

ReadColumn(w) ==
  /\ primitives[w] = "unread"
  /\ primitives' = [primitives EXCEPT ![w] = ConvertFieldType(Conversions[w], typeName)]
  /\ UNCHANGED typeName

TypesNext == \E w \in DOMAIN Conversions : ReadColumn(w)

(* A type that two warehouses know by the same name is the same primitive  *)
(* in both: readers of ITableMetadata are not told the warehouse           *)
(* (convertFieldType() of bigquery.ts:464, postgres.ts:139,                *)
(* snowflake.ts:394 and sqldatawarehouse.ts:237).                          *)
TypesAgree ==
  \A w, v \in DOMAIN Conversions :
    {primitives[w], primitives[v]} \cap {"unread", "UNKNOWN"} = {} => primitives[w] = primitives[v]
=============================================================================
