----------------------------- MODULE AdapterCalls -----------------------------
(***************************************************************************)
(* The calls of a warehouse adapter that are made of several requests:     *)
(* table(), search(), preview(), setMetadata(), evaluate(), create() and   *)
(* close() of src/api/dbadapters, while others change the dataset.         *)
(*                                                                         *)
(* Requests of one stage are under way together (Promise.all) and are      *)
(* answered in any order, each from the dataset of that moment.  The first *)
(* failure rejects the call; the other requests of the stage go on.        *)
(*                                                                         *)
(* A column is a path of names, a name a sequence of letters; paths longer *)
(* than one are fields of BigQuery's records.  "Self" stands for the       *)
(* dataset in the set of what has a description.                           *)
(***************************************************************************)
EXTENDS Integers, Sequences, FiniteSets, SequencesExt

CONSTANTS
  CallsMade,   \* the calls considered
  Paths,       \* columns there may be
  MaxChanges   \* bound on what others do to the dataset during a call

(* A call of an adapter: what it is about is a table or a view, of which   *)
(* some columns may have descriptions; an action has statements, and       *)
(* others for the incremental form.                                        *)
CallsPossible ==
  [warehouse : {"bigquery", "postgres", "redshift", "snowflake", "sqldatawarehouse", "presto"},
   what : {"tables", "table", "search", "preview", "schemas", "createSchema", "create", "close",
           "setMetadata", "evaluate"},
   type : {"table", "view"}, description : BOOLEAN, columns : SUBSET Paths, tunnel : BOOLEAN,
   action : [incremental : BOOLEAN, queries : Seq(STRING), incrementalQueries : Seq(STRING)]]

ASSUME CallAssumption ==
  /\ Paths \subseteq Seq(Seq(STRING)) /\ <<>> \notin Paths
  /\ CallsMade \subseteq CallsPossible
  /\ MaxChanges \in Nat

VARIABLES
  call,      \* which call this is, chosen once
  dataset,   \* the dataset it is about
  stage,     \* of the call
  waiting,   \* requests that were not answered yet
  answers,   \* the dataset as each answered request saw it
  failed,    \* requests that failed
  reply,   \* of the call's promise
  during,    \* history: every state of the dataset during the call
  changes    \* number of changes by others

callVars == <<call, dataset, stage, waiting, answers, failed, reply, during, changes>>

Self == <<>>
None == [kind |-> "none", cols |-> {}, described |-> {}]
IsDataset(d) ==
  /\ d.kind \in {"none", "table", "view"}
  /\ d.cols \subseteq Paths
  /\ d.described \subseteq d.cols \cup {Self}

w == call.warehouse
Saw(r) == answers[r]
Metadata(kind, cols, described) == [kind |-> kind, cols |-> cols, described |-> described]
Null == [kind |-> "null"]
-----------------------------------------------------------------------------
(* table(): what is made of the answers to its requests.                   *)

(* getMetadata(): an answer, null if there is no table; then the target is *)
(* compared and the fields are converted, records with all their fields.   *)
BigQueryTable ==
  LET m == Saw(<<"metadata">>)
  IN IF m.kind = "none" THEN Null ELSE Metadata(m.kind, m.cols, m.described)

PostgresTable ==
  IF Saw(<<"type">>).kind = "none" THEN Null
  ELSE LET cols == Saw(<<"columns">>).cols
       IN Metadata(Saw(<<"type">>).kind, cols, Saw(<<"descriptions">>).described \cap (cols \cup {Self}))

RedshiftTable ==
  IF Saw(<<"type">>).kind = "none" THEN Null
  ELSE Metadata(Saw(<<"type">>).kind, Saw(<<"columns">>).cols,
         (Saw(<<"columns">>).described \ {Self}) \cup (Saw(<<"type">>).described \cap {Self}))

(* Mutant: a table without columns is taken for none.                      *)
SnowflakeTableByColumns ==
  IF Saw(<<"columns">>).cols = {} THEN Null
  ELSE Metadata(Saw(<<"type">>).kind, Saw(<<"columns">>).cols, {})

SnowflakeTable ==
  IF Saw(<<"type">>).kind = "none" THEN Null
  ELSE Metadata(Saw(<<"type">>).kind, Saw(<<"columns">>).cols,
         (Saw(<<"columns">>).described \ {Self}) \cup (Saw(<<"type">>).described \cap {Self}))

SqlDwTable ==
  IF Saw(<<"type">>).kind = "none" THEN Null
  ELSE Metadata(Saw(<<"type">>).kind, Saw(<<"columns">>).cols, {})

(* describe fails with TABLE_NOT_FOUND; the kind is not known.  The rows   *)
(* of the result are pages: of a page of columns, which is taken for one   *)
(* column, the first is read as the name and the fourth as the             *)
(* description.                                                            *)
PageOfColumns == <<"page of columns">>

PrestoTable ==
  LET cols == Saw(<<"describe">>).cols
      rows == IF cols = {} THEN {} ELSE {PageOfColumns}
  IN IF Saw(<<"describe">>).kind = "none" THEN Null
     ELSE Metadata("unknown", rows, IF Cardinality(cols) >= 4 THEN rows ELSE {})

Table ==
  CASE w = "bigquery" -> BigQueryTable
    [] w = "postgres" -> PostgresTable
    [] w = "redshift" -> RedshiftTable
    [] w = "snowflake" -> SnowflakeTable
    [] w = "sqldatawarehouse" -> SqlDwTable
    [] w = "presto" -> PrestoTable
-----------------------------------------------------------------------------
(* setMetadata(): the comments it sends once it has read the table.  A     *)
(* comment on the dataset names the kind the action has.                   *)
Throws == {<<"throws">>}
CommentOnDataset == IF call.description THEN {<<"comment", Self>>} ELSE {}

(* path.join(""), by which BigQuery's descriptions are found.              *)
JoinPath(p) == FlattenSeq(p)

(* Mutant: fields are found by the first name of their path.               *)
BigQueryCommentsByRecord ==
  LET m == Table
  IN IF m = Null THEN Throws
     ELSE {<<"schema", m.cols,
             {p \in m.cols : p \in m.described \/ \E c \in call.columns : c[1] = p[1]}
               \cup (IF call.description THEN {Self} ELSE {})>>}

(* addDescriptionToMetadata(): the schema as it was read, with the         *)
(* descriptions of the action; without a table there is no schema.         *)
BigQueryComments ==
  LET m == Table
  IN IF m = Null THEN Throws
     ELSE {<<"schema", m.cols,
             {p \in m.cols : p \in m.described \/ \E c \in call.columns : JoinPath(c) = JoinPath(p)}
               \cup (IF call.description THEN {Self} ELSE {})>>}

TopLevel(cols) == {p \in cols : Len(p) = 1}

(* The comment on the dataset is under way when the missing table is noted. *)
PostgresComments ==
  CommentOnDataset \cup
    CASE call.columns = {} -> {}
      [] call.columns # {} /\ Table = Null -> Throws
      [] OTHER -> {<<"comment", p>> : p \in TopLevel(call.columns) \cap Table.cols}

RedshiftComments ==
  CommentOnDataset \cup
    CASE call.columns = {} \/ call.type = "view" -> {}
      [] call.columns # {} /\ call.type # "view" /\ Table = Null -> Throws
      [] OTHER -> {<<"comment", p>> : p \in TopLevel(call.columns) \cap Table.cols}

(* "comment if exists", without reading the table.                         *)
SnowflakeComments ==
  CommentOnDataset \cup
    IF call.type = "view" THEN {} ELSE {<<"commentIfExists", p>> : p \in TopLevel(call.columns)}
-----------------------------------------------------------------------------
(* evaluate(): collectEvaluationQueries() gives the statements of an       *)
(* action one by one, or, "concatenated", as one script for the            *)
(* incremental and one for the full form; empty ones are left out.         *)
Scripts(action) ==
  IF action.incremental THEN <<action.incrementalQueries, action.queries>> ELSE <<action.queries>>

(* What is left of a sequence without the elements that are empty: the     *)
(* j-th is the one before which j - 1 are left.                            *)
Kept(s, empty) == {i \in DOMAIN s : s[i] # empty}
Without(s, empty) ==
  [j \in 1..Cardinality(Kept(s, empty)) |->
     s[CHOOSE i \in Kept(s, empty) : Cardinality({k \in Kept(s, empty) : k < i}) = j - 1]]

Collect(action, concatenate) ==
  IF concatenate
  THEN [i \in DOMAIN Scripts(action) |-> Without(Scripts(action)[i], "")]
  ELSE LET one == IF action.incremental
                  THEN action.incrementalQueries \o action.queries ELSE action.queries
       IN Without([i \in DOMAIN one |-> <<one[i]>>], <<"">>)

(* What is sent, and what is then reported as the query, by position.      *)
Evaluated ==
  Without(Collect(call.action, w \in {"bigquery", "sqldatawarehouse", "presto"}), <<>>)

(* Mutant: reported statement by statement.                                *)
ReportedApart == Collect(call.action, FALSE)

Reported ==
  IF w = "sqldatawarehouse" THEN Collect(call.action, FALSE) ELSE Evaluated

Evaluations ==
  [i \in DOMAIN Evaluated |->
     [query |-> IF i \in DOMAIN Reported THEN Reported[i] ELSE <<"undefined">>,
      ok |-> <<"explain", i>> \notin failed]]
-----------------------------------------------------------------------------
(* The requests of each stage n of a call; none when it is complete.       *)
Just(n, r) == IF n = 1 THEN {r} ELSE {}
OneByOne(n) == IF n \in DOMAIN Evaluated THEN {<<"explain", n>>} ELSE {}
AllAtOnce(n) == IF n = 1 THEN {<<"explain", i>> : i \in DOMAIN Evaluated} ELSE {}

(* search(): a list of what was found, then table() of each.               *)
Search(n, table) ==
  CASE n = 1 -> {<<"list">>}
    [] n = 2 /\ Saw(<<"list">>).kind # "none" -> table
    [] OTHER -> {}

(* setMetadata() where the table is read first.                            *)
ReadThen(n, table, comments) ==
  CASE n = 1 -> table [] n = 2 -> comments [] OTHER -> {}

BigQueryRequests(n) ==
  CASE call.what = "evaluate" -> AllAtOnce(n)
    [] call.what = "tables" -> ReadThen(n, {<<"datasets">>}, {<<"list">>})
    [] call.what = "search" -> Search(n, {<<"metadata">>})
    [] call.what = "table" -> Just(n, <<"metadata">>)
    [] call.what = "preview" ->
         ReadThen(n, {<<"metadata">>},
                  IF Saw(<<"metadata">>).kind = "none" THEN Throws ELSE {<<"rows">>})
    [] call.what = "schemas" -> Just(n, <<"list">>)
    [] call.what = "createSchema" -> Just(n, <<"create">>)
    [] call.what = "setMetadata" -> ReadThen(n, {<<"metadata">>}, BigQueryComments)
    [] OTHER -> {}

(* table() of Postgres and Redshift.                                       *)
PostgresParts == {<<"type">>, <<"columns">>, <<"descriptions">>}
TypeAndColumns == {<<"type">>, <<"columns">>}

(* The requests of all adapters that are made of statements alone.         *)
Statement(n) ==
  CASE call.what = "evaluate" -> OneByOne(n)
    [] call.what \in {"tables", "schemas"} -> Just(n, <<"list">>)
    [] call.what = "preview" -> Just(n, <<"rows">>)
    [] call.what = "createSchema" -> Just(n, <<"create">>)
    [] OTHER -> {}

(* create() opens the tunnel before there is a pool; close() ends the pool *)
(* before the tunnel.                                                      *)
PgOpen(n) == IF call.tunnel THEN Just(n, <<"openTunnel">>) ELSE {}
PgClose(n) ==
  ReadThen(n, {<<"endPool">>}, IF call.tunnel THEN {<<"closeTunnel">>} ELSE {})

PostgresRequests(n) ==
  CASE call.what = "create" -> PgOpen(n)
    [] call.what = "search" -> Search(n, PostgresParts)
    [] call.what = "table" -> ReadThen(n, PostgresParts, {})
    [] call.what = "close" -> PgClose(n)
    [] call.what = "setMetadata" -> ReadThen(n, PostgresParts, PostgresComments)
    [] OTHER -> Statement(n)

RedshiftRequests(n) ==
  CASE call.what = "create" -> PgOpen(n)
    [] call.what = "search" -> Search(n, TypeAndColumns)
    [] call.what = "table" -> ReadThen(n, TypeAndColumns, {})
    [] call.what = "close" -> PgClose(n)
    [] call.what = "setMetadata" -> ReadThen(n, TypeAndColumns, RedshiftComments)
    [] OTHER -> Statement(n)

(* connect(): first a plain connection, whose errors can be caught.        *)
SnowflakeConnect(n) == ReadThen(n, {<<"https">>}, {<<"connect">>})

SnowflakeRequests(n) ==
  CASE call.what = "create" -> SnowflakeConnect(n)
    [] call.what = "search" -> Search(n, TypeAndColumns)
    [] call.what = "table" -> ReadThen(n, TypeAndColumns, {})
    [] call.what = "close" -> Just(n, <<"disconnect">>)
    [] call.what = "setMetadata" -> IF n = 1 THEN SnowflakeComments ELSE {}
    [] OTHER -> Statement(n)

SqlDwRequests(n) ==
  CASE call.what = "search" -> Search(n, TypeAndColumns)
    [] call.what = "table" -> ReadThen(n, TypeAndColumns, {})
    [] call.what = "close" -> Just(n, <<"disconnect">>)
    [] OTHER -> Statement(n)

(* tables() asks for the databases, then for the schemas of each, then for *)
(* the tables of each; there is one database here.                         *)
PrestoRequests(n) ==
  CASE call.what = "tables" ->
         (CASE n = 1 -> {<<"databases">>} [] n = 2 -> {<<"schemas">>} [] n = 3 -> {<<"list">>}
            [] OTHER -> {})
    [] call.what = "table" -> Just(n, <<"describe">>)
    [] OTHER -> Statement(n)

Requests(n) ==
  CASE w = "bigquery" -> BigQueryRequests(n)
    [] w = "postgres" -> PostgresRequests(n)
    [] w = "redshift" -> RedshiftRequests(n)
    [] w = "snowflake" -> SnowflakeRequests(n)
    [] w = "sqldatawarehouse" -> SqlDwRequests(n)
    [] w = "presto" -> PrestoRequests(n)

(* What the call resolves to.                                              *)
Value ==
  CASE call.what = "table" -> Table
    [] call.what = "search" ->
         IF w = "presto" THEN {} ELSE IF Saw(<<"list">>).kind = "none" THEN {} ELSE {Table}
    [] call.what = "evaluate" -> Evaluations
    [] OTHER -> "done"

CallInit ==
  /\ call \in CallsMade
  /\ dataset \in {None, Metadata("table", Paths, {}), Metadata("view", TopLevel(Paths), {})}
  /\ stage = 0 /\ waiting = {} /\ answers = <<>> /\ failed = {}
  /\ reply = "pending"
  /\ during = {dataset} /\ changes = 0

(* The stage is complete: the next one begins, or the call settles.        *)
NextStage ==
  /\ reply = "pending" /\ waiting = {}
  /\ LET rs == Requests(stage + 1)
     IN IF rs = {}
        THEN reply' = "resolved" /\ UNCHANGED <<stage, waiting>>
        ELSE /\ stage' = stage + 1
             /\ waiting' = rs \ Throws
             /\ reply' = IF Throws \subseteq rs THEN "rejected" ELSE "pending"
  /\ UNCHANGED <<call, dataset, answers, failed, during, changes>>

(* The warehouse refuses comments on what is not there, or not of the kind *)
(* that is named, and schemas without one of the table's columns.          *)
Refused(r) ==
  CASE r[1] = "rows" -> dataset.kind = "none"
    [] r[1] = "comment" /\ r[2] = Self -> dataset.kind # call.type
    [] r[1] = "comment" /\ r[2] # Self -> r[2] \notin dataset.cols
    [] r[1] = "schema" -> dataset.kind = "none" \/ ~(dataset.cols \subseteq r[2])
    [] OTHER -> FALSE

Described(r) ==
  CASE r[1] \in {"comment", "commentIfExists"} ->
         [dataset EXCEPT !.described = @ \cup ({r[2]} \cap (dataset.cols \cup {Self}))]
    [] r[1] = "schema" -> Metadata(dataset.kind, r[2], (dataset.described \cap {Self}) \cup r[3])
    [] OTHER -> dataset

(* A request is answered, also after the call was rejected.                *)
Answer(r) ==
  /\ r \in waiting /\ ~Refused(r)
  /\ waiting' = waiting \ {r}
  /\ answers' = [q \in DOMAIN answers \cup {r} |-> IF q = r THEN dataset ELSE answers[q]]
  /\ dataset' = Described(r)
  /\ during' = IF reply = "pending" THEN during \cup {dataset'} ELSE during
  /\ UNCHANGED <<call, stage, failed, reply, changes>>

(* A request fails: a query that does not evaluate is an answer.           *)
Fail(r) ==
  /\ r \in waiting
  /\ waiting' = waiting \ {r}
  /\ failed' = failed \cup {r}
  /\ reply' = IF call.what # "evaluate" /\ reply = "pending" THEN "rejected" ELSE reply
  /\ UNCHANGED <<call, dataset, stage, answers, during, changes>>

(* Somebody else drops, creates or replaces the dataset.                   *)
OthersChange(d) ==
  /\ changes < MaxChanges /\ d # dataset /\ IsDataset(d)
  /\ dataset' = d
  /\ changes' = changes + 1
  /\ during' = IF reply = "pending" THEN during \cup {d} ELSE during
  /\ UNCHANGED <<call, stage, waiting, answers, failed, reply>>

CallNext ==
  \/ NextStage
  \/ \E r \in waiting : Answer(r) \/ Fail(r)
  \/ \E kind \in {"none", "table", "view"}, cols \in {{}, TopLevel(Paths), Paths} :
       OthersChange(Metadata(kind, IF kind = "none" THEN {} ELSE cols, {}))
-----------------------------------------------------------------------------
CallTypeOK ==
  /\ call \in CallsMade
  /\ IsDataset(dataset)
  /\ stage \in Nat /\ changes \in 0..MaxChanges
  /\ waiting \cap (DOMAIN answers \cup failed) = {}
  /\ reply \in {"pending", "resolved", "rejected"}

Found == CASE call.what = "table" -> {Value} [] call.what = "search" -> Value [] OTHER -> {}

(* table() and search() tell what was so while they asked: "null" means    *)
(* that there was no dataset at some moment, anything else that there was  *)
(* one of this kind and one with these columns, and nothing is invented    *)
(* when others change nothing (run.ts:402-417, build.ts:205-228).  Of      *)
(* Presto only whether there was a dataset, and whether one had columns.   *)
MetadataWasTrue ==
  reply = "resolved" => \A m \in Found :
    IF m = Null THEN \E d \in during : d.kind = "none"
    ELSE /\ m.kind # "unknown" => \E d \in during : d.kind = m.kind
         /\ \E d \in during : d.kind # "none"
         /\ \E d \in during : IF w = "presto" THEN d.cols = {} <=> m.cols = {}
                               ELSE d.cols = m.cols

(* setMetadata() that resolves while nobody else changes the dataset has   *)
(* described what the action describes and the dataset has, and nothing    *)
(* else; and only a dataset of another kind, or a request that fails,      *)
(* makes it reject (run.ts:390-400).                                       *)
DescriptionsArrive ==
  call.what = "setMetadata" /\ changes = 0 /\ w \notin {"sqldatawarehouse", "presto"} =>
    /\ reply = "resolved" =>
         /\ call.description => Self \in dataset.described
         /\ dataset.described \subseteq call.columns \cup {Self}
         /\ ~(w \in {"redshift", "snowflake"} /\ call.type = "view") =>
              (IF w = "bigquery" THEN call.columns ELSE TopLevel(call.columns))
                \cap dataset.cols \subseteq dataset.described
    /\ reply = "rejected" => dataset.kind # call.type \/ failed # {}

(* evaluate() has sent every query when it resolves, and reports each with *)
(* the fate of that query (core/adapters/index.ts:117-185).                *)
EvaluationsMatch ==
  call.what = "evaluate" /\ w # "sqldatawarehouse" /\ reply = "resolved" =>
    \A i \in DOMAIN Evaluated :
      /\ Value[i].query = Evaluated[i]
      /\ <<"explain", i>> \in IF Value[i].ok THEN DOMAIN answers ELSE failed
=============================================================================
