---------------------------- MODULE WarehouseProofs ----------------------------
(***************************************************************************)
(* The adapters, for any number of statements, rows, attempts, callbacks   *)
(* and clients, any limits, and all calls about any tables: a cancel that  *)
(* was heard is final, results are whole, clients are neither shared nor   *)
(* lost, and what the calls tell and send is what they should.             *)
(***************************************************************************)
EXTENDS MCWarehouse, FiniteSetTheorems, SequenceTheorems, TLAPS

USE DriverAssumption DEF Places, Jobs

(* All rows that the adapter has seen were counted, up to the limit.       *)
Counted(s) == sent[s] <= total[s] /\ results[s] = Least(sent[s], RowLimit)

(* The adapter has seen what it has to.                                    *)
Seen(s) == sent[s] = total[s] \/ sent[s] > RowLimit

Whole(s) ==
  /\ job[s] \in {"succeeded", "stopped"}
  /\ job[s] = "stopped" => sent[s] > RowLimit
  /\ Seen(s)

LEMMA WholeResult ==
  ASSUME TypeOK, NEW s \in Statements, Counted(s), Seen(s)
  PROVE  results[s] = Least(total[s], RowLimit)
  BY DEF TypeOK, Counted, Seen, Least
-----------------------------------------------------------------------------
(* BigQuery: an attempt is not looked at any more once isCancelled is set. *)
BigQueryOK(s) ==
  /\ Counted(s)
  /\ outcome[s] = "pending" <=> at[s] # "over"
  /\ heard[s] => flag[s] /\ outcome[s] # "resolved"
  /\ at[s] \in {"streaming", "metadata"} => ~flag[s]
  /\ at[s] = "metadata" => /\ job[s] \in {"succeeded", "failed"}
                           /\ job[s] = "succeeded" => Seen(s)
  /\ outcome[s] = "resolved" => Whole(s)

BigQueryInv == TypeOK /\ \A s \in Statements : BigQueryOK(s)

LEMMA InitBigQuery == Init => BigQueryInv
  BY DEF Init, BigQueryInv, BigQueryOK, TypeOK, Counted, Seen, Whole, Least

LEMMA NextBigQuery == BigQueryInv /\ [BigQuery!Next]_vars => BigQueryInv'
<1> SUFFICES ASSUME BigQueryInv, [BigQuery!Next]_vars PROVE BigQueryInv'
  OBVIOUS
<1> USE DEF BigQueryInv, TypeOK
<1>1. ASSUME NEW s \in Statements, BigQuery!Step(s) PROVE BigQueryInv'
  <2> USE DEF Goto, Settled, BigQuery!Goto, BigQuery!Settled, BigQuery!Fails
  <2>1. CASE \/ BigQuery!Start(s) \/ BigQuery!JobEnds(s) \/ BigQuery!JobFails(s)
             \/ BigQuery!StreamEnds(s)
    <3>1. TypeOK'
      BY <2>1 DEF BigQuery!Start, BigQuery!JobEnds, BigQuery!JobFails, BigQuery!StreamEnds
    <3>2. \A r \in Statements : BigQueryOK(r)'
      BY <2>1 DEF BigQuery!Start, BigQuery!JobEnds, BigQuery!JobFails, BigQuery!StreamEnds,
                  BigQueryOK, Counted, Seen, Whole
    <3> QED
      BY <3>1, <3>2
  <2>2. CASE BigQuery!JobCreated(s)
    <3>1. TypeOK'
      BY <2>2 DEF BigQuery!JobCreated, BigQuery!Created
    <3>2. \A r \in Statements : BigQueryOK(r)'
      BY <2>2 DEF BigQuery!JobCreated, BigQuery!Created, BigQueryOK, Counted, Seen, Whole, Least
    <3> QED
      BY <3>1, <3>2
  <2>3. CASE BigQuery!Row(s, "metadata")
    <3>1. TypeOK'
      BY <2>3 DEF BigQuery!Row, BigQuery!HasRoom
    <3>2. \A r \in Statements : BigQueryOK(r)'
      BY <2>3 DEF BigQuery!Row, BigQuery!HasRoom, BigQueryOK, Counted, Seen, Whole, Least
    <3> QED
      BY <3>1, <3>2
  <2>4. CASE BigQuery!JobRefused(s) \/ BigQuery!StreamFails(s) \/ BigQuery!Metadata(s)
    <3>1. TypeOK'
      BY <2>4 DEF BigQuery!JobRefused, BigQuery!StreamFails, BigQuery!Metadata, BigQuery!JobError
    <3>2. \A r \in Statements : BigQueryOK(r)'
      BY <2>4 DEF BigQuery!JobRefused, BigQuery!StreamFails, BigQuery!Metadata, BigQuery!JobError,
                  BigQueryOK, Counted, Seen, Whole
    <3> QED
      BY <3>1, <3>2
  <2> QED
    BY <1>1, <2>1, <2>2, <2>3, <2>4 DEF BigQuery!Step
<1>2. CASE BigQuery!Cancel
  BY <1>2 DEF BigQuery!Cancel, BigQueryOK, Counted, Seen, Whole
<1>3. CASE UNCHANGED vars
  BY <1>3 DEF vars, BigQueryOK, Counted, Seen, Whole
<1> QED
  BY <1>1, <1>2, <1>3 DEF BigQuery!Next

LEMMA BigQueryHolds == BigQueryInv => HeardCancelIsFinal /\ ResultsAreWhole
  BY WholeResult DEF BigQueryInv, BigQueryOK, Whole, HeardCancelIsFinal, ResultsAreWhole

(* BigQuery's execute(): a cancel that a handler heard ends the call, also *)
(* between two attempts; and a call that resolves has all rows of a job    *)
(* that succeeded, or as many as the limit (bigquery.ts:346-411).          *)
THEOREM BigQueryIsRight ==
  Init /\ [][BigQuery!Next]_vars => [](HeardCancelIsFinal /\ ResultsAreWhole)
BY BigQueryHolds, InitBigQuery, NextBigQuery, PTL
-----------------------------------------------------------------------------
(* Snowflake: rows stream only from a statement that succeeded, so what    *)
(* the warehouse has stopped is still waiting for "complete".              *)
SnowflakeOK(s) ==
  /\ Counted(s)
  /\ at[s] = "queued" => job[s] = "none"
  /\ job[s] = "running" => at[s] = "creating"
  /\ job[s] = "stopped" => at[s] \in {"creating", "over"}
  /\ at[s] \in {"streaming", "metadata"} => job[s] = "succeeded"
  /\ at[s] = "metadata" => Seen(s)
  /\ outcome[s] = "pending" => at[s] # "over"
  /\ outcome[s] = "resolved" => at[s] = "over" /\ job[s] = "succeeded" /\ Seen(s)
  /\ heard[s] => \/ outcome[s] = "rejected"
                 \/ outcome[s] = "pending" /\ job[s] = "stopped" /\ at[s] = "creating"

SnowflakeInv == TypeOK /\ \A s \in Statements : SnowflakeOK(s)

LEMMA InitSnowflake == Init => SnowflakeInv
  BY DEF Init, SnowflakeInv, SnowflakeOK, TypeOK, Counted, Seen, Least

LEMMA NextSnowflake == SnowflakeInv /\ [Snowflake!Next]_vars => SnowflakeInv'
<1> SUFFICES ASSUME SnowflakeInv, [Snowflake!Next]_vars PROVE SnowflakeInv'
  OBVIOUS
<1> USE DEF SnowflakeInv, TypeOK, Snowflake!Goto, Snowflake!Settled
<1>1. ASSUME NEW s \in Statements,
             \/ Snowflake!Start(s) \/ Snowflake!JobEnds(s) \/ Snowflake!JobFails(s)
             \/ Snowflake!Complete(s)
      PROVE  SnowflakeInv'
  <2> USE DEF Snowflake!Start, Snowflake!JobEnds, Snowflake!JobFails, Snowflake!Complete,
              Snowflake!CompletedWell
  <2>1. TypeOK'
    BY <1>1
  <2>2. \A r \in Statements : SnowflakeOK(r)'
    BY <1>1 DEF SnowflakeOK, Counted, Seen
  <2> QED
    BY <2>1, <2>2
<1>2. ASSUME NEW s \in Statements, Snowflake!Row(s, "metadata") PROVE SnowflakeInv'
  <2>1. TypeOK'
    BY <1>2 DEF Snowflake!Row, Snowflake!HasRoom
  <2>2. \A r \in Statements : SnowflakeOK(r)'
    BY <1>2 DEF Snowflake!Row, Snowflake!HasRoom, SnowflakeOK, Counted, Seen, Least
  <2> QED
    BY <2>1, <2>2
<1>3. ASSUME NEW s \in Statements,
             \/ Snowflake!StreamFails(s) \/ Snowflake!StreamEnds(s)
             \/ Snowflake!CancelWorks(s) \/ Snowflake!CancelRefused(s)
      PROVE  SnowflakeInv'
  <2> USE DEF Snowflake!StreamFails, Snowflake!StreamEnds, Snowflake!CancelWorks,
              Snowflake!CancelRefused
  <2>1. TypeOK'
    BY <1>3
  <2>2. \A r \in Statements : SnowflakeOK(r)'
    BY <1>3 DEF SnowflakeOK, Counted, Seen
  <2> QED
    BY <2>1, <2>2
<1>4. CASE Snowflake!Cancel \/ UNCHANGED vars
  BY <1>4 DEF Snowflake!Cancel, vars, SnowflakeOK, Counted, Seen
<1> QED
  BY <1>1, <1>2, <1>3, <1>4 DEF Snowflake!Next, Snowflake!Step

LEMMA SnowflakeHolds == SnowflakeInv => HeardCancelIsFinal /\ ResultsAreWhole
  BY WholeResult DEF SnowflakeInv, SnowflakeOK, HeardCancelIsFinal, ResultsAreWhole

(* Snowflake's execute(): the same, whether the warehouse stops the        *)
(* statement or refuses to, or the statement has ended before it was asked *)
(* (snowflake.ts:94-143).                                                  *)
THEOREM SnowflakeIsRight ==
  Init /\ [][Snowflake!Next]_vars => [](HeardCancelIsFinal /\ ResultsAreWhole)
BY SnowflakeHolds, InitSnowflake, NextSnowflake, PTL
-----------------------------------------------------------------------------
(* SQL Data Warehouse: what was cancelled is either not sent at all, or    *)
(* has been stopped and can only end with an error.                        *)
SqlDwOK(s) ==
  /\ Counted(s)
  /\ outcome[s] = "pending" <=> at[s] # "over"
  /\ at[s] \in {"queued", "creating"} => job[s] = "none"
  /\ heard[s] /\ outcome[s] = "pending" =>
       \/ at[s] = "creating" /\ flag[s]
       \/ at[s] = "streaming" /\ job[s] = "stopped"
  /\ heard[s] => outcome[s] # "resolved"
  /\ outcome[s] = "resolved" => Whole(s)

SqlDwInv == TypeOK /\ \A s \in Statements : SqlDwOK(s)

LEMMA InitSqlDw == Init => SqlDwInv
  BY DEF Init, SqlDwInv, SqlDwOK, TypeOK, Counted, Seen, Whole, Least

LEMMA NextSqlDw == SqlDwInv /\ [SqlDw!Next]_vars => SqlDwInv'
<1> SUFFICES ASSUME SqlDwInv, [SqlDw!Next]_vars PROVE SqlDwInv'
  OBVIOUS
<1> USE DEF SqlDwInv, TypeOK, SqlDw!Goto, SqlDw!Settled
<1>1. ASSUME NEW s \in Statements,
             \/ SqlDw!Request(s) \/ SqlDw!Run(s) \/ SqlDw!Ends(s)
             \/ SqlDw!JobEnds(s) \/ SqlDw!JobFails(s)
      PROVE  SqlDwInv'
  <2> USE DEF SqlDw!Request, SqlDw!Run, SqlDw!Ends, SqlDw!JobEnds, SqlDw!JobFails
  <2>1. TypeOK'
    BY <1>1
  <2>2. \A r \in Statements : SqlDwOK(r)'
    BY <1>1 DEF SqlDwOK, Counted, Seen, Whole
  <2> QED
    BY <2>1, <2>2
<1>2. ASSUME NEW s \in Statements, SqlDw!RowArrives(s) PROVE SqlDwInv'
  <2> USE DEF SqlDw!RowArrives, SqlDw!HasRoom, SqlDw!AtLimit
  <2>1. TypeOK'
    BY <1>2
  <2>2. \A r \in Statements : SqlDwOK(r)'
    BY <1>2 DEF SqlDwOK, Counted, Seen, Whole, Least
  <2> QED
    BY <2>1, <2>2
<1>3. CASE SqlDw!Cancel
  <2>1. TypeOK'
    BY <1>3 DEF SqlDw!Cancel
  <2>2. \A r \in Statements : SqlDwOK(r)'
    BY <1>3 DEF SqlDw!Cancel, SqlDwOK, Counted, Seen, Whole
  <2> QED
    BY <2>1, <2>2
<1>4. CASE SqlDw!NoPool
  <2>1. TypeOK'
    BY <1>4 DEF SqlDw!NoPool
  <2>2. \A r \in Statements : SqlDwOK(r)'
    BY <1>4 DEF SqlDw!NoPool, SqlDwOK, Counted, Seen, Whole
  <2> QED
    BY <2>1, <2>2
<1>5. CASE UNCHANGED vars
  BY <1>5 DEF vars, SqlDwOK, Counted, Seen, Whole
<1> QED
  BY <1>1, <1>2, <1>3, <1>4, <1>5 DEF SqlDw!Next, SqlDw!Step

LEMMA SqlDwHolds == SqlDwInv => HeardCancelIsFinal /\ ResultsAreWhole
  BY WholeResult DEF SqlDwInv, SqlDwOK, Whole, HeardCancelIsFinal, ResultsAreWhole

(* SQL Data Warehouse's execute(): the same, whether the request still     *)
(* waits for a connection or streams, and where the row beyond the limit   *)
(* is what cancels the request (sqldatawarehouse.ts:51-87).                *)
THEOREM SqlDwIsRight ==
  Init /\ [][SqlDw!Next]_vars => [](HeardCancelIsFinal /\ ResultsAreWhole)
BY SqlDwHolds, InitSqlDw, NextSqlDw, PTL
-----------------------------------------------------------------------------
(* Presto: once the flag is set, no poll brings a page or an end.          *)
PrestoInv ==
  /\ TypeOK
  /\ \A s \in Statements : heard[s] => flag[s] /\ outcome[s] # "resolved"

LEMMA InitPresto == Init => PrestoInv
  BY DEF Init, PrestoInv, TypeOK

LEMMA NextPresto == PrestoInv /\ [Presto!Next]_vars => PrestoInv'
<1> SUFFICES ASSUME PrestoInv, [Presto!Next]_vars PROVE PrestoInv'
  OBVIOUS
<1> USE DEF PrestoInv, TypeOK, Presto!Goto, Presto!Settled, Presto!MayPoll
<1>1. ASSUME NEW s \in Statements, Presto!Start(s) \/ Presto!JobEnds(s) \/ Presto!JobFails(s)
      PROVE  PrestoInv'
  BY <1>1 DEF Presto!Start, Presto!JobEnds, Presto!JobFails
<1>2. ASSUME NEW s \in Statements, Presto!Page(s) PROVE PrestoInv'
  <2>1. TypeOK'
    <3>1. CASE Presto!HasRoom(s)
      BY <1>2, <3>1 DEF Presto!Page, Presto!HasRoom
    <3>2. CASE ~Presto!HasRoom(s)
      <4>1. flag' = [flag EXCEPT ![s] = TRUE]
        BY <1>2, <3>2 DEF Presto!Page
      <4>2. flag' \in [Statements -> BOOLEAN]
        BY <4>1
      <4> QED
        BY <1>2, <3>2, <4>2 DEF Presto!Page
    <3> QED
      BY <3>1, <3>2
  <2>2. \A r \in Statements : (heard[r] => flag[r] /\ outcome[r] # "resolved")'
    BY <1>2 DEF Presto!Page
  <2> QED
    BY <2>1, <2>2
<1>3. ASSUME NEW s \in Statements, Presto!Ends(s) \/ Presto!PollCancels(s)
      PROVE  PrestoInv'
  BY <1>3 DEF Presto!Ends, Presto!PollCancels
<1>4. CASE Presto!Cancel \/ UNCHANGED vars
  BY <1>4 DEF Presto!Cancel, vars
<1> QED
  BY <1>1, <1>2, <1>3, <1>4 DEF Presto!Next, Presto!Step

LEMMA PrestoHolds == PrestoInv => HeardCancelIsFinal
  BY DEF PrestoInv, HeardCancelIsFinal

(* Presto's execute(): a cancel is final when it comes before the first    *)
(* page (presto.ts:33-87).                                                 *)
THEOREM PrestoIsRight == Init /\ [][Presto!Next]_vars => []HeardCancelIsFinal
BY InitPresto, NextPresto, PrestoHolds, PTL
-----------------------------------------------------------------------------
(* The pool of Postgres clients.  Where calls and clients are; counters of *)
(* statements play no part.                                                *)
PoolPlaces ==
  /\ lock \in [Locks -> LockPlaces]
  /\ client \in [Locks -> Connections \cup {0}]
  /\ state \in [Connections -> {"idle", "out", "closed"}]
  /\ \A l \in Locks : Holding(l) => client[l] \in Connections

PoolInv == PoolPlaces /\ ClientsAreNotShared /\ NoClientIsLost

USE DEF LockPlaces, Holding

LEMMA InitPool == PoolInit => PoolInv
  BY DEF PoolInit, PoolInv, PoolPlaces, ClientsAreNotShared, NoClientIsLost

(* A call goes on with the client that it has, which may be closed by it.  *)
LEMMA HolderStep ==
  ASSUME PoolInv, NEW l \in Locks, Holding(l),
         NEW place \in {"held", "query", "finally"}, lock' = [lock EXCEPT ![l] = place],
         UNCHANGED client,
         NEW after \in {state[client[l]], "closed"}, state' = [state EXCEPT ![client[l]] = after]
  PROVE  PoolInv'
<1> USE DEF PoolInv, PoolPlaces
<1>1. PoolPlaces'
  OBVIOUS
<1>2. \A k \in Locks : Holding(k)' <=> Holding(k)
  OBVIOUS
<1>3. ClientsAreNotShared'
  BY <1>2 DEF ClientsAreNotShared
<1>4. NoClientIsLost'
  <2> SUFFICES ASSUME NEW c \in Connections, state'[c] = "out"
               PROVE  \E k \in Locks : Holding(k)' /\ client'[k] = c
    BY DEF NoClientIsLost
  <2>1. state[c] = "out"
    OBVIOUS
  <2> QED
    BY <1>2, <2>1 DEF NoClientIsLost
<1> QED
  BY <1>1, <1>3, <1>4

LEMMA NextPool == PoolInv /\ [PoolNext]_poolVars => PoolInv'
<1> SUFFICES ASSUME PoolInv, [PoolNext]_poolVars PROVE PoolInv'
  OBVIOUS
<1> USE DEF PoolInv, PoolPlaces
<1>1. ASSUME NEW l \in Locks, LockStep(l) PROVE PoolInv'
  <2>1. CASE Ask(l) \/ ConnectFails(l)
    <3>1. /\ lock[l] \in {"new", "waiting"} /\ UNCHANGED <<client, state>>
          /\ \E place \in {"waiting", "over"} : lock' = [lock EXCEPT ![l] = place]
      BY <2>1 DEF Ask, ConnectFails
    <3>2. \A k \in Locks : Holding(k)' <=> Holding(k)
      BY <3>1
    <3> QED
      BY <3>1, <3>2 DEF ClientsAreNotShared, NoClientIsLost
  <2>2. CASE Connect(l)
    <3>1. PICK c \in Connections :
            /\ IF Free # {} THEN c \in Free ELSE Unused(c) /\ Cardinality(Pooled) < MaxClients
            /\ client' = [client EXCEPT ![l] = c]
            /\ state' = [state EXCEPT ![c] = "out"]
      BY <2>2 DEF Connect
    <3>2. lock[l] = "waiting" /\ lock' = [lock EXCEPT ![l] = "held"]
      BY <2>2 DEF Connect
    <3>3. \A k \in Locks : Holding(k) => client[k] # c
      BY <3>1 DEF Free, Unused, ClientsAreNotShared
    <3>4. PoolPlaces'
      BY <3>1, <3>2
    <3>5. ClientsAreNotShared'
      BY <3>1, <3>2, <3>3 DEF ClientsAreNotShared
    <3>6. NoClientIsLost'
      BY <3>1, <3>2 DEF NoClientIsLost
    <3> QED
      BY <3>4, <3>5, <3>6
  <2>3. CASE Execute(l) \/ QueryEnds(l) \/ CallbackEnds(l)
    <3>1. /\ Holding(l) /\ UNCHANGED <<client, state>>
          /\ \E place \in {"held", "query", "finally"} : lock' = [lock EXCEPT ![l] = place]
      BY <2>3 DEF Execute, QueryEnds, CallbackEnds
    <3>2. state' = [state EXCEPT ![client[l]] = state[client[l]]]
      BY <3>1
    <3> QED
      BY <3>1, <3>2, HolderStep
  <2>4. CASE QueryFails(l)
    <3>1. /\ Holding(l) /\ UNCHANGED client
          /\ \E place \in {"held", "finally"} : lock' = [lock EXCEPT ![l] = place]
          /\ state' = [state EXCEPT ![client[l]] = AfterRelease(client[l], TRUE)]
      BY <2>4 DEF QueryFails
    <3>2. AfterRelease(client[l], TRUE) \in {state[client[l]], "closed"}
      BY DEF AfterRelease
    <3> QED
      BY <3>1, <3>2, HolderStep
  <2>5. CASE Finally(l)
    <3>1. /\ lock[l] = "finally" /\ lock' = [lock EXCEPT ![l] = "over"] /\ UNCHANGED client
          /\ state' = [state EXCEPT ![client[l]] = AfterRelease(client[l], FALSE)]
      BY <2>5 DEF Finally
    <3>2. AfterRelease(client[l], FALSE) \in {"idle", "closed"}
      BY <3>1 DEF AfterRelease
    <3>3. \A k \in Locks : Holding(k)' => k # l /\ Holding(k) /\ client[k] # client[l]
      BY <3>1 DEF ClientsAreNotShared
    <3>4. PoolPlaces'
      BY <3>1, <3>2
    <3>5. ClientsAreNotShared'
      BY <3>1, <3>3 DEF ClientsAreNotShared
    <3>6. NoClientIsLost'
      <4> SUFFICES ASSUME NEW c \in Connections, state'[c] = "out"
                   PROVE  \E k \in Locks : Holding(k)' /\ client'[k] = c
        BY DEF NoClientIsLost
      <4>1. c # client[l] /\ state[c] = "out"
        BY <3>1, <3>2
      <4>2. PICK k \in Locks : Holding(k) /\ client[k] = c
        BY <4>1 DEF NoClientIsLost
      <4> QED
        BY <3>1, <4>1, <4>2
    <3> QED
      BY <3>4, <3>5, <3>6
  <2> QED
    BY <1>1, <2>1, <2>2, <2>3, <2>4, <2>5 DEF LockStep
<1>2. ASSUME NEW c \in Connections, ClientErrors(c) PROVE PoolInv'
  BY <1>2 DEF ClientErrors, ClientsAreNotShared, NoClientIsLost
<1>3. CASE Close
  BY <1>3 DEF Close, ClientsAreNotShared, NoClientIsLost
<1>4. CASE UNCHANGED poolVars
  BY <1>4 DEF poolVars, ClientsAreNotShared, NoClientIsLost
<1> QED
  BY <1>1, <1>2, <1>3, <1>4 DEF PoolNext

LEMMA PoolInvariant == PoolSpec => []PoolInv
  BY InitPool, NextPool, PTL DEF PoolSpec

(* Whatever statements fail, connections break, and releases are repeated: *)
(* a client serves one callback at a time, and never one from the pool     *)
(* that is also with a callback (postgres.ts:77-122).                      *)
THEOREM ClientsServeOneCallback == PoolSpec => []ClientsAreNotShared
<1>1. PoolInv => ClientsAreNotShared
  BY DEF PoolInv
<1> QED
  BY <1>1, PoolInvariant, PTL

(* And a client that is out of the pool is always with somebody who will   *)
(* give it back, so that the pool never shrinks for the others             *)
(* (postgres.ts:53-80, 116-121).                                           *)
THEOREM ClientsComeBack == PoolSpec => []NoClientIsLost
<1>1. PoolInv => NoClientIsLost
  BY DEF PoolInv
<1> QED
  BY <1>1, PoolInvariant, PTL
-----------------------------------------------------------------------------
(* Calls of several requests.  What is asked to know a table:              *)
Reads ==
  CASE w = "bigquery" -> {<<"metadata">>}
    [] w = "postgres" -> PostgresParts
    [] w \in {"redshift", "snowflake", "sqldatawarehouse"} -> TypeAndColumns
    [] w = "presto" -> {<<"describe">>}

(* The stage in which it is.                                               *)
ReadStage == IF call.what = "search" THEN 2 ELSE 1

(* Answered or on the way.                                                 *)
Known == DOMAIN answers \cup waiting

(* While a call to table() or search() is pending, or when it resolved,    *)
(* what was answered is from this time, and nothing that is needed is      *)
(* missing.                                                                *)
Asking == call.what \in {"table", "search"} /\ reply # "rejected"
AskingOK ==
  /\ \A r \in DOMAIN answers : Saw(r) \in during
  /\ stage >= ReadStage => Reads \subseteq Known
  /\ call.what = "search" /\ stage >= 1 => <<"list">> \in Known
  /\ reply = "resolved" /\ call.what = "table" => stage >= 1
  /\ reply = "resolved" /\ call.what = "search" /\ w # "presto" =>
       stage >= 1 /\ (stage = 1 => Saw(<<"list">>).kind = "none")

CallPlaces ==
  /\ call \in CallsMade /\ stage \in Nat /\ changes \in Nat
  /\ reply \in {"pending", "resolved", "rejected"}
  /\ reply = "resolved" => waiting = {}
  /\ reply = "pending" => dataset \in during

MetadataInv == CallPlaces /\ (Asking => AskingOK)

LEMMA InitCall == CallInit => CallPlaces
  BY DEF CallInit, CallPlaces

LEMMA NextPlaces == CallPlaces /\ [CallNext]_callVars => CallPlaces'
<1> SUFFICES ASSUME CallPlaces, [CallNext]_callVars PROVE CallPlaces'
  OBVIOUS
<1> USE DEF CallPlaces
<1>1. CASE NextStage
  <2> DEFINE rs == Requests(stage + 1)
  <2> HIDE DEF rs
  <2>1. CASE rs = {}
    BY <1>1, <2>1 DEF NextStage, rs
  <2>2. CASE rs # {}
    BY <1>1, <2>2 DEF NextStage, rs
  <2> QED
    BY <2>1, <2>2
<1>2. ASSUME NEW r \in waiting, Answer(r) PROVE CallPlaces'
  BY <1>2 DEF Answer
<1>3. ASSUME NEW r \in waiting, Fail(r) PROVE CallPlaces'
  BY <1>3 DEF Fail
<1>4. ASSUME NEW d, OthersChange(d) PROVE CallPlaces'
  BY <1>4 DEF OthersChange
<1>5. CASE UNCHANGED callVars
  BY <1>5 DEF callVars
<1> QED
  BY <1>1, <1>2, <1>3, <1>4, <1>5 DEF CallNext

(* The call does not change: neither does what it asks for.                *)
LEMMA SameCall == [CallNext]_callVars => call' = call
<1> SUFFICES ASSUME [CallNext]_callVars PROVE call' = call
  OBVIOUS
<1>1. ASSUME NEW r, Answer(r) \/ Fail(r) PROVE call' = call
  BY <1>1 DEF Answer, Fail
<1>2. ASSUME NEW d, OthersChange(d) PROVE call' = call
  BY <1>2 DEF OthersChange
<1> QED
  BY <1>1, <1>2 DEF CallNext, NextStage, callVars

(* table() asks for the table at once; search() after a list of what there *)
(* is.  Presto's search() asks nothing.                                    *)
LEMMA WhatIsAsked ==
  ASSUME CallPlaces, NEW n \in Nat \ {0}
  PROVE  /\ call.what = "table" => Requests(n) = IF n = 1 THEN Reads ELSE {}
         /\ call.what = "search" =>
              Requests(n) = IF w = "presto" THEN {} ELSE Search(n, Reads)
<1> USE CallAssumption DEF CallPlaces, CallsPossible, Requests, Reads, w
<1>1. CASE call.what = "table"
  BY <1>1 DEF BigQueryRequests, PostgresRequests, RedshiftRequests, SnowflakeRequests,
              SqlDwRequests, PrestoRequests, Just, ReadThen
<1>2. CASE call.what = "search"
  BY <1>2 DEF BigQueryRequests, PostgresRequests, RedshiftRequests, SnowflakeRequests,
              SqlDwRequests, PrestoRequests, Statement
<1> QED
  BY <1>1, <1>2

LEMMA SomethingIsRead == CallPlaces => Reads # {}
  BY CallAssumption DEF CallPlaces, CallsPossible, Reads, w, PostgresParts, TypeAndColumns

LEMMA InitMetadata == CallInit => MetadataInv
  BY InitCall DEF CallInit, MetadataInv, AskingOK, ReadStage

LEMMA NextMetadata == MetadataInv /\ [CallNext]_callVars => MetadataInv'
<1> SUFFICES ASSUME MetadataInv, [CallNext]_callVars, Asking' PROVE AskingOK'
  BY NextPlaces DEF MetadataInv
<1>p. CallPlaces /\ (Asking => AskingOK)
  BY DEF MetadataInv
<1>s. call' = call
  BY SameCall
<1>r. Reads' = Reads /\ ReadStage' = ReadStage
  BY <1>s DEF Reads, ReadStage, w
<1> USE <1>p DEF CallPlaces
<1>1. CASE NextStage
  <2> PICK rs : rs = Requests(stage + 1)
    OBVIOUS
  <2>0. /\ call.what = "table" => rs = IF stage + 1 = 1 THEN Reads ELSE {}
        /\ call.what = "search" => rs = IF w = "presto" THEN {} ELSE Search(stage + 1, Reads)
    BY WhatIsAsked
  <2>1. reply = "pending" /\ waiting = {} /\ UNCHANGED <<call, dataset, answers, during>>
    BY <1>1 DEF NextStage
  <2>2. Asking /\ AskingOK
    BY <2>1, <1>s DEF Asking
  <2>3. CASE rs = {}
    <3>1. reply' = "resolved" /\ UNCHANGED <<stage, waiting>>
      BY <1>1, <2>3 DEF NextStage
    <3>2. call.what = "table" => stage >= 1
      BY <2>0, <2>3, SomethingIsRead
    <3>3. call.what = "search" /\ w # "presto" =>
            stage >= 1 /\ (stage = 1 => Saw(<<"list">>).kind = "none")
      BY <2>0, <2>3, SomethingIsRead DEF Search
    <3> QED
      BY <1>s, <1>r, <2>1, <2>2, <3>1, <3>2, <3>3 DEF AskingOK, Known, Saw, w
  <2>4. CASE rs # {}
    <3>1. stage' = stage + 1 /\ waiting' = rs \ Throws /\ reply' # "resolved"
      BY <1>1, <2>4 DEF NextStage
    <3>2. /\ <<"throws">> \notin Reads
      BY CallAssumption DEF CallsPossible, Reads, w, PostgresParts, TypeAndColumns
    <3>3. CASE call.what = "table"
      <4>1. stage = 0 /\ rs = Reads /\ Reads \subseteq Known'
        BY <2>0, <2>4, <3>1, <3>2, <3>3 DEF Throws, Known
      <4> QED
        BY <1>s, <1>r, <2>1, <2>2, <3>1, <3>3, <4>1 DEF AskingOK, Saw
    <3>4. CASE call.what = "search"
      <4>1. CASE stage = 0
        <5>1. rs = {<<"list">>} /\ <<"list">> \in Known'
          BY <2>0, <2>4, <3>1, <3>4, <4>1 DEF Throws, Known, Search
        <5> QED
          BY <1>s, <1>r, <2>1, <2>2, <3>1, <3>4, <4>1, <5>1 DEF AskingOK, Saw, ReadStage
      <4>2. CASE stage = 1
        <5>1. rs = Reads /\ Reads \subseteq Known'
          BY <2>0, <2>4, <3>1, <3>2, <3>4, <4>2 DEF Throws, Known, Search
        <5>2. <<"list">> \in Known'
          BY <2>1, <2>2, <3>4, <4>2 DEF AskingOK, Known
        <5> QED
          BY <1>s, <1>r, <2>1, <2>2, <3>1, <3>4, <4>2, <5>1, <5>2 DEF AskingOK, Saw, ReadStage
      <4>3. stage \in {0, 1}
        BY <2>0, <2>4, <3>4 DEF Search
      <4> QED
        BY <4>1, <4>2, <4>3
    <3> QED
      BY <2>2, <3>3, <3>4 DEF Asking
  <2> QED
    BY <2>3, <2>4
<1>2. ASSUME NEW r \in waiting, Answer(r) PROVE AskingOK'
  <2>1. Asking /\ AskingOK /\ reply = "pending"
    BY <1>2, <1>s DEF Answer, Asking
  <2>2. /\ waiting' = waiting \ {r} /\ UNCHANGED <<stage, reply>>
        /\ answers' = [q \in DOMAIN answers \cup {r} |-> IF q = r THEN dataset ELSE answers[q]]
        /\ during \subseteq during'
    BY <1>2 DEF Answer
  <2>3. Known' = Known
    BY <2>2 DEF Known
  <2> QED
    BY <1>s, <1>r, <2>1, <2>2, <2>3 DEF AskingOK, Saw
<1>3. ASSUME NEW r \in waiting, Fail(r) PROVE AskingOK'
  BY <1>3, <1>s DEF Fail, Asking
<1>4. ASSUME NEW d, OthersChange(d) PROVE AskingOK'
  BY <1>4, <1>s, <1>r DEF OthersChange, Asking, AskingOK, Known, Saw, w
<1>5. CASE UNCHANGED callVars
  BY <1>5, <1>s, <1>r DEF callVars, Asking, AskingOK, Known, Saw, w
<1> QED
  BY <1>1, <1>2, <1>3, <1>4, <1>5 DEF CallNext

(* What is made of the answers is null only when there was no table, and   *)
(* has the kind and the columns of some answer, of Presto whether any.     *)
LEMMA TableWasTrue ==
  ASSUME CallPlaces, Reads \subseteq DOMAIN answers,
         \A r \in DOMAIN answers : Saw(r) \in during
  PROVE  IF Table = Null THEN \E d \in during : d.kind = "none"
         ELSE /\ Table.kind # "unknown" => \E d \in during : d.kind = Table.kind
              /\ \E d \in during : d.kind # "none"
              /\ \E d \in during : IF w = "presto" THEN d.cols = {} <=> Table.cols = {}
                                    ELSE d.cols = Table.cols
<1>0. w \in {"bigquery", "postgres", "redshift", "snowflake", "sqldatawarehouse", "presto"}
  BY CallAssumption DEF CallPlaces, CallsPossible, w
<1>n. \A k, c, d : Metadata(k, c, d) # Null
  BY DEF Null, Metadata
<1>m. \A k, c, d : Metadata(k, c, d).kind = k /\ Metadata(k, c, d).cols = c
  BY DEF Metadata
<1>1. CASE w = "bigquery"
  <2>1. Saw(<<"metadata">>) \in during
    BY <1>1 DEF Reads
  <2> QED
    BY <1>1, <1>n, <1>m, <2>1 DEF BigQueryTable, Table
<1>2. CASE w \in {"postgres", "redshift", "snowflake", "sqldatawarehouse"}
  <2>1. Saw(<<"type">>) \in during /\ Saw(<<"columns">>) \in during
    BY <1>2 DEF Reads, PostgresParts, TypeAndColumns
  <2>2. \/ Table = Null /\ Saw(<<"type">>).kind = "none"
        \/ /\ Saw(<<"type">>).kind # "none"
           /\ \E d : Table = Metadata(Saw(<<"type">>).kind, Saw(<<"columns">>).cols, d)
    BY <1>2 DEF Table, PostgresTable, RedshiftTable, SnowflakeTable, SqlDwTable
  <2> QED
    BY <1>n, <1>m, <2>1, <2>2
<1>3. CASE w = "presto"
  <2>1. Saw(<<"describe">>) \in during
    BY <1>3 DEF Reads
  <2> DEFINE cols == Saw(<<"describe">>).cols
             rows == IF cols = {} THEN {} ELSE {PageOfColumns}
             described == IF Cardinality(cols) >= 4 THEN rows ELSE {}
  <2>2. Table = IF Saw(<<"describe">>).kind = "none" THEN Null
                ELSE Metadata("unknown", rows, described)
    BY <1>3 DEF PrestoTable, Table
  <2>3. cols = {} <=> rows = {}
    OBVIOUS
  <2> HIDE DEF rows, described
  <2>4. CASE Saw(<<"describe">>).kind = "none"
    BY <2>1, <2>2, <2>4
  <2>5. CASE Saw(<<"describe">>).kind # "none"
    <3>1. Table # Null /\ Table.kind = "unknown" /\ Table.cols = rows
      BY <1>n, <1>m, <2>2, <2>5
    <3>2. \E d \in during : d.cols = {} <=> Table.cols = {}
      BY <2>1, <2>3, <3>1
    <3>3. \E d \in during : d.kind # "none"
      BY <2>1, <2>5
    <3> QED
      BY <1>3, <3>1, <3>2, <3>3
  <2> QED
    BY <2>4, <2>5
<1> QED
  BY <1>0, <1>1, <1>2, <1>3

LEMMA MetadataHolds == MetadataInv => MetadataWasTrue
<1> SUFFICES ASSUME MetadataInv, reply = "resolved", NEW m \in Found
             PROVE  IF m = Null THEN \E d \in during : d.kind = "none"
                    ELSE /\ m.kind # "unknown" => \E d \in during : d.kind = m.kind
                         /\ \E d \in during : d.kind # "none"
                         /\ \E d \in during : IF w = "presto" THEN d.cols = {} <=> m.cols = {}
                                               ELSE d.cols = m.cols
  BY DEF MetadataWasTrue
<1>1. m = Table /\ Reads \subseteq DOMAIN answers /\ Asking /\ AskingOK /\ CallPlaces
  BY DEF MetadataInv, CallPlaces, Asking, AskingOK, Found, Value, ReadStage, Known
<1> QED
  BY <1>1, TableWasTrue DEF AskingOK

CallSpec == CallInit /\ [][CallNext]_callVars

(* Whatever others do to the dataset while table() or search() asks, and   *)
(* in whatever order its requests are answered: "null" means that there    *)
(* was none at some moment, anything else that there was one, of this kind *)
(* and, at some moment, with these columns (run.ts:402-417,                *)
(* build.ts:205-228); of Presto, whose table() reports a page of columns   *)
(* as one column, only that there was one, and one with columns if any is  *)
(* reported.                                                               *)
THEOREM AnswersWereTrue == CallSpec => []MetadataWasTrue
BY InitMetadata, NextMetadata, MetadataHolds, PTL DEF CallSpec
-----------------------------------------------------------------------------
(* evaluate(): the queries are numbered without gaps.                      *)
LEMMA WithoutIsNumbered ==
  ASSUME NEW s, NEW empty, IsFiniteSet(DOMAIN s)
  PROVE  \E n \in Nat : DOMAIN Without(s, empty) = 1..n
<1>1. IsFiniteSet(Kept(s, empty))
  BY FS_Subset DEF Kept
<1> QED
  BY <1>1, FS_CardinalityType DEF Without

LEMMA EvaluatedIsNumbered ==
  ASSUME CallPlaces
  PROVE  \E n \in Nat : DOMAIN Evaluated = 1..n
<1> DEFINE a == call.action
           c == w \in {"bigquery", "sqldatawarehouse", "presto"}
<1>1. a \in [incremental : BOOLEAN, queries : Seq(STRING), incrementalQueries : Seq(STRING)]
  BY CallAssumption DEF CallPlaces, CallsPossible
<1>2. IsFiniteSet(DOMAIN Collect(a, c))
  <2>1. CASE c
    <3>1. DOMAIN Collect(a, c) = DOMAIN Scripts(a)
      BY <2>1 DEF Collect
    <3>2. DOMAIN Scripts(a) \in {1..1, 1..2}
      BY DEF Scripts
    <3>3. \A n \in Nat : IsFiniteSet(1..n)
      BY FS_Interval
    <3> QED
      BY <3>1, <3>2, <3>3
  <2>2. CASE ~c
    <3> DEFINE one == IF a.incremental THEN a.incrementalQueries \o a.queries ELSE a.queries
               apart == [i \in DOMAIN one |-> <<one[i]>>]
    <3>1. one \in Seq(STRING)
      <4>1. a.incrementalQueries \in Seq(STRING) /\ a.queries \in Seq(STRING)
        BY <1>1
      <4> HIDE DEF a
      <4> QED
        BY <4>1, ConcatProperties
    <3>2. DOMAIN apart = 1..Len(one) /\ Len(one) \in Nat
      BY <3>1, LenProperties
    <3>3. Collect(a, c) = Without(apart, <<"">>)
      BY <2>2 DEF Collect
    <3> HIDE DEF one, apart
    <3>4. IsFiniteSet(DOMAIN apart)
      BY <3>2, FS_Interval
    <3>5. PICK n \in Nat : DOMAIN Collect(a, c) = 1..n
      BY <3>3, <3>4, WithoutIsNumbered
    <3> QED
      BY <3>5, FS_Interval
  <2> QED
    BY <2>1, <2>2
<1>3. Evaluated = Without(Collect(a, c), <<>>)
  BY DEF Evaluated
<1> HIDE DEF a, c
<1> QED
  BY <1>2, <1>3, WithoutIsNumbered

(* Which queries were sent when a stage has begun: BigQuery sends all      *)
(* together.                                                               *)
Sent(n) == IF w = "bigquery" THEN (IF n = 0 THEN {} ELSE DOMAIN Evaluated)
           ELSE DOMAIN Evaluated \cap 1..n

Evaluating == call.what = "evaluate" /\ reply # "rejected"
EvaluatingOK ==
  /\ \A i \in Sent(stage) : <<"explain", i>> \in waiting \cup DOMAIN answers \cup failed
  /\ reply = "resolved" => Sent(stage) = DOMAIN Evaluated

EvaluationInv == CallPlaces /\ (Evaluating => EvaluatingOK)

LEMMA WhatIsExplained ==
  ASSUME CallPlaces, call.what = "evaluate", NEW n \in Nat \ {0}
  PROVE  Requests(n) = IF w = "bigquery" THEN AllAtOnce(n) ELSE OneByOne(n)
BY CallAssumption DEF CallPlaces, CallsPossible, Requests, w, BigQueryRequests, PostgresRequests,
   RedshiftRequests, SnowflakeRequests, SqlDwRequests, PrestoRequests, Statement

LEMMA InitEvaluation == CallInit => EvaluationInv
  BY InitCall DEF CallInit, EvaluationInv, EvaluatingOK, Sent

LEMMA NextEvaluation == EvaluationInv /\ [CallNext]_callVars => EvaluationInv'
<1> SUFFICES ASSUME EvaluationInv, [CallNext]_callVars, Evaluating' PROVE EvaluatingOK'
  BY NextPlaces DEF EvaluationInv
<1>p. CallPlaces /\ (Evaluating => EvaluatingOK)
  BY DEF EvaluationInv
<1>s. call' = call /\ w' = w /\ Evaluated' = Evaluated
  BY SameCall DEF Evaluated, w
<1> USE <1>p DEF CallPlaces
<1>1. CASE NextStage
  <2> PICK rs : rs = Requests(stage + 1)
    OBVIOUS
  <2>1. reply = "pending" /\ waiting = {} /\ UNCHANGED <<answers, failed>>
    BY <1>1 DEF NextStage
  <2>2. Evaluating /\ EvaluatingOK
    BY <2>1, <1>s DEF Evaluating
  <2>3. rs = IF w = "bigquery" THEN AllAtOnce(stage + 1) ELSE OneByOne(stage + 1)
    BY <2>2, WhatIsExplained DEF Evaluating
  <2>4. PICK n \in Nat : DOMAIN Evaluated = 1..n
    BY EvaluatedIsNumbered
  <2>5. <<"throws">> \notin rs
    BY <2>3 DEF AllAtOnce, OneByOne
  <2>6. CASE rs = {}
    <3>1. reply' = "resolved" /\ UNCHANGED <<stage, waiting>>
      BY <1>1, <2>6 DEF NextStage
    <3>2. Sent(stage) = DOMAIN Evaluated
      <4>1. CASE w = "bigquery"
        <5>1. ASSUME stage = 0, NEW i \in DOMAIN Evaluated PROVE FALSE
          <6>1. <<"explain", i>> \in AllAtOnce(stage + 1)
            BY <5>1 DEF AllAtOnce
          <6> QED
            BY <2>3, <2>6, <4>1, <6>1
        <5> QED
          BY <4>1, <5>1 DEF Sent
      <4>2. CASE w # "bigquery"
        <5>1. stage + 1 \notin 1..n
          BY <2>3, <2>4, <2>6, <4>2 DEF OneByOne
        <5> QED
          BY <2>4, <4>2, <5>1 DEF Sent
      <4> QED
        BY <4>1, <4>2
    <3>3. Sent(stage)' = Sent(stage)
      BY <1>s, <3>1 DEF Sent
    <3> QED
      BY <1>s, <2>1, <2>2, <3>1, <3>2, <3>3 DEF EvaluatingOK
  <2>7. CASE rs # {}
    <3>1. stage' = stage + 1 /\ waiting' = rs /\ reply' # "resolved"
      BY <1>1, <2>5, <2>7 DEF NextStage, Throws
    <3>2. \A i \in Sent(stage)' : i \in Sent(stage) \/ <<"explain", i>> \in rs
      <4>1. CASE w = "bigquery"
        BY <1>s, <2>3, <2>7, <3>1, <4>1 DEF AllAtOnce, Sent
      <4>2. CASE w # "bigquery"
        BY <1>s, <2>3, <2>4, <2>7, <3>1, <4>2 DEF OneByOne, Sent
      <4> QED
        BY <4>1, <4>2
    <3> QED
      BY <2>1, <2>2, <3>1, <3>2 DEF EvaluatingOK
  <2> QED
    BY <2>6, <2>7
<1>2. ASSUME NEW r \in waiting, Answer(r) \/ Fail(r) PROVE EvaluatingOK'
  <2>1. /\ stage' = stage /\ waiting' = waiting \ {r} /\ reply' = reply
        /\ DOMAIN answers \cup failed \cup {r} = (DOMAIN answers \cup failed)'
    BY <1>2, <1>s DEF Answer, Fail, Evaluating
  <2>2. Evaluating /\ EvaluatingOK /\ Sent(stage)' = Sent(stage)
    BY <1>s, <2>1 DEF Evaluating, Sent
  <2> QED
    BY <1>s, <2>1, <2>2 DEF EvaluatingOK
<1>3. ASSUME NEW d, OthersChange(d) PROVE EvaluatingOK'
  BY <1>3, <1>s DEF OthersChange, Evaluating, EvaluatingOK, Sent
<1>4. CASE UNCHANGED callVars
  BY <1>4, <1>s DEF callVars, Evaluating, EvaluatingOK, Sent
<1> QED
  BY <1>1, <1>2, <1>3, <1>4 DEF CallNext

LEMMA EvaluationHolds == EvaluationInv => EvaluationsMatch
<1> SUFFICES ASSUME EvaluationInv, call.what = "evaluate", w # "sqldatawarehouse",
                    reply = "resolved", NEW i \in DOMAIN Evaluated
             PROVE  /\ Value[i].query = Evaluated[i]
                    /\ <<"explain", i>> \in IF Value[i].ok THEN DOMAIN answers ELSE failed
  BY DEF EvaluationsMatch
<1>1. Value = Evaluations /\ Reported = Evaluated
  BY DEF Value, Reported
<1>2. PICK ok : ok = (<<"explain", i>> \notin failed)
  OBVIOUS
<1>v. Value[i] = [query |-> Evaluated[i], ok |-> ok]
  BY <1>1, <1>2 DEF Evaluations
<1>3. <<"explain", i>> \in DOMAIN answers \cup failed
  BY DEF EvaluationInv, CallPlaces, Evaluating, EvaluatingOK
<1>4. Value[i].query = Evaluated[i] /\ Value[i].ok = ok
  BY <1>v
<1>5. CASE <<"explain", i>> \in failed
  BY <1>2, <1>3, <1>4, <1>5
<1>6. CASE <<"explain", i>> \notin failed
  BY <1>2, <1>3, <1>4, <1>6
<1> QED
  BY <1>5, <1>6

(* evaluate() sends every query of an action, though BigQuery together and *)
(* the others one by one, and reports each with what became of it: no      *)
(* script is forgotten when statements are empty or one of them is in      *)
(* error (core/adapters/index.ts:117-185).                                 *)
THEOREM EveryQueryIsEvaluated == CallSpec => []EvaluationsMatch
BY InitEvaluation, NextEvaluation, EvaluationHolds, PTL DEF CallSpec
-----------------------------------------------------------------------------
(* setMetadata() while nobody else changes the dataset.  What it has to    *)
(* describe:                                                               *)
Needed ==
  IF w = "bigquery" THEN call.columns
  ELSE IF w \in {"redshift", "snowflake"} /\ call.type = "view" THEN {}
  ELSE TopLevel(call.columns)
Wanted == (IF call.description THEN {Self} ELSE {}) \cup (Needed \cap dataset.cols)
Named == call.columns \cup {Self}

(* The comments it sends, once it has read the table.                      *)
Comments ==
  CASE w = "bigquery" -> BigQueryComments
    [] w = "postgres" -> PostgresComments
    [] w = "redshift" -> RedshiftComments
    [] w = "snowflake" -> SnowflakeComments
CommentStage == IF w = "snowflake" THEN 1 ELSE 2

Schema(q) == <<"schema", dataset.cols, q>>
Brings(r, p) ==
  r \in {<<"comment", p>>, <<"commentIfExists", p>>} \/ \E q : r = Schema(q) /\ p \in q
Fits(r) ==
  \/ \E p \in Named : r = <<"comment", p>>
  \/ \E p \in call.columns : r = <<"commentIfExists", p>>
  \/ \E q : r = Schema(q) /\ Wanted \subseteq q /\ q \subseteq Named

(* Schemas are matched by the joined names of a column's path: they can be *)
(* told apart only if no two columns join to the same name.                *)
PathsAreDistinct == \A p, q \in Paths : JoinPath(p) = JoinPath(q) => p = q

Datasets ==
  [kind : {"none", "table", "view"}, cols : SUBSET Paths, described : SUBSET (Paths \cup {Self})]

Describing ==
  call.what = "setMetadata" /\ changes = 0 /\ w \notin {"sqldatawarehouse", "presto"}
AsRead(d) == d.kind = dataset.kind /\ d.cols = dataset.cols /\ d.described \subseteq Named
DescribingOK ==
  /\ dataset \in Datasets /\ dataset.described \subseteq Named
  /\ \A r \in Reads \cap DOMAIN answers : AsRead(Saw(r))
  /\ \A r \in waiting : r \in Reads \/ Fits(r)
  /\ reply # "rejected" =>
       /\ w # "snowflake" /\ stage >= 1 => Reads \subseteq Known
       /\ stage >= CommentStage =>
            \A p \in Wanted : p \in dataset.described \/ \E r \in waiting : Brings(r, p)
  /\ reply = "resolved" => Wanted \subseteq dataset.described
  /\ reply = "rejected" => dataset.kind # call.type \/ failed # {}

DescriptionInv == CallPlaces /\ (Describing => DescribingOK)

LEMMA WhatIsDescribed ==
  ASSUME CallPlaces, Describing, NEW n \in Nat \ {0}
  PROVE  Requests(n) = IF w = "snowflake" THEN (IF n = 1 THEN Comments ELSE {})
                       ELSE ReadThen(n, Reads, Comments)
BY CallAssumption DEF CallPlaces, Describing, CallsPossible, Requests, w, BigQueryRequests,
   PostgresRequests, RedshiftRequests, SnowflakeRequests, Reads, Comments

LEMMA CallTyped ==
  ASSUME CallPlaces
  PROVE  /\ w \in {"bigquery", "postgres", "redshift", "snowflake", "sqldatawarehouse", "presto"}
         /\ call.type \in {"table", "view"} /\ call.description \in BOOLEAN
         /\ call.columns \subseteq Paths
  BY CallAssumption DEF CallPlaces, CallsPossible, w

(* What is read is the table as it is, and null if there is none.          *)
LEMMA TableAsRead ==
  ASSUME CallPlaces, Describing, w # "snowflake", dataset \in Datasets,
         Reads \subseteq DOMAIN answers, \A r \in Reads : AsRead(Saw(r))
  PROVE  IF dataset.kind = "none" THEN Table = Null
         ELSE \E d : Table = Metadata(dataset.kind, dataset.cols, d) /\ d \subseteq Named
<1>1. CASE w = "bigquery"
  BY <1>1 DEF Table, BigQueryTable, Reads, AsRead
<1>2. CASE w \in {"postgres", "redshift"}
  <2>1. AsRead(Saw(<<"type">>)) /\ AsRead(Saw(<<"columns">>))
    BY <1>2 DEF Reads, PostgresParts, TypeAndColumns
  <2>2. w = "postgres" => AsRead(Saw(<<"descriptions">>))
    BY <1>2 DEF Reads, PostgresParts
  <2>3. CASE dataset.kind = "none"
    BY <1>2, <2>1, <2>3 DEF Table, PostgresTable, RedshiftTable, AsRead
  <2>4. CASE dataset.kind # "none" /\ w = "postgres"
    <3> DEFINE d == Saw(<<"descriptions">>).described \cap (dataset.cols \cup {Self})
    <3>1. Table = Metadata(dataset.kind, dataset.cols, d)
      BY <2>1, <2>4 DEF Table, PostgresTable, AsRead
    <3>2. d \subseteq Named
      BY <2>2, <2>4 DEF AsRead
    <3> QED
      BY <2>4, <3>1, <3>2
  <2>5. CASE dataset.kind # "none" /\ w = "redshift"
    <3> DEFINE d == (Saw(<<"columns">>).described \ {Self}) \cup (Saw(<<"type">>).described \cap {Self})
    <3>1. Table = Metadata(dataset.kind, dataset.cols, d)
      BY <2>1, <2>5 DEF Table, RedshiftTable, AsRead
    <3>2. d \subseteq Named
      BY <2>1 DEF AsRead
    <3> QED
      BY <2>5, <3>1, <3>2
  <2> QED
    BY <1>2, <2>3, <2>4, <2>5
<1> QED
  BY <1>1, <1>2, CallTyped DEF Describing

LEMMA CommentsFit ==
  ASSUME CallPlaces, Describing, PathsAreDistinct, dataset \in Datasets,
         w # "snowflake" =>
           IF dataset.kind = "none" THEN Table = Null
           ELSE \E d : Table = Metadata(dataset.kind, dataset.cols, d) /\ d \subseteq Named
  PROVE  /\ <<"throws">> \in Comments => dataset.kind = "none"
         /\ <<"throws">> \notin Comments => \A p \in Wanted : \E r \in Comments : Brings(r, p)
         /\ \A r \in Comments \ Throws : Fits(r)
<1>n. \A k, c, d : Metadata(k, c, d) # Null
  BY DEF Null, Metadata
<1>m. \A k, c, d : Metadata(k, c, d).cols = c /\ Metadata(k, c, d).described = d
  BY DEF Metadata
<1>s. Self \notin call.columns
  BY CallTyped, CallAssumption DEF Self
<1>c. call.description => CommentOnDataset = {<<"comment", Self>>}
  BY DEF CommentOnDataset
<1>d. ~call.description => CommentOnDataset = {}
  BY DEF CommentOnDataset
<1>t. TopLevel(call.columns) \subseteq call.columns
  BY DEF TopLevel
<1>1. CASE w = "bigquery"
  <2>1. CASE dataset.kind = "none"
    BY <1>1, <2>1 DEF Comments, BigQueryComments, Throws
  <2>2. CASE dataset.kind # "none"
    <3>1. PICK d : Table = Metadata(dataset.kind, dataset.cols, d) /\ d \subseteq Named
      BY <1>1, <2>2
    <3> DEFINE q == {p \in dataset.cols : p \in d \/ \E c \in call.columns : JoinPath(c) = JoinPath(p)}
                    \cup (IF call.description THEN {Self} ELSE {})
    <3>2. Comments = {Schema(q)}
      BY <1>1, <1>n, <1>m, <3>1 DEF Comments, BigQueryComments, Schema
    <3>3. Wanted \subseteq q
      BY <1>1, CallTyped DEF Wanted, Needed
    <3>4. q \subseteq Named
      BY <3>1, CallTyped DEF Named, Datasets, PathsAreDistinct
    <3> HIDE DEF q
    <3>5. Schema(q) # <<"throws">>
      BY DEF Schema
    <3> QED
      BY <2>2, <3>2, <3>3, <3>4, <3>5 DEF Fits, Brings
  <2> QED
    BY <2>1, <2>2
<1>u. Self \notin Needed
  BY <1>s, <1>t DEF Needed
<1>w. ASSUME NEW p \in Wanted, p = Self PROVE <<"comment", p>> \in CommentOnDataset
  BY <1>c, <1>u, <1>w DEF Wanted
<1>o. \A r \in CommentOnDataset : r = <<"comment", Self>>
  BY <1>c, <1>d, CallTyped
<1>2. CASE w \in {"postgres", "redshift"}
  <2> DEFINE all == {<<"comment", p>> : p \in TopLevel(call.columns) \cap dataset.cols}
  <2>1. CASE call.columns = {} \/ (w = "redshift" /\ call.type = "view")
    <3>1. Comments = CommentOnDataset
      BY <1>2, <2>1 DEF Comments, PostgresComments, RedshiftComments
    <3>2. Needed = {}
      BY <1>2, <1>t, <2>1 DEF Needed
    <3> QED
      BY <1>w, <1>o, <3>1, <3>2 DEF Wanted, Fits, Named, Brings
  <2>2. CASE /\ ~(call.columns = {} \/ (w = "redshift" /\ call.type = "view"))
             /\ dataset.kind = "none"
    <3>1. Comments = CommentOnDataset \cup Throws
      BY <1>2, <2>2 DEF Comments, PostgresComments, RedshiftComments
    <3> QED
      BY <1>o, <2>2, <3>1 DEF Throws, Fits, Named
  <2>3. CASE /\ ~(call.columns = {} \/ (w = "redshift" /\ call.type = "view"))
             /\ dataset.kind # "none"
    <3>1. PICK d : Table = Metadata(dataset.kind, dataset.cols, d) /\ d \subseteq Named
      BY <1>2, <2>3
    <3>2. Table # Null /\ Table.cols = dataset.cols
      BY <1>n, <1>m, <3>1
    <3>3. Comments = CommentOnDataset \cup all
      BY <1>2, <2>3, <3>2 DEF Comments, PostgresComments, RedshiftComments
    <3>4. Needed \subseteq TopLevel(call.columns)
      BY <1>2 DEF Needed
    <3>5. <<"throws">> \notin Comments
      BY <1>o, <3>3
    <3>6. ASSUME NEW p \in Wanted PROVE <<"comment", p>> \in Comments
      BY <1>w, <3>3, <3>4, <3>6 DEF Wanted
    <3>7. ASSUME NEW r \in Comments PROVE Fits(r)
      BY <1>o, <1>t, <3>3, <3>7 DEF Fits, Named
    <3> QED
      BY <3>5, <3>6, <3>7 DEF Brings
  <2> QED
    BY <2>1, <2>2, <2>3
<1>4. CASE w = "snowflake"
  <2> DEFINE all == {<<"commentIfExists", p>> : p \in TopLevel(call.columns)}
  <2>1. Comments = CommentOnDataset \cup IF call.type = "view" THEN {} ELSE all
    BY <1>4 DEF Comments, SnowflakeComments
  <2>2. <<"throws">> \notin Comments
    BY <2>1, <1>c, <1>d, CallTyped
  <2>3. ASSUME NEW p \in Wanted PROVE \E r \in Comments : Brings(r, p)
    <3>1. CASE p = Self
      BY <1>w, <2>1, <2>3, <3>1 DEF Brings
    <3>2. CASE p # Self
      <4>1. p \in TopLevel(call.columns) /\ call.type # "view"
        BY <1>4, <2>3, <3>2 DEF Wanted, Needed
      <4> QED
        BY <2>1, <4>1 DEF Brings
    <3> QED
      BY <3>1, <3>2
  <2>4. ASSUME NEW r \in Comments PROVE Fits(r)
    BY <1>c, <1>d, <1>t, <2>1, <2>4, CallTyped DEF Fits, Named
  <2> QED
    BY <2>2, <2>3, <2>4
<1> QED
  BY <1>1, <1>2, <1>4, CallTyped DEF Describing

(* What an answer makes of the dataset: it stays what it is, and has the   *)
(* description that the request brings.                                    *)
LEMMA AnswerDescribes ==
  ASSUME CallPlaces, Describing, DescribingOK, NEW r \in waiting, ~Refused(r)
  PROVE  /\ Described(r) \in Datasets
         /\ Described(r).kind = dataset.kind /\ Described(r).cols = dataset.cols
         /\ Described(r).described \subseteq Named
         /\ \A p \in Wanted : p \in dataset.described \/ Brings(r, p) => p \in Described(r).described
<1>1. dataset \in Datasets /\ dataset.described \subseteq Named
  BY DEF DescribingOK
<1>2. Wanted \subseteq dataset.cols \cup {Self}
  BY DEF Wanted
<1>3. CASE r \in Reads
  <2>1. r \in {<<"metadata">>, <<"type">>, <<"columns">>, <<"descriptions">>}
    BY <1>3, CallTyped DEF Reads, PostgresParts, TypeAndColumns, Describing
  <2>2. Described(r) = dataset
    BY <2>1 DEF Described
  <2>3. \A p : ~Brings(r, p)
    BY <2>1 DEF Brings, Schema
  <2> QED
    BY <1>1, <2>2, <2>3
<1>4. ASSUME NEW p \in Named, r \in {<<"comment", p>>, <<"commentIfExists", p>>} PROVE
        /\ Described(r) \in Datasets
        /\ Described(r).kind = dataset.kind /\ Described(r).cols = dataset.cols
        /\ Described(r).described \subseteq Named
        /\ \A q \in Wanted : q \in dataset.described \/ Brings(r, q) => q \in Described(r).described
  <2>1. Described(r) =
          [dataset EXCEPT !.described = @ \cup ({p} \cap (dataset.cols \cup {Self}))]
    BY <1>4 DEF Described
  <2>2. \A q : Brings(r, q) => q = p
    BY <1>4 DEF Brings, Schema
  <2> QED
    BY <1>1, <1>2, <2>1, <2>2 DEF Datasets
<1>5. ASSUME NEW q, r = Schema(q), Wanted \subseteq q, q \subseteq Named
      PROVE  /\ Described(r) \in Datasets
             /\ Described(r).kind = dataset.kind /\ Described(r).cols = dataset.cols
             /\ Described(r).described \subseteq Named
             /\ Wanted \subseteq Described(r).described
  <2>1. Described(r) =
          Metadata(dataset.kind, dataset.cols, (dataset.described \cap {Self}) \cup q)
    BY <1>5 DEF Described, Schema
  <2>2. (dataset.described \cap {Self}) \cup q \subseteq Paths \cup {Self}
    BY <1>5, CallTyped DEF Named
  <2>3. (dataset.described \cap {Self}) \cup q \subseteq Named
    BY <1>5 DEF Named
  <2> PICK d : d = (dataset.described \cap {Self}) \cup q
    OBVIOUS
  <2> QED
    BY <1>1, <1>5, <2>1, <2>2, <2>3 DEF Datasets, Metadata
<1>6. r \in Reads \/ Fits(r)
  BY DEF DescribingOK
<1> QED
  BY <1>3, <1>4, <1>5, <1>6 DEF Fits, Named

LEMMA NextDescription ==
  PathsAreDistinct /\ DescriptionInv /\ [CallNext]_callVars => DescriptionInv'
<1> SUFFICES ASSUME PathsAreDistinct, DescriptionInv, [CallNext]_callVars, Describing'
             PROVE  DescribingOK'
  BY NextPlaces DEF DescriptionInv
<1>p. CallPlaces /\ (Describing => DescribingOK)
  BY DEF DescriptionInv
<1>s. /\ call' = call /\ w' = w /\ Reads' = Reads /\ Needed' = Needed /\ Named' = Named
      /\ CommentStage' = CommentStage
  BY SameCall DEF w, Reads, Needed, Named, CommentStage
<1> USE DEF CallPlaces
<1>1. CASE NextStage
  <2> PICK rs : rs = Requests(stage + 1)
    OBVIOUS
  <2>1. /\ reply = "pending" /\ waiting = {}
        /\ UNCHANGED <<call, dataset, answers, failed, changes>>
    BY <1>1 DEF NextStage
  <2>2. Describing /\ DescribingOK
    BY <1>p, <1>s, <2>1 DEF Describing
  <2>3. rs = IF w = "snowflake" THEN (IF stage + 1 = 1 THEN Comments ELSE {})
             ELSE ReadThen(stage + 1, Reads, Comments)
    BY <1>p, <2>2, WhatIsDescribed
  <2>4. /\ \A r : Fits(r)' <=> Fits(r)
        /\ \A r, p : Brings(r, p)' <=> Brings(r, p)
        /\ Wanted' = Wanted /\ \A d : AsRead(d)' <=> AsRead(d)
        /\ \A r : Saw(r)' = Saw(r)
    BY <1>s, <2>1 DEF Fits, Brings, Wanted, Schema, AsRead, Saw
  <2>5. stage >= 1 /\ w # "snowflake" => Reads \subseteq DOMAIN answers
    BY <2>1, <2>2 DEF DescribingOK, Known
  <2>6. ASSUME rs = Comments, stage + 1 = CommentStage
        PROVE  /\ <<"throws">> \in rs => dataset.kind = "none"
               /\ <<"throws">> \notin rs => \A p \in Wanted : \E r \in rs : Brings(r, p)
               /\ \A r \in rs \ Throws : Fits(r)
    <3>1. w # "snowflake" =>
            IF dataset.kind = "none" THEN Table = Null
            ELSE \E d : Table = Metadata(dataset.kind, dataset.cols, d) /\ d \subseteq Named
      BY <1>p, <2>2, <2>5, <2>6, TableAsRead DEF DescribingOK, CommentStage
    <3>2. dataset \in Datasets
      BY <2>2 DEF DescribingOK
    <3> QED
      BY <1>p, <2>2, <2>6, <3>1, <3>2, CommentsFit
  <2>7. <<"throws">> \notin Reads
    BY <1>p, CallTyped DEF Reads, PostgresParts, TypeAndColumns
  <2>8. CASE rs = {}
    <3>1. reply' = "resolved" /\ UNCHANGED <<stage, waiting>>
      BY <1>1, <2>8 DEF NextStage
    <3>2. Wanted \subseteq dataset.described
      <4>1. CASE stage >= CommentStage
        BY <2>1, <2>2, <4>1 DEF DescribingOK
      <4>2. CASE stage < CommentStage
        <5>1. rs = Comments /\ stage + 1 = CommentStage
          BY <1>p, <2>3, <2>8, <4>2, SomethingIsRead DEF ReadThen, CommentStage
        <5> QED
          BY <2>6, <2>8, <5>1
      <4> QED
        BY <1>p, <4>1, <4>2 DEF CommentStage
    <3> QED
      BY <1>s, <2>1, <2>2, <2>4, <3>1, <3>2 DEF DescribingOK, Known
  <2>9. CASE rs # {}
    <3>1. /\ stage' = stage + 1 /\ waiting' = rs \ Throws
          /\ reply' = IF <<"throws">> \in rs THEN "rejected" ELSE "pending"
      BY <1>1, <2>9 DEF NextStage, Throws
    <3>2. CASE w # "snowflake" /\ stage + 1 = 1
      <4>1. rs = Reads /\ waiting' = Reads
        BY <2>3, <2>7, <3>1, <3>2 DEF ReadThen, Throws
      <4> QED
        BY <1>s, <2>1, <2>2, <2>4, <2>7, <3>1, <3>2, <4>1 DEF DescribingOK, Known, CommentStage
    <3>3. CASE ~(w # "snowflake" /\ stage + 1 = 1)
      <4>1. rs = Comments /\ stage + 1 = CommentStage
        BY <1>p, <2>3, <2>9, <3>3 DEF ReadThen, CommentStage
      <4>2. <<"throws">> \in rs => dataset.kind = "none"
        BY <2>6, <4>1
      <4>3. <<"throws">> \notin rs => \A p \in Wanted : \E r \in rs : Brings(r, p)
        BY <2>6, <4>1
      <4>4. \A r \in waiting' : Fits(r)
        BY <2>6, <3>1, <4>1
      <4>5. call.type # "none"
        BY <1>p, CallTyped
      <4>6. \A r \in Reads \cap DOMAIN answers : AsRead(Saw(r))
        BY <2>2 DEF DescribingOK
      <4>7. dataset \in Datasets /\ dataset.described \subseteq Named
        BY <2>2 DEF DescribingOK
      <4>8. w # "snowflake" => Reads \subseteq Known'
        BY <1>p, <2>1, <2>5, <4>1 DEF Known, CommentStage
      <4>9. reply' # "rejected" => \A p \in Wanted : \E r \in waiting' : Brings(r, p)
        BY <3>1, <4>3 DEF Throws
      <4>10. reply' = "rejected" => dataset.kind # call.type
        BY <3>1, <4>2, <4>5
      <4> QED
        BY <1>s, <2>1, <2>4, <3>1, <4>4, <4>6, <4>7, <4>8, <4>9, <4>10 DEF DescribingOK
    <3> QED
      BY <3>2, <3>3
  <2> QED
    BY <2>8, <2>9
<1>2. ASSUME NEW r \in waiting, Answer(r) PROVE DescribingOK'
  <2>1. /\ waiting' = waiting \ {r} /\ UNCHANGED <<stage, reply, failed>>
        /\ answers' = [q \in DOMAIN answers \cup {r} |-> IF q = r THEN dataset ELSE answers[q]]
        /\ dataset' = Described(r) /\ ~Refused(r)
    BY <1>2 DEF Answer
  <2>2. Describing /\ DescribingOK
    BY <1>2, <1>p, <1>s DEF Answer, Describing
  <2>3. /\ dataset' \in Datasets /\ dataset'.described \subseteq Named
        /\ dataset'.kind = dataset.kind /\ dataset'.cols = dataset.cols
        /\ \A p \in Wanted : p \in dataset.described \/ Brings(r, p) => p \in dataset'.described
    BY <1>p, <2>1, <2>2, AnswerDescribes
  <2>4. /\ \A q : Fits(q)' <=> Fits(q)
        /\ \A q, p : Brings(q, p)' <=> Brings(q, p)
        /\ Wanted' = Wanted /\ \A d : AsRead(d)' <=> AsRead(d)
    BY <1>s, <2>3 DEF Fits, Brings, Wanted, Schema, AsRead
  <2>5. Known' = Known
    BY <2>1 DEF Known
  <2>6. ASSUME NEW q \in Reads \cap DOMAIN answers' PROVE AsRead(answers'[q])
    BY <2>1, <2>2, <2>6 DEF DescribingOK, AsRead, Saw
  <2>7. reply = "pending" \/ reply = "rejected"
    BY <1>p
  <2>8. /\ reply # "rejected" /\ stage >= CommentStage =>
             \A p \in Wanted : p \in dataset'.described \/ \E q \in waiting' : Brings(q, p)
    BY <2>1, <2>2, <2>3 DEF DescribingOK
  <2>9. \A q \in waiting' : q \in Reads \/ Fits(q)
    BY <2>1, <2>2 DEF DescribingOK
  <2> QED
    BY <1>s, <2>1, <2>2, <2>3, <2>4, <2>5, <2>6, <2>7, <2>8, <2>9 DEF DescribingOK, Saw
<1>3. ASSUME NEW r \in waiting, Fail(r) PROVE DescribingOK'
  <2>1. /\ waiting' = waiting \ {r} /\ UNCHANGED <<dataset, answers>> /\ r \in failed'
    BY <1>3 DEF Fail
  <2>2. Describing /\ DescribingOK
    BY <1>3, <1>p, <1>s DEF Fail, Describing
  <2>3. reply' = "rejected"
    BY <1>3, <1>p, <2>2 DEF Fail, Describing
  <2> QED
    BY <1>s, <2>1, <2>2, <2>3 DEF DescribingOK, Wanted, Fits, Schema, AsRead, Saw
<1>4. ASSUME NEW d, OthersChange(d) PROVE DescribingOK'
  BY <1>4, <1>p DEF OthersChange, Describing
<1>5. CASE UNCHANGED callVars
  BY <1>5, <1>p, <1>s DEF callVars, Describing, DescribingOK, Wanted, Fits, Brings, Schema, AsRead, Saw, Known
<1> QED
  BY <1>1, <1>2, <1>3, <1>4, <1>5 DEF CallNext

LEMMA DescriptionsHold == DescriptionInv => DescriptionsArrive
<1> SUFFICES ASSUME CallPlaces, Describing, DescribingOK PROVE DescriptionsArrive
  BY DEF DescriptionInv, DescriptionsArrive, Describing
<1>1. reply = "resolved" => Wanted \subseteq dataset.described
  BY DEF DescribingOK
<1>2. call.description => Self \in Wanted
  BY DEF Wanted
<1>3. ~(w \in {"redshift", "snowflake"} /\ call.type = "view") =>
        (IF w = "bigquery" THEN call.columns ELSE TopLevel(call.columns)) \cap dataset.cols
          \subseteq Wanted
  BY DEF Wanted, Needed
<1> QED
  BY <1>1, <1>2, <1>3 DEF DescriptionsArrive, DescribingOK, Named

LEMMA InitDescription == CallInit => DescriptionInv
<1> SUFFICES ASSUME CallInit PROVE DescriptionInv
  OBVIOUS
<1>1. dataset \in Datasets /\ dataset.described = {}
  BY DEF CallInit, Datasets, None, Metadata, TopLevel
<1> QED
  BY <1>1, InitCall DEF CallInit, DescriptionInv, DescribingOK, CommentStage

(* setMetadata() that resolves while nobody else changes the dataset has   *)
(* described what the action describes and the dataset has, and nothing    *)
(* else, in whatever order its requests are answered; and only a dataset   *)
(* of another kind, or a request that fails, makes it reject.  In BigQuery *)
(* this needs paths that can be told apart when their names are joined     *)
(* (run.ts:390-400, bigquery.ts:497-528).                                  *)
THEOREM DescriptionsAreWritten ==
  ASSUME PathsAreDistinct
  PROVE  CallSpec => []DescriptionsArrive
<1>1. PathsAreDistinct
  OBVIOUS
<1>2. DescriptionInv /\ [CallNext]_callVars => DescriptionInv'
  BY <1>1, NextDescription
<1> QED
  BY <1>2, InitDescription, DescriptionsHold, PTL DEF CallSpec
-----------------------------------------------------------------------------
(* The primitive that a name stands for, wherever it is known.             *)
PrimitiveOf(name) ==
  IF name \in {"FLOAT", "FLOAT4", "FLOAT64", "FLOAT8", "DOUBLE", "DOUBLE PRECISION", "REAL"} THEN "FLOAT"
  ELSE IF name \in {"INTEGER", "INT", "INT2", "INT4", "INT8", "INT64", "BIGINT", "SMALLINT", "TINYINT"}
  THEN "INTEGER"
  ELSE IF name \in {"NUMERIC", "NUMBER", "DECIMAL"} THEN "NUMERIC"
  ELSE IF name \in {"BOOL", "BOOLEAN", "BIT"} THEN "BOOLEAN"
  ELSE IF name = "DATE" THEN "DATE"
  ELSE IF name \in {"DATETIME", "DATETIME2", "DATETIMEOFFSET", "SMALLDATETIME"} THEN "DATETIME"
  ELSE IF name \in {"TIMESTAMP", "TIMESTAMPZ", "TIMESTAMP WITHOUT TIME ZONE", "TIMESTAMP WITH TIME ZONE",
                    "TIMESTAMP_LTZ", "TIMESTAMP_NTZ", "TIMESTAMP_TZ"} THEN "TIMESTAMP"
  ELSE IF name = "TIME" THEN "TIME"
  ELSE IF name \in {"BYTES", "BINARY", "VARBINARY", "IMAGE"} THEN "BYTES"
  ELSE IF name \in {"VARIANT", "ARRAY", "OBJECT"} THEN "ANY"
  ELSE IF name = "GEOGRAPHY" THEN "GEOGRAPHY" ELSE "STRING"

(* Every name of every primitive of a warehouse.                           *)
Agrees(types) == \A p \in DOMAIN types : \A name \in types[p] : PrimitiveOf(name) = p

LEMMA BigQueryAgrees == Agrees(BigQueryTypes)
<1>1. DOMAIN BigQueryTypes = {"FLOAT", "INTEGER", "NUMERIC", "BOOLEAN", "STRING",
                              "DATE", "DATETIME", "TIMESTAMP", "TIME", "BYTES",
                              "GEOGRAPHY"}
  BY Zenon DEF BigQueryTypes
<1>2. \A name \in BigQueryTypes["FLOAT"] : PrimitiveOf(name) = "FLOAT"
  BY Zenon DEF BigQueryTypes, PrimitiveOf
<1>3. \A name \in BigQueryTypes["INTEGER"] : PrimitiveOf(name) = "INTEGER"
  BY Zenon DEF BigQueryTypes, PrimitiveOf
<1>4. \A name \in BigQueryTypes["NUMERIC"] : PrimitiveOf(name) = "NUMERIC"
  BY Zenon DEF BigQueryTypes, PrimitiveOf
<1>5. \A name \in BigQueryTypes["BOOLEAN"] : PrimitiveOf(name) = "BOOLEAN"
  BY Zenon DEF BigQueryTypes, PrimitiveOf
<1>6. \A name \in BigQueryTypes["STRING"] : PrimitiveOf(name) = "STRING"
  BY Zenon DEF BigQueryTypes, PrimitiveOf
<1>7. \A name \in BigQueryTypes["DATE"] : PrimitiveOf(name) = "DATE"
  BY Zenon DEF BigQueryTypes, PrimitiveOf
<1>8. \A name \in BigQueryTypes["DATETIME"] : PrimitiveOf(name) = "DATETIME"
  BY Zenon DEF BigQueryTypes, PrimitiveOf
<1>9. \A name \in BigQueryTypes["TIMESTAMP"] : PrimitiveOf(name) = "TIMESTAMP"
  BY Zenon DEF BigQueryTypes, PrimitiveOf
<1>10. \A name \in BigQueryTypes["TIME"] : PrimitiveOf(name) = "TIME"
  BY Zenon DEF BigQueryTypes, PrimitiveOf
<1>11. \A name \in BigQueryTypes["BYTES"] : PrimitiveOf(name) = "BYTES"
  BY Zenon DEF BigQueryTypes, PrimitiveOf
<1>12. \A name \in BigQueryTypes["GEOGRAPHY"] : PrimitiveOf(name) = "GEOGRAPHY"
  BY Zenon DEF BigQueryTypes, PrimitiveOf
<1> QED
  BY <1>1, <1>2, <1>3, <1>4, <1>5, <1>6, <1>7, <1>8, <1>9, <1>10, <1>11, <1>12 DEF Agrees

LEMMA PgAgrees == Agrees(PgTypes)
<1>1. DOMAIN PgTypes = {"FLOAT", "INTEGER", "NUMERIC", "BOOLEAN", "STRING", "DATE",
                        "TIMESTAMP"}
  BY Zenon DEF PgTypes
<1>2. \A name \in PgTypes["FLOAT"] : PrimitiveOf(name) = "FLOAT"
  BY Zenon DEF PgTypes, PrimitiveOf
<1>3. \A name \in PgTypes["INTEGER"] : PrimitiveOf(name) = "INTEGER"
  BY Zenon DEF PgTypes, PrimitiveOf
<1>4. \A name \in PgTypes["NUMERIC"] : PrimitiveOf(name) = "NUMERIC"
  BY Zenon DEF PgTypes, PrimitiveOf
<1>5. \A name \in PgTypes["BOOLEAN"] : PrimitiveOf(name) = "BOOLEAN"
  BY Zenon DEF PgTypes, PrimitiveOf
<1>6. \A name \in PgTypes["STRING"] : PrimitiveOf(name) = "STRING"
  BY Zenon DEF PgTypes, PrimitiveOf
<1>7. \A name \in PgTypes["DATE"] : PrimitiveOf(name) = "DATE"
  BY Zenon DEF PgTypes, PrimitiveOf
<1>8. \A name \in PgTypes["TIMESTAMP"] : PrimitiveOf(name) = "TIMESTAMP"
  BY Zenon DEF PgTypes, PrimitiveOf
<1> QED
  BY <1>1, <1>2, <1>3, <1>4, <1>5, <1>6, <1>7, <1>8 DEF Agrees

LEMMA SnowflakeAgrees == Agrees(SnowflakeTypes)
<1>1. DOMAIN SnowflakeTypes = {"FLOAT", "INTEGER", "NUMERIC", "BOOLEAN", "STRING",
                               "DATE", "DATETIME", "TIMESTAMP", "TIME", "BYTES",
                               "ANY", "GEOGRAPHY"}
  BY Zenon DEF SnowflakeTypes
<1>2. \A name \in SnowflakeTypes["FLOAT"] : PrimitiveOf(name) = "FLOAT"
  BY Zenon DEF SnowflakeTypes, PrimitiveOf
<1>3. \A name \in SnowflakeTypes["INTEGER"] : PrimitiveOf(name) = "INTEGER"
  BY Zenon DEF SnowflakeTypes, PrimitiveOf
<1>4. \A name \in SnowflakeTypes["NUMERIC"] : PrimitiveOf(name) = "NUMERIC"
  BY Zenon DEF SnowflakeTypes, PrimitiveOf
<1>5. \A name \in SnowflakeTypes["BOOLEAN"] : PrimitiveOf(name) = "BOOLEAN"
  BY Zenon DEF SnowflakeTypes, PrimitiveOf
<1>6. \A name \in SnowflakeTypes["STRING"] : PrimitiveOf(name) = "STRING"
  BY Zenon DEF SnowflakeTypes, PrimitiveOf
<1>7. \A name \in SnowflakeTypes["DATE"] : PrimitiveOf(name) = "DATE"
  BY Zenon DEF SnowflakeTypes, PrimitiveOf
<1>8. \A name \in SnowflakeTypes["DATETIME"] : PrimitiveOf(name) = "DATETIME"
  BY Zenon DEF SnowflakeTypes, PrimitiveOf
<1>9. \A name \in SnowflakeTypes["TIMESTAMP"] : PrimitiveOf(name) = "TIMESTAMP"
  BY Zenon DEF SnowflakeTypes, PrimitiveOf
<1>10. \A name \in SnowflakeTypes["TIME"] : PrimitiveOf(name) = "TIME"
  BY Zenon DEF SnowflakeTypes, PrimitiveOf
<1>11. \A name \in SnowflakeTypes["BYTES"] : PrimitiveOf(name) = "BYTES"
  BY Zenon DEF SnowflakeTypes, PrimitiveOf
<1>12. \A name \in SnowflakeTypes["ANY"] : PrimitiveOf(name) = "ANY"
  BY Zenon DEF SnowflakeTypes, PrimitiveOf
<1>13. \A name \in SnowflakeTypes["GEOGRAPHY"] : PrimitiveOf(name) = "GEOGRAPHY"
  BY Zenon DEF SnowflakeTypes, PrimitiveOf
<1> QED
  BY <1>1, <1>2, <1>3, <1>4, <1>5, <1>6, <1>7, <1>8, <1>9, <1>10, <1>11, <1>12, <1>13 DEF Agrees

LEMMA SqlDwAgrees == Agrees(SqlDwTypes)
<1>1. DOMAIN SqlDwTypes = {"FLOAT", "INTEGER", "NUMERIC", "BOOLEAN", "STRING",
                           "DATE", "DATETIME", "TIME", "BYTES"}
  BY Zenon DEF SqlDwTypes
<1>2. \A name \in SqlDwTypes["FLOAT"] : PrimitiveOf(name) = "FLOAT"
  BY Zenon DEF SqlDwTypes, PrimitiveOf
<1>3. \A name \in SqlDwTypes["INTEGER"] : PrimitiveOf(name) = "INTEGER"
  BY Zenon DEF SqlDwTypes, PrimitiveOf
<1>4. \A name \in SqlDwTypes["NUMERIC"] : PrimitiveOf(name) = "NUMERIC"
  BY Zenon DEF SqlDwTypes, PrimitiveOf
<1>5. \A name \in SqlDwTypes["BOOLEAN"] : PrimitiveOf(name) = "BOOLEAN"
  BY Zenon DEF SqlDwTypes, PrimitiveOf
<1>6. \A name \in SqlDwTypes["STRING"] : PrimitiveOf(name) = "STRING"
  BY Zenon DEF SqlDwTypes, PrimitiveOf
<1>7. \A name \in SqlDwTypes["DATE"] : PrimitiveOf(name) = "DATE"
  BY Zenon DEF SqlDwTypes, PrimitiveOf
<1>8. \A name \in SqlDwTypes["DATETIME"] : PrimitiveOf(name) = "DATETIME"
  BY Zenon DEF SqlDwTypes, PrimitiveOf
<1>9. \A name \in SqlDwTypes["TIME"] : PrimitiveOf(name) = "TIME"
  BY Zenon DEF SqlDwTypes, PrimitiveOf
<1>10. \A name \in SqlDwTypes["BYTES"] : PrimitiveOf(name) = "BYTES"
  BY Zenon DEF SqlDwTypes, PrimitiveOf
<1> QED
  BY <1>1, <1>2, <1>3, <1>4, <1>5, <1>6, <1>7, <1>8, <1>9, <1>10 DEF Agrees

LEMMA ConversionsAgree == \A wh \in DOMAIN Conversions : Agrees(Conversions[wh])
  BY BigQueryAgrees, PgAgrees, SnowflakeAgrees, SqlDwAgrees DEF Conversions

(* Whatever was read is what the name stands for, or unknown.              *)
TypesInv ==
  /\ DOMAIN primitives = DOMAIN Conversions
  /\ \A wh \in DOMAIN Conversions : primitives[wh] \in {"unread", "UNKNOWN", PrimitiveOf(typeName)}

LEMMA NextTypes == TypesInv /\ [TypesNext]_typeVars => TypesInv'
<1> SUFFICES ASSUME TypesInv, [TypesNext]_typeVars PROVE TypesInv'
  OBVIOUS
<1>1. CASE UNCHANGED typeVars
  BY <1>1 DEF TypesInv, typeVars
<1>2. ASSUME NEW wh \in DOMAIN Conversions, ReadColumn(wh) PROVE TypesInv'
  <2>1. ConvertFieldType(Conversions[wh], typeName) \in {"UNKNOWN", PrimitiveOf(typeName)}
    <3>1. CASE typeName \notin Names(Conversions[wh])
      BY <3>1 DEF ConvertFieldType
    <3>2. CASE typeName \in Names(Conversions[wh])
      <4> DEFINE types == Conversions[wh]
      <4>1. \E p \in DOMAIN types : typeName \in types[p]
        BY <3>2 DEF Names
      <4>2. Agrees(types)
        BY ConversionsAgree
      <4> HIDE DEF types
      <4>3. PICK p \in DOMAIN types : typeName \in types[p] /\ p = ConvertFieldType(types, typeName)
        BY <4>1 DEF ConvertFieldType, Names
      <4> QED
        BY <4>2, <4>3 DEF Agrees, types
    <3> QED
      BY <3>1, <3>2
  <2> QED
    BY <1>2, <2>1 DEF ReadColumn, TypesInv
<1> QED
  BY <1>1, <1>2 DEF TypesNext

LEMMA InitTypes == TypesInit => TypesInv
  BY DEF TypesInit, TypesInv

LEMMA TypesHold == TypesInv => TypesAgree
  BY DEF TypesInv, TypesAgree

(* Two adapters that know a type by the same name convert it to the same   *)
(* primitive, whichever they are, unless one of them does not know it      *)
(* (bigquery.ts:464, postgres.ts:139, snowflake.ts:394 and                 *)
(* sqldatawarehouse.ts:237).                                               *)
THEOREM NamesMeanTheSame == TypesInit /\ [][TypesNext]_typeVars => []TypesAgree
  BY InitTypes, NextTypes, TypesHold, PTL
-----------------------------------------------------------------------------
(* All of them beside each other.                                          *)
WarehouseInv ==
  /\ part = "bigquery" => BigQueryInv
  /\ part = "snowflake" => SnowflakeInv
  /\ part = "sqldatawarehouse" => SqlDwInv
  /\ part = "presto" => PrestoInv
  /\ part \notin Drivers => HeardCancelIsFinal /\ ResultsAreWhole
  /\ PoolInv /\ MetadataInv /\ EvaluationInv /\ DescriptionInv /\ TypesInv

LEMMA InitWarehouse == WarehouseInit => WarehouseInv
<1> SUFFICES ASSUME WarehouseInit PROVE WarehouseInv
  OBVIOUS
<1>1. Init /\ PoolInit /\ CallInit /\ TypesInit
  BY DEF WarehouseInit, DriversIdle, CallsIdle, TypesIdle
<1>2. BigQueryInv /\ SnowflakeInv /\ SqlDwInv /\ PrestoInv
  BY <1>1, InitBigQuery, InitSnowflake, InitSqlDw, InitPresto
<1>3. MetadataInv /\ EvaluationInv /\ DescriptionInv /\ PoolInv /\ TypesInv
  BY <1>1, InitPool, InitMetadata, InitEvaluation, InitDescription, InitTypes
<1>4. HeardCancelIsFinal /\ ResultsAreWhole
  BY <1>2, BigQueryHolds
<1> QED
  BY <1>2, <1>3, <1>4 DEF WarehouseInv

LEMMA NextWarehouse ==
  PathsAreDistinct /\ WarehouseInv /\ [WarehouseNext]_warehouseVars => WarehouseInv'
<1> SUFFICES ASSUME PathsAreDistinct, WarehouseInv, [WarehouseNext]_warehouseVars
             PROVE  WarehouseInv'
  OBVIOUS
<1>1. /\ part' = part
      /\ part = "bigquery" => [BigQuery!Next]_vars
      /\ part = "snowflake" => [Snowflake!Next]_vars
      /\ part = "sqldatawarehouse" => [SqlDw!Next]_vars
      /\ part = "presto" => [Presto!Next]_vars
      /\ part \notin Drivers => UNCHANGED vars
      /\ [PoolNext]_poolVars /\ [CallNext]_callVars /\ [TypesNext]_typeVars
  BY DEF WarehouseNext, warehouseVars, Drivers
<1>2. PoolInv' /\ MetadataInv' /\ EvaluationInv' /\ DescriptionInv' /\ TypesInv'
  BY <1>1, NextPool, NextMetadata, NextEvaluation, NextDescription, NextTypes DEF WarehouseInv
<1>3. part' = "bigquery" => BigQueryInv'
  BY <1>1, NextBigQuery DEF WarehouseInv
<1>4. part' = "snowflake" => SnowflakeInv'
  BY <1>1, NextSnowflake DEF WarehouseInv
<1>5. part' = "sqldatawarehouse" => SqlDwInv'
  BY <1>1, NextSqlDw DEF WarehouseInv
<1>6. part' = "presto" => PrestoInv'
  BY <1>1, NextPresto DEF WarehouseInv
<1>7. part' \notin Drivers => HeardCancelIsFinal' /\ ResultsAreWhole'
  BY <1>1 DEF WarehouseInv, vars, HeardCancelIsFinal, ResultsAreWhole
<1> QED
  BY <1>2, <1>3, <1>4, <1>5, <1>6, <1>7 DEF WarehouseInv

(* Whichever driver executes, whoever locks clients and whatever is asked  *)
(* of an adapter: results are whole but Presto's, cancels that were heard  *)
(* are final, clients are not shared or lost, what is told of tables was   *)
(* so, descriptions are written, evaluations paired with their queries,    *)
(* and types of the same name read alike.                                  *)
THEOREM WarehousesAreRight ==
  ASSUME PathsAreDistinct
  PROVE  WarehouseInit /\ [][WarehouseNext]_warehouseVars =>
           [](/\ WholeResults /\ HeardCancelIsFinal
              /\ ClientsAreNotShared /\ NoClientIsLost
              /\ MetadataWasTrue /\ DescriptionsArrive /\ EvaluationsMatch /\ TypesAgree)
<1>1. WarehouseInv /\ [WarehouseNext]_warehouseVars => WarehouseInv'
  BY NextWarehouse
<1>2. ASSUME WarehouseInv
      PROVE  /\ WholeResults /\ HeardCancelIsFinal
             /\ ClientsAreNotShared /\ NoClientIsLost
             /\ MetadataWasTrue /\ DescriptionsArrive /\ EvaluationsMatch /\ TypesAgree
  <2>1. MetadataWasTrue /\ DescriptionsArrive /\ EvaluationsMatch /\ TypesAgree
    BY <1>2, MetadataHolds, DescriptionsHold, EvaluationHolds, TypesHold DEF WarehouseInv
  <2>2. ClientsAreNotShared /\ NoClientIsLost
    BY <1>2 DEF WarehouseInv, PoolInv
  <2>3. HeardCancelIsFinal /\ (part # "presto" => ResultsAreWhole)
    BY <1>2, BigQueryHolds, SnowflakeHolds, SqlDwHolds, PrestoHolds DEF WarehouseInv, Drivers
  <2> QED
    BY <2>1, <2>2, <2>3 DEF WholeResults
<1> QED
  BY <1>1, <1>2, InitWarehouse, PTL
=============================================================================
