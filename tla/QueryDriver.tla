----------------------------- MODULE QueryDriver -----------------------------
(***************************************************************************)
(* What the warehouse adapters of src/api/dbadapters have in common when   *)
(* they execute a statement: a pool that lets some statements through at a *)
(* time, a promise that settles once, a result set with a limit            *)
(* (src/api/utils/results.ts), and cancel handlers.                        *)
(*                                                                         *)
(* The modules BigQueryDriver, SnowflakeDriver, SqlDwDriver and            *)
(* PrestoDriver extend this one with the steps of their client libraries.  *)
(* What a statement does at the warehouse (job) goes on beside what the    *)
(* adapter knows of it (at).  Rows are counted, not told apart.            *)
(***************************************************************************)
EXTENDS Integers, FiniteSets

CONSTANTS
  Statements,   \* calls of execute()
  Concurrency,  \* concurrencyLimit of the pool
  MaxRows,      \* bound on the rows of a result
  RowLimit,     \* rowLimit of every call
  MaxAttempts   \* BIGQUERY_INTERNAL_ERROR_JOB_MAX_ATTEMPTS

ASSUME DriverAssumption ==
  /\ IsFiniteSet(Statements)
  /\ Concurrency \in Nat \ {0} /\ MaxAttempts \in Nat \ {0}
  /\ MaxRows \in Nat /\ RowLimit \in Nat \ {0}

VARIABLES
  total,    \* rows of each statement's result
  at,       \* where execute() is
  job,      \* what the statement does at the warehouse
  sent,     \* rows of the result that have reached the adapter
  results,  \* rows in the LimitedResultSet
  outcome,  \* of the promise
  flag,     \* isCancelled
  heard,    \* history: a cancel handler was called while the promise was pending
  attempt   \* attempts of BigQuery's internal retry

vars == <<total, at, job, sent, results, outcome, flag, heard, attempt>>

Places == {"queued", "creating", "streaming", "metadata", "polling", "over"}
Jobs == {"none", "running", "succeeded", "failed", "stopped"}

TypeOK ==
  /\ total \in [Statements -> 0..MaxRows]
  /\ at \in [Statements -> Places]
  /\ job \in [Statements -> Jobs]
  /\ sent \in [Statements -> 0..MaxRows]
  /\ results \in [Statements -> 0..RowLimit]
  /\ outcome \in [Statements -> {"pending", "resolved", "rejected"}]
  /\ flag \in [Statements -> BOOLEAN]
  /\ heard \in [Statements -> BOOLEAN]
  /\ attempt \in [Statements -> 0..MaxAttempts]

(* Every call has reached the queue of the pool.                           *)
Init ==
  /\ total \in [Statements -> 0..MaxRows]
  /\ at = [s \in Statements |-> "queued"]
  /\ job = [s \in Statements |-> "none"]
  /\ sent = [s \in Statements |-> 0]
  /\ results = [s \in Statements |-> 0]
  /\ outcome = [s \in Statements |-> "pending"]
  /\ flag = [s \in Statements |-> FALSE]
  /\ heard = [s \in Statements |-> FALSE]
  /\ attempt = [s \in Statements |-> 0]
-----------------------------------------------------------------------------
(* resolve() and reject(): the first call counts.                          *)
Settled(s, o) ==
  outcome' = [outcome EXCEPT ![s] = IF @ = "pending" THEN o ELSE @]

Goto(s, l) == at' = [at EXCEPT ![s] = l]

(* A task of the pool ends when its promise settles.                       *)
HasSlot ==
  Cardinality({s \in Statements : at[s] # "queued" /\ outcome[s] = "pending"}) < Concurrency

(* LimitedResultSet.push(): a row is taken while the limit is not reached. *)
HasRoom(s) == results[s] < RowLimit

(* The statement comes to its end at the warehouse.                        *)
JobEnds(s) ==
  /\ job[s] = "running"
  /\ job' = [job EXCEPT ![s] = "succeeded"]
  /\ UNCHANGED <<total, at, sent, results, outcome, flag, heard, attempt>>

JobFails(s) ==
  /\ job[s] = "running"
  /\ job' = [job EXCEPT ![s] = "failed"]
  /\ UNCHANGED <<total, at, sent, results, outcome, flag, heard, attempt>>

(* A row of a stream; when the result set refuses it, the stream is ended  *)
(* and execute() goes on at "full".                                        *)
Row(s, full) ==
  /\ at[s] = "streaming" /\ job[s] = "succeeded" /\ sent[s] < total[s]
  /\ sent' = [sent EXCEPT ![s] = @ + 1]
  /\ IF HasRoom(s)
     THEN results' = [results EXCEPT ![s] = @ + 1] /\ UNCHANGED at
     ELSE Goto(s, full) /\ UNCHANGED results
  /\ UNCHANGED <<total, job, outcome, flag, heard, attempt>>
-----------------------------------------------------------------------------
Least(a, b) == IF a < b THEN a ELSE b

(* A statement that resolves has run to its end, or to its limit, and none *)
(* of its rows is missing below the limit (dbadapters/index.ts:15-18).     *)
ResultsAreWhole ==
  \A s \in Statements : outcome[s] = "resolved" =>
    /\ job[s] \in {"succeeded", "stopped"}
    /\ job[s] = "stopped" => sent[s] > RowLimit
    /\ results[s] = Least(total[s], RowLimit)

(* A cancel that a statement's handler heard ends it: it does not resolve  *)
(* later (run.ts:444-450, api.spec.ts:1397).                               *)
HeardCancelIsFinal ==
  \A s \in Statements : heard[s] => outcome[s] # "resolved"
=============================================================================
