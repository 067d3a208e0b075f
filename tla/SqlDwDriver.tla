----------------------------- MODULE SqlDwDriver -----------------------------
(***************************************************************************)
(* SQLDataWarehouseDBAdapter.execute(), src/api/dbadapters/                *)
(* sqldatawarehouse.ts: requests wait for the connection pool, first for   *)
(* the pool itself (at "queued"), then, with a cancel handler registered,  *)
(* for a connection of it (at "creating").                                 *)
(***************************************************************************)
EXTENDS QueryDriver

Busy == {s \in Statements : job[s] = "running" \/ at[s] = "streaming"}

(* The pool is connected: request() and query(), without an await between. *)
Request(s) ==
  /\ at[s] = "queued"
  /\ Goto(s, "creating")
  /\ UNCHANGED <<total, job, sent, results, outcome, flag, heard, attempt>>

(* The connection cannot be made: no execute() call gets beyond "await".   *)
NoPool ==
  /\ \A s \in Statements : at[s] = "queued"
  /\ at' = [s \in Statements |-> "over"]
  /\ outcome' = [s \in Statements |-> "rejected"]
  /\ UNCHANGED <<total, job, sent, results, flag, heard, attempt>>

(* The request gets a connection, unless it was cancelled meanwhile.       *)
Run(s) ==
  /\ at[s] = "creating"
  /\ IF flag[s]
     THEN Goto(s, "over") /\ Settled(s, "rejected") /\ UNCHANGED job
     ELSE /\ Cardinality(Busy) < Concurrency
          /\ job' = [job EXCEPT ![s] = "running"]
          /\ Goto(s, "streaming") /\ UNCHANGED outcome
  /\ UNCHANGED <<total, sent, results, flag, heard, attempt>>

AtLimit(s) == job' = [job EXCEPT ![s] = "stopped"]

(* A row arrives while the statement runs; the one that is refused cancels *)
(* the request and resolves the promise.                                   *)
RowArrives(s) ==
  /\ at[s] = "streaming" /\ job[s] \in {"running", "succeeded"} /\ sent[s] < total[s]
  /\ sent' = [sent EXCEPT ![s] = @ + 1]
  /\ IF HasRoom(s)
     THEN results' = [results EXCEPT ![s] = @ + 1] /\ UNCHANGED <<at, outcome, job>>
     ELSE AtLimit(s) /\ Goto(s, "over") /\ Settled(s, "resolved") /\ UNCHANGED results
  /\ UNCHANGED <<total, flag, heard, attempt>>

(* "done" after the last row, or "error"; "done" that follows an error     *)
(* finds the promise settled.                                              *)
Ends(s) ==
  /\ at[s] = "streaming"
  /\ \/ job[s] = "succeeded" /\ sent[s] = total[s] /\ Settled(s, "resolved")
     \/ job[s] \in {"failed", "stopped"} /\ Settled(s, "rejected")
  /\ Goto(s, "over")
  /\ UNCHANGED <<total, job, sent, results, flag, heard, attempt>>

(* request.cancel() of every request that has not ended.                   *)
Cancel ==
  LET asked == {s \in Statements : at[s] \in {"creating", "streaming"}}
  IN /\ asked # {}
     /\ flag' = [s \in Statements |-> flag[s] \/ s \in asked]
     /\ heard' = [s \in Statements |->
          heard[s] \/ (s \in asked /\ (at[s] = "creating" \/ job[s] = "running"))]
     /\ job' = [s \in Statements |->
          IF s \in asked /\ job[s] = "running" THEN "stopped" ELSE job[s]]
     /\ UNCHANGED <<total, at, sent, results, outcome, attempt>>

Step(s) ==
  \/ Request(s) \/ Run(s) \/ RowArrives(s) \/ Ends(s) \/ JobEnds(s) \/ JobFails(s)

Next == Cancel \/ NoPool \/ \E s \in Statements : Step(s)
=============================================================================
