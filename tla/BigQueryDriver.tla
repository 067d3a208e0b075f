--------------------------- MODULE BigQueryDriver ---------------------------
(***************************************************************************)
(* BigQueryDbAdapter.execute() and createQueryJob(),                       *)
(* src/api/dbadapters/bigquery.ts: a job is created by one request, its    *)
(* results are streamed, and its metadata say how it ended.  Jobs that     *)
(* meet an internal error of BigQuery are created again.  Ending the       *)
(* stream does not end the job.                                            *)
(***************************************************************************)
EXTENDS QueryDriver

(* The pool starts the task: a first handler is registered, which sets     *)
(* isCancelled, and the first attempt is made.                             *)
Start(s) ==
  /\ at[s] = "queued" /\ HasSlot
  /\ Goto(s, "creating")
  /\ attempt' = [attempt EXCEPT ![s] = 1]
  /\ UNCHANGED <<total, job, sent, results, outcome, flag, heard>>

(* Mutant: a cancel before the answer is not looked at.                    *)
CreatedUnchecked(s) == Goto(s, "streaming") /\ UNCHANGED outcome

(* The answer: cancelled in between, or streamed with a second handler.    *)
Created(s) ==
  IF flag[s]
  THEN Settled(s, "rejected") /\ Goto(s, "over")
  ELSE Goto(s, "streaming") /\ UNCHANGED outcome

(* createQueryJob() resolves; each attempt has a result set of its own.    *)
JobCreated(s) ==
  /\ at[s] = "creating"
  /\ job' = [job EXCEPT ![s] = "running"]
  /\ sent' = [sent EXCEPT ![s] = 0]
  /\ results' = [results EXCEPT ![s] = 0]
  /\ Created(s)
  /\ UNCHANGED <<total, flag, heard, attempt>>

(* An error: retry() makes the next attempt if it is an internal error of  *)
(* BigQuery and there is one left.                                         *)
Fails(s, internal) ==
  IF internal /\ attempt[s] < MaxAttempts
  THEN /\ Goto(s, "creating")
       /\ attempt' = [attempt EXCEPT ![s] = @ + 1]
       /\ UNCHANGED outcome
  ELSE /\ Goto(s, "over") /\ Settled(s, "rejected")
       /\ UNCHANGED attempt

JobRefused(s) ==
  /\ at[s] = "creating"
  /\ \E internal \in BOOLEAN : Fails(s, internal)
  /\ UNCHANGED <<total, job, sent, results, flag, heard>>

(* "error" of the stream: the job has failed, or the connection has.       *)
StreamFails(s) ==
  /\ at[s] = "streaming" /\ job[s] \in {"failed", "succeeded"}
  /\ \E internal \in BOOLEAN : Fails(s, internal)
  /\ UNCHANGED <<total, job, sent, results, flag, heard>>

(* "end" of the stream, also of a failed job without rows.                 *)
StreamEnds(s) ==
  /\ at[s] = "streaming"
  /\ \/ job[s] = "succeeded" /\ sent[s] = total[s]
     \/ job[s] = "failed"
  /\ Goto(s, "metadata")
  /\ UNCHANGED <<total, job, sent, results, outcome, flag, heard, attempt>>

JobError(s) == job[s] = "failed"

(* getMetadata() answers, or fails.                                        *)
Metadata(s) ==
  /\ at[s] = "metadata"
  /\ \/ ~JobError(s) /\ Settled(s, "resolved") /\ Goto(s, "over") /\ UNCHANGED attempt
     \/ JobError(s) /\ \E internal \in BOOLEAN : Fails(s, internal)
     \/ Fails(s, FALSE)
  /\ UNCHANGED <<total, job, sent, results, flag, heard>>

(* The run's cancel event reaches the handlers registered so far.          *)
Cancel ==
  LET first  == {s \in Statements : at[s] \notin {"queued", "over"}}
      second == {s \in first : at[s] \in {"streaming", "metadata"}}
  IN /\ first # {}
     /\ flag' = [s \in Statements |-> flag[s] \/ s \in first]
     /\ heard' = [s \in Statements |-> heard[s] \/ s \in first]
     /\ at' = [s \in Statements |-> IF s \in second THEN "over" ELSE at[s]]
     /\ outcome' = [s \in Statements |-> IF s \in second THEN "rejected" ELSE outcome[s]]
     /\ UNCHANGED <<total, job, sent, results, attempt>>

Step(s) ==
  \/ Start(s) \/ JobCreated(s) \/ JobRefused(s) \/ Row(s, "metadata")
  \/ StreamFails(s) \/ StreamEnds(s) \/ Metadata(s)
  \/ JobEnds(s) \/ JobFails(s)

Next == Cancel \/ \E s \in Statements : Step(s)
=============================================================================
