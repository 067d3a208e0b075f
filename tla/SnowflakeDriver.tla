--------------------------- MODULE SnowflakeDriver ---------------------------
(***************************************************************************)
(* SnowflakeDbAdapter.execute(), src/api/dbadapters/snowflake.ts: one      *)
(* connection executes the statements that the pool lets through; the      *)
(* callback "complete" starts the stream of rows.  A cancel is a request   *)
(* of its own to the warehouse (flag: it is under way).                    *)
(***************************************************************************)
EXTENDS QueryDriver

Start(s) ==
  /\ at[s] = "queued" /\ HasSlot
  /\ Goto(s, "creating")
  /\ job' = [job EXCEPT ![s] = "running"]
  /\ UNCHANGED <<total, sent, results, outcome, flag, heard, attempt>>

(* Mutant: an error is not looked at.                                      *)
CompletedWellAlways(s) == TRUE

CompletedWell(s) == job[s] = "succeeded"

(* complete(): an error rejects.                                           *)
Complete(s) ==
  /\ at[s] = "creating" /\ job[s] # "running"
  /\ IF CompletedWell(s)
     THEN Goto(s, "streaming") /\ UNCHANGED outcome
     ELSE Goto(s, "over") /\ Settled(s, "rejected")
  /\ UNCHANGED <<total, job, sent, results, flag, heard, attempt>>

(* "error" of the stream.                                                  *)
StreamFails(s) ==
  /\ at[s] = "streaming"
  /\ Goto(s, "over") /\ Settled(s, "rejected")
  /\ UNCHANGED <<total, job, sent, results, flag, heard, attempt>>

(* Mutant: "close" is not listened to.                                     *)
StreamEndsItself(s) ==
  /\ at[s] = "streaming" /\ sent[s] = total[s]
  /\ Goto(s, "over") /\ Settled(s, "resolved")
  /\ UNCHANGED <<total, job, sent, results, flag, heard, attempt>>

(* "end", after the last row, or "close", after the stream was destroyed.  *)
StreamEnds(s) ==
  /\ \/ at[s] = "streaming" /\ sent[s] = total[s]
     \/ at[s] = "metadata"
  /\ Goto(s, "over") /\ Settled(s, "resolved")
  /\ UNCHANGED <<total, job, sent, results, flag, heard, attempt>>

(* The handlers ask the warehouse to cancel.                               *)
Cancel ==
  LET asked == {s \in Statements : at[s] # "queued" /\ outcome[s] = "pending"}
  IN /\ asked # {}
     /\ flag' = [s \in Statements |-> flag[s] \/ s \in asked]
     /\ UNCHANGED <<total, at, job, sent, results, outcome, heard, attempt>>

(* The warehouse stops the statement: "complete" is called with an error.  *)
CancelWorks(s) ==
  /\ flag[s] /\ job[s] = "running"
  /\ flag' = [flag EXCEPT ![s] = FALSE]
  /\ job' = [job EXCEPT ![s] = "stopped"]
  /\ heard' = [heard EXCEPT ![s] = TRUE]
  /\ UNCHANGED <<total, at, sent, results, outcome, attempt>>

(* It refuses, with an error that rejects the promise (the stream goes on  *)
(* unheard), or it says nothing of a statement that has ended.             *)
CancelRefused(s) ==
  /\ flag[s]
  /\ flag' = [flag EXCEPT ![s] = FALSE]
  /\ \/ Settled(s, "rejected") /\ heard' = [heard EXCEPT ![s] = @ \/ outcome[s] = "pending"]
     \/ job[s] # "running" /\ UNCHANGED <<outcome, heard>>
  /\ UNCHANGED <<total, at, job, sent, results, attempt>>

Step(s) ==
  \/ Start(s) \/ Complete(s) \/ Row(s, "metadata") \/ StreamFails(s) \/ StreamEnds(s)
  \/ JobEnds(s) \/ JobFails(s)

Next == Cancel \/ \E s \in Statements : Step(s) \/ CancelWorks(s) \/ CancelRefused(s)
=============================================================================
