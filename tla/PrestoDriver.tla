---------------------------- MODULE PrestoDriver ----------------------------
(***************************************************************************)
(* PrestoDbAdapter.execute(), src/api/dbadapters/presto.ts: the client     *)
(* polls for pages of rows and asks before each poll whether the statement *)
(* was cancelled.  The handler is registered before the call is queued.    *)
(* A page is pushed to the result set as one row, and the promise resolves *)
(* at the first one; polling goes on behind it.                            *)
(***************************************************************************)
EXTENDS QueryDriver

Start(s) ==
  /\ at[s] = "queued" /\ HasSlot
  /\ Goto(s, "polling")
  /\ job' = [job EXCEPT ![s] = "running"]
  /\ UNCHANGED <<total, sent, results, outcome, flag, heard, attempt>>

MayPoll(s) == ~flag[s]

(* data(): a page, while the statement runs or after it.                   *)
Page(s) ==
  /\ at[s] = "polling" /\ MayPoll(s)
  /\ job[s] \in {"running", "succeeded"} /\ sent[s] < total[s]
  /\ sent' = [sent EXCEPT ![s] = @ + 1]
  /\ IF HasRoom(s)
     THEN results' = [results EXCEPT ![s] = @ + 1] /\ UNCHANGED flag
     ELSE flag' = [flag EXCEPT ![s] = TRUE] /\ UNCHANGED results
  /\ Settled(s, "resolved")
  /\ UNCHANGED <<total, at, job, heard, attempt>>

(* success() after the last page, or error().                              *)
Ends(s) ==
  /\ at[s] = "polling" /\ MayPoll(s)
  /\ \/ job[s] = "succeeded" /\ sent[s] = total[s] /\ Settled(s, "resolved")
     \/ job[s] = "failed" /\ Settled(s, "rejected")
  /\ Goto(s, "over")
  /\ UNCHANGED <<total, job, sent, results, flag, heard, attempt>>

(* The client finds the flag set: it deletes the statement and reports an  *)
(* error.                                                                  *)
PollCancels(s) ==
  /\ at[s] = "polling" /\ flag[s]
  /\ Goto(s, "over") /\ Settled(s, "rejected")
  /\ job' = [job EXCEPT ![s] = IF @ = "running" THEN "stopped" ELSE @]
  /\ UNCHANGED <<total, sent, results, flag, heard, attempt>>

Cancel ==
  /\ \E s \in Statements : ~flag[s]
  /\ flag' = [s \in Statements |-> TRUE]
  /\ heard' = [s \in Statements |-> heard[s] \/ outcome[s] = "pending"]
  /\ UNCHANGED <<total, at, job, sent, results, outcome, attempt>>

Step(s) ==
  \/ Start(s) \/ Page(s) \/ Ends(s) \/ PollCancels(s) \/ JobEnds(s) \/ JobFails(s)

Next == Cancel \/ \E s \in Statements : Step(s)
=============================================================================
