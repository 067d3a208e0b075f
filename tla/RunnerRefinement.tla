-------------------------- MODULE RunnerRefinement --------------------------
(***************************************************************************)
(* The run executor implements DagExecution, for every execution graph     *)
(* without cycles and every configuration: what its results become in a    *)
(* step is what the abstract specification allows, and its verdict agrees  *)
(* with them.  And what it sends to the warehouse, and how often.          *)
(***************************************************************************)
EXTENDS RunnerProofs, FiniteSetTheorems

USE DEF RunPcs, RunStatuses, ActionPcs, Successes, Settled, Statuses, TaskStatuses

(* A run that comes to its end by itself and sees no failure has executed  *)
(* everything: of the actions that did not succeed, one waits for none of  *)
(* them, and a pass would have started it.                                 *)
LEMMA AllSucceed ==
  ASSUME ResultsInv, runPc = "running", ~stopped, ~aborted,
         \A a \in Actions : pc[a] \in {"idle", "joined"} /\ status[a] # "FAILED"
  PROVE  \A a \in Actions : Successful(a)
<1> DEFINE T == {a \in Actions : ~Successful(a)}
<1>1. SUFFICES ASSUME T # {} PROVE FALSE
  OBVIOUS
<1>2. PICK a \in T : Deps[a] \cap T = {}
  BY <1>1, AcyclicAssumption
<1>3. a \in Actions /\ ~Successful(a) /\ \A d \in Known(a) : d \in Actions /\ Successful(d)
  BY <1>2 DEF Known
<1>4. /\ TypeOK /\ NothingForgotten /\ PassedOver /\ SkipHasCause
      /\ EntryOK(a, status[a], tasks[a], pc[a], a \in extra, aborted, stopped)
  BY <1>3 DEF ResultsInv, DepsInv, Entries
<1>5. Executable(a, succeeded)
  BY <1>3, <1>4 DEF Executable, NothingForgotten
<1>6. status[a] # "NONE"
  BY <1>3, <1>4, <1>5 DEF NothingForgotten, PassedOver
<1>7. status[a] # "RUNNING" /\ status[a] # "CANCELLED"
  BY <1>3, <1>4 DEF EntryOK, Resting, Successful
<1>8. status[a] # "SKIPPED"
  BY <1>3, <1>4 DEF SkipHasCause
<1> QED
  BY <1>3, <1>4, <1>6, <1>7, <1>8 DEF TypeOK, Successful

VerdictInv == ResultsInv /\ VerdictTruthful

LEMMA NextVerdict == VerdictInv /\ [Next]_vars => VerdictInv'
<1> SUFFICES ASSUME VerdictInv, [Next]_vars PROVE VerdictInv'
  OBVIOUS
<1> USE DEF runVars, graphVars, resultVars, queryVars, flagVars
<1>0. /\ ResultsInv /\ VerdictTruthful /\ ResultsInv' /\ Flags /\ VerdictLast
      /\ aborted => aborted'
  BY NextResults, NextFlags DEF VerdictInv, ResultsInv
<1>1. CASE FinishRun
  <2>1. /\ runPc = "running" /\ runPc' = "resolved" /\ runStatus' = FinalStatus
        /\ \A a \in Actions : pc[a] \in {"idle", "joined"}
        /\ UNCHANGED <<status, extra, aborted>>
    BY <1>1 DEF FinishRun
  <2>2. \A a : Successful(a)' <=> Successful(a)
    BY <2>1 DEF Successful
  <2>3. runStatus' = "SUCCESSFUL" => aborted \/ \A a \in Actions : Successful(a)
    <3> SUFFICES ASSUME runStatus' = "SUCCESSFUL", ~aborted
                 PROVE  \A a \in Actions : Successful(a)
      OBVIOUS
    <3>1. ~stopped /\ \A a \in Actions : status[a] # "FAILED"
      BY <1>0, <2>1 DEF FinalStatus, VerdictLast
    <3> QED
      BY <1>0, <2>1, <3>1, AllSucceed
  <2>4. runStatus' = "FAILED" => \E a \in Actions : status[a] = "FAILED"
    BY <1>0, <2>1 DEF FinalStatus, VerdictLast
  <2>5. runStatus' \in {"CANCELLED", "TIMED_OUT"} => aborted
    BY <1>0, <2>1 DEF FinalStatus, VerdictLast, Flags
  <2> QED
    BY <1>0, <2>1, <2>2, <2>3, <2>4, <2>5 DEF VerdictInv, VerdictTruthful
<1>2. CASE runPc' # "resolved"
  BY <1>0, <1>2 DEF VerdictInv, VerdictTruthful
<1>3. CASE ~FinishRun /\ runPc' = "resolved"
  <2>1. runPc = "resolved" /\ UNCHANGED <<status, extra, runStatus>>
    <3>1. \A a \in Actions : ~Step(a) \/ runPc # "resolved"
      BY <1>0 DEF VerdictLast, Step, Continue, At, AcquireLock, StartTask, LeaveLoop, QuerySucceeds,
                  QueryFails, QueryRetries, AfterTasks, SetMetadata, ReadTable, Finish, Join,
                  QueryStarts, LockFails, SetMetadataFails
    <3>2. \A a \in Actions : Step(a) => runPc' = runPc
      BY DEF Step, Continue, AcquireLock, StartTask, LeaveLoop, QuerySucceeds,
             QueryFails, QueryRetries, AfterTasks, SetMetadata, ReadTable, Finish, Join,
             QueryStarts, LockFails, SetMetadataFails
    <3>3. ~(\E a \in Actions : Step(a))
      BY <1>3, <3>1, <3>2
    <3>4. ~Resume /\ ~SchemasReady /\ ~SchemasFail /\ ~RejectRun
      BY <1>3 DEF Resume, SchemasReady, SchemasFail, RejectRun
    <3> QED
      BY <1>3, <3>3, <3>4 DEF Next, vars, CreateSchema, Cancel, TimerFires, Stop, DoCancel
  <2>2. \A a : Successful(a)' <=> Successful(a)
    BY <2>1 DEF Successful
  <2> QED
    BY <1>0, <2>1, <2>2 DEF VerdictInv, VerdictTruthful
<1> QED
  BY <1>1, <1>2, <1>3

LEMMA InitVerdict == Init => VerdictInv
  BY InitResults DEF Init, VerdictInv, VerdictTruthful

LEMMA VerdictSound == Spec => []VerdictInv
  BY InitVerdict, NextVerdict, PTL DEF Spec

(* The verdict agrees with the results: SUCCESSFUL means that every action *)
(* of the graph succeeded unless the run was ever cancelled, FAILED that   *)
(* one failed, and the others that it was cancelled (run.ts:190-203).      *)
THEOREM VerdictsAreTruthful == Spec => []VerdictTruthful
<1>1. VerdictInv => VerdictTruthful
  BY DEF VerdictInv
<1> QED
  BY <1>1, VerdictSound, PTL
-----------------------------------------------------------------------------
(* The refinement.  Every step of the executor is a step of DagExecution   *)
(* or changes nothing of what the caller sees.                             *)
OutcomeOf(a) ==
  IF Successful(a) THEN "success"
  ELSE IF status[a] \in {"FAILED", "CANCELLED"} THEN "failure"
  ELSE IF status[a] = "SKIPPED" THEN "skipped"
  ELSE IF status[a] = "RUNNING" THEN "running"
  ELSE "none"

Open == runPc # "resolved" \/ runStatus = "RUNNING"

LEMMA OutcomeIs ==
  /\ Outcome = [a \in Actions |-> OutcomeOf(a)]
  /\ Outcome' = [a \in Actions |-> OutcomeOf(a)']
<1>1. \A a \in Actions : Outcome[a] = OutcomeOf(a)
  BY DEF Outcome, OutcomeOf
<1>2. \A a \in Actions : Outcome'[a] = OutcomeOf(a)'
  BY DEF Outcome, OutcomeOf
<1> QED
  BY <1>1, <1>2 DEF Outcome

LEMMA VerdictIs ==
  /\ Open => Verdict = "open"
  /\ Open' => Verdict' = "open"
  /\ ~Open' => Verdict' = IF runStatus' = "SUCCESSFUL" THEN "success"
                          ELSE IF runStatus' = "FAILED" THEN "failure" ELSE "aborted"
<1>1. Open => Verdict = "open"
  BY DEF Open, Verdict
<1>2. Open' => Verdict' = "open"
  BY DEF Open, Verdict
<1>3. ~Open' => Verdict' = IF runStatus' = "SUCCESSFUL" THEN "success"
                           ELSE IF runStatus' = "FAILED" THEN "failure" ELSE "aborted"
  BY DEF Open, Verdict
<1> QED
  BY <1>1, <1>2, <1>3

LEMMA SameOutcomes ==
  ASSUME UNCHANGED <<status, extra>>
  PROVE  Outcome' = Outcome
<1>1. \A a : Successful(a)' <=> Successful(a)
  BY DEF Successful
<1>2. \A a \in Actions : OutcomeOf(a)' = OutcomeOf(a)
  BY <1>1 DEF OutcomeOf
<1> QED
  BY <1>2, OutcomeIs

LEMMA SeenProgress ==
  ASSUME Open, Open', UNCHANGED aborted,
         \A a \in Actions : Outcome'[a] \in Dag!Successors(a)
  PROVE  Dag!Progress
<1>1. Outcome' \in [Actions -> {"none", "running", "success", "failure", "skipped"}]
  BY OutcomeIs DEF OutcomeOf
<1>2. Verdict = "open" /\ Verdict' = "open"
  BY VerdictIs
<1> QED
  BY <1>1, <1>2 DEF Dag!Progress, Dag!Final

LEMMA AdvanceIsProgress ==
  ASSUME ResultsInv, NEW a \in Actions, Advance(a)
  PROVE  Dag!Progress
<1>1. /\ VerdictLast /\ TypeOK /\ a \notin extra /\ status[a] # "NONE" /\ status[a] # "SKIPPED"
      /\ status[a] \notin Successes
  <2>1. EntryOK(a, status[a], tasks[a], pc[a], a \in extra, aborted, stopped) /\ pc[a] \notin Resting
    BY DEF ResultsInv, Entries, Advance
  <2> QED
    BY <2>1 DEF ResultsInv, DepsInv, EntryOK, Resting
<1>2. Open /\ Open' /\ UNCHANGED <<aborted, extra>>
  BY <1>1 DEF Advance, VerdictLast, Open, Resting, runVars, flagVars
<1>3. ASSUME NEW n \in Actions \ {a} PROVE Outcome'[n] = Outcome[n]
  <2>1. status'[n] = status[n] /\ (Successful(n)' <=> Successful(n))
    BY <1>2 DEF Advance, Successful
  <2> QED
    BY <2>1, OutcomeIs DEF OutcomeOf
<1>4. CASE status[a] = "RUNNING"
  <2>1. Outcome[a] = "running"
    BY <1>1, <1>4, OutcomeIs DEF OutcomeOf, Successful
  <2>2. status'[a] \in {"RUNNING", "SUCCESSFUL", "FAILED", "CANCELLED"}
    BY <1>4 DEF Advance
  <2>3. Outcome'[a] \in {"running", "success", "failure"}
    BY <2>2, OutcomeIs DEF OutcomeOf, Successful
  <2> QED
    BY <1>2, <1>3, <2>1, <2>3, SeenProgress DEF Dag!Successors
<1>5. CASE status[a] # "RUNNING"
  <2>1. status'[a] = status[a] /\ (Successful(a)' <=> Successful(a))
    BY <1>2, <1>5 DEF Advance, Successful
  <2>2. Outcome'[a] = Outcome[a]
    BY <2>1, OutcomeIs DEF OutcomeOf
  <2> QED
    BY <1>2, <1>3, <2>2, SeenProgress DEF Dag!Successors
<1> QED
  BY <1>4, <1>5

LEMMA SweepIsProgress ==
  ASSUME ResultsInv, NEW P, NEW E, NEW S, NEW p, NEW sp, NEW cn, Sweep(P, E, S, p, sp, cn)
  PROVE  Dag!Progress
<1>1. Open /\ Open' /\ UNCHANGED aborted
  BY DEF Sweep, Open
<1>2. SkipsCaused
  BY SweepSkips
<1>3. SUFFICES ASSUME NEW a \in Actions PROVE Outcome'[a] \in Dag!Successors(a)
  BY <1>1, SeenProgress
<1>4. /\ Passed(a, P, E, S, p, sp, cn)
      /\ a \in P => a \notin extra /\ status[a] \in {"NONE", "RUNNING"}
  BY DEF Sweep
<1>5. Executable(a, S) => Dag!Ready(a)
  <2> SUFFICES ASSUME Executable(a, S), NEW d \in Known(a) PROVE Outcome[d] = "success"
    BY DEF Dag!Ready, Dag!Before, Known
  <2>1. Successful(d) /\ d \in Actions
    BY DEF Executable, Known, Sweep
  <2> QED
    BY <2>1, OutcomeIs DEF OutcomeOf
<1>6. CASE Kept(a, P, S, p, sp)
  <2>1. status'[a] = status[a] /\ (Successful(a)' <=> Successful(a))
    BY <1>6 DEF Kept, SameExtra, Successful
  <2>2. Outcome'[a] = Outcome[a]
    BY <2>1, OutcomeIs DEF OutcomeOf
  <2> QED
    BY <2>2 DEF Dag!Successors
<1>7. CASE a \in P /\ Skipped(a, E, S, p, sp, cn)
  <2>1. status'[a] = "SKIPPED" /\ ~Successful(a)' /\ ~Successful(a)
    BY <1>4, <1>7 DEF Skipped, SameExtra, Successful
  <2>2. Outcome'[a] = "skipped"
    BY <2>1, OutcomeIs DEF OutcomeOf
  <2>3. status[a] = "NONE"
    BY <1>7 DEF Sweep, Skipped, Skippable
  <2>4. Outcome[a] = "none"
    BY <2>1, <2>3, OutcomeIs DEF OutcomeOf
  <2>5. aborted \/ Dag!Hopeless(a)
    <3> SUFFICES ASSUME ~aborted PROVE Dag!Hopeless(a)
      OBVIOUS
    <3>1. PICK d \in Known(a) : ~Successful(d) /\ status[d] \in Settled
      BY <1>2, <2>1, <2>3 DEF SkipsCaused
    <3>2. d \in Actions /\ status[d] \in {"FAILED", "SKIPPED", "CANCELLED"}
      BY <3>1 DEF Known, Successful
    <3>3. Outcome[d] \in {"failure", "skipped"}
      BY <3>1, <3>2, OutcomeIs DEF OutcomeOf
    <3> QED
      BY <3>3 DEF Dag!Hopeless, Dag!Before, Known
  <2> QED
    BY <2>2, <2>4, <2>5 DEF Dag!Successors
<1>8. CASE a \in P /\ (Disabled(a, S) \/ Hit(a, S) \/ Started(a, S))
  <2>1. Dag!Ready(a)
    BY <1>5, <1>8 DEF Disabled, Hit, Started
  <2>2. ~Successful(a) /\ Outcome[a] \in {"none", "running"}
    BY <1>4, <1>8, OutcomeIs DEF OutcomeOf, Successful
  <2>3. Outcome'[a] \in {"running", "success"}
    BY <1>8, OutcomeIs DEF OutcomeOf, Disabled, Hit, Started, Successful
  <2> QED
    BY <2>1, <2>2, <2>3 DEF Dag!Successors
<1> QED
  BY <1>4, <1>6, <1>7, <1>8 DEF Passed

LEMMA FinishCloses ==
  ASSUME VerdictInv, VerdictInv', FinishRun
  PROVE  Dag!Close \/ UNCHANGED Dag!vars
<1>1. /\ runPc = "running" /\ runPc' = "resolved" /\ runStatus' = FinalStatus
      /\ \A a \in Actions : pc[a] \in {"idle", "joined"}
      /\ UNCHANGED <<status, extra, aborted>>
  BY DEF FinishRun, resultVars, flagVars
<1>2. /\ ResultsInv /\ VerdictTruthful' /\ Open /\ TypeOK'
  BY <1>1 DEF VerdictInv, ResultsInv, DepsInv, Open
<1>3. Outcome' = Outcome /\ Verdict = "open"
  BY <1>1, <1>2, SameOutcomes, VerdictIs
<1>4. CASE Open'
  BY <1>1, <1>3, <1>4, VerdictIs DEF Dag!vars
<1>5. CASE ~Open'
  <2>1. ~stopped /\ runStatus' \in RunStatuses \ {"RUNNING"}
    BY <1>1, <1>2, <1>5 DEF Open, FinalStatus, ResultsInv, VerdictLast, TypeOK
  <2>2. ASSUME NEW a \in Actions PROVE Outcome[a] # "running"
    <3>1. EntryOK(a, status[a], tasks[a], pc[a], a \in extra, aborted, stopped)
      BY <1>2 DEF ResultsInv, Entries
    <3>2. status[a] = "RUNNING" => Successful(a)
      BY <1>1, <2>1, <3>1 DEF EntryOK, Resting, Successful
    <3> QED
      BY <3>2, OutcomeIs DEF OutcomeOf
  <2>3. \A a : Successful(a)' <=> Successful(a)
    BY <1>1 DEF Successful
  <2>4. runStatus' = "SUCCESSFUL" => aborted \/ \A a \in Actions : Outcome[a] = "success"
    BY <1>1, <1>2, <2>3, OutcomeIs DEF VerdictTruthful, OutcomeOf
  <2>5. runStatus' = "FAILED" => \E a \in Actions : Outcome[a] = "failure"
    <3> SUFFICES ASSUME runStatus' = "FAILED" PROVE \E a \in Actions : Outcome[a] = "failure"
      OBVIOUS
    <3>1. PICK a \in Actions : status[a] = "FAILED"
      BY <1>1, <1>2 DEF VerdictTruthful
    <3>2. EntryOK(a, status[a], tasks[a], pc[a], a \in extra, aborted, stopped)
      BY <1>2 DEF ResultsInv, Entries
    <3>3. ~Successful(a)
      BY <3>1, <3>2 DEF EntryOK, Successful
    <3> QED
      BY <3>1, <3>3, OutcomeIs DEF OutcomeOf
  <2>6. runStatus' \in {"CANCELLED", "TIMED_OUT"} => aborted
    BY <1>1, <1>2 DEF VerdictTruthful
  <2>7. Verdict' = IF runStatus' = "SUCCESSFUL" THEN "success"
                   ELSE IF runStatus' = "FAILED" THEN "failure" ELSE "aborted"
    BY <1>5, VerdictIs
  <2> QED
    BY <1>1, <1>3, <2>1, <2>2, <2>4, <2>5, <2>6, <2>7 DEF Dag!Close
<1> QED
  BY <1>4, <1>5

LEMMA StepRefines == VerdictInv /\ [Next]_vars => [Dag!Next]_(Dag!vars)
<1> SUFFICES ASSUME VerdictInv, [Next]_vars PROVE Dag!Next \/ UNCHANGED Dag!vars
  OBVIOUS
<1> USE DEF runVars, graphVars, resultVars, queryVars, flagVars
<1>0. VerdictInv' /\ ResultsInv /\ VerdictLast
  BY NextVerdict DEF VerdictInv, ResultsInv
<1>1. CASE SchemasReady
  <2>1. Dag!Progress
    BY <1>0, <1>1, SchemasReadySweeps, SweepIsProgress
  <2> QED
    BY <2>1 DEF Dag!Next
<1>2. ASSUME NEW a \in Actions, Step(a) PROVE Dag!Next
  <2>1. Dag!Progress
    BY <1>0, <1>2, JoinSweeps, SweepIsProgress, StepAdvances, AdvanceIsProgress
  <2> QED
    BY <2>1 DEF Dag!Next
<1>3. CASE FinishRun
  <2>1. Dag!Close \/ UNCHANGED Dag!vars
    BY <1>0, <1>3, FinishCloses
  <2> QED
    BY <2>1 DEF Dag!Next
<1>4. CASE Resume
  <2>1. CASE Restart
    <3>1. UNCHANGED <<status, extra, aborted>> /\ Open /\ Open'
      BY <2>1 DEF Restart, Open
    <3> QED
      BY <3>1, SameOutcomes, VerdictIs DEF Dag!vars
  <2>2. CASE ~Restart
    <3>1. Dag!Progress
      BY <1>0, <1>4, <2>2, ResumeSweeps, SweepIsProgress
    <3> QED
      BY <3>1 DEF Dag!Next
  <2> QED
    BY <2>1, <2>2
<1>5. CASE Cancel \/ TimerFires
  <2>1. UNCHANGED <<status, extra, runPc, runStatus>> /\ aborted' = TRUE
    BY <1>5 DEF Cancel, TimerFires, DoCancel
  <2>2. Outcome' = Outcome /\ Verdict' = Verdict
    BY <2>1, SameOutcomes DEF Verdict
  <2> QED
    BY <2>1, <2>2 DEF Dag!Next, Dag!Abort
<1>6. CASE \/ SchemasFail \/ RejectRun \/ Stop
           \/ \E s \in Schemas : CreateSchema(s)
           \/ UNCHANGED vars
  <2>1. UNCHANGED <<status, extra, runStatus, aborted>> /\ (runPc' = runPc \/ (Open /\ Open'))
    BY <1>6 DEF SchemasFail, RejectRun, Stop, CreateSchema, vars, Open
  <2>2. Outcome' = Outcome
    BY <2>1, SameOutcomes
  <2>3. Verdict' = Verdict
    <3>1. CASE runPc' = runPc
      BY <2>1, <3>1 DEF Verdict
    <3>2. CASE Open /\ Open'
      BY <3>2, VerdictIs
    <3> QED
      BY <2>1, <3>1, <3>2
  <2> QED
    BY <2>1, <2>2, <2>3 DEF Dag!vars
<1> QED
  BY <1>1, <1>2, <1>3, <1>4, <1>5, <1>6 DEF Next

(* The executor implements DagExecution: starts and skips are justified by *)
(* the outcomes before the step, outcomes are final, and the verdict comes *)
(* once, with nothing in progress, and agrees with them (run.ts:171-316).  *)
THEOREM ImplementsTheDag == Spec => RunsTheDag
<1>1. Init => Dag!Init
  <2> SUFFICES ASSUME Init PROVE Dag!Init
    OBVIOUS
  <2>1. \A a \in Actions : Outcome[a] = "none"
    BY OutcomeIs DEF Init, OutcomeOf, Successful
  <2>2. Outcome = [a \in Actions |-> "none"]
    BY <2>1, OutcomeIs
  <2>3. Verdict = "open" /\ aborted = FALSE
    BY VerdictIs DEF Init, Open
  <2> QED
    BY <2>2, <2>3 DEF Dag!Init
<1> QED
  BY <1>1, StepRefines, VerdictSound, PTL DEF Spec, RunsTheDag, Dag!Spec
-----------------------------------------------------------------------------
(***************************************************************************)
(* What reaches the warehouse: the statements of an action are sent in     *)
(* order, each after those before it succeeded, and no more often than     *)
(* allowed.                                                                *)
(***************************************************************************)
Count(q, i) == Cardinality({k \in DOMAIN q : q[k] = i})

(* Appending to a sequence counts where it should.                         *)
LEMMA CountAppend ==
  ASSUME NEW q \in Seq(Nat), NEW v \in Nat, NEW i \in Nat
  PROVE  /\ Count(q, i) \in Nat
         /\ Count(Append(q, v), i) = IF v = i THEN Count(q, i) + 1 ELSE Count(q, i)
<1> DEFINE A == {k \in DOMAIN q : q[k] = i}
           n == Len(q) + 1
<1>1. IsFiniteSet(A)
  <2>1. IsFiniteSet(1..Len(q))
    BY FS_Interval
  <2>2. A \subseteq 1..Len(q)
    OBVIOUS
  <2> QED
    BY <2>1, <2>2, FS_Subset
<1>2. Cardinality(A) \in Nat
  BY <1>1, FS_CardinalityType
<1>3. n \notin A
  OBVIOUS
<1>4. {k \in DOMAIN Append(q, v) : Append(q, v)[k] = i} = IF v = i THEN A \cup {n} ELSE A
  OBVIOUS
<1>5. Cardinality(A \cup {n}) = Cardinality(A) + 1
  BY <1>1, <1>3, FS_AddElement
<1> QED
  BY <1>2, <1>4, <1>5 DEF Count

(* What was not among the first entries was never counted.                 *)
LEMMA CountNone ==
  ASSUME NEW q, NEW i, \A k \in DOMAIN q : q[k] # i
  PROVE  Count(q, i) = 0
<1>1. {k \in DOMAIN q : q[k] = i} = {}
  OBVIOUS
<1> QED
  BY <1>1, FS_EmptySet DEF Count

(* The statements t that action n has sent, while its entry has status s   *)
(* and tasks q, executeAction(n) is at l, and m is its attempt.            *)
TriesOK(n, s, q, l, m, t) ==
  /\ s = "NONE" => t = <<>>
  /\ \A k \in DOMAIN t : t[k] \in 1..Len(q) /\ \A j \in 1..(t[k] - 1) : q[j] = "SUCCESSFUL"
  /\ \A k, j \in DOMAIN t : k <= j => t[k] <= t[j]
  /\ \A i \in DOMAIN Tasks[n] : Count(t, i) <= MaxAttempts(Tasks[n][i])
  /\ s = "RUNNING" /\ Len(q) < Len(Tasks[n])
       => \A i \in DOMAIN q : q[i] \in {"SUCCESSFUL", "RUNNING"}
  /\ l \in Asking =>
       /\ Count(t, Len(q)) = m
       /\ m <= MaxAttempts(Tasks[n][Len(q)])
       /\ \A j \in 1..(Len(q) - 1) : q[j] = "SUCCESSFUL"

TriesInv ==
  /\ ResultsInv
  /\ \A n \in Actions : TriesOK(n, status[n], tasks[n], pc[n], attempt[n], tries[n])

(* Steps of an action that send nothing.                                   *)
LEMMA SilentTries ==
  ASSUME NEW n \in Actions, TypeOK, TypeOK', tries'[n] = tries[n],
         TriesOK(n, status[n], tasks[n], pc[n], attempt[n], tries[n]),
         tasks'[n] = tasks[n] \/ tries[n] = <<>>,
         status'[n] = "NONE" => status[n] = "NONE",
         status'[n] = "RUNNING" => tasks'[n] = tasks[n] /\ (status[n] = "RUNNING" \/ tasks[n] = <<>>),
         pc'[n] \in Asking => pc[n] \in Asking /\ tasks'[n] = tasks[n] /\ attempt'[n] = attempt[n]
  PROVE  TriesOK(n, status'[n], tasks'[n], pc'[n], attempt'[n], tries'[n])
<1>1. \A i : i \in DOMAIN <<>> => FALSE
  OBVIOUS
<1> QED
  BY <1>1 DEF TriesOK

(* The steps of an action that is under way.                               *)
LEMMA StepTries ==
  ASSUME TriesInv, NEW a \in Actions, Step(a), ~Join(a), TypeOK'
  PROVE  TriesOK(a, status'[a], tasks'[a], pc'[a], attempt'[a], tries'[a])
<1> USE DEF Goto, At, resultVars, queryVars, graphVars, runVars, flagVars
<1>0. /\ TypeOK /\ QueriesOfRunning
      /\ TriesOK(a, status[a], tasks[a], pc[a], attempt[a], tries[a])
      /\ EntryOK(a, status[a], tasks[a], pc[a], a \in extra, aborted, stopped)
  BY DEF TriesInv, ResultsInv, DepsInv, Entries
<1>t. /\ tasks[a] \in Seq(TaskStatuses) /\ tries[a] \in Seq(Nat) /\ attempt[a] \in Nat
      /\ Len(tasks[a]) \in Nat /\ Len(Tasks[a]) \in Nat /\ Tasks[a] \in Seq(TaskTypes)
      /\ Retries \in Nat
  BY <1>0, GraphAssumption, ConfigAssumption DEF TypeOK
<1>1. CASE \/ AcquireLock(a) \/ LockFails(a) \/ AfterTasks(a) \/ SetMetadata(a)
           \/ SetMetadataFails(a) \/ ReadTable(a) \/ Finish(a)
  <2>1. /\ UNCHANGED <<tasks, tries, attempt>> /\ pc'[a] \notin Asking
        /\ status'[a] = status[a] \/ (status[a] = "RUNNING" /\ status'[a] = "SUCCESSFUL")
    BY <1>0, <1>1 DEF AcquireLock, LockFails, AfterTasks, SetMetadata, SetMetadataFails, ReadTable,
                      Finish, TableOrFinish, TypeOK, Asking
  <2> QED
    BY <1>0, <2>1, SilentTries
<1>2. CASE QueryStarts(a)
  <2>1. UNCHANGED <<tasks, tries, attempt, status>> /\ pc[a] \in Asking
    BY <1>2 DEF QueryStarts, Asking
  <2> QED
    BY <1>0, <2>1, SilentTries
<1>3. CASE LeaveLoop(a)
  <2>1. status' = status /\ tries' = tries /\ pc'[a] = "unlocked"
    BY <1>0, <1>3 DEF LeaveLoop, TypeOK
  <2>2. CASE UNCHANGED tasks
    BY <1>0, <2>1, <2>2, SilentTries DEF Asking
  <2>3. CASE tasks' = [tasks EXCEPT ![a] =
               [i \in 1..Len(Tasks[a]) |-> IF i \in DOMAIN tasks[a] THEN tasks[a][i] ELSE "SKIPPED"]]
    <3>1. /\ Len(tasks'[a]) = Len(Tasks[a])
          /\ \A i \in DOMAIN tasks[a] : tasks'[a][i] = tasks[a][i]
          /\ Len(tasks[a]) <= Len(Tasks[a])
      BY <1>0, <1>t, <2>3 DEF TypeOK, EntryOK
    <3>2. \A k \in DOMAIN tries[a] : tries[a][k] \in 1..Len(tasks[a])
      BY <1>0 DEF TriesOK
    <3>3. \A k \in DOMAIN tries[a] :
             /\ tries[a][k] \in 1..Len(tasks'[a])
             /\ \A j \in 1..(tries[a][k] - 1) : tasks'[a][j] = "SUCCESSFUL"
      <4> SUFFICES ASSUME NEW k \in DOMAIN tries[a]
                   PROVE  /\ tries[a][k] \in 1..Len(tasks'[a])
                          /\ \A j \in 1..(tries[a][k] - 1) : tasks'[a][j] = "SUCCESSFUL"
        OBVIOUS
      <4>1. tries[a][k] \in 1..Len(tasks'[a])
        BY <1>t, <3>1, <3>2
      <4>2. ASSUME NEW j \in 1..(tries[a][k] - 1) PROVE tasks'[a][j] = "SUCCESSFUL"
        <5>1. j \in DOMAIN tasks[a]
          BY <1>t, <3>2
        <5>2. tasks[a][j] = "SUCCESSFUL"
          BY <1>0 DEF TriesOK
        <5> QED
          BY <3>1, <5>1, <5>2
      <4> QED
        BY <4>1, <4>2
    <3> QED
      BY <1>0, <1>t, <2>1, <3>1, <3>3 DEF TriesOK, Asking
  <2> QED
    BY <1>3, <2>2, <2>3 DEF LeaveLoop
<1>4. CASE StartTask(a)
  <2> DEFINE n == Len(tasks[a]) + 1
             q == Append(tasks[a], "RUNNING")
             t == Append(tries[a], n)
  <2>1. /\ pc[a] = "loop" /\ status[a] = "RUNNING" /\ n <= Len(Tasks[a])
        /\ tasks'[a] = q /\ tries'[a] = t /\ attempt'[a] = 1 /\ pc'[a] = "queued"
        /\ status'[a] = "RUNNING"
    BY <1>0, <1>t, <1>4 DEF StartTask, TypeOK
  <2>2. /\ Len(q) = n /\ DOMAIN q = 1..n /\ q[n] = "RUNNING" /\ n \in Nat /\ 1 <= n
        /\ \A i \in 1..(n - 1) : q[i] = tasks[a][i] /\ i \in DOMAIN tasks[a]
    BY <1>t
  <2>3. \A i \in 1..(n - 1) : q[i] = "SUCCESSFUL"
    BY <1>0, <1>t, <2>1, <2>2 DEF TriesOK, EntryOK, Asking
  <2>4. /\ DOMAIN t = 1..(Len(tries[a]) + 1) /\ t[Len(tries[a]) + 1] = n
        /\ \A k \in 1..Len(tries[a]) : t[k] = tries[a][k] /\ k \in DOMAIN tries[a]
        /\ Len(tries[a]) \in Nat
    BY <1>t
  <2>5. \A k \in DOMAIN t : t[k] = n \/ (t[k] \in 1..(n - 1) /\ k \in DOMAIN tries[a] /\ t[k] = tries[a][k])
    BY <1>0, <1>t, <2>4 DEF TriesOK
  <2>6. \A i \in Nat : Count(t, i) = IF n = i THEN Count(tries[a], i) + 1 ELSE Count(tries[a], i)
    BY <1>t, <2>2, CountAppend
  <2>7. Count(tries[a], n) = 0
    <3>1. \A k \in DOMAIN tries[a] : tries[a][k] # n
      BY <1>0, <1>t DEF TriesOK
    <3> QED
      BY <3>1, CountNone
  <2>8. \A i \in DOMAIN Tasks[a] : MaxAttempts(Tasks[a][i]) \in Nat /\ MaxAttempts(Tasks[a][i]) >= 1
    BY <1>t DEF MaxAttempts
  <2>9. n \in DOMAIN Tasks[a] /\ DOMAIN Tasks[a] \subseteq Nat
    BY <1>t, <2>1
  <2> HIDE DEF q, t, n
  <2>10. \A k, j \in DOMAIN t : k <= j => t[k] <= t[j]
    <3> SUFFICES ASSUME NEW k \in DOMAIN t, NEW j \in DOMAIN t, k <= j PROVE t[k] <= t[j]
      OBVIOUS
    <3>1. CASE j = Len(tries[a]) + 1
      BY <2>2, <2>4, <2>5, <3>1
    <3>2. CASE j # Len(tries[a]) + 1
      BY <1>0, <2>4, <3>2 DEF TriesOK
    <3> QED
      BY <3>1, <3>2
  <2>11. \A i \in DOMAIN Tasks[a] : Count(t, i) <= MaxAttempts(Tasks[a][i])
    BY <1>0, <2>6, <2>7, <2>8, <2>9 DEF TriesOK
  <2>12. Count(t, n) = 1 /\ 1 <= MaxAttempts(Tasks[a][n])
    BY <2>2, <2>6, <2>7, <2>8, <2>9
  <2>13. \A k \in DOMAIN t : t[k] \in 1..n /\ \A j \in 1..(t[k] - 1) : q[j] = "SUCCESSFUL"
    BY <2>2, <2>3, <2>5
  <2>14. \A i \in DOMAIN q : q[i] \in {"SUCCESSFUL", "RUNNING"}
    BY <2>2, <2>3
  <2>15. TriesOK(a, "RUNNING", q, "queued", 1, t)
    BY <2>2, <2>3, <2>10, <2>11, <2>12, <2>13, <2>14 DEF TriesOK
  <2> QED
    BY <2>1, <2>15
<1>5. CASE QueryRetries(a)
  <2> DEFINE n == Len(tasks[a])
             t == Append(tries[a], n)
  <2>1. /\ pc[a] \in Asking /\ attempt[a] < MaxAttempts(Tasks[a][n])
        /\ UNCHANGED <<status, tasks>> /\ tries'[a] = t /\ attempt'[a] = attempt[a] + 1
        /\ pc'[a] = "queued"
    BY <1>0, <1>5 DEF QueryRetries, TaskOf, TypeOK, Asking
  <2>2. /\ n \in Nat /\ n >= 1 /\ n <= Len(Tasks[a]) /\ n \in DOMAIN Tasks[a]
    BY <1>0, <1>t, <2>1 DEF EntryOK
  <2>3. /\ Count(tries[a], n) = attempt[a]
        /\ \A j \in 1..(n - 1) : tasks[a][j] = "SUCCESSFUL"
    BY <1>0, <2>1 DEF TriesOK
  <2>4. /\ DOMAIN t = 1..(Len(tries[a]) + 1) /\ t[Len(tries[a]) + 1] = n
        /\ \A k \in 1..Len(tries[a]) : t[k] = tries[a][k] /\ k \in DOMAIN tries[a]
        /\ Len(tries[a]) \in Nat
    BY <1>t
  <2>5. \A k \in DOMAIN t : t[k] = n \/ (k \in DOMAIN tries[a] /\ t[k] = tries[a][k])
    BY <1>t, <2>4
  <2>6. \A i \in Nat : Count(t, i) = IF n = i THEN Count(tries[a], i) + 1 ELSE Count(tries[a], i)
    BY <1>t, <2>2, CountAppend
  <2>8. \A i \in DOMAIN Tasks[a] : MaxAttempts(Tasks[a][i]) \in Nat
    BY <1>t DEF MaxAttempts
  <2>9. DOMAIN Tasks[a] \subseteq Nat
    BY <1>t
  <2> HIDE DEF t, n
  <2>10. \A k \in DOMAIN tries[a] : tries[a][k] \in 1..n
    BY <1>0 DEF TriesOK, n
  <2>11. \A k, j \in DOMAIN t : k <= j => t[k] <= t[j]
    <3> SUFFICES ASSUME NEW k \in DOMAIN t, NEW j \in DOMAIN t, k <= j PROVE t[k] <= t[j]
      OBVIOUS
    <3>1. CASE j = Len(tries[a]) + 1
      BY <2>2, <2>4, <2>5, <2>10, <3>1
    <3>2. CASE j # Len(tries[a]) + 1
      BY <1>0, <2>4, <3>2 DEF TriesOK
    <3> QED
      BY <3>1, <3>2
  <2>12. \A i \in DOMAIN Tasks[a] : Count(t, i) <= MaxAttempts(Tasks[a][i])
    BY <1>0, <1>t, <2>1, <2>2, <2>3, <2>6, <2>8, <2>9 DEF TriesOK
  <2>13. Count(t, n) = attempt[a] + 1 /\ attempt[a] + 1 <= MaxAttempts(Tasks[a][n])
    BY <1>t, <2>1, <2>2, <2>3, <2>6, <2>8
  <2>14. \A k \in DOMAIN t : t[k] \in 1..n /\ \A j \in 1..(t[k] - 1) : tasks[a][j] = "SUCCESSFUL"
    BY <1>0, <2>2, <2>3, <2>5, <2>10 DEF TriesOK
  <2>15. t # <<>>
    BY <2>4
  <2>16. status[a] = "RUNNING"
    BY <1>0, <2>1 DEF QueriesOfRunning, Asking
  <2>17. TriesOK(a, status[a], tasks[a], "queued", attempt[a] + 1, t)
    BY <1>0, <2>3, <2>11, <2>12, <2>13, <2>14, <2>16 DEF TriesOK, n
  <2> QED
    BY <2>1, <2>17
<1>6. CASE QuerySucceeds(a) \/ QueryFails(a)
  <2>1. PICK st \in {"SUCCESSFUL", "FAILED", "CANCELLED"} : EndTask(a, st)
    BY <1>6 DEF QuerySucceeds, QueryFails, FailureStatus
  <2>2. pc[a] \in Asking /\ tries' = tries /\ pc'[a] = "loop" /\ status[a] = "RUNNING"
    BY <1>0, <1>6, <2>1 DEF QuerySucceeds, QueryFails, Asking, EndTask, TypeOK, QueriesOfRunning
  <2>3. /\ tasks'[a] = [tasks[a] EXCEPT ![Len(tasks[a])] = st]
        /\ status'[a] = IF st = "SUCCESSFUL" THEN status[a] ELSE st
    BY <1>0, <2>1 DEF EndTask, TypeOK
  <2>4. /\ Len(tasks'[a]) = Len(tasks[a]) /\ DOMAIN tasks'[a] = DOMAIN tasks[a]
        /\ \A j \in DOMAIN tasks[a] :
             tasks'[a][j] = IF j = Len(tasks[a]) THEN st ELSE tasks[a][j]
    BY <1>t, <2>3
  <2>5. \A k \in DOMAIN tries[a] : tries[a][k] \in 1..Len(tasks[a])
    BY <1>0 DEF TriesOK
  <2>6. \A k \in DOMAIN tries[a] :
          /\ tries[a][k] \in 1..Len(tasks'[a])
          /\ \A j \in 1..(tries[a][k] - 1) : tasks'[a][j] = "SUCCESSFUL"
    <3> SUFFICES ASSUME NEW k \in DOMAIN tries[a], NEW j \in 1..(tries[a][k] - 1)
                 PROVE  tasks'[a][j] = "SUCCESSFUL"
      BY <2>4, <2>5
    <3>1. j \in DOMAIN tasks[a] /\ j # Len(tasks[a])
      BY <1>t, <2>5
    <3> QED
      BY <1>0, <2>4, <3>1 DEF TriesOK
  <2>7. st = "SUCCESSFUL" => \A j \in DOMAIN tasks'[a] : tasks'[a][j] = "SUCCESSFUL"
    <3> SUFFICES ASSUME st = "SUCCESSFUL", NEW j \in DOMAIN tasks[a] PROVE tasks'[a][j] = "SUCCESSFUL"
      BY <2>4
    <3>1. j \in 1..(Len(tasks[a]) - 1) \/ j = Len(tasks[a])
      BY <1>t
    <3> QED
      BY <1>0, <2>2, <2>4, <3>1 DEF TriesOK
  <2> QED
    BY <1>0, <2>2, <2>3, <2>4, <2>6, <2>7 DEF TriesOK, Asking
<1> QED
  BY <1>1, <1>2, <1>3, <1>4, <1>5, <1>6 DEF Step, Continue

LEMMA SweepTries ==
  ASSUME TriesInv, TypeOK', NEW P, NEW E, NEW S, NEW p, NEW sp, NEW cn,
         Sweep(P, E, S, p, sp, cn), NEW n \in Actions
  PROVE  TriesOK(n, status'[n], tasks'[n], pc'[n], attempt'[n], tries'[n])
<1>0. /\ TypeOK
      /\ TriesOK(n, status[n], tasks[n], pc[n], attempt[n], tries[n])
      /\ EntryOK(n, status[n], tasks[n], pc[n], n \in extra, aborted, stopped)
  BY DEF TriesInv, ResultsInv, DepsInv, Entries
<1>1. Passed(n, P, E, S, p, sp, cn) /\ tries' = tries /\ attempt' = attempt
  BY DEF Sweep
<1>2. CASE Kept(n, P, S, p, sp)
  <2>1. p[n] \in Asking => pc[n] = p[n]
    BY DEF Sweep
  <2> QED
    BY <1>0, <1>1, <1>2, <2>1, SilentTries DEF Kept
<1>3. CASE n \in P /\ Skipped(n, E, S, p, sp, cn)
  <2>1. status[n] = "NONE"
    BY <1>3 DEF Sweep, Skipped, Skippable
  <2>2. tries[n] = <<>> /\ status'[n] = "SKIPPED" /\ pc'[n] = "idle"
    BY <1>0, <1>3, <2>1 DEF TriesOK, Skipped, Sweep
  <2> QED
    BY <1>0, <1>1, <2>2, SilentTries DEF Asking
<1>4. CASE n \in P /\ (Disabled(n, S) \/ Hit(n, S) \/ Started(n, S))
  <2>1. tasks'[n] = tasks[n] /\ pc'[n] \in {"returned", "lock"} /\ status'[n] # "NONE"
    BY <1>4 DEF Disabled, Hit, Started
  <2>2. status[n] = "RUNNING" \/ tasks[n] = <<>>
    BY <1>0, <1>4 DEF Sweep, EntryOK
  <2> QED
    BY <1>0, <1>1, <2>1, <2>2, SilentTries DEF Asking
<1> QED
  BY <1>1, <1>2, <1>3, <1>4 DEF Passed

LEMMA NextTries == TriesInv /\ [Next]_vars => TriesInv'
<1> SUFFICES ASSUME TriesInv, [Next]_vars, NEW n \in Actions
             PROVE  TriesOK(n, status'[n], tasks'[n], pc'[n], attempt'[n], tries'[n])
  BY NextResults DEF TriesInv
<1> USE DEF runVars, graphVars, resultVars, queryVars, flagVars
<1>0. /\ ResultsInv /\ TypeOK /\ TypeOK'
      /\ TriesOK(n, status[n], tasks[n], pc[n], attempt[n], tries[n])
  BY NextResults DEF TriesInv, ResultsInv, DepsInv
<1>1. CASE SchemasReady
  BY <1>0, <1>1, SchemasReadySweeps, SweepTries
<1>2. ASSUME NEW a \in Actions, Step(a)
      PROVE  TriesOK(n, status'[n], tasks'[n], pc'[n], attempt'[n], tries'[n])
  <2>1. CASE Join(a)
    BY <1>0, <2>1, JoinSweeps, SweepTries
  <2>2. CASE ~Join(a) /\ n = a
    BY <1>0, <1>2, <2>2, StepTries
  <2>3. CASE ~Join(a) /\ n # a
    <3>1. Advance(a)
      BY <1>0, <1>2, <2>3, StepAdvances
    <3>2. status'[n] = status[n] /\ tasks'[n] = tasks[n] /\ pc'[n] = pc[n]
      BY <2>3, <3>1 DEF Advance
    <3>3. attempt'[n] = attempt[n] /\ tries'[n] = tries[n]
      BY <1>0, <1>2, <2>3
         DEF TypeOK, Step, Continue, AcquireLock, StartTask, LeaveLoop, QuerySucceeds, QueryFails,
             QueryRetries, AfterTasks, SetMetadata, ReadTable, Finish, QueryStarts, LockFails,
             SetMetadataFails
    <3> QED
      BY <1>0, <3>2, <3>3, SilentTries
  <2> QED
    BY <2>1, <2>2, <2>3
<1>3. CASE Resume
  <2>1. CASE Restart
    <3>1. UNCHANGED <<status, tasks, tries, attempt>> /\ pc'[n] = "idle"
      BY <2>1 DEF Restart
    <3> QED
      BY <1>0, <3>1, SilentTries DEF Asking
  <2>2. CASE ~Restart
    BY <1>0, <1>3, <2>2, ResumeSweeps, SweepTries
  <2> QED
    BY <2>1, <2>2
<1>4. CASE \/ SchemasFail \/ RejectRun \/ FinishRun \/ Cancel \/ TimerFires \/ Stop
           \/ \E s \in Schemas : CreateSchema(s)
           \/ UNCHANGED vars
  <2>1. UNCHANGED <<status, tasks, pc, attempt, tries>>
    BY <1>4 DEF SchemasFail, RejectRun, FinishRun, Cancel, TimerFires, Stop, DoCancel, CreateSchema, vars
  <2> QED
    BY <1>0, <2>1, SilentTries
<1> QED
  BY <1>1, <1>2, <1>3, <1>4 DEF Next

LEMMA InitTries == Init => TriesInv
<1> SUFFICES ASSUME Init, NEW n \in Actions
             PROVE  TriesOK(n, "NONE", <<>>, "idle", attempt[n], <<>>)
  BY InitResults DEF Init, TriesInv
<1>1. \A i : Count(<<>>, i) = 0
  BY CountNone
<1>2. \A i \in DOMAIN Tasks[n] : 0 <= MaxAttempts(Tasks[n][i])
  BY ConfigAssumption DEF MaxAttempts
<1> QED
  BY <1>1, <1>2 DEF TriesOK, Asking

(* The statements of an action reach the warehouse in order, each after    *)
(* those before it succeeded, and an operation once, others at most once   *)
(* more than there are retries, whatever is stopped and resumed            *)
(* (run.ts:362-363, 437-452).                                              *)
THEOREM TriesAreOrdered == Spec => []TasksTriedInOrder
<1>1. TriesInv => TasksTriedInOrder
  <2> SUFFICES ASSUME TriesInv, NEW a \in Actions
               PROVE  /\ \A k \in DOMAIN tries[a] : \A j \in 1..(tries[a][k] - 1) :
                           tasks[a][j] = "SUCCESSFUL"
                      /\ \A k, l \in DOMAIN tries[a] : k <= l => tries[a][k] <= tries[a][l]
                      /\ \A i \in DOMAIN Tasks[a] :
                           TriesOf(a, i) <= (IF Tasks[a][i] = "operation" THEN 1 ELSE Retries + 1)
    BY DEF TasksTriedInOrder
  <2>1. TriesOK(a, status[a], tasks[a], pc[a], attempt[a], tries[a])
    BY DEF TriesInv
  <2>2. \A i : TriesOf(a, i) = Count(tries[a], i)
    BY DEF TriesOf, Count
  <2>3. \A i \in DOMAIN Tasks[a] :
          TriesOf(a, i) <= (IF Tasks[a][i] = "operation" THEN 1 ELSE Retries + 1)
    BY <2>1, <2>2 DEF TriesOK, MaxAttempts
  <2> QED
    BY <2>1, <2>3 DEF TriesOK
<1> QED
  BY <1>1, InitTries, NextTries, PTL DEF Spec
=============================================================================
