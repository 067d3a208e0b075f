------------------------------- MODULE Runner -------------------------------
(***************************************************************************)
(* The run executor, src/api/commands/run.ts (class Runner).               *)
(*                                                                         *)
(* A run walks an execution graph: an action starts when its dependencies  *)
(* have succeeded, executes its tasks one after another on a client of the *)
(* database adapter, and, when it returns, lets the actions that waited    *)
(* for it start.  Every action runs as its own chain of promise            *)
(* continuations; what is atomic is the code between two awaits, and the   *)
(* chains interleave at every await with each other, with cancel(), with   *)
(* stop() and with the run's timer.  A run that was stopped can be resumed *)
(* from its partial result.                                                *)
(*                                                                         *)
(* Names of actions stand for the actions; a result entry is the pair      *)
(* status[a], tasks[a]; wording, timing and notification throttling are    *)
(* left out.  Which actions the run cache may skip is left open here       *)
(* (CacheCandidates); module RunCache models that decision.                *)
(***************************************************************************)
EXTENDS Integers, Sequences, FiniteSets

CONSTANTS
  Actions,          \* names of the actions of the execution graph
  Deps,             \* Deps[a]: names a depends on, possibly of nothing in the graph
  Tasks,            \* Tasks[a]: the types of a's tasks, in order
  SchemaOf,         \* SchemaOf[a]: the schema a's target lives in
  Described,        \* actions whose metadata is set after their tasks
  CacheCandidates,  \* actions that the run cache may decide to skip
  Retries,          \* projectConfig.idempotentActionRetries
  Clients,          \* how many client locks the adapter grants at once
  UseRunCache,      \* projectConfig.useRunCache
  HasTimeout,       \* runConfig.timeoutMillis is set
  MaxResumes        \* bound on how often a stopped run is resumed

TaskTypes == {"statement", "assertion", "operation"}

ASSUME GraphAssumption ==
  /\ IsFiniteSet(Actions)
  /\ DOMAIN Deps = Actions
  /\ Tasks \in [Actions -> Seq(TaskTypes)]
  /\ DOMAIN SchemaOf = Actions
  /\ Described \subseteq Actions
  /\ CacheCandidates \subseteq Actions

(* The compiler refuses graphs with cycles (session.ts, checkCircularity):  *)
(* every set of actions has one that waits for none of the set.            *)
ASSUME AcyclicAssumption ==
  \A T \in (SUBSET Actions) \ {{}} : \E a \in T : Deps[a] \cap T = {}

ASSUME ConfigAssumption ==
  /\ Retries \in Nat
  /\ Clients \in Nat \ {0}
  /\ UseRunCache \in BOOLEAN
  /\ HasTimeout \in BOOLEAN
  /\ MaxResumes \in Nat

VARIABLES
  runPc,      \* where executeGraph() is: "schemas", "running", "resolved", "rejected"
  runStatus,  \* runResult.status
  timer,      \* the timeout is armed
  existing,   \* schemas that exist in the warehouse
  resumes,    \* how often the run was resumed
  pending,    \* pendingActions
  executed,   \* executedActionNames
  succeeded,  \* successfullyExecutedActionNames
  status,     \* status of the (first) entry of each action in runResult.actions
  tasks,      \* statuses of that entry's tasks
  extra,      \* actions with a second, CACHE_SKIPPED, entry in runResult.actions
  pc,         \* where executeAction(a) is
  attempt,    \* attempt number of the task being executed
  heard,      \* that attempt's cancel handler was called
  tries,      \* history: the task of each client.execute() call, over all resumptions
  stopped, cancelled, timedOut,
  aborted     \* history: the run was cancelled at some time, before a resumption too

runVars    == <<runPc, runStatus, timer, existing, resumes>>
graphVars  == <<pending, executed, succeeded>>
resultVars == <<status, tasks, extra>>
queryVars  == <<attempt, heard, tries>>
flagVars   == <<stopped, cancelled, timedOut, aborted>>
vars == <<runVars, graphVars, resultVars, pc, queryVars, flagVars>>

RunPcs      == {"schemas", "running", "resolved", "rejected"}
RunStatuses == {"RUNNING", "SUCCESSFUL", "FAILED", "CANCELLED", "TIMED_OUT"}
ActionPcs   == {"idle", "lock", "loop", "queued", "running", "unlocked",
                "metadata", "table", "finish", "returned", "joined", "threw"}
Successes   == {"SUCCESSFUL", "CACHE_SKIPPED", "DISABLED"}
Settled     == Successes \cup {"FAILED", "SKIPPED", "CANCELLED"}
Statuses    == Settled \cup {"NONE", "RUNNING"}
TaskStatuses == {"RUNNING", "SUCCESSFUL", "FAILED", "CANCELLED", "SKIPPED"}

Schemas == {SchemaOf[a] : a \in Actions}

TypeOK ==
  /\ runPc \in RunPcs
  /\ runStatus \in RunStatuses
  /\ timer \in BOOLEAN
  /\ existing \subseteq Schemas
  /\ resumes \in 0..MaxResumes
  /\ pending \subseteq Actions
  /\ executed \subseteq Actions
  /\ succeeded \subseteq Actions
  /\ status \in [Actions -> Statuses]
  /\ tasks \in [Actions -> Seq(TaskStatuses)]
  /\ extra \subseteq Actions
  /\ pc \in [Actions -> ActionPcs]
  /\ attempt \in [Actions -> Nat]
  /\ heard \in [Actions -> BOOLEAN]
  /\ tries \in [Actions -> Seq(Nat)]
  /\ stopped \in BOOLEAN
  /\ cancelled \in BOOLEAN
  /\ timedOut \in BOOLEAN
  /\ aborted \in BOOLEAN
-----------------------------------------------------------------------------
(* Dependencies that are not in the graph never hold an action back.       *)
Known(a) == Deps[a] \cap Actions

(* Mutant: one successful dependency is enough ("some" for "every").       *)
ExecutableOnSome(a, S) == Known(a) = {} \/ Known(a) \cap S # {}

Executable(a, S) == Known(a) \subseteq S

(* Mutant: one ended dependency is enough.                                 *)
SkippableOnSome(a, E, S) == ~Executable(a, S) /\ Known(a) \cap E # {}

Skippable(a, E, S) == ~Executable(a, S) /\ Known(a) \subseteq E

(* Mutant: the type of the task is not looked at.                          *)
MaxAttemptsOfAny(type) == Retries + 1

(* An operation may not be safe to repeat: it gets one attempt.            *)
MaxAttempts(type) == IF type = "operation" THEN 1 ELSE Retries + 1

Successful(a) == a \in extra \/ status[a] \in Successes

TaskOf(a) == Tasks[a][Len(tasks[a])]

AllSkipped(a) == [i \in 1..Len(Tasks[a]) |-> "SKIPPED"]

(* Mutant: the client is not given back until the action was joined.       *)
HoldersLeaked ==
  {a \in Actions : pc[a] \notin {"idle", "lock", "threw"}}

(* Actions inside the callback of withClientLock().                        *)
Holders == {a \in Actions : pc[a] \in {"loop", "queued", "running"}}

(* The synchronous part of executeAllActionsReadyForExecution() when the   *)
(* run is neither stopped nor cancelled, for pending actions P, executed   *)
(* actions E and succeeded actions S, with the continuations at p.  Every  *)
(* ready action runs executeAction() up to its first await: a disabled or  *)
(* cache-skipped action is done at once, others wait for a client.  The    *)
(* recursion after skippable actions finds E, S and the rest of P as they  *)
(* were, hence nothing to do.                                              *)
StartReady(P, E, S, p) ==
  LET ready    == {a \in P : Executable(a, S)}
      skip     == {a \in P : Skippable(a, E, S)}
      disabled == {a \in ready : Tasks[a] = <<>>}
  IN \E hits \in SUBSET ((ready \ disabled) \cap CacheCandidates) :
       LET start == ready \ (disabled \cup hits)
       IN /\ pending' = P \ (ready \cup skip)
          /\ status' = [a \in Actions |->
               CASE a \in skip     -> "SKIPPED"
                 [] a \in disabled -> "DISABLED"
                 [] a \in hits /\ status[a] = "NONE" -> "CACHE_SKIPPED"
                 [] a \in start    -> "RUNNING"
                 [] OTHER          -> status[a]]
          /\ extra' = extra \cup {a \in hits : status[a] # "NONE"}
          /\ tasks' = [a \in Actions |->
               IF a \in skip THEN AllSkipped(a) ELSE tasks[a]]
          /\ pc' = [a \in Actions |->
               CASE a \in disabled \cup hits -> "returned"
                 [] a \in start -> "lock"
                 [] OTHER       -> p[a]]

(* The same function on a cancelled run: everything pending is skipped.    *)
FlushPending(p) ==
  /\ pending' = {}
  /\ status' = [a \in Actions |-> IF a \in pending THEN "SKIPPED" ELSE status[a]]
  /\ tasks' = [a \in Actions |-> IF a \in pending THEN AllSkipped(a) ELSE tasks[a]]
  /\ pc' = p
  /\ UNCHANGED extra

(* executeAllActionsReadyForExecution() *)
Pass(E, S, p) ==
  IF stopped THEN pc' = p /\ UNCHANGED <<pending, resultVars>>
  ELSE IF cancelled THEN FlushPending(p)
  ELSE StartReady(pending, E, S, p)
-----------------------------------------------------------------------------
(* A fresh run, just after run() returned: executeGraph() awaits the       *)
(* schemas and the timer is set.                                           *)
Init ==
  /\ runPc = "schemas"
  /\ runStatus = "RUNNING"
  /\ timer = HasTimeout
  /\ existing \in SUBSET Schemas
  /\ resumes = 0
  /\ pending = Actions
  /\ executed = {}
  /\ succeeded = {}
  /\ status = [a \in Actions |-> "NONE"]
  /\ tasks = [a \in Actions |-> <<>>]
  /\ extra = {}
  /\ pc = [a \in Actions |-> "idle"]
  /\ attempt = [a \in Actions |-> 0]
  /\ heard = [a \in Actions |-> FALSE]
  /\ tries = [a \in Actions |-> <<>>]
  /\ stopped = FALSE
  /\ cancelled = FALSE
  /\ timedOut = FALSE
  /\ aborted = FALSE

(* One createSchema() call of those made at once for missing schemas.  The *)
(* calls that are left go on when another one has failed.                  *)
CreateSchema(s) ==
  /\ runPc \in {"schemas", "rejected"}
  /\ s \in Schemas \ existing
  /\ existing' = existing \cup {s}
  /\ UNCHANGED <<runPc, runStatus, timer, resumes, graphVars, resultVars, pc,
                 queryVars, flagVars>>

(* Mutant: the first answer is waited for instead of all.                  *)
AnySchemaExists == Schemas \cap existing # {}

AllSchemasExist == Schemas \subseteq existing

(* prepareAllSchemas() is done; the first pass over the pending actions    *)
(* follows without an await.                                               *)
SchemasReady ==
  /\ runPc = "schemas"
  /\ AllSchemasExist
  /\ runPc' = "running"
  /\ Pass(executed, succeeded, pc)
  /\ UNCHANGED <<runStatus, timer, existing, resumes, executed, succeeded,
                 queryVars, flagVars>>

(* The adapter failed to list or to create some schema.                    *)
SchemasFail ==
  /\ runPc = "schemas"
  /\ runPc' = "rejected"
  /\ timer' = FALSE
  /\ UNCHANGED <<runStatus, existing, resumes, graphVars, resultVars, pc,
                 queryVars, flagVars>>
-----------------------------------------------------------------------------
(* executeAction(a), from the request of a client on.                      *)
At(a, l) == pc[a] = l
Goto(a, l) == pc' = [pc EXCEPT ![a] = l]

AcquireLock(a) ==
  /\ At(a, "lock")
  /\ Cardinality(Holders) < Clients
  /\ Goto(a, "loop")
  /\ UNCHANGED <<runVars, graphVars, resultVars, queryVars, flagVars>>

(* withClientLock() rejects: no connection to be had.                      *)
LockFails(a) ==
  /\ At(a, "lock")
  /\ Goto(a, "threw")
  /\ UNCHANGED <<runVars, graphVars, resultVars, queryVars, flagVars>>

(* The head of the task loop decides to execute the next task ...          *)
StartTask(a) ==
  /\ At(a, "loop")
  /\ ~stopped /\ ~cancelled
  /\ status[a] = "RUNNING"
  /\ Len(tasks[a]) < Len(Tasks[a])
  /\ tasks' = [tasks EXCEPT ![a] = Append(@, "RUNNING")]
  /\ tries' = [tries EXCEPT ![a] = Append(@, Len(tasks[a]) + 1)]
  /\ attempt' = [attempt EXCEPT ![a] = 1]
  /\ Goto(a, "queued")
  /\ UNCHANGED <<runVars, graphVars, status, extra, heard, flagVars>>

(* ... or to leave: at once when the run was stopped, after the last task, *)
(* or after pushing SKIPPED for each task that is left.                    *)
LeaveLoop(a) ==
  /\ At(a, "loop")
  /\ \/ stopped /\ UNCHANGED tasks
     \/ /\ ~stopped
        /\ cancelled \/ status[a] # "RUNNING" \/ Len(tasks[a]) = Len(Tasks[a])
        /\ tasks' = [tasks EXCEPT ![a] =
             [i \in 1..Len(Tasks[a]) |-> IF i \in DOMAIN @ THEN @[i] ELSE "SKIPPED"]]
  /\ Goto(a, "unlocked")
  /\ UNCHANGED <<runVars, graphVars, status, extra, queryVars, flagVars>>

(* The adapter starts the query and registers its cancel handler; until    *)
(* then it is queued and hears nothing.  Nothing looks back at a cancel    *)
(* that came before.                                                       *)
QueryStarts(a) ==
  /\ At(a, "queued")
  /\ Goto(a, "running")
  /\ UNCHANGED <<runVars, graphVars, resultVars, queryVars, flagVars>>

EndTask(a, s) ==
  /\ tasks' = [tasks EXCEPT ![a] = [@ EXCEPT ![Len(@)] = s]]
  /\ status' = [status EXCEPT ![a] = IF s = "SUCCESSFUL" THEN @ ELSE s]
  /\ heard' = [heard EXCEPT ![a] = FALSE]
  /\ Goto(a, "loop")

(* Mutant: the verdict of a run used for a task.                           *)
FailureStatusOfRun ==
  IF timedOut THEN "TIMED_OUT" ELSE IF cancelled THEN "CANCELLED" ELSE "FAILED"

FailureStatus == IF cancelled THEN "CANCELLED" ELSE "FAILED"

(* client.execute() resolves.  An assertion that finds rows throws outside *)
(* the retried function.  A query whose cancel handler ran rejects.        *)
QuerySucceeds(a) ==
  /\ pc[a] \in {"queued", "running"}
  /\ ~heard[a]
  /\ \/ EndTask(a, "SUCCESSFUL")
     \/ TaskOf(a) = "assertion" /\ EndTask(a, FailureStatus)
  /\ UNCHANGED <<runVars, graphVars, extra, attempt, tries, flagVars>>

(* client.execute() rejects: the next attempt is made, whatever the cause, *)
(* or there is none left.                                                  *)
QueryFails(a) ==
  /\ pc[a] \in {"queued", "running"}
  /\ attempt[a] >= MaxAttempts(TaskOf(a))
  /\ EndTask(a, FailureStatus)
  /\ UNCHANGED <<runVars, graphVars, extra, attempt, tries, flagVars>>

QueryRetries(a) ==
  /\ pc[a] \in {"queued", "running"}
  /\ attempt[a] < MaxAttempts(TaskOf(a))
  /\ attempt' = [attempt EXCEPT ![a] = @ + 1]
  /\ tries' = [tries EXCEPT ![a] = Append(@, Len(tasks[a]))]
  /\ heard' = [heard EXCEPT ![a] = FALSE]
  /\ Goto(a, "queued")
  /\ UNCHANGED <<runVars, graphVars, resultVars, flagVars>>

(* After the client was released: a stopped run leaves the entry as it is. *)
TableOrFinish == IF UseRunCache THEN "table" ELSE "finish"

(* Mutant: the check of "stopped" after the lock is missing.               *)
AfterTasksUnchecked(a) ==
  /\ At(a, "unlocked")
  /\ Goto(a, IF a \in Described /\ status[a] = "RUNNING" THEN "metadata"
             ELSE TableOrFinish)
  /\ UNCHANGED <<runVars, graphVars, resultVars, queryVars, flagVars>>

AfterTasks(a) ==
  /\ At(a, "unlocked")
  /\ Goto(a, IF stopped THEN "returned"
             ELSE IF a \in Described /\ status[a] = "RUNNING" THEN "metadata"
             ELSE TableOrFinish)
  /\ UNCHANGED <<runVars, graphVars, resultVars, queryVars, flagVars>>

SetMetadata(a) ==
  /\ At(a, "metadata")
  /\ Goto(a, TableOrFinish)
  /\ UNCHANGED <<runVars, graphVars, resultVars, queryVars, flagVars>>

SetMetadataFails(a) ==
  /\ At(a, "metadata")
  /\ Goto(a, "threw")
  /\ UNCHANGED <<runVars, graphVars, resultVars, queryVars, flagVars>>

(* dbadapter.table(): its errors are swallowed.                            *)
ReadTable(a) ==
  /\ At(a, "table")
  /\ Goto(a, "finish")
  /\ UNCHANGED <<runVars, graphVars, resultVars, queryVars, flagVars>>

Finish(a) ==
  /\ At(a, "finish")
  /\ status' = [status EXCEPT ![a] = IF @ = "RUNNING" THEN "SUCCESSFUL" ELSE @]
  /\ Goto(a, "returned")
  /\ UNCHANGED <<runVars, graphVars, tasks, extra, queryVars, flagVars>>

(* The continuation of executeAction(): record the outcome, then one more  *)
(* pass.  It runs as well when the run was rejected meanwhile.             *)
Join(a) ==
  /\ At(a, "returned")
  /\ executed' = executed \cup {a}
  /\ succeeded' = IF Successful(a) THEN succeeded \cup {a} ELSE succeeded
  /\ Pass(executed', succeeded', [pc EXCEPT ![a] = "joined"])
  /\ UNCHANGED <<runVars, queryVars, flagVars>>
-----------------------------------------------------------------------------
(* Promise.all() rejects with the first rejection; the other actions go on *)
(* unobserved, and result() clears the timer.                              *)
RejectRun ==
  /\ runPc = "running"
  /\ \E a \in Actions : At(a, "threw")
  /\ runPc' = "rejected"
  /\ timer' = FALSE
  /\ UNCHANGED <<runStatus, existing, resumes, graphVars, resultVars, pc, queryVars, flagVars>>

(* Mutant: only a failure that something waited for is noticed.            *)
FinalStatusOfBlocked ==
  IF stopped THEN runStatus
  ELSE IF timedOut THEN "TIMED_OUT"
  ELSE IF cancelled THEN "CANCELLED"
  ELSE IF \E a \in Actions : status[a] = "SKIPPED" THEN "FAILED"
  ELSE "SUCCESSFUL"

FinalStatus ==
  IF stopped THEN runStatus
  ELSE IF timedOut THEN "TIMED_OUT"
  ELSE IF cancelled THEN "CANCELLED"
  ELSE IF \E a \in Actions : status[a] = "FAILED" THEN "FAILED"
  ELSE "SUCCESSFUL"

(* Every continuation is done: executeGraph() sets the verdict.            *)
FinishRun ==
  /\ runPc = "running"
  /\ \A a \in Actions : pc[a] \in {"idle", "joined"}
  /\ runPc' = "resolved"
  /\ timer' = FALSE
  /\ runStatus' = FinalStatus
  /\ UNCHANGED <<existing, resumes, graphVars, resultVars, pc, queryVars, flagVars>>

(* cancel() calls the handlers that are registered at that moment.         *)
DoCancel ==
  /\ cancelled' = TRUE
  /\ aborted' = TRUE
  /\ heard' = [a \in Actions |-> heard[a] \/ At(a, "running")]
  /\ UNCHANGED <<runPc, runStatus, existing, resumes, graphVars, resultVars, pc,
                 attempt, tries, stopped>>

Cancel ==
  /\ runPc # "resolved"
  /\ DoCancel
  /\ UNCHANGED <<timer, timedOut>>

TimerFires ==
  /\ timer
  /\ timer' = FALSE
  /\ timedOut' = TRUE
  /\ DoCancel

Stop ==
  /\ runPc # "resolved"
  /\ stopped' = TRUE
  /\ UNCHANGED <<runVars, graphVars, resultVars, pc, queryVars, cancelled, timedOut, aborted>>

(* Mutant: whatever has an entry counts as executed.                       *)
DoneWithEntry == {a \in Actions : status[a] # "NONE"}

(* Mutant: actions that did not succeed are taken up again.                *)
DoneWell == {a \in Actions : Successful(a)}

(* executedActionNames of a new Runner on a partial result.                *)
Done == {a \in Actions : status[a] \in Settled} \cup extra

NoResults == \A a \in Actions : status[a] = "NONE"

(* run() again with the partial result of a stopped run.  All flags start  *)
(* over; a result that is still RUNNING is the only kind that is taken up. *)
(* Without any result the schemas come first, else the first pass is made  *)
(* at once.                                                                *)
Resume ==
  LET good  == {a \in Actions : Successful(a)}
      fresh == [a \in Actions |-> "idle"]
  IN /\ runPc = "resolved" /\ runStatus = "RUNNING"
     /\ resumes < MaxResumes
     /\ resumes' = resumes + 1
     /\ timer' = HasTimeout
     /\ executed' = Done
     /\ succeeded' = good
     /\ stopped' = FALSE /\ cancelled' = FALSE /\ timedOut' = FALSE
     /\ IF NoResults
        THEN /\ runPc' = "schemas"
             /\ pending' = Actions
             /\ pc' = fresh
             /\ UNCHANGED resultVars
        ELSE /\ runPc' = "running"
             /\ StartReady(Actions \ Done, Done, good, fresh)
     /\ UNCHANGED <<runStatus, existing, queryVars, aborted>>
-----------------------------------------------------------------------------
(* What the event loop and the adapter do for an action without anything   *)
(* going wrong with the connection.                                        *)
Continue(a) ==
  \/ AcquireLock(a) \/ StartTask(a) \/ LeaveLoop(a)
  \/ QuerySucceeds(a) \/ QueryFails(a) \/ QueryRetries(a)
  \/ AfterTasks(a) \/ SetMetadata(a) \/ ReadTable(a) \/ Finish(a) \/ Join(a)

Step(a) == Continue(a) \/ QueryStarts(a) \/ LockFails(a) \/ SetMetadataFails(a)

Next ==
  \/ \E s \in Schemas : CreateSchema(s)
  \/ SchemasReady \/ SchemasFail
  \/ \E a \in Actions : Step(a)
  \/ RejectRun \/ FinishRun
  \/ Cancel \/ TimerFires \/ Stop \/ Resume

Spec == Init /\ [][Next]_vars

(* The event loop runs every continuation that is due, and the adapter     *)
(* answers every call in the end.                                          *)
Fairness ==
  /\ \A s \in Schemas : WF_vars(CreateSchema(s))
  /\ WF_vars(SchemasReady)
  /\ WF_vars(RejectRun)
  /\ WF_vars(FinishRun)
  /\ \A a \in Actions : WF_vars(Continue(a))

FairSpec == Spec /\ Fairness
-----------------------------------------------------------------------------
(* An action is executed, cache-skipped or found disabled only after every *)
(* dependency in the graph has succeeded: in this run or, when the run was *)
(* resumed, in the part of it that came before (run.ts:261-271, 347-352).  *)
DependenciesFirst ==
  \A a \in Actions :
    status[a] \notin {"NONE", "SKIPPED"} \/ a \in extra
      => \A d \in Known(a) : Successful(d)

(* Unless the run was cancelled at some time, an action that is reported   *)
(* SUCCESSFUL had each of its tasks succeed, however often it was stopped  *)
(* between two tasks and taken up again (run.ts:362-383, 419-421).         *)
SuccessMeansTasksDone ==
  \A a \in Actions :
    status[a] = "SUCCESSFUL" /\ ~aborted
      => tasks[a] = [i \in 1..Len(Tasks[a]) |-> "SUCCESSFUL"]

TriesOf(a, i) == Cardinality({k \in DOMAIN tries[a] : tries[a][k] = i})

(* The statement of a task reaches the warehouse only when the tasks       *)
(* before it have succeeded, never again once a later one has, and no more *)
(* often than its type allows, resumptions included (run.ts:362-363, 444). *)
TasksTriedInOrder ==
  \A a \in Actions :
    /\ \A k \in DOMAIN tries[a] : \A j \in 1..(tries[a][k] - 1) :
         tasks[a][j] = "SUCCESSFUL"
    /\ \A k, l \in DOMAIN tries[a] : k <= l => tries[a][k] <= tries[a][l]
    /\ \A i \in DOMAIN Tasks[a] :
         TriesOf(a, i) <= (IF Tasks[a][i] = "operation" THEN 1 ELSE Retries + 1)

(* An action is skipped only because the run was cancelled or because some *)
(* dependency has ended without success; one that may still succeed is     *)
(* never a reason (run.ts:272-280).                                        *)
SkipHasCause ==
  \A a \in Actions :
    status[a] = "SKIPPED" =>
      aborted \/ \E d \in Known(a) : ~Successful(d) /\ status[d] \in Settled

(* The verdict of a run that was never cancelled agrees with its results:  *)
(* SUCCESSFUL means that every action of the graph succeeded, and FAILED   *)
(* that one failed; the other verdicts need a cancel (run.ts:190-203).     *)
VerdictTruthful ==
  runPc = "resolved" =>
    /\ runStatus = "SUCCESSFUL" => aborted \/ \A a \in Actions : Successful(a)
    /\ runStatus = "FAILED" => \E a \in Actions : status[a] = "FAILED"
    /\ runStatus \in {"CANCELLED", "TIMED_OUT"} => aborted

(* A run with a verdict leaves no entry and no task RUNNING, save the      *)
(* entry of a stopped action that the run cache skipped on resumption      *)
(* (run.ts:192, 340-354).                                                  *)
NothingLeftRunning ==
  runPc = "resolved" /\ runStatus # "RUNNING" =>
    \A a \in Actions \ extra :
      /\ status[a] # "RUNNING"
      /\ \A i \in DOMAIN tasks[a] : tasks[a][i] # "RUNNING"

(* No statement runs before the schema it writes to exists, also when the  *)
(* first attempt was stopped before or while schemas were made (178-181).  *)
SchemasBeforeActions ==
  \A a \in Actions : tries[a] # <<>> => SchemaOf[a] \in existing

(* A result that was recorded is final: neither later passes, nor a cancel *)
(* nor a resumption change an action that ended (run.ts:101-111, 235-256). *)
ResultsFrozen ==
  [][\A a \in Actions :
       status[a] \in Settled /\ pc[a] \in {"idle", "returned", "joined"}
         => status'[a] = status[a] /\ tasks'[a] = tasks[a]]_vars

(* result() settles, whatever fails, is cancelled, stopped or times out:   *)
(* no client is kept and no action waits for ever (run.ts:149-206, 360).   *)
EventuallySettles ==
  runPc \in {"schemas", "running"} ~> runPc \in {"resolved", "rejected"}
-----------------------------------------------------------------------------
(* What the comment on skippable actions implies: a run that ends by       *)
(* itself has a result for every action (run.ts:272-280).                  *)
EveryActionHasAResult ==
  runPc = "resolved" /\ runStatus # "RUNNING" =>
    \A a \in Actions : status[a] # "NONE"

(* What "have executed successfully" says (run.ts:263-264): an action that *)
(* counts as SUCCESSFUL had its tasks executed.                            *)
SuccessfulActionsWereExecuted ==
  \A a \in Actions :
    status[a] = "SUCCESSFUL" => \A i \in DOMAIN tasks[a] : tasks[a][i] = "SUCCESSFUL"
-----------------------------------------------------------------------------
(* The run as its caller sees it.                                          *)
Outcome ==
  [a \in Actions |->
     CASE Successful(a) -> "success"
       [] ~Successful(a) /\ status[a] \in {"FAILED", "CANCELLED"} -> "failure"
       [] ~Successful(a) /\ status[a] = "SKIPPED" -> "skipped"
       [] ~Successful(a) /\ status[a] = "RUNNING" -> "running"
       [] OTHER -> "none"]

Verdict ==
  CASE runPc # "resolved" \/ runStatus = "RUNNING" -> "open"
    [] runPc = "resolved" /\ runStatus = "SUCCESSFUL" -> "success"
    [] runPc = "resolved" /\ runStatus = "FAILED" -> "failure"
    [] OTHER -> "aborted"

Dag == INSTANCE DagExecution
         WITH outcome <- Outcome, verdict <- Verdict

(* The executor, with its sets of names, its passes and its resumptions,   *)
(* does what DagExecution promises: starts and skips are justified by the  *)
(* outcomes before the step, outcomes are final, the verdict is given once *)
(* and with nothing in progress (run.ts:171-316).                          *)
RunsTheDag == Dag!Spec
=============================================================================
