---------------------------- MODULE RunnerProofs ----------------------------
(***************************************************************************)
(* Theorems about the run executor, for every execution graph and every    *)
(* configuration.                                                          *)
(***************************************************************************)
EXTENDS Runner, SequenceTheorems, TLAPS

USE DEF RunPcs, RunStatuses, ActionPcs, Successes, Settled, Statuses, TaskStatuses

-----------------------------------------------------------------------------
(* Type correctness.                                                       *)

(* What is recorded for a skipped action are task statuses.                *)
LEMMA AllSkippedType ==
  ASSUME NEW a \in Actions
  PROVE  AllSkipped(a) \in Seq(TaskStatuses)
<1>1. Len(Tasks[a]) \in Nat
  BY GraphAssumption
<1> QED
  BY <1>1 DEF AllSkipped

(* The part of the state that a pass over the pending actions may change.  *)
PassTypeOK ==
  /\ pending \subseteq Actions
  /\ status \in [Actions -> Statuses]
  /\ tasks \in [Actions -> Seq(TaskStatuses)]
  /\ extra \subseteq Actions
  /\ pc \in [Actions -> ActionPcs]

LEMMA StartReadyType ==
  ASSUME NEW P \in SUBSET Actions, NEW E, NEW S, NEW p \in [Actions -> ActionPcs],
         PassTypeOK, StartReady(P, E, S, p)
  PROVE  PassTypeOK'
<1> DEFINE ready    == {a \in P : Executable(a, S)}
           skip     == {a \in P : Skippable(a, E, S)}
           disabled == {a \in ready : Tasks[a] = <<>>}
<1>1. PICK hits \in SUBSET ((ready \ disabled) \cap CacheCandidates) :
        LET start == ready \ (disabled \cup hits)
        IN /\ pending' = P \ (ready \cup skip)
           /\ status' = [a \in Actions |->
                CASE a \in skip     -> "SKIPPED"
                  [] a \in disabled -> "DISABLED"
                  [] a \in hits /\ status[a] = "NONE" -> "CACHE_SKIPPED"
                  [] a \in start    -> "RUNNING"
                  [] OTHER          -> status[a]]
           /\ extra' = extra \cup {a \in hits : status[a] # "NONE"}
           /\ tasks' = [a \in Actions |->
                IF a \in skip THEN AllSkipped(a) ELSE tasks[a]]
           /\ pc' = [a \in Actions |->
                CASE a \in disabled \cup hits -> "returned"
                  [] a \in start -> "lock"
                  [] OTHER       -> p[a]]
  BY DEF StartReady
<1> HIDE DEF ready, skip, disabled
<1> DEFINE start == ready \ (disabled \cup hits)
<1>2. pending' \subseteq Actions
  BY <1>1
<1>3. status' \in [Actions -> Statuses]
  BY <1>1 DEF PassTypeOK
<1>4. tasks' \in [Actions -> Seq(TaskStatuses)]
  BY <1>1, AllSkippedType DEF PassTypeOK
<1>5. extra' \subseteq Actions
  BY <1>1, GraphAssumption DEF PassTypeOK
<1>6. pc' \in [Actions -> ActionPcs]
  BY <1>1
<1> QED
  BY <1>2, <1>3, <1>4, <1>5, <1>6 DEF PassTypeOK

LEMMA PassType ==
  ASSUME NEW E, NEW S, NEW p \in [Actions -> ActionPcs], PassTypeOK, Pass(E, S, p)
  PROVE  PassTypeOK'
<1>1. CASE stopped
  BY <1>1 DEF Pass, PassTypeOK, resultVars
<1>2. CASE ~stopped /\ cancelled
  BY <1>2, AllSkippedType DEF Pass, FlushPending, PassTypeOK
<1>3. CASE ~stopped /\ ~cancelled
  BY <1>3, StartReadyType DEF Pass, PassTypeOK
<1> QED
  BY <1>1, <1>2, <1>3

(* Setting the status of the last task keeps a list of task statuses.      *)
LEMMA EndTaskType ==
  ASSUME NEW q \in Seq(TaskStatuses), NEW st \in TaskStatuses
  PROVE  [q EXCEPT ![Len(q)] = st] \in Seq(TaskStatuses)
<1>1. CASE q = <<>>
  <2>1. Len(q) \notin DOMAIN q
    BY <1>1
  <2>2. [q EXCEPT ![Len(q)] = st] = q
    BY <1>1, <2>1
  <2> QED
    BY <2>2
<1>2. CASE q # <<>>
  <2>1. Len(q) \in 1..Len(q)
    BY <1>2, EmptySeq
  <2> QED
    BY <2>1, ExceptSeq
<1> QED
  BY <1>1, <1>2

LEMMA InitType == Init => TypeOK
<1> SUFFICES ASSUME Init PROVE TypeOK
  OBVIOUS
<1>1. timer \in BOOLEAN
  BY ConfigAssumption DEF Init
<1>2. resumes \in 0..MaxResumes
  BY ConfigAssumption DEF Init
<1>3. /\ tasks \in [Actions -> Seq(TaskStatuses)]
      /\ tries \in [Actions -> Seq(Nat)]
  BY EmptySeq DEF Init
<1> QED
  BY <1>1, <1>2, <1>3 DEF Init, TypeOK

LEMMA NextType == TypeOK /\ [Next]_vars => TypeOK'
<1> SUFFICES ASSUME TypeOK, [Next]_vars PROVE TypeOK'
  OBVIOUS
<1> USE DEF TypeOK, runVars, graphVars, resultVars, queryVars, flagVars
<1>0. PassTypeOK
  BY DEF PassTypeOK
<1>1. CASE SchemasReady
  <2>1. PassTypeOK'
    BY <1>0, <1>1, PassType DEF SchemasReady
  <2> QED
    BY <1>1, <2>1 DEF SchemasReady, PassTypeOK
<1>2. CASE SchemasFail \/ \E s \in Schemas : CreateSchema(s)
  BY <1>2 DEF SchemasFail, CreateSchema
<1>3. ASSUME NEW a \in Actions, Step(a) PROVE TypeOK'
  <2> USE DEF Goto, At
  <2>1. CASE AcquireLock(a)
    BY <2>1 DEF AcquireLock
  <2>2. CASE LockFails(a)
    BY <2>2 DEF LockFails
  <2>3. CASE StartTask(a)
    <3>1. /\ Append(tasks[a], "RUNNING") \in Seq(TaskStatuses)
          /\ Append(tries[a], Len(tasks[a]) + 1) \in Seq(Nat)
      OBVIOUS
    <3> QED
      BY <2>3, <3>1 DEF StartTask
  <2>4. CASE LeaveLoop(a)
    <3> DEFINE padded ==
          [i \in 1..Len(Tasks[a]) |-> IF i \in DOMAIN tasks[a] THEN tasks[a][i] ELSE "SKIPPED"]
    <3>1. Len(Tasks[a]) \in Nat
      BY GraphAssumption
    <3>2. tasks[a] \in Seq(TaskStatuses)
      OBVIOUS
    <3>3. padded \in Seq(TaskStatuses)
      BY <3>1, <3>2
    <3>4. tasks' \in [Actions -> Seq(TaskStatuses)]
      BY <2>4, <3>3 DEF LeaveLoop
    <3> QED
      BY <2>4, <3>4 DEF LeaveLoop
  <2>5. CASE QueryStarts(a)
    BY <2>5 DEF QueryStarts
  <2>6. ASSUME NEW st \in {"SUCCESSFUL", "FAILED", "CANCELLED"}, EndTask(a, st),
               UNCHANGED <<runVars, graphVars, extra, attempt, tries, flagVars>>
        PROVE  TypeOK'
    <3>1. [tasks[a] EXCEPT ![Len(tasks[a])] = st] \in Seq(TaskStatuses)
      BY EndTaskType
    <3> QED
      BY <2>6, <3>1 DEF EndTask
  <2>7. CASE QuerySucceeds(a)
    BY <2>6, <2>7 DEF QuerySucceeds, FailureStatus
  <2>8. CASE QueryFails(a)
    BY <2>6, <2>8 DEF QueryFails, FailureStatus
  <2>9. CASE QueryRetries(a)
    <3>1. Append(tries[a], Len(tasks[a])) \in Seq(Nat)
      OBVIOUS
    <3> QED
      BY <2>9, <3>1 DEF QueryRetries
  <2>10. CASE AfterTasks(a) \/ SetMetadata(a) \/ SetMetadataFails(a) \/ ReadTable(a)
    <3>1. /\ \E l \in ActionPcs : pc' = [pc EXCEPT ![a] = l]
          /\ UNCHANGED <<runVars, graphVars, resultVars, queryVars, flagVars>>
      BY <2>10 DEF AfterTasks, SetMetadata, SetMetadataFails, ReadTable, TableOrFinish
    <3> QED
      BY <3>1
  <2>11. CASE Finish(a)
    BY <2>11 DEF Finish
  <2>12. CASE Join(a)
    <3>1. PassTypeOK'
      BY <1>0, <2>12, PassType DEF Join
    <3> QED
      BY <2>12, <3>1 DEF Join, PassTypeOK
  <2> QED
    BY <1>3, <2>1, <2>2, <2>3, <2>4, <2>5, <2>7, <2>8, <2>9, <2>10, <2>11, <2>12
       DEF Step, Continue
<1>4. CASE RejectRun \/ FinishRun
  BY <1>4 DEF RejectRun, FinishRun, FinalStatus
<1>5. CASE Cancel \/ TimerFires \/ Stop
  BY <1>5 DEF Cancel, TimerFires, Stop, DoCancel
<1>6. CASE Resume
  <2>1. Done \subseteq Actions /\ {a \in Actions : Successful(a)} \subseteq Actions
    BY DEF Done
  <2>2. [a \in Actions |-> "idle"] \in [Actions -> ActionPcs]
    OBVIOUS
  <2>a. timer' \in BOOLEAN /\ stopped' \in BOOLEAN /\ cancelled' \in BOOLEAN
         /\ timedOut' \in BOOLEAN /\ aborted' \in BOOLEAN
    BY <1>6, ConfigAssumption DEF Resume
  <2>b. resumes' \in 0..MaxResumes
    BY <1>6, ConfigAssumption DEF Resume
  <2>c. /\ runPc' \in RunPcs /\ runStatus' \in RunStatuses
        /\ existing' \subseteq Schemas
        /\ executed' \subseteq Actions /\ succeeded' \subseteq Actions
        /\ attempt' \in [Actions -> Nat] /\ heard' \in [Actions -> BOOLEAN]
        /\ tries' \in [Actions -> Seq(Nat)]
    BY <1>6, <2>1 DEF Resume, Schemas
  <2>3. CASE NoResults
    <3>1. PassTypeOK'
      BY <1>6, <2>2, <2>3 DEF Resume, PassTypeOK
    <3> QED
      BY <2>a, <2>b, <2>c, <3>1 DEF PassTypeOK
  <2>4. CASE ~NoResults
    <3>1. StartReady(Actions \ Done, Done, {a \in Actions : Successful(a)},
                     [a \in Actions |-> "idle"])
      BY <1>6, <2>4 DEF Resume
    <3>2. PassTypeOK'
      BY <1>0, <2>2, <3>1, StartReadyType
    <3> QED
      BY <2>a, <2>b, <2>c, <3>2 DEF PassTypeOK
  <2> QED
    BY <2>3, <2>4
<1>7. CASE UNCHANGED vars
  BY <1>7 DEF vars
<1> QED
  BY <1>1, <1>2, <1>3, <1>4, <1>5, <1>6, <1>7 DEF Next

(* The executor keeps its sets of names, results and program counters in   *)
(* the sets the other properties are about.                                *)
THEOREM TypeCorrect == Spec => []TypeOK
  BY InitType, NextType, PTL DEF Spec
-----------------------------------------------------------------------------
(* Dependencies first.  The invariant relates the executor's three sets of *)
(* names and its program counters to the results: a name counts as         *)
(* succeeded only if its result says so; what is pending has no result     *)
(* yet, hence no pass overwrites one; and a task is in execution only for  *)
(* an action that is RUNNING, hence its failure overwrites no final one.   *)

SucceededTrue == \A a \in succeeded : Successful(a)

PendingFresh == \A a \in pending : status[a] = "NONE" /\ a \notin extra

QueriesOfRunning == \A a \in Actions : pc[a] \in {"queued", "running"} => status[a] = "RUNNING"

(* The second entry of a result comes after a first one.                   *)
ExtraHasEntry == \A a \in extra : status[a] # "NONE"

DepsInv ==
  /\ TypeOK
  /\ SucceededTrue
  /\ PendingFresh
  /\ QueriesOfRunning
  /\ ExtraHasEntry
  /\ DependenciesFirst

(* What every pass keeps, whatever it finds.                               *)
SuccessKept == \A a \in Actions : Successful(a) => Successful(a)'

LEMMA StartReadyDeps ==
  ASSUME NEW P \in SUBSET Actions, NEW E, NEW S \in SUBSET Actions,
         NEW p \in [Actions -> ActionPcs],
         TypeOK, ExtraHasEntry, DependenciesFirst, StartReady(P, E, S, p),
         \A a \in S : Successful(a),
         \A a \in P : a \notin extra
                     /\ (status[a] = "NONE" \/ (status[a] = "RUNNING" /\ Executable(a, S))),
         \A a \in Actions : p[a] \in {"queued", "running"}
                     => status[a] = "RUNNING" /\ a \notin P
  PROVE  /\ PendingFresh' /\ QueriesOfRunning' /\ ExtraHasEntry'
         /\ DependenciesFirst' /\ SuccessKept
<1> DEFINE ready    == {a \in P : Executable(a, S)}
           skip     == {a \in P : Skippable(a, E, S)}
           disabled == {a \in ready : Tasks[a] = <<>>}
<1>1. PICK hits \in SUBSET ((ready \ disabled) \cap CacheCandidates) :
        LET start == ready \ (disabled \cup hits)
        IN /\ pending' = P \ (ready \cup skip)
           /\ status' = [a \in Actions |->
                CASE a \in skip     -> "SKIPPED"
                  [] a \in disabled -> "DISABLED"
                  [] a \in hits /\ status[a] = "NONE" -> "CACHE_SKIPPED"
                  [] a \in start    -> "RUNNING"
                  [] OTHER          -> status[a]]
           /\ extra' = extra \cup {a \in hits : status[a] # "NONE"}
           /\ pc' = [a \in Actions |->
                CASE a \in disabled \cup hits -> "returned"
                  [] a \in start -> "lock"
                  [] OTHER       -> p[a]]
  BY DEF StartReady
<1>2. /\ ready \subseteq P /\ skip \subseteq P /\ disabled \subseteq ready /\ hits \subseteq ready
      /\ ready \cap skip = {}
  BY DEF Skippable
<1>3. \A a \in ready : Known(a) \subseteq S
  BY DEF Executable
<1>4. \A a \in P \ ready : status[a] = "NONE"
  OBVIOUS
<1> HIDE DEF ready, skip, disabled
<1>5. \A a \in Actions \ P : status'[a] = status[a]
  BY <1>1, <1>2
<1>6. \A a \in Actions : a \in extra' => a \in extra \/ a \in ready
  BY <1>1, <1>2
<1>7. SuccessKept
  <2> SUFFICES ASSUME NEW a \in Actions, Successful(a) PROVE Successful(a)'
    BY DEF SuccessKept
  <2>1. a \notin P
    BY DEF Successful
  <2>2. status'[a] = status[a] /\ (a \in extra => a \in extra')
    BY <2>1, <1>1, <1>5
  <2> QED
    BY <2>2 DEF Successful
<1>8. PendingFresh'
  <2> SUFFICES ASSUME NEW a \in pending' PROVE status'[a] = "NONE" /\ a \notin extra'
    BY DEF PendingFresh
  <2>1. a \in P \ (ready \cup skip) /\ a \in Actions
    BY <1>1
  <2>2. status'[a] = status[a]
    BY <1>1, <1>2, <2>1
  <2> QED
    BY <1>4, <1>6, <2>1, <2>2
<1>9. QueriesOfRunning'
  <2> SUFFICES ASSUME NEW a \in Actions, pc'[a] \in {"queued", "running"}
               PROVE  status'[a] = "RUNNING"
    BY DEF QueriesOfRunning
  <2>1. pc'[a] = p[a]
    BY <1>1
  <2> QED
    BY <1>5, <2>1
<1>10. DependenciesFirst'
  <2> SUFFICES ASSUME NEW a \in Actions,
                      status'[a] \notin {"NONE", "SKIPPED"} \/ a \in extra',
                      NEW d \in Known(a)
               PROVE  Successful(d)'
    BY DEF DependenciesFirst, Known
  <2>1. d \in Actions
    BY DEF Known
  <2>2. CASE a \in ready
    <3>1. Successful(d)
      BY <1>3, <2>2
    <3> QED
      BY <1>7, <2>1, <3>1 DEF SuccessKept
  <2>3. CASE a \in P \ ready
    <3>1. a \notin extra'
      BY <1>6, <2>3
    <3>2. status'[a] \in {"NONE", "SKIPPED"}
      BY <1>1, <1>2, <1>4, <2>3
    <3> QED
      BY <3>1, <3>2
  <2>4. CASE a \notin P
    <3>1. status[a] \notin {"NONE", "SKIPPED"} \/ a \in extra
      BY <1>2, <1>5, <1>6, <2>4
    <3>2. Successful(d)
      BY <3>1 DEF DependenciesFirst
    <3> QED
      BY <1>7, <2>1, <3>2 DEF SuccessKept
  <2> QED
    BY <1>2, <2>2, <2>3, <2>4
<1>11. ExtraHasEntry'
  <2> SUFFICES ASSUME NEW a \in extra' PROVE status'[a] # "NONE"
    BY DEF ExtraHasEntry
  <2>1. CASE a \in extra
    <3>1. a \in Actions \ P /\ status[a] # "NONE"
      BY <2>1 DEF TypeOK, ExtraHasEntry
    <3> QED
      BY <1>5, <3>1
  <2>2. CASE a \notin extra
    <3>1. a \in hits /\ status[a] # "NONE" /\ a \in Actions /\ a \notin skip
      BY <1>1, <1>2, <2>2
    <3> QED
      BY <1>1, <1>2, <3>1
  <2> QED
    BY <2>1, <2>2
<1> QED
  BY <1>7, <1>8, <1>9, <1>10, <1>11

LEMMA PassDeps ==
  ASSUME NEW E, NEW S \in SUBSET Actions, NEW p \in [Actions -> ActionPcs],
         TypeOK, ExtraHasEntry, DependenciesFirst, PendingFresh, Pass(E, S, p),
         \A a \in S : Successful(a),
         \A a \in Actions : p[a] \in {"queued", "running"} => status[a] = "RUNNING"
  PROVE  /\ PendingFresh' /\ QueriesOfRunning' /\ ExtraHasEntry'
         /\ DependenciesFirst' /\ SuccessKept
<1>1. CASE stopped
  <2>1. pc' = p /\ UNCHANGED <<pending, status, extra>>
    BY <1>1 DEF Pass, resultVars
  <2>2. \A a : Successful(a)' <=> Successful(a)
    BY <2>1 DEF Successful
  <2> QED
    BY <2>1, <2>2
       DEF PendingFresh, QueriesOfRunning, ExtraHasEntry, DependenciesFirst, SuccessKept, Known
<1>2. CASE ~stopped /\ cancelled
  <2>1. /\ pending' = {} /\ pc' = p /\ extra' = extra
        /\ status' = [a \in Actions |-> IF a \in pending THEN "SKIPPED" ELSE status[a]]
    BY <1>2 DEF Pass, FlushPending
  <2>2. SuccessKept
    BY <2>1 DEF SuccessKept, Successful, PendingFresh
  <2>3. PendingFresh'
    BY <2>1 DEF PendingFresh
  <2>4. QueriesOfRunning'
    BY <2>1 DEF QueriesOfRunning, PendingFresh
  <2>5. DependenciesFirst'
    <3> SUFFICES ASSUME NEW a \in Actions,
                        status'[a] \notin {"NONE", "SKIPPED"} \/ a \in extra',
                        NEW d \in Known(a)
                 PROVE  Successful(d)'
      BY DEF DependenciesFirst, Known
    <3>1. status[a] \notin {"NONE", "SKIPPED"} \/ a \in extra
      BY <2>1
    <3>2. Successful(d) /\ d \in Actions
      BY <3>1 DEF DependenciesFirst, Known
    <3> QED
      BY <2>2, <3>2 DEF SuccessKept
  <2>6. ExtraHasEntry'
    BY <2>1 DEF ExtraHasEntry, PendingFresh, TypeOK
  <2> QED
    BY <2>2, <2>3, <2>4, <2>5, <2>6
<1>3. CASE ~stopped /\ ~cancelled
  <2>1. StartReady(pending, E, S, p)
    BY <1>3 DEF Pass
  <2>2. \A a \in pending : a \notin extra /\ status[a] = "NONE"
    BY DEF PendingFresh
  <2>3. \A a \in Actions : p[a] \in {"queued", "running"}
                     => status[a] = "RUNNING" /\ a \notin pending
    BY <2>2
  <2>4. pending \in SUBSET Actions
    BY DEF TypeOK
  <2> QED
    BY <2>1, <2>2, <2>3, <2>4, StartReadyDeps
<1> QED
  BY <1>1, <1>2, <1>3

(* Steps that touch neither names nor results, and put no action in        *)
(* execution that is not RUNNING.                                          *)
LEMMA QuietStepDeps ==
  ASSUME DepsInv, TypeOK', UNCHANGED <<pending, succeeded, status, extra>>,
         \A a \in Actions : pc'[a] \in {"queued", "running"} /\ pc'[a] # pc[a]
                          => status[a] = "RUNNING"
  PROVE  DepsInv'
<1>1. \A a : Successful(a)' <=> Successful(a)
  BY DEF Successful
<1>2. QueriesOfRunning'
  BY DEF DepsInv, QueriesOfRunning
<1> QED
  BY <1>1, <1>2
     DEF DepsInv, SucceededTrue, PendingFresh, ExtraHasEntry, DependenciesFirst, Known

(* A step that ends the work of one RUNNING action, well or badly.         *)
LEMMA EndingStepDeps ==
  ASSUME DepsInv, TypeOK', UNCHANGED <<pending, succeeded, extra>>,
         NEW a \in Actions, NEW st \in {"SUCCESSFUL", "FAILED", "CANCELLED"},
         NEW l \in {"loop", "returned"},
         status[a] = "RUNNING",
         status' = [status EXCEPT ![a] = st], pc' = [pc EXCEPT ![a] = l]
  PROVE  DepsInv'
<1> USE DEF DepsInv, TypeOK
<1>1. \A n \in Actions : Successful(n) => Successful(n)'
  BY DEF Successful
<1>2. SucceededTrue'
  BY <1>1 DEF SucceededTrue
<1>3. PendingFresh'
  BY DEF PendingFresh
<1>4. QueriesOfRunning'
  BY DEF QueriesOfRunning
<1>5. DependenciesFirst'
  <2> SUFFICES ASSUME NEW n \in Actions,
                      status'[n] \notin {"NONE", "SKIPPED"} \/ n \in extra',
                      NEW d \in Known(n)
               PROVE  Successful(d)'
    BY DEF DependenciesFirst, Known
  <2>1. status[n] \notin {"NONE", "SKIPPED"} \/ n \in extra
    OBVIOUS
  <2> QED
    BY <1>1, <2>1 DEF DependenciesFirst, Known
<1>6. ExtraHasEntry'
  BY DEF ExtraHasEntry
<1> QED
  BY <1>2, <1>3, <1>4, <1>5, <1>6

LEMMA NextDeps == DepsInv /\ [Next]_vars => DepsInv'
<1> SUFFICES ASSUME DepsInv, [Next]_vars PROVE DepsInv'
  OBVIOUS
<1>0. TypeOK /\ TypeOK'
  BY NextType DEF DepsInv
<1> USE DEF runVars, graphVars, resultVars, queryVars, flagVars
<1>1. CASE SchemasReady
  <2>1. Pass(executed, succeeded, pc) /\ UNCHANGED succeeded
    BY <1>1 DEF SchemasReady
  <2>2. PendingFresh' /\ QueriesOfRunning' /\ ExtraHasEntry' /\ DependenciesFirst' /\ SuccessKept
    BY <1>0, <2>1, PassDeps DEF DepsInv, SucceededTrue, QueriesOfRunning, TypeOK
  <2> QED
    BY <1>0, <2>1, <2>2 DEF DepsInv, SucceededTrue, SuccessKept, TypeOK
<1>2. CASE \/ SchemasFail \/ RejectRun \/ FinishRun \/ Cancel \/ TimerFires \/ Stop
           \/ \E s \in Schemas : CreateSchema(s)
  <2>1. UNCHANGED <<pending, succeeded, status, extra, pc>>
    BY <1>2 DEF SchemasFail, CreateSchema, RejectRun, FinishRun, Cancel, TimerFires, Stop,
                DoCancel
  <2> QED
    BY <1>0, <2>1, QuietStepDeps
<1>3. ASSUME NEW a \in Actions, Step(a) PROVE DepsInv'
  <2>1. CASE \/ AcquireLock(a) \/ LockFails(a) \/ LeaveLoop(a) \/ AfterTasks(a)
             \/ SetMetadata(a) \/ SetMetadataFails(a) \/ ReadTable(a)
    <3>1. /\ UNCHANGED <<pending, succeeded, status, extra>>
          /\ \E l \in ActionPcs \ {"queued", "running"} : pc' = [pc EXCEPT ![a] = l]
      BY <2>1 DEF AcquireLock, LockFails, LeaveLoop, AfterTasks, SetMetadata,
                  SetMetadataFails, ReadTable, TableOrFinish, Goto
    <3> QED
      BY <1>0, <3>1, QuietStepDeps DEF TypeOK
  <2>2. CASE StartTask(a) \/ QueryStarts(a) \/ QueryRetries(a)
    <3>1. /\ UNCHANGED <<pending, succeeded, status, extra>>
          /\ \E l \in ActionPcs : pc' = [pc EXCEPT ![a] = l]
      BY <2>2 DEF StartTask, QueryStarts, QueryRetries, Goto
    <3>2. status[a] = "RUNNING"
      BY <2>2 DEF StartTask, QueryStarts, QueryRetries, At, DepsInv, QueriesOfRunning
    <3> QED
      BY <1>0, <3>1, <3>2, QuietStepDeps DEF TypeOK
  <2>3. CASE QuerySucceeds(a) \/ QueryFails(a)
    <3>1. /\ status[a] = "RUNNING"
          /\ UNCHANGED <<pending, succeeded, extra>>
      BY <2>3 DEF QuerySucceeds, QueryFails, DepsInv, QueriesOfRunning
    <3>2. PICK st \in {"SUCCESSFUL", "FAILED", "CANCELLED"} : EndTask(a, st)
      BY <2>3 DEF QuerySucceeds, QueryFails, FailureStatus
    <3>3. CASE st = "SUCCESSFUL"
      <4>1. status' = status /\ pc' = [pc EXCEPT ![a] = "loop"]
        BY <1>0, <3>2, <3>3 DEF EndTask, Goto, TypeOK
      <4> QED
        BY <1>0, <3>1, <4>1, QuietStepDeps DEF TypeOK
    <3>4. CASE st # "SUCCESSFUL"
      <4>1. status' = [status EXCEPT ![a] = st] /\ pc' = [pc EXCEPT ![a] = "loop"]
        BY <3>2, <3>4 DEF EndTask, Goto
      <4> QED
        BY <1>0, <3>1, <4>1, EndingStepDeps
    <3> QED
      BY <3>3, <3>4
  <2>4. CASE Finish(a)
    <3>1. /\ UNCHANGED <<pending, succeeded, extra>>
          /\ pc' = [pc EXCEPT ![a] = "returned"]
          /\ status' = [status EXCEPT ![a] = IF @ = "RUNNING" THEN "SUCCESSFUL" ELSE @]
      BY <2>4 DEF Finish, Goto
    <3>2. CASE status[a] = "RUNNING"
      BY <1>0, <3>1, <3>2, EndingStepDeps
    <3>3. CASE status[a] # "RUNNING"
      <4>1. status' = status
        BY <1>0, <3>1, <3>3 DEF TypeOK
      <4> QED
        BY <1>0, <3>1, <4>1, QuietStepDeps DEF TypeOK
    <3> QED
      BY <3>2, <3>3
  <2>5. CASE Join(a)
    <3> DEFINE p == [pc EXCEPT ![a] = "joined"]
    <3>1. Pass(executed', succeeded', p)
      BY <2>5 DEF Join
    <3>2. succeeded' \in SUBSET Actions /\ \A n \in succeeded' : Successful(n)
      BY <1>0, <2>5 DEF Join, TypeOK, DepsInv, SucceededTrue
    <3>3. /\ p \in [Actions -> ActionPcs]
          /\ \A n \in Actions : p[n] \in {"queued", "running"} => status[n] = "RUNNING"
      BY <1>0 DEF TypeOK, DepsInv, QueriesOfRunning
    <3> HIDE DEF p
    <3>4. PendingFresh' /\ QueriesOfRunning' /\ ExtraHasEntry' /\ DependenciesFirst' /\ SuccessKept
      BY <1>0, <3>1, <3>2, <3>3, PassDeps DEF DepsInv
    <3>5. SucceededTrue'
      BY <3>2, <3>4 DEF SucceededTrue, SuccessKept
    <3> QED
      BY <1>0, <3>4, <3>5 DEF DepsInv
  <2> QED
    BY <1>3, <2>1, <2>2, <2>3, <2>4, <2>5 DEF Step, Continue
<1>4. CASE Resume
  <2> DEFINE good  == {a \in Actions : Successful(a)}
             fresh == [a \in Actions |-> "idle"]
  <2>1. succeeded' = good /\ good \subseteq Actions
    BY <1>4 DEF Resume
  <2>2. fresh \in [Actions -> ActionPcs]
        /\ \A a \in Actions : fresh[a] \notin {"queued", "running"}
    OBVIOUS
  <2>3. CASE NoResults
    <3>1. pending' = Actions /\ pc' = fresh /\ UNCHANGED <<status, extra>>
      BY <1>4, <2>3 DEF Resume
    <3>2. \A a : Successful(a)' <=> Successful(a)
      BY <3>1 DEF Successful
    <3>3. \A a \in Actions : a \notin extra
      BY <1>0, <2>3 DEF NoResults, DepsInv, ExtraHasEntry, TypeOK
    <3>4. SucceededTrue' /\ DependenciesFirst' /\ ExtraHasEntry'
      BY <2>1, <3>1, <3>2 DEF SucceededTrue, DependenciesFirst, DepsInv, Known, ExtraHasEntry
    <3>5. PendingFresh' /\ QueriesOfRunning'
      BY <2>2, <2>3, <3>1, <3>3 DEF PendingFresh, QueriesOfRunning, NoResults
    <3> QED
      BY <1>0, <3>4, <3>5 DEF DepsInv
  <2>4. CASE ~NoResults
    <3>1. StartReady(Actions \ Done, Done, good, fresh)
      BY <1>4, <2>4 DEF Resume
    <3>2. \A a \in Actions \ Done : a \notin extra
             /\ (status[a] = "NONE" \/ (status[a] = "RUNNING" /\ Executable(a, good)))
      <4> SUFFICES ASSUME NEW a \in Actions \ Done
                   PROVE  a \notin extra
                     /\ (status[a] = "NONE" \/ (status[a] = "RUNNING" /\ Executable(a, good)))
        OBVIOUS
      <4>1. a \notin extra /\ status[a] \in {"NONE", "RUNNING"}
        BY <1>0 DEF Done, TypeOK
      <4>2. status[a] = "RUNNING" => Executable(a, good)
        BY DEF DepsInv, DependenciesFirst, Executable, Known
      <4> QED
        BY <4>1, <4>2
    <3> HIDE DEF good, fresh
    <3>3. good \in SUBSET Actions /\ Actions \ Done \in SUBSET Actions
      BY <2>1
    <3>4. \A a \in good : Successful(a)
      BY DEF good
    <3>5. PendingFresh' /\ QueriesOfRunning' /\ ExtraHasEntry' /\ DependenciesFirst' /\ SuccessKept
      BY <1>0, <2>2, <3>1, <3>2, <3>3, <3>4, StartReadyDeps DEF DepsInv
    <3>6. SucceededTrue'
      BY <2>1, <3>4, <3>5 DEF SucceededTrue, SuccessKept
    <3> QED
      BY <1>0, <3>5, <3>6 DEF DepsInv
  <2> QED
    BY <2>3, <2>4
<1>5. CASE UNCHANGED vars
  BY <1>0, <1>5, QuietStepDeps DEF vars
<1> QED
  BY <1>1, <1>2, <1>3, <1>4, <1>5 DEF Next

(* Whatever fails, is cancelled, times out, or is stopped and resumed: an  *)
(* action is executed or accepted as done only after all its dependencies  *)
(* in the graph have succeeded (run.ts:261-271).                           *)
THEOREM DependenciesComeFirst == Spec => []DependenciesFirst
<1>1. Init => DepsInv
  BY InitType DEF Init, DepsInv, SucceededTrue, PendingFresh, QueriesOfRunning,
                  ExtraHasEntry, DependenciesFirst
<1>2. DepsInv => DependenciesFirst
  BY DEF DepsInv
<1> QED
  BY <1>1, <1>2, NextDeps, PTL DEF Spec

-----------------------------------------------------------------------------
(* What the results mean, for every execution graph and every              *)
(* configuration: one inductive invariant on the entries of the run        *)
(* result, and the properties that follow from it.                         *)

(* Where executeAction(a) is not under way.                                *)
Resting == {"idle", "returned", "joined"}

Asking == {"queued", "running"}

(* What the entry of action n may be: its status s, its tasks' statuses q, *)
(* while executeAction(n) is at l; x says that it has a second entry, ab   *)
(* that the run was ever cancelled and sp that it is stopped.              *)
EntryOK(n, s, q, l, x, ab, sp) ==
  /\ s = "NONE" => l = "idle" /\ q = <<>>
  /\ x => s = "RUNNING" /\ l \in Resting
  /\ s = "RUNNING" /\ l \in Resting => x \/ sp
  /\ s \in Successes \cup {"SKIPPED"} => l \in Resting
  /\ l \in Asking => q # <<>>
  /\ \A i \in DOMAIN q : q[i] = "RUNNING" => l \in Asking /\ i = Len(q)
  /\ Len(q) <= Len(Tasks[n])
  /\ s = "CANCELLED" => ab
  /\ ~ab /\ s \in {"RUNNING", "SUCCESSFUL"}
       => \A i \in DOMAIN q : q[i] \in {"SUCCESSFUL", "RUNNING"}
  /\ ~ab /\ \/ s = "SUCCESSFUL"
            \/ s = "RUNNING" /\ l \in {"metadata", "table", "finish"}
            \/ s = "RUNNING" /\ l = "unlocked" /\ ~sp
       => Len(q) = Len(Tasks[n])

Entries ==
  \A n \in Actions :
    EntryOK(n, status[n], tasks[n], pc[n], n \in extra, aborted, stopped)

Flags == (cancelled => aborted) /\ (timedOut => aborted)

(* The verdict comes when nothing is under way, and not to a stopped run.  *)
VerdictLast ==
  /\ runPc # "resolved" => runStatus = "RUNNING"
  /\ runPc = "resolved" => \A a \in Actions : pc[a] \in {"idle", "joined"}
  /\ runPc = "resolved" /\ runStatus # "RUNNING" => ~stopped

(* A name that counts as executed has ended; if it did not succeed, either *)
(* it never will, or the run is stopped and makes no more passes.          *)
ExecutedEnded ==
  \A d \in executed :
    /\ pc[d] \in {"idle", "joined"}
    /\ status[d] # "NONE"
    /\ d \in succeeded \/ stopped \/ (~Successful(d) /\ status[d] \in Settled)

(* What has no entry is pending, and what succeeded is known to have.      *)
NothingForgotten ==
  /\ \A a \in Actions : status[a] = "NONE" => a \in pending
  /\ \A a \in Actions : Successful(a) /\ pc[a] \in {"idle", "joined"} => a \in succeeded

(* No action that could start was passed over.                             *)
PassedOver ==
  runPc = "running" /\ ~stopped => \A a \in pending : ~Executable(a, succeeded)

(* As long as a schema is missing nothing has happened.                    *)
SchemasFirst ==
  \/ AllSchemasExist
  \/ /\ runPc \in {"schemas", "rejected"}
     /\ \A a \in Actions : status[a] = "NONE" /\ tries[a] = <<>>

ResultsInv ==
  /\ DepsInv
  /\ Entries
  /\ Flags
  /\ VerdictLast
  /\ ExecutedEnded
  /\ NothingForgotten
  /\ PassedOver
  /\ SchemasFirst
  /\ SkipHasCause
-----------------------------------------------------------------------------
(* The shapes of steps.                                                    *)

(* Names, results and program counters stay.                               *)
Quiet == UNCHANGED <<graphVars, resultVars, pc>>

(* One action that is under way goes on.                                   *)
Advance(a) ==
  /\ UNCHANGED <<runVars, graphVars, extra, flagVars>>
  /\ pc[a] \notin Resting
  /\ pc'[a] \notin {"idle", "joined"}
  /\ \A n \in Actions \ {a} :
       status'[n] = status[n] /\ tasks'[n] = tasks[n] /\ pc'[n] = pc[n]
  /\ IF status[a] = "RUNNING"
       THEN status'[a] \in {"RUNNING", "SUCCESSFUL", "FAILED", "CANCELLED"}
       ELSE status'[a] = status[a]
  /\ EntryOK(a, status'[a], tasks'[a], pc'[a], FALSE, aborted, stopped)

(* What a pass makes of action a: P, E, S are the pending, the executed    *)
(* and the succeeded actions, p the program counters, sp and cn say        *)
(* whether the run is stopped or cancelled.                                *)
SameExtra(a) == a \in extra' <=> a \in extra

Kept(a, P, S, p, sp) ==
  /\ status'[a] = status[a] /\ tasks'[a] = tasks[a] /\ pc'[a] = p[a] /\ SameExtra(a)
  /\ a \in pending' <=> a \in P
  /\ a \in P => sp \/ ~Executable(a, S)

Skipped(a, E, S, p, sp, cn) ==
  /\ status'[a] = "SKIPPED" /\ tasks'[a] = AllSkipped(a) /\ pc'[a] = p[a] /\ SameExtra(a)
  /\ ~sp /\ (cn \/ Skippable(a, E, S))

Disabled(a, S) ==
  /\ status'[a] = "DISABLED" /\ tasks'[a] = tasks[a] /\ pc'[a] = "returned" /\ SameExtra(a)
  /\ Executable(a, S)

Hit(a, S) ==
  /\ tasks'[a] = tasks[a] /\ pc'[a] = "returned"
  /\ IF status[a] = "NONE" THEN status'[a] = "CACHE_SKIPPED" /\ SameExtra(a)
                           ELSE status'[a] = status[a] /\ a \in extra'
  /\ Executable(a, S)

Started(a, S) ==
  /\ status'[a] = "RUNNING" /\ tasks'[a] = tasks[a] /\ pc'[a] = "lock" /\ SameExtra(a)
  /\ Executable(a, S)

Passed(a, P, E, S, p, sp, cn) ==
  \/ Kept(a, P, S, p, sp)
  \/ /\ a \in P /\ a \notin pending'
     /\ \/ Skipped(a, E, S, p, sp, cn) \/ Disabled(a, S) \/ Hit(a, S) \/ Started(a, S)

(* A pass in a state that the invariant allows.                            *)
Sweep(P, E, S, p, sp, cn) ==
  /\ executed' = E /\ succeeded' = S /\ stopped' = sp
  /\ UNCHANGED <<runStatus, existing, attempt, tries, aborted>>
  /\ \A a \in Actions : p[a] \in Asking => pc[a] = p[a]
  /\ AllSchemasExist
  /\ runStatus = "RUNNING" /\ runPc' # "resolved"
  /\ cn => aborted
  /\ S \subseteq Actions /\ \A d \in S : Successful(d)
  /\ \A d \in Actions : Successful(d) /\ p[d] \in {"idle", "joined"} => d \in S
  /\ E \subseteq Actions \ P
  /\ \A d \in E : /\ p[d] \in {"idle", "joined"} /\ status[d] # "NONE"
                  /\ d \in S \/ sp \/ (~Successful(d) /\ status[d] \in Settled)
  /\ P \subseteq Actions
  /\ \A a \in Actions : status[a] = "NONE" => a \in P
  /\ \A a \in P : /\ a \notin extra /\ p[a] = "idle"
                  /\ EntryOK(a, status[a], tasks[a], "idle", FALSE, aborted, TRUE)
                  /\ status[a] = "NONE" \/ (~sp /\ ~cn /\ status[a] = "RUNNING" /\ Executable(a, S))
  /\ \A a \in Actions \ P :
       EntryOK(a, status[a], tasks[a], p[a], a \in extra, aborted, sp)
  /\ \A a \in Actions : Passed(a, P, E, S, p, sp, cn)

(* A resumption that begins at the beginning.                              *)
Restart ==
  /\ \A a \in Actions : status[a] = "NONE" /\ pc'[a] = "idle"
  /\ pending' = Actions /\ executed' = {} /\ succeeded' = {}
  /\ UNCHANGED <<resultVars, runStatus, existing, attempt, tries, aborted>>
  /\ AllSchemasExist
  /\ runPc' = "schemas" /\ runStatus = "RUNNING"
  /\ ~stopped' /\ ~cancelled' /\ ~timedOut'
-----------------------------------------------------------------------------
LEMMA StartReadyPassed ==
  ASSUME NEW P \in SUBSET Actions, NEW E, NEW S, NEW p \in [Actions -> ActionPcs],
         TypeOK, StartReady(P, E, S, p), NEW a \in Actions
  PROVE  Passed(a, P, E, S, p, FALSE, FALSE)
<1> DEFINE ready    == {n \in P : Executable(n, S)}
           skip     == {n \in P : Skippable(n, E, S)}
           disabled == {n \in ready : Tasks[n] = <<>>}
<1>1. PICK hits \in SUBSET ((ready \ disabled) \cap CacheCandidates) :
        LET start == ready \ (disabled \cup hits)
        IN /\ pending' = P \ (ready \cup skip)
           /\ status' = [n \in Actions |->
                CASE n \in skip     -> "SKIPPED"
                  [] n \in disabled -> "DISABLED"
                  [] n \in hits /\ status[n] = "NONE" -> "CACHE_SKIPPED"
                  [] n \in start    -> "RUNNING"
                  [] OTHER          -> status[n]]
           /\ extra' = extra \cup {n \in hits : status[n] # "NONE"}
           /\ tasks' = [n \in Actions |->
                IF n \in skip THEN AllSkipped(n) ELSE tasks[n]]
           /\ pc' = [n \in Actions |->
                CASE n \in disabled \cup hits -> "returned"
                  [] n \in start -> "lock"
                  [] OTHER       -> p[n]]
  BY DEF StartReady
<1>2. /\ a \in ready <=> a \in P /\ Executable(a, S)
      /\ a \in skip <=> a \in P /\ Skippable(a, E, S)
      /\ a \in disabled => a \in ready
      /\ a \in hits => a \in ready /\ a \notin disabled
      /\ a \in skip => a \notin ready
  BY DEF Skippable
<1> HIDE DEF ready, skip, disabled
<1>3. a \in hits => a \in extra' \/ (status[a] = "NONE" /\ SameExtra(a))
  BY <1>1 DEF SameExtra
<1>4. a \notin hits => SameExtra(a)
  BY <1>1 DEF SameExtra
<1>5. CASE a \in skip
  <2>1. status'[a] = "SKIPPED" /\ tasks'[a] = AllSkipped(a) /\ pc'[a] = p[a]
    BY <1>1, <1>2, <1>5
  <2> QED
    BY <1>1, <1>2, <1>4, <1>5, <2>1 DEF Passed, Skipped
<1>6. CASE a \in disabled
  <2>1. status'[a] = "DISABLED" /\ tasks'[a] = tasks[a] /\ pc'[a] = "returned"
    BY <1>1, <1>2, <1>6
  <2> QED
    BY <1>1, <1>2, <1>4, <1>6, <2>1 DEF Passed, Disabled
<1>7. CASE a \in hits
  <2>1. /\ status'[a] = IF status[a] = "NONE" THEN "CACHE_SKIPPED" ELSE status[a]
        /\ tasks'[a] = tasks[a] /\ pc'[a] = "returned"
    BY <1>1, <1>2, <1>7
  <2>2. IF status[a] = "NONE" THEN SameExtra(a) ELSE a \in extra'
    BY <1>1, <1>7 DEF SameExtra
  <2> QED
    BY <1>1, <1>2, <1>7, <2>1, <2>2 DEF Passed, Hit
<1>8. CASE a \in ready \ (disabled \cup hits)
  <2>1. status'[a] = "RUNNING" /\ tasks'[a] = tasks[a] /\ pc'[a] = "lock"
    BY <1>1, <1>2, <1>8
  <2> QED
    BY <1>1, <1>2, <1>4, <1>8, <2>1 DEF Passed, Started
<1>9. CASE a \notin ready \cup skip
  <2>1. status'[a] = status[a] /\ tasks'[a] = tasks[a] /\ pc'[a] = p[a]
    BY <1>1, <1>2, <1>9
  <2> QED
    BY <1>1, <1>2, <1>4, <1>9, <2>1 DEF Passed, Kept
<1> QED
  BY <1>5, <1>6, <1>7, <1>8, <1>9

LEMMA PassPassed ==
  ASSUME NEW E, NEW S, NEW p \in [Actions -> ActionPcs],
         TypeOK, Pass(E, S, p), NEW a \in Actions
  PROVE  Passed(a, pending, E, S, p, stopped, cancelled)
<1>1. CASE stopped
  BY <1>1 DEF Pass, resultVars, Passed, Kept, SameExtra
<1>2. CASE ~stopped /\ cancelled
  BY <1>2 DEF Pass, FlushPending, Passed, Kept, Skipped, SameExtra
<1>3. CASE ~stopped /\ ~cancelled
  <2>1. Passed(a, pending, E, S, p, FALSE, FALSE)
    BY <1>3, StartReadyPassed DEF Pass, TypeOK
  <2> QED
    BY <1>3, <2>1 DEF Passed, Kept, Skipped
<1> QED
  BY <1>1, <1>2, <1>3
-----------------------------------------------------------------------------
(* Every step has one of the shapes.                                       *)
LEMMA StepAdvances ==
  ASSUME ResultsInv, NEW a \in Actions, Step(a), ~Join(a)
  PROVE  Advance(a)
<1> USE DEF Goto, At, runVars, graphVars, resultVars, queryVars, flagVars
<1>0. /\ TypeOK
      /\ EntryOK(a, status[a], tasks[a], pc[a], a \in extra, aborted, stopped)
      /\ cancelled => aborted
      /\ QueriesOfRunning
  BY DEF ResultsInv, DepsInv, Entries, Flags
<1>t. /\ status[a] \in Statuses /\ tasks[a] \in Seq(TaskStatuses) /\ pc[a] \in ActionPcs
      /\ Len(tasks[a]) \in Nat /\ Len(Tasks[a]) \in Nat
      /\ Tasks[a] \in Seq(TaskTypes)
      /\ stopped \in BOOLEAN /\ cancelled \in BOOLEAN /\ aborted \in BOOLEAN
  BY <1>0, GraphAssumption DEF TypeOK
<1>x. pc[a] \notin Resting => a \notin extra
  BY <1>0 DEF EntryOK
<1>1. ASSUME NEW l \in ActionPcs \ (Asking \cup {"idle", "joined"}),
             pc[a] \notin Resting \cup Asking, pc' = [pc EXCEPT ![a] = l],
             UNCHANGED <<runVars, graphVars, resultVars, queryVars, flagVars>>,
             EntryOK(a, status[a], tasks[a], l, FALSE, aborted, stopped)
      PROVE  Advance(a)
  BY <1>0, <1>1 DEF Advance, TypeOK
<1>2. CASE AcquireLock(a)
  BY <1>0, <1>1, <1>2, <1>x DEF AcquireLock, EntryOK, Resting, Asking
<1>3. CASE LockFails(a)
  BY <1>0, <1>1, <1>3, <1>x DEF LockFails, EntryOK, Resting, Asking
<1>4. CASE SetMetadata(a) \/ SetMetadataFails(a) \/ ReadTable(a)
  <2>1. PICK l \in {"threw", "table", "finish"} : pc' = [pc EXCEPT ![a] = l]
    BY <1>4 DEF SetMetadata, SetMetadataFails, ReadTable, TableOrFinish
  <2>2. pc[a] \in {"metadata", "table"}
    BY <1>4 DEF SetMetadata, SetMetadataFails, ReadTable
  <2>3. EntryOK(a, status[a], tasks[a], l, FALSE, aborted, stopped)
    BY <1>0, <1>x, <2>1, <2>2 DEF EntryOK, Resting, Asking
  <2> QED
    BY <1>1, <1>4, <2>1, <2>2, <2>3 DEF SetMetadata, SetMetadataFails, ReadTable, Resting, Asking
<1>5. CASE AfterTasks(a)
  <2>1. PICK l \in {"returned", "metadata", "table", "finish"} :
          /\ pc' = [pc EXCEPT ![a] = l]
          /\ l = "returned" <=> stopped
    BY <1>5 DEF AfterTasks, TableOrFinish
  <2>2. pc[a] = "unlocked"
    BY <1>5 DEF AfterTasks
  <2>3. EntryOK(a, status[a], tasks[a], l, FALSE, aborted, stopped)
    BY <1>0, <1>t, <1>x, <2>1, <2>2 DEF EntryOK, Resting, Asking
  <2> QED
    BY <1>1, <1>5, <2>1, <2>2, <2>3 DEF AfterTasks, Resting, Asking
<1>6. CASE StartTask(a)
  <2> DEFINE q == Append(tasks[a], "RUNNING")
  <2>1. /\ Len(q) = Len(tasks[a]) + 1 /\ DOMAIN q = 1..(Len(tasks[a]) + 1)
        /\ q[Len(tasks[a]) + 1] = "RUNNING"
        /\ \A i \in DOMAIN tasks[a] : q[i] = tasks[a][i]
        /\ q # <<>>
    BY <1>t
  <2>2. pc[a] = "loop" /\ status[a] = "RUNNING" /\ Len(tasks[a]) < Len(Tasks[a])
        /\ tasks'[a] = q /\ pc'[a] = "queued" /\ status' = status
    BY <1>0, <1>6 DEF StartTask, TypeOK
  <2>3. \A i \in DOMAIN q : i \in DOMAIN tasks[a] \/ i = Len(q)
    BY <1>t, <2>1
  <2> HIDE DEF q
  <2>4. EntryOK(a, "RUNNING", q, "queued", FALSE, aborted, stopped)
    BY <1>0, <1>t, <1>x, <2>1, <2>2, <2>3 DEF EntryOK, Resting, Asking
  <2> QED
    BY <1>0, <1>6, <2>2, <2>4 DEF Advance, StartTask, TypeOK, Resting
<1>7. CASE LeaveLoop(a)
  <2>1. pc[a] = "loop" /\ pc' = [pc EXCEPT ![a] = "unlocked"] /\ status' = status
    BY <1>7 DEF LeaveLoop
  <2>2. CASE stopped /\ UNCHANGED tasks
    <3>1. EntryOK(a, status[a], tasks[a], "unlocked", FALSE, aborted, stopped)
      BY <1>0, <1>x, <2>1, <2>2 DEF EntryOK, Resting, Asking
    <3> QED
      BY <1>1, <1>7, <2>1, <2>2, <3>1 DEF LeaveLoop, Resting, Asking
  <2>3. CASE ~stopped /\ (cancelled \/ status[a] # "RUNNING" \/ Len(tasks[a]) = Len(Tasks[a]))
    <3> DEFINE q == [i \in 1..Len(Tasks[a]) |-> IF i \in DOMAIN tasks[a] THEN tasks[a][i] ELSE "SKIPPED"]
    <3>1. tasks' = [tasks EXCEPT ![a] = q]
      BY <1>7, <2>3, <1>0 DEF LeaveLoop, TypeOK
    <3>2. DOMAIN q = 1..Len(Tasks[a]) /\ Len(q) = Len(Tasks[a])
      BY <1>t
    <3>3. \A i \in DOMAIN q : IF i \in DOMAIN tasks[a] THEN q[i] = tasks[a][i] ELSE q[i] = "SKIPPED"
      OBVIOUS
    <3> HIDE DEF q
    <3>4. \A i \in DOMAIN q : q[i] # "RUNNING"
      BY <1>0, <2>1, <3>3 DEF EntryOK, Asking
    <3>5. ~aborted /\ status[a] \in {"RUNNING", "SUCCESSFUL"} => \A i \in DOMAIN q : q[i] \in {"SUCCESSFUL", "RUNNING"}
      <4> SUFFICES ASSUME ~aborted, status[a] \in {"RUNNING", "SUCCESSFUL"}, NEW i \in DOMAIN q
                   PROVE  q[i] \in {"SUCCESSFUL", "RUNNING"}
        OBVIOUS
      <4>1. status[a] = "RUNNING"
        BY <1>0, <2>1 DEF EntryOK, Resting
      <4>2. Len(tasks[a]) = Len(Tasks[a])
        BY <1>0, <2>3, <4>1
      <4>3. i \in DOMAIN tasks[a]
        BY <1>t, <3>2, <4>2
      <4> QED
        BY <1>0, <3>3, <4>3 DEF EntryOK
    <3>6. EntryOK(a, status[a], q, "unlocked", FALSE, aborted, stopped)
      BY <1>0, <1>t, <2>1, <3>2, <3>4, <3>5 DEF EntryOK, Resting, Asking
    <3> QED
      BY <1>0, <1>7, <2>1, <3>1, <3>6 DEF Advance, LeaveLoop, TypeOK, Resting
  <2> QED
    BY <1>7, <2>2, <2>3 DEF LeaveLoop
<1>8. CASE QueryStarts(a) \/ QueryRetries(a)
  <2>1. PICK l \in Asking : pc' = [pc EXCEPT ![a] = l]
    BY <1>8 DEF QueryStarts, QueryRetries, Asking
  <2>2. pc[a] \in Asking /\ UNCHANGED <<runVars, graphVars, resultVars, flagVars>>
    BY <1>8 DEF QueryStarts, QueryRetries, Asking
  <2>3. EntryOK(a, status[a], tasks[a], l, FALSE, aborted, stopped)
    BY <1>0, <1>x, <2>2 DEF EntryOK, Resting, Asking
  <2> QED
    BY <1>0, <2>1, <2>2, <2>3 DEF Advance, TypeOK, Resting, Asking
<1>9. CASE QuerySucceeds(a) \/ QueryFails(a)
  <2>1. PICK st \in {"SUCCESSFUL", "FAILED", "CANCELLED"} :
          EndTask(a, st) /\ (st = "CANCELLED" => aborted)
    BY <1>0, <1>9 DEF QuerySucceeds, QueryFails, FailureStatus
  <2>2. pc[a] \in Asking /\ UNCHANGED <<runVars, graphVars, extra, flagVars>>
    BY <1>9 DEF QuerySucceeds, QueryFails, Asking
  <2>3. status[a] = "RUNNING"
    BY <1>0, <2>2 DEF QueriesOfRunning, Asking
  <2> DEFINE q == [tasks[a] EXCEPT ![Len(tasks[a])] = st]
             s == IF st = "SUCCESSFUL" THEN status[a] ELSE st
  <2>4. /\ tasks' = [tasks EXCEPT ![a] = q]
        /\ status' = [status EXCEPT ![a] = s]
        /\ pc' = [pc EXCEPT ![a] = "loop"]
    BY <2>1 DEF EndTask
  <2>5. DOMAIN q = DOMAIN tasks[a] /\ Len(q) = Len(tasks[a])
    BY <1>t
  <2>6. \A i \in DOMAIN q : IF i = Len(tasks[a]) THEN q[i] = st ELSE q[i] = tasks[a][i]
    OBVIOUS
  <2>7. s \in {"RUNNING", "FAILED", "CANCELLED"} /\ (s = "RUNNING" => st = "SUCCESSFUL")
        /\ (s = "CANCELLED" => aborted)
    BY <2>1, <2>3
  <2> HIDE DEF q, s
  <2>8. \A i \in DOMAIN q : q[i] # "RUNNING"
    BY <1>0, <2>2, <2>5, <2>6 DEF EntryOK
  <2>9. EntryOK(a, s, q, "loop", FALSE, aborted, stopped)
    BY <1>0, <1>t, <2>2, <2>3, <2>5, <2>6, <2>7, <2>8 DEF EntryOK, Resting, Asking
  <2> QED
    BY <1>0, <2>2, <2>3, <2>4, <2>7, <2>9 DEF Advance, TypeOK, Resting, Asking
<1>10. CASE Finish(a)
  <2> DEFINE s == IF status[a] = "RUNNING" THEN "SUCCESSFUL" ELSE status[a]
  <2>1. /\ pc[a] = "finish" /\ pc' = [pc EXCEPT ![a] = "returned"]
        /\ status' = [status EXCEPT ![a] = s]
        /\ UNCHANGED <<runVars, graphVars, tasks, extra, flagVars>>
    BY <1>10 DEF Finish
  <2>2. EntryOK(a, s, tasks[a], "returned", FALSE, aborted, stopped)
    BY <1>0, <1>t, <1>x, <2>1 DEF EntryOK, Resting, Asking
  <2> HIDE DEF s
  <2>3. status'[a] = s /\ pc'[a] = "returned"
    BY <1>0, <2>1 DEF TypeOK
  <2> QED
    BY <1>0, <2>1, <2>2, <2>3 DEF Advance, TypeOK, Resting, s
<1> QED
  BY <1>2, <1>3, <1>4, <1>5, <1>6, <1>7, <1>8, <1>9, <1>10 DEF Step, Continue

(* Passes while the run goes on find pending actions that have no entry.   *)
LEMMA PassSweeps ==
  ASSUME ResultsInv, NEW E, NEW S, NEW p \in [Actions -> ActionPcs],
         Pass(E, S, p), executed' = E, succeeded' = S,
         UNCHANGED <<runStatus, existing, attempt, tries, flagVars>>,
         \A a \in Actions : p[a] \in Asking => pc[a] = p[a],
         AllSchemasExist, runPc # "resolved", runPc' # "resolved",
         \A a \in Actions : IF status[a] = "NONE" THEN p[a] = "idle"
              ELSE EntryOK(a, status[a], tasks[a], p[a], a \in extra, aborted, stopped),
         S \subseteq Actions, \A d \in S : Successful(d),
         \A d \in Actions : Successful(d) /\ p[d] \in {"idle", "joined"} => d \in S,
         E \subseteq Actions,
         \A d \in E : /\ p[d] \in {"idle", "joined"} /\ status[d] # "NONE"
                      /\ d \in S \/ stopped \/ (~Successful(d) /\ status[d] \in Settled)
  PROVE  Sweep(pending, E, S, p, stopped, cancelled)
<1>1. /\ TypeOK /\ PendingFresh /\ ExtraHasEntry
      /\ cancelled => aborted
      /\ runStatus = "RUNNING"
      /\ \A a \in Actions : status[a] = "NONE" => a \in pending
      /\ Entries
  BY DEF ResultsInv, DepsInv, Flags, VerdictLast, NothingForgotten
<1>2. \A a \in Actions : Passed(a, pending, E, S, p, stopped, cancelled)
  BY <1>1, PassPassed
<1>3. \A a \in pending : a \in Actions /\ status[a] = "NONE" /\ a \notin extra
  BY <1>1 DEF TypeOK, PendingFresh
<1>4. \A a \in pending : EntryOK(a, status[a], tasks[a], "idle", FALSE, aborted, TRUE)
  <2> SUFFICES ASSUME NEW a \in pending
               PROVE  EntryOK(a, status[a], tasks[a], "idle", FALSE, aborted, TRUE)
    OBVIOUS
  <2>1. EntryOK(a, status[a], tasks[a], pc[a], a \in extra, aborted, stopped)
    BY <1>1, <1>3 DEF Entries
  <2> QED
    BY <1>3, <2>1 DEF EntryOK, Resting, Asking
<1>5. E \subseteq Actions \ pending
  BY <1>3
<1> QED
  BY <1>1, <1>2, <1>3, <1>4, <1>5 DEF Sweep, flagVars

LEMMA JoinSweeps ==
  ASSUME ResultsInv, NEW a \in Actions, Join(a)
  PROVE  \E P, E, S, p : Sweep(P, E, S, p, stopped, cancelled) /\ runPc' = runPc
<1> DEFINE p == [pc EXCEPT ![a] = "joined"]
<1>1. /\ pc[a] = "returned"
      /\ executed' = executed \cup {a}
      /\ succeeded' = IF Successful(a) THEN succeeded \cup {a} ELSE succeeded
      /\ Pass(executed', succeeded', p)
      /\ UNCHANGED <<runPc, runStatus, existing, attempt, tries, flagVars>>
  BY DEF Join, At, runVars, queryVars
<1>2. /\ TypeOK /\ SucceededTrue /\ Entries /\ VerdictLast /\ ExecutedEnded
      /\ NothingForgotten /\ SchemasFirst /\ ExtraHasEntry
  BY DEF ResultsInv, DepsInv
<1>3. EntryOK(a, status[a], tasks[a], "returned", a \in extra, aborted, stopped)
  BY <1>1, <1>2 DEF Entries
<1>4. status[a] # "NONE" /\ AllSchemasExist /\ runPc # "resolved"
  BY <1>1, <1>2, <1>3 DEF EntryOK, SchemasFirst, VerdictLast
<1>5. /\ p \in [Actions -> ActionPcs] /\ p[a] = "joined"
      /\ \A n \in Actions \ {a} : p[n] = pc[n]
  BY <1>2 DEF TypeOK
<1>6. EntryOK(a, status[a], tasks[a], "joined", a \in extra, aborted, stopped)
  BY <1>3 DEF EntryOK, Resting, Asking
<1> HIDE DEF p
<1>7. \A n \in Actions : IF status[n] = "NONE" THEN p[n] = "idle"
        ELSE EntryOK(n, status[n], tasks[n], p[n], n \in extra, aborted, stopped)
  <2> SUFFICES ASSUME NEW n \in Actions \ {a}
               PROVE  IF status[n] = "NONE" THEN p[n] = "idle"
                      ELSE EntryOK(n, status[n], tasks[n], p[n], n \in extra, aborted, stopped)
    BY <1>4, <1>5, <1>6
  <2>1. EntryOK(n, status[n], tasks[n], pc[n], n \in extra, aborted, stopped)
    BY <1>2 DEF Entries
  <2>2. status[n] = "NONE" => pc[n] = "idle"
    BY <2>1 DEF EntryOK
  <2> QED
    BY <1>5, <2>1, <2>2
<1>8. succeeded' \subseteq Actions /\ \A d \in succeeded' : Successful(d)
  BY <1>1, <1>2 DEF TypeOK, SucceededTrue
<1>9. \A d \in Actions : Successful(d) /\ p[d] \in {"idle", "joined"} => d \in succeeded'
  BY <1>1, <1>2, <1>5 DEF NothingForgotten
<1>10. a \in succeeded' \/ stopped \/ (~Successful(a) /\ status[a] \in Settled)
  <2>1. status[a] \in Statuses
    BY <1>2 DEF TypeOK
  <2>2. Successful(a) \/ stopped \/ status[a] \in Settled
    BY <1>3, <1>4, <2>1 DEF EntryOK, Resting, Successful
  <2> QED
    BY <1>1, <2>2
<1>11. \A d \in executed' :
         /\ d \in Actions
         /\ p[d] \in {"idle", "joined"} /\ status[d] # "NONE"
         /\ d \in succeeded' \/ stopped \/ (~Successful(d) /\ status[d] \in Settled)
  BY <1>1, <1>2, <1>4, <1>5, <1>10 DEF ExecutedEnded, TypeOK
<1>12. \A n \in Actions : p[n] \in Asking => pc[n] = p[n]
  BY <1>5 DEF Asking
<1>13. Sweep(pending, executed', succeeded', p, stopped, cancelled)
  BY <1>1, <1>4, <1>5, <1>7, <1>8, <1>9, <1>11, <1>12, PassSweeps
<1> QED
  BY <1>1, <1>13

LEMMA SchemasReadySweeps ==
  ASSUME ResultsInv, SchemasReady
  PROVE  \E P, E, S, p : Sweep(P, E, S, p, stopped, cancelled) /\ runPc' = "running"
<1>1. /\ runPc = "schemas" /\ runPc' = "running" /\ AllSchemasExist
      /\ executed' = executed /\ succeeded' = succeeded
      /\ Pass(executed, succeeded, pc)
      /\ UNCHANGED <<runStatus, existing, attempt, tries, flagVars>>
  BY DEF SchemasReady, queryVars
<1>2. /\ TypeOK /\ SucceededTrue /\ Entries /\ ExecutedEnded /\ NothingForgotten
  BY DEF ResultsInv, DepsInv
<1>3. \A n \in Actions : IF status[n] = "NONE" THEN pc[n] = "idle"
        ELSE EntryOK(n, status[n], tasks[n], pc[n], n \in extra, aborted, stopped)
  BY <1>2 DEF Entries, EntryOK
<1>4. Sweep(pending, executed, succeeded, pc, stopped, cancelled)
  BY <1>1, <1>2, <1>3, PassSweeps DEF TypeOK, SucceededTrue, ExecutedEnded, NothingForgotten
<1> QED
  BY <1>1, <1>4

LEMMA ResumeSweeps ==
  ASSUME ResultsInv, Resume
  PROVE  \/ \E P, E, S, p : Sweep(P, E, S, p, FALSE, FALSE) /\ runPc' = "running"
         \/ Restart
<1> DEFINE good  == {a \in Actions : Successful(a)}
           fresh == [a \in Actions |-> "idle"]
<1>1. /\ runPc = "resolved" /\ runStatus = "RUNNING"
      /\ executed' = Done /\ succeeded' = good
      /\ stopped' = FALSE /\ ~cancelled' /\ ~timedOut'
      /\ UNCHANGED <<runStatus, existing, attempt, tries, aborted>>
      /\ IF NoResults
         THEN /\ runPc' = "schemas" /\ pending' = Actions /\ pc' = fresh
              /\ UNCHANGED resultVars
         ELSE /\ runPc' = "running"
              /\ StartReady(Actions \ Done, Done, good, fresh)
  BY DEF Resume, queryVars
<1>2. /\ TypeOK /\ Entries /\ VerdictLast /\ SchemasFirst /\ ExtraHasEntry /\ DependenciesFirst
  BY DEF ResultsInv, DepsInv
<1>3. AllSchemasExist /\ \A a \in Actions : pc[a] \in {"idle", "joined"}
  BY <1>1, <1>2 DEF SchemasFirst, VerdictLast
<1>4. /\ fresh \in [Actions -> ActionPcs] /\ \A a \in Actions : fresh[a] = "idle"
      /\ good \subseteq Actions /\ \A a \in Actions : a \in good <=> Successful(a)
      /\ Done \subseteq Actions
  BY <1>2 DEF Done, TypeOK
<1> HIDE DEF good, fresh
<1>5. CASE NoResults
  <2>1. \A a \in Actions : status[a] = "NONE" /\ a \notin extra
    BY <1>2, <1>5 DEF NoResults, ExtraHasEntry
  <2>2. Done = {} /\ good = {}
    BY <1>2, <1>4, <2>1 DEF Done, Successful, TypeOK
  <2>3. \A a \in Actions : status[a] = "NONE" /\ pc'[a] = "idle"
    BY <1>1, <1>4, <1>5, <2>1
  <2>4. pending' = Actions /\ executed' = {} /\ succeeded' = {}
    BY <1>1, <1>5, <2>2
  <2> QED
    BY <1>1, <1>3, <1>5, <2>3, <2>4 DEF Restart
<1>6. CASE ~NoResults
  <2> DEFINE P == Actions \ Done
  <2>1. StartReady(P, Done, good, fresh) /\ runPc' = "running"
    BY <1>1, <1>6
  <2>2. \A a \in P : a \in Actions /\ a \notin extra /\ status[a] \in {"NONE", "RUNNING"}
    BY <1>2 DEF Done, TypeOK
  <2>3. \A a \in P : status[a] = "NONE" \/ (status[a] = "RUNNING" /\ Executable(a, good))
    <3> SUFFICES ASSUME NEW a \in P, status[a] = "RUNNING" PROVE Executable(a, good)
      BY <2>2
    <3>1. a \in Actions /\ \A d \in Known(a) : Successful(d) /\ d \in Actions
      BY <1>2, <2>2 DEF DependenciesFirst, Known
    <3> QED
      BY <1>4, <3>1 DEF Executable
  <2>4. \A a \in P : EntryOK(a, status[a], tasks[a], "idle", FALSE, aborted, TRUE)
    <3> SUFFICES ASSUME NEW a \in P
                 PROVE  EntryOK(a, status[a], tasks[a], "idle", FALSE, aborted, TRUE)
      OBVIOUS
    <3>1. /\ EntryOK(a, status[a], tasks[a], pc[a], a \in extra, aborted, stopped)
          /\ pc[a] \in {"idle", "joined"}
      BY <1>2, <1>3, <2>2 DEF Entries
    <3> QED
      BY <2>2, <3>1 DEF EntryOK, Resting, Asking
  <2>5. \A a \in Done : EntryOK(a, status[a], tasks[a], "idle", a \in extra, aborted, FALSE)
    <3> SUFFICES ASSUME NEW a \in Done
                 PROVE  EntryOK(a, status[a], tasks[a], "idle", a \in extra, aborted, FALSE)
      OBVIOUS
    <3>1. /\ EntryOK(a, status[a], tasks[a], pc[a], a \in extra, aborted, stopped)
          /\ pc[a] \in {"idle", "joined"} /\ a \in Actions
      BY <1>2, <1>3, <1>4 DEF Entries
    <3>2. status[a] \in Settled \/ a \in extra
      BY DEF Done
    <3> QED
      BY <3>1, <3>2 DEF EntryOK, Resting, Asking
  <2>6. \A a \in Actions : Passed(a, P, Done, good, fresh, FALSE, FALSE)
    BY <1>2, <1>4, <2>1, StartReadyPassed
  <2>7. \A d \in Done : /\ status[d] # "NONE"
                        /\ d \in good \/ (~Successful(d) /\ status[d] \in Settled)
    BY <1>2, <1>4 DEF Done, ExtraHasEntry, Successful
  <2>8. \A a \in Actions : status[a] = "NONE" => a \in P
    BY <2>7
  <2>9. \A a \in Actions \ P : a \in Done
    OBVIOUS
  <2>10. P \subseteq Actions /\ Done \subseteq Actions \ P
    BY <1>4
  <2> HIDE DEF P
  <2>11. Sweep(P, Done, good, fresh, FALSE, FALSE)
    BY <1>1, <1>3, <1>4, <2>1, <2>2, <2>3, <2>4, <2>5, <2>6, <2>7, <2>8, <2>9, <2>10
       DEF Sweep, Asking
  <2> QED
    BY <2>1, <2>11
<1> QED
  BY <1>5, <1>6
-----------------------------------------------------------------------------
(* What each shape of step does to the invariant.                          *)

(* A result that says how an action ended is not overwritten.              *)
SettledKept ==
  \A a \in Actions : status[a] \in Settled =>
    /\ status'[a] = status[a] /\ SameExtra(a)
    /\ pc[a] \in Resting => tasks'[a] = tasks[a]

LEMMA AdvanceKeeps ==
  ASSUME ResultsInv, DepsInv', NEW a \in Actions, Advance(a)
  PROVE  /\ Entries' /\ SettledKept /\ VerdictLast' /\ ExecutedEnded'
         /\ NothingForgotten' /\ PassedOver'
<1> USE DEF Advance, runVars, graphVars, flagVars
<1>1. /\ TypeOK /\ Entries /\ VerdictLast /\ ExecutedEnded
      /\ NothingForgotten /\ PassedOver
      /\ UNCHANGED <<runPc, runStatus, pending, executed, succeeded, extra, stopped, aborted>>
  BY DEF ResultsInv, DepsInv
<1>2. EntryOK(a, status[a], tasks[a], pc[a], a \in extra, aborted, stopped)
  BY <1>1 DEF Entries
<1>3. a \notin extra /\ status[a] # "NONE" /\ status[a] \in Statuses
      /\ status[a] \notin Successes
  BY <1>1, <1>2 DEF EntryOK, Resting, TypeOK
<1>4. Entries'
  <2> SUFFICES ASSUME NEW n \in Actions
               PROVE  EntryOK(n, status'[n], tasks'[n], pc'[n], n \in extra, aborted, stopped)
    BY <1>1 DEF Entries
  <2>1. CASE n = a
    BY <1>3, <2>1 DEF EntryOK
  <2>2. CASE n # a
    BY <1>1, <2>2 DEF Entries
  <2> QED
    BY <2>1, <2>2
<1>5. SettledKept
  BY <1>1 DEF SettledKept, SameExtra
<1>6. VerdictLast'
  <2>1. runPc # "resolved"
    BY <1>1 DEF VerdictLast, Resting
  <2> QED
    BY <1>1, <2>1 DEF VerdictLast
<1>7. ExecutedEnded'
  <2> SUFFICES ASSUME NEW d \in executed
               PROVE  /\ pc'[d] \in {"idle", "joined"} /\ status'[d] # "NONE"
                      /\ \/ d \in succeeded \/ stopped
                         \/ ~(d \in extra \/ status'[d] \in Successes) /\ status'[d] \in Settled
    BY <1>1 DEF ExecutedEnded, Successful
  <2>1. d # a /\ d \in Actions
    BY <1>1 DEF ExecutedEnded, Resting, TypeOK
  <2>2. pc'[d] = pc[d] /\ status'[d] = status[d]
    BY <2>1
  <2> QED
    BY <1>1, <2>2 DEF ExecutedEnded, Successful
<1>8. NothingForgotten'
  <2> SUFFICES ASSUME NEW n \in Actions
               PROVE  /\ status'[n] = "NONE" => n \in pending
                      /\ (n \in extra \/ status'[n] \in Successes) /\ pc'[n] \in {"idle", "joined"}
                           => n \in succeeded
    BY <1>1 DEF NothingForgotten, Successful
  <2>1. CASE n = a
    BY <1>3, <2>1
  <2>2. CASE n # a
    BY <1>1, <2>2 DEF NothingForgotten, Successful
  <2> QED
    BY <2>1, <2>2
<1>9. PassedOver'
  BY <1>1 DEF PassedOver, Executable, Known
<1> QED
  BY <1>4, <1>5, <1>6, <1>7, <1>8, <1>9

LEMMA SweepEntry ==
  ASSUME NEW P, NEW E, NEW S, NEW p, NEW sp \in BOOLEAN, NEW cn \in BOOLEAN,
         Sweep(P, E, S, p, sp, cn), NEW a \in Actions, TypeOK
  PROVE  /\ EntryOK(a, status'[a], tasks'[a], pc'[a], a \in extra', aborted, sp)
         /\ status[a] \in Settled => status'[a] = status[a] /\ SameExtra(a) /\ tasks'[a] = tasks[a]
<1> USE DEF Sweep
<1>1. Passed(a, P, E, S, p, sp, cn) /\ status[a] \in Statuses
  BY DEF TypeOK
<1>2. CASE a \notin P
  BY <1>1, <1>2 DEF Passed, Kept, SameExtra
<1>3. CASE a \in P
  <2>1. /\ a \notin extra /\ p[a] = "idle"
        /\ EntryOK(a, status[a], tasks[a], "idle", FALSE, aborted, TRUE)
        /\ \/ status[a] = "NONE"
           \/ ~sp /\ ~cn /\ status[a] = "RUNNING" /\ Executable(a, S)
    BY <1>3
  <2>2. Len(Tasks[a]) \in Nat /\ tasks[a] \in Seq(TaskStatuses) /\ Len(<<>>) = 0
    BY GraphAssumption DEF TypeOK
  <2>3. CASE Kept(a, P, S, p, sp)
    <3>1. status[a] = "NONE"
      BY <1>3, <2>1, <2>3 DEF Kept
    <3> QED
      BY <2>1, <2>3, <3>1 DEF Kept, SameExtra, EntryOK, Resting, Asking
  <2>4. CASE Skipped(a, E, S, p, sp, cn)
    <3>1. status[a] = "NONE"
      BY <2>1, <2>4 DEF Skipped, Skippable
    <3>2. LET q == AllSkipped(a)
          IN  DOMAIN q = 1..Len(Tasks[a]) /\ Len(q) = Len(Tasks[a])
              /\ \A i \in DOMAIN q : q[i] = "SKIPPED"
      BY <2>2 DEF AllSkipped
    <3>3. EntryOK(a, "SKIPPED", AllSkipped(a), "idle", FALSE, aborted, sp)
      BY <2>2, <3>2 DEF EntryOK, Resting, Asking
    <3> QED
      BY <2>1, <2>4, <3>1, <3>3 DEF Skipped, SameExtra, EntryOK
  <2>5. CASE Disabled(a, S) \/ Hit(a, S) \/ Started(a, S)
    <3>1. tasks'[a] = tasks[a] /\ \A i \in DOMAIN tasks[a] : tasks[a][i] # "RUNNING"
      BY <2>1, <2>5 DEF Disabled, Hit, Started, EntryOK, Asking
    <3>2. CASE Disabled(a, S)
      BY <2>1, <2>2, <3>1, <3>2 DEF Disabled, SameExtra, EntryOK, Resting, Asking
    <3>3. CASE Hit(a, S)
      BY <2>1, <2>2, <3>1, <3>3 DEF Hit, SameExtra, EntryOK, Resting, Asking
    <3>4. CASE Started(a, S)
      BY <2>1, <2>2, <3>1, <3>4 DEF Started, SameExtra, EntryOK, Resting, Asking
    <3> QED
      BY <2>5, <3>2, <3>3, <3>4
  <2> QED
    BY <1>1, <2>3, <2>4, <2>5 DEF Passed
<1> QED
  BY <1>2, <1>3

LEMMA SweepKeeps ==
  ASSUME ResultsInv, DepsInv', NEW P, NEW E, NEW S, NEW p,
         NEW sp \in BOOLEAN, NEW cn \in BOOLEAN, Sweep(P, E, S, p, sp, cn)
  PROVE  /\ Entries' /\ SettledKept /\ VerdictLast' /\ ExecutedEnded'
         /\ NothingForgotten' /\ PassedOver'
<1>1. TypeOK
  BY DEF ResultsInv, DepsInv
<1>2. \A a \in Actions :
         /\ EntryOK(a, status'[a], tasks'[a], pc'[a], a \in extra', aborted, sp)
         /\ status[a] \in Settled => status'[a] = status[a] /\ SameExtra(a) /\ tasks'[a] = tasks[a]
  BY <1>1, SweepEntry
<1> USE DEF Sweep
<1>3. \A a \in Actions : Passed(a, P, E, S, p, sp, cn)
  OBVIOUS
<1>4. Entries'
  BY <1>2 DEF Entries
<1>5. SettledKept
  BY <1>2 DEF SettledKept
<1>6. VerdictLast'
  BY DEF VerdictLast
<1>7. ExecutedEnded'
  <2> SUFFICES ASSUME NEW d \in E
               PROVE  /\ pc'[d] \in {"idle", "joined"} /\ status'[d] # "NONE"
                      /\ \/ d \in S \/ sp
                         \/ ~(d \in extra' \/ status'[d] \in Successes) /\ status'[d] \in Settled
    BY DEF ExecutedEnded, Successful
  <2>1. Kept(d, P, S, p, sp) /\ d \in Actions
    BY <1>3 DEF Passed
  <2> QED
    BY <2>1 DEF Kept, SameExtra, Successful
<1>8. NothingForgotten'
  <2> SUFFICES ASSUME NEW n \in Actions
               PROVE  /\ status'[n] = "NONE" => n \in pending'
                      /\ (n \in extra' \/ status'[n] \in Successes) /\ pc'[n] \in {"idle", "joined"}
                           => n \in S
    BY DEF NothingForgotten, Successful
  <2>1. CASE Kept(n, P, S, p, sp)
    BY <2>1 DEF Kept, SameExtra, Successful
  <2>2. CASE n \in P /\ Skipped(n, E, S, p, sp, cn)
    BY <2>2 DEF Skipped, SameExtra
  <2>3. CASE n \in P /\ (Disabled(n, S) \/ Hit(n, S) \/ Started(n, S))
    BY <2>3 DEF Disabled, Hit, Started
  <2> QED
    BY <1>3, <2>1, <2>2, <2>3 DEF Passed
<1>9. PassedOver'
  <2> SUFFICES ASSUME ~sp, NEW a \in pending' PROVE ~Executable(a, S)
    BY DEF PassedOver, Executable, Known
  <2>1. a \in Actions
    BY DEF DepsInv, TypeOK
  <2>2. Kept(a, P, S, p, sp)
    BY <1>3, <2>1 DEF Passed
  <2> QED
    BY <2>2 DEF Kept
<1> QED
  BY <1>4, <1>5, <1>6, <1>7, <1>8, <1>9

LEMMA RestartKeeps ==
  ASSUME ResultsInv, DepsInv', Restart
  PROVE  /\ Entries' /\ SettledKept /\ VerdictLast' /\ ExecutedEnded'
         /\ NothingForgotten' /\ PassedOver'
<1> USE DEF Restart, resultVars
<1>1. /\ TypeOK /\ Entries /\ ExtraHasEntry
  BY DEF ResultsInv, DepsInv
<1>2. \A a \in Actions : ~Successful(a)'
  BY <1>1 DEF Successful, ExtraHasEntry, TypeOK
<1>3. Entries'
  <2> SUFFICES ASSUME NEW n \in Actions
               PROVE  EntryOK(n, status[n], tasks[n], "idle", n \in extra, aborted, stopped')
    BY DEF Entries
  <2>1. EntryOK(n, status[n], tasks[n], pc[n], n \in extra, aborted, stopped)
    BY <1>1 DEF Entries
  <2>2. status[n] = "NONE"
    OBVIOUS
  <2> QED
    BY <1>1, <2>1, <2>2 DEF EntryOK, Resting, Asking, ExtraHasEntry
<1>4. SettledKept
  BY DEF SettledKept
<1> QED
  BY <1>2, <1>3, <1>4 DEF VerdictLast, ExecutedEnded, NothingForgotten, PassedOver

LEMMA QuietKeeps ==
  ASSUME ResultsInv, DepsInv', Quiet, runPc' = runPc \/ runPc' = "rejected",
         UNCHANGED runStatus, aborted => aborted', stopped => stopped',
         stopped' = stopped \/ runPc # "resolved", runPc = "resolved" => runPc' = runPc
  PROVE  /\ Entries' /\ SettledKept /\ VerdictLast' /\ ExecutedEnded'
         /\ NothingForgotten' /\ PassedOver'
<1> USE DEF Quiet, graphVars, resultVars
<1>1. /\ Entries /\ VerdictLast /\ ExecutedEnded /\ NothingForgotten /\ PassedOver
  BY DEF ResultsInv
<1>2. \A a : Successful(a)' <=> Successful(a)
  BY DEF Successful
<1>3. Entries'
  <2> SUFFICES ASSUME NEW n \in Actions
               PROVE  EntryOK(n, status[n], tasks[n], pc[n], n \in extra, aborted', stopped')
    BY DEF Entries
  <2>1. EntryOK(n, status[n], tasks[n], pc[n], n \in extra, aborted, stopped)
    BY <1>1 DEF Entries
  <2> QED
    BY <2>1 DEF EntryOK
<1>4. SettledKept
  BY DEF SettledKept, SameExtra
<1>5. ExecutedEnded'
  BY <1>1, <1>2 DEF ExecutedEnded
<1>6. NothingForgotten'
  BY <1>1, <1>2 DEF NothingForgotten
<1>7. VerdictLast'
  BY <1>1 DEF VerdictLast
<1>8. PassedOver'
  BY <1>1 DEF PassedOver, Executable, Known
<1> QED
  BY <1>3, <1>4, <1>5, <1>6, <1>7, <1>8

(* What all steps keep.                                                    *)
LEMMA StepKeeps ==
  ASSUME ResultsInv, [Next]_vars
  PROVE  /\ DepsInv'
         /\ Entries' /\ SettledKept /\ VerdictLast' /\ ExecutedEnded'
         /\ NothingForgotten' /\ PassedOver'
<1> USE DEF runVars, graphVars, resultVars, queryVars, flagVars
<1>0. DepsInv /\ DepsInv' /\ TypeOK /\ stopped \in BOOLEAN /\ cancelled \in BOOLEAN
  BY NextDeps DEF ResultsInv, DepsInv, TypeOK
<1>1. CASE SchemasReady
  BY <1>0, <1>1, SchemasReadySweeps, SweepKeeps
<1>2. CASE \/ SchemasFail \/ RejectRun \/ Cancel \/ TimerFires \/ Stop
           \/ \E s \in Schemas : CreateSchema(s)
           \/ UNCHANGED vars
  <2>1. /\ Quiet /\ UNCHANGED runStatus
        /\ runPc' = runPc \/ (runPc' = "rejected" /\ runPc # "resolved")
    BY <1>2 DEF Quiet, SchemasFail, RejectRun, Cancel, TimerFires, Stop, DoCancel,
                CreateSchema, vars
  <2>2. /\ stopped' = stopped \/ (stopped' = TRUE /\ runPc # "resolved")
        /\ aborted' = aborted \/ aborted' = TRUE
    BY <1>2 DEF SchemasFail, RejectRun, Cancel, TimerFires, Stop, DoCancel, CreateSchema, vars
  <2>3. (stopped => stopped') /\ (aborted => aborted')
    BY <2>2
  <2> QED
    BY <1>0, <2>1, <2>2, <2>3, QuietKeeps
<1>3. ASSUME NEW a \in Actions, Step(a)
      PROVE  /\ Entries' /\ SettledKept /\ VerdictLast' /\ ExecutedEnded'
             /\ NothingForgotten' /\ PassedOver'
  <2>1. CASE Join(a)
    BY <1>0, <2>1, JoinSweeps, SweepKeeps
  <2>2. CASE ~Join(a)
    <3>1. Advance(a)
      BY <1>3, <2>2, StepAdvances
    <3> QED
      BY <1>0, <3>1, AdvanceKeeps
  <2> QED
    BY <2>1, <2>2
<1>4. CASE FinishRun
  <2>1. /\ Quiet /\ UNCHANGED <<stopped, aborted>>
        /\ \A a \in Actions : pc[a] \in {"idle", "joined"}
        /\ runPc = "running" /\ runPc' = "resolved"
        /\ runStatus' = FinalStatus
    BY <1>4 DEF FinishRun, Quiet
  <2>2. /\ Entries /\ VerdictLast /\ ExecutedEnded /\ NothingForgotten
    BY DEF ResultsInv
  <2>3. \A a : Successful(a)' <=> Successful(a)
    BY <2>1 DEF Successful, Quiet
  <2>4. Entries' /\ SettledKept
    BY <2>1, <2>2 DEF Entries, SettledKept, SameExtra, Quiet
  <2>5. VerdictLast'
    BY <2>1, <2>2 DEF VerdictLast, FinalStatus, Quiet
  <2>6. ExecutedEnded' /\ NothingForgotten'
    BY <2>1, <2>2, <2>3 DEF ExecutedEnded, NothingForgotten, Quiet
  <2>7. PassedOver'
    BY <2>1 DEF PassedOver
  <2> QED
    BY <1>0, <2>4, <2>5, <2>6, <2>7
<1>5. CASE Resume
  BY <1>0, <1>5, ResumeSweeps, SweepKeeps, RestartKeeps
<1> QED
  BY <1>0, <1>1, <1>2, <1>3, <1>4, <1>5 DEF Next

LEMMA NextFlags == ResultsInv /\ [Next]_vars => Flags' /\ (aborted => aborted')
<1> SUFFICES ASSUME ResultsInv, [Next]_vars PROVE Flags' /\ (aborted => aborted')
  OBVIOUS
<1>1. Flags
  BY DEF ResultsInv
<1>2. CASE Cancel \/ TimerFires
  BY <1>2 DEF Cancel, TimerFires, DoCancel, Flags
<1>3. CASE Resume
  BY <1>1, <1>3 DEF Resume, Flags
<1>4. CASE ~(Cancel \/ TimerFires \/ Resume)
  <2>1. UNCHANGED <<cancelled, timedOut, aborted>>
    BY <1>4 DEF Next, Step, Continue, vars, flagVars, CreateSchema, SchemasReady, SchemasFail,
                AcquireLock, StartTask, LeaveLoop, QuerySucceeds, QueryFails, QueryRetries,
                AfterTasks, SetMetadata, ReadTable, Finish, Join, QueryStarts, LockFails,
                SetMetadataFails, RejectRun, FinishRun, Stop
  <2> QED
    BY <1>1, <2>1 DEF Flags
<1> QED
  BY <1>2, <1>3, <1>4

LEMMA NextSchemas == ResultsInv /\ [Next]_vars => SchemasFirst'
<1> SUFFICES ASSUME ResultsInv, [Next]_vars PROVE SchemasFirst'
  OBVIOUS
<1> USE DEF SchemasFirst, AllSchemasExist, runVars, graphVars, resultVars, queryVars, flagVars
<1>0. TypeOK /\ Entries /\ SchemasFirst
  BY DEF ResultsInv, DepsInv
<1>1. CASE SchemasReady
  BY <1>1 DEF SchemasReady, Schemas
<1>2. CASE \E s \in Schemas : CreateSchema(s)
  BY <1>0, <1>2 DEF CreateSchema, Schemas
<1>3. CASE SchemasFail \/ RejectRun \/ Cancel \/ TimerFires \/ Stop \/ UNCHANGED vars
  BY <1>0, <1>3 DEF SchemasFail, RejectRun, Cancel, TimerFires, Stop, DoCancel, vars, Schemas
<1>4. CASE FinishRun
  BY <1>0, <1>4 DEF FinishRun, Schemas
<1>5. CASE Resume
  BY <1>0, <1>5 DEF Resume, Schemas
<1>6. ASSUME NEW a \in Actions, Step(a) PROVE SchemasFirst'
  <2>1. pc[a] # "idle"
    BY <1>6 DEF Step, Continue, At, AcquireLock, StartTask, LeaveLoop, QuerySucceeds, QueryFails,
                QueryRetries, AfterTasks, SetMetadata, ReadTable, Finish, Join, QueryStarts,
                LockFails, SetMetadataFails
  <2>2. Schemas \subseteq existing
    BY <1>0, <2>1 DEF Entries, EntryOK
  <2>3. existing' = existing
    BY <1>6 DEF Step, Continue, AcquireLock, StartTask, LeaveLoop, QuerySucceeds, QueryFails,
                QueryRetries, AfterTasks, SetMetadata, ReadTable, Finish, Join, QueryStarts,
                LockFails, SetMetadataFails
  <2> QED
    BY <2>2, <2>3 DEF Schemas
<1> QED
  BY <1>1, <1>2, <1>3, <1>4, <1>5, <1>6 DEF Next

(* A new skip has a cause at the moment of the pass, and causes stay.      *)
SkipsCaused ==
  \A a \in Actions : status'[a] = "SKIPPED" =>
    \/ status[a] = "SKIPPED"
    \/ aborted
    \/ \E d \in Known(a) : ~Successful(d) /\ status[d] \in Settled

LEMMA SweepSkips ==
  ASSUME NEW P, NEW E, NEW S, NEW p, NEW sp, NEW cn, Sweep(P, E, S, p, sp, cn)
  PROVE  SkipsCaused
<1> SUFFICES ASSUME NEW a \in Actions, status'[a] = "SKIPPED", status[a] # "SKIPPED", ~aborted
             PROVE  \E d \in Known(a) : ~Successful(d) /\ status[d] \in Settled
  BY DEF SkipsCaused
<1>1. Passed(a, P, E, S, p, sp, cn) /\ (cn => aborted)
  BY DEF Sweep
<1>2. CASE a \in P /\ Skipped(a, E, S, p, sp, cn)
  <2>1. ~sp /\ Known(a) \subseteq E /\ ~(Known(a) \subseteq S)
    BY <1>1, <1>2 DEF Skipped, Skippable, Executable
  <2>2. PICK d \in Known(a) : d \in E /\ d \notin S
    BY <2>1
  <2> QED
    BY <2>1, <2>2 DEF Sweep
<1>3. CASE Kept(a, P, S, p, sp) \/ Disabled(a, S) \/ Hit(a, S) \/ Started(a, S)
  BY <1>3 DEF Kept, Disabled, Hit, Started
<1> QED
  BY <1>1, <1>2, <1>3 DEF Passed

LEMMA NextSkipsCaused == ResultsInv /\ [Next]_vars => SkipsCaused
<1> SUFFICES ASSUME ResultsInv, [Next]_vars PROVE SkipsCaused
  OBVIOUS
<1> USE DEF runVars, graphVars, resultVars, queryVars, flagVars
<1>1. CASE SchemasReady
  BY <1>1, SchemasReadySweeps, SweepSkips
<1>2. ASSUME NEW a \in Actions, Step(a) PROVE SkipsCaused
  <2>1. CASE Join(a)
    BY <2>1, JoinSweeps, SweepSkips
  <2>2. CASE ~Join(a)
    <3>1. Advance(a)
      BY <1>2, <2>2, StepAdvances
    <3> QED
      BY <3>1 DEF Advance, SkipsCaused
  <2> QED
    BY <2>1, <2>2
<1>3. CASE Resume
  BY <1>3, ResumeSweeps, SweepSkips DEF Restart, SkipsCaused
<1>4. CASE \/ SchemasFail \/ RejectRun \/ FinishRun \/ Cancel \/ TimerFires \/ Stop
           \/ \E s \in Schemas : CreateSchema(s)
           \/ UNCHANGED vars
  <2>1. status' = status
    BY <1>4 DEF SchemasFail, RejectRun, FinishRun, Cancel, TimerFires, Stop, DoCancel, CreateSchema, vars
  <2> QED
    BY <2>1 DEF SkipsCaused
<1> QED
  BY <1>1, <1>2, <1>3, <1>4 DEF Next

LEMMA NextResults == ResultsInv /\ [Next]_vars => ResultsInv' /\ SettledKept
<1> SUFFICES ASSUME ResultsInv, [Next]_vars PROVE ResultsInv' /\ SettledKept
  OBVIOUS
<1>1. /\ DepsInv' /\ Entries' /\ SettledKept /\ VerdictLast' /\ ExecutedEnded'
      /\ NothingForgotten' /\ PassedOver'
  BY StepKeeps
<1>2. Flags' /\ (aborted => aborted') /\ SchemasFirst' /\ SkipsCaused
  BY NextFlags, NextSchemas, NextSkipsCaused
<1>3. SkipHasCause'
  <2> SUFFICES ASSUME NEW a \in Actions, status'[a] = "SKIPPED", ~aborted'
               PROVE  \E d \in Known(a) : ~(d \in extra' \/ status'[d] \in Successes) /\ status'[d] \in Settled
    BY DEF SkipHasCause, Known, Successful
  <2>1. PICK d \in Known(a) : ~Successful(d) /\ status[d] \in Settled
    BY <1>2 DEF SkipsCaused, SkipHasCause, ResultsInv
  <2>2. d \in Actions
    BY DEF Known
  <2> QED
    BY <1>1, <2>1, <2>2 DEF SettledKept, SameExtra, Successful
<1> QED
  BY <1>1, <1>2, <1>3 DEF ResultsInv

LEMMA InitResults == Init => ResultsInv
<1> SUFFICES ASSUME Init PROVE ResultsInv
  OBVIOUS
<1>1. DepsInv
  BY InitType DEF Init, DepsInv, SucceededTrue, PendingFresh, QueriesOfRunning,
                  ExtraHasEntry, DependenciesFirst
<1>2. Entries
  <2> SUFFICES ASSUME NEW n \in Actions
               PROVE  EntryOK(n, "NONE", <<>>, "idle", n \in extra, aborted, stopped)
    BY DEF Init, Entries
  <2>1. Len(Tasks[n]) \in Nat /\ Len(<<>>) = 0 /\ DOMAIN <<>> = {}
    BY GraphAssumption
  <2> QED
    BY <2>1 DEF Init, EntryOK, Resting, Asking
<1>3. Flags /\ VerdictLast /\ ExecutedEnded /\ PassedOver
  BY DEF Init, Flags, VerdictLast, ExecutedEnded, PassedOver
<1>4. NothingForgotten /\ SchemasFirst /\ SkipHasCause
  BY DEF Init, NothingForgotten, Successful, SchemasFirst, SkipHasCause
<1> QED
  BY <1>1, <1>2, <1>3, <1>4 DEF ResultsInv

(* The invariant, which the theorems below and the refinement rest on.     *)
LEMMA ResultsSound == Spec => []ResultsInv
  BY InitResults, NextResults, PTL DEF Spec
-----------------------------------------------------------------------------
(* No action is skipped without a cause: the run was cancelled, or some    *)
(* dependency ended without success (run.ts:272-280).                      *)
THEOREM SkipsHaveCauses == Spec => []SkipHasCause
<1>1. ResultsInv => SkipHasCause
  BY DEF ResultsInv
<1> QED
  BY <1>1, ResultsSound, PTL

(* No statement is sent before all schemas exist, whatever was stopped,    *)
(* failed or resumed while they were made (run.ts:178-181, 209-232).       *)
THEOREM SchemasComeFirst == Spec => []SchemasBeforeActions
<1>1. ResultsInv => SchemasBeforeActions
  <2> SUFFICES ASSUME ResultsInv, NEW a \in Actions, tries[a] # <<>>
               PROVE  SchemaOf[a] \in existing
    BY DEF SchemasBeforeActions
  <2>1. AllSchemasExist
    BY DEF ResultsInv, SchemasFirst
  <2> QED
    BY <2>1 DEF AllSchemasExist, Schemas
<1> QED
  BY <1>1, ResultsSound, PTL

(* A run with a verdict has nothing in progress (run.ts:185-203).          *)
THEOREM NothingIsLeftRunning == Spec => []NothingLeftRunning
<1>1. ResultsInv => NothingLeftRunning
  <2> SUFFICES ASSUME ResultsInv, runPc = "resolved", runStatus # "RUNNING",
                      NEW a \in Actions \ extra
               PROVE  /\ status[a] # "RUNNING"
                      /\ \A i \in DOMAIN tasks[a] : tasks[a][i] # "RUNNING"
    BY DEF NothingLeftRunning
  <2>1. ~stopped /\ pc[a] \in {"idle", "joined"}
    BY DEF ResultsInv, VerdictLast
  <2>2. EntryOK(a, status[a], tasks[a], pc[a], a \in extra, aborted, stopped)
    BY DEF ResultsInv, Entries
  <2> QED
    BY <2>1, <2>2 DEF EntryOK, Resting, Asking
<1> QED
  BY <1>1, ResultsSound, PTL

(* Unless the run was ever cancelled, SUCCESSFUL means that each task was  *)
(* executed and succeeded, over any number of stops and resumptions        *)
(* (run.ts:362-383, 419-421).                                              *)
THEOREM SuccessIsEarned == Spec => []SuccessMeansTasksDone
<1>1. ResultsInv => SuccessMeansTasksDone
  <2> SUFFICES ASSUME ResultsInv, NEW a \in Actions, status[a] = "SUCCESSFUL", ~aborted
               PROVE  tasks[a] = [i \in 1..Len(Tasks[a]) |-> "SUCCESSFUL"]
    BY DEF SuccessMeansTasksDone
  <2>1. EntryOK(a, status[a], tasks[a], pc[a], a \in extra, aborted, stopped)
    BY DEF ResultsInv, Entries
  <2>2. \A i \in DOMAIN tasks[a] : tasks[a][i] = "SUCCESSFUL"
    BY <2>1 DEF EntryOK, Resting, Asking
  <2>3. Len(tasks[a]) = Len(Tasks[a])
    BY <2>1 DEF EntryOK
  <2>4. tasks[a] \in Seq(TaskStatuses)
    BY DEF ResultsInv, DepsInv, TypeOK
  <2> QED
    BY <2>2, <2>3, <2>4
<1> QED
  BY <1>1, ResultsSound, PTL

(* What is recorded of an action that ended stays as it is: later passes,  *)
(* cancels, stops and resumptions overwrite nothing (run.ts:101-111,       *)
(* 235-256).                                                               *)
THEOREM ResultsAreFinal == Spec => ResultsFrozen
<1>1. ResultsInv /\ [Next]_vars =>
        [\A a \in Actions :
           status[a] \in Settled /\ pc[a] \in {"idle", "returned", "joined"}
             => status'[a] = status[a] /\ tasks'[a] = tasks[a]]_vars
  BY NextResults DEF SettledKept, Resting
<1> QED
  BY <1>1, ResultsSound, PTL DEF Spec, ResultsFrozen
=============================================================================
