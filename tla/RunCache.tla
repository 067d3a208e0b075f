------------------------------ MODULE RunCache ------------------------------
(***************************************************************************)
(* The run cache: Runner.shouldCacheSkip() of src/api/commands/run.ts, the *)
(* warehouse state that src/api/commands/build.ts reads when it builds an  *)
(* execution graph, and what a run records for the next one.               *)
(*                                                                         *)
(* An action is skipped when its definition, its tasks, its table and all  *)
(* its transitive inputs are as the last successful execution left and     *)
(* found them.  Its tasks were made from the dataset found at build time.  *)
(* Of everything else the executor only compares timestamps: those of the  *)
(* snapshot taken at build time, replaced as actions of the run complete,  *)
(* against those recorded by the execution.  Others write to the warehouse *)
(* at any time.  What the timestamps stand for is kept beside them:        *)
(* stamp[t] says which contents t has, basis[a] how and from which         *)
(* contents a's were written.                                              *)
(*                                                                         *)
(* Scheduling is that of module Runner, cut down to one statement that     *)
(* stands for the tasks of an action.  useRunCache is on, in the project   *)
(* and for the run.  Actions are datasets: the tasks of operations and     *)
(* assertions never depend on the warehouse, as if nothing were replaced.  *)
(***************************************************************************)
EXTENDS Integers, FiniteSets

CONSTANTS
  Sources,     \* declared datasets that no action writes
  Actions,     \* targets of the actions of the project
  ViewSets,    \* the sets of targets that may be views
  DepTargets,  \* DepTargets[a]: a's direct dependencies
  Incremental, \* actions that are incremental tables, unless they are views
  Hermetic,    \* actions that read nothing but their dependencies
  Streamed,    \* sources that receive rows through a streaming buffer
  MaxWrites,   \* bound on the number of writes to the warehouse
  MaxRuns,     \* bound on the number of runs, a resumption counted as one more
  MaxEdits     \* bound on the number of edits of the project

Targets == Sources \cup Actions

ASSUME ProjectAssumption ==
  /\ IsFiniteSet(Sources) /\ Sources \cap Actions = {}
  /\ DepTargets \in [Actions -> SUBSET Targets]
  /\ ViewSets \subseteq SUBSET Targets /\ ViewSets # {}
  /\ Incremental \subseteq Actions /\ Hermetic \subseteq Actions
  /\ Streamed \subseteq Sources
  /\ MaxWrites \in Nat /\ MaxRuns \in Nat /\ MaxEdits \in Nat

(* Graphs have no cycles: checkCircularity() of src/core/session.ts.       *)
ASSUME AcyclicAssumption ==
  \A T \in (SUBSET Actions) \ {{}} : \E a \in T : DepTargets[a] \cap T = {}

VARIABLES
  Views,     \* the targets that are views, chosen once
  clock,     \* number of writes so far
  mtime,     \* last-updated timestamp of each target, 0 if it does not exist
  stamp,     \* which contents each target has
  asView,    \* actions whose dataset, if there is one, is a view
  buffered,  \* targets with rows in a streaming buffer
  basis,     \* basis[a]: definition, tasks and input contents that a's dataset was written from
  def,       \* version of each action's definition in the project
  prev,      \* previouslyExecutedActions
  phase,     \* "idle", "run" or "stopped"
  graph,     \* the actions of the execution graph
  tasks,     \* tasks[a]: what publishTasks() made of a and the dataset it found
  snap,      \* graph.warehouseState: timestamps and buffers when the graph was built
  known,     \* warehouseStateByTarget, the same while the run goes on
  state,     \* state of each action in this run
  rec,       \* what this run has recorded for each action
  runs, edits,
  resumed,   \* history: the run was stopped and resumed
  least,     \* history: contents of each target at build time or as this run made them
  trying,    \* history: a run of all actions goes on in which all went well so far
  steady     \* history: actions that a run of all left as a run would find and leave them,
             \* and of whose project and warehouse nothing was changed since

warehouseVars == <<clock, mtime, stamp, asView, buffered, basis>>
runVars == <<phase, graph, tasks, snap, known, state, rec>>
counters == <<runs, edits>>
history == <<resumed, least, trying, steady>>
vars == <<Views, warehouseVars, def, prev, runVars, counters, history>>

Time == 0..MaxWrites
Snapshots == [time : [Targets -> Time], buffers : SUBSET Sources]
Records == [post : Time, inputs : [Targets -> Time]]
Tasks == [drop : BOOLEAN, insert : BOOLEAN]
States == {"none", "executing", "wrote", "failing", "SUCCESSFUL", "FAILED", "CACHE_SKIPPED"}

(* Foreign contents are made from no definition.                           *)
NoTasks == [drop |-> FALSE, insert |-> FALSE]
Foreign == [def |-> 0, tasks |-> NoTasks, in |-> [t \in Targets |-> 0]]
NoRecord == [post |-> 0, inputs |-> [t \in Targets |-> 0]]
NothingKnown == [time |-> [t \in Targets |-> 0], buffers |-> {}]
NoPrev ==
  [ok |-> FALSE, def |-> 0, tasks |-> NoTasks, post |-> 0, inputs |-> [t \in Targets |-> 0]]

TypeOK ==
  /\ Views \in ViewSets
  /\ clock \in Time
  /\ mtime \in [Targets -> Time]
  /\ stamp \in [Targets -> Time]
  /\ asView \subseteq Actions
  /\ buffered \subseteq Streamed
  /\ basis \in [Actions -> [def : 0..MaxEdits + 1, tasks : Tasks, in : [Targets -> Time]]]
  /\ def \in [Actions -> 1..MaxEdits + 1]
  /\ prev \in [Actions -> [ok : BOOLEAN, def : 0..MaxEdits + 1, tasks : Tasks, post : Time,
                           inputs : [Targets -> Time]]]
  /\ phase \in {"idle", "run", "stopped"}
  /\ graph \subseteq Actions
  /\ tasks \in [Actions -> Tasks]
  /\ snap \in Snapshots
  /\ known \in Snapshots
  /\ state \in [Actions -> States]
  /\ rec \in [Actions -> Records]
  /\ runs \in 0..MaxRuns
  /\ edits \in 0..MaxEdits
  /\ resumed \in BOOLEAN
  /\ least \in [Targets -> Time]
  /\ trying \in BOOLEAN
  /\ steady \subseteq Actions
-----------------------------------------------------------------------------
(* publishTasks(), by the metadata of the dataset and --full-refresh: one  *)
(* of the other type is dropped first, and an incremental table that there *)
(* is gets new rows.  The columns that an insert or merge names are those  *)
(* of the table, which do not change under the same timestamp.             *)
Exists(a) == mtime[a] # 0
RightType(a) == a \in asView <=> a \in Views

PublishTasks(a, fullRefresh) ==
  [drop |-> Exists(a) /\ ~RightType(a),
   insert |-> /\ a \in Incremental \ Views /\ ~fullRefresh
              /\ Exists(a) /\ a \notin asView]

(* computeAllTransitiveInputs(): the dependencies, and through every       *)
(* dependency that is no table and no declaration, its inputs too.         *)
TransitiveInputs(views) ==
  LET inputs[a \in Actions] ==
        DepTargets[a] \cup UNION {inputs[d] : d \in DepTargets[a] \cap Actions \cap views}
  IN inputs

Inputs(a) == TransitiveInputs(Views)[a]

(* What a's query reads, seen through views: the least set that contains   *)
(* a's dependencies and, with a view, the view's dependencies.             *)
Contains(seen, a, views) ==
  /\ DepTargets[a] \subseteq seen
  /\ \A d \in seen \cap Actions \cap views : DepTargets[d] \subseteq seen

SeenThrough(views) ==
  [a \in Actions |->
     {t \in Targets : \A seen \in SUBSET Targets : Contains(seen, a, views) => t \in seen}]

Sees == SeenThrough(Views)

(* Declarations that were no tables when the graph was built.              *)
NonTableDeclarations == {t \in Sources : t \in Views \/ snap.time[t] = 0}

SameTime(t1, t2) == t1 # 0 /\ t2 # 0 /\ t1 = t2

(* Mutant: rows in a streaming buffer are not considered.                  *)
InputUnchangedByTime(a, i, K) ==
  /\ i \notin NonTableDeclarations
  /\ SameTime(K.time[i], prev[a].inputs[i])

InputUnchanged(a, i, K) ==
  /\ i \notin NonTableDeclarations
  /\ SameTime(K.time[i], prev[a].inputs[i])
  /\ i \notin K.buffers

(* Mutant: the tasks are not compared, only the definition.                *)
SameDefinition(a) == prev[a].def = def[a]

(* equals(ExecutionAction, ...): what was compiled, and the tasks.         *)
SameExecutionAction(a) == prev[a].def = def[a] /\ prev[a].tasks = tasks[a]

ShouldCacheSkip(a, K) ==
  /\ a \in Hermetic
  /\ prev[a].ok /\ SameExecutionAction(a)
  /\ SameTime(K.time[a], prev[a].post)
  /\ \A i \in Inputs(a) : InputUnchanged(a, i, K)

Current == [time |-> mtime, buffers |-> buffered]
-----------------------------------------------------------------------------
Init ==
  /\ Views \in ViewSets
  /\ clock = Cardinality(Sources)
  /\ stamp \in [Targets -> 0..Cardinality(Sources)]
  /\ \A t \in Targets : stamp[t] = 0 <=> t \in Actions
  /\ mtime = stamp
  /\ asView = {}
  /\ buffered = {}
  /\ basis = [a \in Actions |-> Foreign]
  /\ def = [a \in Actions |-> 1]
  /\ prev = [a \in Actions |-> NoPrev]
  /\ phase = "idle"
  /\ graph = {}
  /\ tasks = [a \in Actions |-> NoTasks]
  /\ snap = NothingKnown /\ known = NothingKnown
  /\ state = [a \in Actions |-> "none"]
  /\ rec = [a \in Actions |-> NoRecord]
  /\ resumed = FALSE
  /\ least = NothingKnown.time
  /\ runs = 0 /\ edits = 0
  /\ trying = FALSE /\ steady = {}

(* The warehouse: a write gives a target new contents and a new timestamp. *)
Write(t) ==
  /\ clock < MaxWrites
  /\ clock' = clock + 1
  /\ stamp' = [stamp EXCEPT ![t] = clock + 1]
  /\ mtime' = [mtime EXCEPT ![t] = clock + 1]

(* What was so since the last run is so no longer.                         *)
SomethingHappens == trying' = FALSE /\ steady' = {}

(* Somebody else writes: a source at any time, an action's dataset between *)
(* runs, which is then a table or a view.                                  *)
ForeignWrite(t) ==
  /\ t \in Sources \/ phase = "idle"
  /\ Write(t)
  /\ basis' = [a \in Actions |-> IF a = t THEN Foreign ELSE basis[a]]
  /\ asView' \in {asView \ {t}, asView \cup ({t} \cap Actions)}
  /\ buffered' = buffered \ {t}
  /\ SomethingHappens
  /\ UNCHANGED <<Views, def, prev, runVars, counters, resumed, least>>

(* Rows arrive in a streaming buffer: new contents under an old timestamp. *)
(* A later write (or flush, which is a ForeignWrite) empties the buffer.   *)
Stream(t) ==
  /\ t \in Streamed
  /\ clock < MaxWrites
  /\ clock' = clock + 1
  /\ stamp' = [stamp EXCEPT ![t] = clock + 1]
  /\ buffered' = buffered \cup {t}
  /\ SomethingHappens
  /\ UNCHANGED <<Views, mtime, asView, basis, def, prev, runVars, counters, resumed, least>>

(* The project's author changes an action.                                 *)
Edit(a) ==
  /\ phase = "idle" /\ edits < MaxEdits
  /\ edits' = edits + 1
  /\ def' = [def EXCEPT ![a] = @ + 1]
  /\ SomethingHappens
  /\ UNCHANGED <<Views, warehouseVars, prev, runVars, runs, resumed, least>>
-----------------------------------------------------------------------------
(* build() and run(): some actions are selected, the state of everything   *)
(* involved is read, the tasks are made from it, and the runner starts     *)
(* from it.  A full refresh that rebuilds a steady action ends the calm.   *)
Build ==
  /\ phase = "idle" /\ runs < MaxRuns
  /\ runs' = runs + 1
  /\ phase' = "run"
  /\ graph' \in SUBSET Actions \ {{}}
  /\ snap' = Current
  /\ known' = snap'
  /\ \E fullRefresh \in BOOLEAN : tasks' = [a \in Actions |-> PublishTasks(a, fullRefresh)]
  /\ least' = stamp
  /\ trying' = (graph' = Actions)
  /\ steady' = IF \E a \in steady : tasks'[a] # PublishTasks(a, FALSE) THEN {} ELSE steady
  /\ UNCHANGED <<Views, warehouseVars, def, prev, state, rec, edits, resumed>>

Startable(a) ==
  /\ a \in graph /\ state[a] = "none"
  /\ \A d \in DepTargets[a] \cap graph : state[d] \in {"SUCCESSFUL", "CACHE_SKIPPED"}

CacheSkip(a) ==
  /\ phase = "run" /\ Startable(a)
  /\ ShouldCacheSkip(a, known)
  /\ state' = [state EXCEPT ![a] = "CACHE_SKIPPED"]
  /\ UNCHANGED <<Views, warehouseVars, def, prev, phase, graph, tasks, snap, known, rec,
                 counters, history>>

(* The timestamps of the inputs are recorded from what the runner knows,   *)
(* before the query runs.                                                  *)
Start(a) ==
  /\ phase = "run" /\ Startable(a)
  /\ ~ShouldCacheSkip(a, known)
  /\ state' = [state EXCEPT ![a] = "executing"]
  /\ rec' = [rec EXCEPT ![a].inputs =
       [i \in Targets |-> IF i \in Inputs(a) THEN known.time[i] ELSE 0]]
  /\ UNCHANGED <<Views, warehouseVars, def, prev, phase, graph, tasks, snap, known,
                 counters, history>>

(* The query reads its inputs, views through to what they are made of, and *)
(* replaces the dataset or inserts into the table.                         *)
Query(a) ==
  /\ phase # "idle" /\ state[a] = "executing"
  /\ Write(a)
  /\ basis' = [basis EXCEPT ![a] =
       [def |-> def[a], tasks |-> tasks[a],
        in |-> [i \in Targets |-> IF i \in Sees[a] THEN stamp[i] ELSE 0]]]
  /\ asView' = (asView \ {a}) \cup ({a} \cap Views)
  /\ least' = [least EXCEPT ![a] = clock + 1]
  /\ state' = [state EXCEPT ![a] = "wrote"]
  /\ UNCHANGED <<Views, buffered, def, prev, phase, graph, tasks, snap, known, rec, counters,
                 resumed, trying, steady>>

QueryFails(a) ==
  /\ state[a] = "executing"
  /\ state' = [state EXCEPT ![a] = "failing"]
  /\ trying' = FALSE
  /\ UNCHANGED <<Views, warehouseVars, def, prev, phase, graph, tasks, snap, known, rec, counters,
                 resumed, least, steady>>

(* Mutant: the inputs are recorded once the action is done.                *)
LearnInputsToo(a, time) ==
  /\ known' = [known EXCEPT !.time[a] = time]
  /\ rec' = [rec EXCEPT ![a] =
       [post |-> time, inputs |-> [i \in Targets |-> IF i \in Inputs(a) THEN mtime[i] ELSE 0]]]

(* Mutant: the time of execution is not recorded.                          *)
LearnOnlyKnown(a, time) ==
  /\ known' = [known EXCEPT !.time[a] = time]
  /\ UNCHANGED rec

(* dbadapter.table() after the tasks: what the runner knows of a, and when *)
(* a was executed.  Without an answer, what was known is forgotten.        *)
Learn(a, time) ==
  /\ known' = [known EXCEPT !.time[a] = time]
  /\ rec' = [rec EXCEPT ![a].post = time]

Forget(a) == Learn(a, 0)

Finish(a) ==
  /\ state[a] \in {"wrote", "failing"}
  /\ state' = [state EXCEPT ![a] = IF @ = "wrote" THEN "SUCCESSFUL" ELSE "FAILED"]
  /\ \/ Learn(a, mtime[a]) /\ UNCHANGED trying
     \/ Forget(a) /\ trying' = FALSE
  /\ UNCHANGED <<Views, warehouseVars, def, prev, phase, graph, tasks, snap, counters,
                 resumed, least, steady>>

Idle == \A a \in Actions : state[a] \notin {"executing", "wrote", "failing"}

(* Actions that are hermetic all the way up to declared tables.            *)
ReadsOnly(a, these) ==
  /\ a \in Hermetic
  /\ DepTargets[a] # {}
  /\ DepTargets[a] \subseteq these \cup (Sources \ Views)

(* The next run would make the same tasks of a again: a is no incremental  *)
(* table that was created, nor was its dataset one of the other type.      *)
SameAgain(a) == tasks[a] = PublishTasks(a, FALSE)

(* Those of them for which this is so, and for all that they read.         *)
Settled ==
  {a \in Actions : \E these \in SUBSET Actions :
     a \in these /\ \A b \in these : ReadsOnly(b, these) /\ SameAgain(b)}

(* The run ends and its caller keeps the executed actions for the next     *)
(* run: the latest result of each, if it was not skipped.  Of one that     *)
(* failed only the status is looked at.  Nothing else is left of the run.  *)
EndRun ==
  /\ phase = "run" /\ Idle
  /\ ~\E a \in Actions : Startable(a)
  /\ phase' = "idle"
  /\ prev' = [a \in Actions |->
       CASE state[a] = "SUCCESSFUL" ->
              [ok |-> TRUE, def |-> def[a], tasks |-> tasks[a],
               post |-> rec[a].post, inputs |-> rec[a].inputs]
         [] state[a] = "FAILED" -> NoPrev
         [] OTHER -> prev[a]]
  /\ trying' = FALSE
  /\ steady' = IF trying /\ \A a \in Actions : state[a] \in {"SUCCESSFUL", "CACHE_SKIPPED"}
               THEN Settled ELSE steady
  /\ graph' = {}
  /\ tasks' = [a \in Actions |-> NoTasks]
  /\ snap' = NothingKnown /\ known' = NothingKnown
  /\ state' = [a \in Actions |-> "none"]
  /\ rec' = [a \in Actions |-> NoRecord]
  /\ resumed' = FALSE
  /\ least' = NothingKnown.time
  /\ UNCHANGED <<Views, warehouseVars, def, counters>>

(* stop() and run() with the partial result: the new runner starts from    *)
(* the graph's warehouse state once more.  What is in progress may finish  *)
(* after stop() was called; what did not is taken up, unless it can be     *)
(* skipped; what failed before it was learned stays failed.                *)
Stop ==
  /\ phase = "run" /\ runs < MaxRuns
  /\ phase' = "stopped"
  /\ UNCHANGED <<Views, warehouseVars, def, prev, graph, tasks, snap, known, state, rec,
                 counters, history>>

Resume ==
  /\ phase = "stopped"
  /\ phase' = "run"
  /\ known' = snap
  /\ state' = [a \in Actions |->
       CASE state[a] \in {"executing", "wrote"} /\ ShouldCacheSkip(a, snap) -> "CACHE_SKIPPED"
         [] state[a] = "failing" -> "FAILED"
         [] OTHER -> state[a]]
  /\ resumed' = TRUE
  /\ trying' = FALSE
  /\ runs' = runs + 1
  /\ UNCHANGED <<Views, warehouseVars, def, prev, graph, tasks, snap, rec, edits, least, steady>>

Next ==
  \/ \E t \in Targets : ForeignWrite(t) \/ Stream(t)
  \/ \E a \in Actions :
       Edit(a) \/ CacheSkip(a) \/ Start(a) \/ Query(a) \/ QueryFails(a) \/ Finish(a)
  \/ Build \/ EndRun \/ Stop \/ Resume

Spec == Init /\ [][Next]_vars
-----------------------------------------------------------------------------
(* Running a now would give what its dataset has: it is of a's type, was   *)
(* last written by the current definition, whole if it would be rebuilt,   *)
(* from contents of every input no older than those at build time or than  *)
(* those this run has given them.  Inputs may be executed at the same time *)
(* only if a view between them and a was not selected.                     *)
InProgress(t) == t \in Actions /\ state[t] \in {"executing", "wrote", "failing"}

UpToDate(a) ==
  /\ RightType(a)
  /\ basis[a].def = def[a] /\ basis[a].tasks.insert = tasks[a].insert
  /\ \A i \in Sees[a] : InProgress(i) \/ basis[a].in[i] >= least[i]

(* The cache only skips what a run would not change, with others writing   *)
(* at any time, partial runs, failures and lost metadata (run.ts:474-556), *)
(* also in the runs that follow one that was stopped and resumed.          *)
SkipsAreFresh ==
  [][~resumed' => \A a \in Actions :
       state[a] # "CACHE_SKIPPED" /\ state'[a] = "CACHE_SKIPPED" => UpToDate(a)]_vars

(* What an execution recorded errs on the safe side: as long as a dataset  *)
(* is the one it wrote, it is of the action's type, was written as the     *)
(* record says, and from contents at least as new as the recorded          *)
(* timestamps (run.ts:319-330, 402-417).                                   *)
RecordsAreConservative ==
  \A a \in Actions : prev[a].ok /\ SameTime(mtime[a], prev[a].post) =>
    /\ RightType(a)
    /\ basis[a].def = prev[a].def /\ basis[a].tasks = prev[a].tasks
    /\ \A i \in Inputs(a) : prev[a].inputs[i] <= basis[a].in[i]

(* When everything was run and nothing happened since, a hermetic action   *)
(* is not executed again, in runs of any selection, if its tasks and those *)
(* of what it reads would be made the same again (run.ts:474-556).  The    *)
(* documentation promises it of any unmodified dataset                     *)
(* (configuration.md:99), also of incremental tables that were created.    *)
UnchangedIsSkipped ==
  \A a \in steady : buffered = {} => ~InProgress(a)

(* The test's "Should run because a transitive input (included in the run) *)
(* did not cache" (bigquery.spec.ts:190): no action is skipped when one of *)
(* its inputs was written in this run.                                     *)
RunsAfterItsInputs ==
  [][\A a \in Actions :
       state[a] # "CACHE_SKIPPED" /\ state'[a] = "CACHE_SKIPPED"
         => \A i \in Inputs(a) \cap graph : state[i] # "SUCCESSFUL"]_vars
=============================================================================
