---------------------------- MODULE RunCacheProofs ----------------------------
(***************************************************************************)
(* The run cache is right for every project without cycles: any sources,   *)
(* actions, views and dependencies, any selections, and any writes, edits, *)
(* failures, stops and resumptions between and during any number of runs.  *)
(***************************************************************************)
EXTENDS RunCache, FiniteSetTheorems, TLAPS

(* What a query sees is what it depends on, and what it sees through the   *)
(* views among that.                                                       *)
LEMMA SeenStepwise ==
  ASSUME NEW views, NEW a \in Actions
  PROVE  SeenThrough(views)[a] =
           DepTargets[a] \cup UNION {SeenThrough(views)[d] : d \in DepTargets[a] \cap Actions \cap views}
<1> DEFINE S == SeenThrough(views)
           through == UNION {S[d] : d \in DepTargets[a] \cap Actions \cap views}
<1>1. ASSUME NEW b \in Actions
      PROVE  S[b] = {t \in Targets :
                       \A seen \in SUBSET Targets : Contains(seen, b, views) => t \in seen}
  BY DEF SeenThrough
<1>2. ASSUME NEW b \in Actions PROVE DepTargets[b] \subseteq S[b]
  BY <1>1, ProjectAssumption DEF Contains
<1>3. ASSUME NEW b \in Actions, NEW d \in S[b] \cap Actions \cap views
      PROVE  DepTargets[d] \subseteq S[b]
  BY <1>1, ProjectAssumption DEF Contains
<1>4. ASSUME NEW d \in DepTargets[a] \cap Actions \cap views PROVE S[d] \subseteq S[a]
  <2>1. d \in S[a]
    BY <1>2
  <2>2. Contains(S[a], d, views)
    BY <1>3, <2>1 DEF Contains
  <2>3. S[a] \in SUBSET Targets
    BY <1>1
  <2> QED
    BY <1>1, <2>2, <2>3
<1>5. DepTargets[a] \cup through \subseteq S[a]
  BY <1>2, <1>4
<1>6. Contains(DepTargets[a] \cup through, a, views)
  <2> SUFFICES ASSUME NEW d \in (DepTargets[a] \cup through) \cap Actions \cap views
               PROVE  DepTargets[d] \subseteq through
    BY DEF Contains
  <2>1. CASE d \in DepTargets[a]
    BY <1>2, <2>1
  <2>2. CASE d \in through
    <3>1. PICK e \in DepTargets[a] \cap Actions \cap views : d \in S[e]
      BY <2>2
    <3>2. DepTargets[d] \subseteq S[e]
      BY <1>3, <3>1
    <3> QED
      BY <3>2
  <2> QED
    BY <2>1, <2>2
<1>7. DepTargets[a] \cup through \in SUBSET Targets
  BY <1>1, ProjectAssumption
<1>8. S[a] \subseteq DepTargets[a] \cup through
  BY <1>1, <1>6, <1>7
<1> QED
  BY <1>5, <1>8

(* So the code's recursion computes it, as there are no cycles.            *)
LEMMA InputsAreSeen ==
  ASSUME NEW views
  PROVE  TransitiveInputs(views) = SeenThrough(views)
<1> DEFINE S == SeenThrough(views)
           G(f) == [a \in Actions |->
                      DepTargets[a] \cup UNION {f[d] : d \in DepTargets[a] \cap Actions \cap views}]
           I == CHOOSE f : f = G(f)
<1>1. S = G(S)
  <2>1. S = [a \in Actions |-> S[a]]
    BY DEF SeenThrough
  <2> QED
    BY <2>1, SeenStepwise
<1>2. I = G(I)
  BY <1>1
<1>3. TransitiveInputs(views) = I
  BY DEF TransitiveInputs
<1> HIDE DEF I, S
<1>4. \A a \in Actions : I[a] = S[a]
  <2> DEFINE T == {a \in Actions : I[a] # S[a]}
  <2> SUFFICES ASSUME T # {} PROVE FALSE
    OBVIOUS
  <2>1. PICK a \in T : DepTargets[a] \cap T = {}
    BY AcyclicAssumption
  <2>2. \A d \in DepTargets[a] \cap Actions \cap views : I[d] = S[d]
    BY <2>1
  <2>3. /\ I[a] = DepTargets[a] \cup UNION {I[d] : d \in DepTargets[a] \cap Actions \cap views}
        /\ S[a] = DepTargets[a] \cup UNION {S[d] : d \in DepTargets[a] \cap Actions \cap views}
    BY <1>1, <1>2
  <2>4. {I[d] : d \in DepTargets[a] \cap Actions \cap views}
          = {S[d] : d \in DepTargets[a] \cap Actions \cap views}
    BY <2>2
  <2> QED
    BY <2>3, <2>4
<1>5. I = [a \in Actions |-> I[a]] /\ S = [a \in Actions |-> S[a]]
  BY <1>1, <1>2
<1> QED
  BY <1>3, <1>4, <1>5 DEF S
-----------------------------------------------------------------------------
(* Natural numbers without the bounds of the instances.                    *)
CacheTypes ==
  /\ clock \in Nat
  /\ mtime \in [Targets -> Nat] /\ stamp \in [Targets -> Nat] /\ least \in [Targets -> Nat]
  /\ buffered \subseteq Streamed /\ asView \subseteq Actions
  /\ basis \in [Actions -> [def : Nat, tasks : Tasks, in : [Targets -> Nat]]]
  /\ def \in [Actions -> Nat]
  /\ prev \in [Actions -> [ok : BOOLEAN, def : Nat, tasks : Tasks, post : Nat,
                           inputs : [Targets -> Nat]]]
  /\ phase \in {"idle", "run", "stopped"}
  /\ graph \subseteq Actions /\ tasks \in [Actions -> Tasks]
  /\ snap \in [time : [Targets -> Nat], buffers : SUBSET Sources]
  /\ known \in [time : [Targets -> Nat], buffers : SUBSET Sources]
  /\ state \in [Actions -> States]
  /\ rec \in [Actions -> [post : Nat, inputs : [Targets -> Nat]]]
  /\ resumed \in BOOLEAN /\ trying \in BOOLEAN /\ steady \subseteq Actions

(* Timestamps are never ahead of contents or of the clock, and only a      *)
(* streaming buffer keeps them behind.                                     *)
Times ==
  /\ \A t \in Targets : /\ mtime[t] <= stamp[t] /\ stamp[t] <= clock
                        /\ t \notin buffered => mtime[t] = stamp[t]
                        /\ known.time[t] <= mtime[t]
  /\ \A a \in Actions : prev[a].post <= clock /\ rec[a].post <= clock

(* What an action recorded of its inputs is no newer than what its query   *)
(* reads; once it has read them, than what it read, by its tasks, into a   *)
(* dataset of its type.                                                    *)
Recorded ==
  \A a \in Actions :
    /\ state[a] # "none" => phase # "idle"
    /\ state[a] = "executing" => \A i \in Inputs(a) : rec[a].inputs[i] <= stamp[i]
    /\ state[a] \in {"wrote", "SUCCESSFUL"} =>
         /\ RightType(a)
         /\ basis[a].def = def[a] /\ basis[a].tasks = tasks[a]
         /\ \A i \in Inputs(a) : rec[a].inputs[i] <= basis[a].in[i]

(* During a run nobody else writes to the tables of actions: what is known *)
(* of those that were not executed is true, and of everything else the     *)
(* runner knows the contents that count, unless they change under it.      *)
Knowledge ==
  phase # "idle" =>
    /\ snap.buffers = known.buffers
    /\ \A a \in Actions :
         /\ state[a] = "none" => known.time[a] = mtime[a] /\ snap.time[a] = mtime[a]
         /\ least[a] = mtime[a]
    /\ \A t \in Targets : snap.time[t] <= mtime[t]
    /\ ~resumed => \A t \in Targets \ known.buffers :
                     InProgress(t) \/ known.time[t] = 0 \/ least[t] <= known.time[t]

CacheInv ==
  /\ CacheTypes
  /\ Times
  /\ Recorded
  /\ Knowledge
  /\ RecordsAreConservative

USE DEF Targets, States, InProgress, SameTime, RightType

LEMMA TasksArePublished ==
  NoTasks \in Tasks /\ \A a, fullRefresh : PublishTasks(a, fullRefresh) \in Tasks
BY DEF NoTasks, Tasks, PublishTasks, Exists

LEMMA InitCache == Init => CacheInv
<1> SUFFICES ASSUME Init PROVE CacheInv
  OBVIOUS
<1>1. Cardinality(Sources) \in Nat
  BY FS_CardinalityType, ProjectAssumption
<1>2. CacheTypes
  <2>1. stamp \in [Targets -> Nat] /\ mtime = stamp /\ clock \in Nat
    BY <1>1 DEF Init
  <2>2. snap = NothingKnown /\ known = snap /\ least = [t \in Targets |-> 0]
    BY DEF Init, NothingKnown
  <2>3. basis \in [Actions -> [def : Nat, tasks : Tasks, in : [Targets -> Nat]]]
    BY TasksArePublished DEF Init, Foreign
  <2>4. rec \in [Actions -> [post : Nat, inputs : [Targets -> Nat]]]
    BY DEF Init, NoRecord
  <2>5. prev \in [Actions -> [ok : BOOLEAN, def : Nat, tasks : Tasks, post : Nat,
                             inputs : [Targets -> Nat]]]
    BY TasksArePublished DEF Init, NoPrev
  <2>6. def \in [Actions -> Nat] /\ state \in [Actions -> States] /\ tasks \in [Actions -> Tasks]
    BY TasksArePublished DEF Init
  <2>7. snap \in [time : [Targets -> Nat], buffers : SUBSET Sources] /\ known = snap
        /\ least \in [Targets -> Nat]
    BY <2>2 DEF NothingKnown
  <2>8. buffered \subseteq Streamed /\ asView \subseteq Actions /\ graph \subseteq Actions
        /\ resumed \in BOOLEAN /\ phase = "idle" /\ trying \in BOOLEAN /\ steady \subseteq Actions
    BY DEF Init
  <2> QED
    BY <2>1, <2>3, <2>4, <2>5, <2>6, <2>7, <2>8 DEF CacheTypes
<1>3. Times
  BY <1>1, <1>2 DEF Init, Times, CacheTypes, NothingKnown, NoRecord, NoPrev
<1> QED
  BY <1>2, <1>3 DEF Init, CacheInv, Recorded, Knowledge, RecordsAreConservative, NoPrev

(* What is recorded of inputs is about what the query sees.                *)
LEMMA InputsSeen == \A a \in Actions : Inputs(a) = Sees[a] /\ Inputs(a) \subseteq Targets
<1> SUFFICES ASSUME NEW a \in Actions PROVE Inputs(a) = Sees[a] /\ Inputs(a) \subseteq Targets
  OBVIOUS
<1>1. Inputs(a) = Sees[a]
  BY InputsAreSeen DEF Inputs, Sees
<1>2. Sees[a] \subseteq Targets
  BY DEF Sees, SeenThrough
<1> QED
  BY <1>1, <1>2

LEMMA SameInputs == ASSUME Views' = Views PROVE \A a \in Actions : Inputs(a)' = Inputs(a)
  BY DEF Inputs

LEMMA NextCache == CacheInv /\ [Next]_vars => CacheInv'
<1> SUFFICES ASSUME CacheInv, [Next]_vars PROVE CacheInv'
  OBVIOUS
<1> USE DEF warehouseVars, runVars, counters, history
<1>0. CacheTypes /\ Times /\ Recorded /\ Knowledge /\ RecordsAreConservative
  BY DEF CacheInv
<1>i. Views' = Views /\ (\A a \in Actions : Inputs(a)' = Inputs(a)) /\ \A a \in Actions : Inputs(a) \subseteq Targets
  <2>1. Views' = Views
    BY DEF Next, vars, ForeignWrite, Stream, Edit, CacheSkip, Start, Query, QueryFails, Finish,
           Build, EndRun, Stop, Resume
  <2> QED
    BY <2>1, SameInputs, InputsSeen
<1>1. ASSUME NEW t \in Targets, ForeignWrite(t) \/ Stream(t) PROVE CacheInv'
  <2>1. CacheTypes'
    <3>1. /\ clock' = clock + 1 /\ stamp' = [stamp EXCEPT ![t] = clock + 1]
          /\ mtime' \in {mtime, [mtime EXCEPT ![t] = clock + 1]}
          /\ buffered' \subseteq buffered \cup ({t} \cap Streamed)
          /\ asView' \subseteq asView \cup Actions
          /\ trying' = FALSE /\ steady' = {}
          /\ UNCHANGED <<def, prev, phase, graph, tasks, snap, known, state, rec, resumed, least>>
      <4>1. CASE ForeignWrite(t)
        BY <4>1 DEF ForeignWrite, Write, SomethingHappens
      <4>2. CASE Stream(t)
        BY <4>2 DEF Stream, SomethingHappens
      <4> QED
        BY <1>1, <4>1, <4>2
    <3>2. basis' = basis \/ basis' = [a \in Actions |-> IF a = t THEN Foreign ELSE basis[a]]
      BY <1>1 DEF ForeignWrite, Stream
    <3>3. Foreign \in [def : Nat, tasks : Tasks, in : [Targets -> Nat]]
      BY TasksArePublished DEF Foreign
    <3>4. basis' \in [Actions -> [def : Nat, tasks : Tasks, in : [Targets -> Nat]]]
      <4>1. basis \in [Actions -> [def : Nat, tasks : Tasks, in : [Targets -> Nat]]]
        BY <1>0 DEF CacheTypes
      <4> QED
        BY <3>2, <3>3, <4>1
    <3>5. buffered' \subseteq Streamed
      BY <1>0, <3>1 DEF CacheTypes
    <3>6. /\ clock' \in Nat /\ stamp' \in [Targets -> Nat] /\ mtime' \in [Targets -> Nat]
      <4>1. clock \in Nat /\ stamp \in [Targets -> Nat] /\ mtime \in [Targets -> Nat]
        BY <1>0 DEF CacheTypes
      <4> QED
        BY <3>1, <4>1
    <3> QED
      BY <1>0, <3>1, <3>4, <3>5, <3>6 DEF CacheTypes
  <2>2. Times'
    <3>1. /\ clock' = clock + 1 /\ stamp' = [stamp EXCEPT ![t] = clock + 1]
          /\ \/ mtime' = [mtime EXCEPT ![t] = clock + 1] /\ buffered' = buffered \ {t}
             \/ mtime' = mtime /\ buffered' = buffered \cup {t}
          /\ UNCHANGED <<prev, rec, known>>
      BY <1>1 DEF ForeignWrite, Stream, Write
    <3>2. /\ clock \in Nat /\ stamp \in [Targets -> Nat] /\ mtime \in [Targets -> Nat]
          /\ \A a \in Actions : prev[a].post \in Nat /\ rec[a].post \in Nat
          /\ \A u \in Targets : known.time[u] \in Nat
      BY <1>0 DEF CacheTypes
    <3> QED
      BY <1>0, <3>1, <3>2 DEF Times
  <2>3. Recorded'
    BY <1>0, <1>1, <1>i, <2>1, ProjectAssumption
       DEF CacheTypes, Times, Recorded, ForeignWrite, Stream, Write
  <2>4. Knowledge'
    <3>1. /\ UNCHANGED <<phase, snap, known, state, least, resumed>>
          /\ phase # "idle" => t \in Sources
          /\ mtime' \in {mtime, [mtime EXCEPT ![t] = clock + 1]}
      BY <1>1, ProjectAssumption DEF ForeignWrite, Stream, Write
    <3>2. /\ clock \in Nat /\ mtime \in [Targets -> Nat] /\ mtime[t] <= clock
          /\ \A u \in Targets : snap.time[u] \in Nat
      BY <1>0 DEF CacheTypes, Times
    <3>3. phase # "idle" =>
            /\ \A a \in Actions : mtime'[a] = mtime[a]
            /\ \A u \in Targets : mtime'[u] >= mtime[u]
      BY <3>1, <3>2, ProjectAssumption
    <3> QED
      BY <1>0, <3>1, <3>2, <3>3 DEF Knowledge
  <2>5. RecordsAreConservative'
    BY <1>0, <1>1, <1>i, <2>1, ProjectAssumption
       DEF CacheTypes, Times, RecordsAreConservative, ForeignWrite, Stream, Write
  <2> QED
    BY <2>1, <2>2, <2>3, <2>4, <2>5 DEF CacheInv
<1>2. ASSUME NEW a \in Actions, Edit(a) PROVE CacheInv'
  <2>1. CacheTypes'
    <3>1. def' \in [Actions -> Nat]
      BY <1>0, <1>2 DEF CacheTypes, Edit
    <3> QED
      BY <1>0, <1>2, <3>1 DEF CacheTypes, Edit, SomethingHappens
  <2>2. /\ UNCHANGED <<clock, mtime, stamp, asView, buffered, basis, prev, phase, known, state, rec>>
        /\ phase = "idle"
    BY <1>2 DEF Edit
  <2>3. Times' /\ RecordsAreConservative'
    BY <1>0, <1>i, <2>2 DEF Times, RecordsAreConservative
  <2>4. Recorded' /\ Knowledge'
    BY <1>0, <2>1, <2>2 DEF Recorded, Knowledge
  <2> QED
    BY <2>1, <2>3, <2>4 DEF CacheInv
<1>3. ASSUME NEW a \in Actions, CacheSkip(a) \/ QueryFails(a) PROVE CacheInv'
  <2>0. /\ \/ /\ state[a] = "none" /\ phase = "run"
              /\ state' = [state EXCEPT ![a] = "CACHE_SKIPPED"]
           \/ state[a] = "executing" /\ state' = [state EXCEPT ![a] = "failing"]
        /\ trying' \in {trying, FALSE}
        /\ UNCHANGED <<clock, mtime, stamp, asView, buffered, basis, def, prev, phase, graph, tasks,
                       snap, known, rec, resumed, least, steady>>
    BY <1>3 DEF CacheSkip, QueryFails, Startable
  <2>1. CacheTypes'
    <3>1. state' \in [Actions -> States] /\ trying' \in BOOLEAN
      BY <1>0, <2>0 DEF CacheTypes
    <3> QED
      BY <1>0, <2>0, <3>1 DEF CacheTypes
  <2>2. Recorded'
    BY <1>0, <1>i, <2>0, <2>1 DEF CacheTypes, Recorded
  <2>3. Knowledge'
    <3>1. \A b \in Actions :
            /\ state'[b] = "none" => state[b] = "none"
            /\ (state[b] \in {"executing", "wrote", "failing"}
                  => state'[b] \in {"executing", "wrote", "failing"})
      BY <1>0, <2>0 DEF CacheTypes
    <3> QED
      BY <1>0, <2>0, <3>1 DEF Knowledge
  <2> QED
    BY <1>0, <1>i, <2>0, <2>1, <2>2, <2>3 DEF CacheInv, Times, RecordsAreConservative
<1>4. ASSUME NEW a \in Actions, Start(a) PROVE CacheInv'
  <2>1. CacheTypes'
    BY <1>0, <1>4 DEF CacheTypes, Start
  <2>2. Recorded'
    BY <1>0, <1>4, <1>i, <2>1 DEF CacheTypes, Times, Recorded, Start, Startable
  <2>3. Knowledge'
    BY <1>0, <1>4, <2>1 DEF CacheTypes, Knowledge, Start, Startable
  <2>4. \A b \in Actions : rec'[b].post = rec[b].post
    BY <1>0, <1>4 DEF CacheTypes, Start
  <2>5. UNCHANGED <<Views, warehouseVars, prev, known>>
    BY <1>4 DEF Start
  <2>6. Times' /\ RecordsAreConservative'
    BY <1>0, <1>i, <2>4, <2>5 DEF Times, RecordsAreConservative
  <2> QED
    BY <2>1, <2>2, <2>3, <2>6 DEF CacheInv
<1>5. ASSUME NEW a \in Actions, Query(a) PROVE CacheInv'
  <2>1. CacheTypes'
    <3>1. /\ clock' \in Nat /\ stamp' \in [Targets -> Nat] /\ mtime' \in [Targets -> Nat]
          /\ least' \in [Targets -> Nat] /\ state' \in [Actions -> States]
      BY <1>0, <1>5 DEF CacheTypes, Query, Write
    <3>2. [def |-> def[a], tasks |-> tasks[a],
           in |-> [i \in Targets |-> IF i \in Sees[a] THEN stamp[i] ELSE 0]]
            \in [def : Nat, tasks : Tasks, in : [Targets -> Nat]]
      BY <1>0 DEF CacheTypes
    <3>3. basis' \in [Actions -> [def : Nat, tasks : Tasks, in : [Targets -> Nat]]]
      <4>1. basis \in [Actions -> [def : Nat, tasks : Tasks, in : [Targets -> Nat]]]
        BY <1>0 DEF CacheTypes
      <4> QED
        BY <1>5, <3>2, <4>1 DEF Query
    <3> QED
      BY <1>0, <1>5, <3>1, <3>3 DEF CacheTypes, Query
  <2>2. Times'
    BY <1>0, <1>5, <2>1, ProjectAssumption DEF CacheTypes, Times, Query, Write
  <2>3. Recorded'
    BY <1>0, <1>5, <1>i, <2>1, InputsSeen DEF CacheTypes, Times, Recorded, Query, Write
  <2>4. Knowledge'
    BY <1>0, <1>5, <2>1, ProjectAssumption DEF CacheTypes, Times, Knowledge, Query, Write
  <2>5. RecordsAreConservative'
    BY <1>0, <1>5, <1>i, <2>1 DEF CacheTypes, Times, RecordsAreConservative, Query, Write
  <2> QED
    BY <2>1, <2>2, <2>3, <2>4, <2>5 DEF CacheInv
<1>6. ASSUME NEW a \in Actions, Finish(a) PROVE CacheInv'
  <2>1. PICK time \in {0, mtime[a]} :
          /\ known' = [known EXCEPT !.time[a] = time]
          /\ rec' = [rec EXCEPT ![a].post = time]
    BY <1>6 DEF Finish, Learn, Forget
  <2>2. /\ state[a] \in {"wrote", "failing"}
        /\ state' = [state EXCEPT ![a] = IF @ = "wrote" THEN "SUCCESSFUL" ELSE "FAILED"]
        /\ UNCHANGED <<Views, warehouseVars, def, prev, phase, graph, tasks, snap, counters,
                       resumed, least, steady>>
        /\ trying' \in {trying, FALSE}
    BY <1>6 DEF Finish
  <2>3. CacheTypes'
    <3>1. time \in Nat
      BY <1>0 DEF CacheTypes
    <3>2. known' \in [time : [Targets -> Nat], buffers : SUBSET Sources]
      BY <1>0, <2>1, <3>1 DEF CacheTypes
    <3>3. rec' \in [Actions -> [post : Nat, inputs : [Targets -> Nat]]]
      BY <1>0, <2>1, <3>1 DEF CacheTypes
    <3>4. state' \in [Actions -> States] /\ trying' \in BOOLEAN
      BY <1>0, <2>2 DEF CacheTypes
    <3> QED
      BY <1>0, <2>2, <3>2, <3>3, <3>4 DEF CacheTypes
  <2>4. Times'
    BY <1>0, <2>1, <2>2, <2>3 DEF CacheTypes, Times
  <2>5. Recorded'
    BY <1>0, <1>i, <2>1, <2>2, <2>3 DEF CacheTypes, Recorded
  <2>6. Knowledge'
    BY <1>0, <2>1, <2>2, <2>3 DEF CacheTypes, Times, Knowledge
  <2> QED
    BY <1>0, <1>i, <2>2, <2>3, <2>4, <2>5, <2>6 DEF CacheInv, RecordsAreConservative
<1>7. CASE Build
  <2>1. CacheTypes'
    <3>1. tasks' \in [Actions -> Tasks]
      BY <1>7, TasksArePublished DEF Build
    <3>2. steady' \subseteq Actions /\ trying' \in BOOLEAN
      BY <1>0, <1>7 DEF CacheTypes, Build
    <3> QED
      BY <1>0, <1>7, <3>1, <3>2, ProjectAssumption DEF CacheTypes, Build, Current
  <2>2. Times'
    BY <1>0, <1>7, <2>1 DEF CacheTypes, Times, Build, Current
  <2>3. Recorded'
    BY <1>0, <1>7, <1>i, <2>1 DEF CacheTypes, Recorded, Build
  <2>4. Knowledge'
    BY <1>0, <1>7, <2>1, ProjectAssumption DEF CacheTypes, Times, Knowledge, Build, Current
  <2> QED
    BY <1>0, <1>7, <1>i, <2>1, <2>2, <2>3, <2>4 DEF CacheInv, RecordsAreConservative, Build
<1>8. CASE EndRun
  <2>0. /\ prev' = [a \in Actions |->
              CASE state[a] = "SUCCESSFUL" ->
                     [ok |-> TRUE, def |-> def[a], tasks |-> tasks[a],
                      post |-> rec[a].post, inputs |-> rec[a].inputs]
                [] state[a] = "FAILED" -> NoPrev
                [] OTHER -> prev[a]]
        /\ UNCHANGED <<Views, warehouseVars, def>>
    BY <1>8 DEF EndRun
  <2>r. \A a \in Actions :
          \/ prev'[a] = prev[a]
          \/ prev'[a] = NoPrev
          \/ /\ state[a] = "SUCCESSFUL"
             /\ prev'[a] = [ok |-> TRUE, def |-> def[a], tasks |-> tasks[a],
                            post |-> rec[a].post, inputs |-> rec[a].inputs]
    BY <2>0
  <2>1. CacheTypes'
    <3>1. tasks' \in [Actions -> Tasks] /\ rec' \in [Actions -> [post : Nat, inputs : [Targets -> Nat]]]
      BY <1>8, TasksArePublished DEF EndRun, NoRecord
    <3>2. /\ snap' \in [time : [Targets -> Nat], buffers : SUBSET Sources] /\ known' = snap'
          /\ least' \in [Targets -> Nat]
      BY <1>8 DEF EndRun, NothingKnown
    <3>3. Settled \subseteq Actions
      BY DEF Settled
    <3>4. prev' \in [Actions -> [ok : BOOLEAN, def : Nat, tasks : Tasks, post : Nat,
                                inputs : [Targets -> Nat]]]
      <4> DEFINE P == [ok : BOOLEAN, def : Nat, tasks : Tasks, post : Nat, inputs : [Targets -> Nat]]
      <4>1. NoPrev \in P
        BY TasksArePublished DEF NoPrev
      <4>2. \A a \in Actions : prev[a] \in P
        BY <1>0 DEF CacheTypes
      <4>3. \A a \in Actions : [ok |-> TRUE, def |-> def[a], tasks |-> tasks[a],
                                post |-> rec[a].post, inputs |-> rec[a].inputs] \in P
        <5> SUFFICES ASSUME NEW a \in Actions
                     PROVE  [ok |-> TRUE, def |-> def[a], tasks |-> tasks[a],
                             post |-> rec[a].post, inputs |-> rec[a].inputs] \in P
          OBVIOUS
        <5>1. def[a] \in Nat /\ tasks[a] \in Tasks /\ rec[a] \in [post : Nat, inputs : [Targets -> Nat]]
          BY <1>0 DEF CacheTypes
        <5> QED
          BY <5>1
      <4>4. \A a \in Actions : prev'[a] \in P
        <5> HIDE DEF P
        <5> QED
          BY <2>r, <4>1, <4>2, <4>3
      <4>5. prev' = [a \in Actions |-> prev'[a]]
        BY <2>0
      <4> HIDE DEF P
      <4>6. prev' \in [Actions -> P]
        BY <4>4, <4>5
      <4> QED
        BY <4>6 DEF P
    <3>5. /\ phase' = "idle" /\ graph' = {} /\ resumed' = FALSE /\ trying' = FALSE
          /\ steady' \in {Settled, steady} /\ state' = [a \in Actions |-> "none"]
          /\ UNCHANGED <<Views, warehouseVars, def>>
      BY <1>8 DEF EndRun
    <3> QED
      BY <1>0, <3>1, <3>2, <3>3, <3>4, <3>5 DEF CacheTypes
  <2>2. Times'
    <3>1. \A a \in Actions : prev'[a].post <= clock /\ rec'[a].post <= clock
      BY <1>0, <1>8, <2>r DEF CacheTypes, Times, EndRun, NoPrev, NoRecord
    <3>2. \A t \in Targets : known'.time[t] <= mtime[t]
      BY <1>0, <1>8 DEF CacheTypes, EndRun, NothingKnown
    <3> QED
      BY <1>0, <2>0, <3>1, <3>2 DEF Times
  <2>3. Recorded'
    BY <1>8 DEF Recorded, EndRun
  <2>4. Knowledge'
    BY <1>8 DEF Knowledge, EndRun
  <2>5. RecordsAreConservative'
    BY <1>0, <1>i, <2>0, <2>r DEF CacheTypes, Recorded, RecordsAreConservative, NoPrev
  <2> QED
    BY <2>1, <2>2, <2>3, <2>4, <2>5 DEF CacheInv
<1>9. ASSUME Stop \/ UNCHANGED vars PROVE CacheInv'
  <2>1. /\ UNCHANGED <<clock, mtime, stamp, asView, buffered, basis, def, prev, graph, tasks, snap,
                       known, state, rec, resumed, least, trying, steady>>
        /\ phase' = phase \/ (phase = "run" /\ phase' = "stopped")
    <3>1. CASE Stop
      BY <3>1 DEF Stop
    <3>2. CASE UNCHANGED vars
      BY <3>2 DEF vars
    <3> QED
      BY <1>9, <3>1, <3>2
  <2>2. CacheTypes'
    BY <1>0, <2>1 DEF CacheTypes
  <2>3. Times' /\ RecordsAreConservative'
    BY <1>0, <1>i, <2>1 DEF Times, RecordsAreConservative
  <2>4. Recorded'
    BY <1>0, <1>i, <2>1 DEF Recorded
  <2>5. Knowledge'
    BY <1>0, <2>1 DEF Knowledge
  <2> QED
    BY <2>2, <2>3, <2>4, <2>5 DEF CacheInv
<1>10. CASE Resume
  <2>1. /\ \A a \in Actions : state'[a] \in {state[a], "CACHE_SKIPPED", "FAILED"}
        /\ phase = "stopped" /\ phase' = "run" /\ known' = snap /\ resumed' = TRUE
        /\ UNCHANGED <<Views, warehouseVars, def, prev, graph, tasks, snap, rec, least, steady>>
        /\ trying' = FALSE
        /\ state' \in [Actions -> States]
    BY <1>0, <1>10 DEF Resume, CacheTypes
  <2>2. CacheTypes'
    BY <1>0, <1>10, <2>1 DEF CacheTypes, Resume
  <2>3. Times'
    BY <1>0, <2>1, <2>2 DEF CacheTypes, Times, Knowledge
  <2>4. Recorded'
    BY <1>0, <1>i, <2>1, <2>2 DEF CacheTypes, Recorded
  <2>5. Knowledge'
    BY <1>0, <2>1, <2>2 DEF CacheTypes, Knowledge
  <2> QED
    BY <1>0, <1>i, <2>1, <2>2, <2>3, <2>4, <2>5 DEF CacheInv, RecordsAreConservative
<1> QED
  BY <1>1, <1>2, <1>3, <1>4, <1>5, <1>6, <1>7, <1>8, <1>9, <1>10 DEF Next

LEMMA CacheSound == Spec => []CacheInv
<1>1. Init => CacheInv
  BY InitCache
<1>2. CacheInv /\ [Next]_vars => CacheInv'
  BY NextCache
<1> QED
  BY <1>1, <1>2, PTL DEF Spec

(* What an execution recorded errs on the safe side, whatever is written,  *)
(* streamed or edited while it runs, and however often it is stopped and   *)
(* resumed (run.ts:319-330, 402-417).                                      *)
THEOREM RecordsErrSafely == Spec => []RecordsAreConservative
<1>1. CacheInv => RecordsAreConservative
  BY DEF CacheInv
<1> QED
  BY <1>1, CacheSound, PTL

LEMMA FreshStep ==
  ASSUME CacheInv, [Next]_vars, ~resumed', NEW a \in Actions,
         state[a] # "CACHE_SKIPPED", state'[a] = "CACHE_SKIPPED"
  PROVE  UpToDate(a)
<1>1. CacheTypes /\ Times /\ Recorded /\ Knowledge /\ RecordsAreConservative
  BY DEF CacheInv
<1>2. CacheSkip(a)
  <2>1. ASSUME NEW b \in Actions, CacheSkip(b) PROVE CacheSkip(a)
    BY <1>1, <2>1 DEF CacheSkip, CacheTypes
  <2>2. ASSUME NEW b \in Actions, \/ Edit(b) \/ Start(b) \/ Query(b) \/ QueryFails(b) \/ Finish(b)
        PROVE  FALSE
    <3>1. \E s \in {state[b], "executing", "wrote", "failing", "SUCCESSFUL", "FAILED"} :
            state' = [state EXCEPT ![b] = s]
      <4>1. CASE Edit(b)
        BY <1>1, <4>1 DEF CacheTypes, Edit, runVars
      <4>2. CASE Start(b) \/ Query(b) \/ QueryFails(b) \/ Finish(b)
        BY <1>1, <4>2 DEF CacheTypes, Start, Query, QueryFails, Finish
      <4> QED
        BY <2>2, <4>1, <4>2
    <3> QED
      BY <1>1, <3>1 DEF CacheTypes
  <2>3. ~(\E t \in Targets : ForeignWrite(t) \/ Stream(t)) /\ ~Build /\ ~Stop /\ ~UNCHANGED vars
    BY DEF ForeignWrite, Stream, Build, Stop, runVars, vars
  <2>4. ~EndRun /\ ~Resume
    BY DEF EndRun, Resume
  <2> QED
    BY <2>1, <2>2, <2>3, <2>4 DEF Next
<1>3. /\ phase = "run" /\ state[a] = "none" /\ ~resumed
      /\ prev[a].ok /\ prev[a].def = def[a] /\ prev[a].tasks = tasks[a]
      /\ SameTime(known.time[a], prev[a].post)
      /\ \A i \in Inputs(a) : InputUnchanged(a, i, known)
  BY <1>2 DEF CacheSkip, Startable, ShouldCacheSkip, SameExecutionAction, history
<1>4. mtime[a] = prev[a].post /\ mtime[a] # 0
  BY <1>1, <1>3 DEF Knowledge
<1>5. /\ RightType(a) /\ basis[a].def = def[a] /\ basis[a].tasks = tasks[a]
      /\ \A i \in Inputs(a) : prev[a].inputs[i] <= basis[a].in[i]
  BY <1>1, <1>3, <1>4 DEF RecordsAreConservative
<1>6. ASSUME NEW i \in Inputs(a), ~InProgress(i) PROVE basis[a].in[i] >= least[i]
  <2>1. i \in Targets /\ known.time[i] = prev[a].inputs[i] /\ known.time[i] # 0 /\ i \notin known.buffers
    BY <1>3, InputsSeen DEF InputUnchanged
  <2>2. least[i] <= known.time[i]
    BY <1>1, <1>3, <1>6, <2>1 DEF Knowledge
  <2>3. /\ least[i] \in Nat /\ basis[a].in[i] \in Nat /\ known.time[i] \in Nat
    BY <1>1, <2>1 DEF CacheTypes
  <2> QED
    BY <1>5, <1>6, <2>1, <2>2, <2>3
<1> QED
  BY <1>5, <1>6, InputsSeen DEF UpToDate

(* The cache only skips what a run would not change: in a run that was not *)
(* stopped, with any foreign writes, streamed rows, edits, partial runs,   *)
(* failures and lost metadata before and during it (run.ts:474-556).       *)
THEOREM SkippedIsFresh == Spec => SkipsAreFresh
<1>1. CacheInv /\ [Next]_vars =>
        [~resumed' => \A a \in Actions :
           state[a] # "CACHE_SKIPPED" /\ state'[a] = "CACHE_SKIPPED" => UpToDate(a)]_vars
  BY FreshStep
<1> QED
  BY <1>1, CacheSound, PTL DEF Spec, SkipsAreFresh
-----------------------------------------------------------------------------
Fine(a) == state[a] \in {"SUCCESSFUL", "CACHE_SKIPPED"}

(* The latest record of a is about what the warehouse holds.               *)
UpToRecord(a) ==
  /\ prev[a].ok /\ prev[a].def = def[a]
  /\ prev[a].post = mtime[a] /\ mtime[a] # 0
  /\ \A i \in Inputs(a) : prev[a].inputs[i] = mtime[i]

SourcesExist == \A t \in Sources : mtime[t] # 0 /\ (phase # "idle" => snap.time[t] # 0)

(* While everything is run and nothing has happened, an action that was    *)
(* taken up has inputs that are fine, which stay as it recorded them.      *)
Trying ==
  trying =>
    /\ phase # "idle" /\ graph = Actions
    /\ \A t \in Targets : t \in Sources \/ state[t] # "wrote" => known.time[t] = mtime[t]
    /\ \A a \in Actions :
         /\ state[a] \notin {"failing", "FAILED"}
         /\ state[a] # "none" => \A d \in DepTargets[a] \cap Actions : Fine(d)
         /\ state[a] \in {"executing", "wrote", "SUCCESSFUL"} =>
              \A i \in Inputs(a) : rec[a].inputs[i] = mtime[i]
         /\ state[a] \in {"wrote", "SUCCESSFUL"} => mtime[a] # 0
         /\ state[a] = "SUCCESSFUL" => rec[a].post = mtime[a]
         /\ state[a] = "CACHE_SKIPPED" => UpToRecord(a) /\ prev[a].tasks = tasks[a]

(* What a run would find of a steady action, and what a runner knows of    *)
(* it, is what its latest record says.                                     *)
Recognized(a) ==
  /\ UpToRecord(a) /\ prev[a].tasks = PublishTasks(a, FALSE)
  /\ phase # "idle" =>
       /\ tasks[a] = PublishTasks(a, FALSE)
       /\ snap.buffers = {}
       /\ state[a] \in {"none", "CACHE_SKIPPED"}
       /\ \A t \in Inputs(a) \cup {a} : snap.time[t] = mtime[t] /\ known.time[t] = mtime[t]

Steady ==
  /\ \A a \in steady : ReadsOnly(a, steady)
  /\ buffered = {} => \A a \in steady : Recognized(a)

CalmInv == CacheInv /\ SourcesExist /\ Trying /\ Steady

(* Everything that a query sees has a property if its dependencies have it *)
(* and so have those of the actions that have it.                          *)
LEMMA InputsWithin ==
  ASSUME NEW S \in SUBSET Targets, NEW a \in Actions, DepTargets[a] \subseteq S,
         \A d \in S \cap Actions \cap Views : DepTargets[d] \subseteq S
  PROVE  Inputs(a) \subseteq S
<1>1. Contains(S, a, Views)
  BY DEF Contains
<1>2. Sees[a] = {t \in Targets : \A seen \in SUBSET Targets : Contains(seen, a, Views) => t \in seen}
  BY DEF Sees, SeenThrough
<1> QED
  BY <1>1, <1>2, InputsSeen

LEMMA SteadyReads ==
  ASSUME NEW these \in SUBSET Actions, \A a \in these : ReadsOnly(a, these)
  PROVE  \A a \in these : Inputs(a) \subseteq these \cup (Sources \ Views)
<1> SUFFICES ASSUME NEW a \in these PROVE Inputs(a) \subseteq these \cup (Sources \ Views)
  OBVIOUS
<1> DEFINE S == these \cup (Sources \ Views)
<1>1. S \in SUBSET Targets /\ a \in Actions
  OBVIOUS
<1>2. DepTargets[a] \subseteq S
  BY DEF ReadsOnly
<1>3. \A d \in S \cap Actions \cap Views : DepTargets[d] \subseteq S
  BY ProjectAssumption DEF ReadsOnly
<1> QED
  BY <1>1, <1>2, <1>3, InputsWithin

(* What is settled reads only what is settled.                             *)
LEMMA SettledReads ==
  Settled \subseteq Actions /\ \A a \in Settled : ReadsOnly(a, Settled) /\ SameAgain(a)
<1>1. Settled \subseteq Actions
  BY DEF Settled
<1>2. ASSUME NEW a \in Settled PROVE ReadsOnly(a, Settled) /\ SameAgain(a)
  <2>1. PICK these \in SUBSET Actions :
          a \in these /\ \A b \in these : ReadsOnly(b, these) /\ SameAgain(b)
    BY DEF Settled
  <2>2. these \subseteq Settled
    BY <2>1 DEF Settled
  <2> QED
    BY <2>1, <2>2 DEF ReadsOnly
<1> QED
  BY <1>1, <1>2

(* In a run of everything, an action whose dependencies are fine has only  *)
(* inputs that are known and will not be written again.                    *)
LEMMA TryingInputs ==
  ASSUME CalmInv, trying, NEW a \in Actions,
         \A d \in DepTargets[a] \cap Actions : Fine(d)
  PROVE  \A i \in Inputs(a) : /\ i \in Targets /\ i \in Actions => Fine(i)
                              /\ known.time[i] = mtime[i]
<1> DEFINE S == Sources \cup {d \in Actions : Fine(d)}
<1>1. S \in SUBSET Targets /\ DepTargets[a] \subseteq S
  BY ProjectAssumption
<1>2. \A d \in S \cap Actions \cap Views : DepTargets[d] \subseteq S
  BY ProjectAssumption DEF CalmInv, Trying, Fine
<1>3. Inputs(a) \subseteq S
  BY <1>1, <1>2, InputsWithin
<1> QED
  BY <1>1, <1>3, ProjectAssumption DEF CalmInv, Trying, Fine

LEMMA InitCalm == Init => CalmInv
<1> SUFFICES ASSUME Init PROVE CalmInv
  OBVIOUS
<1>1. CacheInv
  BY InitCache
<1>2. SourcesExist
  BY ProjectAssumption DEF Init, SourcesExist
<1> QED
  BY <1>1, <1>2 DEF Init, CalmInv, Trying, Steady

(* A steady action is skipped.                                             *)
LEMMA SteadySkips ==
  ASSUME CalmInv, buffered = {}, phase # "idle", NEW a \in steady
  PROVE  ShouldCacheSkip(a, known)
<1>1. /\ Recognized(a) /\ ReadsOnly(a, steady)
      /\ Inputs(a) \subseteq steady \cup (Sources \ Views) /\ steady \subseteq Actions
  BY SteadyReads DEF CalmInv, Steady, CacheInv, CacheTypes
<1>2. known.buffers = {}
  BY <1>1 DEF Recognized, CalmInv, CacheInv, Knowledge
<1>3. ASSUME NEW i \in Inputs(a) PROVE InputUnchanged(a, i, known)
  <2>1. known.time[i] = mtime[i] /\ prev[a].inputs[i] = mtime[i]
    BY <1>1 DEF Recognized, UpToRecord
  <2>2. mtime[i] # 0
    BY <1>1 DEF CalmInv, Steady, Recognized, UpToRecord, SourcesExist
  <2>3. i \notin NonTableDeclarations
    BY <1>1, ProjectAssumption DEF NonTableDeclarations, CalmInv, SourcesExist
  <2> QED
    BY <1>2, <2>1, <2>2, <2>3 DEF InputUnchanged
<1>4. a \in Hermetic /\ prev[a].ok /\ SameExecutionAction(a) /\ SameTime(known.time[a], prev[a].post)
  BY <1>1 DEF Recognized, UpToRecord, ReadsOnly, SameExecutionAction
<1> QED
  BY <1>3, <1>4 DEF ShouldCacheSkip

(* A step is harmless to the steady actions if it leaves alone what makes  *)
(* them recognizable.                                                      *)
LEMMA StaysRecognized ==
  ASSUME CalmInv, CacheInv', Views' = Views, UNCHANGED <<def, phase, tasks, snap, steady, buffered>>,
         buffered = {} => \A b \in steady :
           /\ prev'[b] = prev[b]
           /\ b \in asView' <=> b \in asView
           /\ phase # "idle" => state'[b] \in {"none", "CACHE_SKIPPED"}
           /\ \A t \in Inputs(b) \cup {b} :
                /\ mtime'[t] = mtime[t]
                /\ phase # "idle" => known'.time[t] \in {known.time[t], snap.time[t]}
  PROVE  Steady'
<1>1. \A b \in steady : ReadsOnly(b, steady)'
  BY DEF CalmInv, Steady, ReadsOnly
<1>2. steady \subseteq Actions
  BY DEF CalmInv, CacheInv, CacheTypes
<1>3. ASSUME buffered = {}, NEW b \in steady PROVE Recognized(b)'
  <2>1. Recognized(b)
    BY <1>3 DEF CalmInv, Steady
  <2>2. Inputs(b)' = Inputs(b)
    BY <1>2, SameInputs
  <2>3. mtime'[b] = mtime[b] /\ PublishTasks(b, FALSE)' = PublishTasks(b, FALSE)
    BY <1>3 DEF PublishTasks, Exists
  <2>4. UpToRecord(b)'
    BY <1>3, <2>1, <2>2 DEF Recognized, UpToRecord
  <2> QED
    BY <1>3, <2>1, <2>2, <2>3, <2>4 DEF Recognized
<1> QED
  BY <1>1, <1>3 DEF Steady

LEMMA NextCalm == CalmInv /\ [Next]_vars => CalmInv'
<1> SUFFICES ASSUME CalmInv, [Next]_vars PROVE CalmInv'
  OBVIOUS
<1> USE DEF warehouseVars, runVars, counters, history
<1>0. /\ CacheInv /\ CacheTypes /\ Times /\ Recorded /\ Knowledge
      /\ SourcesExist /\ Trying /\ Steady /\ CacheInv' /\ CacheTypes' /\ Recorded'
  BY NextCache DEF CalmInv, CacheInv
<1>i. /\ Views' = Views /\ steady \subseteq Actions
      /\ \A a \in Actions : Inputs(a)' = Inputs(a) /\ Inputs(a) \subseteq Targets
      /\ \A a \in steady : Inputs(a) \cup {a} \subseteq steady \cup Sources
  <2>1. Views' = Views
    BY DEF Next, vars, ForeignWrite, Stream, Edit, CacheSkip, Start, Query, QueryFails, Finish,
           Build, EndRun, Stop, Resume
  <2>2. steady \subseteq Actions /\ \A a \in steady : ReadsOnly(a, steady)
    BY <1>0 DEF CacheTypes, Steady
  <2> QED
    BY <2>1, <2>2, SameInputs, InputsSeen, SteadyReads
<1>b. ASSUME NEW a \in Actions, phase # "idle", state[a] \notin {"none", "CACHE_SKIPPED"}, buffered = {}
      PROVE  a \notin steady
  BY <1>0, <1>b DEF Steady, Recognized
<1>k. ASSUME phase # "idle", buffered = {}, NEW b \in steady
      PROVE  state[b] \in {"none", "CACHE_SKIPPED"}
  BY <1>0, <1>k DEF Steady, Recognized
<1> USE DEF Fine, UpToRecord
<1>1. CASE UNCHANGED vars
  <2>1. Steady'
    BY <1>0, <1>1, <1>i, <1>k, StaysRecognized DEF vars
  <2> QED
    BY <1>0, <1>i, <1>1, <2>1 DEF vars, CalmInv, SourcesExist, Trying
<1>2. CASE SomethingHappens /\ SourcesExist'
  BY <1>0, <1>2 DEF SomethingHappens, CalmInv, Trying, Steady
<1>3. ASSUME NEW t \in Targets, ForeignWrite(t) \/ Stream(t) PROVE CalmInv'
  <2>1. SourcesExist'
    BY <1>0, <1>3 DEF SourcesExist, CacheTypes, ForeignWrite, Stream, Write
  <2> QED
    BY <1>2, <1>3, <2>1 DEF ForeignWrite, Stream
<1>4. ASSUME NEW a \in Actions, Edit(a) PROVE CalmInv'
  <2>1. SourcesExist'
    BY <1>0, <1>4 DEF SourcesExist, Edit
  <2> QED
    BY <1>2, <1>4, <2>1 DEF Edit
<1>5. ASSUME NEW a \in Actions, CacheSkip(a) PROVE CalmInv'
  <2>1. /\ phase = "run" /\ Startable(a) /\ ShouldCacheSkip(a, known)
        /\ state' = [state EXCEPT ![a] = "CACHE_SKIPPED"]
        /\ UNCHANGED <<warehouseVars, def, prev, phase, graph, tasks, snap, known, rec, trying, steady>>
    BY <1>5 DEF CacheSkip
  <2>2. SourcesExist' /\ Steady'
    <3>1. \A b \in Actions : state'[b] \in {state[b], "CACHE_SKIPPED"}
      BY <1>0, <2>1 DEF CacheTypes
    <3>2. Steady'
      BY <1>0, <1>i, <1>k, <2>1, <3>1, StaysRecognized
    <3> QED
      BY <1>0, <2>1, <3>2 DEF SourcesExist
  <2>3. ASSUME trying
        PROVE  /\ UpToRecord(a) /\ prev[a].tasks = tasks[a]
               /\ \A d \in DepTargets[a] \cap Actions : Fine(d)
    <3>1. \A d \in DepTargets[a] \cap Actions : Fine(d)
      BY <1>0, <2>1, <2>3 DEF Trying, Startable
    <3>2. \A i \in Inputs(a) : known.time[i] = mtime[i]
      BY <2>3, <3>1, TryingInputs
    <3>3. known.time[a] = mtime[a] /\ SameTime(known.time[a], prev[a].post)
          /\ prev[a].ok /\ prev[a].def = def[a] /\ prev[a].tasks = tasks[a]
      BY <1>0, <2>1, <2>3 DEF Trying, Startable, ShouldCacheSkip, SameExecutionAction
    <3>4. \A i \in Inputs(a) : known.time[i] = prev[a].inputs[i]
      BY <2>1 DEF ShouldCacheSkip, InputUnchanged
    <3> QED
      BY <3>1, <3>2, <3>3, <3>4
  <2>4. Trying'
    <3> SUFFICES ASSUME trying PROVE Trying'
      BY <2>1 DEF Trying
    <3>1. state[a] = "none" /\ state'[a] = "CACHE_SKIPPED"
          /\ \A b \in Actions \ {a} : state'[b] = state[b]
      BY <1>0, <2>1 DEF CacheTypes, Startable
    <3>2. \A b \in Actions : Fine(b) => Fine(b)'
      BY <3>1
    <3>3. /\ UpToRecord(a)' /\ \A b \in Actions : UpToRecord(b) => UpToRecord(b)'
          /\ UNCHANGED <<prev, tasks>>
      BY <1>i, <2>1, <2>3
    <3>4. \A t \in Targets : t \in Sources \/ state'[t] # "wrote" => known'.time[t] = mtime'[t]
      BY <1>0, <2>1, <3>1, ProjectAssumption DEF Trying
    <3> QED
      BY <1>0, <1>i, <2>1, <2>3, <3>1, <3>2, <3>3, <3>4 DEF Trying
  <2> QED
    BY <1>0, <2>2, <2>4 DEF CalmInv
<1>6. ASSUME NEW a \in Actions, Start(a) PROVE CalmInv'
  <2>1. /\ phase = "run" /\ Startable(a) /\ ~ShouldCacheSkip(a, known)
        /\ state' = [state EXCEPT ![a] = "executing"]
        /\ rec' = [rec EXCEPT ![a].inputs =
                     [i \in Targets |-> IF i \in Inputs(a) THEN known.time[i] ELSE 0]]
        /\ UNCHANGED <<warehouseVars, def, prev, phase, graph, tasks, snap, known, trying, steady>>
    BY <1>6 DEF Start
  <2>2. SourcesExist'
    BY <1>0, <2>1 DEF SourcesExist
  <2>3. Steady'
    <3>1. buffered = {} => a \notin steady
      BY <2>1, SteadySkips
    <3>2. \A b \in Actions \ {a} : state'[b] = state[b]
      BY <1>0, <2>1 DEF CacheTypes
    <3> QED
      BY <1>0, <1>i, <1>k, <2>1, <3>1, <3>2, StaysRecognized
  <2>4. ASSUME trying
        PROVE  /\ \A d \in DepTargets[a] \cap Actions : Fine(d)
               /\ \A i \in Inputs(a) : known.time[i] = mtime[i]
    <3>1. \A d \in DepTargets[a] \cap Actions : Fine(d)
      BY <1>0, <2>1, <2>4 DEF Trying, Startable
    <3> QED
      BY <2>4, <3>1, TryingInputs
  <2>5. /\ \A i \in Inputs(a) : rec'[a].inputs[i] = known.time[i]
        /\ \A b \in Actions \ {a} : rec'[b] = rec[b]
    BY <1>0, <1>i, <2>1 DEF CacheTypes
  <2>6. Trying'
    BY <1>0, <1>i, <2>1, <2>4, <2>5, ProjectAssumption DEF Trying, CacheTypes, Startable
  <2> QED
    BY <1>0, <2>2, <2>3, <2>6 DEF CalmInv
<1>7. ASSUME NEW a \in Actions, Query(a) PROVE CalmInv'
  <2>1. /\ phase # "idle" /\ state[a] = "executing"
        /\ clock' = clock + 1 /\ mtime' = [mtime EXCEPT ![a] = clock + 1]
        /\ asView' = (asView \ {a}) \cup ({a} \cap Views)
        /\ state' = [state EXCEPT ![a] = "wrote"]
        /\ UNCHANGED <<buffered, def, prev, phase, graph, tasks, snap, known, rec, trying, steady>>
    BY <1>7 DEF Query, Write
  <2>2. clock + 1 # 0 /\ \A t \in Targets \ {a} : mtime'[t] = mtime[t]
    BY <1>0, <2>1 DEF CacheTypes
  <2>3. SourcesExist'
    BY <1>0, <2>1, <2>2, ProjectAssumption DEF SourcesExist
  <2>4. Steady'
    <3>1. a \notin Sources /\ (buffered = {} => a \notin steady)
      BY <1>b, <2>1, ProjectAssumption
    <3>2. \A b \in Actions \ {a} : state'[b] = state[b]
      BY <1>0, <2>1 DEF CacheTypes
    <3>3. buffered = {} => \A b \in steady : \A t \in Inputs(b) \cup {b} : mtime'[t] = mtime[t]
      BY <1>i, <2>2, <3>1
    <3> QED
      BY <1>0, <1>i, <1>k, <2>1, <3>1, <3>2, <3>3, StaysRecognized
  <2>5. ASSUME trying, NEW b \in Actions, state[b] # "none" PROVE a \notin Inputs(b)
    BY <1>0, <2>1, <2>5, TryingInputs DEF Trying
  <2>6. Trying'
    BY <1>0, <1>i, <2>1, <2>2, <2>5, ProjectAssumption DEF Trying, CacheTypes
  <2> QED
    BY <1>0, <2>3, <2>4, <2>6 DEF CalmInv
<1>8. ASSUME NEW a \in Actions, Finish(a) PROVE CalmInv'
  <2>1. /\ state[a] \in {"wrote", "failing"}
        /\ state' = [state EXCEPT ![a] = IF @ = "wrote" THEN "SUCCESSFUL" ELSE "FAILED"]
        /\ UNCHANGED <<warehouseVars, def, prev, phase, graph, tasks, snap, steady>>
    BY <1>8 DEF Finish
  <2>2. SourcesExist'
    BY <1>0, <2>1 DEF SourcesExist
  <2>3. \E time : /\ known' = [known EXCEPT !.time[a] = time]
                  /\ rec' = [rec EXCEPT ![a].post = time]
    BY <1>8 DEF Finish, Learn, Forget
  <2>4. Steady'
    <3>1. \A t \in Targets \ {a} : known'.time[t] = known.time[t]
      BY <1>0, <2>3 DEF CacheTypes
    <3>2. a \notin Sources /\ phase # "idle" /\ (buffered = {} => a \notin steady)
      BY <1>0, <1>b, <2>1, ProjectAssumption DEF Recorded
    <3>3. \A b \in Actions \ {a} : state'[b] = state[b]
      BY <1>0, <2>1 DEF CacheTypes
    <3>4. buffered = {} => \A b \in steady : \A t \in Inputs(b) \cup {b} : known'.time[t] = known.time[t]
      BY <1>i, <3>1, <3>2
    <3> QED
      BY <1>0, <1>i, <1>k, <2>1, <3>2, <3>3, <3>4, StaysRecognized
  <2>5. Trying'
    <3> SUFFICES ASSUME trying' PROVE Trying'
      BY DEF Trying
    <3>1. /\ known' = [known EXCEPT !.time[a] = mtime[a]]
          /\ rec' = [rec EXCEPT ![a].post = mtime[a]]
          /\ trying
      BY <1>8 DEF Finish, Learn
    <3>2. /\ known'.time[a] = mtime[a]
          /\ \A t \in Targets \ {a} : known'.time[t] = known.time[t]
          /\ rec'[a].post = mtime[a] /\ rec'[a].inputs = rec[a].inputs
          /\ \A b \in Actions \ {a} : rec'[b] = rec[b]
      BY <1>0, <3>1 DEF CacheTypes
    <3> QED
      BY <1>0, <1>i, <2>1, <3>1, <3>2, ProjectAssumption DEF Trying, CacheTypes
  <2> QED
    BY <1>0, <2>2, <2>4, <2>5 DEF CalmInv
<1>9. CASE Build
  <2>1. /\ phase = "idle" /\ phase' = "run" /\ known' = snap' /\ snap' = Current
        /\ tasks' \in [Actions -> Tasks] /\ (trying' => graph' = Actions)
        /\ steady' = IF \E a \in steady : tasks'[a] # PublishTasks(a, FALSE) THEN {} ELSE steady
        /\ UNCHANGED <<Views, warehouseVars, def, prev, state, rec>>
    BY <1>0, <1>9 DEF Build, CacheTypes
  <2>2. \A a \in Actions : state[a] = "none"
    BY <1>0, <2>1 DEF Recorded
  <2>3. SourcesExist'
    BY <1>0, <2>1 DEF SourcesExist, Current
  <2>4. Steady'
    <3>1. CASE steady' = {}
      BY <3>1 DEF Steady
    <3>2. CASE steady' = steady /\ \A a \in steady : tasks'[a] = PublishTasks(a, FALSE)
      <4>1. \A a \in steady' : ReadsOnly(a, steady)'
        BY <1>0, <2>1, <3>2 DEF Steady, ReadsOnly
      <4>2. ASSUME buffered = {}, NEW a \in steady PROVE Recognized(a)'
        <5>1. Recognized(a) /\ Inputs(a)' = Inputs(a) /\ state[a] = "none"
          BY <1>0, <1>i, <2>2, <4>2 DEF Steady
        <5>2. PublishTasks(a, FALSE)' = PublishTasks(a, FALSE)
          BY <2>1 DEF PublishTasks, Exists
        <5>3. snap'.buffers = {} /\ snap'.time = mtime /\ known'.time = mtime
          BY <2>1, <4>2 DEF Current
        <5>4. UpToRecord(a)'
          BY <2>1, <5>1 DEF Recognized
        <5>5. \A t \in Inputs(a) \cup {a} : snap'.time[t] = mtime'[t] /\ known'.time[t] = mtime'[t]
          BY <2>1, <5>3
        <5> HIDE DEF UpToRecord
        <5> QED
          BY <2>1, <3>2, <4>2, <5>1, <5>2, <5>3, <5>4, <5>5 DEF Recognized
      <4> QED
        BY <2>1, <3>2, <4>1, <4>2 DEF Steady
    <3> QED
      BY <2>1, <3>1, <3>2
  <2>5. Trying'
    BY <1>0, <1>i, <2>1, <2>2, ProjectAssumption DEF Trying, Current
  <2> QED
    BY <1>0, <2>3, <2>4, <2>5 DEF CalmInv
<1>10. CASE EndRun
  <2>1. /\ phase = "run" /\ phase' = "idle" /\ trying' = FALSE
        /\ prev' = [a \in Actions |->
              CASE state[a] = "SUCCESSFUL" ->
                     [ok |-> TRUE, def |-> def[a], tasks |-> tasks[a],
                      post |-> rec[a].post, inputs |-> rec[a].inputs]
                [] state[a] = "FAILED" -> NoPrev
                [] OTHER -> prev[a]]
        /\ steady' = IF trying /\ \A a \in Actions : Fine(a) THEN Settled ELSE steady
        /\ UNCHANGED <<Views, warehouseVars, def>>
    BY <1>10 DEF EndRun
  <2>2. SourcesExist' /\ Trying'
    BY <1>0, <2>1 DEF SourcesExist, Trying
  <2>3. \A a \in Actions : PublishTasks(a, FALSE)' = PublishTasks(a, FALSE)
    BY <2>1 DEF PublishTasks, Exists
  <2>4. CASE trying /\ \A a \in Actions : Fine(a)
    <3>1. steady' = Settled /\ \A a \in Settled : ReadsOnly(a, steady)'
      BY <2>1, <2>4, SettledReads DEF ReadsOnly
    <3>2. ASSUME NEW a \in Settled PROVE Recognized(a)'
      <4>1. a \in Actions /\ tasks[a] = PublishTasks(a, FALSE)' /\ Fine(a) /\ Inputs(a)' = Inputs(a)
        BY <1>i, <2>3, <2>4, SettledReads DEF SameAgain
      <4>2. CASE state[a] = "SUCCESSFUL"
        <5>1. prev'[a] = [ok |-> TRUE, def |-> def[a], tasks |-> tasks[a],
                          post |-> rec[a].post, inputs |-> rec[a].inputs]
          BY <2>1, <4>1, <4>2
        <5>2. /\ mtime[a] # 0 /\ rec[a].post = mtime[a]
              /\ \A i \in Inputs(a) : rec[a].inputs[i] = mtime[i]
          BY <1>0, <2>4, <4>1, <4>2 DEF Trying
        <5>3. /\ prev'[a].ok /\ prev'[a].def = def'[a] /\ prev'[a].post = mtime'[a] /\ mtime'[a] # 0
              /\ prev'[a].tasks = tasks[a] /\ prev'[a].inputs = rec[a].inputs /\ mtime' = mtime
          BY <2>1, <5>1, <5>2
        <5>4. UpToRecord(a)'
          BY <4>1, <5>2, <5>3
        <5> QED
          BY <2>1, <4>1, <5>3, <5>4 DEF Recognized
      <4>3. CASE state[a] = "CACHE_SKIPPED"
        <5>1. prev'[a] = prev[a]
          BY <2>1, <4>1, <4>3
        <5>2. UpToRecord(a) /\ prev[a].tasks = tasks[a]
          BY <1>0, <2>4, <4>1, <4>3 DEF Trying
        <5> QED
          BY <2>1, <4>1, <5>1, <5>2 DEF Recognized
      <4> QED
        BY <4>1, <4>2, <4>3
    <3> QED
      BY <1>0, <2>2, <3>1, <3>2 DEF CalmInv, Steady
  <2>5. CASE ~(trying /\ \A a \in Actions : Fine(a))
    <3>1. steady' = steady /\ \A a \in steady : ReadsOnly(a, steady)'
      BY <1>0, <2>1, <2>5 DEF Steady, ReadsOnly
    <3>2. ASSUME buffered = {}, NEW a \in steady PROVE Recognized(a)'
      <4>1. a \in Actions /\ Recognized(a) /\ Inputs(a)' = Inputs(a)
        BY <1>0, <1>i, <3>2 DEF Steady
      <4>2. prev'[a] = prev[a]
        BY <2>1, <4>1 DEF Recognized
      <4>3. PublishTasks(a, FALSE)' = PublishTasks(a, FALSE)
        BY <2>3, <4>1
      <4> QED
        BY <2>1, <4>1, <4>2, <4>3 DEF Recognized
    <3> QED
      BY <1>0, <2>1, <2>2, <3>1, <3>2 DEF CalmInv, Steady
  <2> QED
    BY <2>4, <2>5
<1>11. CASE Stop
  <2>1. UNCHANGED <<Views, warehouseVars, def, prev, graph, tasks, snap, known, state, rec, trying, steady>>
        /\ phase = "run" /\ phase' = "stopped"
    BY <1>11 DEF Stop
  <2>2. Trying' /\ SourcesExist'
    BY <1>0, <1>i, <2>1 DEF Trying, SourcesExist
  <2>3. \A a \in steady : PublishTasks(a, FALSE)' = PublishTasks(a, FALSE)
    BY <2>1 DEF PublishTasks, Exists
  <2>4. ASSUME buffered = {}, NEW a \in steady PROVE Recognized(a)'
    <3>1. a \in Actions /\ Recognized(a) /\ Inputs(a)' = Inputs(a)
      BY <1>0, <1>i, <2>4 DEF Steady
    <3>2. PublishTasks(a, FALSE)' = PublishTasks(a, FALSE)
      BY <2>3
    <3> QED
      BY <2>1, <3>1, <3>2 DEF Recognized
  <2>5. Steady'
    BY <1>0, <2>1, <2>4 DEF Steady, ReadsOnly
  <2> QED
    BY <1>0, <2>2, <2>5 DEF CalmInv
<1>12. CASE Resume
  <2>1. /\ phase = "stopped" /\ phase' = "run" /\ known' = snap /\ trying' = FALSE
        /\ UNCHANGED <<Views, warehouseVars, def, prev, graph, tasks, snap, rec, steady>>
        /\ \A a \in Actions : state[a] \in {"none", "CACHE_SKIPPED"} => state'[a] = state[a]
    BY <1>12 DEF Resume
  <2>2. Trying' /\ SourcesExist'
    BY <1>0, <2>1 DEF Trying, SourcesExist
  <2>3. \A a \in steady : PublishTasks(a, FALSE)' = PublishTasks(a, FALSE)
    BY <2>1 DEF PublishTasks, Exists
  <2>4. ASSUME buffered = {}, NEW a \in steady PROVE Recognized(a)'
    <3>1. Recognized(a) /\ Inputs(a)' = Inputs(a) /\ a \in Actions
      BY <1>0, <1>i, <2>4 DEF Steady
    <3> QED
      BY <2>1, <2>3, <3>1 DEF Recognized
  <2>5. Steady'
    BY <1>0, <2>1, <2>4 DEF Steady, ReadsOnly
  <2> QED
    BY <1>0, <2>2, <2>5 DEF CalmInv
<1>13. ASSUME NEW a \in Actions, QueryFails(a) PROVE CalmInv'
  <2>1. /\ state[a] = "executing" /\ state' = [state EXCEPT ![a] = "failing"] /\ trying' = FALSE
        /\ UNCHANGED <<Views, warehouseVars, def, prev, phase, graph, tasks, snap, known, rec, steady>>
    BY <1>13 DEF QueryFails
  <2>2. Trying' /\ SourcesExist'
    BY <1>0, <2>1 DEF Trying, SourcesExist
  <2>3. phase # "idle" /\ (buffered = {} => a \notin steady)
    BY <1>0, <1>b, <2>1 DEF Recorded
  <2>4. \A b \in Actions \ {a} : state'[b] = state[b]
    BY <1>0, <2>1 DEF CacheTypes
  <2>5. Steady'
    BY <1>0, <1>i, <1>k, <2>1, <2>3, <2>4, StaysRecognized
  <2> QED
    BY <1>0, <2>2, <2>5 DEF CalmInv
<1> QED
  BY <1>1, <1>3, <1>4, <1>5, <1>6, <1>7, <1>8, <1>9, <1>10, <1>11, <1>12, <1>13 DEF Next

(* What the cache is for: when everything was run and nothing happened     *)
(* since, a hermetic action is not executed again in runs of any           *)
(* selection, stopped and resumed or not, whatever becomes of the others,  *)
(* if its tasks and those of what it reads would be made the same again    *)
(* (run.ts:474-556, build.ts:104-122).                                     *)
THEOREM UnchangedIsNotRun == Spec => []UnchangedIsSkipped
<1>1. CalmInv => UnchangedIsSkipped
  <2> SUFFICES ASSUME CalmInv, NEW a \in steady, buffered = {} PROVE ~InProgress(a)
    BY DEF UnchangedIsSkipped
  <2>1. Recognized(a) /\ a \in Actions
    BY DEF CalmInv, Steady, CacheInv, CacheTypes
  <2> QED
    BY <2>1 DEF CalmInv, CacheInv, Recorded, Recognized
<1>2. Init => CalmInv
  BY InitCalm
<1>3. CalmInv /\ [Next]_vars => CalmInv'
  BY NextCalm
<1> QED
  BY <1>1, <1>2, <1>3, PTL DEF Spec
=============================================================================
