---------------------------- MODULE ServicesProofs ----------------------------
(***************************************************************************)
(* What surrounds the executor, for any number of calls, processes, suites *)
(* and tests and any result: a cancelled or finished query leaves nothing  *)
(* behind, a green run of tests has run them all, and a cache that breaks  *)
(* is not noticed.                                                         *)
(***************************************************************************)
EXTENDS MCServices, FiniteSetTheorems, SequenceTheorems, TLAPS

-----------------------------------------------------------------------------
(* The statement runs exactly while the promise waits for it; handlers are *)
(* the adapter's, hence none before it was called; a handler is registered *)
(* only without an earlier cancel, and one that was called has stopped the *)
(* statement.                                                              *)
QueryInv ==
  /\ QueryTypeOK
  /\ query = "executing" <=> statement = "running"
  /\ query \in {"new", "compiling"} => handlers = 0 /\ ~heard
  /\ query = "new" => child = "none"
  /\ heard => statement # "running"
  /\ NothingOutlivesAQuery

LEMMA InitQuery == QueryInit => QueryInv
  BY DEF QueryInit, QueryInv, QueryTypeOK, NothingOutlivesAQuery

LEMMA NextQuery == QueryInv /\ [QueryNext]_queryVars => QueryInv'
<1> SUFFICES ASSUME QueryInv, [QueryNext]_queryVars PROVE QueryInv'
  OBVIOUS
<1> USE DEF QueryInv, QueryTypeOK, NothingOutlivesAQuery, AtAdapter, AtChild
<1>1. CASE RunQuery
  BY <1>1 DEF RunQuery
<1>2. CASE ChildAnswers \/ ChildErrors \/ ChildExits
  <2>1. /\ child \in {"compiling", "answered"} /\ child' \in {"answered", "exited"}
        /\ query # "new" /\ (query = "compiling" \/ child' = "exited")
        /\ UNCHANGED <<compiles, compilation, timer, query, statement, handlers, heard, cancelled>>
    BY <1>2 DEF ChildAnswers, ChildErrors, ChildExits
  <2> QED
    BY <2>1
<1>3. ASSUME NEW ok \in BOOLEAN, NEW over \in {"cleared", "fired"}, query = "compiling",
             CompileEnds(ok, over), compilation' \in {"pending", "resolved", "rejected"},
             UNCHANGED <<compiles, cancelled, handlers, heard>>
      PROVE  QueryInv'
  BY <1>3 DEF CompileEnds, AfterKill
<1>4. CASE ParentHears
  <2> DEFINE outcome == CASE Head(events) = "string" -> "resolved"
                          [] Head(events) \in {"error", "close 1"} -> "rejected"
                          [] OTHER -> "pending"
  <2>1. CASE compilation = "pending" /\ outcome # "pending" /\ query = "compiling"
    <3>1. /\ compilation' = outcome /\ outcome \in {"resolved", "rejected"}
          /\ CompileEnds(outcome = "resolved", "cleared")
          /\ UNCHANGED <<compiles, cancelled, handlers, heard>>
      BY <1>4, <2>1 DEF ParentHears
    <3> QED
      BY <1>3, <2>1, <3>1
  <2>2. CASE ~(compilation = "pending" /\ outcome # "pending" /\ query = "compiling")
    <3>1. /\ UNCHANGED <<compiles, child, timer, query, statement, cancelled, handlers, heard>>
          /\ compilation' \in {compilation, "resolved", "rejected"}
      BY <1>4, <2>2 DEF ParentHears
    <3> QED
      BY <3>1
  <2> QED
    BY <2>1, <2>2
<1>5. CASE CompileTimesOut
  <2>1. /\ query = "compiling" /\ CompileEnds(FALSE, "fired")
        /\ UNCHANGED <<compiles, compilation, cancelled, handlers, heard>>
    BY <1>5 DEF CompileTimesOut
  <2> QED
    BY <2>1 DEF CompileEnds, AfterKill
<1>6. CASE OnCancel
  BY <1>6 DEF OnCancel, Stopped
<1>7. CASE Cancel
  <2>1. CASE handlers = 1
    BY <1>7, <2>1 DEF Cancel, Stopped
  <2>2. CASE handlers = 0
    BY <1>7, <2>2 DEF Cancel
  <2> QED
    BY <2>1, <2>2
<1>8. CASE StatementEnds
  <2>1. CASE statement' = "done"
    BY <1>8, <2>1 DEF StatementEnds
  <2>2. CASE statement' = "failed"
    BY <1>8, <2>2 DEF StatementEnds
  <2> QED
    BY <1>8, <2>1, <2>2 DEF StatementEnds
<1>9. CASE UNCHANGED queryVars
  BY <1>9 DEF queryVars
<1> QED
  BY <1>1, <1>2, <1>4, <1>5, <1>6, <1>7, <1>8, <1>9 DEF QueryNext, QueryStep

(* In every order of a cancel, the adapter's registration of its handler,  *)
(* the compiler's answers and its timeout: once the adapter listens, a     *)
(* cancelled statement does not run on, and no compiler outlives its       *)
(* query (cancellable_promise.ts:17-27, compile.ts:109-119).               *)
THEOREM NothingIsLeftBehind == QuerySpec => []NothingOutlivesAQuery
<1>1. QueryInv => NothingOutlivesAQuery
  BY DEF QueryInv
<1> QED
  BY <1>1, InitQuery, NextQuery, PTL DEF QuerySpec

-----------------------------------------------------------------------------
(* What is over has ended for a reason that is in the results: parts that  *)
(* were not waited for come after a failed set up, and a test that ran has *)
(* the result of the attempt that is its last.                             *)
SuiteOK(s) ==
  suiteAt[s] \in {"tearDown", "over"} =>
    (\A k \in DOMAIN Parts[s] : Over(Parts[s][k])) \/ <<s, "hook", "failed">> \in results

TestOK(t) ==
  race[t] = "over" /\ t \in matching =>
    \/ <<t, "test", "failed">> \in results
    \/ <<t, "test", "passed">> \in results /\ place[t][attempt[t]] = "over"

TestsInv ==
  /\ TestTypeOK
  /\ \A s \in Suites : SuiteOK(s)
  /\ \A t \in Tests : TestOK(t)
  /\ exitCode = 0 =>
       (\A r \in results : r[3] = "passed") /\ (\A s \in TopLevel : suiteAt[s] = "over")

LEMMA InitTests == TestInit => TestsInv
  BY TestAssumption DEF TestInit, TestsInv, TestTypeOK, SuiteOK, TestOK, Attempts

(* A step of suites or tests: nothing that is over begins again, and the   *)
(* results only grow.                                                      *)
LEMMA OverStaysOver ==
  ASSUME TestTypeOK, \A s \in Suites : SuiteOK(s),
         \A s \in Suites : suiteAt[s] = "over" => suiteAt'[s] = "over",
         \A t \in Tests : race[t] = "over" => race'[t] = "over",
         results \subseteq results',
         NEW s \in Suites, suiteAt'[s] = suiteAt[s] \/ suiteAt[s] = "tearDown"
  PROVE  SuiteOK(s)'
<1>1. ASSUME NEW k \in DOMAIN Parts[s], Over(Parts[s][k]) PROVE Over(Parts[s][k])'
  <2>1. Parts[s][k] \in Suites \cup Tests
    BY TestAssumption
  <2> QED
    BY <1>1, <2>1 DEF Over
<1> QED
  BY <1>1 DEF SuiteOK

LEMMA SuiteSteps ==
  ASSUME TestsInv, exitCode = 2, NEW s \in Suites, NEW o \in Outcomes,
         StartSuite(s) \/ SetUpEnds(s, o) \/ BodyEnds(s) \/ TearDownEnds(s, o)
  PROVE  TestsInv'
<1> USE DEF TestsInv, StartSuite, SetUpEnds, BodyEnds, TearDownEnds, HookResults, Outcomes
<1>1. TestTypeOK'
  BY DEF TestTypeOK
<1>2. /\ results \subseteq results' /\ UNCHANGED <<matching, attempt, place, race, exitCode>>
      /\ \A r \in Suites : suiteAt[r] = "over" => suiteAt'[r] = "over"
  BY DEF TestTypeOK
<1>3. ASSUME NEW r \in Suites PROVE SuiteOK(r)'
  <2>1. CASE suiteAt'[r] = suiteAt[r] \/ suiteAt[r] = "tearDown"
    BY <1>2, <2>1, OverStaysOver
  <2>2. CASE ~(suiteAt'[r] = suiteAt[r] \/ suiteAt[r] = "tearDown")
    <3>1. r = s
      BY <2>2 DEF TestTypeOK
    <3>2. CASE BodyEnds(s)
      <4>1. ASSUME NEW k \in DOMAIN Parts[s] PROVE Over(Parts[s][k])'
        <5>1. Parts[s][k] \in Suites \cup Tests
          BY TestAssumption
        <5> QED
          BY <1>2, <3>2, <5>1 DEF Over
      <4> QED
        BY <3>1, <4>1 DEF SuiteOK
    <3>3. CASE ~BodyEnds(s)
      BY <3>1, <3>3, <2>2 DEF SuiteOK, TestTypeOK
    <3> QED
      BY <3>2, <3>3
  <2> QED
    BY <2>1, <2>2
<1>4. \A t \in Tests : TestOK(t)'
  BY <1>2 DEF TestOK
<1> QED
  BY <1>1, <1>2, <1>3, <1>4

Places == {"none", "beforeEach", "body", "afterEach", "afterThrow", "over"}

LEMMA PlaceType ==
  ASSUME NEW f \in [Tests -> [Attempts -> Places]], NEW t \in Tests, NEW i \in Attempts, NEW p \in Places
  PROVE  [f EXCEPT ![t][i] = p] \in [Tests -> [Attempts -> Places]]
  OBVIOUS

LEMMA DecidedType ==
  ASSUME TestTypeOK, NEW t \in Tests, NEW o \in Outcomes, NEW pushed,
         NEW at \in [Tests -> [Attempts -> Places]], Decided(t, o, at, pushed)
  PROVE  place' \in [Tests -> [Attempts -> Places]] /\ attempt' \in [Tests -> Attempts]
<1>1. CASE o = "passed" \/ attempt[t] = Retries
  BY <1>1 DEF Decided, TestTypeOK
<1>2. CASE ~(o = "passed" \/ attempt[t] = Retries)
  <2>1. attempt[t] + 1 \in Attempts
    BY <1>2, TestAssumption DEF TestTypeOK, Attempts
  <2>2. place' \in [Tests -> [Attempts -> Places]]
    <3>1. "beforeEach" \in Places
      BY DEF Places
    <3> QED
      BY <1>2, <2>1, <3>1, PlaceType DEF Decided
  <2> QED
    BY <1>2, <2>1, <2>2 DEF Decided, TestTypeOK
<1> QED
  BY <1>1, <1>2

(* An attempt whose race is decided is the current one; what goes on       *)
(* beside it moves only from a place that is not over.                     *)
LEMMA TestSteps ==
  ASSUME TestsInv, exitCode = 2, NEW t \in Tests, NEW i \in Attempts, NEW o \in Outcomes,
         \/ StartTest(t) \/ TestTimesOut(t)
         \/ BeforeEachEnds(t, i, o) \/ TestBodyEnds(t, i) \/ AfterEachEnds(t, i, o)
  PROVE  TestsInv'
<1> USE DEF TestsInv, Outcomes
<1> USE TestAssumption DEF Attempts
<1>1. TestTypeOK'
  <2>1. place' \in [Tests -> [Attempts -> Places]] /\ attempt' \in [Tests -> Attempts]
    <3>1. place \in [Tests -> [Attempts -> Places]] /\ 0 \in Attempts
      BY DEF Places, TestTypeOK
    <3>2. CASE StartTest(t)
      BY <3>1, <3>2, PlaceType DEF StartTest, Places, TestTypeOK
    <3>3. CASE TestTimesOut(t)
      BY <3>1, <3>3, DecidedType DEF TestTimesOut
    <3>4. ASSUME NEW to \in Places, MoveTo(t, i, to) PROVE <2>1
      BY <3>1, <3>4, PlaceType DEF MoveTo, TestTypeOK
    <3>5. ASSUME NEW p \in Outcomes, NEW pushed, AttemptEnds(t, i, p, pushed) PROVE <2>1
      <4>1. [place EXCEPT ![t][i] = "over"] \in [Tests -> [Attempts -> Places]]
        BY <3>1, PlaceType DEF Places
      <4>2. CASE Decided(t, p, [place EXCEPT ![t][i] = "over"], pushed)
        BY <4>1, <4>2, DecidedType DEF TestsInv
      <4>3. CASE place' = [place EXCEPT ![t][i] = "over"] /\ UNCHANGED attempt
        BY <4>1, <4>3 DEF TestTypeOK
      <4> QED
        BY <3>5, <4>2, <4>3 DEF AttemptEnds
    <3>6. {"body", "afterEach", "afterThrow"} \subseteq Places
      BY DEF Places
    <3> QED
      BY <3>2, <3>3, <3>4, <3>5, <3>6 DEF BeforeEachEnds, TestBodyEnds, AfterEachEnds
  <2>2. /\ race' \in [Tests -> {"new", "running", "over"}]
        /\ results' \subseteq (Tests \cup Suites) \X {"hook", "test"} \X Outcomes
        /\ UNCHANGED <<parallel, matching, suiteAt, exitCode>>
    BY DEF TestTypeOK, StartTest, TestTimesOut, BeforeEachEnds, TestBodyEnds, AfterEachEnds,
           Decided, MoveTo, AttemptEnds, HookResults
  <2> QED
    BY <2>1, <2>2 DEF Places, TestTypeOK
<1>2. /\ results \subseteq results' /\ UNCHANGED <<matching, suiteAt, exitCode>>
      /\ \A r \in Tests : race[r] = "over" => race'[r] = "over" /\ attempt'[r] = attempt[r]
      /\ \A r \in Tests : r # t => UNCHANGED <<race[r], attempt[r], place[r]>>
  BY DEF TestTypeOK, StartTest, TestTimesOut, BeforeEachEnds, TestBodyEnds, AfterEachEnds,
         Decided, MoveTo, AttemptEnds, HookResults
<1>3. ASSUME NEW r \in Suites PROVE SuiteOK(r)'
  BY <1>2, OverStaysOver
<1>4. TestOK(t)'
  <2>1. CASE race[t] = "over"
    <3>1. place[t][attempt[t]] = "over" => place'[t][attempt[t]] = "over"
      BY <2>1 DEF TestTypeOK, StartTest, TestTimesOut, BeforeEachEnds, TestBodyEnds, AfterEachEnds,
                  MoveTo, AttemptEnds
    <3> QED
      BY <1>2, <2>1, <3>1 DEF TestOK
  <2>2. CASE race[t] # "over" /\ race'[t] = "over"
    <3>1. \/ t \notin matching \/ <<t, "test", "failed">> \in results'
          \/ <<t, "test", "passed">> \in results' /\ place'[t][attempt'[t]] = "over"
      BY <2>2 DEF TestTypeOK, StartTest, TestTimesOut, BeforeEachEnds, TestBodyEnds, AfterEachEnds,
                  Decided, MoveTo, AttemptEnds
    <3> QED
      BY <1>2, <3>1 DEF TestOK
  <2> QED
    BY <2>1, <2>2 DEF TestOK
<1>5. ASSUME NEW r \in Tests, r # t PROVE TestOK(r)'
  BY <1>2, <1>5 DEF TestOK
<1> QED
  BY <1>1, <1>2, <1>3, <1>4, <1>5

LEMMA NextTests == TestsInv /\ [TestNext]_testVars => TestsInv'
<1> SUFFICES ASSUME TestsInv, [TestNext]_testVars PROVE TestsInv'
  OBVIOUS
<1>1. ASSUME exitCode = 2, NEW s \in Suites, NEW o \in Outcomes,
             SuiteStep(s) \/ SetUpEnds(s, o) \/ TearDownEnds(s, o)
      PROVE  TestsInv'
  BY <1>1, SuiteSteps DEF SuiteStep
<1>2. ASSUME exitCode = 2, NEW t \in Tests, NEW i \in Attempts, NEW o \in Outcomes,
             TestStep(t) \/ TestBodyEnds(t, i) \/ BeforeEachEnds(t, i, o) \/ AfterEachEnds(t, i, o)
      PROVE  TestsInv'
  BY <1>2, TestSteps DEF TestStep
<1>3. CASE RunnerEnds
  BY <1>3 DEF RunnerEnds, TestsInv, TestTypeOK, SuiteOK, TestOK, Over, TopLevel
<1>4. CASE UNCHANGED testVars
  BY <1>4 DEF testVars, TestsInv, TestTypeOK, SuiteOK, TestOK, Over
<1>5. "passed" \in Outcomes /\ 0 \in Attempts
  BY TestAssumption DEF Outcomes, Attempts
<1> QED
  BY <1>1, <1>2, <1>3, <1>4, <1>5 DEF TestNext

(* Without a failed hook every suite is over: a first one that is not      *)
(* would be in one that is.                                                *)
LEMMA GreenTests == TestsInv => GreenMeansAllPassed
<1> SUFFICES ASSUME TestsInv, exitCode = 0, NEW t \in matching
             PROVE  <<t, "test", "passed">> \in results /\ place[t][attempt[t]] = "over"
  BY DEF GreenMeansAllPassed
<1>1. /\ t \in Tests
      /\ \A p : <<p, "hook", "failed">> \notin results /\ <<p, "test", "failed">> \notin results
  BY DEF TestsInv, TestTypeOK
<1>2. ASSUME NEW s \in Suites, suiteAt[s] = "over", NEW p \in Suites \cup Tests, HasPart(s, p)
      PROVE  Over(p)
  BY <1>1, <1>2 DEF TestsInv, SuiteOK, HasPart
<1>3. \A s \in Suites : suiteAt[s] = "over"
  <2> DEFINE Open == {s \in Suites : suiteAt[s] # "over"}
  <2> SUFFICES ASSUME Open # {} PROVE FALSE
    OBVIOUS
  <2>1. PICK s \in Open : \A p \in Open : ~HasPart(p, s)
    BY TestAssumption
  <2>2. PICK p \in Suites : HasPart(p, s)
    BY <2>1 DEF TopLevel, TestsInv
  <2>3. suiteAt[p] = "over"
    BY <2>1, <2>2
  <2> QED
    BY <1>2, <2>1, <2>2, <2>3 DEF Over
<1>4. race[t] = "over"
  BY <1>1, <1>2, <1>3, TestAssumption DEF Over
<1> QED
  BY <1>1, <1>4 DEF TestsInv, TestOK

(* For any tree of suites, tests and retries: whatever of set ups, hooks   *)
(* and attempts fails, is timed out or goes on behind a timeout, a run     *)
(* that exits with 0 has run every test it was asked for, and the last     *)
(* attempt of each has passed (runner.ts:93-107, suite.ts:84-106,          *)
(* test.ts:55-103).                                                        *)
THEOREM GreenIsEarned == TestInit /\ [][TestNext]_testVars => []GreenMeansAllPassed
  BY InitTests, NextTests, GreenTests, PTL
-----------------------------------------------------------------------------
(* The cache.  What is in Redis or on its way there was calculated.        *)
Left(v) == \E g \in Gets : calc[g] = "ok" /\ v = calculated[g]

Commands == [op : {"get", "set", "del"}, by : Gets \cup {"nobody"}, value : 0..MaxVersion]
Answers ==
  {Pending} \cup {Value(v) : v \in 0..MaxVersion}
    \cup {Error(e) : e \in {"cache", "calculation", "invalidation"}}

CacheTypes ==
  /\ callbacks \in BOOLEAN /\ forced \subseteq Gets
  /\ version \in Versions /\ entry \in 0..MaxVersion
  /\ wire \in [Clients -> Seq(Commands)]
  /\ up \subseteq Clients
  /\ getAt \in [Gets -> {"new", "deleting", "racing", "over"}]
  /\ calc \in [Gets -> {"none", "sleeping", "running", "ok", "failed"}]
  /\ calculated \in [Gets -> 0..MaxVersion]
  /\ lookup \in [Gets -> {"none", "sent", "hit", "failed"}]
  /\ lastError \in [Gets -> {"undefined", "cache", "calculation"}]
  /\ answer \in [Gets -> Answers]

(* A command that waits for an answer is the only one of its call, on the  *)
(* connection of the call's process.                                       *)
CommandOK(c, command) ==
  CASE command.op = "set" -> Left(command.value)
    [] command.op = "get" -> /\ command.by \in Gets /\ c = ClientOf[command.by]
                             /\ lookup[command.by] = "sent"
    [] command.op = "del" -> /\ command.value = 0
                             /\ command.by \in Gets =>
                                  c = ClientOf[command.by] /\ getAt[command.by] = "deleting"

Awaits(command) == command.op # "set" /\ command.by \in Gets

WiresOK(w) ==
  \A c \in Clients : \A k \in DOMAIN w[c] :
    /\ CommandOK(c, w[c][k])
    /\ \A j \in DOMAIN w[c] :
         Awaits(w[c][k]) /\ w[c][j].by = w[c][k].by /\ w[c][j].op = w[c][k].op => j = k

(* A race goes on until one of the two has a value, or both have failed.   *)
GetOK(g) ==
  /\ getAt[g] \in {"new", "deleting"} => calc[g] = "none" /\ lookup[g] = "none"
  /\ getAt[g] = "deleting" => g \in forced
  /\ getAt[g] = "racing" => calc[g] # "none" /\ lookup[g] # "none"
  /\ answer[g] = Pending <=> getAt[g] # "over"
  /\ calc[g] = "none" <=> lookup[g] = "none"
  /\ calc[g] = "ok" \/ lookup[g] = "hit" \/ (calc[g] = "failed" /\ lookup[g] = "failed") =>
       getAt[g] = "over"
  /\ answer[g].kind = "error" =>
       IF answer[g].error = "invalidation" THEN g \in forced /\ calc[g] = "none"
       ELSE calc[g] = "failed" /\ lookup[g] = "failed"
  /\ answer[g].kind = "value" =>
       \/ calc[g] = "ok" /\ answer[g].value = calculated[g]
       \/ lookup[g] = "hit" /\ callbacks /\ Left(answer[g].value)

CacheInv ==
  /\ CacheTypes
  /\ entry = 0 \/ Left(entry)
  /\ \A g \in Gets : GetOK(g)
  /\ WiresOK(wire)

LEMMA InitCache == RedisInit => CacheInv
  BY RedisAssumption DEF RedisInit, CacheInv, CacheTypes, Versions, Answers, Pending, GetOK, WiresOK

(* What was calculated stays so, and so does what waits for an answer.     *)
LEMMA KeepOK ==
  ASSUME NEW w \in [Clients -> Seq(Commands)], WiresOK(w),
         \A h \in Gets : calc[h] = "ok" => calc'[h] = "ok" /\ calculated'[h] = calculated[h],
         \A c \in Clients : \A k \in DOMAIN w[c] : w[c][k].by \in Gets =>
           /\ w[c][k].op = "get" => lookup'[w[c][k].by] = lookup[w[c][k].by]
           /\ w[c][k].op = "del" => getAt'[w[c][k].by] = getAt[w[c][k].by]
  PROVE  WiresOK(w)'
<1>1. \A v : Left(v) => Left(v)'
  BY DEF Left
<1>2. ASSUME NEW c \in Clients, NEW k \in DOMAIN w[c] PROVE CommandOK(c, w[c][k])'
  <2>1. CommandOK(c, w[c][k])
    BY DEF WiresOK
  <2>2. w[c][k] \in Commands
    OBVIOUS
  <2> QED
    BY <1>1, <2>1, <2>2 DEF CommandOK, Commands
<1>3. \A c \in Clients : \A k, j \in DOMAIN w[c] :
        Awaits(w[c][k])' /\ w[c][j].by = w[c][k].by /\ w[c][j].op = w[c][k].op => j = k
  BY DEF WiresOK, Awaits
<1> QED
  BY <1>2, <1>3 DEF WiresOK

LEMMA SameWires ==
  ASSUME NEW w, WiresOK(w)', wire' = w
  PROVE  WiresOK(wire)'
  BY DEF WiresOK

(* A command that is sent, when nothing like it waits for an answer.       *)
LEMMA SentOK ==
  ASSUME NEW w \in [Clients -> Seq(Commands)], WiresOK(w)', NEW c \in Clients, NEW m \in Commands,
         wire' = Sent(w, c, m), CommandOK(c, m)',
         \A k \in DOMAIN w[c] : Awaits(m) => ~(w[c][k].by = m.by /\ w[c][k].op = m.op)
  PROVE  wire' \in [Clients -> Seq(Commands)] /\ WiresOK(wire)'
<1>1. CASE c \notin up
  BY <1>1 DEF Sent
<1>2. CASE c \in up
  <2>1. wire' = [w EXCEPT ![c] = Append(w[c], m)]
    BY <1>2 DEF Sent
  <2>2. /\ wire' \in [Clients -> Seq(Commands)]
        /\ \A d \in Clients : d # c => wire'[d] = w[d]
        /\ wire'[c] = Append(w[c], m)
    BY <2>1
  <2>3. ASSUME NEW k \in DOMAIN wire'[c]
        PROVE  (k \in DOMAIN w[c] /\ wire'[c][k] = w[c][k]) \/ (k = Len(w[c]) + 1 /\ wire'[c][k] = m)
    <3> DEFINE q == w[c]
    <3>1. q \in Seq(Commands) /\ wire'[c] = Append(q, m)
      BY <2>2
    <3> HIDE DEF q
    <3>2. (k \in DOMAIN q /\ Append(q, m)[k] = q[k]) \/ (k = Len(q) + 1 /\ Append(q, m)[k] = m)
      <4>1. Append(q, m) \in Seq(Commands) /\ Len(Append(q, m)) = Len(q) + 1 /\ Len(q) \in Nat
        BY <3>1, AppendProperties
      <4>2. DOMAIN Append(q, m) = 1..(Len(q) + 1) /\ DOMAIN q = 1..Len(q)
        BY <3>1, <4>1
      <4>3. k \in DOMAIN Append(q, m)
        BY <3>1
      <4>4. k \in 1..Len(q) \/ k = Len(q) + 1
        BY <4>1, <4>2, <4>3
      <4>5. (\A i \in 1..Len(q) : Append(q, m)[i] = q[i]) /\ Append(q, m)[Len(q) + 1] = m
        BY <3>1, AppendProperties
      <4> QED
        BY <4>2, <4>4, <4>5
    <3> QED
      BY <3>1, <3>2 DEF q
  <2>4. ASSUME NEW d \in Clients, NEW k \in DOMAIN wire'[d] PROVE CommandOK(d, wire[d][k])'
    BY <2>2, <2>3 DEF WiresOK
  <2>5. ASSUME NEW d \in Clients, NEW k \in DOMAIN wire'[d], NEW j \in DOMAIN wire'[d],
               Awaits(wire[d][k])', wire'[d][j].by = wire'[d][k].by, wire'[d][j].op = wire'[d][k].op
        PROVE  j = k
    <3>1. CASE d # c
      BY <2>2, <2>5, <3>1 DEF WiresOK, Awaits
    <3>2. CASE d = c
      <4>1. /\ (k \in DOMAIN w[c] /\ wire'[c][k] = w[c][k]) \/ (k = Len(w[c]) + 1 /\ wire'[c][k] = m)
            /\ (j \in DOMAIN w[c] /\ wire'[c][j] = w[c][j]) \/ (j = Len(w[c]) + 1 /\ wire'[c][j] = m)
        BY <2>3, <3>2
      <4>2. \A i, l \in DOMAIN w[c] :
               Awaits(w[c][i]) /\ w[c][l].by = w[c][i].by /\ w[c][l].op = w[c][i].op => l = i
        BY DEF WiresOK, Awaits
      <4> QED
        BY <2>5, <3>2, <4>1, <4>2 DEF Awaits
    <3> QED
      BY <3>1, <3>2
  <2> QED
    BY <2>2, <2>4, <2>5 DEF WiresOK
<1> QED
  BY <1>1, <1>2

(* A command that is taken, after which nothing like it waits.             *)
LEMMA TakenOK ==
  ASSUME CacheInv, NEW c \in Clients, wire[c] # <<>>, NEW rest, rest = [wire EXCEPT ![c] = Tail(@)]
  PROVE  /\ rest \in [Clients -> Seq(Commands)] /\ WiresOK(rest)
         /\ Head(wire[c]) \in Commands /\ CommandOK(c, Head(wire[c]))
         /\ \A d \in Clients : \A k \in DOMAIN rest[d] :
              /\ Awaits(Head(wire[c])) /\ rest[d][k].by = Head(wire[c]).by => rest[d][k].op # Head(wire[c]).op
<1> USE DEF CacheInv, CacheTypes
<1>1. /\ rest \in [Clients -> Seq(Commands)] /\ Head(wire[c]) \in Commands
      /\ \A d \in Clients : d # c => rest[d] = wire[d]
      /\ rest[c] = Tail(wire[c]) /\ 1 \in DOMAIN wire[c] /\ Head(wire[c]) = wire[c][1]
  OBVIOUS
<1>2. ASSUME NEW k \in DOMAIN rest[c] PROVE k + 1 \in DOMAIN wire[c] /\ rest[c][k] = wire[c][k + 1] /\ k \in Nat \ {0}
  BY <1>1
<1>3. WiresOK(rest)
  <2>1. ASSUME NEW d \in Clients, NEW k \in DOMAIN rest[d] PROVE CommandOK(d, rest[d][k])
    BY <1>1, <1>2 DEF WiresOK
  <2>2. ASSUME NEW d \in Clients, NEW k \in DOMAIN rest[d], NEW j \in DOMAIN rest[d],
               Awaits(rest[d][k]), rest[d][j].by = rest[d][k].by, rest[d][j].op = rest[d][k].op
        PROVE  j = k
    <3>1. CASE d = c
      <4>1. /\ k + 1 \in DOMAIN wire[c] /\ rest[c][k] = wire[c][k + 1]
            /\ j + 1 \in DOMAIN wire[c] /\ rest[c][j] = wire[c][j + 1]
            /\ k \in Nat /\ j \in Nat
        BY <1>2, <3>1
      <4>2. k + 1 = j + 1
        BY <2>2, <3>1, <4>1 DEF WiresOK
      <4> QED
        BY <4>1, <4>2
    <3>2. CASE d # c
      BY <1>1, <2>2, <3>2 DEF WiresOK
    <3> QED
      BY <3>1, <3>2
  <2> QED
    BY <2>1, <2>2 DEF WiresOK
<1>4. CommandOK(c, Head(wire[c]))
  BY <1>1 DEF WiresOK
<1>5. ASSUME NEW d \in Clients, NEW k \in DOMAIN rest[d],
             Awaits(Head(wire[c])), rest[d][k].by = Head(wire[c]).by, rest[d][k].op = Head(wire[c]).op
      PROVE  FALSE
  <2>1. CASE d = c
    <3>1. k + 1 \in DOMAIN wire[c] /\ rest[c][k] = wire[c][k + 1] /\ k \in Nat \ {0}
      BY <1>2, <2>1
    <3>2. 1 = k + 1
      BY <1>1, <1>5, <2>1, <3>1 DEF WiresOK
    <3> QED
      BY <3>1, <3>2
  <2>2. CASE d # c
    <3>1. CommandOK(d, rest[d][k]) /\ rest[d][k] \in Commands
      BY <1>1, <1>3 DEF WiresOK
    <3> DEFINE h == Head(wire[c])
               m == rest[d][k]
    <3>2. CommandOK(d, m) /\ CommandOK(c, h) /\ Awaits(h) /\ m.by = h.by /\ m.op = h.op /\ h \in Commands
      BY <1>1, <1>4, <1>5, <3>1
    <3> HIDE DEF h, m
    <3>3. h.by \in Gets /\ h.op \in {"get", "del"}
      BY <3>2 DEF Awaits, Commands
    <3>4. d = ClientOf[h.by] /\ c = ClientOf[h.by]
      BY <3>2, <3>3 DEF CommandOK
    <3> QED
      BY <2>2, <3>4
  <2> QED
    BY <2>1, <2>2
<1> QED
  BY <1>1, <1>3, <1>4, <1>5

LEMMA Kinds ==
  /\ Pending.kind = "pending"
  /\ \A v : Value(v).kind = "value" /\ Value(v).value = v /\ Value(v) # Pending
  /\ \A e : Error(e).kind = "error" /\ Error(e).error = e /\ Error(e) # Pending
  BY DEF Pending, Value, Error

LEMMA AnswerTypes ==
  /\ Pending \in Answers
  /\ \A v \in 0..MaxVersion : Value(v) \in Answers
  /\ \A e \in {"cache", "calculation", "invalidation"} : Error(e) \in Answers
  BY DEF Answers

(* The calls that a step leaves alone.                                     *)
LEMMA OthersOK ==
  ASSUME NEW h \in Gets, GetOK(h), \A v : Left(v) => Left(v)',
         UNCHANGED <<callbacks, forced, getAt[h], calc[h], lookup[h], answer[h]>>,
         calc[h] = "ok" => calculated'[h] = calculated[h]
  PROVE  GetOK(h)'
  BY DEF GetOK

LEMMA LeftStays ==
  ASSUME \A h \in Gets : calc[h] = "ok" => calc'[h] = "ok" /\ calculated'[h] = calculated[h]
  PROVE  \A v : Left(v) => Left(v)'
  BY DEF Left

(* Lookup and calculation are started: nothing of the call waits in w.     *)
LEMMA RaceStarts ==
  ASSUME CacheTypes, \A h \in Gets : GetOK(h), NEW g \in Gets, getAt[g] \in {"new", "deleting"},
         NEW w \in [Clients -> Seq(Commands)], WiresOK(w), StartRace(g, w),
         \A c \in Clients : \A k \in DOMAIN w[c] : w[c][k].by = g => w[c][k].op \notin {"get", "del"},
         UNCHANGED <<callbacks, forced, version, up, calculated>>,
         entry' \in {0, entry}, entry = 0 \/ Left(entry)
  PROVE  CacheInv'
<1> USE DEF CacheTypes
<1>1. ClientOf[g] \in Clients /\ calc[g] = "none" /\ lookup[g] = "none" /\ answer[g] = Pending
  BY RedisAssumption DEF GetOK
<1>2. /\ calc' = [calc EXCEPT ![g] = "sleeping"] /\ getAt' = [getAt EXCEPT ![g] = "racing"]
      /\ lookup' = [lookup EXCEPT ![g] = IF ClientOf[g] \in up THEN "sent" ELSE "failed"]
      /\ lastError' \in [Gets -> {"undefined", "cache", "calculation"}] /\ UNCHANGED answer
      /\ wire' = Sent(w, ClientOf[g], Command("get", g, 0))
  BY DEF StartRace
<1>3. \A v : Left(v) => Left(v)'
  BY <1>1, <1>2 DEF Left
<1>4. WiresOK(w)'
  BY <1>1, <1>2, KeepOK, Zenon
<1>5. wire' \in [Clients -> Seq(Commands)] /\ WiresOK(wire)'
  <2>1. CASE ClientOf[g] \in up
    <3>1. Command("get", g, 0) \in Commands /\ CommandOK(ClientOf[g], Command("get", g, 0))'
      BY <1>1, <1>2, <2>1, RedisAssumption DEF Command, Commands, CommandOK
    <3>2. \A k \in DOMAIN w[ClientOf[g]] : ~(w[ClientOf[g]][k].by = Command("get", g, 0).by
                                             /\ w[ClientOf[g]][k].op = Command("get", g, 0).op)
      BY <1>1 DEF Command
    <3> QED
      BY <1>1, <1>2, <1>4, <3>1, <3>2, SentOK
  <2>2. CASE ClientOf[g] \notin up
    <3>1. wire' = w
      BY <1>2, <2>2 DEF Sent
    <3> QED
      BY <1>4, <3>1 DEF WiresOK
  <2> QED
    BY <2>1, <2>2
<1>6. GetOK(g)'
  BY <1>1, <1>2 DEF GetOK, Pending
<1>7. ASSUME NEW h \in Gets, h # g PROVE GetOK(h)'
  BY <1>2, <1>3, <1>7, OthersOK
<1>8. CacheTypes'
  BY <1>2, <1>5, RedisAssumption
<1> QED
  BY <1>3, <1>5, <1>6, <1>7, <1>8 DEF CacheInv

(* A value that was calculated is sent to Redis at most once more.         *)
LEMMA ValueIsSent ==
  ASSUME CacheTypes, NEW g \in Gets, NEW v \in 0..MaxVersion, Left(v)',
         NEW w \in [Clients -> Seq(Commands)], WiresOK(w)', Succeeded(g, v, w)
  PROVE  wire' \in [Clients -> Seq(Commands)] /\ WiresOK(wire)'
<1>1. CASE wire' = w
  BY <1>1 DEF WiresOK
<1>2. CASE wire' = Sent(w, ClientOf[g], Command("set", g, v))
  <2>1. /\ Command("set", g, v) \in Commands /\ ClientOf[g] \in Clients
        /\ CommandOK(ClientOf[g], Command("set", g, v))' /\ ~Awaits(Command("set", g, v))
    BY RedisAssumption DEF Command, Commands, CommandOK, Awaits
  <2> QED
    BY <1>2, <2>1, SentOK
<1> QED
  BY <1>1, <1>2 DEF Succeeded

LEMMA CalculationSteps ==
  ASSUME CacheInv, NEW g \in Gets, Calculate(g) \/ CalculationEnds(g) \/ CalculationFails(g)
  PROVE  CacheInv'
<1> USE DEF CacheInv
<1>1. /\ calc[g] \in {"sleeping", "running"} /\ getAt[g] \in {"racing", "over"}
      /\ calc' = [calc EXCEPT ![g] = calc'[g]] /\ calc'[g] \in {"running", "ok", "failed"}
      /\ \A h \in Gets : h # g => UNCHANGED <<getAt[h], calculated[h], answer[h]>>
      /\ UNCHANGED <<callbacks, forced, version, entry, up, lookup, spent>>
  <2> USE DEF GetOK, CacheTypes
  <2>1. CASE Calculate(g)
    BY <2>1 DEF Calculate
  <2>2. CASE CalculationEnds(g)
    BY <2>2 DEF CalculationEnds, Succeeded
  <2>3. CASE CalculationFails(g)
    BY <2>3 DEF CalculationFails, Failed
  <2> QED
    BY <2>1, <2>2, <2>3
<1>2. \A h \in Gets : calc[h] = "ok" => calc'[h] = "ok" /\ calculated'[h] = calculated[h]
  BY <1>1 DEF CacheTypes
<1>3. \A v : Left(v) => Left(v)'
  BY <1>2, LeftStays
<1>4. WiresOK(wire) /\ wire \in [Clients -> Seq(Commands)]
  BY DEF CacheTypes
<1>5. ASSUME NEW c \in Clients, NEW k \in DOMAIN wire[c], wire[c][k].by \in Gets, wire[c][k].op = "del"
      PROVE  getAt'[wire[c][k].by] = getAt[wire[c][k].by]
  BY <1>1, <1>5 DEF WiresOK, CommandOK
<1> PICK w : w = wire
  OBVIOUS
<1>6. WiresOK(w)' /\ w \in [Clients -> Seq(Commands)]
  <2>1. \A c \in Clients : \A k \in DOMAIN w[c] : w[c][k].by \in Gets =>
           /\ w[c][k].op = "get" => lookup'[w[c][k].by] = lookup[w[c][k].by]
           /\ w[c][k].op = "del" => getAt'[w[c][k].by] = getAt[w[c][k].by]
    BY <1>1, <1>5
  <2>2. WiresOK(w)
    BY <1>4
  <2> QED
    BY <1>2, <1>4, <2>1, <2>2, KeepOK
<1>7. wire' \in [Clients -> Seq(Commands)] /\ WiresOK(wire)'
  <2>1. CASE UNCHANGED wire
    BY <1>6, <2>1 DEF WiresOK
  <2>2. CASE CalculationEnds(g)
    <3>1. Left(calculated[g])' /\ calculated[g] \in 0..MaxVersion /\ Succeeded(g, calculated[g], w)
      BY <2>2 DEF CalculationEnds, Left, CacheTypes
    <3> PICK v : v = calculated[g]
      OBVIOUS
    <3>2. Left(v)' /\ v \in 0..MaxVersion /\ Succeeded(g, v, w)
      BY <2>2, <3>1 DEF CalculationEnds, Left
    <3> QED
      BY <1>6, <3>2, ValueIsSent
  <2> QED
    BY <2>1, <2>2 DEF Calculate, CalculationFails
<1>8. CacheTypes'
  <2>1. /\ calculated' \in [Gets -> 0..MaxVersion] /\ calc' \in [Gets -> {"none", "sleeping", "running", "ok", "failed"}]
        /\ getAt' \in [Gets -> {"new", "deleting", "racing", "over"}]
        /\ lastError' \in [Gets -> {"undefined", "cache", "calculation"}]
    <3> USE DEF CacheTypes, Versions
    <3>1. CASE Calculate(g)
      BY <3>1 DEF Calculate
    <3>2. CASE CalculationEnds(g)
      BY <3>2 DEF CalculationEnds, Succeeded
    <3>3. CASE CalculationFails(g)
      BY <3>3 DEF CalculationFails, Failed
    <3> QED
      BY <3>1, <3>2, <3>3
  <2>2. answer' \in [Gets -> Answers]
    <3> USE AnswerTypes DEF CacheTypes
    <3>1. CASE Calculate(g)
      BY <3>1 DEF Calculate
    <3>2. CASE CalculationEnds(g)
      <4>1. Value(calculated[g]) \in Answers
        OBVIOUS
      <4> QED
        BY <3>2, <4>1 DEF CalculationEnds, Succeeded
    <3>3. CASE CalculationFails(g)
      BY <3>3 DEF CalculationFails, Failed
    <3> QED
      BY <3>1, <3>2, <3>3
  <2> QED
    BY <1>1, <1>7, <2>1, <2>2 DEF CacheTypes, Versions
<1>9. GetOK(g)'
  <2> USE Kinds DEF GetOK, CacheTypes
  <2>1. CASE Calculate(g)
    BY <1>1, <1>3, <2>1 DEF Calculate
  <2>2. CASE CalculationEnds(g)
    BY <1>1, <1>3, <2>2 DEF CalculationEnds, Succeeded
  <2>3. CASE CalculationFails(g)
    BY <1>1, <1>3, <2>3 DEF CalculationFails, Failed
  <2> QED
    BY <2>1, <2>2, <2>3
<1>10. ASSUME NEW h \in Gets, h # g PROVE GetOK(h)'
  <2>1. calc'[h] = calc[h]
    BY <1>1, <1>10 DEF CacheTypes
  <2> QED
    BY <1>1, <1>3, <1>10, <2>1, OthersOK
<1> QED
  BY <1>1, <1>3, <1>7, <1>8, <1>9, <1>10

LEMMA GetSteps ==
  ASSUME CacheInv, NEW g \in Gets, Get(g)
  PROVE  CacheInv'
<1>1. /\ ClientOf[g] \in Clients /\ getAt[g] = "new" /\ calc[g] = "none" /\ lookup[g] = "none"
      /\ \A c \in Clients : \A k \in DOMAIN wire[c] :
           wire[c][k].by = g => wire[c][k].op \notin {"get", "del"}
  BY RedisAssumption DEF CacheInv, Get, GetOK, WiresOK, CommandOK
<1> PICK w : w = wire
  OBVIOUS
<1>2. CASE g \notin forced
  <2>1. StartRace(g, w) /\ w \in [Clients -> Seq(Commands)] /\ WiresOK(w)
    BY <1>2 DEF Get, CacheInv, CacheTypes
  <2>2. UNCHANGED <<callbacks, forced, version, up, calculated>> /\ entry' \in {0, entry}
    BY DEF Get
  <2> QED
    BY <1>1, <2>1, <2>2, RaceStarts DEF CacheInv
<1>3. CASE g \in forced
  <2>1. /\ UNCHANGED <<callbacks, forced, version, entry, up, calc, calculated, lookup, lastError>>
        /\ \A h \in Gets : h # g => UNCHANGED <<getAt[h], answer[h]>>
    BY <1>3 DEF Get, DelFails, CacheInv, CacheTypes
  <2>2. \A v : Left(v) => Left(v)'
    BY <2>1, LeftStays
  <2>3. WiresOK(w)' /\ w \in [Clients -> Seq(Commands)]
    <3>1. WiresOK(w) /\ w \in [Clients -> Seq(Commands)]
      BY DEF CacheInv, CacheTypes
    <3>2. \A c \in Clients : \A k \in DOMAIN w[c] : w[c][k].by \in Gets =>
            /\ w[c][k].op = "get" => lookup'[w[c][k].by] = lookup[w[c][k].by]
            /\ w[c][k].op = "del" => getAt'[w[c][k].by] = getAt[w[c][k].by]
      BY <1>1, <2>1
    <3> QED
      BY <2>1, <3>1, <3>2, KeepOK
  <2>4. ASSUME NEW h \in Gets, h # g PROVE GetOK(h)'
    BY <2>1, <2>2, <2>4, OthersOK DEF CacheInv
  <2>5. CASE ClientOf[g] \in up
    <3>1. /\ getAt' = [getAt EXCEPT ![g] = "deleting"] /\ UNCHANGED answer
          /\ wire' = Sent(w, ClientOf[g], Command("del", g, 0))
      BY <1>3, <2>5 DEF Get
    <3>2. Command("del", g, 0) \in Commands /\ CommandOK(ClientOf[g], Command("del", g, 0))'
      BY <1>1, <3>1, RedisAssumption DEF Command, Commands, CommandOK, CacheInv, CacheTypes
    <3>3. \A k \in DOMAIN w[ClientOf[g]] : ~(w[ClientOf[g]][k].by = Command("del", g, 0).by
                                             /\ w[ClientOf[g]][k].op = Command("del", g, 0).op)
      BY <1>1 DEF Command
    <3>4. wire' \in [Clients -> Seq(Commands)] /\ WiresOK(wire)'
      BY <1>1, <2>3, <3>1, <3>2, <3>3, SentOK
    <3>5. GetOK(g)'
      BY <1>1, <1>3, <2>1, <2>2, <3>1 DEF GetOK, CacheInv, CacheTypes
    <3> QED
      BY <2>1, <2>2, <2>4, <3>1, <3>4, <3>5 DEF CacheInv, CacheTypes, Versions
  <2>6. CASE ClientOf[g] \notin up
    <3>1. DelFails(g) /\ UNCHANGED wire
      BY <1>3, <2>6 DEF Get
    <3>2. GetOK(g)'
      BY <1>1, <1>3, <2>1, <3>1, Kinds DEF GetOK, DelFails, CacheInv, CacheTypes
    <3>3. CacheTypes'
      BY <2>1, <3>1, AnswerTypes DEF DelFails, CacheInv, CacheTypes, Versions
    <3> QED
      BY <2>1, <2>2, <2>3, <2>4, <3>1, <3>2, <3>3 DEF CacheInv, WiresOK
  <2> QED
    BY <2>5, <2>6
<1> QED
  BY <1>2, <1>3

(* Redis executes a command: what it answers concerns only the call that   *)
(* sent it.                                                                *)
LEMMA ExecuteSteps ==
  ASSUME CacheInv, NEW c \in Clients, Execute(c)
  PROVE  CacheInv'
<1>a. PICK rest : rest = [wire EXCEPT ![c] = Tail(@)]
  OBVIOUS
<1>b. PICK command : command = Head(wire[c])
  OBVIOUS
<1>1. /\ rest \in [Clients -> Seq(Commands)] /\ WiresOK(rest)
      /\ command \in Commands /\ CommandOK(c, command)
      /\ \A d \in Clients : \A k \in DOMAIN rest[d] :
           Awaits(command) /\ rest[d][k].by = command.by => rest[d][k].op # command.op
  <2>1. wire[c] # <<>>
    BY DEF Execute
  <2> QED
    BY <1>a, <1>b, <2>1, TakenOK
<1>2. UNCHANGED <<callbacks, forced, version, up, calculated>>
  BY DEF Execute
<1>3. CASE command.op = "get"
  <2> PICK g \in Gets : g = command.by
    BY <1>1, <1>3 DEF CommandOK
  <2>1. /\ LookedUp(g, rest) /\ UNCHANGED <<entry, calc>>
        /\ lookup[g] = "sent" /\ getAt[g] \in {"racing", "over"} /\ calc[g] # "none"
    BY <1>a, <1>b, <1>1, <1>3 DEF Execute, CommandOK, CacheInv, CacheTypes, GetOK
  <2>2. /\ \A h \in Gets : h # g => UNCHANGED <<getAt[h], lookup[h], answer[h]>>
        /\ \A d \in Clients : \A k \in DOMAIN rest[d] :
             rest[d][k].by = g => rest[d][k].op \notin {"get", "del"}
    <3>1. \A h \in Gets : h # g => UNCHANGED <<getAt[h], lookup[h], answer[h]>>
      BY <2>1 DEF LookedUp, Succeeded, Failed, CacheInv, CacheTypes
    <3>2. ASSUME NEW d \in Clients, NEW k \in DOMAIN rest[d], rest[d][k].by = g
          PROVE  rest[d][k].op \notin {"get", "del"}
      <4>1. rest[d][k].op # "get"
        BY <1>1, <1>3, <3>2 DEF Awaits
      <4>2. CommandOK(d, rest[d][k])
        BY <1>1 DEF WiresOK
      <4> QED
        BY <2>1, <3>2, <4>1, <4>2 DEF CommandOK
    <3> QED
      BY <3>1, <3>2
  <2>3. \A v : Left(v) => Left(v)'
    BY <1>2, <2>1, LeftStays
  <2>4. WiresOK(rest)'
    <3>1. \A d \in Clients : \A k \in DOMAIN rest[d] : rest[d][k].by \in Gets =>
            /\ rest[d][k].op = "get" => lookup'[rest[d][k].by] = lookup[rest[d][k].by]
            /\ rest[d][k].op = "del" => getAt'[rest[d][k].by] = getAt[rest[d][k].by]
      BY <2>2
    <3> QED
      BY <1>1, <1>2, <2>1, <3>1, KeepOK
  <2>5. ASSUME NEW h \in Gets, h # g PROVE GetOK(h)'
    BY <1>2, <2>1, <2>2, <2>3, <2>5, OthersOK DEF CacheInv
  <2>6. CASE entry # 0 /\ callbacks
    <3> PICK v : v = entry
      OBVIOUS
    <3>1. /\ v \in 0..MaxVersion /\ Left(v) /\ Left(v)' /\ Succeeded(g, v, rest)
          /\ lookup' = [lookup EXCEPT ![g] = "hit"]
      BY <2>1, <2>3, <2>6 DEF LookedUp, CacheInv, CacheTypes
    <3>2. wire' \in [Clients -> Seq(Commands)] /\ WiresOK(wire)'
      BY <1>1, <2>4, <3>1, ValueIsSent DEF CacheInv
    <3>3. GetOK(g)'
      BY <1>2, <2>1, <2>3, <2>6, <3>1, Kinds DEF GetOK, Succeeded, CacheInv, CacheTypes
    <3>4. CacheTypes'
      BY <1>2, <2>1, <3>1, <3>2, AnswerTypes DEF CacheInv, CacheTypes, Versions, Succeeded
    <3> QED
      BY <1>2, <2>1, <2>3, <2>5, <3>2, <3>3, <3>4 DEF CacheInv
  <2>7. CASE ~(entry # 0 /\ callbacks)
    <3>1. Failed(g, "cache") /\ wire' = rest /\ lookup' = [lookup EXCEPT ![g] = "failed"]
      BY <2>1, <2>7 DEF LookedUp
    <3>2. GetOK(g)'
      BY <1>2, <2>1, <2>3, <3>1, Kinds DEF GetOK, Failed, CacheInv, CacheTypes
    <3>3. CacheTypes'
      BY <1>1, <1>2, <2>1, <3>1, AnswerTypes DEF CacheInv, CacheTypes, Versions, Failed
    <3> QED
      BY <1>2, <2>1, <2>3, <2>4, <2>5, <3>1, <3>2, <3>3 DEF CacheInv, WiresOK
  <2> QED
    BY <2>6, <2>7
<1>4. CASE command.op = "del" /\ command.by \in Gets
  <2> PICK g \in Gets : g = command.by
    BY <1>4
  <2>1. StartRace(g, rest) /\ entry' = 0 /\ getAt[g] = "deleting"
    BY <1>a, <1>b, <1>1, <1>4 DEF Execute, CommandOK
  <2>2. ASSUME NEW d \in Clients, NEW k \in DOMAIN rest[d], rest[d][k].by = g
        PROVE  rest[d][k].op \notin {"get", "del"}
    <3>1. rest[d][k].op # "del"
      BY <1>1, <1>4, <2>2 DEF Awaits
    <3>2. CommandOK(d, rest[d][k]) /\ lookup[g] = "none"
      BY <1>1, <2>1 DEF WiresOK, CacheInv, GetOK
    <3> QED
      BY <2>2, <3>1, <3>2 DEF CommandOK
  <2> QED
    <3>1. CacheTypes /\ (\A h \in Gets : GetOK(h)) /\ (entry = 0 \/ Left(entry))
      BY DEF CacheInv
    <3>2. \A d \in Clients : \A k \in DOMAIN rest[d] : rest[d][k].by = g => rest[d][k].op \notin {"get", "del"}
      BY <2>2
    <3>3. getAt[g] \in {"new", "deleting"} /\ entry' \in {0, entry} /\ StartRace(g, rest)
      BY <2>1
    <3>4. rest \in [Clients -> Seq(Commands)] /\ WiresOK(rest)
      BY <1>1
    <3> QED
      BY <1>2, <3>1, <3>2, <3>3, <3>4, RaceStarts
<1>5. CASE command.op = "set" \/ (command.op = "del" /\ command.by \notin Gets)
  <2>1. /\ wire' = rest /\ UNCHANGED <<getAt, calc, lookup, lastError, answer>>
        /\ entry' = 0 \/ (entry' = command.value /\ command.op = "set")
    BY <1>a, <1>b, <1>5 DEF Execute
  <2>2. \A v : Left(v) => Left(v)'
    BY <1>2, <2>1, LeftStays
  <2>3. entry' \in 0..MaxVersion /\ (entry' = 0 \/ Left(entry)')
    <3>1. CASE entry' = 0
      BY <3>1, RedisAssumption
    <3>2. CASE entry' = command.value /\ command.op = "set"
      <4>1. Left(command.value)' /\ command.value \in 0..MaxVersion
        BY <1>1, <2>2, <3>2 DEF CommandOK, Commands
      <4> QED
        BY <3>2, <4>1 DEF Left
    <3> QED
      BY <2>1, <3>1, <3>2
  <2>4. WiresOK(rest)'
    BY <1>1, <1>2, <2>1, KeepOK
  <2>5. \A h \in Gets : GetOK(h)'
    BY <1>2, <2>1, <2>2, OthersOK DEF CacheInv
  <2> QED
    <3>1. CacheTypes'
      BY <1>1, <1>2, <2>1, <2>3 DEF CacheInv, CacheTypes, Versions
    <3>2. WiresOK(wire)'
      BY <2>1, <2>4, SameWires
    <3> QED
      BY <2>3, <2>5, <3>1, <3>2 DEF CacheInv
<1> QED
  BY <1>1, <1>3, <1>4, <1>5 DEF Commands

(* A connection breaks: each command on it fails for the call that sent    *)
(* it, and that call waits for nothing else on it.                         *)
LEMMA BreakSteps ==
  ASSUME CacheInv, NEW c \in Clients, Break(c)
  PROVE  CacheInv'
<1> DEFINE of(op) == {g \in Gets : \E k \in DOMAIN wire[c] : wire[c][k].op = op /\ wire[c][k].by = g}
           over == of("del") \cup {g \in of("get") : answer[g] = Pending /\ calc[g] = "failed"}
<1>1. /\ UNCHANGED <<callbacks, forced, version, calc, calculated>>
      /\ wire' = [wire EXCEPT ![c] = <<>>] /\ up' = up \ {c}
      /\ lookup' = [g \in Gets |-> IF g \in of("get") THEN "failed" ELSE lookup[g]]
      /\ lastError' = [g \in Gets |-> IF g \in of("get") THEN "cache" ELSE lastError[g]]
      /\ answer' = [g \in Gets |-> IF g \in of("del") THEN Error("invalidation")
                                   ELSE IF g \in over THEN Error("cache") ELSE answer[g]]
      /\ getAt' = [g \in Gets |-> IF g \in over THEN "over" ELSE getAt[g]]
  BY DEF Break
<1>2. \A v : Left(v) => Left(v)'
  BY <1>1, LeftStays
<1>3. /\ \A g \in of("get") : lookup[g] = "sent" /\ getAt[g] \in {"racing", "over"} /\ c = ClientOf[g]
      /\ \A g \in of("del") : getAt[g] = "deleting" /\ c = ClientOf[g]
  <2>1. ASSUME NEW g \in Gets, NEW k \in DOMAIN wire[c], wire[c][k].by = g
        PROVE  /\ wire[c][k].op = "get" =>
                    lookup[g] = "sent" /\ getAt[g] \in {"racing", "over"} /\ c = ClientOf[g]
               /\ wire[c][k].op = "del" => getAt[g] = "deleting" /\ c = ClientOf[g]
    <3>1. CommandOK(c, wire[c][k]) /\ GetOK(g) /\ getAt[g] \in {"new", "deleting", "racing", "over"}
      BY DEF CacheInv, CacheTypes, WiresOK
    <3> QED
      BY <2>1, <3>1 DEF CommandOK, GetOK
  <2> QED
    BY <2>1
<1>4. entry' \in 0..MaxVersion /\ (entry' = 0 \/ Left(entry)')
  <2>1. CASE entry' = entry
    BY <1>2, <2>1 DEF CacheInv, CacheTypes, Left
  <2>2. ASSUME NEW k \in DOMAIN wire[c], wire[c][k].op # "get", entry' = wire[c][k].value PROVE <1>4
    <3> PICK v : v = wire[c][k].value
      OBVIOUS
    <3>1. wire[c][k] \in Commands /\ CommandOK(c, wire[c][k])
      BY DEF CacheInv, CacheTypes, WiresOK
    <3>2. v \in 0..MaxVersion /\ (v = 0 \/ Left(v))
      BY <2>2, <3>1 DEF CommandOK, Commands
    <3>3. v \in 0..MaxVersion /\ (v = 0 \/ Left(v)')
      BY <1>2, <3>2
    <3> QED
      BY <2>2, <3>3 DEF Left
  <2> QED
    BY <2>1, <2>2 DEF Break
<1>5. \A d \in Clients : wire'[d] = IF d = c THEN <<>> ELSE wire[d]
  BY <1>1 DEF CacheInv, CacheTypes
<1>6. WiresOK(wire)'
  <2> PICK w : w = wire'
    OBVIOUS
  <2>1. w \in [Clients -> Seq(Commands)] /\ WiresOK(w)
    <3>1. w \in [Clients -> Seq(Commands)]
      BY <1>1 DEF CacheInv, CacheTypes
    <3> QED
      <4>1. ASSUME NEW d \in Clients, NEW k \in DOMAIN w[d]
            PROVE  d # c /\ w[d] = wire[d]
        BY <1>5
      <4>2. WiresOK(wire)
        BY DEF CacheInv
      <4> QED
        BY <3>1, <4>1, <4>2 DEF WiresOK
  <2>2. ASSUME NEW d \in Clients, NEW k \in DOMAIN w[d], w[d][k].by \in Gets
        PROVE  /\ w[d][k].op = "get" => lookup'[w[d][k].by] = lookup[w[d][k].by]
               /\ w[d][k].op = "del" => getAt'[w[d][k].by] = getAt[w[d][k].by]
    <3>1. d # c /\ w[d][k] = wire[d][k] /\ CommandOK(d, wire[d][k])
      BY <1>5, <2>1 DEF WiresOK
    <3>2. w[d][k].op = "get" => w[d][k].by \notin of("get")
      BY <1>3, <3>1 DEF CommandOK
    <3>3. w[d][k].op = "del" => w[d][k].by \notin over
      BY <1>3, <3>1 DEF CommandOK
    <3> HIDE DEF of, over
    <3> QED
      BY <1>1, <2>2, <3>2, <3>3
  <2>3. WiresOK(w)'
    <3>1. \A d \in Clients : \A k \in DOMAIN w[d] : w[d][k].by \in Gets =>
            /\ w[d][k].op = "get" => lookup'[w[d][k].by] = lookup[w[d][k].by]
            /\ w[d][k].op = "del" => getAt'[w[d][k].by] = getAt[w[d][k].by]
      BY <2>2
    <3>2. \A h \in Gets : calc[h] = "ok" => calc'[h] = "ok" /\ calculated'[h] = calculated[h]
      BY <1>1
    <3> HIDE DEF of, over
    <3> QED
      BY <2>1, <3>1, <3>2, KeepOK
  <2> QED
    BY <2>3, SameWires
<1>7. CacheTypes'
  <2> HIDE DEF of, over
  <2>1. answer' \in [Gets -> Answers]
    BY <1>1, AnswerTypes DEF CacheInv, CacheTypes
  <2> QED
    BY <1>1, <1>4, <2>1 DEF CacheInv, CacheTypes, Versions
<1>8. ASSUME NEW g \in Gets PROVE GetOK(g)'
  <2>1. GetOK(g) /\ CacheTypes
    BY DEF CacheInv
  <2>2. CASE g \in of("del")
    <3>1. g \in over /\ g \notin of("get")
      BY <1>3, <2>2
    <3>2. getAt[g] = "deleting"
      BY <1>3, <2>2
    <3> HIDE DEF of, over
    <3>3. /\ answer'[g] = Error("invalidation") /\ getAt'[g] = "over"
          /\ UNCHANGED <<callbacks, forced, calc[g], lookup[g]>>
      BY <1>1, <2>1, <2>2, <3>1 DEF CacheTypes
    <3> QED
      BY <2>1, <3>2, <3>3, Kinds DEF GetOK
  <2>3. CASE g \in of("get") /\ g \notin of("del")
    <3>1. CASE answer[g] = Pending /\ calc[g] = "failed"
      BY <1>1, <1>3, <2>1, <2>3, <3>1, Kinds DEF GetOK
    <3>2. CASE ~(answer[g] = Pending /\ calc[g] = "failed")
      <4>1. g \notin over
        BY <2>3, <3>2
      <4>2. lookup[g] = "sent" /\ getAt[g] \in {"racing", "over"}
        BY <1>3, <2>3
      <4> HIDE DEF of, over
      <4>3. /\ UNCHANGED <<callbacks, forced, calc[g], calculated[g], getAt[g], answer[g]>>
            /\ lookup'[g] = "failed"
        BY <1>1, <2>1, <2>3, <4>1 DEF CacheTypes
      <4> QED
        BY <1>2, <2>1, <3>2, <4>2, <4>3, Kinds DEF GetOK
    <3> QED
      BY <3>1, <3>2
  <2>4. CASE g \notin of("get") /\ g \notin of("del")
    <3>1. g \notin over
      BY <2>4
    <3> HIDE DEF of, over
    <3>2. UNCHANGED <<callbacks, forced, getAt[g], calc[g], lookup[g], answer[g]>>
      BY <1>1, <2>1, <2>4, <3>1 DEF CacheTypes
    <3> QED
      BY <1>1, <1>2, <2>1, <3>2, OthersOK
  <2> QED
    BY <2>2, <2>3, <2>4
<1> QED
  BY <1>4, <1>6, <1>7, <1>8 DEF CacheInv

LEMMA OtherCacheSteps ==
  ASSUME CacheInv, NEW c, (c \in Clients /\ (Reconnect(c) \/ Invalidate(c)))
                            \/ Change \/ Expire \/ UNCHANGED redisVars
  PROVE  CacheInv'
<1> PICK w : w = wire
  OBVIOUS
<1>1. UNCHANGED <<callbacks, forced, getAt, calc, calculated, lookup, lastError, answer>>
  BY DEF Reconnect, Invalidate, Change, Expire, redisVars
<1>2. \A v : Left(v) => Left(v)'
  BY <1>1, LeftStays
<1>3. w \in [Clients -> Seq(Commands)] /\ WiresOK(w)'
  BY <1>1, KeepOK DEF CacheInv, CacheTypes
<1>4. \A h \in Gets : GetOK(h)'
  BY <1>1, <1>2, OthersOK DEF CacheInv
<1>5. version' \in Versions /\ entry' \in {0, entry} /\ up' \subseteq Clients
  BY RedisAssumption DEF CacheInv, CacheTypes, Versions, Reconnect, Invalidate, Change, Expire, redisVars
<1>6. entry' \in 0..MaxVersion /\ (entry' = 0 \/ Left(entry)')
  BY <1>1, <1>5, RedisAssumption DEF CacheInv, CacheTypes, Left
<1>7. wire' \in [Clients -> Seq(Commands)] /\ WiresOK(wire)'
  <2>1. CASE UNCHANGED wire
    BY <1>3, <2>1 DEF WiresOK
  <2>2. CASE c \in Clients /\ Invalidate(c)
    <3>1. /\ Command("del", "nobody", 0) \in Commands /\ CommandOK(c, Command("del", "nobody", 0))'
          /\ ~Awaits(Command("del", "nobody", 0)) /\ wire' = Sent(w, c, Command("del", "nobody", 0))
      BY <2>2, RedisAssumption DEF Invalidate, Command, Commands, CommandOK, Awaits
    <3> QED
      BY <1>3, <2>2, <3>1, SentOK
  <2> QED
    BY <2>1, <2>2 DEF Reconnect, Change, Expire, redisVars
<1> QED
  BY <1>1, <1>4, <1>5, <1>6, <1>7 DEF CacheInv, CacheTypes

LEMMA NextCache == CacheInv /\ [RedisNext]_redisVars => CacheInv'
<1> SUFFICES ASSUME CacheInv, [RedisNext]_redisVars PROVE CacheInv'
  OBVIOUS
<1>1. ASSUME NEW g \in Gets, GetStep(g) PROVE CacheInv'
  BY <1>1, GetSteps, CalculationSteps DEF GetStep
<1>2. ASSUME NEW c \in Clients, Execute(c) \/ Break(c) PROVE CacheInv'
  BY <1>2, ExecuteSteps, BreakSteps
<1>3. ASSUME NEW c \in Clients, Reconnect(c) \/ Invalidate(c) PROVE CacheInv'
  BY <1>3, OtherCacheSteps
<1>4. CASE Change \/ Expire \/ UNCHANGED redisVars
  BY <1>4, OtherCacheSteps
<1> QED
  BY <1>1, <1>2, <1>3, <1>4 DEF RedisNext

(* For any number of calls, processes, breaks and invalidations: whatever  *)
(* happens to Redis, get() rejects only when the calculation has failed or *)
(* the invalidation that was asked for, and it answers its own calculation *)
(* or what some calculation left (client.ts:90-124).                       *)
THEOREM CacheIsNotNoticed == RedisInit /\ [][RedisNext]_redisVars => []AnswersDespiteCache
<1>1. CacheInv => AnswersDespiteCache
  BY DEF CacheInv, GetOK, Left, AnswersDespiteCache
<1> QED
  BY <1>1, InitCache, NextCache, PTL
-----------------------------------------------------------------------------
(* The unit tests of a project.  As many columns, one for each of others'  *)
(* names: then there is one of others' for each of them.                   *)
LEMMA ColumnsCorrespond ==
  ASSUME NEW A, NEW B, IsFiniteSet(A), Cardinality(A) = Cardinality(B), NEW up2,
         \A c, d \in B : up2[c] = up2[d] => c = d,
         \A c, d \in A : up2[c] = up2[d] => c = d,
         \A d \in B : \E c \in A : up2[c] = up2[d]
  PROVE  \A c \in A : \E d \in B : up2[c] = up2[d]
<1> DEFINE f == [d \in B |-> CHOOSE c \in A : up2[c] = up2[d]]
<1>1. \A d \in B : f[d] \in A /\ up2[f[d]] = up2[d]
  OBVIOUS
<1>2. f \in [B -> A]
  BY <1>1
<1> HIDE DEF f
<1>3. f \in Injection(B, A)
  BY <1>1, <1>2 DEF Injection, IsInjective
<1>4. f \in Surjection(B, A)
  BY <1>3, FS_Injection
<1>5. ASSUME NEW c \in A PROVE \E d \in B : f[d] = c
  BY <1>4 DEF Surjection
<1> QED
  BY <1>1, <1>5

LEMMA ResultTypes ==
  ASSUME NEW rows \in Results
  PROVE  /\ rows \in Seq(Rows)
         /\ \A i \in DOMAIN rows :
              /\ rows[i] \in [DOMAIN rows[1] -> Cells] /\ DOMAIN rows[1] \subseteq DOMAIN UpperCase
              /\ DOMAIN rows[i] = DOMAIN rows[1]
         /\ rows # <<>> => /\ IsFiniteSet(DOMAIN rows[1])
                           /\ \A c, d \in DOMAIN rows[1] : UpperCase[c] = UpperCase[d] => c = d
<1>1. rows \in Seq(Rows)
  BY TestCaseAssumption
<1>2. ASSUME NEW i \in DOMAIN rows
      PROVE  /\ DOMAIN rows[i] = DOMAIN rows[1] /\ DOMAIN rows[i] \subseteq DOMAIN UpperCase
             /\ rows[i] \in [DOMAIN rows[1] -> Cells]
  <2>1. rows[i] \in Rows /\ DOMAIN rows[i] = DOMAIN rows[1]
    BY <1>1, TestCaseAssumption
  <2> QED
    BY <2>1 DEF Rows
<1>3. ASSUME rows # <<>>
      PROVE  /\ IsFiniteSet(DOMAIN rows[1])
             /\ \A c, d \in DOMAIN rows[1] : UpperCase[c] = UpperCase[d] => c = d
  <2>1. 1 \in DOMAIN rows
    BY <1>1, <1>3
  <2> QED
    BY <1>2, <2>1, FS_Subset, TestCaseAssumption
<1> QED
  BY <1>1, <1>2, <1>3

(* With names unique, normalizeRow() finds a column by its name.           *)
LEMMA AtColumn ==
  ASSUME NEW rows \in Results, NEW i \in DOMAIN rows, NEW c \in DOMAIN rows[1]
  PROVE  At(rows[i], UpperCase[c]) = rows[i][c] /\ rows[i][c] \in Cells
<1>1. /\ rows[i] \in [DOMAIN rows[1] -> Cells] /\ DOMAIN rows[i] = DOMAIN rows[1]
      /\ \A a, b \in DOMAIN rows[1] : UpperCase[a] = UpperCase[b] => a = b
  BY ResultTypes
<1>2. (CHOOSE d \in DOMAIN rows[i] : UpperCase[d] = UpperCase[c]) = c
  BY <1>1
<1> QED
  BY <1>1, <1>2 DEF At

LEMMA SameTable ==
  ASSUME actual \in Results, expected \in Results, Successful
  PROVE  Table(actual) = Table(expected)
<1>1. DOMAIN actual = DOMAIN expected
  BY ResultTypes DEF Successful
<1> SUFFICES ASSUME NEW i \in DOMAIN actual
             PROVE  {<<UpperCase[c], actual[i][c]>> : c \in DOMAIN actual[i]}
                      = {<<UpperCase[c], expected[i][c]>> : c \in DOMAIN expected[i]}
  BY <1>1 DEF Table
<1> DEFINE A == DOMAIN actual[1]
           E == DOMAIN expected[1]
<1>2. actual # <<>> /\ expected # <<>> /\ DOMAIN actual[i] = A /\ DOMAIN expected[i] = E
  BY <1>1, ResultTypes
<1>3. /\ SameRow(actual[i], expected[i], A) /\ Cardinality(A) = Cardinality(E)
      /\ \A d \in E : \E c \in A : UpperCase[c] = UpperCase[d]
  BY <1>2 DEF Successful, SameColumns, Columns
<1>4. /\ \A c, d \in A : UpperCase[c] = UpperCase[d] => c = d
      /\ \A c, d \in E : UpperCase[c] = UpperCase[d] => c = d
      /\ IsFiniteSet(A)
  BY <1>2, ResultTypes
<1>5. \A c \in A : \E d \in E : UpperCase[c] = UpperCase[d]
  <2> HIDE DEF A, E
  <2> QED
    BY <1>3, <1>4, ColumnsCorrespond
<1>6. ASSUME NEW c \in A, NEW d \in E, UpperCase[c] = UpperCase[d]
      PROVE  actual[i][c] = expected[i][d]
  <2>1. At(actual[i], UpperCase[c]) = actual[i][c] /\ actual[i][c] \in Cells
    BY AtColumn
  <2>2. At(expected[i], UpperCase[c]) = expected[i][d] /\ expected[i][d] \in Cells
    BY <1>1, <1>6, AtColumn
  <2>3. actual[i][c].type = expected[i][d].type /\ actual[i][c].value = expected[i][d].value
    BY <1>3, <2>1, <2>2 DEF SameRow
  <2> QED
    BY <2>1, <2>2, <2>3, TestCaseAssumption
<1> HIDE DEF A, E
<1> QED
  BY <1>2, <1>3, <1>5, <1>6

LEMMA TableIsSuccessful ==
  ASSUME actual \in Results, expected \in Results, Table(actual) = Table(expected)
  PROVE  Successful
<1>1. DOMAIN actual = DOMAIN expected
  BY DEF Table
<1>2. Len(actual) = Len(expected)
  BY <1>1, ResultTypes
<1> SUFFICES ASSUME actual # <<>>
             PROVE  /\ SameColumns(actual, expected)
                    /\ \A i \in DOMAIN actual : SameRow(actual[i], expected[i], Columns(actual))
  BY <1>2 DEF Successful
<1> DEFINE A == DOMAIN actual[1]
           E == DOMAIN expected[1]
<1>3. 1 \in DOMAIN actual /\ expected # <<>>
  BY <1>1, ResultTypes
<1>4. ASSUME NEW i \in DOMAIN actual
      PROVE  {<<UpperCase[c], actual[i][c]>> : c \in A} = {<<UpperCase[c], expected[i][c]>> : c \in E}
  <2>1. DOMAIN actual[i] = A /\ DOMAIN expected[i] = E
    BY <1>1, ResultTypes
  <2>2. Table(actual)[i] = Table(expected)[i]
    OBVIOUS
  <2> QED
    BY <1>1, <2>1, <2>2 DEF Table
<1>5. /\ \A c, d \in A : UpperCase[c] = UpperCase[d] => c = d
      /\ \A c, d \in E : UpperCase[c] = UpperCase[d] => c = d
      /\ IsFiniteSet(A) /\ IsFiniteSet(E)
  BY <1>3, ResultTypes
<1>6. ASSUME NEW i \in DOMAIN actual, NEW c \in A
      PROVE  \E d \in E : UpperCase[d] = UpperCase[c] /\ expected[i][d] = actual[i][c]
  <2> HIDE DEF A, E
  <2>1. <<UpperCase[c], actual[i][c]>> \in {<<UpperCase[d], expected[i][d]>> : d \in E}
    BY <1>4
  <2>2. PICK d \in E : <<UpperCase[c], actual[i][c]>> = <<UpperCase[d], expected[i][d]>>
    BY <2>1
  <2> QED
    BY <2>2
<1>7. ASSUME NEW d \in E PROVE \E c \in A : UpperCase[c] = UpperCase[d]
  <2> HIDE DEF A, E
  <2>1. <<UpperCase[d], expected[1][d]>> \in {<<UpperCase[c], actual[1][c]>> : c \in A}
    BY <1>3, <1>4
  <2>2. PICK c \in A : <<UpperCase[d], expected[1][d]>> = <<UpperCase[c], actual[1][c]>>
    BY <2>1
  <2> QED
    BY <2>2
<1>8. Cardinality(A) = Cardinality(E)
  <2> DEFINE f == [c \in A |-> CHOOSE d \in E : UpperCase[d] = UpperCase[c]]
  <2>1. \A c \in A : f[c] \in E /\ UpperCase[f[c]] = UpperCase[c]
    BY <1>3, <1>6
  <2>2. f \in [A -> E]
    BY <2>1
  <2> HIDE DEF f, A, E
  <2>3. f \in Injection(A, E)
    BY <1>5, <2>1, <2>2 DEF Injection, IsInjective
  <2>4. ASSUME NEW d \in E PROVE \E c \in A : f[c] = d
    BY <1>5, <1>7, <2>1
  <2>5. f \in Surjection(A, E)
    BY <2>2, <2>4 DEF Surjection
  <2> QED
    BY <1>5, <2>3, <2>5, FS_Injection
<1>9. ASSUME NEW i \in DOMAIN actual PROVE SameRow(actual[i], expected[i], A)
  <2> SUFFICES ASSUME NEW c \in A
               PROVE  At(actual[i], UpperCase[c]) = At(expected[i], UpperCase[c])
    BY DEF SameRow
  <2>1. PICK d \in E : UpperCase[d] = UpperCase[c] /\ expected[i][d] = actual[i][c]
    BY <1>6
  <2>2. At(expected[i], UpperCase[d]) = expected[i][d]
    BY <1>1, AtColumn
  <2>3. At(actual[i], UpperCase[c]) = actual[i][c]
    BY AtColumn
  <2> QED
    BY <2>1, <2>2, <2>3
<1> QED
  BY <1>7, <1>8, <1>9 DEF SameColumns, Columns

VerdictInv ==
  /\ actual \in Results /\ expected \in Results
  /\ executions \in [actual : {"running", "answered", "rejected"},
                     expected : {"running", "answered", "rejected"}]
  /\ verdict \in {"none", "successful", "failed"}
  /\ verdict = "successful" =>
       Successful /\ executions.actual = "answered" /\ executions.expected = "answered"
  /\ verdict = "failed" =>
       ~Successful \/ executions.actual = "rejected" \/ executions.expected = "rejected"

LEMMA NextVerdict == VerdictInv /\ [TestCaseNext]_testCaseVars => VerdictInv'
<1> SUFFICES ASSUME VerdictInv, [TestCaseNext]_testCaseVars PROVE VerdictInv'
  OBVIOUS
<1> USE DEF VerdictInv
<1>1. DOMAIN executions = {"actual", "expected"} /\ UNCHANGED <<actual, expected>>
  BY DEF TestCaseNext, Answered, Rejected, testCaseVars
<1>2. Successful' = Successful
  BY <1>1 DEF Successful, SameColumns, SameRow, Columns, At
<1>3. ASSUME NEW q \in {"actual", "expected"}, Answered(q) PROVE VerdictInv'
  <2>1. DOMAIN executions' = {"actual", "expected"}
    BY <1>3 DEF Answered
  <2> QED
    BY <1>1, <1>2, <1>3, <2>1 DEF Answered
<1>4. ASSUME NEW q \in {"actual", "expected"}, Rejected(q) PROVE VerdictInv'
  BY <1>1, <1>2, <1>4 DEF Rejected
<1>5. CASE UNCHANGED testCaseVars
  BY <1>2, <1>5 DEF testCaseVars
<1> QED
  BY <1>1, <1>3, <1>4, <1>5 DEF TestCaseNext

(* For results of any size with any columns: a unit test succeeds exactly  *)
(* when both queries have given the same table, in whichever order they    *)
(* end (api/commands/test.ts:11-115).                                      *)
THEOREM VerdictsAreTables == TestCaseInit /\ [][TestCaseNext]_testCaseVars => []TestVerdicts
<1>1. TestCaseInit => VerdictInv
  BY DEF TestCaseInit, VerdictInv
<1>2. VerdictInv => TestVerdicts
  <2> SUFFICES ASSUME VerdictInv PROVE TestVerdicts
    OBVIOUS
  <2>1. DOMAIN executions = {"actual", "expected"} /\ (Successful <=> Table(actual) = Table(expected))
    BY SameTable, TableIsSuccessful DEF VerdictInv
  <2> QED
    BY <2>1 DEF VerdictInv, TestVerdicts
<1> QED
  BY <1>1, <1>2, NextVerdict, PTL
-----------------------------------------------------------------------------
(* The whole of what the run on them checks, save that they settle.        *)
THEOREM ServicesAreRight ==
  ServicesSpec =>
    [](AnswersDespiteCache /\ NothingOutlivesAQuery /\ GreenMeansAllPassed /\ TestVerdicts)
<1>1. ServicesInit => RedisInit /\ QueryInit /\ TestInit /\ TestCaseInit
  BY DEF ServicesInit, RedisIdle, QueryIdle, TestIdle, TestCaseIdle
<1>2. [ServicesNext]_servicesVars => /\ [RedisNext]_redisVars /\ [QueryNext]_queryVars
                                     /\ [TestNext]_testVars /\ [TestCaseNext]_testCaseVars
  BY DEF ServicesNext, servicesVars
<1> QED
  BY <1>1, <1>2, CacheIsNotNoticed, NothingIsLeftBehind, GreenIsEarned, VerdictsAreTables, PTL
     DEF ServicesSpec, QuerySpec
=============================================================================
