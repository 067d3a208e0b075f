------------------------------- MODULE TestRun -------------------------------
(***************************************************************************)
(* The test framework of src/testing: Runner.run() runs the top level      *)
(* suites together; a suite runs its set ups, its suites and tests, and    *)
(* its tear downs; a test is attempted until it passes, each attempt with  *)
(* its before- and after-each hooks racing a timer.                        *)
(*                                                                         *)
(* An attempt that has timed out is not stopped: it goes on beside         *)
(* whatever comes next, and its hooks still report their failures.  Bodies *)
(* of tests and hooks pass, throw, or never end.  A result that is not     *)
(* "passed" counts the same whether it is "failed" or "timeout", and all   *)
(* hooks of a place are one.                                               *)
(***************************************************************************)
EXTENDS Naturals, Sequences, FiniteSets

CONSTANTS
  Suites,      \* suites
  Tests,       \* tests
  Parts,       \* suites and tests of each suite, in the order in which they run
  Retries      \* options.retries of every test

HasPart(s, p) == \E k \in DOMAIN Parts[s] : Parts[s][k] = p

(* A test is created in a suite, and a suite is complete before the suite  *)
(* that it is in: no set of suites holds all the owners of its members.    *)
ASSUME TestAssumption ==
  /\ Suites \cap Tests = {} /\ Retries \in Nat
  /\ Parts \in [Suites -> Seq(Suites \cup Tests)]
  /\ \A t \in Tests : \E s \in Suites : HasPart(s, t)
  /\ \A S \in SUBSET Suites : S # {} => \E s \in S : \A p \in S : ~HasPart(p, s)

VARIABLES
  parallel,  \* suites with that option, chosen once
  matching,  \* tests whose path matches testNameMatcher, chosen once
  suiteAt,   \* where each suite is
  attempt,   \* the current attempt of each test
  place,     \* where each attempt is
  race,      \* the current attempt's race with its timer, or that the test is over
  results,   \* what was pushed to ctx.results
  exitCode   \* of the process, 2 while it runs

testVars == <<parallel, matching, suiteAt, attempt, place, race, results, exitCode>>

Attempts == 0..Retries
Outcomes == {"passed", "failed"}

TestTypeOK ==
  /\ parallel \subseteq Suites /\ matching \subseteq Tests
  /\ suiteAt \in [Suites -> {"new", "setUp", "body", "tearDown", "over"}]
  /\ attempt \in [Tests -> Attempts]
  /\ place \in [Tests -> [Attempts -> {"none", "beforeEach", "body", "afterEach", "afterThrow", "over"}]]
  /\ race \in [Tests -> {"new", "running", "over"}]
  /\ results \subseteq (Tests \cup Suites) \X {"hook", "test"} \X Outcomes
  /\ exitCode \in {2, 0, 1}

TestInit ==
  /\ parallel \in SUBSET Suites /\ matching \in SUBSET Tests
  /\ suiteAt = [s \in Suites |-> "new"]
  /\ attempt = [t \in Tests |-> 0]
  /\ place = [t \in Tests |-> [i \in Attempts |-> "none"]]
  /\ race = [t \in Tests |-> "new"]
  /\ results = {}
  /\ exitCode = 2
-----------------------------------------------------------------------------
Over(p) == IF p \in Suites THEN suiteAt[p] = "over" ELSE race[p] = "over"
TopLevel == {s \in Suites : \A p \in Suites : ~HasPart(p, s)}

(* A part runs when its suite's set ups have ended, and, in a suite that   *)
(* is not parallel, all parts before it.                                   *)
Turn(p) ==
  \/ p \in TopLevel
  \/ \E s \in Suites : \E k \in DOMAIN Parts[s] :
       /\ Parts[s][k] = p /\ suiteAt[s] = "body"
       /\ s \in parallel \/ \A j \in 1..(k - 1) : Over(Parts[s][j])

(* Mutant: a hook that fails only throws.                                  *)
HookResultsLost(of, outcome) == results

(* Hook.run(): only failures are reported, and then thrown.                *)
HookResults(of, outcome) ==
  IF outcome = "passed" THEN results ELSE results \cup {<<of, "hook", "failed">>}

StartSuite(s) ==
  /\ suiteAt[s] = "new" /\ Turn(s)
  /\ suiteAt' = [suiteAt EXCEPT ![s] = "setUp"]
  /\ UNCHANGED <<parallel, matching, attempt, place, race, results, exitCode>>

(* A set up that fails keeps everything but the tear downs from running.   *)
SetUpEnds(s, outcome) ==
  /\ suiteAt[s] = "setUp"
  /\ suiteAt' = [suiteAt EXCEPT ![s] = IF outcome = "passed" THEN "body" ELSE "tearDown"]
  /\ results' = HookResults(s, outcome)
  /\ UNCHANGED <<parallel, matching, attempt, place, race, exitCode>>

BodyEnds(s) ==
  /\ suiteAt[s] = "body"
  /\ \A k \in DOMAIN Parts[s] : Over(Parts[s][k])
  /\ suiteAt' = [suiteAt EXCEPT ![s] = "tearDown"]
  /\ UNCHANGED <<parallel, matching, attempt, place, race, results, exitCode>>

TearDownEnds(s, outcome) ==
  /\ suiteAt[s] = "tearDown"
  /\ suiteAt' = [suiteAt EXCEPT ![s] = "over"]
  /\ results' = HookResults(s, outcome)
  /\ UNCHANGED <<parallel, matching, attempt, place, race, exitCode>>
-----------------------------------------------------------------------------
(* Test.run().  Tests that do not match are not run and have no result.    *)
StartTest(t) ==
  /\ race[t] = "new" /\ Turn(t)
  /\ race' = [race EXCEPT ![t] = IF t \in matching THEN "running" ELSE "over"]
  /\ place' = IF t \in matching THEN [place EXCEPT ![t][0] = "beforeEach"] ELSE place
  /\ UNCHANGED <<parallel, matching, suiteAt, attempt, results, exitCode>>

(* The race of the current attempt is decided: the result of the last one  *)
(* is pushed, or the next attempt begins; at, with what has become of      *)
(* places and pushed, with the results so far.                             *)
Decided(t, outcome, at, pushed) ==
  IF outcome = "passed" \/ attempt[t] = Retries
  THEN /\ race' = [race EXCEPT ![t] = "over"]
       /\ results' = pushed \cup {<<t, "test", outcome>>}
       /\ place' = at /\ UNCHANGED attempt
  ELSE /\ attempt' = [attempt EXCEPT ![t] = @ + 1]
       /\ place' = [at EXCEPT ![t][attempt[t] + 1] = "beforeEach"]
       /\ results' = pushed /\ UNCHANGED race

(* An attempt moves on, or ends with outcome; it decides the race if it is *)
(* the current attempt.                                                    *)
MoveTo(t, i, to) ==
  /\ place' = [place EXCEPT ![t][i] = to]
  /\ UNCHANGED <<attempt, race, results>>

AttemptEnds(t, i, outcome, pushed) ==
  LET at == [place EXCEPT ![t][i] = "over"]
  IN IF race[t] = "running" /\ i = attempt[t]
     THEN Decided(t, outcome, at, pushed)
     ELSE place' = at /\ results' = pushed /\ UNCHANGED <<attempt, race>>

BeforeEachEnds(t, i, outcome) ==
  /\ place[t][i] = "beforeEach"
  /\ IF outcome = "passed"
     THEN MoveTo(t, i, "body")
     ELSE AttemptEnds(t, i, "failed", HookResults(t, outcome))
  /\ UNCHANGED <<parallel, matching, suiteAt, exitCode>>

(* The after-each hooks run also when the test has thrown.                 *)
TestBodyEnds(t, i) ==
  /\ place[t][i] = "body"
  /\ \E to \in {"afterEach", "afterThrow"} : MoveTo(t, i, to)
  /\ UNCHANGED <<parallel, matching, suiteAt, exitCode>>

AfterEachEnds(t, i, outcome) ==
  /\ place[t][i] \in {"afterEach", "afterThrow"}
  /\ AttemptEnds(t, i, IF outcome = "passed" /\ place[t][i] = "afterEach" THEN "passed" ELSE "failed",
                 HookResults(t, outcome))
  /\ UNCHANGED <<parallel, matching, suiteAt, exitCode>>

(* Mutant: an attempt is awaited as it is.                                 *)
TestTimesOutNever(t) == FALSE /\ UNCHANGED testVars

(* The timer of the current attempt.                                       *)
TestTimesOut(t) ==
  /\ race[t] = "running"
  /\ Decided(t, "failed", place, results)
  /\ UNCHANGED <<parallel, matching, suiteAt, exitCode>>

(* All top level suites have ended: the verdict, and exit().               *)
RunnerEnds ==
  /\ exitCode = 2
  /\ \A s \in TopLevel : Over(s)
  /\ exitCode' = IF \A r \in results : r[3] = "passed" THEN 0 ELSE 1
  /\ UNCHANGED <<parallel, matching, suiteAt, attempt, place, race, results>>

SuiteStep(s) == StartSuite(s) \/ BodyEnds(s)
TestStep(t) == StartTest(t) \/ TestTimesOut(t)
HookTimers ==
  \/ \E s \in Suites : SetUpEnds(s, "failed") \/ TearDownEnds(s, "failed")
  \/ \E t \in Tests, i \in Attempts : BeforeEachEnds(t, i, "failed") \/ AfterEachEnds(t, i, "failed")

TestNext ==
  /\ exitCode = 2
  /\ \/ \E s \in Suites : SuiteStep(s) \/ \E o \in Outcomes : SetUpEnds(s, o) \/ TearDownEnds(s, o)
     \/ \E t \in Tests : TestStep(t)
     \/ \E t \in Tests, i \in Attempts :
          TestBodyEnds(t, i) \/ \E o \in Outcomes : BeforeEachEnds(t, i, o) \/ AfterEachEnds(t, i, o)
     \/ RunnerEnds
-----------------------------------------------------------------------------
(* A run that exits with 0 has run every test it was asked for, and the    *)
(* last attempt of each has passed: none was left out because a set up     *)
(* before it failed, or timed out (runner.ts:93-107, suite.ts:84-106,      *)
(* test.ts:55-103).                                                        *)
GreenMeansAllPassed ==
  exitCode = 0 =>
    /\ \A t \in matching : <<t, "test", "passed">> \in results
    /\ \A t \in matching : place[t][attempt[t]] = "over"
=============================================================================
