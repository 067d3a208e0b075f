------------------------------ MODULE MCServices ------------------------------
(***************************************************************************)
(* What surrounds the executor, for TLC: the cache client, the query       *)
(* command, the SSH tunnel, the test command and the test framework.  They *)
(* do not interact: one is chosen in the initial state.                    *)
(***************************************************************************)
EXTENDS RedisCache, QueryCommand, SshTunnel, TestRun, TestCommand

VARIABLE part

servicesVars == <<part, redisVars, queryVars, tunnelVars, testVars, testCaseVars>>

SmallClientOf == [g \in Gets |-> IF g = "g3" THEN "c2" ELSE "c1"]
SmallParts ==
  [s \in Suites |-> IF s = "outer" THEN <<"inner", "t1">> ELSE <<"t2">>]

(* Columns of any case, values of different types that look the same.      *)
Number(n) == [type |-> "number", value |-> n]
Null == [type |-> "object", value |-> 0]
Values == {Number(1), Number(0), Null}
SmallRows ==
  {[c \in {"a"} |-> v] : v \in Values} \cup {[c \in {"A"} |-> v] : v \in Values}
    \cup {[c \in {"a", "b"} |-> IF c = "a" THEN v ELSE Number(1)] : v \in Values}
    \cup {[c \in {"B", "a"} |-> IF c = "a" THEN v ELSE Number(1)] : v \in Values}
SmallResults ==
  {<<>>} \cup {<<r>> : r \in SmallRows}
    \cup {<<r, [c \in DOMAIN r |-> Number(1)]>> : r \in SmallRows}
SmallUpperCase ==
  [c \in {"a", "A", "b", "B"} |-> IF c \in {"a", "A"} THEN "A" ELSE "B"]
ACase == CHOOSE r \in Results : TRUE

(* What does not take part stands still in some initial state.             *)
RedisIdle == RedisInit /\ callbacks /\ forced = {}
QueryIdle == QueryInit /\ compiles
TestIdle == TestInit /\ parallel = {} /\ matching = {}
TestCaseIdle == TestCaseInit /\ actual = ACase /\ expected = ACase

ServicesInit ==
  /\ part \in {"redis", "query", "tunnel", "tests", "test"}
  /\ IF part = "redis" THEN RedisInit ELSE RedisIdle
  /\ IF part = "query" THEN QueryInit ELSE QueryIdle
  /\ TunnelInit
  /\ IF part = "tests" THEN TestInit ELSE TestIdle
  /\ IF part = "test" THEN TestCaseInit ELSE TestCaseIdle

ServicesNext ==
  /\ UNCHANGED part
  /\ \/ part = "redis" /\ RedisNext /\ UNCHANGED <<queryVars, tunnelVars, testVars, testCaseVars>>
     \/ part = "query" /\ QueryNext /\ UNCHANGED <<redisVars, tunnelVars, testVars, testCaseVars>>
     \/ part = "tunnel" /\ TunnelNext /\ UNCHANGED <<redisVars, queryVars, testVars, testCaseVars>>
     \/ part = "tests" /\ TestNext /\ UNCHANGED <<redisVars, queryVars, tunnelVars, testCaseVars>>
     \/ part = "test" /\ TestCaseNext /\ UNCHANGED <<redisVars, queryVars, tunnelVars, testVars>>

(* What goes on by itself: the parent's and the libraries' callbacks, the  *)
(* warehouse, timers of compilations, tests and hooks, Redis, and          *)
(* calculations once they have begun.  Compilers, bodies of tests, sockets *)
(* and callers of cancel() may do nothing.                                 *)
RedisProgress ==
  /\ part = "redis" /\ UNCHANGED <<part, queryVars, tunnelVars, testVars, testCaseVars>>
  /\ \/ \E c \in Clients : Execute(c)
     \/ \E g \in Gets : Calculate(g) \/ CalculationEnds(g)
QueryProgress ==
  part = "query" /\ QueryStep /\ UNCHANGED <<part, redisVars, tunnelVars, testVars, testCaseVars>>
TunnelProgress ==
  part = "tunnel" /\ ServerCloses /\ UNCHANGED <<part, redisVars, queryVars, testVars, testCaseVars>>
TestProgress ==
  /\ part = "tests" /\ exitCode = 2
  /\ \/ \E s \in Suites : SuiteStep(s)
     \/ \E t \in Tests : TestStep(t)
     \/ HookTimers \/ RunnerEnds
  /\ UNCHANGED <<part, redisVars, queryVars, tunnelVars, testCaseVars>>

ServicesSpec == ServicesInit /\ [][ServicesNext]_servicesVars
FairServicesSpec ==
  /\ ServicesSpec
  /\ WF_servicesVars(RedisProgress) /\ WF_servicesVars(QueryProgress)
  /\ WF_servicesVars(TunnelProgress) /\ WF_servicesVars(TestProgress)

(* Nobody waits for ever: a get() for a connection that broke, a query for *)
(* a compiler that does not end, a run of tests for a test that does not   *)
(* end, or close() for connections that it knows                           *)
(* (client.ts:90-124, compile.ts:101-119, test.ts:63-89, hook.ts:48-59,    *)
(* ssh_tunnel_proxy.ts:68-73).                                             *)
ServicesSettle ==
  /\ \A g \in Gets : getAt[g] # "new" ~> getAt[g] = "over"
  /\ query # "new" ~> query \in {"resolved", "rejected"}
  /\ part = "tests" ~> exitCode # 2
  /\ tunnel = "closing" ~> tunnel = "closed" \/ Untracked # {}
=============================================================================
